--------------------------- MODULE StatusMonitor ---------------------------
(***************************************************************************)
(* What the behaviour matrix promises, told from the inputs alone: hist    *)
(* keeps what an observer of the DSP's reports would remember, and the     *)
(* properties relate it to what StatusMachine answered.                    *)
(***************************************************************************)
EXTENDS StatusMachine

VARIABLE hist

mvars == <<cfg, tm, in, res, hist>>

Clean(i) == /\ \A c \in Channels : i.ch[c].pulse /\ ~i.ch[c].fault
            /\ i.rpm = "ok"
EngineOff(i) == \A c \in Channels : ~i.ch[c].pulse /\ ~i.ch[c].fault
SameLevels(i, j) == \A c \in Channels : i.ch[c].level = j.ch[c].level

(* fresh: the result is of these settings; steady: the last tick saw the   *)
(* input of the tick before again, on a clock that did not go backwards;   *)
(* clean, off: for how long every channel has been measurable, or silent   *)
(* and sound; flat: how long ago the levels were last elsewhere; silent:   *)
(* for how long this channel alone has had no pulse; asks: requests since  *)
(* the last pulse or reset.                                                *)
NoHistory ==
  [fresh |-> FALSE, steady |-> FALSE,
   clean |-> NotRunning, off |-> NotRunning, flat |-> NotRunning,
   silent |-> [c \in Channels |-> NotRunning], asks |-> 0]

MInit == Init /\ hist = NoHistory

Observe(i, dt) ==
  LET h == IF dt < 0 THEN NoHistory ELSE hist
  IN hist' =
       [fresh |-> TRUE,
        steady |-> dt >= 0 /\ i = in,
        clean |-> Elapse(h.clean, Clean(i), dt, StableHold),
        off |-> Elapse(h.off, EngineOff(i), dt, OffHold),
        flat |-> Elapse(IF h.flat # NotRunning /\ ~SameLevels(i, in) THEN 0 ELSE h.flat,
                        TRUE, dt, SettleWindow),
        silent |-> [c \in Channels |-> Elapse(h.silent[c], IsLost(i.ch, c), dt, OffHold)],
        asks |-> IF Pulsing(i.ch) # {} THEN 0
                 ELSE IF res'.request /\ h.asks < 2 THEN h.asks + 1 ELSE h.asks]

MUpdate == \E i \in Inputs, zv \in BOOLEAN, dt \in Dts : Update(i, zv, dt) /\ Observe(i, dt)
MConfigure == ConfigureStep /\ hist' = NoHistory
MResetSettle == ResetSettle /\ hist' = [hist EXCEPT !.flat = NotRunning]

MNext == MUpdate \/ MConfigure \/ MResetSettle

MSpec == MInit /\ [][MNext]_mvars

(* sbx_proc calls tick every 50 ms for as long as the device runs, on a    *)
(* clock that goes on, so an input that persists is seen again and again;  *)
(* nobody has to touch the settings.                                       *)
SameInput ==
  /\ in \in Inputs
  /\ UNCHANGED <<cfg, in>>
  /\ \E zv \in BOOLEAN, dt \in {d \in Dts : d > 0} :
       /\ \E u \in {Updated(in, zv, dt)} : tm' = u.tm /\ res' = u.res
       /\ Observe(in, dt)

MFairSpec == MSpec /\ WF_mvars(SameInput)

-----------------------------------------------------------------------------
(* D12 and row 3: a verdict is only ever shown after StableHold of inputs  *)
(* in which every channel pulsed without a fault at a usable speed, all    *)
(* under the master the verdict is against.                                *)
VerdictEarned ==
  hist.fresh /\ res.state \in VerdictStates => Clean(in) /\ hist.clean >= StableHold

(* Row 6 and its extension: a channel is called disconnected or blocked    *)
(* only after it alone was silent for the hold time, so that a start or a  *)
(* stop, where channels gain and lose the pulse on different cycles, never *)
(* flashes a fault.                                                        *)
NoFaultFlash ==
  hist.fresh => \A c \in Channels :
    /\ res.cond[c] = "hose" => hist.silent[c] >= HoseHold
    /\ res.cond[c] = "blocked" => hist.silent[c] >= OffHold

(* Paragraph 8: faults always win.  A sensor fault at once, and a channel  *)
(* silent among pulsing ones at the latest after OffHold, is shown as a    *)
(* fault, as the master's own when it is the master; and a faulty channel  *)
(* never takes part in the differences or in the advice.                   *)
Broken(c) == in.ch[c].fault \/ hist.silent[c] >= OffHold
FaultsWin ==
  hist.fresh => \A c \in Channels : Broken(c) =>
    /\ res.state \in (IF c = cfg.master THEN {"FaultMaster"} ELSE FaultStates)
    /\ res.delta[c] = 0 /\ res.worst # c /\ res.act = NoCh

(* Row 1: the zero is asked for only when the engine has been off for      *)
(* OffHold without a fault and every level has stood still, near the       *)
(* atmosphere, for the settle window: a vacuum that still bleeds away, or  *)
(* a broken sensor, never becomes an offset.                               *)
RequestEarned ==
  [][~res.request /\ res'.request =>
       /\ hist'.off >= OffHold /\ hist'.flat >= SettleWindow
       /\ NearZero(in'.ch)]_mvars

(* Between two pulses, as long as nobody touches the settings, the zero is *)
(* asked for once: not at every tick of the stop, and not again because a  *)
(* sensor fault came and went.  (A settings change arms it again, which    *)
(* "once per NoSignal period" in docs/firmware.md:375 does not mention.)   *)
RequestOnce == hist.asks <= 1

(* WP-9: once a hose fault is shown it stays while the channel is silent   *)
(* and its level is within the widened limit, whatever the level does in   *)
(* between: no flapping between two messages.                              *)
HoseStays ==
  [][\A c \in Channels :
       /\ hist.fresh /\ res.cond[c] = "hose"
       /\ hist'.silent[c] >= hist.silent[c] /\ hist.silent[c] # NotRunning
       /\ Magnitude(in'.ch[c].level) < HoseOff + HoseHyst
       => res'.cond[c] = "hose"]_mvars

(* D3: the advice names a channel other than the master, opens it exactly  *)
(* when it draws more than the master (its mean is lower), and no channel  *)
(* is further from the master.                                             *)
FromMaster(c) == in.ch[cfg.master].mean - in.ch[c].mean
AdviceFits ==
  hist.fresh /\ res.act # NoCh =>
    /\ res.act # cfg.master
    /\ res.open <=> FromMaster(res.act) > 0
    /\ \A c \in Channels : Magnitude(FromMaster(c)) <= Magnitude(FromMaster(res.act))

-----------------------------------------------------------------------------
(* An engine that stays off, in the open air, with auto_zero on, is zeroed *)
(* once: the request comes, and only one.                                  *)
AutoZeroComes ==
  <>[](/\ EngineOff(in) /\ cfg.auto_zero
       /\ \A c \in Channels : in.ch[c].level = 0
       /\ hist.steady /\ hist.flat # NotRunning)
    => <>[](hist.asks = 1)

(* A steady engine in the speed window is judged, and the verdict stays.   *)
VerdictComes ==
  <>[](/\ hist.steady /\ Clean(in)
       /\ \A c \in Channels : in.ch[c].level = in.ch[c].mean)
    => <>[](res.state \in VerdictStates)

(* A channel that stays silent among pulsing ones is reported for good:    *)
(* the fault neither waits for ever nor comes and goes.                    *)
FaultComes ==
  <>[](hist.steady /\ \E c \in Channels : IsLost(in.ch, c))
    => <>[](res.state \in FaultStates)
=============================================================================
