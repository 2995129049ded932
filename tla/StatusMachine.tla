--------------------------- MODULE StatusMachine ---------------------------
(***************************************************************************)
(* The behaviour matrix of src/firmware/src/core/status.h: from what the   *)
(* DSP says of every channel, the class StatusMachine decides at about     *)
(* 20 Hz whether the mechanic is shown a verdict, a screw to turn, a fault *)
(* or nothing, and when the zero of the sensors may be taken by itself.    *)
(*                                                                         *)
(* Pressures are integers, in a unit no smaller than the settle gate: two  *)
(* levels that differ have moved too much to be zeroed.  A timer of the    *)
(* code (a run flag and the moment it was raised) is the time it has run,  *)
(* in ticks, capped where every comparison with it has been decided.  A    *)
(* non-finite mean is a channel without a pulse, as update() treats it.    *)
(*                                                                         *)
(* A definition whose comment begins "Variant:" is a plausible mistake in  *)
(* the definition after it, which a property has to notice.                *)
(***************************************************************************)
EXTENDS Integers, FiniteSets, FiniteSetsExt

CONSTANTS
  N,             \* the number of channels (kChannels)
  Inputs,        \* what the DSP may report: [ch: frame, rpm: class]
  Dts,           \* the time an update may take, in ticks (-1: time went back)
  HoseHold,      \* kHoseHoldS
  OffHold,       \* off_hold_s
  StableHold,    \* stable_hold_s
  SatHold,       \* kSatHoldS
  CommonWindow,  \* kCommonWindowS
  SettleWindow,  \* kZeroSettleWindowS
  HoseOff,       \* hose_off_kpa
  HoseHyst,      \* hose_hyst_kpa
  OffKpa,        \* off_kpa
  CommonMoveKpa, \* kCommonMoveKpa
  TolGreen,      \* tol_green_kpa
  TolYellow      \* tol_yellow_kpa

Channels == 0 .. N - 1
NoCh == -1
NotRunning == -1

Reading == [fault : BOOLEAN, pulse : BOOLEAN, sat : BOOLEAN,
            level : Int, mean : Int]

(* The rpm estimate, by the first test it fails: no estimate, too rough    *)
(* (unstable_cv), too slow, too fast; "ok" passes all four.                *)
RpmClass == {"none", "rough", "low", "high", "ok"}

ASSUME ChannelAssumption == N \in Nat \ {0}
ASSUME InputAssumption ==
  /\ Inputs \subseteq [ch : [Channels -> Reading], rpm : RpmClass]
  /\ Dts \subseteq Int
ASSUME HoldAssumption ==
  /\ HoseHold \in Nat \ {0} /\ OffHold \in Nat /\ StableHold \in Nat /\ SatHold \in Nat
  /\ CommonWindow \in Nat /\ SettleWindow \in Nat
  /\ HoseHold <= OffHold  \* off_hold_s is at least 0.5 s (config.h)
ASSUME LimitAssumption ==
  /\ HoseOff \in Nat /\ HoseHyst \in Nat /\ OffKpa \in Nat
  /\ CommonMoveKpa \in Nat /\ TolGreen \in Nat /\ TolYellow \in Nat

VARIABLES
  cfg,  \* the parameters a handler changes: [master, auto_zero]
  tm,   \* every timer and memory of the class
  in,   \* the last input (Processor's in_)
  res   \* the last StatusResult (Processor's status_)

smvars == <<cfg, tm, in, res>>

Magnitude(x) == IF x < 0 THEN -x ELSE x

-----------------------------------------------------------------------------
(* Timers. *)

(* A timer that runs while on holds, and starts again when it comes back.  *)
Elapse(t, on, dt, cap) ==
  IF ~on THEN NotRunning
  ELSE IF t = NotRunning THEN 0
  ELSE IF t + dt > cap THEN cap ELSE t + dt

NoMeans == [c \in Channels |-> 0]
CmEmpty == [count |-> 0, age |-> 0, old |-> NoMeans, new |-> NoMeans]
SettleEmpty == [age |-> NotRunning,
                moved |-> [c \in Channels |-> SettleWindow + 1],
                level |-> NoMeans]

(* Variant: a reset that leaves the automatic zero unarmed. *)
ResetTimersUnarmed ==
  [lost |-> [c \in Channels |-> NotRunning], latched |-> {},
   stable |-> NotRunning, sat |-> NotRunning, cm |-> CmEmpty,
   zero |-> NotRunning, armed |-> FALSE, settle |-> SettleEmpty]

(* StatusMachine::reset: a new reference or new limits start every hold    *)
(* again, and arm the automatic zero.                                      *)
ResetTimers ==
  [lost |-> [c \in Channels |-> NotRunning], latched |-> {},
   stable |-> NotRunning, sat |-> NotRunning, cm |-> CmEmpty,
   zero |-> NotRunning, armed |-> TRUE, settle |-> SettleEmpty]

-----------------------------------------------------------------------------
(* The classification of the channels. *)

Pulsing(f) == {c \in Channels : f[c].pulse}
OthersPulse(f, c) == Pulsing(f) \ {c} # {}

(* The pulse is missing from this channel alone. *)
IsLost(f, c) == ~f[c].fault /\ ~f[c].pulse /\ OthersPulse(f, c)

(* Variant: the timer runs while the whole engine is off, too. *)
LostTimersOff(t, f, dt) ==
  [c \in Channels |-> Elapse(t.lost[c], ~f[c].fault /\ ~f[c].pulse, dt, OffHold)]

LostTimers(t, f, dt) ==
  [c \in Channels |-> Elapse(t.lost[c], IsLost(f, c), dt, OffHold)]

(* Variant: one limit for raising and for clearing the fault. *)
HoseLimitFixed(latched, c) == HoseOff

HoseLimit(latched, c) == HoseOff + (IF c \in latched THEN HoseHyst ELSE 0)

(* Variant: trapped vacuum is never told from a missed cycle. *)
CondOfHoseOnly(f, c, lost, latched) ==
  IF f[c].fault THEN "sensor"
  ELSE IF f[c].pulse THEN "ok"
  ELSE IF ~OthersPulse(f, c) THEN "idle"
  ELSE IF Magnitude(f[c].level) < HoseLimit(latched, c) /\ lost[c] >= HoseHold THEN "hose"
  ELSE "no_pulse"

CondOf(f, c, lost, latched) ==
  IF f[c].fault THEN "sensor"
  ELSE IF f[c].pulse THEN "ok"
  ELSE IF ~OthersPulse(f, c) THEN "idle"
  ELSE IF Magnitude(f[c].level) < HoseLimit(latched, c) /\ lost[c] >= HoseHold THEN "hose"
  ELSE IF lost[c] >= OffHold THEN "blocked"
  ELSE "no_pulse"

CondKeys == {"ok", "sat", "idle", "no_pulse", "hose", "blocked", "sensor"}
FaultConds == {"sensor", "hose", "blocked"}

-----------------------------------------------------------------------------
(* Row 5: all the means (or all the levels against the means) on the move  *)
(* in the same direction are a throttle, not a difference to adjust.       *)

AllBeyond(v) == \/ \A c \in Channels : v[c] > CommonMoveKpa
                \/ \A c \in Channels : v[c] < -CommonMoveKpa

(* Variant: the older reference never moves. *)
ShiftedStuck(cm, means) ==
  [count |-> IF cm.count < 2 THEN cm.count + 1 ELSE cm.count,
   age |-> 0, old |-> cm.old, new |-> means]
Shifted(cm, means) ==
  [count |-> IF cm.count < 2 THEN cm.count + 1 ELSE cm.count,
   age |-> 0, old |-> cm.new, new |-> means]

CmAdvance(cm, f, dt) ==
  LET age == cm.age + dt
      means == [c \in Channels |-> f[c].mean]
  IN IF Pulsing(f) # Channels THEN CmEmpty
     ELSE IF cm.count = 0 \/ age >= CommonWindow
       THEN Shifted(cm, means)
       ELSE [cm EXCEPT !.age = age]

CommonMove(cm, f) ==
  /\ Pulsing(f) = Channels
  /\ \/ AllBeyond([c \in Channels |-> f[c].level - f[c].mean])
     \/ cm.count >= 2 /\ AllBeyond([c \in Channels |-> f[c].mean - cm.old[c]])

-----------------------------------------------------------------------------
(* LevelSettle (calibration.h): how long ago a channel's level last was    *)
(* something else, and whether a whole window has been seen.               *)

SettleAdd(s, f, dt) ==
  [age |-> Elapse(s.age, TRUE, dt, SettleWindow),
   moved |-> [c \in Channels |->
                IF s.age = NotRunning THEN SettleWindow + 1
                ELSE Elapse(IF f[c].level = s.level[c] THEN s.moved[c] ELSE 0,
                            TRUE, dt, SettleWindow + 1)],
   level |-> [c \in Channels |-> f[c].level]]

Settled(s, c) == s.age >= SettleWindow /\ s.moved[c] > SettleWindow

-----------------------------------------------------------------------------
(* Differences to the master, the verdict and the state. *)

(* Variant: the master subtracted from the channel. *)
DeltasReversed(f, cond) ==
  [c \in Channels |->
     IF cond[cfg.master] = "ok" /\ cond[c] = "ok"
     THEN f[c].mean - f[cfg.master].mean ELSE 0]

(* d > 0: the channel draws more than the master.  Only channels in order  *)
(* are compared, and only when the master is.                              *)
Deltas(f, cond) ==
  [c \in Channels |->
     IF cond[cfg.master] = "ok" /\ cond[c] = "ok"
     THEN f[cfg.master].mean - f[c].mean ELSE 0]

Spread(d) == LET D == {0} \cup {d[c] : c \in Channels} IN Max(D) - Min(D)

(* The first channel, in index order, with the largest difference. *)
Compared(cond) ==
  IF cond[cfg.master] = "ok"
  THEN {c \in Channels \ {cfg.master} : cond[c] = "ok"} ELSE {}

WorstCh(d, cond) ==
  LET largest == {c \in Compared(cond) :
                    \A e \in Compared(cond) : Magnitude(d[e]) <= Magnitude(d[c])}
  IN IF largest = {} THEN NoCh ELSE Min(largest)

VerdictStates == {"Synced", "Near", "OutOfSync"}
FaultStates == {"FaultMaster", "FaultSensor", "FaultHose"}
SyncState == VerdictStates \cup FaultStates \cup {"NoSignal", "Unstable", "RpmTooHigh"}

(* Variant: green without a zero. *)
VerdictUnzeroed(spread, zv) ==
  IF spread <= TolGreen THEN "Synced"
  ELSE IF spread <= TolYellow THEN "Near" ELSE "OutOfSync"

Verdict(spread, zv) ==
  IF spread <= TolGreen THEN (IF zv THEN "Synced" ELSE "Near")
  ELSE IF spread <= TolYellow THEN "Near" ELSE "OutOfSync"

(* Variant: the hold runs at any speed. *)
MeasurableAnyRpm(i, cond) ==
  /\ \A c \in Channels : cond[c] \notin FaultConds \cup {"no_pulse"}
  /\ Pulsing(i.ch) = Channels

Measurable(i, cond) ==
  /\ \A c \in Channels : cond[c] \notin FaultConds \cup {"no_pulse"}
  /\ Pulsing(i.ch) = Channels
  /\ i.rpm = "ok"

(* The priority order: a fault always wins over an adjustment. *)
StateOf(i, cond, common, stable, spread, zv) ==
  IF cond[cfg.master] \in FaultConds THEN "FaultMaster"
  ELSE IF \E c \in Channels : cond[c] = "sensor" THEN "FaultSensor"
  ELSE IF \E c \in Channels : cond[c] \in {"hose", "blocked"} THEN "FaultHose"
  ELSE IF Pulsing(i.ch) = {} THEN "NoSignal"
  ELSE IF \/ \E c \in Channels : cond[c] = "no_pulse"
          \/ i.rpm \in {"none", "rough", "low"} THEN "Unstable"
  ELSE IF i.rpm = "high" THEN "RpmTooHigh"
  ELSE IF common \/ stable < StableHold THEN "Unstable"
  ELSE Verdict(spread, zv)

FaultCh(cond, state) ==
  CASE state = "FaultMaster" -> cfg.master
    [] state = "FaultSensor" -> Min({c \in Channels : cond[c] = "sensor"})
    [] state = "FaultHose"   -> Min({c \in Channels : cond[c] \in {"hose", "blocked"}})
    [] OTHER -> NoCh

-----------------------------------------------------------------------------
(* The automatic zero: after a whole hold of NoSignal, with every level    *)
(* settled near the atmosphere, once per arming.                           *)

NearZero(f) == \A c \in Channels : Magnitude(f[c].level) < OffKpa

(* Variant: the settle window forgotten. *)
AskUnsettled(f, zero, settle, armed) ==
  zero >= OffHold /\ armed /\ cfg.auto_zero /\ NearZero(f)

Ask(f, zero, settle, armed) ==
  /\ zero >= OffHold /\ armed /\ cfg.auto_zero /\ NearZero(f)
  /\ \A c \in Channels : Settled(settle, c)

-----------------------------------------------------------------------------
(* The class. *)

NoResult ==
  [state |-> "NoSignal", fault |-> NoCh, delta |-> NoMeans, spread |-> 0,
   worst |-> NoCh, sat |-> FALSE, request |-> FALSE,
   act |-> NoCh, open |-> FALSE, cond |-> [c \in Channels |-> "idle"]]

Silent == [c \in Channels |->
             [fault |-> FALSE, pulse |-> FALSE, sat |-> FALSE, level |-> 0, mean |-> 0]]

Result(i, cond, sat, state, request) ==
  LET d == Deltas(i.ch, cond)
      w == WorstCh(d, cond)
      advise == state \in VerdictStates /\ Spread(d) > TolGreen /\ w # NoCh
  IN [state |-> state, fault |-> FaultCh(cond, state), delta |-> d,
      spread |-> Spread(d), worst |-> w, sat |-> sat, request |-> request,
      act |-> IF advise THEN w ELSE NoCh,
      open |-> advise /\ d[w] > 0,
      cond |-> [c \in Channels |->
                  IF cond[c] = "ok" /\ sat /\ i.ch[c].sat THEN "sat" ELSE cond[c]]]

(* StatusMachine::update, as what it leaves in the machine and returns.  A *)
(* clock that went back resets the machine first.                          *)
Updated(i, zv, dt) ==
  LET t == IF dt < 0 THEN ResetTimers ELSE tm
      f == i.ch
      settle == SettleAdd(t.settle, f, dt)
      lost == LostTimers(t, f, dt)
      cond == [c \in Channels |-> CondOf(f, c, lost, t.latched)]
      sat == Elapse(t.sat, \E c \in Pulsing(f) : f[c].sat, dt, SatHold)
      stable == Elapse(t.stable, Measurable(i, cond), dt, StableHold)
      cm == CmAdvance(t.cm, f, dt)
      state == StateOf(i, cond, CommonMove(cm, f), stable, Spread(Deltas(f, cond)), zv)
      armed == t.armed \/ Pulsing(f) # {}
      zero == Elapse(t.zero, state = "NoSignal", dt, OffHold)
      ask == Ask(f, zero, settle, armed)
  IN [tm |-> [lost |-> lost, latched |-> {c \in Channels : cond[c] = "hose"},
              stable |-> stable, sat |-> sat, cm |-> cm, zero |-> zero,
              armed |-> armed /\ ~ask, settle |-> settle],
      res |-> Result(i, cond, sat >= SatHold, state, ask)]

Update(i, zv, dt) ==
  LET u == Updated(i, zv, dt)
  IN tm' = u.tm /\ res' = u.res /\ in' = i /\ UNCHANGED cfg

(* StatusMachine::configure: another master, or other limits. *)
Configure(m, az) ==
  /\ cfg' = [master |-> m, auto_zero |-> az]
  /\ tm' = ResetTimers
  /\ UNCHANGED <<in, res>>

(* StatusMachine::resetSettle, after the calibration changed. *)
ResetSettle ==
  /\ tm' = [tm EXCEPT !.settle = SettleEmpty]
  /\ UNCHANGED <<cfg, in, res>>

Init ==
  /\ cfg \in [master : Channels, auto_zero : BOOLEAN]
  /\ tm = ResetTimers
  /\ in = [ch |-> Silent, rpm |-> "none"]
  /\ res = NoResult

UpdateStep == \E i \in Inputs, zv \in BOOLEAN, dt \in Dts : Update(i, zv, dt)
ConfigureStep == \E m \in Channels, az \in BOOLEAN : Configure(m, az)

Next == UpdateStep \/ ConfigureStep \/ ResetSettle

Spec == Init /\ [][Next]_smvars

-----------------------------------------------------------------------------
Timer(cap) == NotRunning .. cap

TimersType ==
  [lost : [Channels -> Timer(OffHold)], latched : SUBSET Channels,
   stable : Timer(StableHold), sat : Timer(SatHold),
   cm : [count : 0 .. 2, age : Int, old : [Channels -> Int], new : [Channels -> Int]],
   zero : Timer(OffHold), armed : BOOLEAN,
   settle : [age : Timer(SettleWindow),
             moved : [Channels -> Timer(SettleWindow + 1)],
             level : [Channels -> Int]]]

ResultType ==
  [state : SyncState, fault : Channels \cup {NoCh}, delta : [Channels -> Int],
   spread : Int, worst : Channels \cup {NoCh}, sat : BOOLEAN, request : BOOLEAN,
   act : Channels \cup {NoCh}, open : BOOLEAN, cond : [Channels -> CondKeys]]

(* Every field of the machine and of its result stays in its range: a      *)
(* fault, a worst channel and an advice always name a real channel.        *)
TypeOK ==
  /\ cfg \in [master : Channels, auto_zero : BOOLEAN]
  /\ tm \in TimersType
  /\ in \in [ch : [Channels -> Reading], rpm : RpmClass]
  /\ res \in ResultType
=============================================================================
