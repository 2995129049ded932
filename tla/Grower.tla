------------------------------- MODULE Grower -------------------------------
(***************************************************************************)
(* The grower's loop (plantmeister.ino, loop_dispatch.h, scheduler.h)      *)
(* around the floods and the pump of EbbFlow, with the float switches, the *)
(* people that test, calibrate and service it over HTTP, and the periodic  *)
(* circulation.  loop() works in four steps, and the handlers of the web   *)
(* server, which run in a task of their own and share everything without a *)
(* lock, between any of them; what a handler starts it starts in two: it   *)
(* looks whether it may, and then writes.                                  *)
(*                                                                         *)
(* The plant always floods (floodIntervalMin > 0), and the float of the    *)
(* reservoir is taken as it is read, debounced.  The device states are     *)
(* those after the boot; only the sensors' advisories are raised, which    *)
(* change no state.                                                        *)
(***************************************************************************)
EXTENDS EbbFlow, FiniteSets

CONSTANTS
  Intervals,  \* flood_interval_ms, by day and by night
  CircEvery,  \* ebbCirculateIntervalMin
  CircFor,    \* ebbCirculateDurationSec
  SoakDuty,   \* ebbSoakPwmPct, 0: the pump rests in SOAK
  Debounce,   \* FLOAT_DEBOUNCE_MS
  MaxCalls    \* a bound on the calls of people, the captures apart

ASSUME GrowerAssumption ==
  /\ Intervals \subseteq Nat \ {0} /\ \E i \in Intervals : \A j \in Intervals : j <= i
  /\ {CircEvery, CircFor, Debounce} \subseteq Nat \ {0}
  /\ SoakDuty \in 0 .. 100 /\ MaxCalls \in Nat

VARIABLES
  dev,      \* g_device.state
  fsm,      \* the floods
  pump,     \* pump_hal
  circ,     \* circulateActive and the age of lastCirculateStartMs
  level,    \* waterLevelOk
  float,    \* FLOAT_OVF as it reads now
  seen,     \* its debouncer: what is committed, the candidate and its age
  session,  \* ebbCalibPhase and soakCalibActive
  asked,    \* ebbFlowAckRequested and ebbFlowForceFloodRequested
  handler,  \* what a handler is about to start
  pc,       \* what loop() does next
  calls,    \* how many calls have come
  meddled   \* for the properties: has anybody touched pump or device?

vars == <<dev, fsm, pump, circ, level, float, seen, session, asked, handler, pc, calls,
          meddled>>

people == <<handler, calls, meddled>>
inputs == <<level, float>>

Longest == CHOOSE i \in Intervals : \A j \in Intervals : j <= i
CircLongest == IF CircEvery < CircFor THEN CircFor ELSE CircEvery
NoSession == [ebb |-> "idle", soak |-> FALSE]
NoRequest == [ack |-> FALSE, force |-> FALSE]

-----------------------------------------------------------------------------
(* The scheduler, on [fsm, pump, circ]. *)

Contradiction == ~level /\ seen.now

(* scheduler_soakPumpCommand *)
SoakCommand(p, before, after) ==
  IF after = "soak" /\ before # "soak" /\ SoakDuty > 0
  THEN IF MayContinue(p) THEN Running(p, SoakDuty) ELSE p
  ELSE IF before = "soak" /\ after # "soak" THEN pump_stop(p) ELSE p

(* A flood whose start the pump refuses: for the latch, or for another     *)
(* reason, which is taken for a broken sensor.                             *)
Blocked(f, p) ==
  IF p.latched THEN [Go(Counted(f), "drain") EXCEPT !.fault = "overflow"]
  ELSE HardFault(f, "sensor")

(* scheduler_updateEbbFlow *)
Flooding(w, interval) ==
  LET r == step(w.fsm, [level |-> level, ovf |-> seen.now, running |-> w.pump.on,
                        ack |-> asked.ack, force |-> asked.force, interval |-> interval])
      starts == r.start /\ MayStart(w.pump)
      f == IF r.start /\ ~starts THEN Blocked(r.fsm, w.pump) ELSE r.fsm
      stops == r.stop \/ (f.state = "fault" /\ w.fsm.state # "fault")
      p == IF stops THEN pump_stop(w.pump)
           ELSE IF starts THEN Dosing(w.pump, FloodFor) ELSE w.pump
  IN [w EXCEPT !.fsm = f, !.pump = SoakCommand(p, w.fsm.state, f.state)]

Contradicted(w) ==
  IF w.fsm.state = "fault" THEN w
  ELSE [w EXCEPT !.fsm = HardFault(w.fsm, "sensor"), !.pump = pump_stop(w.pump)]

updateEbbFlow(w, interval) == IF Contradiction THEN Contradicted(w) ELSE Flooding(w, interval)

(* scheduler_updateCirculate *)
updateCirculate(w, mayStart) ==
  IF w.circ.on
  THEN IF w.circ.age >= CircFor
       THEN [w EXCEPT !.pump = pump_stop(w.pump), !.circ.on = FALSE] ELSE w
  ELSE IF /\ mayStart /\ w.fsm.state = "idle" /\ session = NoSession
          /\ w.circ.age >= CircEvery /\ level /\ MayContinue(w.pump)
       THEN [w EXCEPT !.pump = Running(w.pump, 1), !.circ = [on |-> TRUE, age |-> 0]]
       ELSE w

World == [fsm |-> fsm, pump |-> pump, circ |-> circ]

(* The water of scheduler_update: circulation defers the flood.  Variant:  *)
(* it does not.                                                            *)
GrowingUndeferred(interval) ==
  updateCirculate(IF session = NoSession THEN updateEbbFlow(World, interval) ELSE World, TRUE)
Growing(interval) ==
  IF circ.on THEN updateCirculate(World, TRUE)
  ELSE updateCirculate(IF session = NoSession THEN updateEbbFlow(World, interval) ELSE World,
                       TRUE)
FloodsGrowing == ~circ.on /\ session = NoSession

(* loopTaskEbbFlow: what was begun, and what is asked for. *)
FloodsIdle == session = NoSession /\ (asked.force \/ fsm.state # "idle")
Idling(interval) ==
  LET w == updateCirculate(World, FALSE)
  IN IF FloodsIdle THEN updateEbbFlow(w, interval) ELSE w

-----------------------------------------------------------------------------
(* loop() *)

Lock ==
  /\ pc = "lock" /\ pc' = "actuators"
  /\ pump' = pump_setMaintenanceLock(pump, dev = "maintenance")
  /\ UNCHANGED <<dev, fsm, circ, seen, session, asked, people, inputs>>

(* loop_tick_for_state takes the state once; loopTaskActuators runs in     *)
(* each, then loopTaskGrowScheduler or loopTaskEbbFlow.                    *)
Actuators ==
  /\ pc = "actuators"
  /\ pc' = CASE dev = "maintenance" -> "floats"
             [] dev = "growing" -> "growScheduler"
             [] dev = "idle" -> "ebbFlow"
  /\ pump' = pump_overflowAutoClearTick(pump_update(pump, float), float)
  /\ UNCHANGED <<dev, fsm, circ, seen, session, asked, people, inputs>>

Scheduler ==
  /\ pc \in {"growScheduler", "ebbFlow"} /\ pc' = "floats"
  /\ \E interval \in Intervals :
       LET w == IF pc = "growScheduler" THEN Growing(interval) ELSE Idling(interval)
       IN fsm' = w.fsm /\ pump' = w.pump /\ circ' = w.circ
  /\ asked' = IF (IF pc = "growScheduler" THEN FloodsGrowing ELSE FloodsIdle) /\ ~Contradiction
              THEN NoRequest ELSE asked
  /\ UNCHANGED <<dev, seen, session, people, inputs>>

(* sensors_readFloatSwitches: float_debounce; and the iteration is over. *)
Candidate == IF float = seen.cand THEN seen ELSE [seen EXCEPT !.cand = float, !.age = 0]
Debounced ==
  IF float # Candidate.now /\ Candidate.age >= Debounce
  THEN [now |-> float, cand |-> float, age |-> 0] ELSE Candidate
Older(s) == IF s.cand = s.now THEN [s EXCEPT !.age = 0] ELSE [s EXCEPT !.age = @ + 1]

Floats ==
  /\ pc = "floats" /\ pc' = "lock"
  /\ seen' = Older(Debounced) /\ level' \in BOOLEAN
  /\ fsm' = FsmOlder(fsm, Longest)
  /\ pump' = PumpOlder(pump, dev = "maintenance")
  /\ circ' = [circ EXCEPT !.age = Least(@ + 1, CircLongest)]
  /\ UNCHANGED <<dev, session, asked, float, people>>

Loop == Lock \/ Actuators \/ Scheduler \/ Floats

-----------------------------------------------------------------------------
(* The handlers. *)

Call ==
  /\ handler = "none" /\ calls < MaxCalls
  /\ calls' = calls + 1
Meddle == Call /\ meddled' = TRUE
Capture == handler = "none" /\ meddled' = TRUE /\ UNCHANGED calls
Rest == <<fsm, circ, seen, pc, inputs>>

(* Those that start the pump look first.  WATER may at any time, the fill  *)
(* too; a test in IDLE; a soak calibration when nothing else goes on.      *)
May(op) ==
  CASE op \in {"water", "fill"} -> MayStart(pump)
    [] op \in {"test", "rest"} -> dev = "idle" /\ MayContinue(pump)
    [] op = "soak" ->
         fsm.state = "idle" /\ session.ebb = "idle" /\ ~pump.on /\ MayContinue(pump)
    [] op \in {"hold", "hold_rest"} -> session.soak /\ MayContinue(pump)

Begin(op) ==
  /\ Meddle /\ May(op)
  /\ handler' = op
  /\ UNCHANGED <<dev, pump, session, asked, Rest>>

Finish ==
  /\ handler # "none"
  /\ handler' = "none"
  /\ pump' = CASE handler = "water" -> Dosing(pump, FloodFor)
               [] handler = "fill" -> Dosing(pump, AbsMax)
               [] handler \in {"test", "soak", "hold"} -> Running(pump, 1)
               [] handler \in {"rest", "hold_rest"} -> Running(pump, 0)
  /\ session' = CASE handler = "fill" -> [session EXCEPT !.ebb = "filling"]
                  [] handler = "soak" -> [session EXCEPT !.soak = TRUE]
                  [] OTHER -> session
  /\ UNCHANGED <<dev, asked, calls, meddled, Rest>>

(* WATER_STOP, /api/test/pump_off *)
PumpOff ==
  /\ Meddle
  /\ pump' = pump_stop(pump)
  /\ UNCHANGED <<dev, session, asked, handler, Rest>>

(* capture_full, capture_empty, and the two cancels; soak/save is a cancel *)
(* as far as the pump goes.                                                *)
CaptureFull ==
  /\ Capture /\ session.ebb = "filling"
  /\ pump' = pump_stop(pump) /\ session' = [session EXCEPT !.ebb = "draining"]
  /\ UNCHANGED <<dev, asked, handler, Rest>>
CaptureEmpty ==
  /\ Capture /\ session.ebb = "draining"
  /\ session' = [session EXCEPT !.ebb = "idle"]
  /\ UNCHANGED <<dev, pump, asked, handler, Rest>>
CancelFill ==
  /\ Meddle
  /\ pump' = pump_stop(pump) /\ session' = [session EXCEPT !.ebb = "idle"]
  /\ UNCHANGED <<dev, asked, handler, Rest>>
EndSoak ==
  /\ Meddle
  /\ pump' = pump_stop(pump) /\ session' = [session EXCEPT !.soak = FALSE]
  /\ UNCHANGED <<dev, asked, handler, Rest>>

ClearOverflow ==
  /\ Call /\ ~float
  /\ pump' = [pump EXCEPT !.latched = FALSE]
  /\ UNCHANGED <<dev, session, asked, handler, meddled, Rest>>

FloodNow ==
  /\ Call
  /\ asked' = [asked EXCEPT !.force = TRUE]
  /\ UNCHANGED <<dev, pump, session, handler, meddled, Rest>>
AckFault ==
  /\ Call /\ fsm.hard
  /\ asked' = [asked EXCEPT !.ack = TRUE]
  /\ UNCHANGED <<dev, pump, session, handler, meddled, Rest>>

(* Service begins and ends; a grow is started, stopped or resumed. *)
SetDevice(state) ==
  /\ Meddle /\ state # dev
  /\ dev' = state /\ pump' = [pump EXCEPT !.served = 0]
  /\ UNCHANGED <<session, asked, handler, Rest>>

Starts == {"water", "fill", "test", "rest", "soak", "hold", "hold_rest"}
Handlers ==
  \/ \E op \in Starts : Begin(op)
  \/ PumpOff \/ CaptureFull \/ CaptureEmpty \/ CancelFill \/ EndSoak
  \/ ClearOverflow \/ FloodNow \/ AckFault
  \/ \E state \in {"idle", "growing", "maintenance"} : SetDevice(state)

-----------------------------------------------------------------------------
(* The water in the bed rises or falls. *)
Water ==
  /\ float' = ~float
  /\ UNCHANGED <<dev, fsm, pump, circ, seen, session, asked, pc, level, people>>

Init ==
  /\ dev \in {"idle", "growing"}
  /\ fsm = [state |-> "idle", fault |-> "none", hard |-> FALSE, since |-> 0, last |-> 0,
            count |-> 0]
  /\ pump = [on |-> FALSE, cont |-> FALSE, age |-> 0, dur |-> 0, latched |-> FALSE,
             lock |-> FALSE, dry |-> None, ran |-> 0, served |-> 0]
  /\ circ = [on |-> FALSE, age |-> 0]
  /\ level \in BOOLEAN /\ float = FALSE
  /\ seen = [now |-> FALSE, cand |-> FALSE, age |-> 0]
  /\ session = NoSession /\ asked = NoRequest
  /\ handler = "none" /\ pc = "lock" /\ calls = 0 /\ meddled = FALSE

Next == Loop \/ Handlers \/ Finish \/ Water

(* loop() is called again and again. *)
Spec == Init /\ [][Next]_vars /\ WF_vars(Loop)

-----------------------------------------------------------------------------
FsmType == [state : {"idle", "flood", "soak", "drain", "fault"},
            fault : {"none", "dry_run", "overflow", "flood_timeout", "drain_timeout", "sensor"},
            hard : BOOLEAN, since : Nat, last : Nat, count : 0 .. Retries]
PumpType == [on : BOOLEAN, cont : BOOLEAN, age : 0 .. AbsMax, dur : Nat, latched : BOOLEAN,
             lock : BOOLEAN, dry : {None} \cup 0 .. Settle, ran : Nat, served : Nat]
CircType == [on : BOOLEAN, age : Nat]

TypeOK ==
  /\ dev \in {"idle", "growing", "maintenance"}
  /\ fsm \in FsmType /\ (fsm.hard <=> fsm.state = "fault")
  /\ pump \in PumpType /\ circ \in CircType
  /\ level \in BOOLEAN /\ float \in BOOLEAN
  /\ seen \in [now : BOOLEAN, cand : BOOLEAN, age : Nat]
  /\ session \in [ebb : {"idle", "filling", "draining"}, soak : BOOLEAN]
  /\ asked \in [ack : BOOLEAN, force : BOOLEAN]
  /\ handler \in {"none"} \cup Starts
  /\ pc \in {"lock", "actuators", "growScheduler", "ebbFlow", "floats"}
  /\ calls \in 0 .. MaxCalls /\ meddled \in BOOLEAN

(* Whatever a handler slips in, no run of the pump outlives the next       *)
(* iteration in maintenance, with hands in the device (pump_hal.h, the     *)
(* lock mirrors the state).                                                *)
ServiceStops == pump.served <= 1

(* Whatever doses and duties people ask for and in whatever order, the     *)
(* pump is not kept on without end: the start can be stamped anew only     *)
(* twice while it is on, once by the dose of a handler that looked before  *)
(* it was, and once when the dose becomes a continuous run.                *)
OnTimeBounded == pump.ran <= 3 * AbsMax

(* config.h:822, pump_hal.h:277: the absolute ceiling of the time the pump *)
(* is on, regardless of the mode.                                          *)
OnTimeWithinLimit == pump.ran <= AbsMax

(* Left to itself the device never locks itself out: a hard fault that is  *)
(* no overflow comes from floats that contradict each other.               *)
HardFaultReal ==
  [][~meddled /\ ~fsm.hard /\ fsm'.hard => fsm'.fault = "overflow" \/ Contradiction]_vars

(* While a plant grows that nobody touches, there is water and none of it *)
(* is too high, the floods come and go on coming, after whatever overflow, *)
(* dry reservoir, slow drain, circulation or calibration; unless a hard    *)
(* fault waits for its acknowledgement.                                    *)
Calm == handler = "none" /\ dev = "growing" /\ session = NoSession /\ level /\ ~float
Recovers == <>[]Calm => []<>(fsm.state = "flood" \/ fsm.hard)

(* ebbflow_fsm.cpp:123, pump_hal.h:231: overflows in a row are forgotten   *)
(* only for a clean flood, so that a bed that always overflows is latched: *)
(* not by a flood that the pump has just cut off for its overflow.         *)
CleanFloodResets ==
  [][fsm.count > 0 /\ fsm'.count = 0 => fsm.hard \/ ~pump.latched]_vars
=============================================================================
