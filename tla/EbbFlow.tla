------------------------------ MODULE EbbFlow ------------------------------
(***************************************************************************)
(* The two lower layers of the grower (Referenssi/firmware/plantmeister),  *)
(* as functions of their state: the state machine of the floods            *)
(* (lib/ebbflow_fsm) and the driver of the pump (pump_hal.h).  Time is     *)
(* counted in iterations of loop(); a time stamp is kept as its age.       *)
(***************************************************************************)
EXTENDS Integers

CONSTANTS
  FloodFor,  \* flood_duration_ms
  Margin,    \* the second that FLOOD may be late
  SoakFor,   \* soak_duration_ms
  DrainFor,  \* drain_timeout_ms
  Retries,   \* max_overflow_retries
  AbsMax,    \* PUMP_ABSOLUTE_MAX_ON_MS
  Settle,    \* OVERFLOW_AUTO_CLEAR_SETTLE_MS
  AutoClear  \* ebbOverflowAutoClear

ASSUME EbbFlowAssumption ==
  /\ {FloodFor, Margin, SoakFor, DrainFor, Retries, AbsMax, Settle} \subseteq Nat \ {0}
  /\ AutoClear \in BOOLEAN

Least(a, b) == IF a < b THEN a ELSE b

-----------------------------------------------------------------------------
(* The floods: [state, fault, hard, since, last, count]; hard is           *)
(* fault_latched, since and last are ages.  A count past Retries acts like *)
(* Retries (the byte of the code wraps at 256).                            *)
Go(f, state) == [f EXCEPT !.state = state, !.since = 0]
HardFault(f, code) == [Go(f, "fault") EXCEPT !.fault = code, !.hard = TRUE]
Advisory(f, code) == [f EXCEPT !.fault = code, !.hard = FALSE]
NoAdvisory(f) == IF f.hard THEN f ELSE [f EXCEPT !.fault = "none"]
Counted(f) == [f EXCEPT !.count = Least(@ + 1, Retries)]

(* What a step asks of the pump. *)
Result(f, start, stop) == [fsm |-> f, start |-> start, stop |-> stop]
Quietly(f) == Result(f, FALSE, FALSE)

(* handle_overflow: drain and retry, until the retries are used up. *)
HandleOverflow(f) ==
  Result(IF f.count + 1 >= Retries THEN HardFault(Counted(f), "overflow")
         ELSE Advisory(Go(Counted(f), "drain"), "overflow"), FALSE, TRUE)

(* i: [level, ovf, running, ack, force, interval]. *)
Acked(f, i) ==
  Quietly([Go(f, IF i.level THEN "idle" ELSE "drain") EXCEPT
             !.fault = "none", !.hard = FALSE, !.count = 0])

InIdle(f, i) ==
  IF ~i.level THEN Result(Advisory(f, "dry_run"), FALSE, i.running)
  ELSE IF i.force \/ f.last >= i.interval
  THEN Result([Go(NoAdvisory(f), "flood") EXCEPT !.last = 0], TRUE, FALSE)
  ELSE Quietly(NoAdvisory(f))

(* The pump stopped on time, or something stopped it. *)
InFlood(f, i) ==
  IF f.since > FloodFor + Margin THEN Result(HardFault(f, "flood_timeout"), FALSE, TRUE)
  ELSE IF i.running THEN Quietly(f)
  ELSE Quietly(Go(NoAdvisory([f EXCEPT !.count =
                    IF ~i.ovf /\ f.fault # "overflow" THEN 0 ELSE @]), "soak"))

InSoak(f, i) == Quietly(IF f.since >= SoakFor THEN Go(f, "drain") ELSE f)

InDrain(f, i) ==
  Quietly(IF i.level THEN Go(NoAdvisory(f), "idle")
          ELSE IF f.since >= DrainFor THEN Advisory(f, "drain_timeout") ELSE f)

step(f, i) ==
  CASE i.ack /\ f.hard -> Acked(f, i)
    [] ~(i.ack /\ f.hard) /\ f.state = "fault" -> Quietly(f)
    [] ~(i.ack /\ f.hard) /\ i.ovf /\ f.state \in {"flood", "soak"} -> HandleOverflow(f)
    [] OTHER -> CASE f.state = "idle" -> InIdle(f, i)
                  [] f.state = "flood" -> InFlood(f, i)
                  [] f.state = "soak" -> InSoak(f, i)
                  [] f.state = "drain" -> InDrain(f, i)

-----------------------------------------------------------------------------
(* The pump: [on, cont, age, dur, latched, lock, dry].  dry is the age of  *)
(* the stamp that the bed has drained, None without one.  For the          *)
(* properties, ran is for how long it has been on without a break, and     *)
(* served at how many ends of an iteration of the present maintenance.     *)
None == -1

(* The pump turned on or off; latch, lock and stamp stay as they are.  One *)
(* that is on and turned on runs on.                                       *)
Turned(p, on, cont, age, dur) ==
  [on |-> on, cont |-> cont, age |-> age, dur |-> dur,
   latched |-> p.latched, lock |-> p.lock, dry |-> p.dry,
   ran |-> IF p.on /\ on THEN p.ran ELSE 0, served |-> IF p.on /\ on THEN p.served ELSE 0]

pump_stop(p) == Turned(p, FALSE, FALSE, 0, 0)

MayStart(p) == ~p.on /\ ~p.lock /\ ~p.latched
MayContinue(p) == ~p.lock /\ ~p.latched

(* What pump_startForMs writes once it has not refused: a handler that     *)
(* looked before may write over a pump that is on by then.                 *)
Dosing(p, dur) == Turned(p, TRUE, FALSE, 0, dur)

(* pump_setContinuous: the start is only stamped when the mode changes. *)
Stamped(p) == IF p.cont THEN p.age ELSE 0
Running(p, duty) == Turned(p, duty > 0, TRUE, Stamped(p), AbsMax)

(* Derived from the state of the device in every iteration.  Variant: the  *)
(* pump is stopped only when the lock engages.                             *)
LockedOnce(p, locked) ==
  [(IF locked /\ ~p.lock THEN pump_stop(p) ELSE p) EXCEPT !.lock = locked]
pump_setMaintenanceLock(p, locked) ==
  [(IF locked /\ p.on THEN pump_stop(p) ELSE p) EXCEPT !.lock = locked]

pump_latchOverflow(p) == IF p.latched THEN p ELSE [pump_stop(p) EXCEPT !.latched = TRUE]

(* pump_update, with the float as it reads now.  Variant: a continuous run *)
(* has no end of its own, and returns before the hard cap.                 *)
pump_updateCapLast(p, float) ==
  LET q == IF float THEN pump_latchOverflow(p) ELSE p
  IN IF q.on /\ ~q.cont /\ (q.age >= q.dur \/ q.age >= AbsMax) THEN pump_stop(q) ELSE q
pump_update(p, float) ==
  LET q == IF float THEN pump_latchOverflow(p) ELSE p
  IN IF q.on /\ (q.age >= AbsMax \/ (~q.cont /\ q.age >= q.dur)) THEN pump_stop(q) ELSE q

(* Variant: the bed that is still drained is stamped anew. *)
DrySinceNow(p) == 0
DrySince(p) == IF p.dry = None THEN 0 ELSE p.dry
pump_overflowAutoClearTick(p, float) ==
  IF ~p.latched \/ float THEN [p EXCEPT !.dry = None]
  ELSE IF AutoClear /\ DrySince(p) >= Settle THEN [p EXCEPT !.latched = FALSE, !.dry = None]
  ELSE [p EXCEPT !.dry = DrySince(p)]

(* An iteration passes. *)
FsmOlder(f, longest) ==
  [f EXCEPT !.since = Least(@ + 1, FloodFor + Margin + SoakFor + DrainFor),
            !.last = Least(@ + 1, longest)]
PumpOlder(p, service) ==
  [p EXCEPT !.age = IF p.on \/ p.cont THEN Least(@ + 1, AbsMax) ELSE 0,
            !.dry = IF @ = None THEN None ELSE Least(@ + 1, Settle),
            !.ran = IF p.on THEN @ + 1 ELSE 0,
            !.served = IF p.on /\ service THEN @ + 1 ELSE 0]
=============================================================================
