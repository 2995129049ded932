---------------------------- MODULE GrowerProofs ----------------------------
(***************************************************************************)
(* The pump of the grower, proved for every duration, interval and number  *)
(* of calls: service stops it, no run is too long, and the device that     *)
(* nobody touches makes up no fault.                                       *)
(***************************************************************************)
EXTENDS Grower, TLAPS

(* What the proofs use of the constants. *)
LEMMA Constants ==
  /\ FloodFor \in Nat /\ FloodFor > 0 /\ Margin \in Nat /\ Margin > 0
  /\ SoakFor \in Nat /\ DrainFor \in Nat /\ Retries \in Nat /\ Retries > 0
  /\ AbsMax \in Nat /\ AbsMax > 0 /\ Settle \in Nat /\ Settle > 0
  /\ CircEvery \in Nat /\ CircFor \in Nat /\ MaxCalls \in Nat /\ SoakDuty \in Nat
  /\ AutoClear \in BOOLEAN
BY EbbFlowAssumption, GrowerAssumption DEF EbbFlowAssumption, GrowerAssumption

LEMMA LeastNat ==
  ASSUME NEW a \in Nat, NEW b \in Nat
  PROVE  Least(a, b) \in Nat /\ Least(a, b) <= a /\ Least(a, b) <= b
BY DEF Least

-----------------------------------------------------------------------------
(* The pump, one operation at a time. *)

LEMMA Stopped ==
  ASSUME NEW p \in PumpType
  PROVE  /\ pump_stop(p) \in PumpType
         /\ ~pump_stop(p).on /\ ~pump_stop(p).cont
         /\ pump_stop(p).ran = 0 /\ pump_stop(p).served = 0
         /\ pump_stop(p).lock = p.lock /\ pump_stop(p).latched = p.latched
BY Constants DEF PumpType, pump_stop, Turned

LEMMA Dosed ==
  ASSUME NEW p \in PumpType, NEW dur \in Nat
  PROVE  /\ Dosing(p, dur) \in PumpType
         /\ Dosing(p, dur).on /\ ~Dosing(p, dur).cont
         /\ Dosing(p, dur).age = 0 /\ Dosing(p, dur).dur = dur
         /\ Dosing(p, dur).ran = IF p.on THEN p.ran ELSE 0
         /\ Dosing(p, dur).served = IF p.on THEN p.served ELSE 0
         /\ Dosing(p, dur).lock = p.lock
BY Constants DEF PumpType, Dosing, Turned

LEMMA Ran ==
  ASSUME NEW p \in PumpType, NEW duty \in Nat
  PROVE  /\ Running(p, duty) \in PumpType
         /\ (Running(p, duty).on <=> duty > 0) /\ Running(p, duty).cont
         /\ Running(p, duty).age = IF p.cont THEN p.age ELSE 0
         /\ Running(p, duty).ran = IF p.on /\ duty > 0 THEN p.ran ELSE 0
         /\ Running(p, duty).served = IF p.on /\ duty > 0 THEN p.served ELSE 0
         /\ Running(p, duty).lock = p.lock
<1>1. Stamped(p) = (IF p.cont THEN p.age ELSE 0) /\ Stamped(p) \in 0 .. AbsMax
  BY Constants DEF Stamped, PumpType
<1> DEFINE on == duty > 0
<1>2. Running(p, duty) = Turned(p, on, TRUE, Stamped(p), AbsMax) /\ on \in BOOLEAN
  BY DEF Running
<1> HIDE DEF on
<1>3. CASE on
  <2>1. Running(p, duty) = Turned(p, TRUE, TRUE, Stamped(p), AbsMax)
    BY <1>2, <1>3
  <2> QED
    BY <1>1, <1>3, <2>1, Constants DEF PumpType, Turned, on
<1>4. CASE ~on
  <2>1. Running(p, duty) = Turned(p, FALSE, TRUE, Stamped(p), AbsMax)
    BY <1>2, <1>4
  <2> QED
    BY <1>1, <1>4, <2>1, Constants DEF PumpType, Turned, on
<1> QED
  BY <1>3, <1>4

LEMMA LockedPump ==
  ASSUME NEW p \in PumpType, NEW locked \in BOOLEAN
  PROVE  /\ pump_setMaintenanceLock(p, locked) \in PumpType
         /\ pump_setMaintenanceLock(p, locked) =
              [(IF locked /\ p.on THEN pump_stop(p) ELSE p) EXCEPT !.lock = locked]
BY Stopped DEF PumpType, pump_setMaintenanceLock

(* pump_update either stops the pump or leaves it as it is, and what still *)
(* runs is not over its limits.                                            *)
LEMMA Updated ==
  ASSUME NEW p \in PumpType, NEW reads \in BOOLEAN
  PROVE  /\ pump_update(p, reads) \in PumpType
         /\ pump_update(p, reads).lock = p.lock
         /\ \/ pump_update(p, reads) = p
            \/ /\ ~pump_update(p, reads).on /\ pump_update(p, reads).ran = 0
               /\ pump_update(p, reads).served = 0
         /\ pump_update(p, reads).on =>
              /\ pump_update(p, reads) = p
              /\ p.age < AbsMax /\ (~p.cont => p.age < p.dur)
<1> DEFINE l == pump_latchOverflow(p)
<1>1. /\ l \in PumpType /\ l.lock = p.lock
      /\ l = p \/ (~l.on /\ l.ran = 0 /\ l.served = 0)
  BY Stopped DEF PumpType, pump_latchOverflow
<1> DEFINE q == IF reads THEN l ELSE p
<1>2. /\ q \in PumpType /\ q.lock = p.lock
      /\ q = p \/ (~q.on /\ q.ran = 0 /\ q.served = 0)
  BY <1>1
<1>3. pump_update(p, reads) =
        IF q.on /\ (q.age >= AbsMax \/ (~q.cont /\ q.age >= q.dur)) THEN pump_stop(q) ELSE q
  BY DEF pump_update
<1>4. q.age \in Nat /\ q.dur \in Nat
  BY <1>2, Constants DEF PumpType
<1> HIDE DEF q
<1>5. pump_stop(q) \in PumpType /\ ~pump_stop(q).on /\ pump_stop(q).ran = 0
      /\ pump_stop(q).served = 0 /\ pump_stop(q).lock = q.lock
  BY <1>2, Stopped
<1> QED
  BY <1>2, <1>3, <1>4, <1>5, Constants

LEMMA Cleared ==
  ASSUME NEW p \in PumpType, NEW reads \in BOOLEAN
  PROVE  LET q == pump_overflowAutoClearTick(p, reads)
         IN /\ q \in PumpType
            /\ q.on = p.on /\ q.cont = p.cont /\ q.age = p.age /\ q.dur = p.dur
            /\ q.ran = p.ran /\ q.served = p.served /\ q.lock = p.lock
<1>1. DrySince(p) \in 0 .. Settle
  BY Constants DEF DrySince, PumpType, None
<1> QED
  BY <1>1, Constants DEF pump_overflowAutoClearTick, PumpType, None

-----------------------------------------------------------------------------
(* How long the pump has been on, by its age: the dose of a handler may    *)
(* restart the age of a run once, and a continuous run once more.          *)
InTime(p) ==
  /\ ~p.on => p.ran = 0
  /\ p.on => p.ran <= p.age + (IF p.cont THEN 2 * AbsMax ELSE AbsMax)

(* A run over its age has only just been taken up, which is so between     *)
(* pump_update and the end of the iteration.                               *)
Fresh(p) == p.on /\ p.age = AbsMax => p.ran = 0
KeptPump(p) == p \in PumpType /\ InTime(p) /\ Fresh(p) /\ p.served = 0

(* While a handler that saw the pump off is about to write a dose, the     *)
(* loop alone has turned it on: the age is that of the whole run, and a    *)
(* dose is a flood.                                                        *)
Pending == handler \in {"water", "fill"}
OneStart(w) ==
  w.pump.on => w.pump.ran <= w.pump.age /\ (~w.pump.cont => w.fsm.state = "flood")
Kept(w) == KeptPump(w.pump) /\ (Pending => OneStart(w))

LEMMA InTimeKept ==
  ASSUME NEW p \in PumpType, InTime(p)
  PROVE  /\ InTime(pump_stop(p))
         /\ \A duty \in Nat : InTime(Running(p, duty))
         /\ (p.on => p.ran <= p.age) => \A dur \in Nat : InTime(Dosing(p, dur))
<1>1. /\ p.ran \in Nat /\ p.age \in Nat /\ p.age <= AbsMax /\ AbsMax \in Nat
      /\ ~p.on => p.ran = 0
      /\ p.on /\ p.cont => p.ran <= p.age + 2 * AbsMax
      /\ p.on /\ ~p.cont => p.ran <= p.age + AbsMax
  BY Constants DEF InTime, PumpType
<1>2. InTime(pump_stop(p))
  BY Stopped DEF InTime
<1>3. ASSUME NEW duty \in Nat PROVE InTime(Running(p, duty))
  <2> DEFINE q == Running(p, duty)
  <2>1. /\ q.cont /\ (q.on <=> duty > 0)
        /\ q.age = IF p.cont THEN p.age ELSE 0
        /\ q.ran = IF p.on /\ duty > 0 THEN p.ran ELSE 0
    BY Ran
  <2> HIDE DEF q
  <2>2. q.age \in Nat /\ q.ran \in Nat
    BY <1>1, <2>1
  <2>3. ~q.on => q.ran = 0
    BY <2>1
  <2>4. q.ran <= q.age + 2 * AbsMax
    <3>1. CASE q.ran = 0
      BY <1>1, <2>2, <3>1
    <3>2. CASE q.ran # 0
      <4>1. p.on /\ q.ran = p.ran
        BY <2>1, <3>2
      <4> QED
        BY <1>1, <2>1, <4>1
    <3> QED
      BY <3>1, <3>2
  <2> QED
    BY <2>1, <2>3, <2>4 DEF InTime, q
<1>4. ASSUME p.on => p.ran <= p.age, NEW dur \in Nat PROVE InTime(Dosing(p, dur))
  <2> DEFINE q == Dosing(p, dur)
  <2>1. q.on /\ ~q.cont /\ q.age = 0 /\ q.ran = IF p.on THEN p.ran ELSE 0
    BY Dosed
  <2> HIDE DEF q
  <2>2. q.ran <= AbsMax
    BY <1>1, <1>4, <2>1
  <2> QED
    BY <1>1, <2>1, <2>2 DEF InTime, q
<1> QED
  BY <1>2, <1>3, <1>4

LEMMA FreshKept ==
  ASSUME NEW p \in PumpType, Fresh(p)
  PROVE  /\ Fresh(pump_stop(p))
         /\ \A dur \in Nat : Fresh(Dosing(p, dur)) /\ Fresh(Running(p, dur))
<1>1. Fresh(pump_stop(p))
  BY Stopped DEF Fresh
<1>2. ASSUME NEW dur \in Nat PROVE Fresh(Dosing(p, dur))
  BY Dosed, Constants DEF Fresh
<1>3. ASSUME NEW dur \in Nat PROVE Fresh(Running(p, dur))
  <2>1. /\ Running(p, dur).age = IF p.cont THEN p.age ELSE 0
        /\ Running(p, dur).ran = IF p.on /\ dur > 0 THEN p.ran ELSE 0
    BY Ran
  <2> QED
    BY <2>1, Constants DEF Fresh
<1> QED
  BY <1>1, <1>2, <1>3

LEMMA KeptKept ==
  ASSUME NEW p, KeptPump(p)
  PROVE  /\ KeptPump(pump_stop(p))
         /\ \A duty \in Nat : KeptPump(Running(p, duty))
         /\ ~p.on => \A dur \in Nat : KeptPump(Dosing(p, dur))
<1>1. p \in PumpType /\ InTime(p) /\ Fresh(p) /\ p.served = 0
  BY DEF KeptPump
<1>2. KeptPump(pump_stop(p))
  BY <1>1, InTimeKept, FreshKept, Stopped DEF KeptPump
<1>3. ASSUME NEW duty \in Nat PROVE KeptPump(Running(p, duty))
  BY <1>1, InTimeKept, FreshKept, Ran DEF KeptPump
<1>4. ASSUME NEW dur \in Nat, ~p.on PROVE KeptPump(Dosing(p, dur))
  BY <1>1, <1>4, InTimeKept, FreshKept, Dosed DEF KeptPump
<1> QED
  BY <1>2, <1>3, <1>4

-----------------------------------------------------------------------------
(* The floods: what one step may ask for. *)
Sound(f) == f \in FsmType /\ (f.hard <=> f.state = "fault")
Inputs == [level : BOOLEAN, ovf : BOOLEAN, running : BOOLEAN, ack : BOOLEAN, force : BOOLEAN,
           interval : Nat]

LEMMA GoSound ==
  ASSUME NEW f \in FsmType, NEW state \in {"idle", "flood", "soak", "drain", "fault"}
  PROVE  /\ Go(f, state) \in FsmType /\ Go(f, state).state = state
         /\ Go(f, state).hard = f.hard /\ Go(f, state).since = 0
         /\ Go(f, state).count = f.count /\ Go(f, state).fault = f.fault
BY DEF FsmType, Go

LEMMA CountedSound ==
  ASSUME NEW f \in FsmType
  PROVE  /\ Counted(f) \in FsmType /\ Counted(f).state = f.state
         /\ Counted(f).hard = f.hard /\ Counted(f).since = f.since
<1>1. Least(f.count + 1, Retries) \in 0 .. Retries
  BY Constants DEF FsmType, Least
<1> QED
  BY <1>1, Constants DEF FsmType, Counted

LEMMA HardFaultSound ==
  ASSUME NEW f \in FsmType, NEW code \in {"overflow", "flood_timeout", "sensor"}
  PROVE  /\ Sound(HardFault(f, code)) /\ HardFault(f, code).fault = code
         /\ HardFault(f, code).state = "fault" /\ HardFault(f, code).hard
<1> DEFINE g == Go(f, "fault")
<1>1. g \in FsmType /\ g.state = "fault"
  BY GoSound
<1> HIDE DEF g
<1>2. HardFault(f, code) = [g EXCEPT !.fault = code, !.hard = TRUE]
  BY DEF HardFault, g
<1> QED
  BY <1>1, <1>2 DEF FsmType, Sound

LEMMA AdvisorySound ==
  ASSUME NEW f \in FsmType, f.state # "fault",
         NEW code \in {"dry_run", "overflow", "drain_timeout"}
  PROVE  /\ Sound(Advisory(f, code)) /\ Advisory(f, code).state = f.state
         /\ Advisory(f, code).since = f.since /\ ~Advisory(f, code).hard
BY DEF FsmType, Advisory, Sound

LEMMA NoAdvisorySound ==
  ASSUME NEW f \in FsmType
  PROVE  /\ NoAdvisory(f) \in FsmType /\ NoAdvisory(f).state = f.state
         /\ NoAdvisory(f).hard = f.hard /\ NoAdvisory(f).since = f.since
         /\ NoAdvisory(f).count = f.count
BY DEF FsmType, NoAdvisory

(* From where a step may lead where, what it starts and stops, and what it *)
(* calls a hard fault.                                                     *)
Leads == {<<"idle", "idle">>, <<"idle", "flood">>, <<"flood", "flood">>, <<"flood", "soak">>,
          <<"flood", "drain">>, <<"flood", "fault">>, <<"soak", "soak">>, <<"soak", "drain">>,
          <<"soak", "fault">>, <<"drain", "drain">>, <<"drain", "idle">>,
          <<"fault", "fault">>, <<"fault", "idle">>, <<"fault", "drain">>}

Answers(f, i, r) ==
  /\ Sound(r.fsm) /\ r.start \in BOOLEAN /\ r.stop \in BOOLEAN
  /\ <<f.state, r.fsm.state>> \in Leads
  /\ r.start => f.state = "idle" /\ r.fsm.state = "flood" /\ r.fsm.since = 0 /\ ~r.stop
  /\ r.fsm.state = "flood" => r.start \/ (r.fsm = f /\ i.running /\ ~r.stop)
  /\ f.state = "flood" /\ r.fsm.state = "drain" => r.stop
  /\ f.state = "flood" /\ r.fsm.state = "soak" => ~i.running
  /\ ~f.hard /\ r.fsm.hard =>
       r.fsm.fault = "overflow" \/ (f.state = "flood" /\ f.since > FloodFor + Margin)

LEMMA AnswersQuietly ==
  ASSUME NEW f, NEW g, NEW i, Sound(g), <<f.state, g.state>> \in Leads,
         g.state = "flood" => g = f /\ i.running,
         f.state = "flood" => g.state # "drain" /\ (g.state = "soak" => ~i.running),
         ~f.hard => ~g.hard
  PROVE  Answers(f, i, Quietly(g))
BY DEF Answers, Quietly, Result

LEMMA AckedSound ==
  ASSUME NEW f, Sound(f), NEW i \in Inputs, f.hard
  PROVE  Answers(f, i, Acked(f, i))
<1> DEFINE to == IF i.level THEN "idle" ELSE "drain"
           g == Go(f, to)
           h == [g EXCEPT !.fault = "none", !.hard = FALSE, !.count = 0]
<1>1. to \in {"idle", "drain"}
  OBVIOUS
<1>2. g \in FsmType /\ g.state = to
  BY <1>1, GoSound DEF Sound
<1>3. Acked(f, i) = Quietly(h)
  BY DEF Acked
<1> HIDE DEF to, g
<1> DEFINE k == [g EXCEPT !.fault = "none", !.hard = FALSE]
<1>4. k \in FsmType /\ k.state = to /\ ~k.hard
  BY <1>2 DEF FsmType
<1>5. h = [k EXCEPT !.count = 0]
  BY <1>2 DEF FsmType
<1> HIDE DEF h, k
<1>6. Sound(h) /\ h.state = to /\ ~h.hard
  BY <1>1, <1>4, <1>5, Constants DEF FsmType, Sound
<1>7. f.state = "fault"
  BY DEF Sound
<1>8. <<f.state, h.state>> \in Leads
  BY <1>1, <1>6, <1>7 DEF Leads
<1> QED
  BY <1>1, <1>3, <1>6, <1>7, <1>8, AnswersQuietly

LEMMA OverflowSound ==
  ASSUME NEW f, Sound(f), NEW i \in Inputs, f.state \in {"flood", "soak"}
  PROVE  Answers(f, i, HandleOverflow(f))
<1> DEFINE c == Counted(f)
           g == Go(c, "drain")
           h == IF f.count + 1 >= Retries THEN HardFault(c, "overflow")
                ELSE Advisory(g, "overflow")
<1>1. c \in FsmType /\ c.state = f.state
  BY CountedSound DEF Sound
<1> HIDE DEF c
<1>2. g \in FsmType /\ g.state = "drain"
  BY <1>1, GoSound
<1> HIDE DEF g
<1>3. CASE f.count + 1 >= Retries
  <2>1. h = HardFault(c, "overflow")
    BY <1>3
  <2>2. Sound(h) /\ h.state = "fault" /\ h.hard /\ h.fault = "overflow"
    BY <1>1, <2>1, HardFaultSound
  <2>3. HandleOverflow(f) = Result(h, FALSE, TRUE)
    BY DEF HandleOverflow, c, g
  <2> HIDE DEF h
  <2> QED
    BY <2>2, <2>3 DEF Answers, Result, Leads
<1>4. CASE ~(f.count + 1 >= Retries)
  <2>1. h = Advisory(g, "overflow")
    BY <1>4
  <2>2. Sound(h) /\ h.state = "drain" /\ ~h.hard
    BY <1>2, <2>1, AdvisorySound
  <2>3. HandleOverflow(f) = Result(h, FALSE, TRUE)
    BY DEF HandleOverflow, c, g
  <2> HIDE DEF h
  <2> QED
    BY <2>2, <2>3 DEF Answers, Result, Leads
<1> QED
  BY <1>3, <1>4

LEMMA InIdleSound ==
  ASSUME NEW f, Sound(f), NEW i \in Inputs, f.state = "idle"
  PROVE  Answers(f, i, InIdle(f, i))
<1>1. ~f.hard /\ f \in FsmType
  BY DEF Sound
<1> DEFINE a == Advisory(f, "dry_run")
           n == NoAdvisory(f)
           g == Go(n, "flood")
           h == [g EXCEPT !.last = 0]
<1>2. Sound(a) /\ a.state = "idle" /\ ~a.hard
  BY <1>1, AdvisorySound
<1>3. n \in FsmType /\ n.state = "idle" /\ ~n.hard
  BY <1>1, NoAdvisorySound
<1>4. g \in FsmType /\ g.state = "flood" /\ ~g.hard /\ g.since = 0
  BY <1>3, GoSound
<1>5. /\ ~i.level => InIdle(f, i) = Result(a, FALSE, i.running)
      /\ i.level /\ (i.force \/ f.last >= i.interval) => InIdle(f, i) = Result(h, TRUE, FALSE)
      /\ i.level /\ ~(i.force \/ f.last >= i.interval) => InIdle(f, i) = Quietly(n)
  BY DEF InIdle
<1> HIDE DEF a, n, g
<1>6. Sound(h) /\ h.state = "flood" /\ ~h.hard /\ h.since = 0
  BY <1>4 DEF FsmType, Sound
<1> HIDE DEF h
<1>7. i.running \in BOOLEAN
  BY DEF Inputs
<1>8. Answers(f, i, Result(a, FALSE, i.running))
  BY <1>2, <1>7 DEF Answers, Result, Leads
<1>9. Answers(f, i, Result(h, TRUE, FALSE))
  BY <1>6 DEF Answers, Result, Leads
<1>10. Answers(f, i, Quietly(n))
  BY <1>3, AnswersQuietly DEF Sound, Leads
<1> QED
  BY <1>5, <1>8, <1>9, <1>10

LEMMA InFloodSound ==
  ASSUME NEW f, Sound(f), NEW i \in Inputs, f.state = "flood"
  PROVE  Answers(f, i, InFlood(f, i))
<1>1. ~f.hard /\ f \in FsmType
  BY DEF Sound
<1> DEFINE a == HardFault(f, "flood_timeout")
           c == [f EXCEPT !.count = IF ~i.ovf /\ f.fault # "overflow" THEN 0 ELSE @]
           n == NoAdvisory(c)
           g == Go(n, "soak")
<1>2. Sound(a) /\ a.state = "fault" /\ a.hard
  BY <1>1, HardFaultSound
<1>3. c \in FsmType /\ ~c.hard
  BY <1>1, Constants DEF FsmType
<1>4. /\ f.since > FloodFor + Margin => InFlood(f, i) = Result(a, FALSE, TRUE)
      /\ ~(f.since > FloodFor + Margin) /\ i.running => InFlood(f, i) = Quietly(f)
      /\ ~(f.since > FloodFor + Margin) /\ ~i.running => InFlood(f, i) = Quietly(g)
  BY DEF InFlood
<1> HIDE DEF a, c
<1>5. n \in FsmType /\ ~n.hard
  BY <1>3, NoAdvisorySound
<1> HIDE DEF n
<1>6. g \in FsmType /\ g.state = "soak" /\ ~g.hard
  BY <1>5, GoSound
<1> HIDE DEF g
<1>7. ASSUME f.since > FloodFor + Margin PROVE Answers(f, i, Result(a, FALSE, TRUE))
  BY <1>2, <1>7 DEF Answers, Result, Leads
<1>8. ASSUME i.running PROVE Answers(f, i, Quietly(f))
  BY <1>1, <1>8, AnswersQuietly DEF Leads
<1>9. ASSUME ~i.running PROVE Answers(f, i, Quietly(g))
  BY <1>6, <1>9, AnswersQuietly DEF Leads, Sound
<1> QED
  BY <1>4, <1>7, <1>8, <1>9

LEMMA InSoakSound ==
  ASSUME NEW f, Sound(f), NEW i \in Inputs, f.state = "soak"
  PROVE  Answers(f, i, InSoak(f, i))
<1> DEFINE g == IF f.since >= SoakFor THEN Go(f, "drain") ELSE f
<1>1. Sound(g) /\ g.state \in {"soak", "drain"} /\ ~g.hard
  BY GoSound DEF Sound
<1> HIDE DEF g
<1>2. Answers(f, i, Quietly(g))
  BY <1>1, AnswersQuietly DEF Leads
<1> QED
  BY <1>2 DEF InSoak, g

LEMMA InDrainSound ==
  ASSUME NEW f, Sound(f), NEW i \in Inputs, f.state = "drain"
  PROVE  Answers(f, i, InDrain(f, i))
<1>1. ~f.hard /\ f \in FsmType
  BY DEF Sound
<1> DEFINE n == NoAdvisory(f)
           g == IF i.level THEN Go(n, "idle")
                ELSE IF f.since >= DrainFor THEN Advisory(f, "drain_timeout") ELSE f
<1>2. n \in FsmType /\ ~n.hard
  BY <1>1, NoAdvisorySound
<1> HIDE DEF n
<1>3. Go(n, "idle") \in FsmType /\ Go(n, "idle").state = "idle" /\ ~Go(n, "idle").hard
  BY <1>2, GoSound
<1>4. Sound(Advisory(f, "drain_timeout")) /\ Advisory(f, "drain_timeout").state = "drain"
      /\ ~Advisory(f, "drain_timeout").hard
  BY <1>1, AdvisorySound
<1>5. Sound(g) /\ g.state \in {"drain", "idle"} /\ ~g.hard
  BY <1>1, <1>3, <1>4 DEF Sound
<1> HIDE DEF g
<1>6. Answers(f, i, Quietly(g))
  BY <1>5, AnswersQuietly DEF Leads
<1> QED
  BY <1>6 DEF InDrain, g, n

LEMMA StepSound ==
  ASSUME NEW f, Sound(f), NEW i \in Inputs
  PROVE  Answers(f, i, step(f, i))
<1>1. f.state \in {"idle", "flood", "soak", "drain", "fault"}
  BY DEF Sound, FsmType
<1>2. CASE i.ack /\ f.hard
  <2>1. step(f, i) = Acked(f, i)
    BY <1>2 DEF step
  <2> QED
    BY <1>2, <2>1, AckedSound
<1>3. CASE ~(i.ack /\ f.hard) /\ f.state = "fault"
  <2>1. step(f, i) = Quietly(f)
    BY <1>3 DEF step
  <2> QED
    BY <1>3, <2>1, AnswersQuietly DEF Leads
<1>4. CASE ~(i.ack /\ f.hard) /\ f.state # "fault" /\ i.ovf /\ f.state \in {"flood", "soak"}
  <2>1. step(f, i) = HandleOverflow(f)
    BY <1>4 DEF step
  <2> QED
    BY <1>4, <2>1, OverflowSound
<1>5. CASE ~(i.ack /\ f.hard) /\ f.state # "fault" /\ ~(i.ovf /\ f.state \in {"flood", "soak"})
  <2>1. step(f, i) = CASE f.state = "idle" -> InIdle(f, i)
                       [] f.state = "flood" -> InFlood(f, i)
                       [] f.state = "soak" -> InSoak(f, i)
                       [] f.state = "drain" -> InDrain(f, i)
    BY <1>5 DEF step
  <2>2. CASE f.state = "idle"
    BY <2>1, <2>2, InIdleSound
  <2>3. CASE f.state = "flood"
    BY <2>1, <2>3, InFloodSound
  <2>4. CASE f.state = "soak"
    BY <2>1, <2>4, InSoakSound
  <2>5. CASE f.state = "drain"
    BY <2>1, <2>5, InDrainSound
  <2> QED
    BY <1>1, <1>5, <2>2, <2>3, <2>4, <2>5
<1> QED
  BY <1>2, <1>3, <1>4, <1>5

-----------------------------------------------------------------------------
(* The scheduler.  Undisturbed says of floods, pump and circulation what   *)
(* holds when no handler and no service has come between: who runs the     *)
(* pump, and that a dose ends in time; Running is its part after           *)
(* pump_update, until the end of the iteration.                            *)
WorldType == [fsm : FsmType, pump : PumpType, circ : CircType]
Sane(w) == w \in WorldType /\ Sound(w.fsm)

Theirs(w) ==
  /\ w.circ.on => w.fsm.state = "idle"
  /\ w.fsm.state \in {"drain", "fault"} => ~w.pump.on
  /\ w.fsm.state = "idle" /\ ~w.circ.on => ~w.pump.on
OnTime(w) ==
  w.fsm.state = "flood" =>
    /\ w.fsm.since <= FloodFor
    /\ w.pump.on => ~w.pump.cont /\ w.pump.dur = FloodFor /\ w.pump.age = w.fsm.since
Undisturbed(w) == Theirs(w) /\ OnTime(w) /\ ~w.pump.lock
NotOver(w) ==
  w.fsm.state = "flood" /\ w.pump.on => w.pump.age < FloodFor /\ w.pump.age < AbsMax
Scheduled(w) == w.fsm.state = "flood" => w.pump.on

Readings == level \in BOOLEAN /\ seen.now \in BOOLEAN
            /\ asked.ack \in BOOLEAN /\ asked.force \in BOOLEAN

LEMMA BlockedSound ==
  ASSUME NEW f, Sound(f), ~f.hard, NEW p \in PumpType
  PROVE  /\ Sound(Blocked(f, p))
         /\ p.latched => Blocked(f, p).state = "drain" /\ ~Blocked(f, p).hard
         /\ ~p.latched => Blocked(f, p).state = "fault"
<1> DEFINE c == Counted(f)
           g == Go(c, "drain")
<1>1. c \in FsmType /\ c.hard = f.hard
  BY CountedSound DEF Sound
<1> HIDE DEF c
<1>2. g \in FsmType /\ g.state = "drain" /\ ~g.hard
  BY <1>1, GoSound
<1>3. Blocked(f, p) = IF p.latched THEN [g EXCEPT !.fault = "overflow"]
                      ELSE HardFault(f, "sensor")
  BY DEF Blocked, g, c
<1> HIDE DEF g
<1>4. Sound([g EXCEPT !.fault = "overflow"])
      /\ [g EXCEPT !.fault = "overflow"].state = "drain"
      /\ ~[g EXCEPT !.fault = "overflow"].hard
  BY <1>2 DEF FsmType, Sound
<1>5. Sound(HardFault(f, "sensor")) /\ HardFault(f, "sensor").state = "fault"
  BY HardFaultSound DEF Sound
<1> QED
  BY <1>3, <1>4, <1>5

LEMMA FloodingSound ==
  ASSUME Readings, NEW w, Sane(w), NEW interval \in Nat
  PROVE  LET v == Flooding(w, interval)
         IN /\ Sane(v) /\ v.circ = w.circ
            /\ Kept(w) => Kept(v)
            /\ Undisturbed(w) /\ ~w.circ.on => Undisturbed(v) /\ Scheduled(v)
            /\ Undisturbed(w) /\ ~w.circ.on /\ NotOver(w) => NotOver(v)
            /\ Undisturbed(w) /\ ~w.circ.on /\ ~w.fsm.hard /\ v.fsm.hard =>
                 v.fsm.fault = "overflow"
<1> DEFINE i == [level |-> level, ovf |-> seen.now, running |-> w.pump.on,
                 ack |-> asked.ack, force |-> asked.force, interval |-> interval]
           r == step(w.fsm, i)
           starts == r.start /\ MayStart(w.pump)
           f == IF r.start /\ ~starts THEN Blocked(r.fsm, w.pump) ELSE r.fsm
           stops == r.stop \/ (f.state = "fault" /\ w.fsm.state # "fault")
           p == IF stops THEN pump_stop(w.pump)
                ELSE IF starts THEN Dosing(w.pump, FloodFor) ELSE w.pump
           q == SoakCommand(p, w.fsm.state, f.state)
           v == Flooding(w, interval)
<1>1. v = [w EXCEPT !.fsm = f, !.pump = q]
  BY DEF Flooding
<1>2. i \in Inputs /\ i.running = w.pump.on
  BY DEF Readings, Inputs, Sane, WorldType, PumpType
<1> HIDE DEF i
<1>3. Answers(w.fsm, i, r)
  BY <1>2, StepSound DEF Sane
<1> HIDE DEF r, v
<1>4. w.pump \in PumpType /\ w.fsm \in FsmType /\ w \in WorldType
      /\ (w.fsm.hard <=> w.fsm.state = "fault")
  BY DEF Sane, WorldType, Sound
<1>5. r.start => ~r.fsm.hard
  BY <1>3 DEF Answers, Sound
<1>6. Sound(f)
  BY <1>3, <1>4, <1>5, BlockedSound DEF Answers
<1>7. /\ r.start /\ ~starts /\ w.pump.latched => f.state = "drain" /\ ~f.hard
      /\ r.start /\ ~starts /\ ~w.pump.latched => f.state = "fault"
      /\ ~(r.start /\ ~starts) => f = r.fsm
  BY <1>3, <1>4, <1>5, BlockedSound DEF Answers
<1>8. starts <=> r.start /\ ~w.pump.on /\ ~w.pump.lock /\ ~w.pump.latched
  BY DEF MayStart
<1> HIDE DEF f, starts
<1>9. p \in PumpType /\ (KeptPump(w.pump) => KeptPump(p))
  BY <1>4, <1>8, Stopped, Dosed, KeptKept, Constants
<1>10. /\ stops => ~p.on /\ p.lock = w.pump.lock
       /\ ~stops /\ starts => /\ p.on /\ ~p.cont /\ p.age = 0 /\ p.dur = FloodFor
                              /\ p.lock = w.pump.lock
       /\ ~stops /\ ~starts => p = w.pump
       /\ ~stops /\ starts /\ ~w.pump.on => p.ran = 0
  BY <1>4, Stopped, Dosed, Constants
<1> HIDE DEF p
<1>11. \/ q = p
       \/ q = pump_stop(p)
       \/ q = Running(p, SoakDuty) /\ f.state = "soak" /\ w.fsm.state # "soak"
  BY DEF SoakCommand
<1>12. /\ f.state # "soak" => q = (IF w.fsm.state = "soak" THEN pump_stop(p) ELSE p)
  BY DEF SoakCommand
<1> HIDE DEF q
<1>13. f.state = "soak" /\ w.fsm.state # "soak" => ~p.on
  <2> SUFFICES ASSUME f.state = "soak", w.fsm.state # "soak" PROVE ~p.on
    OBVIOUS
  <2>1. f = r.fsm /\ ~starts
    BY <1>3, <1>7, <1>8 DEF Answers
  <2>2. w.fsm.state = "flood"
    BY <1>3, <2>1 DEF Answers, Leads
  <2>3. ~w.pump.on
    BY <1>2, <1>3, <2>1, <2>2 DEF Answers
  <2> QED
    BY <1>10, <2>1, <2>3
<1>14. q \in PumpType /\ (KeptPump(w.pump) => KeptPump(q)) /\ q.lock = p.lock
  <2>1. CASE q = p
    BY <1>9, <2>1
  <2>2. CASE q = pump_stop(p)
    BY <1>9, <2>2, Stopped, KeptKept
  <2>3. CASE q = Running(p, SoakDuty) /\ ~p.on
    BY <1>9, <2>3, Ran, KeptKept, Constants
  <2> QED
    BY <1>11, <1>13, <2>1, <2>2, <2>3
<1>15. ASSUME OneStart(w), q.on PROVE q.ran <= q.age /\ (~q.cont => f.state = "flood")
  <2>1. CASE q = Running(p, SoakDuty) /\ ~p.on
    <3>1. q.cont /\ q.ran = 0 /\ q.age \in Nat
      BY <1>9, <2>1, Ran, Constants DEF PumpType
    <3> QED
      BY <3>1
  <2>2. CASE q = p
    <3>1. ~stops /\ p.on
      BY <1>10, <1>15, <2>2
    <3>2. CASE starts
      <4>1. p.ran = 0 /\ p.age = 0
        BY <1>8, <1>10, <3>1, <3>2
      <4>2. f.state = "flood"
        BY <1>3, <1>7, <3>2, <1>8 DEF Answers
      <4> QED
        BY <2>2, <4>1, <4>2
    <3>3. CASE ~starts
      <4>1. p = w.pump
        BY <1>10, <3>1, <3>3
      <4>2. ASSUME ~q.cont, f.state # "flood" PROVE FALSE
        <5>1. w.fsm.state = "flood"
          BY <1>15, <2>2, <4>1, <4>2, <3>1 DEF OneStart
        <5>2. f = r.fsm /\ f.state \in {"soak", "drain", "fault"}
          BY <1>3, <1>7, <4>2, <5>1 DEF Answers, Leads
        <5>3. f.state = "soak"
          BY <1>3, <3>1, <5>1, <5>2 DEF Answers
        <5> QED
          BY <1>13, <3>1, <5>1, <5>3
      <4> QED
        BY <1>15, <2>2, <3>1, <4>1, <4>2 DEF OneStart
    <3> QED
      BY <3>2, <3>3
  <2>3. CASE q = pump_stop(p)
    BY <1>9, <1>15, <2>3, Stopped
  <2> QED
    BY <1>11, <1>13, <2>1, <2>2, <2>3
<1>16. v.fsm = f /\ v.pump = q /\ v.circ = w.circ /\ v \in WorldType
  BY <1>1, <1>4, <1>6, <1>14 DEF WorldType, Sound
<1>17. Sane(v) /\ (Kept(w) => Kept(v))
  BY <1>6, <1>14, <1>16, <1>15 DEF Sane, Kept, OneStart
<1>18. ASSUME Undisturbed(w), ~w.circ.on
       PROVE  /\ Undisturbed(v) /\ Scheduled(v)
              /\ NotOver(w) => NotOver(v)
              /\ ~w.fsm.hard /\ f.hard => f.fault = "overflow"
  <2>1. /\ w.fsm.state \in {"idle", "drain", "fault"} => ~w.pump.on
        /\ ~w.pump.lock /\ w.fsm.since \in Nat
        /\ w.fsm.state = "flood" => ~(w.fsm.since > FloodFor + Margin)
    BY <1>4, <1>18, Constants DEF Undisturbed, Theirs, OnTime, FsmType
  <2>2. r.start => w.fsm.state = "idle"
    BY <1>3 DEF Answers
  <2>3. r.start /\ ~starts => f.state = "drain" /\ ~f.hard
    BY <1>7, <1>8, <2>1, <2>2
  <2>4. ~w.fsm.hard /\ f.hard => f.fault = "overflow"
    BY <1>3, <1>7, <2>1, <2>3 DEF Answers
  <2>5. ~q.lock
    BY <1>10, <1>14, <2>1
  <2>6. f.state = "flood" =>
          \/ starts /\ ~stops /\ f.since = 0
          \/ f = w.fsm /\ w.pump.on /\ ~starts /\ ~stops
    BY <1>2, <1>3, <1>7, <1>8, <2>3 DEF Answers
  <2>7. f.state = "flood" => q = p
    BY <1>12, <1>3, <2>2, <2>6, <1>8
  <2>8. f.state \in {"drain", "fault", "idle"} => ~q.on
    <3>1. CASE r.start /\ ~starts
      <4>1. w.fsm.state = "idle" /\ ~w.pump.on /\ ~p.on
        BY <2>1, <2>2, <3>1, <1>10
      <4> QED
        BY <4>1, <1>12
    <3>2. CASE starts /\ f.state \in {"drain", "fault", "idle"}
      BY <3>2, <1>3, <1>7, <1>8 DEF Answers
    <3>3. CASE ~r.start /\ f.state \in {"drain", "fault", "idle"}
      <4>1. f = r.fsm /\ ~starts
        BY <3>3, <1>7, <1>8
      <4>2. CASE w.fsm.state \in {"idle", "drain", "fault"}
        BY <4>1, <4>2, <2>1, <1>10, <1>12, <3>3
      <4>3. CASE w.fsm.state = "flood"
        <5>1. f.state # "idle"
          BY <1>3, <4>1, <4>3 DEF Answers, Leads
        <5>2. stops
          BY <1>3, <3>3, <4>1, <4>3, <5>1 DEF Answers
        <5> QED
          BY <4>3, <5>2, <1>10, <1>12, <3>3
      <4>4. CASE w.fsm.state = "soak"
        BY <4>4, <1>9, <1>12, <3>3, Stopped
      <4> QED
        BY <4>2, <4>3, <4>4, <1>4 DEF FsmType
    <3> QED
      BY <3>1, <3>2, <3>3, <1>8
  <2>9. Theirs(v)
    BY <1>16, <1>18, <2>8 DEF Theirs
  <2>10. OnTime(v) /\ Scheduled(v) /\ (NotOver(w) => NotOver(v))
    <3> SUFFICES ASSUME f.state = "flood"
                 PROVE  /\ q.on /\ f.since <= FloodFor /\ ~q.cont /\ q.dur = FloodFor
                        /\ q.age = f.since
                        /\ NotOver(w) => q.age < FloodFor /\ q.age < AbsMax
      BY <1>16 DEF OnTime, Scheduled, NotOver
    <3>1. CASE starts /\ ~stops /\ f.since = 0
      BY <3>1, <2>7, <1>10, Constants
    <3>2. CASE f = w.fsm /\ w.pump.on /\ ~starts /\ ~stops
      BY <3>2, <2>7, <1>10, <1>18 DEF Undisturbed, OnTime, NotOver
    <3> QED
      BY <3>1, <3>2, <2>6
  <2> QED
    BY <1>16, <2>4, <2>5, <2>9, <2>10 DEF Undisturbed
<1> QED
  BY <1>16, <1>17, <1>18 DEF v

(* What the whole scheduler makes of w. *)
Makes(w, v) ==
  /\ Sane(v) /\ (Kept(w) => Kept(v))
  /\ Undisturbed(w) => Undisturbed(v)
  /\ Undisturbed(w) /\ NotOver(w) => NotOver(v)
  /\ Undisturbed(w) /\ ~Contradiction /\ ~w.fsm.hard /\ v.fsm.hard => v.fsm.fault = "overflow"

LEMMA EbbFlowSound ==
  ASSUME Readings, NEW w, Sane(w), NEW interval \in Nat
  PROVE  LET v == updateEbbFlow(w, interval)
         IN /\ Sane(v) /\ v.circ = w.circ /\ (Kept(w) => Kept(v))
            /\ ~w.circ.on => Makes(w, v) /\ (Undisturbed(w) => Scheduled(v))
<1> DEFINE h == HardFault(w.fsm, "sensor")
           s == pump_stop(w.pump)
           c == [w EXCEPT !.fsm = h, !.pump = s]
<1>1. w \in WorldType /\ w.fsm \in FsmType /\ w.pump \in PumpType /\ Sound(w.fsm)
  BY DEF Sane, WorldType
<1>2. Sound(h) /\ h.state = "fault"
  BY <1>1, HardFaultSound
<1>3. s \in PumpType /\ ~s.on /\ s.lock = w.pump.lock /\ (Kept(w) => KeptPump(s))
  BY <1>1, Stopped, KeptKept DEF Kept
<1>4. CASE Contradiction /\ w.fsm.state = "fault"
  <2>1. updateEbbFlow(w, interval) = w
    BY <1>4 DEF updateEbbFlow, Contradicted
  <2> QED
    BY <1>1, <1>4, <2>1 DEF Makes, Sane, Scheduled
<1>5. CASE Contradiction /\ w.fsm.state # "fault"
  <2>1. updateEbbFlow(w, interval) = c
    BY <1>5 DEF updateEbbFlow, Contradicted
  <2> HIDE DEF h, s
  <2>2. c.fsm = h /\ c.pump = s /\ c.circ = w.circ /\ c \in WorldType
    BY <1>1, <1>2, <1>3 DEF WorldType, Sound
  <2> HIDE DEF c
  <2>3. Undisturbed(w) /\ ~w.circ.on => Undisturbed(c) /\ NotOver(c) /\ Scheduled(c)
    BY <1>2, <1>3, <2>2 DEF Undisturbed, Theirs, OnTime, NotOver, Scheduled
  <2> QED
    BY <1>2, <1>3, <1>5, <2>1, <2>2, <2>3 DEF Makes, Sane, Kept, OneStart
<1>6. CASE ~Contradiction
  <2>1. updateEbbFlow(w, interval) = Flooding(w, interval)
    BY <1>6 DEF updateEbbFlow
  <2> QED
    BY <1>6, <2>1, FloodingSound DEF Makes
<1> QED
  BY <1>4, <1>5, <1>6

LEMMA CirculateSound ==
  ASSUME NEW w, Sane(w), NEW may \in BOOLEAN
  PROVE  LET v == updateCirculate(w, may)
         IN /\ Makes(w, v) /\ v.fsm = w.fsm
            /\ v.circ.on => w.circ.on \/ may
            /\ Undisturbed(w) /\ Scheduled(w) => Scheduled(v)
<1> DEFINE c == [w.circ EXCEPT !.on = FALSE]
           n == [on |-> TRUE, age |-> 0]
           s == pump_stop(w.pump)
           q == Running(w.pump, 1)
           ends == [w EXCEPT !.pump = s, !.circ = c]
           begins == [w EXCEPT !.pump = q, !.circ = n]
           v == updateCirculate(w, may)
<1>1. /\ w \in WorldType /\ w.fsm \in FsmType /\ w.pump \in PumpType /\ w.circ \in CircType
      /\ Sound(w.fsm)
  BY DEF Sane, WorldType
<1>2. s \in PumpType /\ ~s.on /\ s.lock = w.pump.lock /\ (Kept(w) => KeptPump(s))
  BY <1>1, Stopped, KeptKept DEF Kept
<1>3. /\ q \in PumpType /\ q.lock = w.pump.lock /\ q.cont
      /\ Kept(w) => KeptPump(q)
      /\ OneStart(w) /\ w.fsm.state = "idle" => q.ran <= q.age
  <2>1. /\ q \in PumpType /\ q.lock = w.pump.lock /\ q.cont
        /\ q.age = IF w.pump.cont THEN w.pump.age ELSE 0
        /\ q.ran = IF w.pump.on THEN w.pump.ran ELSE 0
    BY <1>1, Ran
  <2>2. q.age \in Nat
    BY <2>1, Constants DEF PumpType
  <2>3. OneStart(w) /\ w.fsm.state = "idle" => q.ran <= q.age
    BY <2>1, <2>2 DEF OneStart
  <2> QED
    BY <1>1, <2>1, <2>3, KeptKept DEF Kept
<1>4. c \in CircType /\ ~c.on /\ n \in CircType /\ n.on
  BY <1>1 DEF CircType
<1>5. \/ v = w
      \/ w.circ.on /\ v = ends
      \/ ~w.circ.on /\ may /\ w.fsm.state = "idle" /\ v = begins
  <2>1. w.circ.on => v = w \/ v = [w EXCEPT !.pump = s, !.circ.on = FALSE]
    BY DEF updateCirculate
  <2>2. [w EXCEPT !.pump = s, !.circ.on = FALSE] = ends
    BY <1>1 DEF WorldType
  <2>3. ~w.circ.on => v = w \/ (may /\ w.fsm.state = "idle" /\ v = begins)
    BY DEF updateCirculate
  <2> QED
    BY <2>1, <2>2, <2>3
<1> HIDE DEF v, s, q, c, n
<1>6. /\ ends.fsm = w.fsm /\ ends.pump = s /\ ends.circ = c /\ ends \in WorldType
      /\ begins.fsm = w.fsm /\ begins.pump = q /\ begins.circ = n /\ begins \in WorldType
  BY <1>1, <1>2, <1>3, <1>4 DEF WorldType
<1> HIDE DEF ends, begins
<1>7. CASE v = w
  BY <1>1, <1>7 DEF Makes, v
<1>8. CASE w.circ.on /\ v = ends
  <2>1. Undisturbed(w) => w.fsm.state = "idle"
    BY <1>8 DEF Undisturbed, Theirs
  <2>2. Undisturbed(w) => Undisturbed(v) /\ NotOver(v) /\ Scheduled(v)
    BY <1>2, <1>6, <1>8, <2>1 DEF Undisturbed, Theirs, OnTime, NotOver, Scheduled
  <2> QED
    BY <1>1, <1>2, <1>6, <1>8, <2>2 DEF Makes, Sane, Kept, OneStart, v
<1>9. CASE ~w.circ.on /\ may /\ w.fsm.state = "idle" /\ v = begins
  <2>1. Undisturbed(w) => Undisturbed(v) /\ NotOver(v) /\ Scheduled(v)
    BY <1>3, <1>4, <1>6, <1>9 DEF Undisturbed, Theirs, OnTime, NotOver, Scheduled
  <2> QED
    BY <1>1, <1>3, <1>4, <1>6, <1>9, <2>1 DEF Makes, Sane, Kept, OneStart, v
<1> QED
  BY <1>5, <1>7, <1>8, <1>9

LEMMA MakesMakes ==
  ASSUME NEW w, NEW u, NEW v, Makes(w, u), Makes(u, v), v.fsm = u.fsm \/ u.fsm = w.fsm
  PROVE  Makes(w, v)
BY DEF Makes

LEMMA GrowingSound ==
  ASSUME Readings, Sane(World), NEW interval \in Nat
  PROVE  LET v == Growing(interval)
         IN Makes(World, v)
            /\ (Undisturbed(World) /\ session = NoSession => Scheduled(v))
<1>1. World.circ = circ /\ World.fsm = fsm
  BY DEF World
<1>2. CASE circ.on
  <2>1. Growing(interval) = updateCirculate(World, TRUE)
    BY <1>2 DEF Growing
  <2>2. Undisturbed(World) => Scheduled(World)
    BY <1>1, <1>2 DEF Undisturbed, Theirs, Scheduled
  <2> QED
    BY <2>1, <2>2, CirculateSound
<1>3. CASE ~circ.on
  <2> DEFINE u == IF session = NoSession THEN updateEbbFlow(World, interval) ELSE World
  <2>1. Growing(interval) = updateCirculate(u, TRUE)
    BY <1>3 DEF Growing
  <2>2. Makes(World, u) /\ (Undisturbed(World) /\ session = NoSession => Scheduled(u))
    BY <1>1, <1>3, EbbFlowSound DEF Makes
  <2>3. Sane(u) /\ (Undisturbed(World) => Undisturbed(u))
    BY <2>2 DEF Makes
  <2> HIDE DEF u
  <2>4. LET v == updateCirculate(u, TRUE)
        IN Makes(u, v) /\ v.fsm = u.fsm /\ (Undisturbed(u) /\ Scheduled(u) => Scheduled(v))
    BY <2>3, CirculateSound
  <2> QED
    BY <2>1, <2>2, <2>3, <2>4, MakesMakes
<1> QED
  BY <1>2, <1>3

LEMMA IdlingSound ==
  ASSUME Readings, Sane(World), NEW interval \in Nat
  PROVE  LET v == Idling(interval)
         IN /\ Sane(v) /\ (v.circ.on => circ.on) /\ (Kept(World) => Kept(v))
            /\ ~circ.on => /\ Makes(World, v)
                           /\ Undisturbed(World) /\ session = NoSession => Scheduled(v)
<1> DEFINE u == updateCirculate(World, FALSE)
<1>1. World.circ = circ /\ World.fsm = fsm /\ World.pump = pump
  BY DEF World
<1>2. /\ Makes(World, u) /\ u.fsm = fsm /\ (u.circ.on => circ.on)
      /\ Undisturbed(World) /\ Scheduled(World) => Scheduled(u)
  BY <1>1, CirculateSound
<1>3. Idling(interval) = IF FloodsIdle THEN updateEbbFlow(u, interval) ELSE u
  BY DEF Idling
<1>4. /\ Sane(u) /\ (Undisturbed(World) => Undisturbed(u))
      /\ Kept(World) => Kept(u)
  BY <1>2 DEF Makes
<1> HIDE DEF u
<1>5. CASE ~FloodsIdle
  <2>1. session = NoSession => Scheduled(u)
    BY <1>2, <1>5 DEF FloodsIdle, Scheduled
  <2> QED
    BY <1>2, <1>3, <1>4, <1>5, <2>1
<1>6. CASE FloodsIdle
  <2>1. LET v == updateEbbFlow(u, interval)
        IN /\ Sane(v) /\ v.circ = u.circ /\ (Kept(u) => Kept(v))
           /\ ~u.circ.on => Makes(u, v) /\ (Undisturbed(u) => Scheduled(v))
    BY <1>4, EbbFlowSound
  <2> QED
    BY <1>1, <1>2, <1>3, <1>4, <1>6, <2>1, MakesMakes
<1> QED
  BY <1>5, <1>6

-----------------------------------------------------------------------------
(* The inductive invariant. *)
After == {"growScheduler", "ebbFlow", "floats"}

ServedOnce ==
  \/ pump.served = 0
  \/ pump.served = 1 /\ pump.on /\ pc = "lock" /\ dev = "maintenance"
Watched ==
  /\ InTime(pump) /\ (Pending => OneStart(World))
  /\ (pc \in After => Fresh(pump)) /\ ServedOnce

Untouched ==
  /\ dev \in {"idle", "growing"} /\ handler = "none" /\ session = NoSession
  /\ pc = "growScheduler" => dev = "growing"
  /\ pc = "ebbFlow" => dev = "idle"
  /\ circ.on => dev = "growing"
Alone ==
  ~meddled => /\ Untouched /\ Undisturbed(World)
              /\ pc \in After => NotOver(World)
              /\ pc = "floats" => Scheduled(World)

IInv == TypeOK /\ Watched /\ Alone

LEMMA Established == Init => IInv
<1> SUFFICES ASSUME Init PROVE IInv
  OBVIOUS
<1>1. /\ fsm = [state |-> "idle", fault |-> "none", hard |-> FALSE, since |-> 0, last |-> 0,
                count |-> 0]
      /\ pump = [on |-> FALSE, cont |-> FALSE, age |-> 0, dur |-> 0, latched |-> FALSE,
                 lock |-> FALSE, dry |-> None, ran |-> 0, served |-> 0]
      /\ circ = [on |-> FALSE, age |-> 0]
  BY DEF Init
<1>2. fsm \in FsmType /\ pump \in PumpType /\ circ \in CircType
  BY <1>1, Constants DEF FsmType, PumpType, CircType
<1>3. TypeOK
  <2>1. fsm.hard <=> fsm.state = "fault"
    BY <1>1
  <2>2. seen \in [now : BOOLEAN, cand : BOOLEAN, age : Nat]
    BY DEF Init
  <2>3. session \in [ebb : {"idle", "filling", "draining"}, soak : BOOLEAN]
    BY DEF Init, NoSession
  <2>4. asked \in [ack : BOOLEAN, force : BOOLEAN]
    BY DEF Init, NoRequest
  <2>5. /\ dev \in {"idle", "growing", "maintenance"}
        /\ handler \in {"none"} \cup Starts /\ calls \in 0 .. MaxCalls
        /\ pc \in {"lock", "actuators", "growScheduler", "ebbFlow", "floats"}
    BY Constants DEF Init
  <2>6. level \in BOOLEAN /\ float \in BOOLEAN /\ meddled \in BOOLEAN
    BY Zenon DEF Init
  <2> QED
    BY <1>2, <2>1, <2>2, <2>3, <2>4, <2>5, <2>6 DEF TypeOK
<1>4. Watched
  BY <1>1 DEF Init, Watched, InTime, After, ServedOnce, OneStart, World
<1>5. Undisturbed(World) /\ Scheduled(World) /\ NotOver(World)
  BY <1>1 DEF Undisturbed, World, Theirs, OnTime, Scheduled, NotOver
<1>6. Untouched
  BY <1>1 DEF Init, Untouched
<1> QED
  BY <1>3, <1>4, <1>5, <1>6 DEF IInv, Alone

LEMMA LockKeeps == IInv /\ Lock => IInv'
<1> SUFFICES ASSUME IInv, Lock PROVE IInv'
  OBVIOUS
<1> DEFINE stopped == IF dev = "maintenance" /\ pump.on THEN pump_stop(pump) ELSE pump
<1>1. TypeOK /\ Watched /\ Alone /\ pump \in PumpType
  BY DEF IInv, TypeOK
<1>2. pump' \in PumpType /\ pump' = [stopped EXCEPT !.lock = (dev = "maintenance")]
  BY <1>1, LockedPump DEF Lock
<1>3. /\ stopped \in PumpType /\ InTime(stopped) /\ stopped.served = 0
      /\ dev # "maintenance" => stopped = pump
      /\ stopped = pump \/ ~stopped.on
  BY <1>1, Stopped, InTimeKept DEF Watched, ServedOnce, Pending
<1> HIDE DEF stopped
<1>4. /\ pump'.on = stopped.on /\ pump'.cont = stopped.cont /\ pump'.age = stopped.age
      /\ pump'.dur = stopped.dur /\ pump'.ran = stopped.ran /\ pump'.served = stopped.served
      /\ dev # "maintenance" => ~pump'.lock
  BY <1>2, <1>3 DEF PumpType
<1>5. TypeOK'
  BY <1>1, <1>2 DEF TypeOK, Lock, people, inputs
<1>6. Watched'
  <2>1. handler' = handler /\ fsm' = fsm /\ pc' = "actuators"
    BY DEF Lock, people
  <2>2. InTime(pump)'
    BY <1>3, <1>4, <2>1 DEF InTime, Pending
  <2>3. (Pending => OneStart(World))'
    BY <1>1, <1>3, <1>4, <2>1 DEF Watched, OneStart, World, Pending
  <2> QED
    BY <1>3, <1>4, <2>1, <2>2, <2>3 DEF Watched, ServedOnce, After
<1>7. ASSUME ~meddled' PROVE Untouched' /\ Undisturbed(World)'
  <2>1. ~meddled /\ Untouched /\ Undisturbed(World) /\ dev # "maintenance"
    BY <1>1, <1>7 DEF Lock, people, Alone, Untouched
  <2>2. Untouched'
    BY <2>1 DEF Untouched, Lock, people
  <2>3. /\ pump'.on = pump.on /\ pump'.cont = pump.cont /\ pump'.age = pump.age
        /\ pump'.dur = pump.dur /\ ~pump'.lock /\ fsm' = fsm /\ circ' = circ
    BY <1>3, <1>4, <2>1 DEF Lock
  <2>4. Undisturbed(World)'
    BY <2>1, <2>3 DEF Undisturbed, World, Theirs, OnTime
  <2> QED
    BY <2>2, <2>4
<1>8. Alone'
  BY <1>7 DEF Alone, Lock, After
<1> QED
  BY <1>5, <1>6, <1>8 DEF IInv

LEMMA ActuatorsKeeps == IInv /\ Actuators => IInv'
<1> SUFFICES ASSUME IInv, Actuators PROVE IInv'
  OBVIOUS
<1> DEFINE u == pump_update(pump, float)
<1>1. TypeOK /\ Watched /\ Alone /\ pump \in PumpType /\ float \in BOOLEAN
  BY DEF IInv, TypeOK
<1>2. /\ u \in PumpType /\ u.lock = pump.lock
      /\ u = pump \/ (~u.on /\ u.ran = 0 /\ u.served = 0)
      /\ u.on => u = pump /\ pump.age < AbsMax /\ (~pump.cont => pump.age < pump.dur)
  BY <1>1, Updated
<1>3. pump' = pump_overflowAutoClearTick(u, float)
  BY DEF Actuators
<1> HIDE DEF u
<1>4. /\ pump' \in PumpType /\ pump'.lock = u.lock
      /\ pump'.on = u.on /\ pump'.cont = u.cont /\ pump'.age = u.age /\ pump'.dur = u.dur
      /\ pump'.ran = u.ran /\ pump'.served = u.served
  BY <1>1, <1>2, <1>3, Cleared
<1>5. pc' \in After /\ (dev # "maintenance" => pc' # "floats")
      /\ (pc' = "growScheduler" => dev = "growing") /\ (pc' = "ebbFlow" => dev = "idle")
  BY <1>1 DEF TypeOK, Actuators, After
<1>6. TypeOK'
  BY <1>1, <1>4, <1>5 DEF TypeOK, Actuators, people, inputs, After
<1>7. pump.served = 0
  BY <1>1 DEF Watched, ServedOnce, Actuators
<1>8. InTime(pump)' /\ (Pending => OneStart(World))'
  <2>1. handler' = handler /\ fsm' = fsm
    BY DEF Actuators, people
  <2>2. InTime(pump)'
    BY <1>1, <1>2, <1>4, <2>1 DEF Watched, InTime, Pending
  <2>3. (Pending => OneStart(World))'
    BY <1>1, <1>2, <1>4, <2>1 DEF Watched, OneStart, World, Pending
  <2> QED
    BY <2>2, <2>3
<1>9. Fresh(pump)'
  <2>1. pump.age \in Nat /\ AbsMax \in Nat
    BY <1>1, Constants DEF PumpType
  <2>2. ~(pump'.on /\ pump'.age = AbsMax)
    BY <1>2, <1>4, <2>1
  <2> QED
    BY <2>2 DEF Fresh
<1>10. Watched'
  BY <1>2, <1>4, <1>7, <1>8, <1>9 DEF Watched, ServedOnce
<1>11. ASSUME ~meddled' PROVE Untouched' /\ Undisturbed(World)' /\ NotOver(World)'
                               /\ pc' # "floats"
  <2>1. ~meddled /\ Untouched /\ Undisturbed(World) /\ dev # "maintenance"
    BY <1>1, <1>11 DEF Actuators, people, Alone, Untouched
  <2>2. Untouched'
    BY <1>5, <2>1 DEF Untouched, Actuators, people
  <2>3. fsm' = fsm /\ circ' = circ
    BY DEF Actuators
  <2>4. Undisturbed(World)'
    BY <1>2, <1>4, <2>1, <2>3 DEF Undisturbed, World, Theirs, OnTime
  <2>5. NotOver(World)'
    BY <1>2, <1>4, <2>1, <2>3 DEF Undisturbed, World, OnTime, NotOver
  <2> QED
    BY <1>5, <2>1, <2>2, <2>4, <2>5
<1>12. Alone'
  BY <1>11 DEF Alone
<1> QED
  BY <1>6, <1>10, <1>12 DEF IInv

LEMMA SaneWorld == TypeOK => Readings /\ Sane(World)
<1> SUFFICES ASSUME TypeOK PROVE Readings /\ Sane(World)
  OBVIOUS
<1>1. Readings
  BY DEF TypeOK, Readings
<1>2. World \in WorldType /\ World.fsm = fsm
  BY DEF TypeOK, World, WorldType
<1> QED
  BY <1>1, <1>2 DEF TypeOK, Sane, Sound

LEMMA SchedulerKeeps ==
  IInv /\ Scheduler =>
    /\ IInv'
    /\ ~meddled /\ ~fsm.hard /\ fsm'.hard => fsm'.fault = "overflow" \/ Contradiction
<1> SUFFICES ASSUME IInv, Scheduler
             PROVE  /\ IInv'
                    /\ ~meddled /\ ~fsm.hard /\ fsm'.hard =>
                         fsm'.fault = "overflow" \/ Contradiction
  OBVIOUS
<1>1. TypeOK /\ Watched /\ Alone
  BY DEF IInv
<1>2. Readings /\ Sane(World)
  BY <1>1, SaneWorld
<1>3. World.fsm = fsm /\ World.pump = pump /\ World.circ = circ
  BY DEF World
<1>4. pc \in {"growScheduler", "ebbFlow"} /\ pc' = "floats"
  BY DEF Scheduler
<1>5. Kept(World)
  BY <1>1, <1>3, <1>4 DEF Watched, Kept, KeptPump, ServedOnce, After, TypeOK
<1>6. PICK interval \in Intervals :
        LET v == IF pc = "growScheduler" THEN Growing(interval) ELSE Idling(interval)
        IN fsm' = v.fsm /\ pump' = v.pump /\ circ' = v.circ
  BY DEF Scheduler
<1>7. interval \in Nat
  BY GrowerAssumption DEF GrowerAssumption
<1> DEFINE v == IF pc = "growScheduler" THEN Growing(interval) ELSE Idling(interval)
<1>8. fsm' = v.fsm /\ pump' = v.pump /\ circ' = v.circ
  BY <1>6
<1>9. Sane(v) /\ Kept(v)
      /\ (pc = "growScheduler" \/ ~circ.on =>
            Makes(World, v) /\ (Undisturbed(World) /\ session = NoSession => Scheduled(v)))
      /\ (pc = "ebbFlow" => (v.circ.on => circ.on))
  <2>1. CASE pc = "growScheduler"
    <3> DEFINE g == Growing(interval)
    <3>1. /\ Sane(g) /\ Kept(g) /\ Makes(World, g)
          /\ Undisturbed(World) /\ session = NoSession => Scheduled(g)
      BY <1>2, <1>3, <1>5, <1>7, GrowingSound DEF Makes
    <3>2. v = g
      BY <2>1
    <3> HIDE DEF g, v
    <3> QED
      BY <2>1, <3>1, <3>2
  <2>2. CASE pc = "ebbFlow"
    <3> DEFINE g == Idling(interval)
    <3>1. /\ Sane(g) /\ Kept(g) /\ (g.circ.on => circ.on)
          /\ ~circ.on => /\ Makes(World, g)
                         /\ Undisturbed(World) /\ session = NoSession => Scheduled(g)
      BY <1>2, <1>3, <1>5, <1>7, IdlingSound
    <3>2. v = g /\ pc # "growScheduler"
      BY <2>2
    <3> HIDE DEF g, v
    <3>3. Sane(v) /\ Kept(v) /\ (v.circ.on => circ.on)
      BY <3>1, <3>2
    <3>4. ~circ.on =>
            Makes(World, v) /\ (Undisturbed(World) /\ session = NoSession => Scheduled(v))
      BY <3>1, <3>2
    <3> QED
      BY <2>2, <3>2, <3>3, <3>4
  <2> QED
    BY <1>4, <2>1, <2>2
<1> HIDE DEF v
<1>10. /\ fsm' \in FsmType /\ pump' \in PumpType /\ circ' \in CircType
       /\ fsm'.hard <=> fsm'.state = "fault"
  BY <1>8, <1>9 DEF Sane, WorldType, Sound
<1>11. asked' \in [ack : BOOLEAN, force : BOOLEAN]
  BY <1>1 DEF Scheduler, TypeOK, NoRequest
<1>12. TypeOK'
  BY <1>1, <1>4, <1>10, <1>11 DEF TypeOK, Scheduler, people, inputs
<1>13. Watched'
  <2>1. handler' = handler
    BY DEF Scheduler, people
  <2>2. InTime(pump)' /\ Fresh(pump)' /\ pump'.served = 0
    BY <1>8, <1>9, <2>1 DEF Kept, KeptPump, InTime, Fresh, Pending
  <2>3. (Pending => OneStart(World))'
    BY <1>8, <1>9, <2>1 DEF Kept, OneStart, World, Pending
  <2> QED
    BY <2>2, <2>3 DEF Watched, ServedOnce
<1>14. ASSUME ~meddled
       PROVE  /\ Untouched' /\ Undisturbed(World)' /\ NotOver(World)' /\ Scheduled(World)'
              /\ ~fsm.hard /\ fsm'.hard => fsm'.fault = "overflow" \/ Contradiction
  <2>1. Untouched /\ Undisturbed(World) /\ NotOver(World)
    BY <1>1, <1>4, <1>14 DEF Alone, After
  <2>2. Makes(World, v) /\ Scheduled(v) /\ (v.circ.on => dev = "growing")
    BY <1>3, <1>4, <1>9, <2>1 DEF Untouched
  <2>3. Undisturbed(v) /\ NotOver(v)
        /\ (~fsm.hard /\ v.fsm.hard => v.fsm.fault = "overflow" \/ Contradiction)
    BY <1>3, <2>1, <2>2 DEF Makes
  <2>4. Untouched'
    BY <1>4, <1>8, <2>1, <2>2 DEF Untouched, Scheduler, people
  <2>5. Undisturbed(World)' /\ NotOver(World)' /\ Scheduled(World)'
    BY <1>8, <2>2, <2>3 DEF World, Undisturbed, Theirs, OnTime, NotOver, Scheduled
  <2> QED
    BY <1>8, <2>3, <2>4, <2>5
<1>15. Alone'
  BY <1>14 DEF Alone, Scheduler, people
<1> QED
  BY <1>12, <1>13, <1>14, <1>15 DEF IInv

LEMMA FsmAges ==
  ASSUME NEW f \in FsmType, NEW longest \in Nat
  PROVE  /\ FsmOlder(f, longest) \in FsmType
         /\ FsmOlder(f, longest).state = f.state /\ FsmOlder(f, longest).hard = f.hard
         /\ FsmOlder(f, longest).since <= f.since + 1
         /\ f.since < FloodFor => FsmOlder(f, longest).since = f.since + 1
<1> DEFINE since == Least(f.since + 1, FloodFor + Margin + SoakFor + DrainFor)
           last == Least(f.last + 1, longest)
<1>1. /\ since \in Nat /\ since <= f.since + 1
      /\ f.since < FloodFor => since = f.since + 1
  BY Constants DEF FsmType, Least
<1>2. last \in Nat
  BY DEF FsmType, Least
<1>3. FsmOlder(f, longest) = [f EXCEPT !.since = since, !.last = last]
  BY DEF FsmOlder
<1> HIDE DEF since, last
<1> QED
  BY <1>1, <1>2, <1>3 DEF FsmType

LEMMA PumpAges ==
  ASSUME NEW p \in PumpType, NEW service \in BOOLEAN
  PROVE  LET q == PumpOlder(p, service)
         IN /\ q \in PumpType
            /\ q.on = p.on /\ q.cont = p.cont /\ q.dur = p.dur /\ q.lock = p.lock
            /\ p.on => q.age = (IF p.age < AbsMax THEN p.age + 1 ELSE AbsMax)
            /\ q.ran = IF p.on THEN p.ran + 1 ELSE 0
            /\ q.served = IF p.on /\ service THEN p.served + 1 ELSE 0
<1> DEFINE age == IF p.on \/ p.cont THEN Least(p.age + 1, AbsMax) ELSE 0
           dry == IF p.dry = None THEN None ELSE Least(p.dry + 1, Settle)
           ran == IF p.on THEN p.ran + 1 ELSE 0
           served == IF p.on /\ service THEN p.served + 1 ELSE 0
           r == [p EXCEPT !.age = age, !.dry = dry]
<1>1. /\ age \in 0 .. AbsMax
      /\ p.on => age = IF p.age < AbsMax THEN p.age + 1 ELSE AbsMax
  BY Constants DEF PumpType, Least
<1>2. dry \in {None} \cup 0 .. Settle
  BY Constants DEF PumpType, Least, None
<1>3. ran \in Nat /\ served \in Nat
  BY DEF PumpType
<1>4. PumpOlder(p, service) = [p EXCEPT !.age = age, !.dry = dry, !.ran = ran, !.served = served]
  BY DEF PumpOlder
<1>5. ran = (IF p.on THEN p.ran + 1 ELSE 0)
      /\ served = (IF p.on /\ service THEN p.served + 1 ELSE 0)
  OBVIOUS
<1> HIDE DEF age, dry, ran, served
<1>6. r \in PumpType /\ r.on = p.on /\ r.cont = p.cont /\ r.dur = p.dur /\ r.lock = p.lock
      /\ r.age = age
  BY <1>1, <1>2 DEF PumpType
<1>7. PumpOlder(p, service) = [r EXCEPT !.ran = ran, !.served = served]
  BY <1>4 DEF PumpType
<1> HIDE DEF r
<1> QED
  BY <1>1, <1>3, <1>5, <1>6, <1>7 DEF PumpType

LEMMA LongestNat == Longest \in Nat /\ CircLongest \in Nat
BY Constants, GrowerAssumption DEF GrowerAssumption, Longest, CircLongest

LEMMA FloatsKeeps == IInv /\ Floats => IInv'
<1> SUFFICES ASSUME IInv, Floats PROVE IInv'
  OBVIOUS
<1>1. TypeOK /\ Watched /\ Alone /\ fsm \in FsmType /\ pump \in PumpType /\ circ \in CircType
  BY DEF IInv, TypeOK
<1>2. Longest \in Nat /\ CircLongest \in Nat
  BY LongestNat
<1>3. seen' \in [now : BOOLEAN, cand : BOOLEAN, age : Nat]
  <2>1. Candidate \in [now : BOOLEAN, cand : BOOLEAN, age : Nat]
    BY <1>1 DEF Candidate, TypeOK
  <2>2. Debounced \in [now : BOOLEAN, cand : BOOLEAN, age : Nat]
    BY <1>1, <2>1 DEF Debounced, TypeOK
  <2> QED
    BY <2>2 DEF Older, Floats
<1>4. /\ fsm' \in FsmType /\ fsm'.state = fsm.state /\ fsm'.hard = fsm.hard
      /\ fsm.since < FloodFor => fsm'.since = fsm.since + 1
      /\ fsm'.since <= fsm.since + 1
  BY <1>1, <1>2, FsmAges DEF Floats
<1>5. /\ pump' \in PumpType /\ pump'.on = pump.on /\ pump'.cont = pump.cont
      /\ pump'.dur = pump.dur /\ pump'.lock = pump.lock
      /\ pump.on => pump'.age = (IF pump.age < AbsMax THEN pump.age + 1 ELSE AbsMax)
      /\ pump'.ran = (IF pump.on THEN pump.ran + 1 ELSE 0)
      /\ pump'.served = (IF pump.on /\ dev = "maintenance" THEN pump.served + 1 ELSE 0)
  BY <1>1, PumpAges DEF Floats
<1>6. circ' \in CircType /\ circ'.on = circ.on
  BY <1>1, <1>2, LeastNat DEF Floats, CircType
<1>7. TypeOK'
  BY <1>1, <1>3, <1>4, <1>5, <1>6 DEF TypeOK, Floats, people
<1>8. pump.served = 0 /\ Fresh(pump) /\ InTime(pump) /\ (Pending => OneStart(World))
  BY <1>1 DEF Watched, ServedOnce, Floats, After
<1>9. InTime(pump)' /\ (Pending => OneStart(World))'
  <2>1. handler' = handler
    BY DEF Floats, people
  <2>2. InTime(pump)'
    BY <1>1, <1>5, <1>8, <2>1, Constants DEF InTime, Fresh, PumpType, Pending
  <2>3. pump.on /\ pump.ran <= pump.age => pump'.ran <= pump'.age
    BY <1>1, <1>5, <1>8, Constants DEF Fresh, PumpType
  <2>4. (Pending => OneStart(World))'
    BY <1>4, <1>5, <1>8, <2>1, <2>3 DEF OneStart, World, Pending
  <2> QED
    BY <2>2, <2>4
<1>10. ServedOnce'
  BY <1>5, <1>8 DEF ServedOnce, Floats
<1>11. Watched'
  BY <1>9, <1>10 DEF Watched, Floats, After
<1>12. ASSUME ~meddled' PROVE Untouched' /\ Undisturbed(World)'
  <2>1. Untouched /\ Undisturbed(World) /\ NotOver(World) /\ Scheduled(World)
    BY <1>1, <1>12 DEF Alone, Floats, After, people
  <2>2. Untouched'
    BY <1>6, <2>1 DEF Untouched, Floats, people
  <2>3. /\ fsm.state = "flood" => pump.on /\ fsm.since < FloodFor
        /\ fsm.state = "flood" => pump'.age = fsm'.since /\ fsm'.since <= FloodFor
    BY <1>1, <1>4, <1>5, <2>1, Constants
       DEF Undisturbed, World, OnTime, NotOver, Scheduled, FsmType, PumpType
  <2>4. OnTime(World)'
    BY <1>4, <1>5, <2>1, <2>3 DEF Undisturbed, World, OnTime
  <2>5. Theirs(World)' /\ ~pump'.lock
    BY <1>4, <1>5, <1>6, <2>1 DEF Undisturbed, World, Theirs
  <2> QED
    BY <2>2, <2>4, <2>5 DEF Undisturbed, World
<1>13. Alone'
  BY <1>12 DEF Alone, Floats, After
<1> QED
  BY <1>7, <1>11, <1>13 DEF IInv

(* Whatever a handler makes of the pump, it is one of these.               *)
LEMMA HandledPump ==
  ASSUME TypeOK, Watched, pc' = pc, meddled', dev' = dev, handler' = "none",
         \/ pump' = pump_stop(pump)
         \/ Pending /\ \E dur \in Nat : pump' = Dosing(pump, dur)
         \/ \E duty \in Nat : pump' = Running(pump, duty)
  PROVE  Watched' /\ Alone' /\ pump' \in PumpType
<1>1. pump \in PumpType /\ InTime(pump)
      /\ (Pending => (pump.on => pump.ran <= pump.age))
  BY DEF TypeOK, Watched, OneStart, World
<1>2. pump' \in PumpType /\ InTime(pump')
  BY <1>1, Stopped, Dosed, Ran, InTimeKept
<1>3. pc' \in After => Fresh(pump')
  BY <1>1, FreshKept DEF Watched
<1>4. ServedOnce'
  <2>1. pump'.served = 0 \/ (pump'.served = pump.served /\ pump'.on)
    <3>1. CASE pump' = pump_stop(pump)
      BY <1>1, <3>1, Stopped
    <3>2. CASE \E dur \in Nat : pump' = Dosing(pump, dur)
      <4>1. PICK dur \in Nat : pump' = Dosing(pump, dur)
        BY <3>2
      <4>2. pump'.on /\ pump'.served = IF pump.on THEN pump.served ELSE 0
        BY <1>1, <4>1, Dosed
      <4> QED
        BY <4>2
    <3>3. CASE \E duty \in Nat : pump' = Running(pump, duty)
      <4>1. PICK duty \in Nat : pump' = Running(pump, duty)
        BY <3>3
      <4>2. /\ pump'.on <=> duty > 0
            /\ pump'.served = IF pump.on /\ duty > 0 THEN pump.served ELSE 0
        BY <1>1, <4>1, Ran
      <4> QED
        BY <4>2
    <3> QED
      BY <3>1, <3>2, <3>3
  <2> QED
    BY <2>1 DEF Watched, ServedOnce
<1>5. Watched'
  BY <1>2, <1>3, <1>4 DEF Watched, InTime, Fresh, OneStart, Pending
<1> QED
  BY <1>2, <1>5 DEF Alone

(* The handlers that leave the pump running or not, as it was: they change *)
(* at most its latch and the count of its service.                         *)
LEMMA UnhandledPump ==
  ASSUME TypeOK, Watched, pc' = pc, pump' \in PumpType, pump'.on = pump.on,
         pump'.cont = pump.cont, pump'.age = pump.age, pump'.ran = pump.ran,
         pump'.served = 0 \/ (pump'.served = pump.served /\ dev' = dev),
         Pending' => ~pump.on
  PROVE  Watched'
BY DEF Watched, InTime, Fresh, ServedOnce, OneStart, World

LEMMA HandlersKeep == IInv /\ (Handlers \/ Finish) => IInv'
<1> SUFFICES ASSUME IInv, Handlers \/ Finish PROVE IInv'
  OBVIOUS
<1>1. TypeOK /\ Watched /\ Alone /\ pump \in PumpType
      /\ session \in [ebb : {"idle", "filling", "draining"}, soak : BOOLEAN]
      /\ asked \in [ack : BOOLEAN, force : BOOLEAN] /\ calls \in 0 .. MaxCalls
  BY DEF IInv, TypeOK
<1>2. /\ [session EXCEPT !.ebb = "filling"] \in
           [ebb : {"idle", "filling", "draining"}, soak : BOOLEAN]
      /\ [session EXCEPT !.ebb = "draining"] \in
           [ebb : {"idle", "filling", "draining"}, soak : BOOLEAN]
      /\ [session EXCEPT !.ebb = "idle"] \in
           [ebb : {"idle", "filling", "draining"}, soak : BOOLEAN]
      /\ [session EXCEPT !.soak = TRUE] \in
           [ebb : {"idle", "filling", "draining"}, soak : BOOLEAN]
      /\ [session EXCEPT !.soak = FALSE] \in
           [ebb : {"idle", "filling", "draining"}, soak : BOOLEAN]
      /\ [asked EXCEPT !.force = TRUE] \in [ack : BOOLEAN, force : BOOLEAN]
      /\ [asked EXCEPT !.ack = TRUE] \in [ack : BOOLEAN, force : BOOLEAN]
  BY <1>1
<1>3. pump_stop(pump) \in PumpType
  BY <1>1, Stopped
<1>4. Call => calls' \in 0 .. MaxCalls
  BY <1>1, Constants DEF Call
<1>5. CASE \E op \in Starts : Begin(op)
  <2>1. PICK op \in Starts : Begin(op)
    BY <1>5
  <2>2. TypeOK'
    BY <1>1, <1>4, <2>1 DEF TypeOK, Begin, Meddle, Rest, inputs
  <2>3. Watched'
    BY <1>1, <2>1, UnhandledPump DEF Begin, Rest, May, MayStart, Pending
  <2> QED
    BY <2>1, <2>2, <2>3 DEF IInv, Alone, Begin, Meddle
<1>6. CASE PumpOff \/ CaptureFull \/ CancelFill \/ EndSoak
  <2>1. /\ pump' = pump_stop(pump) /\ pc' = pc /\ dev' = dev /\ meddled'
        /\ calls' \in 0 .. MaxCalls /\ handler' = "none"
    BY <1>1, <1>4, <1>6
       DEF PumpOff, CaptureFull, CancelFill, EndSoak, Rest, Meddle, Call, Capture
  <2>2. session' \in [ebb : {"idle", "filling", "draining"}, soak : BOOLEAN]
    BY <1>1, <1>2, <1>6 DEF PumpOff, CaptureFull, CancelFill, EndSoak
  <2>3. TypeOK'
    BY <1>1, <1>3, <1>6, <2>1, <2>2
       DEF TypeOK, PumpOff, CaptureFull, CancelFill, EndSoak, Rest, inputs, Meddle, Call,
           Capture
  <2> QED
    BY <1>1, <2>1, <2>3, HandledPump DEF IInv
<1>7. CASE CaptureEmpty
  <2>1. TypeOK'
    BY <1>1, <1>2, <1>7 DEF TypeOK, CaptureEmpty, Capture, Rest, inputs
  <2>2. Watched'
    BY <1>1, <1>7, UnhandledPump DEF CaptureEmpty, Capture, Rest, Pending
  <2> QED
    BY <1>7, <2>1, <2>2 DEF IInv, Alone, CaptureEmpty, Capture
<1>8. CASE ClearOverflow
  <2>1. /\ pump' \in PumpType
        /\ pump'.on = pump.on /\ pump'.cont = pump.cont /\ pump'.age = pump.age
        /\ pump'.dur = pump.dur /\ pump'.ran = pump.ran /\ pump'.served = pump.served
        /\ pump'.lock = pump.lock
    BY <1>1, <1>8 DEF ClearOverflow, PumpType
  <2>2. TypeOK'
    BY <1>1, <1>4, <1>8, <2>1 DEF TypeOK, ClearOverflow, Call, Rest, inputs
  <2>3. Watched'
    BY <1>1, <1>8, <2>1, UnhandledPump DEF ClearOverflow, Call, Rest, Pending
  <2>4. Alone'
    BY <1>1, <1>8, <2>1
       DEF ClearOverflow, Call, Rest, inputs, Alone, Untouched, Undisturbed, World, Theirs,
           OnTime, NotOver, Scheduled
  <2> QED
    BY <2>2, <2>3, <2>4 DEF IInv
<1>9. CASE FloodNow \/ AckFault
  <2>1. /\ UNCHANGED <<dev, fsm, pump, circ, session, handler, pc, meddled>>
        /\ calls' \in 0 .. MaxCalls /\ asked' \in [ack : BOOLEAN, force : BOOLEAN]
        /\ ~Pending'
    BY <1>1, <1>2, <1>4, <1>9 DEF FloodNow, AckFault, Call, Rest, Pending
  <2>2. TypeOK'
    BY <1>1, <1>9, <2>1 DEF TypeOK, FloodNow, AckFault, Rest, inputs
  <2>3. Watched'
    BY <1>1, <2>1, UnhandledPump
  <2>4. Alone'
    BY <1>1, <2>1 DEF Alone, Untouched, World
  <2> QED
    BY <2>2, <2>3, <2>4 DEF IInv
<1>10. CASE \E state \in {"idle", "growing", "maintenance"} : SetDevice(state)
  <2>1. PICK state \in {"idle", "growing", "maintenance"} : SetDevice(state)
    BY <1>10
  <2>2. /\ pump' \in PumpType
        /\ pump'.on = pump.on /\ pump'.cont = pump.cont /\ pump'.age = pump.age
        /\ pump'.ran = pump.ran /\ pump'.served = 0
    BY <1>1, <2>1 DEF SetDevice, PumpType
  <2>3. TypeOK'
    BY <1>1, <1>4, <2>1, <2>2 DEF TypeOK, SetDevice, Meddle, Rest, inputs
  <2>4. Watched'
    BY <1>1, <2>1, <2>2, UnhandledPump DEF SetDevice, Meddle, Call, Rest, Pending
  <2> QED
    BY <2>1, <2>3, <2>4 DEF IInv, Alone, SetDevice, Meddle
<1>11. CASE Finish
  <2>1. /\ pc' = pc /\ dev' = dev /\ meddled' = meddled /\ handler # "none"
        /\ handler \in Starts
    BY <1>1, <1>11 DEF TypeOK, Finish, Rest
  <2>2. meddled
    BY <1>1, <2>1 DEF Alone, Untouched, TypeOK
  <2>3. \/ Pending /\ \E dur \in Nat : pump' = Dosing(pump, dur)
        \/ \E duty \in Nat : pump' = Running(pump, duty)
    <3>1. CASE handler = "water"
      BY <1>11, <3>1, Constants DEF Finish, Pending
    <3>2. CASE handler = "fill"
      BY <1>11, <3>2, Constants DEF Finish, Pending
    <3>3. CASE handler \in {"test", "soak", "hold"}
      BY <1>11, <3>3 DEF Finish
    <3>4. CASE handler \in {"rest", "hold_rest"}
      BY <1>11, <3>4 DEF Finish
    <3> QED
      BY <2>1, <3>1, <3>2, <3>3, <3>4 DEF Starts
  <2>4. session' \in [ebb : {"idle", "filling", "draining"}, soak : BOOLEAN]
    BY <1>1, <1>2, <1>11 DEF Finish
  <2>5. Watched' /\ Alone' /\ pump' \in PumpType
    BY <1>1, <1>11, <2>1, <2>2, <2>3, HandledPump DEF Finish
  <2>6. UNCHANGED <<dev, asked, calls, meddled, Rest>> /\ handler' = "none"
    BY <1>11 DEF Finish
  <2>7. TypeOK'
    BY <1>1, <2>4, <2>5, <2>6 DEF TypeOK, Rest, inputs
  <2> QED
    BY <2>5, <2>7 DEF IInv
<1> QED
  BY <1>5, <1>6, <1>7, <1>8, <1>9, <1>10, <1>11 DEF Handlers

LEMMA WaterKeeps == IInv /\ (Water \/ UNCHANGED vars) => IInv'
<1> SUFFICES ASSUME IInv, Water \/ UNCHANGED vars PROVE IInv'
  OBVIOUS
<1>1. /\ UNCHANGED <<dev, fsm, pump, circ, seen, session, asked, pc, level, handler, calls,
                     meddled>>
      /\ float' \in BOOLEAN
  BY DEF Water, vars, people, IInv, TypeOK
<1>2. TypeOK'
  BY <1>1 DEF IInv, TypeOK
<1>3. Watched'
  BY <1>1 DEF IInv, Watched, ServedOnce, OneStart, World, Pending
<1>4. Alone'
  BY <1>1 DEF IInv, Alone, Untouched, World
<1> QED
  BY <1>2, <1>3, <1>4 DEF IInv

LEMMA Inductive == IInv /\ [Next]_vars => IInv'
BY LockKeeps, ActuatorsKeeps, SchedulerKeeps, FloatsKeeps, HandlersKeep, WaterKeeps
   DEF Next, Loop

LEMMA Invariant == Spec => []IInv
BY Established, Inductive, PTL DEF Spec

-----------------------------------------------------------------------------
(* Types, of the grower: every record the loop and the handlers share is   *)
(* well-formed, and a hard fault is latched exactly in the state of fault  *)
(* (ebbflow_fsm.cpp).                                                      *)
THEOREM Types == Spec => []TypeOK
BY Invariant, PTL DEF IInv

(* Whatever a handler slips in between two iterations, the pump is stopped *)
(* by the next one in maintenance (pump_setMaintenanceLock).               *)
THEOREM ServiceAlwaysStops == Spec => []ServiceStops
<1>1. IInv => ServiceStops
  BY DEF IInv, Watched, ServedOnce, ServiceStops
<1> QED
  BY <1>1, Invariant, PTL

(* However long it is asked to run, and by whom, the pump is never on for  *)
(* longer than three times the ceiling of pump_update.  A start is stamped *)
(* anew while the pump is on by the dose of a handler that looked before   *)
(* it was (pump_startForMs), and by the continuous run that takes over a   *)
(* dose (pump_setContinuous); the sum is reached.                          *)
THEOREM RunsAreBounded == Spec => []OnTimeBounded
<1>1. IInv => OnTimeBounded
  BY Constants DEF IInv, Watched, InTime, OnTimeBounded, TypeOK, PumpType
<1> QED
  BY <1>1, Invariant, PTL

(* Nobody has touched the device: then a hard fault is an overflow, or two *)
(* floats that contradict each other, never a pump that ran too long or    *)
(* would not start (scheduler_updateEbbFlow).                              *)
THEOREM FaultsAreReal == Spec => HardFaultReal
<1> DEFINE Real == ~meddled /\ ~fsm.hard /\ fsm'.hard => fsm'.fault = "overflow" \/ Contradiction
<1>1. IInv /\ [Next]_vars => Real
  <2>1. IInv /\ Scheduler => Real
    BY SchedulerKeeps
  <2>2. Lock \/ Actuators \/ Handlers \/ Finish \/ Water \/ UNCHANGED vars => fsm' = fsm
    BY DEF Lock, Actuators, Handlers, Begin, PumpOff, CaptureFull, CaptureEmpty, CancelFill,
           EndSoak, ClearOverflow, FloodNow, AckFault, SetDevice, Rest, Finish, Water, vars
  <2>3. ASSUME IInv, Floats PROVE Real
    <3>1. fsm \in FsmType
      BY <2>3 DEF IInv, TypeOK
    <3>2. fsm' = FsmOlder(fsm, Longest)
      BY <2>3 DEF Floats
    <3>3. fsm'.hard = fsm.hard
      BY <3>1, <3>2, LongestNat, FsmAges
    <3> QED
      BY <3>3
  <2> QED
    BY <2>1, <2>2, <2>3 DEF Next, Loop
<1>2. IInv /\ [Next]_vars => [Real]_vars
  BY <1>1
<1> QED
  BY <1>2, Invariant, PTL DEF Spec, HardFaultReal
=============================================================================
