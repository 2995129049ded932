---------------------------- MODULE CycleTracker ----------------------------
(***************************************************************************)
(* core/dsp.h, pushChannel: how one channel finds the cycles of its        *)
(* cylinder.  Time is counted in samples.  A Schmitt trigger fires at      *)
(* boundaries between cycles; an interval between two boundaries becomes a *)
(* cycle when its length and size agree with what went before and when the *)
(* pulse that ended it has been seen to its bottom.                        *)
(*                                                                         *)
(* The signal is the environment: when the trigger fires and arms, whether *)
(* the channel swings, and whether a comparison of two amplitudes agrees,  *)
(* are choices.  The lengths, which decide the speed and over what the     *)
(* mean is taken, are exact to a sample; the fraction of a sample that the *)
(* code interpolates is left out, and so are the filters.                  *)
(***************************************************************************)
EXTENDS Integers

CONSTANTS
  MinPeriod,  \* min_period_
  Nominal,    \* the period at rpm_min
  Settle,     \* settle_n_
  Timeout,    \* timeout_n_
  Kept,       \* avg_n_
  Steady      \* the periods the engine may settle down to

(* configure accepts a tenth more than rpm_min says. *)
MaxPeriod == (110 * Nominal) \div 100

(* configValidate demands of the timeout that it be longer than Nominal. *)
ASSUME TrackerAssumption ==
  /\ MinPeriod \in Nat \ {0} /\ Nominal \in Nat /\ MinPeriod <= Nominal
  /\ Settle \in Nat \ {0} /\ Kept \in Nat \ {0}
  /\ Timeout \in Nat /\ Timeout > Nominal
  /\ Steady \subseteq MinPeriod .. MaxPeriod

VARIABLES
  c,       \* the channel
  engine,  \* the period it has settled down to, 0 while anything happens
  phase    \* samples since the last pulse of the settled engine

vars == <<c, engine, phase>>

Window == MaxPeriod + 1
kStepSettleFactor == 2
kMaxRatioRejects == 2
kMaxStaleRolls == 2
Far == Window + 2  \* a bound: longer distances are all too long
None == [per |-> 0]

Least(a, b) == IF a < b THEN a ELSE b

(* Is p between lo and hi hundredths of r? *)
Within(p, lo, hi, r) == lo * r <= 100 * p /\ 100 * p <= hi * r

-----------------------------------------------------------------------------
(* The channel.  Besides its members: whole, acc covers all since the last *)
(* boundary; strikes, boundaries since the chain began; before, the        *)
(* interval before the last; used, how often the last interval, and the    *)
(* one before, were counted.                                               *)
Cleared ==
  [primed |-> FALSE, settle |-> 0, quiet |-> 0, armed |-> FALSE, seg |-> 0,
   since |-> 0, chain |-> FALSE, dist |-> 0, last |-> 0, ref |-> 0,
   rejects |-> 0, rolls |-> 0, trusted |-> FALSE, pending |-> None, tent |-> None,
   pulse |-> FALSE, age |-> 0, count |-> 0,
   whole |-> FALSE, strikes |-> 0, before |-> 0, used |-> <<0, 0>>]

Locked(ch) == ch.pulse /\ ch.ref > 0

(* recordCycle.  Of the history only matters how long it is, up to Kept. *)
Recorded(ch, per) ==
  [ch EXCEPT !.ref = per, !.rejects = 0, !.rolls = 0, !.pulse = TRUE, !.age = 0,
             !.count = Least(@ + 1, Kept), !.used[1] = @ + 1]

(* The pulse is gone when no cycle was recorded for Timeout. *)
TimedOut(ch) ==
  IF ch.pulse /\ ch.age + 1 >= Timeout
  THEN [ch EXCEPT !.age = @ + 1, !.pulse = FALSE, !.ref = 0, !.rejects = 0, !.tent = None,
                  !.count = 0]
  ELSE IF ch.pulse THEN [ch EXCEPT !.age = @ + 1] ELSE ch

(* A sample passes: the distance to the boundary is taken from n_.         *)
Passed(ch) == [ch EXCEPT !.dist = IF ch.chain THEN Least(@ + 1, Far) ELSE 0]

(* A sample while the filter settles: nothing is integrated.               *)
Settling(ch) ==
  [Passed(ch) EXCEPT !.settle = @ - 1, !.armed = @ \/ ch.settle = 1, !.whole = FALSE]

Counted(ch) == [Passed(ch) EXCEPT !.seg = @ + 1, !.since = Least(@ + 1, Far)]

(* The first movement after a silence lets the filter settle again.        *)
(* Variant: the chain of boundaries goes on over it.                       *)
WokenInChain(ch) ==
  [ch EXCEPT !.quiet = 0, !.settle = kStepSettleFactor * Settle, !.armed = FALSE,
             !.pending = None, !.whole = FALSE]
Woken(ch) ==
  [ch EXCEPT !.quiet = 0, !.settle = kStepSettleFactor * Settle, !.armed = FALSE,
             !.chain = FALSE, !.pending = None, !.whole = FALSE, !.strikes = 0]

Awake(ch, loud) == ~ch.pulse /\ ch.quiet >= Window /\ loud
Quieted(ch, loud) ==
  [ch EXCEPT !.quiet = IF ch.pulse \/ loud THEN 0 ELSE Least(@ + 1, Window)]

-----------------------------------------------------------------------------
(* onBoundary. *)

(* Did the interval that ends here show that the boundary before it, which *)
(* ended the suspect cycle, was none?                                      *)
Split(ch, period, dipOk) ==
  ch.tent # None /\ (~ch.chain \/ 100 * period < 55 * ch.tent.per \/ ~dipOk)

(* The suspect cycle is counted now, or never.  Variant: it stays suspect. *)
TentResolvedStays(ch, split) ==
  IF ch.tent = None \/ split THEN [ch EXCEPT !.tent = None] ELSE Recorded(ch, ch.tent.per)
TentResolved(ch, split) ==
  IF ch.tent = None \/ split THEN [ch EXCEPT !.tent = None]
  ELSE Recorded([ch EXCEPT !.tent = None], ch.tent.per)

(* Is the interval that begins here to be judged when it ends?  Not the    *)
(* first of a chain, nor one after an interval too short for the lock.     *)
(* Variant: the first one is.                                              *)
TrustedFirst(ch, distrust) == ~distrust
Trusted(ch, distrust) == ch.chain /\ ~distrust

(* Has the speed changed, rather than a boundary been missed: the length   *)
(* repeats the interval before.  Variant: any length is a new speed.       *)
RerateAny(ch, period) == Locked(ch)
Rerate(ch, period) == Locked(ch) /\ ch.last > 0 /\ Within(period, 80, 120, ch.last)

(* okAmp, okEnv, dipOk: the amplitudes agree; jump: the trigger has just   *)
(* moved to the far side of a return wave.                                 *)
Boundary(ch, okAmp, okEnv, dipOk, jump) ==
  LET period == IF ch.chain THEN ch.dist ELSE 0
      split == Split(ch, period, dipOk)
      c1 == TentResolved(ch, split)
      lock == Locked(ch)
      evaluate == ch.chain /\ ch.trusted /\ ~split
      onTime == lock /\ Within(period, 90, 110, c1.ref)
      tooShort == c1.ref > 0 /\ 100 * period < 55 * c1.ref
      tooLong == c1.ref > 0 /\ 100 * period > 180 * c1.ref
      okRatio == ~tooShort /\ ~tooLong
      rerate == ~okRatio /\ Rerate(ch, period)
      distrust == evaluate /\ lock /\ tooShort /\ ~rerate /\ c1.rejects < kMaxRatioRejects
      good == evaluate /\ period \in MinPeriod .. MaxPeriod /\ okAmp /\ (onTime \/ okEnv)
      accepted == okRatio \/ rerate \/ c1.rejects >= kMaxRatioRejects
  IN [c1 EXCEPT
       !.pending = IF good /\ accepted THEN [per |-> period, rerate |-> ~okRatio] ELSE None,
       !.rejects = IF good /\ ~accepted THEN @ + 1 ELSE @,
       !.last = period,
       !.trusted = Trusted(ch, distrust) /\ ~(jump /\ ch.chain),
       !.seg = 0, !.since = 0, !.dist = 0, !.chain = TRUE, !.armed = FALSE,
       !.whole = TRUE, !.strikes = Least(@ + 1, 3),
       !.before = ch.last, !.used = <<0, c1.used[1]>>]

(* confirmPending, when the trigger arms: deep, the pulse went down as far *)
(* as the cycle; level, no further; trend, the speed goes on changing as   *)
(* it did.  A cycle far from the reference waits for one more boundary.    *)
(* Variant: it is counted while it waits.                                  *)
Suspect(ch) ==
  Locked(ch) /\ ~ch.pending.rerate /\ ~Within(ch.pending.per, 80, 120, ch.ref)
Confirms(ch, deep, level, trend) ==
  LET onTime == /\ Locked(ch)
                /\ \/ ch.pending.rerate
                   \/ Within(ch.pending.per, 90, 110, ch.ref)
                   \/ trend /\ Within(ch.pending.per, 80, 120, ch.ref)
  IN deep /\ (level \/ onTime)
ConfirmedTwice(ch, ok) ==
  LET done == [ch EXCEPT !.pending = None]
  IN CASE ~ok -> [done EXCEPT !.trusted = FALSE]
       [] ok /\ Suspect(ch) -> Recorded([done EXCEPT !.tent = [per |-> ch.pending.per]], ch.pending.per)
       [] OTHER -> Recorded(done, ch.pending.per)
Confirmed(ch, ok) ==
  LET done == [ch EXCEPT !.pending = None]
  IN CASE ~ok -> [done EXCEPT !.trusted = FALSE]
       [] ok /\ Suspect(ch) -> [done EXCEPT !.tent = [per |-> ch.pending.per]]
       [] OTHER -> Recorded(done, ch.pending.per)

Arm(ch, deep, level, trend) ==
  LET armed == [ch EXCEPT !.armed = TRUE]
  IN IF ch.pending = None THEN armed ELSE Confirmed(armed, Confirms(ch, deep, level, trend))

-----------------------------------------------------------------------------
(* A segment without a boundary grows stale; twice without a cycle, and    *)
(* the lock is given up.                                                   *)
StaleLength(ch) ==
  IF Locked(ch) /\ 180 * ch.ref < 100 * Window THEN (180 * ch.ref) \div 100 + 1 ELSE Window
Unlocked(ch) ==
  IF ~Locked(ch) THEN ch
  ELSE IF ch.rolls + 1 >= kMaxStaleRolls THEN [ch EXCEPT !.ref = 0, !.rejects = 0, !.rolls = 0]
  ELSE [ch EXCEPT !.rolls = @ + 1]
Rolled(ch) ==
  [Unlocked(ch) EXCEPT
     !.seg = 0, !.trusted = FALSE, !.pending = None, !.tent = None,
     !.chain = @ /\ ch.since < Window, !.whole = @ /\ ch.since < Window,
     !.strikes = IF ch.since < Window THEN @ ELSE 0]
Stale(ch) == IF ch.seg >= StaleLength(ch) THEN Rolled(ch) ELSE ch

(* One sample of a signal that swings (loud), on which the trigger fires   *)
(* or arms (edge), with the comparisons of amplitudes it comes to.         *)
Prime == ~c.primed /\ c' = [c EXCEPT !.primed = TRUE, !.settle = Settle]
SettleOn == c.primed /\ c.settle > 0 /\ c' = Settling(TimedOut(c))
Wake(loud) ==
  LET ch == Counted(TimedOut(c))
  IN c.primed /\ c.settle = 0 /\ Awake(ch, loud) /\ c' = Woken(ch)
Track(loud, edge, b) ==
  LET ch == Counted(TimedOut(c))
      quieted == Quieted(ch, loud)
  IN /\ c.primed /\ c.settle = 0 /\ ~Awake(ch, loud)
     /\ c' = Stale(IF ~edge THEN quieted
                   ELSE IF c.armed THEN Boundary(quieted, b[1], b[2], b[3], b[4])
                   ELSE Arm(quieted, b[1], b[2], b[3]))

Sample(loud, edge, b) == Prime \/ SettleOn \/ Wake(loud) \/ Track(loud, edge, b)

-----------------------------------------------------------------------------
(* The engine: at first anything happens.  From some moment on it may run  *)
(* evenly: a pulse every so many samples, all of one size, on which the    *)
(* trigger arms at the sample after it has fired.                          *)
Agreeing == <<TRUE, TRUE, TRUE, FALSE>>

Anything ==
  /\ engine = 0
  /\ \E loud \in BOOLEAN :
       \/ Sample(loud, FALSE, Agreeing)
       \/ \E b \in [1 .. 4 -> BOOLEAN] : Sample(loud, TRUE, b)
  /\ UNCHANGED <<engine, phase>>

SettleDown ==
  /\ engine = 0
  /\ engine' \in Steady
  /\ phase' = 0
  /\ UNCHANGED c

Evenly ==
  /\ engine > 0
  /\ phase' = (phase + 1) % engine
  /\ Sample(TRUE, IF c.armed THEN phase' = 0 ELSE phase' # 0, Agreeing)
  /\ UNCHANGED engine

Init == c = Cleared /\ engine = 0 /\ phase = 0

Next == Anything \/ SettleDown \/ Evenly

(* The sampler goes on delivering samples. *)
Spec == Init /\ [][Next]_vars /\ WF_vars(Anything \/ Evenly)

-----------------------------------------------------------------------------
Lengths == {0} \cup MinPeriod .. MaxPeriod

(* The channel stays in its range: its reference is a period of the        *)
(* accepted range or none, and a cycle that waits is the last interval.    *)
TypeOK ==
  /\ c.ref \in Lengths /\ c.rejects \in 0 .. kMaxRatioRejects /\ c.rolls \in 0 .. kMaxStaleRolls - 1
  /\ c.seg \in 0 .. Window /\ c.since \in 0 .. Far /\ c.dist \in 0 .. Far
  /\ c.quiet \in 0 .. Window /\ c.settle \in 0 .. kStepSettleFactor * Settle
  /\ c.pending # None => ~c.armed /\ c.tent = None /\ c.pending.per = c.last
  /\ c.tent # None => c.chain /\ c.tent.per = c.last

(* No interval is counted as two cycles, however long it had to wait to be *)
(* confirmed: not in the mean, nor in the speed.                           *)
CountedOnce == c.used[1] <= 1 /\ c.used[2] <= 1

NewCycle == c.pending = None /\ c'.pending # None

(* What is divided by the length of a cycle is the integral over just that *)
(* length: mean_kpa is of whole cycles (D1), over silences, settling       *)
(* filters and broken chains.                                              *)
MeanOfWholeCycles == [][NewCycle => c.whole]_vars

(* A channel that was silent, or has lost its chain, has to show three     *)
(* pulses before the first cycle: one step of the level, or noise, is no   *)
(* running engine (rows 1 and 6).                                          *)
ThreePulses == [][NewCycle => c.strikes >= 2]_vars

(* The speed does not jump: a reference more than 1.8 times away from the  *)
(* last is taken only after two rejected cycles, or when the interval      *)
(* repeats the one before it.                                              *)
JumpsAreReal ==
  [][c.ref > 0 /\ c'.ref > 0 =>
       \/ Within(c'.ref, 55, 180, c.ref)
       \/ c.rejects >= kMaxRatioRejects
       \/ Within(c'.ref, 80, 120, c.before)]_vars

(* Whatever came before, throttle, steps, missed pulses or silence, an     *)
(* engine that runs evenly at a speed of the accepted range is found, and  *)
(* stays found.                                                            *)
EvenEngineFound == \A p \in Steady : engine = p ~> [](c.pulse /\ c.ref = p)
=============================================================================
