------------------------- MODULE CycleTrackerProofs -------------------------
(***************************************************************************)
(* The cycle tracker, proved for every range of periods, every timeout and *)
(* every signal: each cycle is a whole interval, found after three pulses, *)
(* counted once, and the speed does not jump.                              *)
(***************************************************************************)
EXTENDS CycleTracker, TLAPS

Fields == DOMAIN Cleared
Counts == [1 .. 2 -> Nat]
Shape(ch) ==
  /\ DOMAIN ch = Fields
  /\ {ch.ref, ch.rejects, ch.dist, ch.last, ch.before, ch.strikes} \subseteq Nat
  /\ ch.used \in Counts

LEMMA FieldNames ==
  Fields = {"primed", "settle", "quiet", "armed", "seg", "since", "chain", "dist", "last", "ref",
            "rejects", "rolls", "trusted", "pending", "tent", "pulse", "age", "count",
            "whole", "strikes", "before", "used"}
BY DEF Fields, Cleared

LEMMA Constants ==
  /\ MinPeriod \in Nat /\ MaxPeriod \in Nat /\ Window \in Nat /\ Far \in Nat
  /\ kMaxRatioRejects = 2
BY TrackerAssumption DEF TrackerAssumption, MaxPeriod, Window, Far, kMaxRatioRejects

-----------------------------------------------------------------------------
(* What the proofs know of a channel.  A cycle that waits, to be confirmed *)
(* or as the suspect one, has not been counted yet, and its length fits    *)
(* the reference, unless that was overruled when the interval ended.       *)
Fits(ch, cycle) ==
  cycle # None =>
    /\ cycle.per \in Nat /\ ch.used[1] = 0
    /\ ch.ref > 0 => \/ Within(cycle.per, 55, 180, ch.ref)
                     \/ ch.rejects >= 2
                     \/ Within(cycle.per, 80, 120, ch.before)

(* The chain of boundaries: while it lasts, all since the last boundary is *)
(* in the integral, and an interval is judged from the third boundary on.  *)
Chained(ch) ==
  /\ ch.chain => ch.primed /\ ch.settle = 0 /\ ch.whole /\ ch.strikes >= 1
  /\ ch.chain /\ ch.trusted => ch.strikes >= 2

Sound(ch) ==
  /\ Shape(ch) /\ Chained(ch)
  /\ ch.used[1] <= 1 /\ ch.used[2] <= 1
  /\ ch.pending = None \/ ch.tent = None
  /\ Fits(ch, ch.pending) /\ Fits(ch, ch.tent)

(* The samples between the events leave all of this alone; only the lock   *)
(* may be given up.                                                        *)
SameMarks(ch, d) ==
  /\ d.primed = ch.primed /\ d.armed = ch.armed
  /\ d.last = ch.last /\ d.before = ch.before /\ d.strikes = ch.strikes /\ d.used = ch.used
Like(ch, d) ==
  /\ Shape(d) /\ SameMarks(ch, d)
  /\ d.settle = ch.settle /\ d.chain = ch.chain /\ d.whole = ch.whole
  /\ d.trusted = ch.trusted /\ d.pending = ch.pending
  /\ d.tent = ch.tent \/ d.tent = None
  /\ (d.ref = ch.ref /\ d.rejects = ch.rejects) \/ d.ref = 0

LEMMA LikeSound ==
  ASSUME NEW ch, NEW d, Sound(ch), Like(ch, d)
  PROVE  Sound(d)
<1>1. Chained(d)
  BY DEF Sound, Like, SameMarks, Chained
<1>2. Fits(d, d.pending)
  BY DEF Sound, Like, SameMarks, Fits
<1>3. Fits(d, d.tent)
  BY DEF Sound, Like, SameMarks, Fits
<1> QED
  BY <1>1, <1>2, <1>3 DEF Sound, Like, SameMarks

LEMMA TimedOutLike ==
  ASSUME NEW ch, Shape(ch)
  PROVE  Like(ch, TimedOut(ch))
BY FieldNames DEF TimedOut, Shape, Like, SameMarks

LEMMA PassedLike ==
  ASSUME NEW ch, Shape(ch)
  PROVE  Like(ch, Passed(ch))
<1>1. (IF ch.chain THEN Least(ch.dist + 1, Far) ELSE 0) \in Nat
  BY Constants DEF Least, Shape
<1> QED
  BY <1>1, FieldNames DEF Passed, Shape, Like, SameMarks

LEMMA CountedLike ==
  ASSUME NEW ch, Shape(ch)
  PROVE  Like(ch, Counted(ch))
<1> DEFINE p == Passed(ch)
<1>1. Like(ch, p)
  BY PassedLike
<1>2. Counted(ch) = [p EXCEPT !.seg = @ + 1, !.since = Least(@ + 1, Far)]
  BY DEF Counted
<1> HIDE DEF p
<1> QED
  BY <1>1, <1>2, FieldNames DEF Shape, Like, SameMarks

LEMMA QuietedLike ==
  ASSUME NEW ch, Shape(ch), NEW loud
  PROVE  Like(ch, Quieted(ch, loud))
BY FieldNames DEF Quieted, Shape, Like, SameMarks

LEMMA LikeLike ==
  ASSUME NEW ch, NEW d, NEW e, Like(ch, d), Like(d, e)
  PROVE  Like(ch, e)
BY DEF Like, SameMarks

-----------------------------------------------------------------------------
LEMMA RecordedIs ==
  ASSUME NEW ch, Shape(ch), NEW per \in Nat
  PROVE  LET d == Recorded(ch, per)
         IN /\ Shape(d) /\ d.ref = per /\ d.used[1] = ch.used[1] + 1 /\ d.used[2] = ch.used[2]
            /\ d.primed = ch.primed /\ d.settle = ch.settle /\ d.armed = ch.armed
            /\ d.chain = ch.chain /\ d.trusted = ch.trusted /\ d.whole = ch.whole
            /\ d.pending = ch.pending /\ d.tent = ch.tent
            /\ d.strikes = ch.strikes /\ d.before = ch.before /\ d.last = ch.last
            /\ d.dist = ch.dist
BY FieldNames DEF Recorded, Shape, Counts

(* A suspect cycle is resolved: counted, or forgotten. *)
LEMMA TentResolvedIs ==
  ASSUME NEW ch, Sound(ch), NEW split \in BOOLEAN
  PROVE  LET d == TentResolved(ch, split)
         IN /\ Shape(d) /\ d.tent = None /\ d.used[1] <= 1
            /\ d.ref = ch.ref \/ (ch.tent # None /\ d.ref = ch.tent.per)
            /\ (ch.primed => d.primed) /\ d.settle = ch.settle /\ d.chain = ch.chain
            /\ d.strikes = ch.strikes /\ d.last = ch.last /\ d.dist = ch.dist
<1> DEFINE n == [ch EXCEPT !.tent = None]
<1>1. /\ Shape(n) /\ n.tent = None /\ n.used = ch.used /\ n.ref = ch.ref
      /\ n.primed = ch.primed /\ n.settle = ch.settle /\ n.chain = ch.chain
      /\ n.strikes = ch.strikes /\ n.last = ch.last /\ n.dist = ch.dist
  BY FieldNames DEF Sound, Shape
<1>2. ch.used[1] <= 1 /\ (ch.tent # None => ch.used[1] = 0 /\ ch.tent.per \in Nat)
  BY DEF Sound, Fits
<1>3. CASE ch.tent = None \/ split
  <2>1. TentResolved(ch, split) = n
    BY <1>3 DEF TentResolved
  <2> HIDE DEF n
  <2> QED
    BY <1>1, <1>2, <2>1
<1>4. CASE ~(ch.tent = None \/ split)
  <2>1. TentResolved(ch, split) = Recorded(n, ch.tent.per)
    BY <1>4 DEF TentResolved
  <2> DEFINE per == ch.tent.per
             r == Recorded(n, per)
  <2>2. per \in Nat /\ ch.used[1] = 0 /\ ch.tent # None
    BY <1>2, <1>4
  <2> HIDE DEF n, per
  <2>3. /\ Shape(r) /\ r.ref = per /\ r.used[1] = n.used[1] + 1
        /\ r.primed = n.primed /\ r.settle = n.settle /\ r.chain = n.chain /\ r.tent = n.tent
        /\ r.strikes = n.strikes /\ r.last = n.last /\ r.dist = n.dist
    BY <1>1, <2>2, RecordedIs
  <2>4. TentResolved(ch, split) = r
    BY <2>1 DEF per
  <2> HIDE DEF r
  <2> QED
    BY <1>1, <2>2, <2>3, <2>4 DEF per
<1> QED
  BY <1>3, <1>4

LEMMA BoundarySound ==
  ASSUME NEW ch, Sound(ch), ch.settle = 0, ch.primed,
         NEW okAmp \in BOOLEAN, NEW okEnv \in BOOLEAN, NEW dipOk \in BOOLEAN, NEW jump \in BOOLEAN
  PROVE  LET d == Boundary(ch, okAmp, okEnv, dipOk, jump)
         IN /\ Sound(d)
            /\ d.ref = ch.ref \/ (ch.tent # None /\ d.ref = ch.tent.per)
            /\ d.pending # None => ch.chain /\ ch.trusted
<1> DEFINE period == IF ch.chain THEN ch.dist ELSE 0
           split == Split(ch, period, dipOk)
           c1 == TentResolved(ch, split)
<1>2. period \in Nat /\ split \in BOOLEAN
  BY DEF Sound, Shape, Split
<1> HIDE DEF split
<1>3. /\ Shape(c1) /\ c1.tent = None /\ c1.used[1] <= 1
      /\ c1.ref = ch.ref \/ (ch.tent # None /\ c1.ref = ch.tent.per)
      /\ c1.primed /\ c1.settle = 0 /\ c1.strikes = ch.strikes
  <2>1. Shape(c1) /\ c1.tent = None
    BY <1>2, TentResolvedIs
  <2>2. c1.used[1] <= 1
    BY <1>2, TentResolvedIs
  <2>3. c1.ref = ch.ref \/ (ch.tent # None /\ c1.ref = ch.tent.per)
    BY <1>2, TentResolvedIs
  <2>4. c1.primed /\ c1.settle = 0 /\ c1.strikes = ch.strikes
    BY <1>2, TentResolvedIs
  <2> QED
    BY <2>1, <2>2, <2>3, <2>4
<1> DEFINE lock == Locked(ch)
           evaluate == ch.chain /\ ch.trusted /\ ~split
           onTime == lock /\ Within(period, 90, 110, c1.ref)
           tooShort == c1.ref > 0 /\ 100 * period < 55 * c1.ref
           tooLong == c1.ref > 0 /\ 100 * period > 180 * c1.ref
           okRatio == ~tooShort /\ ~tooLong
           rerate == ~okRatio /\ Rerate(ch, period)
           distrust == evaluate /\ lock /\ tooShort /\ ~rerate /\ c1.rejects < kMaxRatioRejects
           good == /\ evaluate /\ period \in MinPeriod .. MaxPeriod /\ okAmp
                   /\ (onTime \/ okEnv)
           accepted == okRatio \/ rerate \/ c1.rejects >= kMaxRatioRejects
           trusted == Trusted(ch, distrust) /\ ~(jump /\ ch.chain)
           found == good /\ accepted
           pending == IF found THEN [per |-> period, rerate |-> ~okRatio] ELSE None
           rejects == IF good /\ ~accepted THEN c1.rejects + 1 ELSE c1.rejects
           strikes == Least(c1.strikes + 1, 3)
           used == <<0, c1.used[1]>>
           d == [c1 EXCEPT
                  !.pending = pending, !.rejects = rejects, !.last = period,
                  !.trusted = trusted,
                  !.seg = 0, !.since = 0, !.dist = 0, !.chain = TRUE, !.armed = FALSE,
                  !.whole = TRUE, !.strikes = strikes, !.before = ch.last, !.used = used]
<1>1. Boundary(ch, okAmp, okEnv, dipOk, jump) = d
  BY DEF Boundary, split
<1> HIDE DEF c1
<1>4. /\ c1.ref \in Nat /\ c1.rejects \in Nat /\ c1.strikes \in Nat /\ c1.used[1] \in Nat
      /\ ch.last \in Nat
  BY <1>3 DEF Shape, Counts, Sound
<1>5. /\ found => ch.chain /\ ch.trusted
      /\ found /\ c1.ref > 0 => \/ Within(period, 55, 180, c1.ref)
                                \/ c1.rejects >= 2
                                \/ Within(period, 80, 120, ch.last)
  BY <1>2, <1>4, Constants DEF Within, Rerate
<1>6. (found => rejects = c1.rejects) /\ rejects \in Nat
  BY <1>4
<1>7. /\ pending # None => found /\ pending.per = period
  OBVIOUS
<1>8. strikes \in Nat /\ strikes >= 1 /\ (ch.strikes >= 1 => strikes >= 2)
  BY <1>3, <1>4 DEF Least
<1>9. trusted => ch.chain
  BY DEF Trusted
<1>10. used \in Counts /\ used[1] = 0 /\ used[2] = c1.used[1]
  BY <1>4 DEF Counts
<1> HIDE DEF period, pending, rejects, strikes, used, trusted, found
<1>11. /\ DOMAIN d = Fields
       /\ d.ref = c1.ref /\ d.rejects = rejects /\ d.dist = 0 /\ d.last = period
       /\ d.before = ch.last /\ d.strikes = strikes /\ d.used = used
  BY <1>3, FieldNames DEF Shape
<1>12. /\ d.pending = pending /\ d.tent = None /\ d.trusted = trusted /\ d.chain
       /\ d.whole /\ d.primed /\ d.settle = 0
  BY <1>3, FieldNames DEF Shape
<1> HIDE DEF d
<1>13. Shape(d)
  BY <1>2, <1>4, <1>6, <1>8, <1>10, <1>11 DEF Shape
<1>14. Chained(d)
  BY <1>8, <1>9, <1>11, <1>12 DEF Chained, Sound
<1>15. Fits(d, d.pending) /\ Fits(d, d.tent)
  BY <1>2, <1>5, <1>6, <1>7, <1>10, <1>11, <1>12 DEF Fits
<1>16. Sound(d)
  BY <1>3, <1>10, <1>11, <1>12, <1>13, <1>14, <1>15 DEF Sound
<1> QED
  BY <1>1, <1>3, <1>5, <1>7, <1>11, <1>12, <1>16

(* A cycle that waits is confirmed, put off or forgotten. *)
Resolved(ch, d) ==
  /\ Sound(d) /\ (d.pending = ch.pending \/ d.pending = None)
  /\ d.ref = ch.ref \/ (ch.pending # None /\ d.ref = ch.pending.per)

LEMMA ArmSound ==
  ASSUME NEW ch, Sound(ch), NEW deep \in BOOLEAN, NEW level \in BOOLEAN, NEW trend \in BOOLEAN
  PROVE  Resolved(ch, Arm(ch, deep, level, trend))
<1> DEFINE a == [ch EXCEPT !.armed = TRUE]
           n == [a EXCEPT !.pending = None]
           per == a.pending.per
           ok == Confirms(ch, deep, level, trend)
           d == Arm(ch, deep, level, trend)
<1>1. /\ Shape(a) /\ a.used = ch.used /\ a.ref = ch.ref /\ a.rejects = ch.rejects
      /\ a.primed = ch.primed /\ a.settle = ch.settle /\ a.chain = ch.chain
      /\ a.trusted = ch.trusted /\ a.whole = ch.whole
      /\ a.pending = ch.pending /\ a.tent = ch.tent
      /\ a.strikes = ch.strikes /\ a.before = ch.before
  BY FieldNames DEF Sound, Shape
<1>2. d = IF ch.pending = None THEN a ELSE Confirmed(a, ok)
  BY DEF Arm
<1>3. Confirmed(a, ok) = CASE ~ok -> [n EXCEPT !.trusted = FALSE]
                           [] ok /\ Suspect(a) -> [n EXCEPT !.tent = [per |-> per]]
                           [] OTHER -> Recorded(n, per)
  BY DEF Confirmed
<1> HIDE DEF a, d, ok
<1>4. Sound(a)
  <2>1. Chained(a)
    BY <1>1 DEF Sound, Chained
  <2>2. Fits(a, a.pending) /\ Fits(a, a.tent)
    BY <1>1 DEF Sound, Fits
  <2> QED
    BY <1>1, <2>1, <2>2 DEF Sound
<1>5. /\ Shape(n) /\ n.used = a.used /\ n.ref = a.ref /\ n.rejects = a.rejects
      /\ n.primed = a.primed /\ n.settle = a.settle /\ n.chain = a.chain
      /\ n.trusted = a.trusted /\ n.whole = a.whole
      /\ n.pending = None /\ n.tent = a.tent
      /\ n.strikes = a.strikes /\ n.before = a.before
  BY <1>1, FieldNames DEF Shape
<1>6. Sound(n)
  <2>1. Chained(n)
    BY <1>4, <1>5 DEF Sound, Chained
  <2>2. Fits(n, n.pending) /\ Fits(n, n.tent)
    BY <1>4, <1>5 DEF Sound, Fits
  <2> QED
    BY <1>4, <1>5, <2>1, <2>2 DEF Sound
<1>7. ASSUME a.pending = None
      PROVE  Resolved(ch, d)
  <2>1. d = a
    BY <1>1, <1>2, <1>7
  <2> QED
    BY <1>1, <1>4, <2>1 DEF Resolved
<1>8. ASSUME a.pending # None
      PROVE  /\ per \in Nat /\ n.used[1] = 0 /\ n.used[2] <= 1 /\ n.tent = None
             /\ Fits(n, [per |-> per])
  BY <1>4, <1>5, <1>8 DEF Sound, Fits
<1> HIDE DEF n, per
<1>9. ASSUME a.pending # None, ~ok
      PROVE  Resolved(ch, d)
  <2> DEFINE e == [n EXCEPT !.trusted = FALSE]
  <2>1. d = e
    BY <1>1, <1>2, <1>3, <1>9
  <2>2. /\ Shape(e) /\ e.used = n.used /\ e.ref = n.ref /\ e.rejects = n.rejects
        /\ e.primed = n.primed /\ e.settle = n.settle /\ e.chain = n.chain
        /\ ~e.trusted /\ e.whole = n.whole /\ e.pending = n.pending /\ e.tent = n.tent
        /\ e.strikes = n.strikes /\ e.before = n.before
    BY <1>5, FieldNames DEF Shape
  <2> HIDE DEF e
  <2>3. Chained(e)
    BY <1>6, <2>2 DEF Sound, Chained
  <2>4. Fits(e, e.pending) /\ Fits(e, e.tent)
    BY <1>6, <2>2 DEF Sound, Fits
  <2>5. Sound(e)
    BY <1>6, <2>2, <2>3, <2>4 DEF Sound
  <2> QED
    BY <1>1, <1>5, <2>1, <2>2, <2>5 DEF Resolved
<1>10. ASSUME a.pending # None, ok /\ Suspect(a)
       PROVE  Resolved(ch, d)
  <2> DEFINE e == [n EXCEPT !.tent = [per |-> per]]
  <2>1. d = e
    BY <1>1, <1>2, <1>3, <1>10
  <2>2. /\ Shape(e) /\ e.used = n.used /\ e.ref = n.ref /\ e.rejects = n.rejects
        /\ e.primed = n.primed /\ e.settle = n.settle /\ e.chain = n.chain
        /\ e.trusted = n.trusted /\ e.whole = n.whole /\ e.pending = n.pending
        /\ e.tent = [per |-> per] /\ e.strikes = n.strikes /\ e.before = n.before
    BY <1>5, FieldNames DEF Shape
  <2> HIDE DEF e
  <2>3. Chained(e)
    BY <1>6, <2>2 DEF Sound, Chained
  <2>4. Fits(e, e.pending) /\ Fits(e, e.tent)
    BY <1>5, <1>8, <1>10, <2>2 DEF Fits
  <2>5. Sound(e)
    BY <1>5, <1>6, <2>2, <2>3, <2>4 DEF Sound
  <2> QED
    BY <1>1, <1>5, <2>1, <2>2, <2>5 DEF Resolved
<1>11. ASSUME a.pending # None, ok /\ ~Suspect(a)
       PROVE  Resolved(ch, d)
  <2> DEFINE e == Recorded(n, per)
  <2>1. d = e
    BY <1>1, <1>2, <1>3, <1>11
  <2>2. /\ Shape(e) /\ e.ref = per /\ e.used[1] = n.used[1] + 1 /\ e.used[2] = n.used[2]
        /\ e.primed = n.primed /\ e.settle = n.settle /\ e.chain = n.chain
        /\ e.trusted = n.trusted /\ e.whole = n.whole /\ e.pending = n.pending
        /\ e.tent = n.tent /\ e.strikes = n.strikes
    BY <1>5, <1>8, <1>11, RecordedIs, ZenonT(40)
  <2> HIDE DEF e
  <2>3. Chained(e)
    BY <1>6, <2>2 DEF Sound, Chained
  <2>4. Fits(e, e.pending) /\ Fits(e, e.tent)
    BY <1>5, <1>8, <1>11, <2>2 DEF Fits
  <2>5. Sound(e)
    BY <1>5, <1>8, <1>11, <2>2, <2>3, <2>4 DEF Sound
  <2> QED
    BY <1>1, <1>5, <1>11, <2>1, <2>2, <2>5 DEF per, Resolved
<1> QED
  BY <1>7, <1>9, <1>10, <1>11 DEF d

LEMMA StaleSound ==
  ASSUME NEW ch, Sound(ch)
  PROVE  LET d == Stale(ch)
         IN /\ Sound(d) /\ (d.pending = ch.pending \/ d.pending = None)
            /\ d.ref = ch.ref \/ d.ref = 0
<1> DEFINE u == Unlocked(ch)
           r == Rolled(ch)
<1>1. /\ Shape(u) /\ u.used = ch.used /\ (u.ref = ch.ref \/ u.ref = 0)
      /\ u.primed = ch.primed /\ u.settle = ch.settle /\ u.chain = ch.chain
      /\ u.whole = ch.whole /\ u.strikes = ch.strikes /\ u.before = ch.before
      /\ u.since = ch.since
  BY FieldNames DEF Unlocked, Sound, Shape
<1>2. r = [u EXCEPT
             !.seg = 0, !.trusted = FALSE, !.pending = None, !.tent = None,
             !.chain = @ /\ ch.since < Window, !.whole = @ /\ ch.since < Window,
             !.strikes = IF ch.since < Window THEN @ ELSE 0]
  BY DEF Rolled
<1> HIDE DEF u
<1>3. /\ Shape(r) /\ r.used = u.used /\ r.ref = u.ref
      /\ r.primed = u.primed /\ r.settle = u.settle
      /\ ~r.trusted /\ r.pending = None /\ r.tent = None
      /\ r.chain = (u.chain /\ ch.since < Window) /\ r.whole = (u.whole /\ ch.since < Window)
      /\ r.strikes = IF ch.since < Window THEN u.strikes ELSE 0
  BY <1>1, <1>2, FieldNames DEF Shape
<1> HIDE DEF r
<1>4. Chained(r)
  BY <1>1, <1>3 DEF Sound, Chained
<1>5. Sound(r)
  BY <1>1, <1>3, <1>4 DEF Sound, Fits
<1> QED
  BY <1>1, <1>3, <1>5 DEF Stale, r

-----------------------------------------------------------------------------
(* What one sample may do: the reference stays, is given up, or becomes a  *)
(* cycle that waited, and an interval begins to wait only after a chain.   *)
Step(ch, d) ==
  /\ Sound(d)
  /\ \/ d.ref = ch.ref \/ d.ref = 0
     \/ ch.pending # None /\ d.ref = ch.pending.per
     \/ ch.tent # None /\ d.ref = ch.tent.per
  /\ ch.pending = None /\ d.pending # None => ch.whole /\ ch.strikes >= 2

LEMMA PrimeStep ==
  ASSUME NEW ch, Sound(ch), ~ch.primed
  PROVE  Step(ch, [ch EXCEPT !.primed = TRUE, !.settle = Settle])
<1> DEFINE d == [ch EXCEPT !.primed = TRUE, !.settle = Settle]
<1>1. /\ Shape(d) /\ d.used = ch.used /\ d.ref = ch.ref /\ d.rejects = ch.rejects
      /\ d.chain = ch.chain /\ d.pending = ch.pending /\ d.tent = ch.tent
      /\ d.before = ch.before
  BY FieldNames DEF Sound, Shape
<1> HIDE DEF d
<1>2. Chained(d)
  BY <1>1 DEF Sound, Chained
<1>3. Fits(d, d.pending) /\ Fits(d, d.tent)
  BY <1>1 DEF Sound, Fits
<1>4. Step(ch, d)
  BY <1>1, <1>2, <1>3 DEF Sound, Step
<1> QED
  BY <1>4 DEF d

LEMMA SettlingStep ==
  ASSUME NEW ch, Sound(ch), ch.settle > 0
  PROVE  Step(ch, Settling(TimedOut(ch)))
<1> DEFINE t == TimedOut(ch)
           p == Passed(t)
           d == Settling(t)
<1>1. Like(ch, t) /\ Shape(t)
  BY TimedOutLike DEF Sound, Like
<1> HIDE DEF t
<1>2. Like(t, p)
  BY <1>1, PassedLike
<1>3. d = [p EXCEPT !.settle = @ - 1, !.armed = @ \/ t.settle = 1, !.whole = FALSE]
  BY DEF Settling
<1> HIDE DEF p, d
<1>4. Like(ch, p) /\ Sound(p) /\ ~p.chain
  BY <1>1, <1>2, LikeLike, LikeSound DEF Like, Sound, Chained
<1>5. /\ Shape(d) /\ d.used = p.used /\ d.ref = p.ref /\ d.rejects = p.rejects
      /\ d.chain = p.chain /\ d.pending = p.pending /\ d.tent = p.tent
      /\ d.before = p.before
  BY <1>3, <1>4, FieldNames DEF Sound, Shape
<1>6. Chained(d)
  BY <1>4, <1>5 DEF Chained
<1>7. Fits(d, d.pending) /\ Fits(d, d.tent)
  BY <1>4, <1>5 DEF Sound, Fits
<1>8. Sound(d)
  BY <1>4, <1>5, <1>6, <1>7 DEF Sound
<1>9. Step(ch, d)
  BY <1>4, <1>5, <1>8 DEF Like, Step
<1> QED
  BY <1>9 DEF d, t

LEMMA CountedSound ==
  ASSUME NEW ch, Sound(ch)
  PROVE  Like(ch, Counted(TimedOut(ch))) /\ Sound(Counted(TimedOut(ch)))
<1> DEFINE t == TimedOut(ch)
           n == Counted(t)
<1>1. Like(ch, t) /\ Shape(t)
  BY TimedOutLike DEF Sound, Like
<1> HIDE DEF t
<1>2. Like(t, n)
  BY <1>1, CountedLike
<1> HIDE DEF n
<1>3. Like(ch, n) /\ Sound(n)
  BY <1>1, <1>2, LikeLike, LikeSound
<1> QED
  BY <1>3 DEF n, t

LEMMA WokenStep ==
  ASSUME NEW ch, Sound(ch)
  PROVE  Step(ch, Woken(Counted(TimedOut(ch))))
<1> DEFINE n == Counted(TimedOut(ch))
           d == Woken(n)
<1>1. Like(ch, n) /\ Sound(n)
  BY CountedSound
<1> HIDE DEF n
<1>2. /\ Shape(d) /\ d.used = n.used /\ d.ref = n.ref /\ d.rejects = n.rejects
      /\ ~d.chain /\ d.pending = None /\ d.tent = n.tent /\ d.before = n.before
  BY <1>1, FieldNames DEF Woken, Sound, Shape
<1> HIDE DEF d
<1>3. Chained(d)
  BY <1>2 DEF Chained
<1>4. Fits(d, d.pending) /\ Fits(d, d.tent)
  BY <1>1, <1>2 DEF Sound, Fits
<1>5. Sound(d)
  BY <1>1, <1>2, <1>3, <1>4 DEF Sound
<1>6. Step(ch, d)
  BY <1>1, <1>2, <1>5 DEF Like, Step
<1> QED
  BY <1>6 DEF d, n

LEMMA TrackStep ==
  ASSUME NEW ch, Sound(ch), ch.primed, ch.settle = 0, NEW loud, NEW edge, NEW b,
         {b[1], b[2], b[3], b[4]} \subseteq BOOLEAN
  PROVE  LET q == Quieted(Counted(TimedOut(ch)), loud)
         IN Step(ch, Stale(IF ~edge THEN q
                           ELSE IF ch.armed THEN Boundary(q, b[1], b[2], b[3], b[4])
                           ELSE Arm(q, b[1], b[2], b[3])))
<1> DEFINE n == Counted(TimedOut(ch))
           q == Quieted(n, loud)
           e == IF ~edge THEN q
                ELSE IF ch.armed THEN Boundary(q, b[1], b[2], b[3], b[4])
                ELSE Arm(q, b[1], b[2], b[3])
           d == Stale(e)
<1>1. Like(ch, n) /\ Sound(n)
  BY CountedSound
<1> HIDE DEF n
<1>2. Like(n, q)
  BY <1>1, QuietedLike DEF Sound
<1> HIDE DEF q
<1>3. Like(ch, q) /\ Sound(q)
  BY <1>1, <1>2, LikeLike, LikeSound
<1>4. /\ q.primed /\ q.settle = 0 /\ q.pending = ch.pending
      /\ q.tent = ch.tent \/ q.tent = None
      /\ q.ref = ch.ref \/ q.ref = 0
      /\ q.chain /\ q.trusted => ch.whole /\ ch.strikes >= 2
  BY <1>3 DEF Like, SameMarks, Sound, Chained
<1>5. Step(ch, e)
  <2>1. CASE ~edge
    BY <1>3, <1>4, <2>1 DEF Step
  <2>2. CASE edge /\ ch.armed
    <3> DEFINE k == Boundary(q, b[1], b[2], b[3], b[4])
    <3>1. /\ Sound(k) /\ (k.ref = q.ref \/ (q.tent # None /\ k.ref = q.tent.per))
          /\ k.pending # None => q.chain /\ q.trusted
      BY <1>3, <1>4, BoundarySound
    <3>2. e = k
      BY <2>2
    <3> HIDE DEF k, e
    <3> QED
      BY <1>4, <3>1, <3>2 DEF Step
  <2>3. CASE edge /\ ~ch.armed
    <3> DEFINE k == Arm(q, b[1], b[2], b[3])
    <3>1. Resolved(q, k)
      BY <1>3, ArmSound
    <3>2. e = k
      BY <2>3
    <3> HIDE DEF k, e
    <3> QED
      BY <1>4, <3>1, <3>2 DEF Step, Resolved
  <2> QED
    BY <2>1, <2>2, <2>3
<1> HIDE DEF e
<1>6. /\ Sound(d) /\ (d.pending = e.pending \/ d.pending = None)
      /\ d.ref = e.ref \/ d.ref = 0
  BY <1>5, StaleSound DEF Step
<1> HIDE DEF d
<1>7. Step(ch, d)
  BY <1>5, <1>6 DEF Step
<1> QED
  BY <1>7 DEF d, e, q, n

LEMMA SampleStep ==
  ASSUME Sound(c), NEW loud, NEW edge, NEW b, {b[1], b[2], b[3], b[4]} \subseteq BOOLEAN,
         Sample(loud, edge, b)
  PROVE  Step(c, c')
<1>1. CASE Prime
  BY <1>1, PrimeStep DEF Prime
<1>2. CASE SettleOn
  BY <1>2, SettlingStep DEF SettleOn
<1>3. CASE Wake(loud)
  BY <1>3, WokenStep DEF Wake
<1>4. CASE Track(loud, edge, b)
  BY <1>4, TrackStep DEF Track
<1> QED
  BY <1>1, <1>2, <1>3, <1>4 DEF Sample

LEMMA Inductive == Sound(c) /\ [Next]_vars => Step(c, c')
<1> SUFFICES ASSUME Sound(c), [Next]_vars
             PROVE  Step(c, c')
  OBVIOUS
<1>1. {Agreeing[1], Agreeing[2], Agreeing[3], Agreeing[4]} \subseteq BOOLEAN
  BY DEF Agreeing
<1>2. CASE Anything
  <2>1. PICK loud \in BOOLEAN :
          \/ Sample(loud, FALSE, Agreeing)
          \/ \E b \in [1 .. 4 -> BOOLEAN] : Sample(loud, TRUE, b)
    BY <1>2 DEF Anything
  <2>2. CASE Sample(loud, FALSE, Agreeing)
    BY <1>1, <2>2, SampleStep
  <2>3. ASSUME NEW b \in [1 .. 4 -> BOOLEAN], Sample(loud, TRUE, b)
        PROVE  Step(c, c')
    <3>1. {b[1], b[2], b[3], b[4]} \subseteq BOOLEAN
      OBVIOUS
    <3> QED
      BY <2>3, <3>1, SampleStep
  <2> QED
    BY <2>1, <2>2, <2>3
<1>3. CASE SettleDown \/ UNCHANGED vars
  BY <1>3 DEF SettleDown, vars, Step
<1>4. CASE Evenly
  <2>1. Sample(TRUE, IF c.armed THEN phase' = 0 ELSE phase' # 0, Agreeing)
    BY <1>4 DEF Evenly
  <2> QED
    BY <1>1, <2>1, SampleStep
<1> QED
  BY <1>2, <1>3, <1>4 DEF Next

LEMMA AtFirst == Init => Sound(c)
<1>1. /\ Shape(Cleared) /\ ~Cleared.chain /\ Cleared.used[1] = 0 /\ Cleared.used[2] = 0
      /\ Cleared.pending = None /\ Cleared.tent = None
  BY FieldNames DEF Cleared, Shape, Counts
<1> QED
  BY <1>1 DEF Init, Sound, Chained, Fits

(* The invariant of the channel, over every signal.                        *)
LEMMA Invariant == Spec => []Sound(c)
<1>1. Sound(c) /\ [Next]_vars => Sound(c)'
  BY Inductive DEF Step
<1> QED
  BY <1>1, AtFirst, PTL DEF Spec

-----------------------------------------------------------------------------
(* No interval between two boundaries is ever counted as two cycles: one   *)
(* that waited is counted when it is confirmed or by the next boundary,    *)
(* whichever resolves it, and never again (recordCycle, confirmPending).   *)
THEOREM NothingCountedTwice == Spec => []CountedOnce
<1>1. Sound(c) => CountedOnce
  BY DEF Sound, CountedOnce
<1> QED
  BY <1>1, Invariant, PTL

(* The integral that is divided by the length of a cycle covers just that  *)
(* cycle, over every settling filter, silence and broken chain (acc).      *)
THEOREM MeansAreWhole == Spec => MeanOfWholeCycles
<1>1. Sound(c) /\ [Next]_vars => (NewCycle => c.whole)
  BY Inductive DEF Step, NewCycle
<1> QED
  BY <1>1, Invariant, PTL DEF Spec, MeanOfWholeCycles

(* No cycle is taken before the third boundary of its chain.               *)
THEOREM PulsesComeFirst == Spec => ThreePulses
<1>1. Sound(c) /\ [Next]_vars => (NewCycle => c.strikes >= 2)
  BY Inductive DEF Step, NewCycle
<1> QED
  BY <1>1, Invariant, PTL DEF Spec, ThreePulses

(* The reference only leaves the range around the last one after two       *)
(* rejected cycles, or when an interval repeats the one before it.         *)
THEOREM SpeedsAreReal == Spec => JumpsAreReal
<1> DEFINE Real == \/ Within(c'.ref, 55, 180, c.ref)
                   \/ c.rejects >= kMaxRatioRejects
                   \/ Within(c'.ref, 80, 120, c.before)
           Leap == c.ref > 0 /\ c'.ref > 0 => Real
<1>1. Sound(c) /\ Step(c, c') => Leap
  <2> SUFFICES ASSUME Sound(c), Step(c, c'), c.ref > 0, c'.ref > 0
               PROVE  Real
    OBVIOUS
  <2>1. CASE c'.ref = c.ref
    BY <2>1 DEF Sound, Shape, Within
  <2>2. CASE c.pending # None /\ c'.ref = c.pending.per
    BY <2>2, Constants DEF Sound, Fits
  <2>3. CASE c.tent # None /\ c'.ref = c.tent.per
    BY <2>3, Constants DEF Sound, Fits
  <2> QED
    BY <2>1, <2>2, <2>3 DEF Step
<1>2. Sound(c) /\ [Next]_vars => Leap
  BY <1>1, Inductive
<1> QED
  BY <1>2, Invariant, PTL DEF Spec, JumpsAreReal
=============================================================================
