--------------------------- MODULE SamplerProofs ---------------------------
(***************************************************************************)
(* The accounts of the sampler, proved for every length of the queue and   *)
(* every limit of catching up: no sample is lost unnoticed.                *)
(***************************************************************************)
EXTENDS Sampler, SequenceTheorems, TLAPS

(* What the proofs use of the constants. *)
LEMMA Constants == Cap \in Nat /\ CatchUp \in Nat /\ CatchUp > 0
BY SamplerAssumption DEF SamplerAssumption

(* The sampler's and the processing's state keep their types. *)
LEMMA TypeStep == TypeOK /\ [Next]_vars => TypeOK'
<1> SUFFICES ASSUME TypeOK, [Next]_vars PROVE TypeOK'
  OBVIOUS
<1> USE DEF TypeOK
<1>1. CASE Sample
  <2>1. \A late \in Lates : [seq |-> seq, at |-> now, late |-> late] \in Samples
    BY DEF Lates, Samples
  <2>2. CASE QueueFull
    BY <1>1, <2>2 DEF Sample, NextNumber
  <2>3. CASE ~QueueFull
    <3>1. PICK s \in Samples : queue' = Append(queue, s)
      BY <1>1, <2>1, <2>3 DEF Sample
    <3> QED
      BY <1>1, <2>3, <3>1, Constants DEF Sample, NextNumber, QueueFull
  <2> QED
    BY <2>2, <2>3
<1>2. CASE Skip
  BY <1>2, Constants DEF Skip, Missed
<1>3. CASE Receive
  <2>1. Head(queue) \in Samples /\ Tail(queue) \in Seq(Samples)
        /\ Len(Tail(queue)) = Len(queue) - 1
    BY <1>3, HeadTailProperties DEF Receive
  <2>2. GapsOf(Head(queue).seq - proc.last) \in Nat
    BY <2>1, SMTT(30) DEF GapsOf, Samples
  <2>3. Booting(Head(queue)) \in BOOLEAN
    BY DEF Booting
  <2>4. Head(queue).seq \in Nat
    BY <2>1 DEF Samples
  <2>5. /\ proc.gaps + (IF proc.have THEN GapsOf(Head(queue).seq - proc.last) ELSE 0) \in Nat
        /\ proc.late + One(Head(queue).late /\ ~Booting(Head(queue))) \in Nat
        /\ proc.lateBoot + One(Head(queue).late /\ Booting(Head(queue))) \in Nat
    BY <2>2, SMTT(30) DEF One
  <2>6. proc' \in [have : BOOLEAN, last : Nat, gaps : Nat, booting : BOOLEAN,
                   late : Nat, lateBoot : Nat]
    BY <1>3, <2>5, <2>3, <2>4 DEF Receive, OnSample
  <2> QED
    BY <1>3, <2>1, <2>4, <2>6, Constants DEF Receive, OnSample
<1>4. ASSUME NEW who \in {"proc", "web"}, Take(who) \/ Give(who) PROVE TypeOK'
  BY <1>4 DEF Take, Give
<1>5. CASE BootTime \/ BootFlag
  BY <1>5 DEF BootTime, BootFlag
<1>6. CASE Tick
  BY <1>6 DEF Tick
<1>7. CASE UNCHANGED vars
  BY <1>7 DEF vars
<1> QED
  BY <1>1, <1>2, <1>3, <1>4, <1>5, <1>6, <1>7 DEF Next

(* The types of Sampler hold in every state. *)
THEOREM Types == Spec => []TypeOK
<1>1. Init => TypeOK
  BY Constants DEF Init, TypeOK
<1> QED
  BY <1>1, TypeStep, PTL DEF Spec

-----------------------------------------------------------------------------
(* What Append, Head and Tail do to a queue of samples. *)
LEMMA QueueAppend ==
  ASSUME NEW q \in Seq(Samples), NEW s \in Samples
  PROVE  /\ Append(q, s) \in Seq(Samples)
         /\ Len(Append(q, s)) = Len(q) + 1
         /\ \A i \in 1 .. Len(q) : Append(q, s)[i] = q[i]
         /\ Append(q, s)[Len(q) + 1] = s
BY AppendProperties

LEMMA QueueTail ==
  ASSUME NEW q \in Seq(Samples), q # <<>>
  PROVE  /\ Head(q) \in Samples /\ Head(q) = q[1]
         /\ Tail(q) \in Seq(Samples)
         /\ Len(q) >= 1 /\ Len(Tail(q)) = Len(q) - 1
         /\ \A i \in 1 .. Len(Tail(q)) : i + 1 \in 1 .. Len(q) /\ Tail(q)[i] = q[i + 1]
BY HeadTailProperties, LenProperties, Head(q) = q[1]

(* A step of the queue: a sample goes in at the back, or one out in front. *)
LEMMA SampleStep ==
  ASSUME TypeOK, Sample
  PROVE  \/ QueueFull /\ UNCHANGED queue
         \/ \E s \in Samples :
              /\ ~QueueFull /\ queue' = Append(queue, s)
              /\ s.seq = seq /\ s.at = now
<1> DEFINE S(l) == [seq |-> seq, at |-> now, late |-> l]
<1>1. \A l \in Lates : S(l) \in Samples /\ S(l).seq = seq /\ S(l).at = now
  BY DEF TypeOK, Lates, Samples
<1> HIDE DEF S
<1>2. ~QueueFull => \E l \in Lates : queue' = Append(queue, S(l))
  BY DEF Sample, S
<1> QED
  BY <1>1, <1>2 DEF Sample

(* Drops, late samples and skipped periods leave the numbers in step with  *)
(* the ticks.                                                              *)
THEOREM Pace == Spec => []PaceKept
<1>1. Init => PaceKept
  BY Constants DEF Init, PaceKept
<1>2. TypeOK /\ PaceKept /\ [Next]_vars => PaceKept'
  <2> SUFFICES ASSUME TypeOK, PaceKept, [Next]_vars PROVE PaceKept'
    OBVIOUS
  <2>1. CASE Sample
    <3>1. seq' = wake'
      BY <2>1 DEF Sample, NextNumber, PaceKept
    <3>2. CASE QueueFull
      BY <2>1, <3>1, <3>2 DEF Sample, PaceKept
    <3>3. ASSUME NEW s \in Samples, queue' = Append(queue, s), s.seq = seq, s.at = now
          PROVE  PaceKept'
      <4>1. s.at - s.seq \in 0 .. CatchUp - 1
        BY <2>1, <3>3, Constants DEF Sample, PaceKept, TypeOK
      <4> QED
        BY <3>1, <3>3, <4>1, QueueAppend, SMTT(30) DEF PaceKept, TypeOK
    <3> QED
      BY <2>1, <3>2, <3>3, SampleStep
  <2>2. CASE Skip
    BY <2>2 DEF Skip, Missed, PaceKept, TypeOK
  <2>3. CASE Receive
    <3>1. seq' = wake' /\ queue' = Tail(queue) /\ queue \in Seq(Samples) /\ queue # <<>>
      BY <2>3 DEF Receive, PaceKept, TypeOK
    <3> QED
      BY <3>1, QueueTail DEF PaceKept
  <2>4. ASSUME NEW who \in {"proc", "web"}, Take(who) \/ Give(who) PROVE PaceKept'
    BY <2>4 DEF Take, Give, PaceKept
  <2>5. CASE BootTime \/ BootFlag \/ Tick \/ UNCHANGED vars
    BY <2>5 DEF BootTime, BootFlag, Tick, PaceKept, vars
  <2> QED
    BY <2>1, <2>2, <2>3, <2>4, <2>5 DEF Next
<1> QED
  BY <1>1, <1>2, Types, PTL DEF Spec

-----------------------------------------------------------------------------
(* The numbers of the samples rise, from the last one that was received    *)
(* over the queue to the one that is next.                                 *)
Ordered ==
  /\ \A i \in 1 .. Len(queue) : queue[i].seq < seq
  /\ \A i, j \in 1 .. Len(queue) : i < j => queue[i].seq < queue[j].seq
  /\ proc.have => proc.last < seq /\ \A i \in 1 .. Len(queue) : proc.last < queue[i].seq

Books == Ordered /\ Accounted

Numeric ==
  /\ proc.have \in BOOLEAN
  /\ seq \in Nat /\ drops \in Nat /\ skipped \in Nat /\ unseen \in Nat
  /\ proc.last \in Nat /\ proc.gaps \in Nat /\ Len(queue) \in Nat
Stamped == \A i \in 1 .. Len(queue) : queue[i].seq \in Nat /\ queue[i].at \in Nat

LEMMA Numbers == ASSUME TypeOK PROVE Numeric /\ Stamped
<1>1. queue \in Seq(Samples)
  BY DEF TypeOK
<1>2. \A i \in 1 .. Len(queue) : queue[i] \in Samples
  BY <1>1, ElementOfSeq
<1>3. Len(queue) \in Nat
  BY <1>1, LenProperties
<1> QED
  BY <1>2, <1>3 DEF TypeOK, Samples, Numeric, Stamped

LEMMA Sums == ASSUME TypeOK PROVE Lost \in Int /\ Found \in Int /\ ToFind \in Int
BY Numbers, SMTT(30) DEF Numeric, Lost, Found, ToFind

(* A step that leaves the numbers and the counts alone. *)
LEMMA BooksKept ==
  ASSUME Books, UNCHANGED <<queue, seq, drops, skipped, proc, unseen>>
  PROVE  Books'
BY DEF Books, Ordered, Accounted, Lost, Found, ToFind

LEMMA BooksSample == ASSUME TypeOK, Books, Sample PROVE Books'
<1>0. Numeric /\ Stamped /\ Lost \in Int /\ Found \in Int /\ ToFind \in Int
  BY Numbers, Sums
<1>1. /\ seq' = seq + 1 /\ UNCHANGED <<skipped, proc, unseen>>
  BY DEF Sample, NextNumber
<1>2. CASE QueueFull
  <2>1. drops' = drops + 1 /\ UNCHANGED queue
    BY <1>2 DEF Sample
  <2>2. \A i \in 1 .. Len(queue) : queue[i].seq \in Nat
    BY <1>0 DEF Stamped
  <2>3. Ordered'
    BY <1>0, <1>1, <2>1, <2>2 DEF Numeric, Stamped, Books, Ordered
  <2>4. Accounted'
    <3>1. Lost' = Lost + 1
      BY <1>0, <1>1, <2>1 DEF Numeric, Lost
    <3>2. Found' = Found
      BY <1>1 DEF Found
    <3>3. ToFind' = ToFind + 1
      BY <1>0, <1>1, <2>1, SMTT(30) DEF Numeric, ToFind
    <3> QED
      BY <1>0, <1>1, <2>1, <3>1, <3>2, <3>3 DEF Numeric, Books, Accounted
  <2> QED
    BY <2>3, <2>4 DEF Books
<1>3. ASSUME NEW s \in Samples, ~QueueFull, queue' = Append(queue, s), s.seq = seq
      PROVE  Books'
  <2>1. drops' = drops
    BY <1>3 DEF Sample
  <2>2. \A i \in 1 .. Len(queue) : queue[i].seq \in Nat
    BY <1>0 DEF Stamped
  <2> DEFINE q == Append(queue, s)
  <2>3. /\ Len(q) = Len(queue) + 1 /\ q[Len(queue) + 1] = s
        /\ \A i \in 1 .. Len(queue) : q[i] = queue[i]
        /\ Len(queue) \in Nat
    BY QueueAppend DEF TypeOK
  <2>4. queue' = q
    BY <1>3
  <2> HIDE DEF q
  <2>5. Ordered'
    <3>1. \A i \in 1 .. Len(queue') : queue'[i].seq < seq'
      BY <1>0, <1>1, <1>3, <2>2, <2>3, <2>4 DEF Numeric, Stamped, Books, Ordered
    <3>2. ASSUME NEW i \in 1 .. Len(queue'), NEW j \in 1 .. Len(queue'), i < j
          PROVE  queue'[i].seq < queue'[j].seq
      <4>1. i \in 1 .. Len(queue) /\ queue'[i] = queue[i]
        BY <3>2, <2>3, <2>4
      <4>2. CASE j \in 1 .. Len(queue)
        BY <3>2, <4>1, <4>2, <2>3, <2>4 DEF Books, Ordered
      <4>3. CASE j = Len(queue) + 1
        BY <1>3, <4>1, <4>3, <2>3, <2>4 DEF Books, Ordered
      <4> QED
        BY <4>2, <4>3, <2>3, <2>4
    <3>3. ASSUME proc.have
          PROVE  /\ proc.last < seq + 1
                 /\ \A i \in 1 .. Len(queue') : proc.last < queue'[i].seq
      BY <1>0, <1>3, <3>3, <2>3, <2>4, SMTT(30) DEF Numeric, Stamped, Books, Ordered
    <3> QED
      BY <1>1, <3>1, <3>2, <3>3 DEF Ordered
  <2>6. Accounted'
    <3>1. Lost' = Lost /\ Found' = Found
      BY <1>1, <2>1 DEF Lost, Found
    <3>2. ToFind' = ToFind
      <4>1. Len(queue') = Len(queue) + 1 /\ seq' = seq + 1 /\ proc' = proc
        BY <1>1, <2>3, <2>4
      <4>2. ToFind' = ((seq + 1) - proc.last) - (1 + (Len(queue) + 1))
        BY <4>1 DEF ToFind
      <4> QED
        BY <1>0, <4>2, SMTT(30) DEF Numeric, ToFind
    <3> QED
      BY <1>0, <1>1, <2>1, <2>3, <2>4, <3>1, <3>2 DEF Numeric, Books, Accounted
  <2> QED
    BY <2>5, <2>6 DEF Books
<1> QED
  BY <1>2, <1>3, SampleStep

LEMMA BooksSkip == ASSUME TypeOK, Books, Skip PROVE Books'
<1>0. Numeric /\ Stamped /\ Lost \in Int /\ Found \in Int /\ ToFind \in Int
  BY Numbers, Sums
<1>1. Missed \in Nat /\ Missed > 0
  BY Constants DEF Skip, Missed, TypeOK
<1>2. /\ seq' = seq + Missed /\ skipped' = skipped + Missed
      /\ UNCHANGED <<queue, drops, proc, unseen>>
  BY DEF Skip
<1>3. \A i \in 1 .. Len(queue) : queue[i].seq \in Nat
  BY <1>0 DEF Stamped
<1>4. Ordered'
  BY <1>0, <1>1, <1>2, <1>3 DEF Numeric, Stamped, Books, Ordered
<1>5. Accounted'
  <2>1. Lost' = Lost + Missed /\ Found' = Found /\ ToFind' = ToFind + Missed
    BY <1>0, <1>1, <1>2, SMTT(30) DEF Numeric, Lost, Found, ToFind
  <2> QED
    BY <1>0, <1>1, <1>2, <2>1 DEF Numeric, Books, Accounted
<1> QED
  BY <1>4, <1>5 DEF Books

(* The sample in front is newer than the last one, so that what is between *)
(* the two is what GapsOf adds.                                            *)
LEMMA BooksReceive == ASSUME TypeOK, Books, Receive PROVE Books'
<1>0. Numeric /\ Stamped /\ Lost \in Int /\ Found \in Int /\ ToFind \in Int
  BY Numbers, Sums
<1> DEFINE s == Head(queue)
<1>1. /\ queue \in Seq(Samples) /\ queue # <<>> /\ queue' = Tail(queue)
      /\ UNCHANGED <<seq, drops, skipped>>
  BY DEF Receive, TypeOK
<1>2. /\ s.seq \in Nat /\ s = queue[1] /\ Len(queue) >= 1
      /\ Len(queue') = Len(queue) - 1 /\ Len(queue) \in Nat
      /\ \A i \in 1 .. Len(queue') : i + 1 \in 1 .. Len(queue) /\ queue'[i] = queue[i + 1]
  BY <1>1, QueueTail, LenProperties DEF Samples
<1>3. /\ proc'.have /\ proc'.last = s.seq
      /\ proc'.gaps = proc.gaps + (IF proc.have THEN GapsOf(s.seq - proc.last) ELSE 0)
      /\ unseen' = IF proc.have THEN unseen ELSE s.seq
  BY DEF Receive, OnSample
<1> HIDE DEF s
<1>4. s.seq < seq /\ (proc.have => proc.last < s.seq)
  BY <1>0, <1>2 DEF Numeric, Stamped, Books, Ordered
<1>5. Ordered'
  <2>1. \A i \in 1 .. Len(queue') : s.seq < queue'[i].seq
    BY <1>0, <1>2, SMTT(30) DEF Numeric, Stamped, Books, Ordered
  <2>2. \A i, j \in 1 .. Len(queue') : i < j => queue'[i].seq < queue'[j].seq
    <3> SUFFICES ASSUME NEW i \in 1 .. Len(queue'), NEW j \in 1 .. Len(queue'), i < j
                 PROVE  queue[i + 1].seq < queue[j + 1].seq
      BY <1>2
    <3> QED
      BY <1>2 DEF Books, Ordered
  <2>3. \A i \in 1 .. Len(queue') : queue'[i].seq < seq'
    BY <1>0, <1>1, <1>2 DEF Numeric, Stamped, Books, Ordered
  <2> QED
    BY <1>1, <1>3, <1>4, <2>1, <2>2, <2>3 DEF Ordered
<1>6. Accounted'
  <2>1. CASE proc.have
    <3>1. GapsOf(s.seq - proc.last) = s.seq - proc.last - 1
      BY <1>0, <1>2, <1>4, <2>1 DEF Numeric, GapsOf
    <3>2. proc'.gaps = proc.gaps + s.seq - proc.last - 1 /\ unseen' = unseen
      BY <1>2, <1>3, <2>1, <3>1, <1>0 DEF Numeric
    <3>3. Found' + ToFind' = Found + ToFind
      <4>1. Found' = Found + ((s.seq - proc.last) - 1)
        BY <1>0, <1>2, <3>2 DEF Numeric, Found
      <4>2. ToFind' = ToFind - ((s.seq - proc.last) - 1)
        <5>1. ToFind' = (seq - s.seq) - Len(queue)
          BY <1>0, <1>1, <1>2, <1>3 DEF Numeric, ToFind
        <5>2. ToFind = (seq - proc.last) - (1 + Len(queue))
          BY DEF ToFind
        <5>3. seq - proc.last = (seq - s.seq) + (s.seq - proc.last)
          BY <1>0, <1>2 DEF Numeric
        <5>4. \A rest, gap, n \in Int : rest - n = ((rest + gap) - (1 + n)) - (gap - 1)
          OBVIOUS
        <5>5. seq - s.seq \in Int /\ s.seq - proc.last \in Int /\ Len(queue) \in Int
          BY <1>0, <1>2 DEF Numeric
        <5> QED
          BY <5>1, <5>2, <5>3, <5>4, <5>5, SMTT(30)
      <4> QED
        BY <1>0, <1>2, <4>1, <4>2, SMTT(30) DEF Numeric
    <3>4. Lost' = Lost
      BY <1>1 DEF Lost
    <3> QED
      BY <1>3, <2>1, <3>3, <3>4 DEF Books, Accounted
  <2>2. CASE ~proc.have
    <3>1. proc'.gaps = proc.gaps /\ unseen' = s.seq
      BY <1>3, <2>2, <1>0 DEF Numeric
    <3>2. Lost' = Lost /\ Lost = seq - Len(queue) /\ proc.gaps = 0
      BY <1>1, <2>2 DEF Lost, Books, Accounted
    <3>3. Found' = s.seq /\ ToFind' = (seq - s.seq) - Len(queue)
      BY <1>0, <1>1, <1>2, <1>3, <3>1, <3>2 DEF Numeric, Found, ToFind
    <3> QED
      BY <1>0, <1>2, <1>3, <3>2, <3>3 DEF Numeric, Accounted
  <2> QED
    BY <2>1, <2>2
<1> QED
  BY <1>5, <1>6 DEF Books

(* Every sample that was not received is counted once, by the sampler and  *)
(* by the processing alike.                                                *)
THEOREM NoLossUnseen == Spec => []Accounted
<1>1. Init => Books
  <2> SUFFICES ASSUME Init PROVE Books
    OBVIOUS
  <2>1. /\ Len(queue) = 0 /\ ~proc.have /\ proc.gaps = 0
        /\ seq = 0 /\ drops = 0 /\ skipped = 0
    BY DEF Init
  <2>2. Lost = seq - Len(queue)
    BY <2>1 DEF Lost
  <2>3. Ordered
    BY <2>1 DEF Ordered
  <2> QED
    BY <2>1, <2>2, <2>3 DEF Books, Accounted
<1>2. TypeOK /\ Books /\ [Next]_vars => Books'
  <2> SUFFICES ASSUME TypeOK, Books, [Next]_vars PROVE Books'
    OBVIOUS
  <2>1. ASSUME NEW who \in {"proc", "web"}, Take(who) \/ Give(who) PROVE Books'
    BY <2>1, BooksKept DEF Take, Give
  <2>2. CASE BootTime \/ BootFlag \/ Tick \/ UNCHANGED vars
    BY <2>2, BooksKept DEF BootTime, BootFlag, Tick, vars
  <2> QED
    BY <2>1, <2>2, BooksSample, BooksSkip, BooksReceive DEF Next
<1>3. Books => Accounted
  BY DEF Books
<1> QED
  BY <1>1, <1>2, <1>3, Types, PTL DEF Spec

-----------------------------------------------------------------------------
(* The boot is over once and for all, and from then on only samples from   *)
(* behind its line are in the queue; until then the clock has not come     *)
(* half way round.                                                         *)
Lined ==
  /\ \A i \in 1 .. Len(queue) : queue[i].at <= now
  /\ \A i, j \in 1 .. Len(queue) : i < j => queue[i].at <= queue[j].at
  /\ boot.at <= now /\ (boot.done => boot.timed)
  /\ proc.booting => now <= MaxStall
  /\ ~proc.booting => boot.done /\ \A i \in 1 .. Len(queue) : boot.at <= queue[i].at

(* Within MaxStall the signed difference of two stamps tells their order.  *)
LEMMA StampsTell ==
  ASSUME NEW a \in 0 .. MaxStall, NEW b \in 0 .. MaxStall
  PROVE  NotBefore(a, b) <=> b <= a
<1>1. /\ W \in Nat /\ MaxStall \in Nat /\ W \div 2 \in Nat
      /\ MaxStall < W \div 2 /\ W \div 2 + MaxStall <= W
  BY SamplerAssumption DEF SamplerAssumption
<1>2. a % W = a /\ b % W = b
  BY <1>1
<1>3. CASE b <= a
  <2>1. (a - b) % W = a - b
    BY <1>1, <1>3
  <2> QED
    BY <1>1, <1>2, <1>3, <2>1 DEF NotBefore
<1>4. CASE a < b
  <2>1. (a - b) % W = (a - b) + W
    BY <1>1, <1>4
  <2> QED
    BY <1>1, <1>2, <1>4, <2>1 DEF NotBefore
<1> QED
  BY <1>3, <1>4, <1>1

(* While it boots, the comparison of the front sample tells the truth.     *)
LEMMA BootingTells ==
  ASSUME TypeOK, Lined, queue # <<>>
  PROVE  Booting(Head(queue)) <=>
           proc.booting /\ ~(boot.done /\ boot.at <= Head(queue).at)
<1>1. /\ Head(queue) = queue[1] /\ 1 \in 1 .. Len(queue) /\ Head(queue).at \in Nat
  BY QueueTail, LenProperties DEF TypeOK, Samples
<1>2. boot.at \in Nat /\ now \in Nat /\ MaxStall \in Nat
  BY SamplerAssumption DEF TypeOK, SamplerAssumption
<1>3. CASE proc.booting
  <2>1. Head(queue).at \in 0 .. MaxStall /\ boot.at \in 0 .. MaxStall
    BY <1>1, <1>2, <1>3 DEF Lined
  <2> QED
    BY <1>3, <2>1, StampsTell DEF Booting
<1>4. CASE ~proc.booting
  BY <1>4 DEF Booting
<1> QED
  BY <1>3, <1>4

LEMMA LinedReceive == ASSUME TypeOK, Lined, Receive PROVE Lined'
<1>1. /\ queue \in Seq(Samples) /\ queue # <<>> /\ queue' = Tail(queue)
      /\ UNCHANGED <<now, boot>> /\ proc'.booting = Booting(Head(queue))
  BY DEF Receive, OnSample, TypeOK
<1>2. /\ Head(queue) = queue[1] /\ 1 \in 1 .. Len(queue) /\ Len(queue') = Len(queue) - 1
      /\ Len(queue) \in Nat
      /\ \A i \in 1 .. Len(queue') : i + 1 \in 1 .. Len(queue) /\ queue'[i] = queue[i + 1]
  BY <1>1, QueueTail, LenProperties
<1>3. \A i, j \in 1 .. Len(queue') : i < j => queue'[i].at <= queue'[j].at
  <2> SUFFICES ASSUME NEW i \in 1 .. Len(queue'), NEW j \in 1 .. Len(queue'), i < j
               PROVE  queue[i + 1].at <= queue[j + 1].at
    BY <1>2
  <2> QED
    BY <1>2 DEF Lined
<1>4. \A i \in 1 .. Len(queue') : queue'[i].at <= now /\ queue[1].at <= queue'[i].at
  BY <1>2, SMTT(30) DEF Lined
<1>5. ASSUME ~proc'.booting
      PROVE  boot.done /\ \A i \in 1 .. Len(queue') : boot.at <= queue'[i].at
  <2>1. boot.done /\ boot.at <= queue[1].at
    BY <1>1, <1>2, <1>5, BootingTells DEF Lined
  <2>2. \A i \in 1 .. Len(queue) : queue[i].at \in Nat
    BY Numbers DEF Stamped
  <2>3. boot.at \in Nat /\ queue[1].at \in Nat
    BY <1>2, <2>2 DEF TypeOK
  <2>4. \A i \in 1 .. Len(queue') : queue'[i].at \in Nat
    BY <1>2, <2>2
  <2> QED
    BY <1>4, <2>1, <2>3, <2>4
<1>6. proc'.booting => now <= MaxStall
  BY <1>1, BootingTells DEF Lined
<1> QED
  BY <1>1, <1>3, <1>4, <1>5, <1>6 DEF Lined

LEMMA LinedSample == ASSUME TypeOK, Lined, Sample PROVE Lined'
<1>1. UNCHANGED <<now, boot, proc>>
  BY DEF Sample
<1>2. CASE UNCHANGED queue
  BY <1>1, <1>2 DEF Lined
<1>3. ASSUME NEW s \in Samples, queue' = Append(queue, s), s.at = now
      PROVE  Lined'
  <2>1. /\ Len(queue') = Len(queue) + 1 /\ queue'[Len(queue) + 1].at = now
        /\ \A i \in 1 .. Len(queue) : queue'[i] = queue[i]
        /\ Len(queue) \in Nat
    BY <1>3, QueueAppend, LenProperties DEF TypeOK
  <2>2. \A i \in 1 .. Len(queue') : i \in 1 .. Len(queue) \/ i = Len(queue) + 1
    BY <2>1
  <2>3. now \in Nat /\ boot.at \in Nat
    BY DEF TypeOK
  <2>4. \A i \in 1 .. Len(queue') : queue'[i].at <= now
    BY <2>1, <2>2, <2>3 DEF Lined
  <2>5. ASSUME NEW i \in 1 .. Len(queue'), NEW j \in 1 .. Len(queue'), i < j
        PROVE  queue'[i].at <= queue'[j].at
    <3>1. i \in 1 .. Len(queue)
      BY <2>1, <2>5
    <3> QED
      BY <2>1, <2>2, <2>3, <2>5, <3>1 DEF Lined
  <2>6. ~proc.booting => \A i \in 1 .. Len(queue') : boot.at <= queue'[i].at
    BY <2>1, <2>2, <2>3 DEF Lined
  <2> QED
    BY <1>1, <2>4, <2>5, <2>6 DEF Lined
<1> QED
  BY <1>2, <1>3, SampleStep

(* A late sample is held against the run only if it was taken in it.       *)
THEOREM RunLatesAreOfTheRun == Spec => LateIsOfTheRun
<1>1. Init => Lined
  <2> SUFFICES ASSUME Init PROVE Lined
    OBVIOUS
  <2>1. /\ Len(queue) = 0 /\ proc.booting /\ now = 0 /\ boot.at = 0 /\ ~boot.done
    BY DEF Init
  <2> QED
    BY <2>1, SamplerAssumption DEF Lined, SamplerAssumption
<1>2. TypeOK /\ Lined /\ [Next]_vars => Lined'
  <2> SUFFICES ASSUME TypeOK, Lined, [Next]_vars PROVE Lined'
    OBVIOUS
  <2>1. CASE Skip \/ (\E who \in {"proc", "web"} : Take(who) \/ Give(who)) \/ UNCHANGED vars
    BY <2>1 DEF Skip, Take, Give, vars, Lined
  <2>2. CASE BootTime
    <3>1. proc.booting /\ proc' = proc /\ UNCHANGED <<now, queue>> /\ now \in Nat
      BY <2>2 DEF BootTime, Lined, TypeOK
    <3>2. boot'.at = now /\ boot'.timed
      BY <2>2 DEF BootTime, TypeOK
    <3> QED
      BY <3>1, <3>2 DEF Lined
  <2>3. CASE BootFlag
    <3>1. UNCHANGED <<now, queue, proc>> /\ boot'.at = boot.at /\ boot'.timed /\ boot'.done
      BY <2>3 DEF BootFlag, TypeOK
    <3> QED
      BY <3>1 DEF Lined
  <2>4. CASE Tick
    <3>1. /\ now' = now + 1 /\ UNCHANGED <<queue, proc, boot>>
          /\ proc.booting => now' <= MaxStall
      BY <2>4, SamplerAssumption DEF Tick, TypeOK, SamplerAssumption
    <3>2. now \in Nat /\ boot.at \in Nat /\ \A i \in 1 .. Len(queue) : queue[i].at \in Nat
      BY Numbers DEF TypeOK, Stamped
    <3> QED
      BY <3>1, <3>2 DEF Lined
  <2> QED
    BY <2>1, <2>2, <2>3, <2>4, LinedReceive, LinedSample DEF Next
<1>3. TypeOK /\ Lined /\ [Next]_vars =>
        [/\ proc'.late # proc.late => boot.timed /\ boot.at <= Head(queue).at
         /\ proc'.lateBoot # proc.lateBoot => ~(boot.done /\ boot.at <= Head(queue).at)]_vars
  <2> SUFFICES ASSUME TypeOK, Lined, Next
               PROVE  /\ proc'.late # proc.late => boot.timed /\ boot.at <= Head(queue).at
                      /\ proc'.lateBoot # proc.lateBoot
                           => ~(boot.done /\ boot.at <= Head(queue).at)
    OBVIOUS
  <2>1. CASE Receive
    <3>1. /\ queue # <<>> /\ queue \in Seq(Samples)
          /\ proc'.late = proc.late + One(Head(queue).late /\ ~Booting(Head(queue)))
          /\ proc'.lateBoot = proc.lateBoot + One(Head(queue).late /\ Booting(Head(queue)))
          /\ proc.late \in Nat /\ proc.lateBoot \in Nat
      BY <2>1 DEF Receive, OnSample, TypeOK
    <3>2. proc'.late # proc.late => ~Booting(Head(queue))
      BY <3>1 DEF One
    <3>3. proc'.lateBoot # proc.lateBoot => Booting(Head(queue))
      BY <3>1 DEF One
    <3>4. ~proc.booting => boot.done /\ boot.at <= Head(queue).at
      BY <3>1, QueueTail DEF Lined
    <3> QED
      BY <3>1, <3>2, <3>3, <3>4, BootingTells DEF Lined
  <2>2. CASE ~Receive
    <3>1. proc' = proc
      BY <2>2 DEF Next, Sample, Skip, Take, Give, BootTime, BootFlag, Tick
    <3> QED
      BY <3>1
  <2> QED
    BY <2>1, <2>2
<1> QED
  BY <1>1, <1>2, <1>3, Types, PTL DEF Spec, LateIsOfTheRun
=============================================================================
