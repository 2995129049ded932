--------------------------- MODULE RawRingProofs ---------------------------
(***************************************************************************)
(* The downloads of the raw ring and the recording it promises, proved for *)
(* every capacity, every width of the numbers and any finite number of     *)
(* downloads at once.                                                      *)
(***************************************************************************)
EXTENDS RawRing, FiniteSetTheorems, SequenceTheorems, WellFoundedInduction, TLAPS

Numbers == 0 .. M - 1
Download ==
  [open : BOOLEAN, n : 0 .. Cap, newest : Numbers, row : 0 .. Cap,
   changed : BOOLEAN, aborted : BOOLEAN, out : Seq(Numbers)]

LEMMA Constants ==
  /\ M \in Nat \ {0} /\ Lo \in Nat \ {0} /\ Cap \in Nat \ {0} /\ MaxGaps \in Nat
  /\ M >= 4 /\ IsFiniteSet(Readers) /\ Jumps \subseteq Int
BY RingAssumption

LEMMA Remainder ==
  ASSUME NEW x \in Int, NEW m \in Nat \ {0}
  PROVE  x % m \in 0 .. m - 1
OBVIOUS

(* The least of some numbers is one of them, and no other is less.        *)
LEMMA LeastIsLeast ==
  ASSUME NEW S \in SUBSET Nat, S # {}
  PROVE  Min(S) \in S /\ \A k \in S : Min(S) <= k
<1>1. PICK m \in S : \A k \in S : ~(<<k, m>> \in OpToRel(<, Nat))
  BY NatLessThanWellFounded, WFMin
<1>2. \A k \in S : ~(k < m)
  <2>1. \A k \in S : k < m => <<k, m>> \in OpToRel(<, Nat)
    BY Zenon DEF OpToRel
  <2> QED
    BY <1>1, <2>1
<1>3. \A k \in S : m <= k
  BY <1>2
<1> QED
  BY <1>3 DEF Min

InWindow(seq, i) == (seq - expandSeq(newest, buf[Index(i)])) % M <= Window

(* What is dropped are the samples out of the window up to the first that  *)
(* is not.                                                                 *)
LEMMA DropIs ==
  ASSUME NEW n \in Nat, NEW seq
  PROVE  /\ OutOfWindow(n, seq) \in 0 .. n
         /\ \A k \in 0 .. OutOfWindow(n, seq) - 1 : ~InWindow(seq, k)
         /\ OutOfWindow(n, seq) = n \/ InWindow(seq, OutOfWindow(n, seq))
<1> DEFINE S == {k \in 0 .. n : k = n \/ InWindow(seq, k)}
<1>1. n \in S /\ S \in SUBSET Nat
  OBVIOUS
<1>2. OutOfWindow(n, seq) = Min(S)
  BY DEF OutOfWindow, InWindow
<1> DEFINE drop == OutOfWindow(n, seq)
<1>3. drop \in S /\ \A k \in S : drop <= k
  <2> HIDE DEF S, drop
  <2>1. Min(S) \in S /\ \A k \in S : Min(S) <= k
    BY <1>1, LeastIsLeast
  <2> QED
    BY <1>2, <2>1 DEF drop
<1>4. drop \in 0 .. n /\ (drop = n \/ InWindow(seq, drop))
  BY <1>3
<1>5. \A k \in 0 .. drop - 1 : ~InWindow(seq, k)
  <2> SUFFICES ASSUME NEW k \in 0 .. drop - 1, InWindow(seq, k)
               PROVE  FALSE
    OBVIOUS
  <2>1. k \in 0 .. n /\ k < drop
    BY <1>4
  <2>2. k \in S
    BY <2>1
  <2> HIDE DEF S
  <2>3. drop <= k
    BY <1>3, <2>2
  <2> QED
    BY <1>4, <2>1, <2>3
<1> QED
  BY <1>4, <1>5

-----------------------------------------------------------------------------
(* The invariant: the ring is only touched while nobody reads it, and what *)
(* a download has written so far is what the ring says.                    *)
Written(r) ==
  csv[r].open =>
    /\ ~csv[r].changed /\ ~csv[r].aborted
    /\ csv[r].n = count /\ csv[r].newest = newest
    /\ csv[r].row <= csv[r].n /\ Len(csv[r].out) = csv[r].row
    /\ \A i \in 1 .. csv[r].row : csv[r].out[i] = Tape[i]

(* The gaps: what was pushed last is what the sampler delivered last,      *)
(* unless a download kept it out.                                          *)
NewestIsLast == ~skip /\ count > 0 => newest = last

Shaped ==
  /\ buf \in [0 .. Cap - 1 -> 0 .. Lo - 1]
  /\ start \in 0 .. Cap - 1 /\ count \in 0 .. Cap
  /\ newest \in Numbers /\ last \in Numbers
  /\ gaps \in 0 .. MaxGaps /\ skip \in BOOLEAN /\ freeze \in Nat
  /\ csv \in [Readers -> Download]

IInv ==
  /\ Shaped /\ HoldersCounted /\ NewestIsLast
  /\ \A r \in Readers : Written(r)

LEMMA HoldersFinite == IsFiniteSet(Holders) /\ Holders \subseteq Readers
<1>1. Holders \in SUBSET Readers
  BY DEF Holders
<1> QED
  BY <1>1, Constants, FS_Subset

LEMMA NobodyReads ==
  ASSUME IInv, freeze = 0
  PROVE  \A r \in Readers : ~csv[r].open
<1>1. Holders = {}
  BY HoldersFinite, FS_EmptySet DEF IInv, HoldersCounted
<1> QED
  BY <1>1 DEF Holders

(* The cells of the recording, from the boundaries of their numbers.       *)
LEMMA RowNumber ==
  ASSUME Shaped, NEW new \in Int, NEW i \in Int
  PROVE  expandSeq(new, buf[Index(i)]) \in Numbers
<1>1. Index(i) \in 0 .. Cap - 1
  BY Constants, Remainder DEF Index, Shaped
<1>2. buf[Index(i)] \in Int
  BY <1>1 DEF Shaped
<1> DEFINE lo == buf[Index(i)]
<1>3. new % Lo \in Int
  BY Constants, Remainder
<1>4. ((new % Lo) - lo) % Lo \in Int
  <2>1. (new % Lo) - lo \in Int
    BY <1>2, <1>3
  <2> HIDE DEF lo
  <2>2. ((new % Lo) - lo) % Lo \in 0 .. Lo - 1
    BY <2>1, Constants, Remainder
  <2> QED
    BY <2>2
<1>5. new - (((new % Lo) - lo) % Lo) \in Int
  BY <1>4
<1> HIDE DEF lo
<1>6. (new - (((new % Lo) - lo) % Lo)) % M \in Numbers
  BY <1>5, Constants, Remainder DEF Numbers
<1> QED
  BY <1>6 DEF expandSeq, lo

LEMMA SameTape ==
  ASSUME UNCHANGED ringvars
  PROVE  Tape' = Tape
BY DEF ringvars, Tape, expandSeq, Index

-----------------------------------------------------------------------------
(* A sample. *)

LEMMA StoreShaped ==
  ASSUME Shaped, NEW seq \in Numbers, Store(seq)
  PROVE  /\ buf' \in [0 .. Cap - 1 -> 0 .. Lo - 1]
         /\ start' \in 0 .. Cap - 1 /\ count' \in 0 .. Cap
         /\ newest' = seq /\ gaps' \in 0 .. MaxGaps /\ skip' = FALSE
<1> DEFINE d == (seq - newest) % M
           jump == count > 0 /\ d # 1
           cleared == jump /\ (d = 0 \/ d > Half - 1)
           first == IF cleared THEN 0 ELSE start
           n == IF cleared THEN 0 ELSE count
           drop == OutOfWindow(n, seq)
           base == (first + drop) % Cap
           left == n - drop
<1>1. /\ buf' = [buf EXCEPT ![(base + left) % Cap] = seq % Lo]
      /\ start' = IF left = Cap THEN NextIndex(base) ELSE base
      /\ count' = IF left = Cap THEN Cap ELSE left + 1
      /\ newest' = seq
      /\ gaps' = IF jump /\ ~skip /\ gaps < MaxGaps THEN gaps + 1 ELSE gaps
      /\ skip' = FALSE
  BY DEF Store
<1>2. first \in 0 .. Cap - 1 /\ n \in 0 .. Cap /\ seq \in Int
  BY Constants DEF Shaped, Numbers
<1> HIDE DEF jump, first, n
<1>3. drop \in 0 .. n /\ n \in Nat
  BY <1>2, DropIs
<1> HIDE DEF drop
<1>4. left \in 0 .. Cap /\ first + drop \in Int
  BY <1>2, <1>3, Constants
<1>5. base \in 0 .. Cap - 1
  BY <1>4, Constants, Remainder
<1> HIDE DEF left, base
<1>6. (base + left) % Cap \in 0 .. Cap - 1 /\ seq % Lo \in 0 .. Lo - 1
  <2>1. base + left \in Int
    BY <1>4, <1>5
  <2> QED
    BY <1>2, <2>1, Constants, Remainder
<1>7. buf' \in [0 .. Cap - 1 -> 0 .. Lo - 1]
  BY <1>1, <1>6 DEF Shaped
<1>8. start' \in 0 .. Cap - 1
  BY <1>1, <1>5, Constants DEF NextIndex
<1>9. count' \in 0 .. Cap
  BY <1>1, <1>4, Constants
<1>10. gaps' \in 0 .. MaxGaps
  BY <1>1, Constants DEF Shaped
<1> QED
  BY <1>1, <1>7, <1>8, <1>9, <1>10

(* A gap is counted for a jump of the sampler only. *)
LEMMA GapIsReal ==
  ASSUME IInv, NEW seq \in Numbers, Store(seq), gaps' > gaps
  PROVE  seq # (last + 1) % M
<1>1. count > 0 /\ (seq - newest) % M # 1 /\ ~skip
  <2> DEFINE jump == count > 0 /\ (seq - newest) % M # 1
  <2>1. gaps' = IF jump /\ ~skip /\ gaps < MaxGaps THEN gaps + 1 ELSE gaps
    BY Zenon DEF Store
  <2>2. gaps \in Int
    BY DEF IInv, Shaped
  <2> HIDE DEF jump
  <2>3. jump /\ ~skip
    BY <2>1, <2>2
  <2> QED
    BY <2>3 DEF jump
<1>2. newest = last /\ last \in Numbers
  BY <1>1 DEF IInv, Shaped, NewestIsLast
<1>3. ASSUME seq = (last + 1) % M
      PROVE  (seq - last) % M = 1
  <2>1. CASE last + 1 < M
    <3>1. seq = last + 1 /\ seq - last = 1
      BY <1>2, <1>3, <2>1, Constants DEF Numbers
    <3> QED
      BY <3>1, Constants
  <2>2. CASE last + 1 = M
    <3>1. seq = 0
      BY <1>2, <1>3, <2>2, Constants
    <3>2. seq - last = 1 - M
      BY <1>2, <2>2, <3>1, Constants DEF Numbers
    <3>3. (1 - M) % M = 1
      BY Constants
    <3> QED
      BY <3>2, <3>3
  <2> QED
    BY <1>2, <2>1, <2>2, Constants DEF Numbers
<1> QED
  BY <1>1, <1>2, <1>3

Real == gaps' > gaps => last' # (last + 1) % M

LEMMA PushStep ==
  ASSUME IInv, NEW seq \in Numbers, Push(seq)
  PROVE  IInv' /\ Real
<1>1. last' = seq
  BY DEF Push
<1>2. CASE freeze > 0 /\ Skipped /\ UNCHANGED <<ringvars, gaps, freeze, csv>>
  <2>1. UNCHANGED <<ringvars, gaps, freeze, csv>> /\ skip'
    BY <1>2 DEF Skipped
  <2>2. Tape' = Tape
    BY <2>1, SameTape
  <2>3. Shaped' /\ HoldersCounted' /\ NewestIsLast' /\ Real
    BY <1>1, <1>2, <2>1
       DEF Skipped, IInv, Shaped, HoldersCounted, Holders, NewestIsLast, ringvars, Real
  <2>4. \A r \in Readers : Written(r)'
    BY <2>1, <2>2 DEF IInv, Written, ringvars
  <2> QED
    BY <2>3, <2>4 DEF IInv
<1>3. CASE /\ freeze = 0 /\ Store(seq) /\ UNCHANGED freeze
           /\ csv' = [r \in Readers |-> [csv[r] EXCEPT !.changed = @ \/ csv[r].open]]
  <2>1. \A r \in Readers : ~csv[r].open
    BY <1>3, NobodyReads
  <2>2. csv' = csv
    <3>1. ASSUME NEW r \in Readers
          PROVE  [csv[r] EXCEPT !.changed = @ \/ csv[r].open] = csv[r]
      <4>1. csv[r] \in Download
        BY DEF IInv, Shaped
      <4>2. (csv[r].changed \/ csv[r].open) = csv[r].changed
        BY <2>1, <4>1 DEF Download
      <4> QED
        BY <4>1, <4>2 DEF Download
    <3>2. csv = [r \in Readers |-> csv[r]]
      BY DEF IInv, Shaped
    <3> QED
      BY <1>3, <3>1, <3>2
  <2>3. /\ buf' \in [0 .. Cap - 1 -> 0 .. Lo - 1]
        /\ start' \in 0 .. Cap - 1 /\ count' \in 0 .. Cap
        /\ newest' = seq /\ gaps' \in 0 .. MaxGaps /\ skip' = FALSE
    BY <1>3, StoreShaped DEF IInv
  <2>4. Shaped' /\ NewestIsLast'
    BY <1>1, <1>3, <2>2, <2>3 DEF IInv, Shaped, NewestIsLast
  <2>5. HoldersCounted' /\ \A r \in Readers : Written(r)'
    BY <1>3, <2>1, <2>2 DEF IInv, HoldersCounted, Holders, Written
  <2>6. Real
    BY <1>1, <1>3, GapIsReal DEF Real
  <2> QED
    BY <2>4, <2>5, <2>6 DEF IInv
<1> QED
  BY <1>2, <1>3 DEF Push

-----------------------------------------------------------------------------
(* The downloads. *)

(* What a step that leaves the ring alone keeps. *)
LEMMA Untouched ==
  ASSUME Shaped, NewestIsLast, UNCHANGED <<ringvars, gaps, skip, last>>,
         freeze' \in Nat, csv' \in [Readers -> Download]
  PROVE  Shaped' /\ NewestIsLast' /\ Real /\ Tape' = Tape /\ count' = count /\ newest' = newest
<1>1. Tape' = Tape
  BY SameTape
<1> QED
  BY <1>1 DEF Shaped, NewestIsLast, ringvars, Real

LEMMA ClosedType == Closed \in Download /\ ~Closed.open
<1>1. 0 \in 0 .. Cap /\ 0 \in Numbers /\ <<>> \in Seq(Numbers)
  BY Constants DEF Numbers
<1> QED
  BY <1>1 DEF Closed, Download

LEMMA OpenStep ==
  ASSUME IInv, NEW r \in Readers, Open(r)
  PROVE  IInv' /\ Real
<1> DEFINE d == [Closed EXCEPT !.open = TRUE, !.n = count, !.newest = newest]
<1>1. /\ ~csv[r].open /\ freeze' = freeze + 1 /\ csv' = [csv EXCEPT ![r] = d]
      /\ UNCHANGED <<ringvars, gaps, skip, last>>
  BY DEF Open, FrozenMore
<1>2. /\ d \in Download /\ d.open /\ ~d.changed /\ ~d.aborted /\ d.n = count
      /\ d.newest = newest /\ d.row = 0 /\ d.out = <<>>
  BY ClosedType DEF Closed, Download, IInv, Shaped
<1> HIDE DEF d
<1>3. csv' \in [Readers -> Download] /\ freeze' \in Nat
  BY <1>1, <1>2 DEF IInv, Shaped
<1>4. Shaped' /\ NewestIsLast' /\ Real /\ Tape' = Tape /\ count' = count /\ newest' = newest
  BY <1>1, <1>3, Untouched DEF IInv
<1>5. ASSUME NEW e \in Readers
      PROVE  Written(e)'
  <2>1. CASE e = r
    <3>1. csv'[e] = d
      BY <1>1, <2>1 DEF IInv, Shaped
    <3> QED
      BY <1>2, <1>4, <3>1 DEF Written, IInv, Shaped
  <2>2. CASE e # r
    <3>1. csv'[e] = csv[e]
      BY <1>1, <2>2 DEF IInv, Shaped
    <3> QED
      BY <1>4, <3>1 DEF Written, IInv
  <2> QED
    BY <2>1, <2>2
<1>6. HoldersCounted'
  <2>1. Holders' = Holders \cup {r} /\ r \notin Holders
    BY <1>1, <1>2 DEF Holders, IInv, Shaped
  <2> QED
    BY <1>1, <2>1, HoldersFinite, FS_AddElement DEF IInv, HoldersCounted
<1> QED
  BY <1>4, <1>5, <1>6 DEF IInv

LEMMA ReleaseStep ==
  ASSUME IInv, NEW r \in Readers, Release(r)
  PROVE  IInv' /\ Real
<1>1. /\ csv[r].open /\ freeze' = (IF freeze > 0 THEN freeze - 1 ELSE 0)
      /\ csv' = [csv EXCEPT ![r] = Closed] /\ UNCHANGED <<ringvars, gaps, skip, last>>
  BY DEF Release
<1>2. csv' \in [Readers -> Download] /\ freeze' \in Nat
  BY <1>1, ClosedType DEF IInv, Shaped
<1>3. Shaped' /\ NewestIsLast' /\ Real /\ Tape' = Tape /\ count' = count /\ newest' = newest
  BY <1>1, <1>2, Untouched DEF IInv
<1>4. ASSUME NEW e \in Readers
      PROVE  Written(e)'
  <2>1. CASE e = r
    <3>1. ~csv'[e].open
      BY <1>1, <2>1, ClosedType DEF IInv, Shaped
    <3> QED
      BY <3>1 DEF Written
  <2>2. CASE e # r
    <3>1. csv'[e] = csv[e]
      BY <1>1, <2>2 DEF IInv, Shaped
    <3> QED
      BY <1>3, <3>1 DEF Written, IInv
  <2> QED
    BY <2>1, <2>2
<1>5. HoldersCounted'
  <2>1. Holders' = Holders \ {r} /\ r \in Holders
    BY <1>1, ClosedType DEF Holders, IInv, Shaped
  <2>2. Cardinality(Holders') = Cardinality(Holders) - 1 /\ freeze = Cardinality(Holders)
    BY <2>1, HoldersFinite, FS_RemoveElement DEF IInv, HoldersCounted
  <2>3. freeze # 0
    BY <2>1, <2>2, HoldersFinite, FS_EmptySet
  <2> QED
    BY <1>1, <2>2, <2>3 DEF IInv, Shaped, HoldersCounted
<1> QED
  BY <1>3, <1>4, <1>5 DEF IInv

LEMMA ChunkStep ==
  ASSUME IInv, NEW r \in Readers, Chunk(r)
  PROVE  IInv' /\ Real
<1> DEFINE w == csv[r]
           x == Row(r, csv[r].row)
           d == WithRow(w, x)
<1>1. /\ w.open /\ w \in Download /\ ~w.changed /\ ~w.aborted
      /\ w.n = count /\ w.newest = newest /\ Len(w.out) = w.row
      /\ \A i \in 1 .. w.row : w.out[i] = Tape[i]
  BY DEF Chunk, IInv, Shaped, Written
<1>2. ~Ended(r) /\ UNCHANGED <<ringvars, gaps, skip, freeze, last>>
      /\ csv' = [csv EXCEPT ![r] = d]
  BY <1>1 DEF Chunk
<1>3. w.row < w.n /\ w.row \in Nat /\ w.n \in 0 .. Cap
  BY <1>1, <1>2, Constants DEF Ended, Download
<1>4. x = Tape[w.row + 1] /\ x \in Numbers
  <2>1. x = expandSeq(newest, buf[Index(w.row)])
    BY <1>1 DEF Row
  <2>2. w.row + 1 \in 1 .. count /\ (w.row + 1) - 1 = w.row
    BY <1>1, <1>3
  <2>3. Tape[w.row + 1] = expandSeq(newest, buf[Index((w.row + 1) - 1)])
    BY <2>2 DEF Tape
  <2>4. newest \in Int
    BY Constants DEF IInv, Shaped, Numbers
  <2> QED
    BY <1>3, <2>1, <2>2, <2>3, <2>4, RowNumber DEF IInv
<1> HIDE DEF w, x
<1>5. w.out \in Seq(Numbers) /\ w.row + 1 \in 0 .. Cap
  BY <1>1, <1>3, Constants DEF Download
<1>6. /\ Append(w.out, x) \in Seq(Numbers) /\ Len(Append(w.out, x)) = w.row + 1
      /\ \A i \in 1 .. w.row + 1 : Append(w.out, x)[i] = Tape[i]
  BY <1>1, <1>3, <1>4, <1>5
<1>7. /\ d \in Download /\ d.open /\ ~d.changed /\ ~d.aborted /\ d.n = w.n
      /\ d.newest = w.newest /\ d.row = w.row + 1 /\ d.out = Append(w.out, x)
  BY <1>1, <1>5, <1>6 DEF Download, WithRow
<1> HIDE DEF d
<1>8. csv' \in [Readers -> Download] /\ freeze' \in Nat /\ csv'[r] = d
  BY <1>2, <1>7 DEF IInv, Shaped
<1>9. Shaped' /\ NewestIsLast' /\ Real /\ Tape' = Tape /\ count' = count /\ newest' = newest
  BY <1>2, <1>8, Untouched DEF IInv
<1>10. ASSUME NEW e \in Readers
       PROVE  Written(e)'
  <2>1. CASE e = r
    <3>1. csv'[e] = d
      BY <1>8, <2>1
    <3>2. w.n = count /\ w.newest = newest /\ w.row + 1 <= w.n
      BY <1>1, <1>3
    <3>3. \A i \in 1 .. d.row : d.out[i] = Tape'[i]
      BY <1>6, <1>7, <1>9
    <3>4. Len(d.out) = d.row /\ d.row <= d.n /\ d.n = count' /\ d.newest = newest'
      BY <1>6, <1>7, <1>9, <3>2
    <3> QED
      BY <1>7, <3>1, <3>3, <3>4, Zenon DEF Written
  <2>2. CASE e # r
    <3>1. csv'[e] = csv[e]
      BY <1>2, <2>2 DEF IInv, Shaped
    <3> QED
      BY <1>9, <3>1 DEF Written, IInv
  <2> QED
    BY <2>1, <2>2
<1>11. HoldersCounted'
  <2>1. Holders' = Holders
    BY <1>1, <1>2, <1>7 DEF Holders, IInv, Shaped, w
  <2> QED
    BY <1>2, <2>1 DEF IInv, HoldersCounted
<1> QED
  BY <1>9, <1>10, <1>11 DEF IInv

-----------------------------------------------------------------------------
LEMMA Inductive == IInv /\ [Next]_vars => IInv' /\ Real
<1> SUFFICES ASSUME IInv, [Next]_vars
             PROVE  IInv' /\ Real
  OBVIOUS
<1>1. CASE \E j \in Jumps : Push((last + j) % M)
  <2>1. PICK j \in Jumps : Push((last + j) % M)
    BY <1>1
  <2>2. last + j \in Int
    BY Constants DEF IInv, Shaped, Numbers
  <2>3. (last + j) % M \in Numbers
    BY <2>2, Constants, Remainder DEF Numbers
  <2> QED
    BY <2>1, <2>3, PushStep
<1>2. ASSUME NEW r \in Readers, Open(r) \/ Chunk(r) \/ Finish(r) \/ Disconnect(r)
      PROVE  IInv' /\ Real
  BY <1>2, OpenStep, ChunkStep, ReleaseStep DEF Finish, Disconnect
<1>3. CASE UNCHANGED vars
  <2>1. Tape' = Tape
    BY <1>3, SameTape DEF vars, ringvars
  <2> QED
    BY <1>3, <2>1
       DEF vars, ringvars, IInv, Shaped, HoldersCounted, Holders, NewestIsLast, Written, Real
<1> QED
  BY <1>1, <1>2, <1>3 DEF Next

LEMMA AtFirst == Init => IInv
<1> SUFFICES ASSUME Init
             PROVE  IInv
  OBVIOUS
<1>1. Shaped
  <2>1. /\ 0 \in 0 .. Lo - 1 /\ 0 \in 0 .. Cap - 1 /\ 0 \in 0 .. Cap /\ 0 \in 0 .. MaxGaps
        /\ 0 \in Numbers /\ M - 1 \in Numbers
    BY Constants DEF Numbers
  <2>2. buf \in [0 .. Cap - 1 -> 0 .. Lo - 1] /\ csv \in [Readers -> Download]
    BY <2>1, ClosedType DEF Init
  <2> QED
    BY <2>1, <2>2 DEF Init, Shaped
<1>2. \A r \in Readers : ~csv[r].open
  BY ClosedType DEF Init
<1>3. HoldersCounted
  <2>1. Holders = {}
    BY <1>2 DEF Holders
  <2> QED
    BY <2>1, FS_EmptySet DEF Init, HoldersCounted
<1> QED
  BY <1>1, <1>2, <1>3 DEF IInv, NewestIsLast, Written, Init

LEMMA Invariant == Spec => []IInv
<1>1. IInv /\ [Next]_vars => IInv'
  BY Inductive
<1> QED
  BY <1>1, AtFirst, PTL DEF Spec

-----------------------------------------------------------------------------
(* The ring, its numbers and every download stay in their ranges, for any  *)
(* jumps of the sampler (push, fill).                                      *)
THEOREM Types == Spec => []TypeOK
<1>1. IInv => TypeOK
  BY DEF IInv, Shaped, TypeOK, Download, Numbers
<1> QED
  BY <1>1, Invariant, PTL

(* The freezes that are open are exactly the downloads that are open, over *)
(* every order of ends, disconnections and destructors (freeze, unfreeze). *)
THEOREM FreezesAreCounted == Spec => []HoldersCounted
<1>1. IInv => HoldersCounted
  BY DEF IInv
<1> QED
  BY <1>1, Invariant, PTL

(* Every download is the recording, under its full numbers, as far as it   *)
(* has come (CsvState, CsvWriter, at, expandSeq).                          *)
THEOREM DownloadsAreWhole == Spec => []DownloadWhole
<1>1. IInv => DownloadWhole
  <2> SUFFICES ASSUME IInv, NEW r \in Holders
               PROVE  /\ ~csv[r].changed /\ ~csv[r].aborted
                      /\ csv[r].n = count /\ csv[r].newest = newest
                      /\ csv[r].out = SubSeq(Tape, 1, csv[r].row)
    BY DEF DownloadWhole
  <2>1. r \in Readers /\ csv[r].open
    BY DEF Holders
  <2>2. /\ ~csv[r].changed /\ ~csv[r].aborted /\ csv[r].n = count /\ csv[r].newest = newest
        /\ csv[r].row <= count /\ Len(csv[r].out) = csv[r].row
        /\ \A i \in 1 .. csv[r].row : csv[r].out[i] = Tape[i]
    BY <2>1 DEF IInv, Written
  <2>3. csv[r].row \in Nat /\ csv[r].out \in Seq(Numbers) /\ count \in Nat
    BY <2>1, Constants DEF IInv, Shaped, Download
  <2> DEFINE k == csv[r].row
             o == csv[r].out
  <2>4. \A i \in 1 .. k : o[i] \in Numbers
    BY <2>2, <2>3
  <2>5. \A i \in 1 .. k : Tape[i] \in Numbers
    BY <2>2, <2>4
  <2> HIDE DEF k, o
  <2>6. /\ SubSeq(Tape, 1, k) \in Seq(Numbers)
        /\ Len(SubSeq(Tape, 1, k)) = k
        /\ \A i \in 1 .. k : SubSeq(Tape, 1, k)[i] = Tape[i]
    <3>1. k \in Int /\ 1 \in Int /\ k >= 0
      BY <2>3 DEF k
    <3>2. /\ SubSeq(Tape, 1, k) \in Seq(Numbers)
          /\ Len(SubSeq(Tape, 1, k)) = IF 1 <= k THEN k - 1 + 1 ELSE 0
          /\ \A i \in 1 .. k - 1 + 1 : SubSeq(Tape, 1, k)[i] = Tape[1 + i - 1]
      BY <2>5, <3>1, SubSeqProperties
    <3> QED
      BY <3>1, <3>2
  <2>7. o = SubSeq(Tape, 1, k)
    BY <2>2, <2>3, <2>6, SeqEqual DEF k, o
  <2> QED
    BY <2>2, <2>7 DEF k, o
<1> QED
  BY <1>1, Invariant, PTL

(* diag.gaps only counts jumps of the sampler's own numbers: what a        *)
(* download kept out is none (skip_gap_).                                  *)
THEOREM GapsAreTheSamplers == Spec => GapsAreReal
<1>1. IInv /\ [Next]_vars => Real
  BY Inductive
<1> QED
  BY <1>1, Invariant, PTL DEF Spec, GapsAreReal, Real

-----------------------------------------------------------------------------
(* The numbers of the ring: a cell read again from a later number.         *)

(* Division with a rest, and the rest alone. *)
LEMMA Divided ==
  ASSUME NEW a \in Int, NEW m \in Nat \ {0}
  PROVE  /\ a % m \in 0 .. m - 1
         /\ \E q \in Int : a = m * q + (a % m)
<1>1. a = m * (a \div m) + (a % m) /\ (a \div m) \in Int /\ a % m \in 0 .. m - 1
  OBVIOUS
<1> QED
  BY <1>1

LEMMA Rest ==
  ASSUME NEW m \in Nat \ {0}, NEW a \in Int, NEW q \in Int, NEW r \in 0 .. m - 1, a = m * q + r
  PROVE  a % m = r
OBVIOUS

LEMMA Shift ==
  ASSUME NEW m \in Nat \ {0}, NEW a \in Int, NEW q \in Int
  PROVE  (a + m * q) % m = a % m
<1>1. PICK x \in Int : a = m * x + (a % m)
  BY Divided
<1> DEFINE r == a % m
<1>2. a = m * x + r /\ r \in 0 .. m - 1
  BY <1>1, Divided
<1> HIDE DEF r
<1>3. a + m * q = m * (x + q) + r
  BY <1>2
<1>4. a + m * q \in Int /\ x + q \in Int
  OBVIOUS
<1>5. (a + m * q) % m = r
  BY <1>2, <1>3, <1>4, Rest
<1> QED
  BY <1>5 DEF r

(* A rest can be taken before something is added. *)
LEMMA RestFirst ==
  ASSUME NEW m \in Nat \ {0}, NEW a \in Int, NEW b \in Int
  PROVE  ((a % m) + b) % m = (a + b) % m
<1>1. PICK x \in Int : a = m * x + (a % m)
  BY Divided
<1> DEFINE r == a % m
<1>2. a = m * x + r /\ r \in Int
  BY <1>1, Divided
<1> HIDE DEF r
<1>3. a + b = (r + b) + m * x /\ r + b \in Int
  BY <1>2
<1>4. ((r + b) + m * x) % m = (r + b) % m
  BY <1>3, Shift
<1> QED
  BY <1>3, <1>4 DEF r

(* Numbers with the same rest that are less than a turn apart are equal.   *)
LEMMA SameRest ==
  ASSUME NEW m \in Nat \ {0}, NEW a \in Int, NEW b \in Int, a <= b, b < a + m, a % m = b % m
  PROVE  a = b
<1>1. PICK x \in Int : a = m * x + (a % m)
  BY Divided
<1> DEFINE r == a % m
<1>2. a = m * x + r /\ r \in Int
  BY <1>1, Divided
<1>3. r = b % m
  OBVIOUS
<1> HIDE DEF r
<1>4. b - a \in 0 .. m - 1
  OBVIOUS
<1>5. (b - a) % m = b - a
  <2>1. b - a = m * 0 + (b - a)
    OBVIOUS
  <2> QED
    BY <1>4, <2>1, Rest
<1>6. (b - a) % m = 0
  <2>1. PICK y \in Int : b = m * y + (b % m)
    BY Divided
  <2>2. b = m * y + r
    BY <1>3, <2>1
  <2>3. b - a = m * (y - x) + 0
    BY <1>2, <2>2
  <2>4. b - a \in Int /\ y - x \in Int /\ 0 \in 0 .. m - 1
    OBVIOUS
  <2> QED
    BY <2>3, <2>4, Rest
<1> QED
  BY <1>5, <1>6

(* seq is d ahead of new, some whole turns of m apart. *)
AheadBy(seq, new, d, m, q) == seq = new + m * q + d
Multiple(m, l, p) == m = l * p

(* How far back of new a number with the bits lo is. *)
Behind(new, lo, l) == ((new % l) - lo) % l
Back(new, lo) == Behind(new, lo, Lo)

(* The rest of a cell: with the bits lo in it, D behind new, and with seq  *)
(* another d ahead of new, it is d + D behind seq.                         *)
LEMMA LowBits ==
  ASSUME NEW l \in Nat \ {0}, NEW p \in Int, NEW q \in Int, NEW new \in Int, NEW lo \in Int,
         NEW d \in Nat, NEW D \in Nat, d + D < l, D = Behind(new, lo, l),
         NEW m \in Int, Multiple(m, l, p), NEW seq \in Int, AheadBy(seq, new, d, m, q)
  PROVE  Behind(seq, lo, l) = d + D
<1> DEFINE nl == new % l
           sl == seq % l
<1>1. (l * p) * q = l * (p * q) /\ p * q \in Int
  OBVIOUS
<1>2. seq = new + l * (p * q) + d
  BY <1>1 DEF AheadBy, Multiple
<1> DEFINE pq == p * q
<1> HIDE DEF pq
<1>3. seq = new + l * pq + d /\ pq \in Int /\ seq \in Int
  BY <1>1, <1>2 DEF pq
<1>4. PICK a \in Int : new = l * a + (new % l)
  BY Divided, Zenon
<1>5. PICK b \in Int : seq = l * b + (seq % l)
  BY <1>3, Divided, Zenon
<1>6. nl \in Int /\ sl \in Int /\ new = l * a + nl /\ seq = l * b + sl
  BY <1>3, <1>4, <1>5, Remainder
<1>7. PICK e \in Int : nl - lo = l * e + ((nl - lo) % l)
  <2>1. nl - lo \in Int
    BY <1>6
  <2> QED
    BY <2>1, Divided, Zenon
<1>8. nl - lo = l * e + D
  BY <1>7 DEF Behind
<1> HIDE DEF nl, sl
<1>9. sl - lo = l * (e + a + pq - b) + (d + D)
  <2>1. l * (e + a + pq - b) = l * e + l * a + l * pq - l * b
    BY <1>3
  <2> DEFINE le == l * e
             la == l * a
             lq == l * pq
             lb == l * b
  <2>2. /\ le \in Int /\ la \in Int /\ lq \in Int /\ lb \in Int
        /\ nl \in Int /\ sl \in Int /\ seq \in Int
    BY <1>3, <1>6
  <2>3. nl - lo = le + D /\ new = la + nl /\ seq = lb + sl /\ seq = new + lq + d
    BY <1>3, <1>6, <1>8
  <2> HIDE DEF le, la, lq, lb
  <2>4. sl - lo = le + la + lq - lb + (d + D)
    BY <2>2, <2>3
  <2> QED
    BY <2>1, <2>4 DEF le, la, lq, lb
<1>10. sl - lo \in Int /\ e + a + pq - b \in Int /\ d + D \in 0 .. l - 1
  BY <1>3, <1>6
<1>11. (sl - lo) % l = d + D
  BY <1>9, <1>10, Rest, Zenon
<1> QED
  BY <1>11 DEF sl, Behind

LEMMA FullNumber ==
  ASSUME NEW m \in Nat \ {0}, NEW q \in Int, NEW new \in Int, NEW d \in Nat, NEW D \in Nat,
         NEW seq \in Int, AheadBy(seq, new, d, m, q)
  PROVE  /\ (seq - (d + D)) % m = (new - D) % m
         /\ d + D < m => (seq - ((new - D) % m)) % m = d + D
<1>1. (seq - (d + D)) % m = (new - D) % m
  <2>1. seq - (d + D) = (new - D) + m * q /\ new - D \in Int
    BY DEF AheadBy
  <2>2. ((new - D) + m * q) % m = (new - D) % m
    BY <2>1, Shift, Zenon
  <2> QED
    BY <2>1, <2>2, Zenon
<1>2. ASSUME d + D < m
      PROVE  (seq - ((new - D) % m)) % m = d + D
  <2>1. new - D \in Int
    OBVIOUS
  <2>2. PICK x \in Int : new - D = m * x + ((new - D) % m)
    BY <2>1, Divided, Zenon
  <2> DEFINE t == (new - D) % m
  <2>3. new - D = m * x + t /\ t \in Int
    BY <2>1, <2>2, Remainder
  <2> HIDE DEF t
  <2>4. seq - t = m * (q + x) + (d + D)
    BY <2>3 DEF AheadBy
  <2>5. seq - t \in Int /\ q + x \in Int /\ d + D \in 0 .. m - 1
    BY <1>2, <2>3
  <2>6. (seq - t) % m = d + D
    BY <2>4, <2>5, Rest, Zenon
  <2> QED
    BY <2>6 DEF t
<1> QED
  BY <1>1, <1>2

(* A cell D behind new: read from a seq that is d ahead of new it is d + D *)
(* behind and the same number, if d + D is in the window.                  *)
LEMMA ReadAgain ==
  ASSUME NEW new \in Numbers, NEW seq \in Numbers, NEW lo \in 0 .. Lo - 1, NEW d,
         d = (seq - new) % M
  PROVE  /\ Back(new, lo) \in 0 .. Window /\ d \in Numbers
         /\ expandSeq(new, lo) = (new - Back(new, lo)) % M
         /\ d + Back(new, lo) <= Window =>
              /\ Back(seq, lo) = d + Back(new, lo)
              /\ expandSeq(seq, lo) = expandSeq(new, lo)
         /\ d + Back(new, lo) < M => (seq - expandSeq(new, lo)) % M = d + Back(new, lo)
<1>1. new \in Int /\ seq \in Int /\ lo \in Int /\ M \in Nat \ {0} /\ M \in Int
      /\ Lo \in Nat \ {0}
  BY Constants DEF Numbers
<1>2. seq - new \in Int
  BY <1>1
<1>3. d \in Numbers /\ d \in Nat
  BY <1>1, <1>2, Remainder DEF Numbers
<1>4. PICK q \in Int : seq - new = M * q + ((seq - new) % M)
  BY <1>1, <1>2, Divided, Zenon
<1>5. seq - new = M * q + d
  BY <1>4
<1>6. AheadBy(seq, new, d, M, q)
  <2> DEFINE Mq == M * q
  <2>1. Mq \in Int /\ seq - new = Mq + d
    BY <1>1, <1>5
  <2> HIDE DEF Mq
  <2>2. seq = new + Mq + d
    BY <1>1, <1>3, <2>1
  <2> QED
    BY <2>2 DEF Mq, AheadBy
<1>7. PICK p \in Int : Multiple(M, Lo, p)
  <2>1. PICK p \in Int : M = Lo * p + (M % Lo)
    BY <1>1, Divided, Zenon
  <2>2. M % Lo = 0
    BY RingAssumption
  <2>3. M = Lo * p
    BY <1>1, <2>1, <2>2
  <2> QED
    BY <2>3 DEF Multiple
<1> DEFINE D == Back(new, lo)
<1>8. D \in 0 .. Window /\ D \in Nat
  <2>1. (new % Lo) - lo \in Int
    BY <1>1, Remainder
  <2>2. ((new % Lo) - lo) % Lo \in 0 .. Lo - 1
    BY <1>1, <2>1, Remainder
  <2> QED
    BY <1>1, <2>2 DEF Back, Behind, Window
<1>9. expandSeq(new, lo) = (new - D) % M
  BY DEF expandSeq, Back, Behind
<1>10. D = Behind(new, lo, Lo)
  BY DEF Back
<1> HIDE DEF D
<1>11. ASSUME d + D < Lo
       PROVE  Back(seq, lo) = d + D
  <2>1. d \in Nat /\ D \in Nat
    BY <1>3, <1>8
  <2>2. Behind(seq, lo, Lo) = d + D
    BY <1>1, <1>6, <1>7, <1>10, <1>11, <2>1, LowBits, SMTT(30)
  <2> QED
    BY <2>2 DEF Back
<1>12. /\ (seq - (d + D)) % M = (new - D) % M
       /\ d + D < M => (seq - ((new - D) % M)) % M = d + D
  BY <1>1, <1>3, <1>6, <1>8, FullNumber
<1>13. ASSUME d + D <= Window
       PROVE  Back(seq, lo) = d + D /\ expandSeq(seq, lo) = (new - D) % M
  <2>1. d + D < Lo
    BY <1>1, <1>3, <1>8, <1>13 DEF Window
  <2>2. Back(seq, lo) = d + D
    BY <1>11, <2>1
  <2>3. expandSeq(seq, lo) = (seq - Back(seq, lo)) % M
    BY DEF expandSeq, Back, Behind
  <2> QED
    BY <1>12, <2>2, <2>3
<1> QED
  BY <1>3, <1>8, <1>9, <1>12, <1>13 DEF D

-----------------------------------------------------------------------------
(* The rows of the recording. *)
Cell(i) == buf[Index(i - 1)]
Distance(i) == Back(newest, Cell(i))

Again(seq) ==
  LET d == (seq - newest) % M IN count > 0 /\ d # 1 /\ (d = 0 \/ d > Half - 1)
Old(seq) == IF Again(seq) THEN 0 ELSE count
Dropped(seq) == OutOfWindow(Old(seq), seq)
Gone(seq) == IF Old(seq) - Dropped(seq) = Cap THEN Dropped(seq) + 1 ELSE Dropped(seq)

(* Counting on in the ring. *)
Slot(x, i) == (x + i) % Cap

LEMMA CountOn ==
  ASSUME NEW x \in Int, NEW i \in Int, NEW j \in Int
  PROVE  /\ Slot(x, i) \in 0 .. Cap - 1
         /\ i < j /\ j < i + Cap => Slot(x, i) # Slot(x, j)
<1>1. Cap \in Nat \ {0} /\ x + i \in Int /\ x + j \in Int
  BY Constants
<1>2. ASSUME i < j, j < i + Cap, (x + i) % Cap = (x + j) % Cap
      PROVE  FALSE
  <2> DEFINE a == x + i
             b == x + j
  <2>1. a \in Int /\ b \in Int /\ a <= b /\ b < a + Cap /\ a # b
    BY <1>1, <1>2
  <2>2. a % Cap = b % Cap
    BY <1>2
  <2> HIDE DEF a, b
  <2> QED
    BY <1>1, <2>1, <2>2, SameRest
<1>3. (x + i) % Cap \in 0 .. Cap - 1
  BY <1>1, Remainder
<1> QED
  BY <1>2, <1>3 DEF Slot

LEMMA CountTwice ==
  ASSUME NEW x \in Int, NEW i \in Int, NEW j \in Int
  PROVE  Slot(Slot(x, i), j) = Slot(x, i + j)
<1>1. Cap \in Nat \ {0} /\ x + i \in Int
  BY Constants
<1>2. (((x + i) % Cap) + j) % Cap = ((x + i) + j) % Cap
  BY <1>1, RestFirst
<1>3. (x + i) + j = x + (i + j)
  OBVIOUS
<1> QED
  BY <1>2, <1>3, Zenon DEF Slot

LEMMA OldIs ==
  ASSUME Shaped, NEW seq \in Numbers
  PROVE  /\ Old(seq) \in 0 .. count /\ (Old(seq) > 0 => Old(seq) = count)
         /\ Dropped(seq) \in 0 .. Old(seq) /\ Gone(seq) \in 0 .. Old(seq)
         /\ Old(seq) - Gone(seq) \in 0 .. Cap - 1
         /\ Gone(seq) # Dropped(seq) => Old(seq) - Gone(seq) = Cap - 1 /\ Gone(seq) = Dropped(seq) + 1
<1>1. Old(seq) \in 0 .. count /\ (Old(seq) > 0 => Old(seq) = count) /\ count \in 0 .. Cap
  BY Constants DEF Old, Shaped
<1>2. Old(seq) \in Nat
  BY <1>1, Constants
<1>3. Dropped(seq) \in 0 .. Old(seq)
  BY <1>2, DropIs DEF Dropped
<1> QED
  BY <1>1, <1>2, <1>3, Constants DEF Gone

(* What a push makes of the cells: the oldest rows go, one more if the     *)
(* ring is full, and the new sample comes last.                            *)
LEMMA Rows ==
  ASSUME Shaped, NEW seq \in Numbers, Store(seq)
  PROVE  /\ newest' = seq /\ count' = Old(seq) - Gone(seq) + 1
         /\ \A i \in 1 .. Old(seq) - Gone(seq) : Cell(i)' = Cell(Gone(seq) + i)
         /\ \A i : i = Old(seq) - Gone(seq) + 1 => Cell(i)' = seq % Lo
<1> DEFINE n == Old(seq)
           drop == Dropped(seq)
           gone == Gone(seq)
           first == IF Again(seq) THEN 0 ELSE start
           base == Slot(first, drop)
           left == n - drop
<1>1. /\ buf' = [buf EXCEPT ![Slot(base, left)] = seq % Lo]
      /\ start' = IF left = Cap THEN NextIndex(base) ELSE base
      /\ count' = IF left = Cap THEN Cap ELSE left + 1
      /\ newest' = seq
  BY Zenon DEF Store, Again, Old, Dropped, Slot
<1>2. /\ n \in 0 .. count /\ (n > 0 => n = count) /\ drop \in 0 .. n /\ gone \in 0 .. n
      /\ n - gone \in 0 .. Cap - 1 /\ count \in 0 .. Cap /\ Cap \in Nat \ {0}
      /\ first \in 0 .. Cap - 1 /\ (n > 0 => first = start) /\ start \in 0 .. Cap - 1
  BY OldIs, Constants DEF Shaped, Old
<1>3. gone = IF left = Cap THEN drop + 1 ELSE drop
  BY DEF Gone
<1> HIDE DEF n, drop, gone, first
<1>4. left \in 0 .. Cap /\ count' = n - gone + 1
  BY <1>1, <1>2, <1>3
<1>5. base \in 0 .. Cap - 1
  BY <1>2, CountOn
<1>6. start' = Slot(first, gone)
  <2>1. CASE left = Cap
    <3>1. start' = NextIndex(base) /\ gone = drop + 1
      BY <1>1, <1>3, <2>1
    <3>2. NextIndex(base) = Slot(base, 1)
      <4> HIDE DEF base
      <4>1. CASE base + 1 < Cap
        <5>1. base + 1 = Cap * 0 + (base + 1) /\ base + 1 \in 0 .. Cap - 1 /\ base + 1 \in Int
          BY <1>2, <1>5, <4>1
        <5>2. (base + 1) % Cap = base + 1
          BY <1>2, <5>1
        <5> QED
          BY <4>1, <5>2 DEF NextIndex, Slot
      <4>2. CASE base + 1 = Cap
        <5>1. Cap % Cap = 0 /\ ~(base + 1 < Cap)
          BY <1>2, <4>2
        <5> QED
          BY <4>2, <5>1 DEF NextIndex, Slot
      <4> QED
        BY <1>2, <1>5, <4>1, <4>2
    <3>3. Slot(Slot(first, drop), 1) = Slot(first, drop + 1)
      BY <1>2, CountTwice
    <3> QED
      BY <3>1, <3>2, <3>3, Zenon
  <2>2. CASE left # Cap
    BY <1>1, <1>3, <2>2
  <2> QED
    BY <2>1, <2>2
(* Where the rows are, and where the new one goes.                         *)
<1>7. Slot(base, left) = Slot(first, n)
  <2>1. Slot(Slot(first, drop), left) = Slot(first, drop + left)
    BY <1>2, <1>4, CountTwice
  <2>2. drop + left = n
    BY <1>2
  <2> QED
    BY <2>1, <2>2, Zenon
<1>8. ASSUME NEW i \in Int
      PROVE  Cell(i)' = buf'[Slot(first, gone + (i - 1))]
  <2>1. Cell(i)' = buf'[Slot(start', i - 1)] /\ i - 1 \in Int
    BY DEF Cell, Index, Slot
  <2>2. Slot(Slot(first, gone), i - 1) = Slot(first, gone + (i - 1))
    BY <1>2, <2>1, CountTwice
  <2> QED
    BY <1>6, <2>1, <2>2, Zenon
<1> HIDE DEF left, base
<1>9. ASSUME NEW i, i = n - gone + 1
      PROVE  Cell(i)' = seq % Lo
  <2>1. i \in Int /\ gone + (i - 1) = n
    BY <1>2, <1>9
  <2>2. Slot(first, n) \in 0 .. Cap - 1
    BY <1>2, CountOn
  <2>3. Cell(i)' = buf'[Slot(first, n)]
    BY <1>8, <2>1
  <2> QED
    BY <1>1, <1>7, <2>2, <2>3 DEF Shaped
<1>10. ASSUME NEW i \in 1 .. n - gone
       PROVE  Cell(i)' = Cell(gone + i)
  <2> DEFINE a == gone + (i - 1)
  <2>1. /\ i \in Int /\ a \in Int /\ a < n /\ n < a + Cap /\ first = start
        /\ a = (gone + i) - 1
    BY <1>2
  <2>2. Cell(i)' = buf'[Slot(first, a)]
    BY <1>8, <2>1
  <2>3. Cell(gone + i) = buf[Slot(start, a)]
    BY <2>1 DEF Cell, Index, Slot
  <2> HIDE DEF a
  <2>4. Slot(first, a) \in 0 .. Cap - 1 /\ Slot(first, a) # Slot(first, n)
    <3>1. first \in Int /\ n \in Int /\ a \in Int /\ a < n /\ n < a + Cap
      BY <1>2, <2>1
    <3> QED
      BY <3>1, CountOn
  <2>5. buf'[Slot(first, a)] = buf[Slot(first, a)]
    BY <1>1, <1>7, <2>4 DEF Shaped
  <2>6. first = start
    BY <2>1
  <2> QED
    BY <2>2, <2>3, <2>5, <2>6, Zenon
<1> QED
  BY <1>1, <1>4, <1>9, <1>10 DEF n, gone

(* The rows are in order: each is further behind the newest than the next. *)
Ordered ==
  count > 0 => /\ Distance(count) = 0
               /\ \A i, j \in 1 .. count : i < j => Distance(i) > Distance(j)

LEMMA TapeIs ==
  ASSUME Shaped
  PROVE  /\ Tape \in Seq(Numbers) /\ Len(Tape) = count
         /\ \A i \in 1 .. count : /\ Cell(i) \in 0 .. Lo - 1
                                  /\ Tape[i] = expandSeq(newest, Cell(i))
                                  /\ Tape[i] \in Numbers
<1>1. count \in Nat /\ newest \in Int
  BY Constants DEF Shaped, Numbers
<1>2. \A i \in 1 .. count : Tape[i] = expandSeq(newest, Cell(i))
  BY DEF Tape, Cell
<1>3. ASSUME NEW i \in 1 .. count
      PROVE  Cell(i) \in 0 .. Lo - 1 /\ expandSeq(newest, Cell(i)) \in Numbers
  <2>1. i - 1 \in Int
    OBVIOUS
  <2>2. Index(i - 1) \in 0 .. Cap - 1
    BY <2>1, Constants, Remainder DEF Index, Shaped
  <2> QED
    BY <1>1, <2>1, <2>2, RowNumber DEF Cell, Shaped
<1>4. Tape \in [1 .. count -> Numbers]
  <2>1. Tape = [i \in 1 .. count |-> expandSeq(newest, Cell(i))]
    BY DEF Tape, Cell
  <2> QED
    BY <1>3, <2>1
<1>5. Tape \in Seq(Numbers) /\ Len(Tape) = count
  <2> HIDE DEF Tape
  <2> QED
    BY <1>1, <1>4
<1> QED
  BY <1>2, <1>3, <1>5

(* Where a row stands, seen from the newest and from the next sample.      *)
LEMMA Placed ==
  ASSUME Shaped, NEW seq \in Numbers, NEW i \in 1 .. count, NEW d, d = (seq - newest) % M
  PROVE  /\ Distance(i) \in 0 .. Window /\ d \in Numbers
         /\ Tape[i] = (newest - Distance(i)) % M
         /\ d + Distance(i) <= Window =>
              /\ Back(seq, Cell(i)) = d + Distance(i)
              /\ expandSeq(seq, Cell(i)) = Tape[i]
         /\ d + Distance(i) < M =>
              (seq - Tape[i]) % M = d + Distance(i)
<1>1. Cell(i) \in 0 .. Lo - 1 /\ Tape[i] = expandSeq(newest, Cell(i)) /\ newest \in Numbers
  BY TapeIs DEF Shaped
<1> HIDE DEF Shaped
<1> QED
  BY <1>1, ReadAgain DEF Distance

LEMMA LastIs ==
  ASSUME Shaped, Ordered, count > 0
  PROVE  Tape[count] = newest
<1>1. count \in 1 .. count /\ newest \in Numbers /\ newest \in Int
  BY Constants DEF Shaped, Numbers
<1>2. Distance(count) = 0
  BY DEF Ordered
<1>3. Tape[count] = (newest - Distance(count)) % M
  BY <1>1, Placed
<1>4. newest % M = newest
  <2>1. newest = M * 0 + newest /\ newest \in 0 .. M - 1
    <3>1. M \in Int /\ M * 0 = 0
      BY Constants
    <3> QED
      BY <1>1, <3>1 DEF Numbers
  <2> QED
    BY <1>1, <2>1, Constants, Rest
<1> QED
  BY <1>1, <1>2, <1>3, <1>4

(* A source that goes on is less than half a turn ahead.                   *)
LEMMA GoesOn ==
  ASSUME Shaped, NEW seq \in Numbers, count > 0, ~Again(seq)
  PROVE  /\ (seq - newest) % M \in 1 .. Half - 1
         /\ \A D \in 0 .. Window : ((seq - newest) % M) + D < M
<1> DEFINE d == (seq - newest) % M
<1>1. seq - newest \in Int /\ M \in Nat \ {0}
  BY Constants DEF Shaped, Numbers
<1>2. d \in 0 .. M - 1
  BY <1>1, Remainder
<1>3. d = 1 \/ ~(d = 0 \/ d > Half - 1)
  BY DEF Again
<1> HIDE DEF d
<1>4. Half \in Nat /\ 2 * Half <= M /\ Half >= Lo /\ Half >= 2 /\ Lo \in Nat
  BY RingAssumption DEF RingAssumption, Half
<1>5. d \in 1 .. Half - 1
  BY <1>2, <1>3, <1>4
<1>6. \A D \in 0 .. Window : d + D < M
  BY <1>1, <1>4, <1>5 DEF Window
<1> QED
  BY <1>5, <1>6 DEF d

(* Which rows go and which stay, when the source goes on.                  *)
LEMMA Kept ==
  ASSUME Shaped, Ordered, NEW seq \in Numbers, count > 0, ~Again(seq), NEW d,
         d = (seq - newest) % M
  PROVE  /\ \A i \in 1 .. Dropped(seq) : (seq - Tape[i]) % M > Window
         /\ \A i \in Dropped(seq) + 1 .. count : d + Distance(i) <= Window
<1>1. /\ d \in 1 .. Half - 1 /\ d \in Nat
      /\ \A D \in 0 .. Window : d + D < M
  BY GoesOn
<1>2. \A i \in 1 .. count : /\ Distance(i) \in 0 .. Window /\ Distance(i) \in Nat
                            /\ (seq - Tape[i]) % M = d + Distance(i)
  <2> SUFFICES ASSUME NEW i \in 1 .. count
               PROVE  /\ Distance(i) \in 0 .. Window /\ Distance(i) \in Nat
                      /\ (seq - Tape[i]) % M = d + Distance(i)
    OBVIOUS
  <2>1. /\ Distance(i) \in 0 .. Window
        /\ d + Distance(i) < M => (seq - Tape[i]) % M = d + Distance(i)
    BY Placed
  <2> QED
    BY <1>1, <2>1
<1>3. Window \in Int /\ count \in Nat
  BY Constants DEF Window, Shaped
<1>4. \A i \in 1 .. count : InWindow(seq, i - 1) <=> d + Distance(i) <= Window
  <2> SUFFICES ASSUME NEW i \in 1 .. count
               PROVE  InWindow(seq, i - 1) <=> d + Distance(i) <= Window
    OBVIOUS
  <2>1. Tape[i] = expandSeq(newest, buf[Index(i - 1)])
    BY DEF Tape
  <2> QED
    BY <1>2, <2>1 DEF InWindow
<1> DEFINE drop == Dropped(seq)
<1>5. /\ drop \in 0 .. count
      /\ \A k \in 0 .. drop - 1 : ~InWindow(seq, k)
      /\ drop = count \/ InWindow(seq, drop)
  <2>1. Old(seq) = count
    BY DEF Old
  <2> QED
    BY <1>3, <2>1, DropIs DEF Dropped
<1> HIDE DEF drop
<1>6. ASSUME NEW i \in 1 .. drop
      PROVE  (seq - Tape[i]) % M > Window
  <2>1. i \in 1 .. count /\ i - 1 \in 0 .. drop - 1
    BY <1>3, <1>5
  <2>2. ~(d + Distance(i) <= Window)
    BY <1>4, <1>5, <2>1
  <2> QED
    BY <1>1, <1>2, <1>3, <2>1, <2>2
<1>7. ASSUME NEW i \in drop + 1 .. count
      PROVE  d + Distance(i) <= Window
  <2>1. /\ drop + 1 \in 1 .. count /\ i \in 1 .. count /\ (drop + 1) - 1 = drop /\ drop # count
        /\ (i = drop + 1 \/ drop + 1 < i)
    BY <1>3, <1>5
  <2>2. InWindow(seq, (drop + 1) - 1)
    BY <1>5, <2>1
  <2>3. d + Distance(drop + 1) <= Window
    BY <1>4, <2>1, <2>2
  <2>4. Distance(drop + 1) >= Distance(i)
    BY <1>2, <2>1 DEF Ordered
  <2>5. Distance(i) \in Nat /\ Distance(drop + 1) \in Nat
    BY <1>2, <2>1
  <2> HIDE DEF Distance
  <2> QED
    BY <1>1, <1>3, <2>3, <2>4, <2>5
<1> QED
  BY <1>6, <1>7 DEF drop

(* The new recording, row by row.                                          *)
LEMMA NewRows ==
  ASSUME Shaped, Shaped', Ordered, NEW seq \in Numbers, Store(seq)
  PROVE  /\ Ordered'
         /\ count' = Old(seq) - Gone(seq) + 1
         /\ \A i \in 1 .. Old(seq) - Gone(seq) : Tape'[i] = Tape[Gone(seq) + i]
         /\ \A i : i = count' => Tape'[i] = seq
<1> DEFINE n == Old(seq)
           gone == Gone(seq)
           m == n - gone
<1>1. /\ newest' = seq /\ count' = m + 1
      /\ \A i \in 1 .. m : Cell(i)' = Cell(gone + i)
      /\ \A i : i = m + 1 => Cell(i)' = seq % Lo
  BY Rows
<1>2. /\ n \in 0 .. count /\ (n > 0 => n = count) /\ Dropped(seq) \in 0 .. n /\ gone \in 0 .. n
      /\ (gone = Dropped(seq) \/ gone = Dropped(seq) + 1) /\ count \in Nat
      /\ Lo \in Nat \ {0} /\ M \in Nat \ {0} /\ seq \in Int
  <2>1. /\ n \in 0 .. count /\ (n > 0 => n = count)
        /\ Dropped(seq) \in 0 .. n /\ gone \in 0 .. n
        /\ (gone = Dropped(seq) \/ gone = Dropped(seq) + 1)
    BY OldIs
  <2>2. count \in Nat /\ seq \in Int
    BY Constants DEF Shaped, Numbers
  <2> QED
    BY <2>1, <2>2, Constants
<1>3. n > 0 => ~Again(seq) /\ count > 0
  BY <1>2 DEF Old
<1> HIDE DEF n, gone
<1> DEFINE d == (seq - newest) % M
(* The last row is the new sample.                                         *)
<1>4. Back(seq, seq % Lo) = 0 /\ expandSeq(seq, seq % Lo) = seq
  <2>1. seq % Lo \in Int
    BY <1>2, Remainder
  <2>2. (seq % Lo) - (seq % Lo) = 0
    BY <2>1
  <2>3. 0 % Lo = 0
    BY <1>2
  <2>4. seq % M = seq
    <3>1. seq = M * 0 + seq /\ seq \in 0 .. M - 1
      BY <1>2 DEF Numbers
    <3> QED
      BY <1>2, <3>1, Rest
  <2>5. ((seq % Lo) - (seq % Lo)) % Lo = 0
    BY <2>2, <2>3
  <2>6. seq - 0 = seq
    BY <1>2
  <2> QED
    BY <2>4, <2>5, <2>6 DEF Back, Behind, expandSeq
<1>5. ASSUME NEW i, i = m + 1
      PROVE  Distance(i)' = 0 /\ Tape'[i] = seq
  <2>1. Cell(i)' = seq % Lo /\ i \in 1 .. count'
    BY <1>1, <1>2, <1>5
  <2>2. Tape'[i] = expandSeq(newest, Cell(i))'
    BY <2>1 DEF Tape, Cell
  <2>3. expandSeq(newest, Cell(i))' = expandSeq(newest', Cell(i)')
    BY DEF expandSeq
  <2>4. Distance(i)' = Back(newest', Cell(i)')
    BY DEF Distance, Back, Behind
  <2> QED
    BY <1>1, <1>4, <2>1, <2>2, <2>3, <2>4
(* The others keep their numbers and are d further behind.                 *)
<1>6. ASSUME NEW i \in 1 .. m
      PROVE  /\ Distance(i)' = d + Distance(gone + i) /\ Tape'[i] = Tape[gone + i]
             /\ Distance(gone + i) \in Nat /\ d \in Nat /\ d >= 1
  <2>1. n > 0 /\ gone + i \in 1 .. count /\ gone + i \in Dropped(seq) + 1 .. count /\ i \in 1 .. count'
    BY <1>1, <1>2
  <2>2. ~Again(seq) /\ count > 0
    BY <1>3, <2>1
  <2>3. d + Distance(gone + i) <= Window
    BY <2>1, <2>2, Kept
  <2>4. /\ Distance(gone + i) \in 0 .. Window
        /\ Back(seq, Cell(gone + i)) = d + Distance(gone + i)
        /\ expandSeq(seq, Cell(gone + i)) = Tape[gone + i]
    BY <2>1, <2>3, Placed
  <2>5. d \in 1 .. Half - 1
    BY <2>2, GoesOn
  <2>6. Tape'[i] = expandSeq(newest, Cell(i))'
    BY <2>1 DEF Tape, Cell
  <2>7. /\ expandSeq(newest, Cell(i))' = expandSeq(newest', Cell(i)')
        /\ Distance(i)' = Back(newest', Cell(i)')
    BY DEF expandSeq, Distance, Back, Behind
  <2> QED
    BY <1>1, <2>4, <2>5, <2>6, <2>7
<1>7. Ordered'
  <2> SUFFICES ASSUME NEW i \in 1 .. m + 1, NEW j \in 1 .. m + 1, i < j
               PROVE  Distance(i)' > Distance(j)'
    BY <1>1, <1>5 DEF Ordered
  <2>1. i \in 1 .. m
    BY <1>2
  <2>2. CASE j = m + 1
    BY <1>5, <1>6, <2>1, <2>2
  <2>3. CASE j # m + 1
    <3>1. j \in 1 .. m
      BY <1>2, <2>3
    <3>2. n > 0 /\ gone + i \in 1 .. count /\ gone + j \in 1 .. count /\ gone + i < gone + j
      BY <1>2, <2>1, <3>1
    <3>3. Distance(gone + i) > Distance(gone + j)
      BY <1>3, <3>2 DEF Ordered
    <3> HIDE DEF d
    <3> QED
      BY <1>6, <2>1, <3>1, <3>3
  <2> QED
    BY <2>2, <2>3
<1> QED
  BY <1>1, <1>5, <1>6, <1>7 DEF n, gone

-----------------------------------------------------------------------------
LEMMA TapeLength == Shaped => Tape \in Seq(Numbers) /\ Len(Tape) = count
BY TapeIs

LEMMA NextLength == Shaped' => (Tape \in Seq(Numbers) /\ Len(Tape) = count)'
BY TapeLength, PTL

(* What a sample does to the recording is what is promised: the oldest     *)
(* rows go, for being out of the window or for want of room, and no other. *)
LEMMA RecordStep ==
  ASSUME Shaped, Shaped', Ordered, NEW seq \in Numbers, Store(seq),
         Holders = {}, Holders' = {}
  PROVE  Promise!Record(seq)
<1> DEFINE n == Old(seq)
           gone == Gone(seq)
           before == Promise!Before(seq)
           after == Append(SubSeq(before, gone + 1, Len(before)), seq)
<1>1. /\ Tape \in Seq(Numbers) /\ Len(Tape) = count
      /\ \A i \in 1 .. count : Tape[i] \in Numbers
  BY TapeIs
<1>2. Tape' \in Seq(Numbers) /\ Len(Tape') = count'
  BY NextLength
<1>3. /\ n \in 0 .. count /\ (n > 0 => n = count) /\ Dropped(seq) \in 0 .. n /\ gone \in 0 .. n
      /\ n - gone \in 0 .. Cap - 1 /\ count \in Nat /\ Cap \in Nat
      /\ gone # Dropped(seq) => n - gone = Cap - 1 /\ gone = Dropped(seq) + 1
  <2>1. count \in 0 .. Cap /\ Cap \in Nat
    BY Constants DEF Shaped
  <2>2. count \in Nat
    BY <2>1
  <2> HIDE DEF n, gone
  <2> QED
    BY <2>1, <2>2, OldIs, Zenon DEF n, gone
<1>4. /\ count' = n - gone + 1
      /\ \A i \in 1 .. n - gone : Tape'[i] = Tape[gone + i]
      /\ \A i : i = count' => Tape'[i] = seq
  BY NewRows
<1>5. before = IF Again(seq) THEN <<>> ELSE Tape
  <2>1. CASE count = 0
    <3>1. Tape = <<>>
      BY <1>1, <2>1, EmptySeq
    <3> QED
      BY <3>1, <2>1 DEF Promise!Before
  <2>2. CASE count # 0
    <3>1. Tape # <<>> /\ Tape[Len(Tape)] = newest /\ count > 0
      BY <1>1, <1>3, <2>2, LastIs, EmptySeq
    <3>2. Half >= 2 /\ Half \in Int
      BY RingAssumption DEF RingAssumption, Half
    <3>3. (seq - newest) % M = 1 => ~((seq - newest) % M > Half - 1) /\ (seq - newest) % M # 0
      BY <3>2
    <3>4. Promise!StartsAgain(Promise!Ahead(seq, newest)) <=> Again(seq)
      BY <3>1, <3>3 DEF Promise!StartsAgain, Promise!Ahead, Again, Half
    <3> QED
      BY <3>1, <3>4 DEF Promise!Before
  <2> QED
    BY <2>1, <2>2
<1>6. /\ before \in Seq(Numbers) /\ Len(before) = n
      /\ \A i \in 1 .. n : before[i] = Tape[i]
  BY <1>1, <1>3, <1>5, EmptySeq DEF Old
<1>7. n > 0 => ~Again(seq) /\ count > 0 /\ n = count
  BY <1>3 DEF Old
<1> HIDE DEF n, gone, before
<1>8. Tape' = after
  <2> DEFINE rest == SubSeq(before, gone + 1, Len(before))
  <2>1. \A i \in gone + 1 .. Len(before) : before[i] \in Numbers
    BY <1>1, <1>3, <1>6
  <2>2. /\ rest \in Seq(Numbers) /\ Len(rest) = n - gone
        /\ \A i \in 1 .. n - gone : rest[i] = before[gone + i]
    <3>1. gone + 1 \in Int /\ Len(before) \in Int
      BY <1>3, <1>6
    <3>2. /\ rest \in Seq(Numbers)
          /\ Len(rest) = IF gone + 1 <= Len(before) THEN Len(before) - (gone + 1) + 1 ELSE 0
          /\ \A i \in 1 .. Len(before) - (gone + 1) + 1 : rest[i] = before[gone + 1 + i - 1]
      BY <2>1, <3>1, SubSeqProperties
    <3> HIDE DEF rest
    <3> QED
      BY <1>3, <1>6, <3>2
  <2> HIDE DEF rest
  <2>3. /\ Append(rest, seq) \in Seq(Numbers)
        /\ Len(Append(rest, seq)) = Len(rest) + 1
        /\ \A i \in 1 .. Len(rest) : Append(rest, seq)[i] = rest[i]
        /\ Append(rest, seq)[Len(rest) + 1] = seq
    BY <2>2, AppendProperties
  <2>4. \A i \in 1 .. Len(Tape') : Tape'[i] = Append(rest, seq)[i]
    <3> SUFFICES ASSUME NEW i \in 1 .. n - gone + 1
                 PROVE  Tape'[i] = Append(rest, seq)[i]
      BY <1>2, <1>4
    <3>1. CASE i = n - gone + 1
      BY <1>4, <2>2, <2>3, <3>1
    <3>2. CASE i # n - gone + 1
      <4>1. i \in 1 .. n - gone /\ gone + i \in 1 .. n
        BY <1>3, <3>2
      <4> QED
        BY <1>4, <1>6, <2>2, <2>3, <4>1
    <3> QED
      BY <3>1, <3>2
  <2>5. Tape' = Append(rest, seq)
    BY <1>2, <1>4, <2>2, <2>3, <2>4, SeqEqual
  <2> QED
    BY <2>5 DEF rest
<1>9. Len(Tape') <= Cap
  BY <1>2, <1>3, <1>4
<1>10. ASSUME NEW i \in gone + 1 .. n
       PROVE  Promise!Ahead(seq, before[i]) <= Window
  <2>1. n > 0 /\ i \in 1 .. count /\ i \in Dropped(seq) + 1 .. count /\ before[i] = Tape[i]
    BY <1>3, <1>6
  <2> DEFINE d == (seq - newest) % M
  <2>2. d + Distance(i) <= Window
    BY <1>7, <2>1, Kept
  <2>3. Distance(i) \in 0 .. Window /\ (d + Distance(i) < M => (seq - Tape[i]) % M = d + Distance(i))
    BY <2>1, Placed
  <2>4. d + Distance(i) < M
    BY <1>7, <2>1, <2>3, GoesOn
  <2> QED
    BY <2>1, <2>2, <2>3, <2>4 DEF Promise!Ahead
<1>11. ASSUME NEW i \in 1 .. gone
       PROVE  Promise!Ahead(seq, before[i]) > Window \/ Len(Tape') = Cap
  <2>1. CASE gone = Dropped(seq)
    <3>1. n > 0 /\ i \in 1 .. Dropped(seq) /\ i \in 1 .. n
      BY <1>3, <2>1
    <3> QED
      BY <1>6, <1>7, <3>1, Kept DEF Promise!Ahead
  <2>2. CASE gone # Dropped(seq)
    BY <1>2, <1>3, <1>4, <2>2
  <2> QED
    BY <2>1, <2>2
<1>12. gone \in 0 .. Len(before)
  BY <1>3, <1>6
<1> HIDE DEF after
<1> QED
  BY <1>6, <1>8, <1>9, <1>10, <1>11, <1>12 DEF Promise!Record, after, before, gone

LEMMA SameOrder ==
  ASSUME Ordered, UNCHANGED ringvars
  PROVE  Ordered'
BY DEF Ordered, ringvars, Distance, Back, Behind, Cell, Index

(* Every step of the ring is one of the recording, or none.                *)
LEMMA Implementation ==
  ASSUME IInv, IInv', Ordered, [Next]_vars
  PROVE  Ordered' /\ [Promise!Next]_(Promise!tvars)
<1> USE DEF Promise!tvars
<1>1. ASSUME UNCHANGED ringvars, Holders' = Holders
      PROVE  Ordered' /\ UNCHANGED <<Tape, Holders>>
  BY <1>1, SameTape, SameOrder
<1>2. ASSUME NEW seq \in Numbers, Push(seq)
      PROVE  Ordered' /\ [Promise!Next]_(Promise!tvars)
  <2>1. CASE freeze > 0 /\ UNCHANGED <<ringvars, csv>>
    <3>1. Holders' = Holders
      BY <2>1 DEF Holders
    <3> QED
      BY <1>1, <2>1, <3>1
  <2>2. CASE freeze = 0 /\ Store(seq) /\ csv' = [r \in Readers |-> [csv[r] EXCEPT !.changed = @ \/ csv[r].open]]
    <3>1. \A r \in Readers : ~csv[r].open
      BY <2>2, NobodyReads
    <3>2. ASSUME NEW r \in Readers
          PROVE  ~csv'[r].open
      <4>1. csv[r] \in Download /\ ~csv[r].open
        BY <3>1 DEF IInv, Shaped
      <4>2. csv'[r] = [csv[r] EXCEPT !.changed = @ \/ csv[r].open]
        BY <2>2
      <4> QED
        BY <4>1, <4>2 DEF Download
    <3>3. Holders = {} /\ Holders' = {}
      BY <3>1, <3>2 DEF Holders
    <3>4. Promise!Record(seq) /\ Ordered'
      BY <2>2, <3>3, RecordStep, NewRows DEF IInv
    <3> QED
      BY <3>4 DEF Promise!Next, Numbers
  <2> QED
    BY <1>2, <2>1, <2>2 DEF Push
<1>3. ASSUME NEW r \in Readers, Open(r)
      PROVE  Ordered' /\ [Promise!Next]_(Promise!tvars)
  <2>1. UNCHANGED ringvars /\ r \notin Holders /\ Holders' = Holders \cup {r}
    BY <1>3 DEF Open, Holders, IInv, Shaped, Closed
  <2>2. Tape' = Tape /\ Ordered'
    BY <2>1, SameTape, SameOrder
  <2>3. Promise!Hold(r)
    BY <2>1, <2>2 DEF Promise!Hold
  <2> QED
    BY <2>2, <2>3 DEF Promise!Next
<1>4. ASSUME NEW r \in Readers, Release(r)
      PROVE  Ordered' /\ [Promise!Next]_(Promise!tvars)
  <2>1. UNCHANGED ringvars /\ r \in Holders /\ Holders' = Holders \ {r}
    BY <1>4 DEF Release, Holders, IInv, Shaped, Closed
  <2>2. Tape' = Tape /\ Ordered'
    BY <2>1, SameTape, SameOrder
  <2>3. Promise!LetGo(r)
    BY <2>1, <2>2 DEF Promise!LetGo
  <2> QED
    BY <2>2, <2>3 DEF Promise!Next
<1>5. ASSUME NEW r \in Readers, Chunk(r)
      PROVE  Ordered' /\ [Promise!Next]_(Promise!tvars)
  <2>1. UNCHANGED ringvars /\ csv[r] \in Download
    BY <1>5 DEF Chunk, IInv, Shaped
  <2>2. Aborted(csv[r]).open = csv[r].open /\ WithRow(csv[r], Row(r, csv[r].row)).open = csv[r].open
    BY <2>1 DEF Aborted, WithRow, Download
  <2>3. \A e \in Readers : csv'[e].open = csv[e].open
    BY <1>5, <2>2 DEF Chunk, IInv, Shaped
  <2>4. Holders' = Holders
    BY <2>3 DEF Holders
  <2> QED
    BY <1>1, <2>1, <2>4
<1>6. CASE UNCHANGED vars
  <2>1. UNCHANGED ringvars /\ Holders' = Holders
    BY <1>6 DEF vars, ringvars, Holders
  <2> QED
    BY <1>1, <2>1
<1>7. CASE \E j \in Jumps : Push((last + j) % M)
  <2>1. PICK j \in Jumps : Push((last + j) % M)
    BY <1>7
  <2>2. last + j \in Int
    BY Constants DEF IInv, Shaped, Numbers
  <2>3. (last + j) % M \in Numbers
    BY <2>2, Constants, Remainder DEF Numbers
  <2> QED
    BY <1>2, <2>1, <2>3
<1> QED
  BY <1>3, <1>4, <1>5, <1>6, <1>7 DEF Next, Finish, Disconnect

LEMMA FirstTape == Init => Ordered /\ Promise!Init
<1> SUFFICES ASSUME Init
             PROVE  Ordered /\ Promise!Init
  OBVIOUS
<1>1. Ordered
  BY DEF Init, Ordered
<1>2. Tape = <<>>
  BY AtFirst, TapeIs, EmptySeq DEF IInv, Init
<1>3. Holders = {}
  BY ClosedType DEF Init, Holders
<1> QED
  BY <1>1, <1>2, <1>3 DEF Promise!Init

(* The ring of cells with sixteen bits of every number is the recording    *)
(* of full numbers that it promises: the newest samples, none without a    *)
(* reason left out, and nothing of it changed while somebody holds it      *)
(* (push, clear, at, freeze).                                              *)
THEOREM RingImplementsTape == Spec => Implements
<1>1. Init => IInv /\ Ordered /\ Promise!Init
  BY AtFirst, FirstTape
<1>2. IInv /\ [Next]_vars => IInv'
  BY Inductive
<1>3. IInv /\ IInv' /\ Ordered /\ [Next]_vars => Ordered' /\ [Promise!Next]_(Promise!tvars)
  BY Implementation
<1> QED
  BY <1>1, <1>2, <1>3, PTL DEF Spec, Implements, Promise!Spec
=============================================================================
