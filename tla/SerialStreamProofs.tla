------------------------- MODULE SerialStreamProofs -------------------------
(***************************************************************************)
(* The ring of the serial stream, proved for every size of the ring, every *)
(* width of the counters, every batch, burst and speed of the cable: the   *)
(* samples come out in the order they went in, none is overwritten before  *)
(* it was read, and the line at the end accounts for all of them.          *)
(***************************************************************************)
EXTENDS SerialStream, SequenceTheorems, TLAPS

(* By how much a counter is ahead of another, and the cell it stands for.  *)
Ahead(x, y) == (x - y) % W
Cell(x) == x % RingLen

LEMMA Constants ==
  /\ RingLen \in Nat \ {0} /\ Batch \in Nat \ {0} /\ Speed \in Nat /\ Burst \in Nat \ {0}
  /\ W \in Nat \ {0} /\ RingLen < W /\ Burst * Speed \in Nat
BY StreamAssumption

-----------------------------------------------------------------------------
(* Counters that wrap. *)

LEMMA Divided ==
  ASSUME NEW a \in Int, NEW m \in Nat \ {0}
  PROVE  /\ a % m \in 0 .. m - 1
         /\ \E q \in Int : a = m * q + (a % m)
<1>1. a = m * (a \div m) + (a % m) /\ (a \div m) \in Int /\ a % m \in 0 .. m - 1
  OBVIOUS
<1> QED
  BY <1>1

LEMMA Rest ==
  ASSUME NEW m \in Nat \ {0}, NEW a \in Int, NEW q \in Int, NEW r \in 0 .. m - 1, a = m * q + r
  PROVE  a % m = r
OBVIOUS

LEMMA Shift ==
  ASSUME NEW m \in Nat \ {0}, NEW a \in Int, NEW q \in Int
  PROVE  (a + m * q) % m = a % m
<1>1. PICK x \in Int : a = m * x + (a % m)
  BY Divided
<1> DEFINE r == a % m
<1>2. a = m * x + r /\ r \in 0 .. m - 1
  BY <1>1, Divided
<1> HIDE DEF r
<1>3. a + m * q = m * (x + q) + r
  BY <1>2
<1>4. a + m * q \in Int /\ x + q \in Int
  OBVIOUS
<1>5. (a + m * q) % m = r
  BY <1>2, <1>3, <1>4, Rest
<1> QED
  BY <1>5 DEF r

(* A rest can be taken before something is added. *)
LEMMA RestFirst ==
  ASSUME NEW m \in Nat \ {0}, NEW a \in Int, NEW b \in Int
  PROVE  ((a % m) + b) % m = (a + b) % m
<1>1. PICK x \in Int : a = m * x + (a % m)
  BY Divided
<1> DEFINE r == a % m
<1>2. a = m * x + r /\ r \in Int
  BY <1>1, Divided
<1> HIDE DEF r
<1>3. a + b = (r + b) + m * x /\ r + b \in Int
  BY <1>2
<1>4. ((r + b) + m * x) % m = (r + b) % m
  BY <1>3, Shift
<1> QED
  BY <1>3, <1>4 DEF r

LEMMA Small ==
  ASSUME NEW m \in Nat \ {0}, NEW a \in 0 .. m - 1
  PROVE  a % m = a
<1>1. a = m * 0 + a /\ a \in Int
  OBVIOUS
<1> QED
  BY <1>1, Rest

(* A cell is found from a counter that has wrapped as well: the modulus is *)
(* a multiple of the ring.                                                 *)
LEMMA CellOfWrapped ==
  ASSUME NEW x \in Int, NEW i \in Int
  PROVE  Cell((x % W) + i) = Cell(x + i)
<1>1. PICK a \in Int : x = W * a + (x % W)
  BY Constants, Divided
<1>2. PICK p \in Int : W = RingLen * p + (W % RingLen)
  <2>1. W \in Int /\ RingLen \in Nat \ {0}
    BY Constants
  <2> QED
    BY <2>1, Divided, Zenon
<1>3. W = RingLen * p
  BY <1>2, StreamAssumption
<1> DEFINE r == x % W
<1>4. r \in Int /\ x = W * a + r
  BY <1>1, Constants, Divided
<1> HIDE DEF r
<1>5. (RingLen * p) * a = RingLen * (p * a) /\ p * a \in Int
  BY Constants
<1> DEFINE q == p * a
<1>6. x = RingLen * q + r /\ q \in Int
  BY <1>3, <1>4, <1>5
<1> HIDE DEF q
<1>7. x + i = (r + i) + RingLen * q /\ r + i \in Int
  BY <1>4, <1>6, Constants
<1>8. ((r + i) + RingLen * q) % RingLen = (r + i) % RingLen
  BY <1>6, <1>7, Constants, Shift
<1> QED
  BY <1>7, <1>8 DEF Cell, r

(* Numbers less than a ring apart have different cells. *)
LEMMA CellsApart ==
  ASSUME NEW a \in Int, NEW b \in Int, a < b, b < a + RingLen
  PROVE  Cell(a) # Cell(b)
<1> SUFFICES ASSUME a % RingLen = b % RingLen
             PROVE  FALSE
  BY DEF Cell
<1>1. PICK x \in Int : a = RingLen * x + (a % RingLen)
  BY Constants, Divided
<1>2. PICK y \in Int : b = RingLen * y + (b % RingLen)
  BY Constants, Divided
<1> DEFINE r == a % RingLen
<1>3. a = RingLen * x + r /\ b = RingLen * y + r /\ r \in Int
  BY <1>1, <1>2, Constants, Divided
<1> HIDE DEF r
<1>4. b - a = RingLen * (y - x) + 0 /\ b - a \in Int /\ y - x \in Int /\ 0 \in 0 .. RingLen - 1
  BY <1>3, Constants
<1>5. (b - a) % RingLen = 0
  BY <1>4, Constants, Rest
<1>6. b - a \in 0 .. RingLen - 1
  BY Constants
<1>7. (b - a) % RingLen = b - a
  BY <1>6, Constants, Small
<1> QED
  BY <1>5, <1>7

LEMMA WordIsInt == Word \subseteq Int
BY Constants DEF Word

LEMMA CellType == ASSUME NEW x \in Int PROVE Cell(x) \in Slots
BY Constants, Divided DEF Cell, Slots

LEMMA AheadType ==
  ASSUME NEW x \in Int, NEW y \in Int
  PROVE  Ahead(x, y) \in Word
<1>1. x - y \in Int
  OBVIOUS
<1> QED
  BY <1>1, Constants, Divided DEF Ahead, Word

LEMMA IncType == ASSUME NEW x \in Int PROVE Inc(x) \in Word
<1>1. x + 1 \in Int
  OBVIOUS
<1> QED
  BY <1>1, Constants, Divided DEF Inc, Word

LEMMA AheadOfSelf == ASSUME NEW x \in Int PROVE Ahead(x, x) = 0
<1>1. x - x = 0 /\ 0 \in 0 .. W - 1
  BY Constants
<1> QED
  BY <1>1, Constants, Small DEF Ahead

(* Nothing ahead means the same counter. *)
LEMMA AheadZero ==
  ASSUME NEW x \in Word, NEW y \in Word, x # y
  PROVE  Ahead(x, y) > 0
<1>1. CASE x > y
  <2>1. x - y \in 0 .. W - 1
    BY <1>1, Constants DEF Word
  <2>2. (x - y) % W = x - y
    BY <2>1, Constants, Small
  <2> QED
    BY <1>1, <2>2 DEF Ahead, Word
<1>2. CASE ~(x > y)
  <2>1. /\ x - y = W * (-1) + (x - y + W) /\ x - y + W \in 0 .. W - 1 /\ x - y + W > 0
        /\ x - y \in Int /\ -1 \in Int
    BY <1>2, Constants DEF Word
  <2>2. (x - y) % W = x - y + W
    BY <2>1, Constants, Rest
  <2> QED
    BY <2>1, <2>2 DEF Ahead
<1> QED
  BY <1>1, <1>2

(* A step of the one ahead, and of the one behind. *)
LEMMA AheadInc ==
  ASSUME NEW x \in Word, NEW y \in Word, Ahead(x, y) < W - 1
  PROVE  Ahead(Inc(x), y) = Ahead(x, y) + 1
<1> DEFINE a == Ahead(x, y)
<1>1. x \in Int /\ y \in Int /\ W \in Nat \ {0}
  BY WordIsInt, Constants
<1>2. (((x + 1) % W) + (-y)) % W = ((x + 1) + (-y)) % W
  <2>1. x + 1 \in Int /\ -y \in Int
    BY <1>1
  <2> QED
    BY <1>1, <2>1, RestFirst, Zenon
<1>3. (((x - y) % W) + 1) % W = ((x - y) + 1) % W
  <2>1. x - y \in Int /\ 1 \in Int
    BY <1>1
  <2> QED
    BY <1>1, <2>1, RestFirst, Zenon
<1>4. (a + 1) % W = a + 1
  <2>1. a \in Word
    BY <1>1, AheadType
  <2> HIDE DEF a
  <2>2. a + 1 \in 0 .. W - 1
    BY <1>1, <2>1 DEF a, Word
  <2> QED
    BY <1>1, <2>2, Small
<1>5. (x + 1) + (-y) = (x - y) + 1
  BY <1>1
<1>6. ((x + 1) % W) + (-y) = Inc(x) - y
  <2>1. (x + 1) % W \in Int
    BY <1>1, Divided
  <2> QED
    BY <1>1, <2>1 DEF Inc
<1> QED
  BY <1>2, <1>3, <1>4, <1>5, <1>6 DEF Ahead

LEMMA BehindInc ==
  ASSUME NEW x \in Word, NEW y \in Word, Ahead(x, y) > 0
  PROVE  Ahead(x, Inc(y)) = Ahead(x, y) - 1
<1> DEFINE a == Ahead(x, y)
           s == Inc(y)
<1>1. x \in Int /\ y \in Int /\ y + 1 \in Int /\ x - y \in Int /\ W \in Nat \ {0}
  BY WordIsInt, Constants
<1>2. PICK q \in Int : y + 1 = W * q + ((y + 1) % W)
  BY <1>1, Divided, Zenon
<1>3. y + 1 = W * q + s /\ s \in Int
  BY <1>1, <1>2, IncType, WordIsInt DEF Inc
<1>4. (((x - y) % W) + (-1)) % W = ((x - y) + (-1)) % W
  <2>1. -1 \in Int
    OBVIOUS
  <2> QED
    BY <1>1, <2>1, RestFirst, Zenon
<1>5. (a + (-1)) % W = a - 1
  <2>1. a \in Word
    BY <1>1, AheadType
  <2> HIDE DEF a
  <2>2. a - 1 \in 0 .. W - 1 /\ a + (-1) = a - 1
    BY <1>1, <2>1 DEF a, Word
  <2> QED
    BY <1>1, <2>2, Small
<1> HIDE DEF s
<1>6. x - s = ((x - y) + (-1)) + W * q /\ (x - y) + (-1) \in Int
  BY <1>1, <1>3
<1>7. (((x - y) + (-1)) + W * q) % W = ((x - y) + (-1)) % W
  BY <1>1, <1>6, Shift
<1> QED
  BY <1>4, <1>5, <1>6, <1>7 DEF Ahead, s

(* The cell of a counter, from another that it is ahead of. *)
LEMMA CellAhead ==
  ASSUME NEW x \in Word, NEW y \in Word
  PROVE  Cell(x) = Cell(y + Ahead(x, y))
<1>1. x \in Int /\ y \in Int /\ x - y \in Int
  BY Constants DEF Word
<1>2. Cell(((x - y) % W) + y) = Cell((x - y) + y)
  BY <1>1, CellOfWrapped
<1>3. (x - y) + y = x /\ ((x - y) % W) + y = y + ((x - y) % W)
  <2>1. (x - y) % W \in Int
    BY <1>1, Constants, Divided
  <2> QED
    BY <1>1, <2>1
<1> QED
  BY <1>2, <1>3 DEF Ahead

(* The cells that follow a step of the reader. *)
LEMMA CellAfter ==
  ASSUME NEW y \in Word, NEW i \in Int
  PROVE  Cell(Inc(y) + i) = Cell(y + (i + 1))
<1>1. y + 1 \in Int /\ (y + 1) + i = y + (i + 1)
  BY DEF Word
<1> QED
  BY <1>1, CellOfWrapped DEF Inc

-----------------------------------------------------------------------------
(* The invariant.  While the reader is in a batch its copies of the        *)
(* counters lie between tail and head, so that what it has taken and what  *)
(* it has not make up what the ring holds; and without a stream there is   *)
(* no reader.                                                              *)
Between ==
  reader.pc = "read" =>
    /\ Ahead(head, tail) = Ahead(head, reader.t) + Ahead(reader.t, tail)
    /\ Ahead(head, reader.t) = Ahead(head, reader.h) + Ahead(reader.h, reader.t)

Held ==
  /\ Ahead(head, tail) <= RingLen
  /\ reader.pc # "idle" => active

IInv == TypeOK /\ Held /\ Between /\ FirstInFirstOut /\ EndAccounts

LEMMA Words ==
  ASSUME TypeOK
  PROVE  /\ head \in Word /\ tail \in Word /\ reader.t \in Word /\ reader.h \in Word
         /\ From \in Word /\ seq \in Word /\ sent \in Word /\ dropped \in Word
         /\ Len(pending) \in Nat
BY DEF TypeOK, From

(* What the reader has not taken is no more than what the ring holds.      *)
LEMMA Pending ==
  ASSUME IInv, active
  PROVE  /\ Ahead(head, From) = Len(pending) /\ Len(pending) <= Ahead(head, tail)
         /\ Len(pending) \in Nat
<1>1. Ahead(head, From) = Len(pending) /\ pending \in Seq(Word)
  BY DEF IInv, FirstInFirstOut, Ahead, TypeOK
<1>2. CASE reader.pc = "read"
  <2>1. Ahead(head, tail) = Ahead(head, From) + Ahead(From, tail)
    BY <1>2 DEF IInv, Between, From
  <2>2. Ahead(From, tail) \in Word /\ Ahead(head, From) \in Word
    BY Words, WordIsInt, AheadType DEF IInv
  <2>3. Ahead(From, tail) >= 0 /\ Ahead(From, tail) \in Int /\ Ahead(head, From) \in Int
    BY <2>2, Constants DEF Word
  <2> QED
    BY <1>1, <2>1, <2>3
<1>3. CASE reader.pc # "read"
  <2>1. Ahead(head, tail) = Ahead(head, From)
    BY <1>3 DEF From
  <2> QED
    BY <1>1, <2>1
<1> QED
  BY <1>1, <1>2, <1>3

(* Sums of counters. *)
LEMMA IncIn ==
  ASSUME NEW x \in Int, NEW y \in Int
  PROVE  (Inc(x) + y) % W = ((x + y) + 1) % W
<1>1. x + 1 \in Int /\ (x + 1) + y = (x + y) + 1
  OBVIOUS
<1>2. (((x + 1) % W) + y) % W = ((x + 1) + y) % W
  BY <1>1, Constants, RestFirst
<1> QED
  BY <1>1, <1>2 DEF Inc

LEMMA IncOf ==
  ASSUME NEW x \in Int
  PROVE  Inc(x % W) = (x + 1) % W
<1>1. 1 \in Int
  OBVIOUS
<1> QED
  BY <1>1, Constants, RestFirst DEF Inc

LEMMA Spent ==
  ASSUME TypeOK, Spend
  PROVE  credit' \in 0 .. Burst * Speed
<1> DEFINE b == Burst * Speed
<1>1. b \in Nat /\ Speed \in Nat /\ credit \in 0 .. b
  BY Constants DEF TypeOK
<1>2. credit' = IF credit >= Speed THEN credit - Speed ELSE 0
  BY DEF Spend
<1> HIDE DEF b
<1>3. credit' \in 0 .. b
  BY <1>1, <1>2
<1> QED
  BY <1>3 DEF b

-----------------------------------------------------------------------------
(* sbx_proc. *)

LEMMA DropStep ==
  ASSUME IInv, Push, dropped' = Inc(dropped), UNCHANGED <<ring, head, pending>>
  PROVE  IInv'
<1>1. UNCHANGED <<ring, head, tail, active, sent, reader, expired, pending>> /\ seq' = Inc(seq)
  BY DEF Push
<1>2. TypeOK /\ sent \in Int /\ dropped \in Int /\ seq \in Int /\ Len(pending) \in Int
  <2>1. TypeOK
    BY DEF IInv
  <2>2. /\ sent \in Word /\ dropped \in Word /\ seq \in Word /\ Len(pending) \in Nat
    BY <2>1, Words
  <2> QED
    BY <2>1, <2>2, WordIsInt
<1>3. credit' \in 0 .. Burst * Speed
  BY <1>2, Spent DEF Push
<1>4. TypeOK'
  <2>1. seq' \in Word /\ dropped' \in Word
    BY <1>1, <1>2, IncType
  <2> QED
    BY <1>1, <1>2, <1>3, <2>1 DEF TypeOK
<1>5. Held' /\ Between' /\ FirstInFirstOut'
  BY <1>1 DEF IInv, Held, Between, FirstInFirstOut, From, Ahead
<1>6. EndAccounts'
  <2> DEFINE l == Len(pending)
             n == sent + l
  <2>1. n \in Int /\ dropped + n \in Int /\ sent + dropped + l = dropped + n
        /\ \A x \in Int : sent + x + l = x + n
    BY <1>2
  <2>2. Inc(dropped) \in Int
    BY <1>2, IncType, WordIsInt
  <2>3. seq = (dropped + n) % W
    BY <2>1 DEF IInv, EndAccounts
  <2> HIDE DEF n
  <2>4. Inc((dropped + n) % W) = ((dropped + n) + 1) % W
    BY <2>1, IncOf
  <2>5. (Inc(dropped) + n) % W = ((dropped + n) + 1) % W
    BY <1>2, <2>1, IncIn
  <2>6. sent + Inc(dropped) + l = Inc(dropped) + n
    BY <2>1, <2>2
  <2>7. seq' = (sent + Inc(dropped) + l) % W
    BY <1>1, <2>3, <2>4, <2>5, <2>6
  <2> QED
    BY <1>1, <2>7 DEF EndAccounts
<1> QED
  BY <1>4, <1>5, <1>6 DEF IInv

LEMMA StoreStep ==
  ASSUME IInv, Push, ~Full, ring' = [ring EXCEPT ![head % RingLen] = seq],
         head' = Inc(head), pending' = Append(pending, seq), UNCHANGED dropped
  PROVE  IInv'
<1> DEFINE l == Len(pending)
<1>1. /\ active /\ UNCHANGED <<tail, active, sent, reader, expired, dropped>> /\ seq' = Inc(seq)
      /\ From' = From
  BY DEF Push, From
<1>2. /\ TypeOK /\ head \in Word /\ tail \in Word /\ reader.t \in Word /\ reader.h \in Word
      /\ From \in Word /\ seq \in Word /\ sent \in Word /\ dropped \in Word
  BY Words DEF IInv
<1>3. credit' \in 0 .. Burst * Speed
  BY <1>2, Spent DEF Push
<1>4. /\ l \in Nat /\ l <= Ahead(head, tail) /\ Ahead(head, From) = l
      /\ Ahead(head, tail) < RingLen /\ Ahead(head, tail) \in Nat /\ RingLen < W /\ W \in Nat
      /\ RingLen \in Nat
  <2>1. Ahead(head, tail) \in Word
    BY <1>2, WordIsInt, AheadType
  <2>2. Ahead(head, tail) \in Nat
    BY <2>1, Constants DEF Word
  <2>3. ~(Ahead(head, tail) >= RingLen)
    BY DEF Full, Ahead
  <2> QED
    BY <1>1, <2>2, <2>3, Pending, Constants
<1>5. /\ pending' \in Seq(Word) /\ Len(pending') = l + 1 /\ pending'[l + 1] = seq
      /\ \A i \in 1 .. l : pending'[i] = pending[i]
  BY <1>2, AppendProperties DEF TypeOK
<1> HIDE DEF l
<1>6. head' \in Word /\ seq' \in Word /\ ring' \in [Slots -> Word]
  <2>1. head' \in Word /\ seq' \in Word
    BY <1>1, <1>2, WordIsInt, IncType
  <2> QED
    BY <1>2, <2>1 DEF TypeOK
<1>7. TypeOK'
  BY <1>1, <1>2, <1>3, <1>4, <1>5, <1>6 DEF TypeOK
(* The head goes on, and with it everything it is ahead of.                *)
<1>8. ASSUME NEW y \in Word, Ahead(head, y) <= Ahead(head, tail)
      PROVE  Ahead(head', y) = Ahead(head, y) + 1
  <2>1. Ahead(head, y) \in Int
    BY <1>2, <1>8, WordIsInt, AheadType
  <2>2. Ahead(head, y) < W - 1
    BY <1>4, <1>8, <2>1
  <2> QED
    BY <1>2, <1>8, <2>2, AheadInc
<1>9. Held'
  <2>1. Ahead(head', tail) = Ahead(head, tail) + 1
    BY <1>2, <1>4, <1>8
  <2>2. Ahead(head', tail) <= RingLen
    BY <1>4, <2>1
  <2> QED
    BY <1>1, <2>2 DEF Held, Ahead
<1>10. Between'
  <2> SUFFICES ASSUME reader.pc = "read"
               PROVE  /\ Ahead(head', tail) = Ahead(head', reader.t) + Ahead(reader.t, tail)
                      /\ Ahead(head', reader.t) = Ahead(head', reader.h) + Ahead(reader.h, reader.t)
    BY <1>1 DEF Between, Ahead
  <2> DEFINE a == Ahead(head, tail)
             b == Ahead(head, reader.t)
             c == Ahead(head, reader.h)
             d == Ahead(reader.t, tail)
             e == Ahead(reader.h, reader.t)
  <2>1. a \in Nat /\ b \in Nat /\ c \in Nat /\ d \in Nat /\ e \in Nat
    <3>1. a \in Word /\ b \in Word /\ c \in Word /\ d \in Word /\ e \in Word
      BY <1>2, WordIsInt, AheadType
    <3> HIDE DEF a, b, c, d, e
    <3> QED
      BY <3>1, Constants DEF Word
  <2>2. a = b + d /\ b = c + e
    BY DEF IInv, Between
  <2> HIDE DEF a, b, c, d, e
  <2>3. b <= a /\ c <= a
    BY <2>1, <2>2
  <2>4. Ahead(head', tail) = a + 1 /\ Ahead(head', reader.t) = b + 1 /\ Ahead(head', reader.h) = c + 1
    BY <1>2, <1>4, <1>8, <2>3 DEF a, b, c
  <2>5. a + 1 = (b + 1) + d /\ b + 1 = (c + 1) + e
    BY <2>1, <2>2
  <2> QED
    BY <2>4, <2>5 DEF d, e
(* The new sample comes last, in a cell nobody waits for.                  *)
<1>11. FirstInFirstOut'
  <2>1. Ahead(head', From) = l + 1
    BY <1>2, <1>4, <1>8
  <2>2. Cell(head) = Cell(From + l) /\ Cell(head) \in Slots /\ From \in Int
    BY <1>2, <1>4, CellAhead, CellType, WordIsInt
  <2>3. ASSUME NEW i \in 1 .. l + 1
        PROVE  ring'[Cell(From + i - 1)] = pending'[i]
    <3>1. CASE i = l + 1
      <4>1. From + i - 1 = From + l
        BY <1>4, <2>2, <3>1
      <4> QED
        BY <1>2, <1>5, <2>2, <3>1, <4>1 DEF TypeOK, Cell
    <3>2. CASE i # l + 1
      <4>1. i \in 1 .. l /\ From + i - 1 \in Int /\ From + l \in Int
            /\ From + i - 1 < From + l /\ From + l < (From + i - 1) + RingLen
        BY <1>4, <2>2, <3>2
      <4>2. Cell(From + i - 1) # Cell(From + l) /\ Cell(From + i - 1) \in Slots
        BY <4>1, CellsApart, CellType
      <4>3. ring'[Cell(From + i - 1)] = ring[Cell(From + i - 1)]
        BY <1>2, <2>2, <4>2 DEF TypeOK, Cell
      <4>4. ring[Cell(From + i - 1)] = pending[i]
        BY <1>1, <4>1 DEF IInv, FirstInFirstOut, Cell, l
      <4> QED
        BY <1>5, <4>1, <4>3, <4>4
    <3> QED
      BY <3>1, <3>2
  <2> QED
    BY <1>1, <1>5, <2>1, <2>3 DEF FirstInFirstOut, Ahead, Cell
<1>12. EndAccounts'
  <2> DEFINE n == sent + dropped + l
  <2>1. n \in Int /\ sent + dropped + (l + 1) = n + 1
    BY <1>2, <1>4, WordIsInt
  <2>2. seq = n % W
    BY DEF IInv, EndAccounts, l
  <2> HIDE DEF n
  <2>3. Inc(n % W) = (n + 1) % W
    BY <2>1, IncOf
  <2>4. seq' = (sent + dropped + (l + 1)) % W
    BY <1>1, <2>1, <2>2, <2>3
  <2> QED
    BY <1>1, <1>5, <2>4 DEF EndAccounts
<1> QED
  BY <1>7, <1>9, <1>10, <1>11, <1>12 DEF IInv

-----------------------------------------------------------------------------
(* loopTask. *)

LEMMA StartStep ==
  ASSUME IInv, Start
  PROVE  IInv'
<1>1. /\ reader.pc = "idle" /\ sent' = 0 /\ dropped' = 0 /\ seq' = 0 /\ tail' = head /\ pending' = <<>>
      /\ active' = TRUE /\ expired' = FALSE /\ UNCHANGED <<ring, head, reader, credit>>
  BY DEF Start, NoDrops
<1>2. 0 \in Word /\ Len(<<>>) = 0 /\ <<>> \in Seq(Word) /\ 0 <= RingLen /\ 0 % W = 0
  <2>1. 0 \in 0 .. W - 1
    BY Constants
  <2> QED
    BY <2>1, Constants, Small DEF Word
<1>3. Ahead(head, head) = 0 /\ head \in Word
  BY Words, WordIsInt, AheadOfSelf DEF IInv
<1>4. TypeOK'
  BY <1>1, <1>2, <1>3 DEF IInv, TypeOK
<1>5. Held' /\ Between'
  BY <1>1, <1>2, <1>3 DEF Held, Between, Ahead
<1>6. FirstInFirstOut' /\ EndAccounts'
  BY <1>1, <1>2, <1>3 DEF FirstInFirstOut, EndAccounts, From, Ahead
<1> QED
  BY <1>4, <1>5, <1>6 DEF IInv

LEMMA StopStep ==
  ASSUME IInv, Stop
  PROVE  IInv'
<1>1. /\ active' = FALSE /\ reader' = [pc |-> "idle", t |-> 0, h |-> 0, k |-> 0]
      /\ UNCHANGED <<ring, head, tail, dropped, sent, expired, seq, credit, pending>>
  BY DEF Stop
<1>2. 0 \in Word /\ 0 \in 0 .. Batch
  BY Constants DEF Word
<1>3. TypeOK'
  BY <1>1, <1>2 DEF IInv, TypeOK
<1> QED
  BY <1>1, <1>3 DEF IInv, Held, Between, FirstInFirstOut, EndAccounts, Ahead

LEMMA LoadStep ==
  ASSUME IInv, Load
  PROVE  IInv'
<1>1. /\ reader' = [pc |-> "read", t |-> tail, h |-> head, k |-> 0]
      /\ UNCHANGED <<ring, head, tail, active, dropped, sent, expired, seq, pending>>
      /\ active /\ From' = tail /\ From = tail
      /\ credit' = Burst * Speed \/ credit' = credit
  BY DEF Load, From, IInv, Held
<1>2. 0 \in 0 .. Batch /\ Burst * Speed \in 0 .. Burst * Speed /\ head \in Word /\ tail \in Word
  BY Words, Constants DEF IInv
<1>3. credit' \in 0 .. Burst * Speed
  BY <1>1, <1>2 DEF IInv, TypeOK
<1>4. TypeOK'
  BY <1>1, <1>2, <1>3 DEF IInv, TypeOK
<1>5. Between'
  <2>1. Ahead(tail, tail) = 0 /\ Ahead(head, head) = 0 /\ Ahead(head, tail) \in Int
    BY <1>2, WordIsInt, AheadOfSelf, AheadType
  <2>2. Ahead(head, tail) = Ahead(head, tail) + Ahead(tail, tail)
        /\ Ahead(head, tail) = Ahead(head, head) + Ahead(head, tail)
    BY <2>1
  <2> QED
    BY <1>1, <2>2 DEF Between, Ahead
<1>6. Held' /\ FirstInFirstOut' /\ EndAccounts'
  BY <1>1 DEF IInv, Held, FirstInFirstOut, EndAccounts, Ahead
<1> QED
  BY <1>4, <1>5, <1>6 DEF IInv

LEMMA ReadStep ==
  ASSUME IInv, Read
  PROVE  IInv' /\ Line = Head(pending)
<1> DEFINE l == Len(pending)
           t == reader.t
<1>1. /\ reader.pc = "read" /\ reader' = [reader EXCEPT !.t = Inc(t), !.k = reader.k + 1]
      /\ t # reader.h /\ reader.k < Batch /\ sent' = Inc(sent) /\ pending' = Tail(pending)
      /\ UNCHANGED <<ring, head, tail, active, dropped, expired, seq, credit>>
  BY DEF Read, MoreToRead
<1>2. /\ TypeOK /\ head \in Word /\ tail \in Word /\ t \in Word /\ reader.h \in Word
      /\ seq \in Word /\ sent \in Word /\ dropped \in Word
  BY Words DEF IInv
<1>3. active /\ From = t
  BY <1>1 DEF IInv, Held, From
<1>4. /\ reader'.pc = "read" /\ reader'.t = Inc(t) /\ reader'.h = reader.h /\ From' = Inc(t)
  BY <1>1, <1>2 DEF TypeOK, From
<1> DEFINE a == Ahead(head, tail)
           b == Ahead(head, t)
           c == Ahead(head, reader.h)
           d == Ahead(t, tail)
           e == Ahead(reader.h, t)
<1>5. a \in Nat /\ b \in Nat /\ c \in Nat /\ d \in Nat /\ e \in Nat /\ e > 0
  <2>1. a \in Word /\ b \in Word /\ c \in Word /\ d \in Word /\ e \in Word /\ e > 0
    BY <1>1, <1>2, WordIsInt, AheadType, AheadZero
  <2> HIDE DEF a, b, c, d, e
  <2> QED
    BY <2>1, Constants DEF Word
<1>6. a = b + d /\ b = c + e /\ a <= RingLen /\ b = l
  BY <1>1, <1>3, Pending DEF IInv, Between, Held
<1>7. /\ pending # <<>> /\ pending \in Seq(Word) /\ pending' \in Seq(Word) /\ Len(pending') = l - 1
      /\ \A i \in 1 .. Len(pending') : pending'[i] = pending[i + 1]
  <2>1. pending \in Seq(Word)
    BY <1>2 DEF TypeOK
  <2>2. l > 0
    <3> HIDE DEF b, c, e, l
    <3> QED
      BY <1>5, <1>6
  <2>3. pending # <<>>
    BY <2>1, <2>2, EmptySeq
  <2> QED
    BY <1>1, <2>1, <2>3, HeadTailProperties
<1> HIDE DEF a, b, c, d, e, l, t
<1>8. l \in Nat /\ l > 0 /\ l <= RingLen /\ RingLen < W /\ RingLen \in Nat /\ W \in Nat /\ d < W - 1
  BY <1>5, <1>6, Constants
<1>9. TypeOK'
  <2>1. Inc(t) \in Word /\ sent' \in Word
    BY <1>1, <1>2, WordIsInt, IncType
  <2>2. reader.k + 1 \in 0 .. Batch
    BY <1>1, <1>2, Constants DEF TypeOK
  <2>3. reader' \in [pc : {"idle", "load", "read", "write", "check"}, t : Word, h : Word, k : 0 .. Batch]
    BY <1>1, <1>2, <2>1, <2>2 DEF TypeOK
  <2>4. Len(pending') <= RingLen
    BY <1>7, <1>8
  <2> QED
    BY <1>1, <1>2, <1>7, <2>1, <2>3, <2>4 DEF TypeOK
<1>10. Held'
  BY <1>1, <1>3, <1>4 DEF IInv, Held, Ahead
<1>11. Ahead(head, Inc(t)) = b - 1 /\ Ahead(Inc(t), tail) = d + 1 /\ Ahead(reader.h, Inc(t)) = e - 1
  <2>1. b > 0
    BY <1>6, <1>8
  <2> QED
    BY <1>2, <1>5, <1>8, <2>1, AheadInc, BehindInc DEF b, d, e
<1>12. Between'
  <2>1. a = (b - 1) + (d + 1) /\ b - 1 = c + (e - 1)
    BY <1>5, <1>6
  <2>2. /\ Ahead(head, tail)' = a /\ Ahead(head, reader.t)' = b - 1 /\ Ahead(reader.t, tail)' = d + 1
        /\ Ahead(head, reader.h)' = c /\ Ahead(reader.h, reader.t)' = e - 1
    BY <1>1, <1>4, <1>11 DEF Ahead, a, c
  <2> QED
    BY <2>1, <2>2 DEF Between
<1>13. FirstInFirstOut'
  <2>0. t \in Int /\ Inc(t) \in Int /\ Len(pending') \in Int
    <3>1. t \in Word /\ Inc(t) \in Word
      BY <1>2, WordIsInt, IncType
    <3>2. Len(pending') \in Int
      BY <1>7, <1>8
    <3> QED
      BY <3>1, <3>2, WordIsInt
  <2>1. Ahead(head, Inc(t)) = Len(pending')
    BY <1>6, <1>7, <1>11
  <2>2. ASSUME NEW i \in 1 .. Len(pending')
        PROVE  ring[Cell(Inc(t) + i - 1)] = pending'[i]
    <3>1. t \in Int /\ Inc(t) \in Int /\ Len(pending') \in Int
      BY <2>0
    <3>2. /\ Inc(t) + i - 1 = Inc(t) + (i - 1) /\ t + ((i - 1) + 1) = t + (i + 1) - 1 /\ i - 1 \in Int
          /\ i + 1 \in 1 .. l
      BY <1>7, <1>8, <3>1
    <3>3. Cell(Inc(t) + (i - 1)) = Cell(t + ((i - 1) + 1))
      BY <1>2, <3>2, CellAfter
    <3>4. ring[Cell(t + (i + 1) - 1)] = pending[i + 1]
      BY <1>3, <3>2 DEF IInv, FirstInFirstOut, Cell, l
    <3> QED
      BY <1>7, <3>2, <3>3, <3>4
  <2> QED
    BY <1>1, <1>4, <2>1, <2>2 DEF FirstInFirstOut, Ahead, Cell
<1>14. EndAccounts'
  <2> DEFINE n == dropped + (l - 1)
  <2>1. n \in Int /\ sent \in Int /\ sent + n \in Int /\ (sent + n) + 1 = sent + dropped + l
        /\ \A x \in Int : x + dropped + (l - 1) = x + n
    BY <1>2, <1>8, WordIsInt
  <2> HIDE DEF n
  <2>2. seq = ((sent + n) + 1) % W
    BY <2>1 DEF IInv, EndAccounts, l
  <2>3. (Inc(sent) + n) % W = ((sent + n) + 1) % W
    BY <2>1, IncIn
  <2>4. Inc(sent) + dropped + (l - 1) = Inc(sent) + n
    <3>1. Inc(sent) \in Int
      BY <2>1, IncType, WordIsInt
    <3> QED
      BY <2>1, <3>1
  <2>5. seq = (Inc(sent) + dropped + (l - 1)) % W
    BY <2>2, <2>3, <2>4
  <2> QED
    BY <1>1, <1>7, <2>5 DEF EndAccounts
<1>15. Line = Head(pending)
  <2>1. t + 1 - 1 = t /\ 1 \in 1 .. l
    BY <1>2, <1>8, WordIsInt
  <2>2. ring[Cell(t + 1 - 1)] = pending[1]
    BY <1>3, <2>1 DEF IInv, FirstInFirstOut, Cell, l
  <2>3. Head(pending) = pending[1]
    BY <1>7
  <2> QED
    BY <2>1, <2>2, <2>3 DEF Line, Cell, t
<1> QED
  BY <1>9, <1>10, <1>12, <1>13, <1>14, <1>15 DEF IInv

LEMMA PublishStep ==
  ASSUME IInv, Publish
  PROVE  IInv'
<1>1. /\ reader.pc = "read" /\ tail' = reader.t
      /\ \E q \in {"check", "write"} : reader' = [reader EXCEPT !.pc = q]
      /\ UNCHANGED <<ring, head, active, dropped, sent, expired, seq, credit, pending>>
  BY DEF Publish
<1>2. /\ TypeOK /\ head \in Word /\ reader.t \in Word /\ active /\ From = reader.t
  BY <1>1, Words DEF IInv, Held, From
<1>3. TypeOK' /\ reader'.pc # "read" /\ From' = reader.t
  BY <1>1, <1>2 DEF TypeOK, From
<1>4. Ahead(head, reader.t) <= RingLen
  BY <1>2, Pending, Constants DEF TypeOK
<1>5. Held' /\ Between'
  BY <1>1, <1>2, <1>3, <1>4 DEF Held, Between, Ahead
<1>6. FirstInFirstOut' /\ EndAccounts'
  BY <1>1, <1>2, <1>3 DEF IInv, FirstInFirstOut, EndAccounts
<1> QED
  BY <1>3, <1>5, <1>6 DEF IInv

(* What moves neither a counter nor a sample. *)
LEMMA Elsewhere ==
  ASSUME IInv, TypeOK', reader.pc # "read", reader'.pc # "read", reader'.pc # "idle" => active,
         UNCHANGED <<ring, head, tail, active, dropped, sent, seq, pending>>
  PROVE  IInv'
<1>1. From' = From
  BY DEF From
<1> QED
  BY <1>1 DEF IInv, Held, Between, FirstInFirstOut, EndAccounts, Ahead

LEMMA WriteStep ==
  ASSUME IInv, Write
  PROVE  IInv'
<1> DEFINE b == Burst * Speed
<1>1. /\ reader.pc = "write"
      /\ reader' = IF reader.k = 0 THEN [reader EXCEPT !.pc = "load"] ELSE [reader EXCEPT !.k = reader.k - 1]
      /\ credit' = IF reader.k = 0 \/ credit = b THEN credit ELSE credit + 1
      /\ UNCHANGED <<ring, head, tail, active, dropped, sent, expired, seq, pending>>
  BY DEF Write
<1>2. TypeOK /\ active /\ b \in Nat /\ credit \in 0 .. b /\ reader.k \in 0 .. Batch /\ Batch \in Nat
  BY <1>1, Constants DEF IInv, Held, TypeOK
<1> HIDE DEF b
<1>3. credit' \in 0 .. b
  BY <1>1, <1>2
<1>4. /\ reader' \in [pc : {"idle", "load", "read", "write", "check"}, t : Word, h : Word, k : 0 .. Batch]
      /\ reader'.pc # "read"
  <2>1. CASE reader.k = 0
    BY <1>1, <1>2, <2>1 DEF TypeOK
  <2>2. CASE reader.k # 0
    <3>1. reader.k - 1 \in 0 .. Batch
      BY <1>2, <2>2
    <3> QED
      BY <1>1, <1>2, <2>2, <3>1 DEF TypeOK
  <2> QED
    BY <2>1, <2>2
<1>5. TypeOK'
  BY <1>1, <1>2, <1>3, <1>4 DEF TypeOK, b
<1> QED
  BY <1>1, <1>2, <1>4, <1>5, Elsewhere

LEMMA CheckStep ==
  ASSUME IInv, Check
  PROVE  IInv'
<1>1. CASE Stop
  BY <1>1, StopStep
<1>2. CASE /\ reader' = [reader EXCEPT !.pc = "idle"]
           /\ UNCHANGED <<ring, head, tail, active, dropped, sent, expired, seq, credit, pending>>
  <2>1. TypeOK' /\ reader'.pc = "idle" /\ reader.pc = "check"
    BY <1>2 DEF IInv, TypeOK, Check
  <2> QED
    BY <1>2, <2>1, Elsewhere
<1> QED
  BY <1>1, <1>2 DEF Check

-----------------------------------------------------------------------------
Writes == Read => Line = Head(pending)

LEMMA Inductive == IInv /\ [Next]_vars => IInv' /\ Writes
<1> SUFFICES ASSUME IInv, [Next]_vars
             PROVE  IInv' /\ Writes
  OBVIOUS
<1>1. Writes
  BY ReadStep DEF Writes
<1>2. CASE Push
  <2>1. \/ dropped' = Inc(dropped) /\ UNCHANGED <<ring, head, pending>>
        \/ /\ ~Full /\ ring' = [ring EXCEPT ![head % RingLen] = seq]
           /\ head' = Inc(head) /\ pending' = Append(pending, seq) /\ UNCHANGED dropped
    BY <1>2 DEF Push
  <2>2. IInv'
    BY <1>2, <2>1, DropStep, StoreStep
  <2> QED
    BY <1>1, <2>2
<1>3. CASE Start
  BY <1>1, <1>3, StartStep
<1>4. CASE StopCommand
  BY <1>1, <1>4, StopStep DEF StopCommand
<1>5. CASE Poll
  BY <1>1, <1>5, LoadStep, ReadStep, PublishStep, WriteStep, CheckStep DEF Poll
<1>6. CASE Expire \/ UNCHANGED vars
  <2>1. /\ UNCHANGED <<ring, head, tail, active, dropped, sent, reader, seq, credit, pending>>
        /\ expired' \in BOOLEAN
    BY <1>6 DEF Expire, vars, IInv, TypeOK
  <2>2. TypeOK' /\ From' = From
    BY <2>1 DEF IInv, TypeOK, From
  <2>3. IInv'
    BY <2>1, <2>2 DEF IInv, Held, Between, FirstInFirstOut, EndAccounts, Ahead
  <2> QED
    BY <1>1, <2>3
<1> QED
  BY <1>2, <1>3, <1>4, <1>5, <1>6 DEF Next

LEMMA AtFirst == Init => IInv
<1> SUFFICES ASSUME Init
             PROVE  IInv
  OBVIOUS
<1>1. /\ 0 \in Word /\ 0 \in 0 .. Batch /\ 0 \in 0 .. Burst * Speed /\ Len(<<>>) = 0 /\ <<>> \in Seq(Word)
      /\ 0 <= RingLen /\ 0 % W = 0
  <2>1. 0 \in 0 .. W - 1
    BY Constants
  <2> QED
    BY <2>1, Constants, Small DEF Word
<1>2. TypeOK
  BY <1>1 DEF Init, TypeOK
<1>3. Ahead(head, tail) = 0
  BY AheadOfSelf DEF Init
<1> QED
  BY <1>1, <1>2, <1>3 DEF Init, IInv, Held, Between, FirstInFirstOut, EndAccounts

LEMMA Invariant == Spec => []IInv
<1>1. IInv /\ [Next]_vars => IInv'
  BY Inductive
<1> QED
  BY <1>1, AtFirst, PTL DEF Spec

(* Every counter, cell and copy keeps its range, and the ring never holds  *)
(* more than fits (streamPush, streamPoll).                                *)
THEOREM StreamTypes == Spec => []TypeOK
<1>1. IInv => TypeOK
  BY DEF IInv
<1> QED
  BY <1>1, Invariant, PTL

(* The ring is first in, first out: from where the reader is up to the     *)
(* head it holds the samples that were accepted and not yet written, in    *)
(* their order, wherever a push interrupts the reader and however often    *)
(* the counters have wrapped (streamPush, streamPoll).                     *)
THEOREM StreamInOrder == Spec => []FirstInFirstOut
<1>1. IInv => FirstInFirstOut
  BY DEF IInv
<1> QED
  BY <1>1, Invariant, PTL

(* The line at the end accounts for every sample (streamPoll's summary).   *)
THEOREM StreamAccounts == Spec => []EndAccounts
<1>1. IInv => EndAccounts
  BY DEF IInv
<1> QED
  BY <1>1, Invariant, PTL

(* What goes to the cable is always the oldest sample not yet written: no  *)
(* line is of a cell that a push has taken since (streamPoll).             *)
THEOREM OldestFirst == Spec => [][Writes]_vars
<1>1. IInv /\ [Next]_vars => Writes
  BY Inductive
<1> QED
  BY <1>1, Invariant, PTL DEF Spec
=============================================================================
