------------------------------ MODULE RawTape ------------------------------
(***************************************************************************)
(* What the raw recording of src/firmware/src/core/raw_ring.h promises     *)
(* (docs/firmware.md 4.5): the newest samples under their full 32-bit      *)
(* numbers, at most Cap of them and none further than Window behind the    *)
(* newest; a source that starts again starts a clean recording; and while  *)
(* anybody holds the recording, nothing in it changes.                     *)
(***************************************************************************)
EXTENDS Integers, Sequences

CONSTANTS
  M,        \* how many sequence numbers there are (2^32)
  Cap,      \* the capacity (kRingCapacity)
  Window,   \* kSeqWindow
  Readers   \* the downloads

VARIABLES
  tape,  \* the numbers of the recorded samples, the oldest first
  held   \* the downloads that hold the recording

tvars == <<tape, held>>

(* How far seq is ahead of another number; half of the circle is behind. *)
Ahead(seq, old) == (seq - old) % M
StartsAgain(d) == d = 0 \/ d > M \div 2 - 1

(* What a new sample is appended to. *)
Before(seq) ==
  IF tape # <<>> /\ StartsAgain(Ahead(seq, tape[Len(tape)])) THEN <<>> ELSE tape

(* Only the oldest samples go, and none without a reason: it is out of the *)
(* window, or there is no room for it.                                     *)
Record(seq) ==
  /\ held = {} /\ UNCHANGED held
  /\ \E k \in 0 .. Len(Before(seq)) :
       /\ tape' = Append(SubSeq(Before(seq), k + 1, Len(Before(seq))), seq)
       /\ Len(tape') <= Cap
       /\ \A i \in k + 1 .. Len(Before(seq)) : Ahead(seq, Before(seq)[i]) <= Window
       /\ \A i \in 1 .. k : Ahead(seq, Before(seq)[i]) > Window \/ Len(tape') = Cap

Hold(r) == r \notin held /\ held' = held \cup {r} /\ UNCHANGED tape
LetGo(r) == r \in held /\ held' = held \ {r} /\ UNCHANGED tape

Init == tape = <<>> /\ held = {}
Next == \/ \E seq \in 0 .. M - 1 : Record(seq)
        \/ \E r \in Readers : Hold(r) \/ LetGo(r)

Spec == Init /\ [][Next]_tvars
=============================================================================
