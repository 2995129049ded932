---------------------------- MODULE SerialStream ----------------------------
(***************************************************************************)
(* hal/serial_stream.cpp: every sample to the USB cable, for as long as    *)
(* was asked.  sbx_proc puts samples into a ring without a lock, loopTask  *)
(* takes them out and writes the lines.  Both run on core 1 and sbx_proc   *)
(* has the higher priority, so a push is never interrupted by the reader,  *)
(* and the reader by a push at any point.                                  *)
(*                                                                         *)
(* All counters are of 32 bits, W stands for 2^32.  A sample is its number *)
(* in the stream.  Time is told by the line: of the lines the cable carries*)
(* Speed go into the period of one sample (0: not even one), and sbx_proc  *)
(* hands over at most Burst samples at once.                               *)
(***************************************************************************)
EXTENDS Integers, Sequences

CONSTANTS
  RingLen,  \* kRingLen
  W,        \* the modulus of the counters
  Batch,    \* the lines that fit into buf
  Speed,    \* the lines written in one sample period
  Burst     \* the samples of one poll of sbx_proc

ASSUME StreamAssumption ==
  /\ RingLen \in Nat \ {0} /\ Batch \in Nat \ {0} /\ Speed \in Nat /\ Burst \in Nat \ {0}
  /\ W \in Nat \ {0} /\ W % RingLen = 0 /\ RingLen < W

VARIABLES
  ring,     \* g_ring
  head,     \* g_head, written by sbx_proc
  tail,     \* g_tail, written by loopTask
  active,   \* g_active
  dropped,  \* g_dropped
  sent,     \* g_sent
  reader,   \* loopTask in streamPoll: [pc, t, h, k (lines in buf)]
  expired,  \* has g_end_ms passed
  seq,      \* the samples pushed since the start: the next one's number
  credit,   \* the time sbx_proc has had, in lines
  pending   \* history: the samples accepted and not yet in a line

vars == <<ring, head, tail, active, dropped, sent, reader, expired, seq, credit,
          pending>>

Inc(x) == (x + 1) % W
Slots == 0 .. RingLen - 1
Word == 0 .. W - 1

-----------------------------------------------------------------------------
(* sbx_proc: streamPush. *)

(* Variant: one sample too many. *)
FullLate == (head - tail) % W > RingLen
Full == (head - tail) % W >= RingLen

Due == credit >= Speed \/ reader.pc = "idle"
Spend == credit' = IF credit >= Speed THEN credit - Speed ELSE 0

Push ==
  /\ Due /\ Spend
  /\ active
  /\ seq' = Inc(seq)
  /\ \/ /\ Full
        /\ dropped' = Inc(dropped)
        /\ UNCHANGED <<ring, head, pending>>
     \/ /\ ~Full
        /\ ring' = [ring EXCEPT ![head % RingLen] = seq]
        /\ head' = Inc(head)
        /\ pending' = Append(pending, seq)
        /\ UNCHANGED dropped
  /\ UNCHANGED <<tail, active, sent, reader, expired>>

-----------------------------------------------------------------------------
(* loopTask: streamPoll. *)

(* start(): while the stream is off nothing is pushed.  Variant: the drops *)
(* of the last stream are kept.                                            *)
KeptDrops == dropped
NoDrops == 0

Start ==
  /\ reader.pc = "idle" /\ ~active
  /\ sent' = 0
  /\ dropped' = NoDrops
  /\ tail' = head
  /\ active' = TRUE
  /\ expired' = FALSE
  /\ pending' = <<>> /\ seq' = 0
  /\ UNCHANGED <<ring, head, reader, credit>>

Stop ==
  /\ active' = FALSE
  /\ reader' = [pc |-> "idle", t |-> 0, h |-> 0, k |-> 0]
  /\ UNCHANGED <<ring, head, tail, dropped, sent, expired, seq, credit, pending>>

StopCommand == reader.pc = "idle" /\ active /\ Stop

Load ==
  /\ \/ reader.pc = "idle" /\ active /\ credit' = Burst * Speed
     \/ reader.pc = "load" /\ UNCHANGED credit
  /\ reader' = [pc |-> "read", t |-> tail, h |-> head, k |-> 0]
  /\ UNCHANGED <<ring, head, tail, active, dropped, sent, expired, seq, pending>>

MoreToRead == reader.t # reader.h /\ reader.k < Batch

Line == ring[reader.t % RingLen]

Read ==
  /\ reader.pc = "read" /\ MoreToRead
  /\ reader' = [reader EXCEPT !.t = Inc(@), !.k = @ + 1]
  /\ sent' = Inc(sent)
  /\ pending' = Tail(pending)
  /\ UNCHANGED <<ring, head, tail, active, dropped, expired, seq, credit>>

(* The loop ends when a batch is empty.  Variant: when the stream is off.  *)
DrainedWhenOff == ~active
Drained == reader.k = 0

Publish ==
  /\ reader.pc = "read" /\ ~MoreToRead
  /\ tail' = reader.t
  /\ reader' = [reader EXCEPT !.pc = IF Drained THEN "check" ELSE "write"]
  /\ UNCHANGED <<ring, head, active, dropped, sent, expired, seq, credit, pending>>

(* Serial.write waits for the cable, line by line. *)
Write ==
  /\ reader.pc = "write"
  /\ reader' = IF reader.k = 0 THEN [reader EXCEPT !.pc = "load"]
               ELSE [reader EXCEPT !.k = @ - 1]
  /\ credit' = IF reader.k = 0 \/ credit = Burst * Speed THEN credit ELSE credit + 1
  /\ UNCHANGED <<ring, head, tail, active, dropped, sent, expired, seq, pending>>

Check ==
  /\ reader.pc = "check"
  /\ \/ expired /\ Stop
     \/ /\ ~expired
        /\ reader' = [reader EXCEPT !.pc = "idle"]
        /\ UNCHANGED <<ring, head, tail, active, dropped, sent, expired, seq, credit,
                       pending>>

(* The seconds that were asked for have passed. *)
Expire ==
  /\ active /\ ~expired
  /\ expired' = TRUE
  /\ UNCHANGED <<ring, head, tail, active, dropped, sent, reader, seq, credit,
                 pending>>

-----------------------------------------------------------------------------
Init ==
  /\ ring = [i \in Slots |-> 0]
  /\ head = 0 /\ tail = 0 /\ active = FALSE /\ dropped = 0 /\ sent = 0
  /\ reader = [pc |-> "idle", t |-> 0, h |-> 0, k |-> 0]
  /\ expired = FALSE /\ seq = 0 /\ credit = 0
  /\ pending = <<>>

Poll == Load \/ Read \/ Publish \/ Write \/ Check

Next == Push \/ Start \/ StopCommand \/ Poll \/ Expire

Spec == Init /\ [][Next]_vars

(* The sampler never stops; loopTask polls every 10 ms and goes on whenever*)
(* the cable does; time passes.                                            *)
FairSpec == Spec /\ WF_vars(Push) /\ WF_vars(Poll) /\ WF_vars(Expire)

-----------------------------------------------------------------------------
(* Every part keeps its range, and the ring never holds more than fits.    *)
TypeOK ==
  /\ ring \in [Slots -> Word]
  /\ {head, tail, dropped, sent, seq} \subseteq Word
  /\ active \in BOOLEAN /\ expired \in BOOLEAN
  /\ reader \in [pc : {"idle", "load", "read", "write", "check"}, t : Word, h : Word, k : 0 .. Batch]
  /\ credit \in 0 .. Burst * Speed
  /\ pending \in Seq(Word) /\ Len(pending) <= RingLen

(* The samples from where the reader is up to the head are those accepted  *)
(* and not yet written, in their order: none is overwritten before it was  *)
(* read, read twice or read before it was there.                           *)
From == IF reader.pc = "read" THEN reader.t ELSE tail
FirstInFirstOut ==
  active =>
    /\ (head - From) % W = Len(pending)
    /\ \A i \in 1 .. Len(pending) : ring[(From + i - 1) % RingLen] = pending[i]

(* The line at the end accounts for every sample of this stream: it was    *)
(* sent, it was dropped, or it is among the few still in the ring.         *)
EndAccounts == seq = (sent + dropped + Len(pending)) % W

(* The stream ends when its time is over, and loop() comes back to its     *)
(* other work, saving the settings: tail catches head.                     *)
StreamEnds == (active /\ expired) ~> ~active
=============================================================================
