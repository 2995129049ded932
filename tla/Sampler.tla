------------------------------ MODULE Sampler ------------------------------
(***************************************************************************)
(* hal/sampler.cpp and hal/proc_task.cpp: sbx_sample takes a sample in     *)
(* every period of the tick and puts it into a queue of fixed length;      *)
(* sbx_proc empties the queue in batches, under the mutex it shares with   *)
(* the web handlers, and counts what is missing and what came late.  At    *)
(* the end of setup() loopTask draws the line between the boot and the     *)
(* run, a moment first and then a flag.                                    *)
(*                                                                         *)
(* Time is the number of the tick.  The clock a sample is stamped with     *)
(* wraps at W (2^32 us); the numbers of the samples, which do so only      *)
(* after 49 days, do not.                                                  *)
(***************************************************************************)
EXTENDS Integers, Sequences

CONSTANTS
  Cap,       \* the length of the queue
  CatchUp,   \* kCatchUpMaxUs, in periods
  W,         \* the modulus of the clock
  MaxStall,  \* how long the oldest sample waits, at most
  MaxNow     \* the bound on time

ASSUME SamplerAssumption ==
  /\ Cap \in Nat \ {0} /\ CatchUp \in Nat \ {0} /\ W \in Nat \ {0}
  /\ MaxStall \in Nat \ {0} /\ MaxNow \in Nat
  /\ MaxStall < W \div 2

VARIABLES
  now,      \* the tick, before it wraps
  wake,     \* wake: the period that is next
  seq,      \* seq: the number of the next sample
  queue,    \* g_queue
  drops,    \* g_queue_drops
  skipped,  \* g_skipped
  lock,     \* who holds g_proc_mutex
  boot,     \* g_boot_done_us and g_boot_done
  proc,     \* what onSample keeps: g_have_last, g_last_seq, g_gaps, ...
  unseen    \* history: the numbers missing before the first sample

vars == <<now, wake, seq, queue, drops, skipped, lock, boot, proc, unseen>>

(* A sample: its number, the tick it was taken at, and was it late.        *)
Samples == [seq : Nat, at : Nat, late : BOOLEAN]

(* int32_t(a - b) >= 0 of two stamps. *)
NotBefore(a, b) == ((a % W) - (b % W)) % W < W \div 2

-----------------------------------------------------------------------------
(* sbx_sample: samplerLoop. *)

(* At lag 0 the microseconds decide whether it is late. *)
Lates == IF now = wake THEN BOOLEAN ELSE {TRUE}

QueueFull == Len(queue) = Cap

(* A dropped sample has its number too.  Variant: it is used again.        *)
NextNumberIfSent == IF QueueFull THEN seq ELSE seq + 1
NextNumber == seq + 1

Sample ==
  /\ wake <= now /\ now - wake < CatchUp
  /\ seq' = NextNumber
  /\ wake' = wake + 1
  /\ \/ /\ QueueFull
        /\ drops' = drops + 1
        /\ UNCHANGED queue
     \/ /\ ~QueueFull
        /\ \E late \in Lates :
             queue' = Append(queue, [seq |-> seq, at |-> now, late |-> late])
        /\ UNCHANGED drops
  /\ UNCHANGED <<now, skipped, lock, boot, proc, unseen>>

(* Left behind: the periods up to this one stay without a sample.  Variant:*)
(* this one is not counted.                                                *)
MissedBefore == now - wake
Missed == now - wake + 1

Skip ==
  /\ now - wake >= CatchUp
  /\ seq' = seq + Missed
  /\ skipped' = skipped + Missed
  /\ wake' = now + 1
  /\ UNCHANGED <<now, queue, drops, lock, boot, proc, unseen>>

-----------------------------------------------------------------------------
(* sbx_proc: procLoop, one sample of the batch at a time, and onSample.    *)

Take(who) ==
  /\ lock = "free"
  /\ lock' = who
  /\ UNCHANGED <<now, wake, seq, queue, drops, skipped, boot, proc, unseen>>

(* Variant: the distance itself. *)
GapsOfDistance(d) == IF d > 1 THEN d ELSE 0
GapsOf(d) == IF d > 1 THEN d - 1 ELSE 0

(* The first sample after the line ends the boot, for good: a clock that   *)
(* has wrapped would tell otherwise.  Variant: no such memory.             *)
BootingUnlatched(s) == ~(boot.done /\ NotBefore(s.at, boot.at))
Booting(s) == proc.booting /\ ~(boot.done /\ NotBefore(s.at, boot.at))

One(b) == IF b THEN 1 ELSE 0

OnSample(s) ==
  /\ proc' = [have |-> TRUE,
              last |-> s.seq,
              gaps |-> proc.gaps + (IF proc.have THEN GapsOf(s.seq - proc.last) ELSE 0),
              booting |-> Booting(s),
              late |-> proc.late + One(s.late /\ ~Booting(s)),
              lateBoot |-> proc.lateBoot + One(s.late /\ Booting(s))]
  /\ unseen' = IF proc.have THEN unseen ELSE s.seq

Receive ==
  /\ lock = "proc" /\ queue # <<>>
  /\ OnSample(Head(queue))
  /\ queue' = Tail(queue)
  /\ UNCHANGED <<now, wake, seq, drops, skipped, lock, boot>>

Give(who) ==
  /\ lock = who
  /\ who = "proc" => queue = <<>>
  /\ lock' = "free"
  /\ UNCHANGED <<now, wake, seq, queue, drops, skipped, boot, proc, unseen>>

-----------------------------------------------------------------------------
(* loopTask, once, at the end of setup(): procBootDone. *)

BootTime ==
  /\ ~boot.timed
  /\ boot' = [boot EXCEPT !.timed = TRUE, !.at = now]
  /\ UNCHANGED <<now, wake, seq, queue, drops, skipped, lock, proc, unseen>>

BootFlag ==
  /\ boot.timed /\ ~boot.done
  /\ boot' = [boot EXCEPT !.done = TRUE]
  /\ UNCHANGED <<now, wake, seq, queue, drops, skipped, lock, proc, unseen>>

-----------------------------------------------------------------------------
(* Time passes, but no sample waits longer than MaxStall: half the clock's *)
(* range is 35 minutes.  In the first of those the line is drawn and a     *)
(* sample behind it received.                                              *)
Tick ==
  /\ now < MaxNow
  /\ queue # <<>> => now - Head(queue).at < MaxStall
  /\ proc.booting => now < MaxStall
  /\ now' = now + 1
  /\ UNCHANGED <<wake, seq, queue, drops, skipped, lock, boot, proc, unseen>>

Init ==
  /\ now = 0 /\ wake = 0 /\ seq = 0
  /\ queue = <<>> /\ drops = 0 /\ skipped = 0
  /\ lock = "free"
  /\ boot = [timed |-> FALSE, at |-> 0, done |-> FALSE]
  /\ proc = [have |-> FALSE, last |-> 0, gaps |-> 0, booting |-> TRUE,
             late |-> 0, lateBoot |-> 0]
  /\ unseen = 0

Next ==
  \/ Sample \/ Skip
  \/ Receive
  \/ \E who \in {"proc", "web"} : Take(who) \/ Give(who)
  \/ BootTime \/ BootFlag
  \/ Tick

Spec == Init /\ [][Next]_vars

-----------------------------------------------------------------------------
(* Every part keeps its range, and the queue its length. *)
TypeOK ==
  /\ now \in Nat /\ wake \in Nat /\ seq \in Nat
  /\ drops \in Nat /\ skipped \in Nat /\ unseen \in Nat
  /\ queue \in Seq(Samples) /\ Len(queue) <= Cap
  /\ lock \in {"free", "proc", "web"}
  /\ boot \in [timed : BOOLEAN, at : Nat, done : BOOLEAN]
  /\ proc \in [have : BOOLEAN, last : Nat, gaps : Nat, booting : BOOLEAN,
               late : Nat, lateBoot : Nat]

(* The numbers keep the pace of the ticks over drops, late samples and     *)
(* skipped periods: the one that is next is that of its period, and every  *)
(* sample was taken less than CatchUp after the period of its number.      *)
PaceKept ==
  /\ seq = wake
  /\ \A i \in 1 .. Len(queue) :
       queue[i].at - queue[i].seq \in 0 .. CatchUp - 1

(* No loss goes unnoticed or is counted twice: the sampler's two counts    *)
(* are the gaps that the processing has found, those it will find in the   *)
(* queue and behind it, and those before its first sample.                 *)
Lost == drops + skipped
Found == unseen + proc.gaps
ToFind == (seq - proc.last) - (1 + Len(queue))
Accounted ==
  /\ proc.have => Lost = Found + ToFind
  /\ ~proc.have => Lost = seq - Len(queue) /\ proc.gaps = 0

(* A late sample that is held against the run was taken in it, and once    *)
(* the line is known, no sample from behind it goes to the boot.           *)
LateIsOfTheRun ==
  [][/\ proc'.late # proc.late => boot.timed /\ boot.at <= Head(queue).at
     /\ proc'.lateBoot # proc.lateBoot => ~(boot.done /\ boot.at <= Head(queue).at)]_vars
=============================================================================
