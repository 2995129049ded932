------------------------------ MODULE RawRing ------------------------------
(***************************************************************************)
(* core/raw_ring.h: the ring of raw samples that sbx_proc pushes into, and *)
(* the CSV downloads of hal/web.cpp that read it in chunks, with the ring  *)
(* frozen and counted in between.  Every call holds g_proc_mutex, and all  *)
(* callbacks of one connection run on the task async_tcp.                  *)
(*                                                                         *)
(* A cell keeps the lowest bits of a sample's number only; the voltages    *)
(* share the fate of the number and are left out, and so is the text of a  *)
(* row.  version() is compared for equality alone, so that a download      *)
(* remembers whether it has changed.                                       *)
(***************************************************************************)
EXTENDS Integers, Sequences, FiniteSets, FiniteSetsExt

CONSTANTS
  M,        \* how many sequence numbers there are (2^32)
  Lo,       \* how many of them the bits of a cell tell apart (2^16)
  Cap,      \* cap_
  Jumps,    \* by how much the number of the next sample may differ
  Readers,  \* the downloads
  MaxGaps   \* a bound on the gaps counted

ASSUME RingAssumption ==
  /\ Lo \in Nat \ {0, 1} /\ M \in Nat /\ M % Lo = 0 /\ M >= 2 * Lo
  /\ Cap \in Nat \ {0}
  /\ Jumps \subseteq Int
  /\ MaxGaps \in Nat
  /\ IsFiniteSet(Readers)

VARIABLES
  buf,     \* buf_: the seq_lo of every cell
  start,   \* start_
  count,   \* count_
  newest,  \* newest_seq_
  gaps,    \* gaps_
  skip,    \* skip_gap_
  freeze,  \* freeze_count_
  csv,     \* of every download, its CsvState and CsvWriter
  last     \* the number of the last sample the sampler delivered

ringvars == <<buf, start, count, newest>>
vars == <<buf, start, count, newest, gaps, skip, freeze, csv, last>>

Window == Lo - 1
Half == M \div 2

-----------------------------------------------------------------------------
(* The ring. *)

Index(i) == (start + i) % Cap

(* The cell after a cell. *)
NextIndex(i) == IF i + 1 < Cap THEN i + 1 ELSE 0

(* The full number of a cell, from a number at most Window ahead of it.    *)
expandSeq(new, lo) == (new - (((new % Lo) - lo) % Lo)) % M

(* How many of the oldest n samples are out of the window of seq.  Variant:*)
(* one sample further back still counts as within it.                      *)
OutOfWindowLax(n, seq) ==
  Min({k \in 0 .. n : k = n \/ (seq - expandSeq(newest, buf[Index(k)])) % M <= Window + 1})
OutOfWindow(n, seq) ==
  Min({k \in 0 .. n : k = n \/ (seq - expandSeq(newest, buf[Index(k)])) % M <= Window})

(* push, while nothing is frozen.  A number that does not go forward is a  *)
(* source that started again: the recording is cleared.                    *)
Store(seq) ==
  LET d == (seq - newest) % M
      jump == count > 0 /\ d # 1
      cleared == jump /\ (d = 0 \/ d > Half - 1)
      first == IF cleared THEN 0 ELSE start
      n == IF cleared THEN 0 ELSE count
      drop == OutOfWindow(n, seq)
      base == (first + drop) % Cap
      left == n - drop
  IN /\ buf' = [buf EXCEPT ![(base + left) % Cap] = seq % Lo]
     /\ start' = IF left = Cap THEN NextIndex(base) ELSE base
     /\ count' = IF left = Cap THEN Cap ELSE left + 1
     /\ newest' = seq
     /\ gaps' = IF jump /\ ~skip /\ gaps < MaxGaps THEN gaps + 1 ELSE gaps
     /\ skip' = FALSE

(* Variant: what was not recorded on purpose counts as a gap.              *)
SkippedCounts == skip' = FALSE
Skipped == skip' = TRUE

Push(seq) ==
  /\ last' = seq
  /\ \/ /\ freeze > 0
        /\ Skipped
        /\ UNCHANGED <<ringvars, gaps, freeze, csv>>
     \/ /\ freeze = 0
        /\ Store(seq)
        /\ csv' = [r \in Readers |-> [csv[r] EXCEPT !.changed = @ \/ csv[r].open]]
        /\ UNCHANGED freeze

-----------------------------------------------------------------------------
(* The downloads: GET /api/raw.csv. *)

Closed == [open |-> FALSE, n |-> 0, newest |-> 0, row |-> 0,
           changed |-> FALSE, aborted |-> FALSE, out |-> <<>>]

(* freeze().  Variant: a flag instead of a count. *)
FrozenFlag == 1
FrozenMore == freeze + 1

Open(r) ==
  /\ ~csv[r].open
  /\ freeze' = FrozenMore
  /\ csv' = [csv EXCEPT ![r] = [Closed EXCEPT !.open = TRUE, !.n = count, !.newest = newest]]
  /\ UNCHANGED <<ringvars, gaps, skip, last>>

(* CsvState::release, by the end of the file, a disconnection or the       *)
(* destructor, whichever is first.                                         *)
Release(r) ==
  /\ csv[r].open
  /\ freeze' = IF freeze > 0 THEN freeze - 1 ELSE 0
  /\ csv' = [csv EXCEPT ![r] = Closed]
  /\ UNCHANGED <<ringvars, gaps, skip, last>>

Ended(r) == csv[r].aborted \/ csv[r].row >= csv[r].n

(* A chunk, one row at the least: the row is looked up in the ring, or the *)
(* line is written that says that the ring has changed.                    *)
Row(r, i) == expandSeq(csv[r].newest, buf[Index(i)])
Aborted(w) == [w EXCEPT !.aborted = TRUE]
WithRow(w, seq) == [w EXCEPT !.row = @ + 1, !.out = Append(@, seq)]
Chunk(r) ==
  /\ csv[r].open /\ ~Ended(r)
  /\ csv' = [csv EXCEPT ![r] =
       IF csv[r].changed THEN Aborted(csv[r]) ELSE WithRow(csv[r], Row(r, csv[r].row))]
  /\ UNCHANGED <<ringvars, gaps, skip, freeze, last>>

(* Nothing is left: fill() returned 0.  Variant: not for an empty ring.    *)
FinishIfAny(r) == csv[r].n > 0 /\ Ended(r) /\ Release(r)
Finish(r) == Ended(r) /\ Release(r)
Disconnect(r) == Release(r)

-----------------------------------------------------------------------------
Init ==
  /\ buf = [i \in 0 .. Cap - 1 |-> 0]
  /\ start = 0 /\ count = 0 /\ newest = 0
  /\ gaps = 0 /\ skip = FALSE /\ freeze = 0
  /\ csv = [r \in Readers |-> Closed]
  /\ last = M - 1

Next ==
  \/ \E j \in Jumps : Push((last + j) % M)
  \/ \E r \in Readers : Open(r) \/ Chunk(r) \/ Finish(r) \/ Disconnect(r)

Spec == Init /\ [][Next]_vars

(* AsyncWebServer asks a response for chunks until it gets none or the     *)
(* connection is closed.                                                   *)
FairSpec == Spec /\ \A r \in Readers : WF_vars(Chunk(r) \/ Finish(r))

-----------------------------------------------------------------------------
(* The recording as its readers understand it, and who holds it. *)
Tape == [i \in 1 .. count |-> expandSeq(newest, buf[Index(i - 1)])]
Holders == {r \in Readers : csv[r].open}

Promise == INSTANCE RawTape WITH tape <- Tape, held <- Holders
Implements == Promise!Spec

TypeOK ==
  /\ buf \in [0 .. Cap - 1 -> 0 .. Lo - 1]
  /\ start \in 0 .. Cap - 1 /\ count \in 0 .. Cap
  /\ newest \in 0 .. M - 1 /\ last \in 0 .. M - 1
  /\ gaps \in 0 .. MaxGaps /\ skip \in BOOLEAN /\ freeze \in Nat
  /\ csv \in [Readers -> [open : BOOLEAN, n : 0 .. Cap, newest : 0 .. M - 1,
                          row : 0 .. Cap, changed : BOOLEAN, aborted : BOOLEAN,
                          out : Seq(0 .. M - 1)]]

(* Two downloads at once never release the ring under each other: the      *)
(* count is of the downloads that are open.                                *)
HoldersCounted == freeze = Cardinality(Holders)

(* A download is whole: it never meets a ring that has changed, its header *)
(* speaks of the recording there is, and its rows are that recording, in   *)
(* order, under their full numbers.                                        *)
DownloadWhole ==
  \A r \in Holders :
    /\ ~csv[r].changed /\ ~csv[r].aborted
    /\ csv[r].n = count /\ csv[r].newest = newest
    /\ csv[r].out = SubSeq(Tape, 1, csv[r].row)

(* diag.gaps is about the sampler's health: it counts no jump that is none *)
(* of the sampler's, so that a download leaves no trace in it.             *)
GapsAreReal == [][gaps' > gaps => last' # (last + 1) % M]_vars

(* Every download lets go of the ring, and the recording goes on.          *)
Thaws == \A r \in Readers : csv[r].open ~> ~csv[r].open
=============================================================================
