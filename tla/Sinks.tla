------------------------------- MODULE Sinks -------------------------------
(***************************************************************************)
(* The perf sinks: requests offer samples to a bounded queue, one          *)
(* goroutine inserts them in batches, keeps a batch whose insert failed    *)
(* and makes a last attempt when the process stops (perf/clickhouse.go,    *)
(* perf/tinybird.go).  The two differ in that last attempt.  An insert     *)
(* whose answer is lost fails for the sink although the rows are stored.   *)
(* The counter of dropped samples is only logged and is left out.          *)
(***************************************************************************)
EXTENDS Naturals, Sequences, SequencesExt, FiniteSets

CONSTANTS QueueSize, BatchSize,
          MaxSamples,      \* bound: samples observed
          MaxRows          \* bound: rows stored, repeated ones included

ASSUME SinksAssumption ==
  QueueSize \in Nat \ {0} /\ BatchSize \in Nat \ {0} /\ MaxSamples \in Nat /\ MaxRows \in Nat

VARIABLES sink,       \* "clickhouse" or "tinybird"
          sinkStep,   \* where Run is
          stopping,   \* ctx is done
          queue,      \* the channel
          pending,    \* the encoded batch
          rows,       \* what the table holds
          seen,       \* history: samples observed so far, numbered in their order
          dropped,    \* history: those that met a full queue
          repeated,   \* history: an insert stored its rows and failed
          kept,       \* history: Run stopped with a batch kept from a failed insert
          missed      \* history: samples that came after the last drain

sinkVars == <<sink, sinkStep, stopping, queue, pending, rows, seen, dropped, repeated, kept, missed>>
runVars  == <<stopping, pending, rows, repeated, kept>>

SinkInit ==
  /\ sink \in {"clickhouse", "tinybird"} /\ sinkStep = "waiting" /\ stopping = FALSE
  /\ queue = <<>> /\ pending = <<>> /\ rows = <<>>
  /\ seen = 0 /\ dropped = {} /\ repeated = FALSE /\ kept = FALSE /\ missed = {}

LeastOf(m, n) == IF m < n THEN m ELSE n
FirstOf(n) == SubSeq(queue, 1, LeastOf(n, Len(queue)))
AfterFirst(n) == SubSeq(queue, LeastOf(n, Len(queue)) + 1, Len(queue))

\* Observe never waits: a full queue drops the sample.
Observe ==
  /\ seen < MaxSamples
  /\ seen' = seen + 1
  /\ IF Len(queue) < QueueSize
       THEN queue' = Append(queue, seen + 1) /\ UNCHANGED dropped
       ELSE dropped' = dropped \cup {seen + 1} /\ UNCHANGED queue
  /\ missed' = missed \cup (IF sinkStep \in {"last", "stopped"} THEN {seen + 1} ELSE {})
  /\ UNCHANGED <<sink, sinkStep, runVars>>

\* A tick of Run: flush takes a new batch only when none is kept.
Flush ==
  /\ sinkStep = "waiting"
  /\ pending # <<>> \/ queue # <<>>
  /\ pending' = IF pending = <<>> THEN FirstOf(BatchSize) ELSE pending
  /\ queue' = IF pending = <<>> THEN AfterFirst(BatchSize) ELSE queue
  /\ sinkStep' = "inserting"
  /\ UNCHANGED <<sink, stopping, rows, seen, dropped, repeated, kept, missed>>

\* insert, post: the rows are stored and the answer arrives.
Insert ==
  /\ sinkStep = "inserting" /\ ~stopping
  /\ Len(rows) + Len(pending) <= MaxRows
  /\ rows' = rows \o pending
  /\ pending' = <<>>
  /\ sinkStep' = "waiting"
  /\ UNCHANGED <<sink, stopping, queue, seen, dropped, repeated, kept, missed>>

Retained_Cleared(batch) == <<>>
Retained(batch) == batch

\* It fails, stored or not; so does one that ctx cancels.
InsertFails(stored) ==
  /\ sinkStep = "inserting"
  /\ stored => Len(rows) + Len(pending) <= MaxRows
  /\ rows' = IF stored THEN rows \o pending ELSE rows
  /\ repeated' = (repeated \/ stored)
  /\ pending' = Retained(pending)
  /\ sinkStep' = "waiting"
  /\ UNCHANGED <<sink, stopping, queue, seen, dropped, kept, missed>>

\* The process is told to stop.
Stop ==
  /\ ~stopping
  /\ stopping' = TRUE
  /\ UNCHANGED <<sink, sinkStep, queue, pending, rows, seen, dropped, repeated, kept, missed>>

\* Run sees it.  ClickHouse's goes straight to the insert if a batch is kept.
Drains == sink = "tinybird" \/ pending = <<>>
ContextDone ==
  /\ sinkStep = "waiting" /\ stopping
  /\ kept' = (pending # <<>>)
  /\ sinkStep' = IF Drains THEN "draining" ELSE "last"
  /\ UNCHANGED <<sink, stopping, queue, pending, rows, seen, dropped, repeated, missed>>

\* The loop around drain ends with an empty batch.
DrainMore(batch) == batch # <<>>
Drain ==
  /\ sinkStep = "draining"
  /\ pending' = pending \o FirstOf(BatchSize)
  /\ queue' = AfterFirst(BatchSize)
  /\ sinkStep' = IF DrainMore(FirstOf(BatchSize)) THEN "draining" ELSE "last"
  /\ UNCHANGED <<sink, stopping, rows, seen, dropped, repeated, kept, missed>>

\* The last insert; its failure loses the batch.
LastInsert(stored) ==
  /\ sinkStep = "last"
  /\ stored => Len(rows) + Len(pending) <= MaxRows
  /\ rows' = IF stored THEN rows \o pending ELSE rows
  /\ pending' = IF stored THEN <<>> ELSE pending
  /\ sinkStep' = "stopped"
  /\ UNCHANGED <<sink, stopping, queue, seen, dropped, repeated, kept, missed>>

SinkNext ==
  \/ Observe \/ Flush \/ Insert \/ Stop \/ ContextDone \/ Drain
  \/ \E stored \in BOOLEAN : InsertFails(stored) \/ LastInsert(stored)

SinkSpec == SinkInit /\ [][SinkNext]_sinkVars
-----------------------------------------------------------------------------
IsFirst(s, i) == \A j \in 1 .. i - 1 : s[j] # s[i]

(* "Under sustained sink failure samples are dropped", and only by a full   *)
(* queue: whatever inserts fail, every other sample is stored, kept or      *)
(* queued, in the order of observation, and none is stored twice unless an  *)
(* insert failed after it had stored its rows.                              *)
SamplesKept ==
  LET all == rows \o pending \o queue IN
  /\ 1 .. seen = ToSet(all) \cup dropped
  /\ dropped \cap ToSet(all) = {}
  /\ \A i, j \in DOMAIN all : IsFirst(all, i) /\ IsFirst(all, j) /\ i < j => all[i] < all[j]
  /\ ~repeated => Len(all) = Cardinality(ToSet(all))

(* Run "makes one bounded final flush attempt before returning": if that    *)
(* succeeds, every sample observed before the last drain is stored, unless  *)
(* it met a full queue.  The exception is ClickHouse's: with a batch kept   *)
(* from a failed insert, the queue is not drained.                          *)
FlushedAtStop ==
  (sinkStep = "stopped" /\ pending = <<>> /\ (sink = "tinybird" \/ ~kept)) =>
    1 .. seen = ToSet(rows) \cup dropped \cup missed

\* Samples are accounted for: each one is stored, kept, queued or was dropped
\* by a full queue, over failed and repeated inserts, and a sink whose last
\* insert succeeds leaves none behind but for ClickHouse's with a kept batch.
SamplesAccounted == SamplesKept /\ FlushedAtStop
=============================================================================
