--------------------------- MODULE CandidateBuffer ---------------------------
(***************************************************************************)
(* The RAM window of candidates, tms/migration/candidate_buffer.py, with   *)
(* the read that fills it (JobRepository.pending_chunk, run by a thread of *)
(* tms/runtime/worker_pool.py) and the way the executor uses it.           *)
(*                                                                         *)
(* A fill is submitted ahead of need, is read by the worker at some later  *)
(* time, between the executor's own writes, and is put into the queue only *)
(* when the executor finds the queue empty.                                *)
(*                                                                         *)
(* Abstractions: a candidate is its ordinal; an item is READY, RETRY or    *)
(* DONE; an attempt settles the candidate, leaves it for a later run, or   *)
(* marks it RETRY and goes on with it (a server wait).                     *)
(***************************************************************************)
EXTENDS Integers, Sequences, FiniteSets

CONSTANTS
  Ordinals,     \* the ordinals of the items, 1..n (in the code 0..n-1)
  ChunkSize,    \* chunk_size, rows per fill
  LowWatermark, \* low_watermark, queue length that starts the next fill
  MaxRuns,      \* bound: runs of the job, the resumed ones included
  MaxReadErrors \* bound: fills that raise

ASSUME BufferAssumption ==
  /\ Ordinals \subseteq Nat \ {0} /\ IsFiniteSet(Ordinals)
  /\ ChunkSize \in Nat \ {0}
  /\ {LowWatermark, MaxRuns, MaxReadErrors} \subseteq Nat

VARIABLES
  item,       \* migration_items.state
  queue,      \* CandidateBuffer.queue
  lastLoaded, \* last_loaded
  loading,    \* _loading
  exhausted,  \* _exhausted
  pc,         \* where run is
  cand,       \* the candidate popped last, 0 before the first
  results,    \* ordinals settled and not yet written (_result_buffer)
  runs, readErrors

windowVars == <<queue, lastLoaded, loading, exhausted>>
boundVars  == <<runs, readErrors>>
bufferVars == <<item, windowVars, pc, cand, results, boundVars>>

Pending(o) == item[o] \in {"READY", "RETRY"}

\* _loading: no future, a submitted one, one with its rows, one that raised.
NoFill       == [st |-> "none"]
Submitted(n) == [st |-> "submitted", after |-> n]
ReadRows(rs) == [st |-> "read", rows |-> rs]
Raised       == [st |-> "raised"]

\* ORDER BY ordinal: the i-th has i-1 before it.
InOrder(S) ==
  [i \in 1..Cardinality(S) |->
     CHOOSE o \in S : Cardinality({p \in S : p < o}) = i - 1]

\* pending_chunk: the first ChunkSize pending ordinals after n, in order.
PendingChunk(n) ==
  LET all == {o \in Ordinals : o > n /\ Pending(o)}
  IN InOrder({o \in all : Cardinality({p \in all : p < o}) < ChunkSize})

\* Slip: the refill starts one ordinal too far.
SubmitFillSkips(load, last, exh) ==
  IF load # NoFill \/ exh THEN load ELSE Submitted(last + 1)

\* _submit_fill, given the fields it reads: what _loading is afterwards.
SubmitFill(load, last, exh) ==
  IF load # NoFill \/ exh THEN load ELSE Submitted(last)

-----------------------------------------------------------------------------
BufferInit ==
  /\ item = [o \in Ordinals |-> "READY"]
  /\ queue = <<>> /\ lastLoaded = 0 /\ loading = NoFill /\ exhausted = FALSE
  /\ pc = "idle" /\ cand = 0 /\ results = {}
  /\ runs = 0 /\ readErrors = 0

\* run: a new CandidateBuffer, and prime submits its first fill.
BeginRun ==
  /\ pc = "idle" /\ runs < MaxRuns
  /\ runs' = runs + 1
  /\ queue' = <<>> /\ lastLoaded' = 0 /\ exhausted' = FALSE
  /\ loading' = SubmitFill(NoFill, 0, FALSE)
  /\ pc' = "prime" /\ cand' = 0 /\ results' = {}
  /\ UNCHANGED <<item, readErrors>>

\* A worker thread runs pending_chunk.
WorkerReads ==
  /\ loading.st = "submitted"
  /\ \/ loading' = ReadRows(PendingChunk(loading.after)) /\ UNCHANGED readErrors
     \/ /\ readErrors < MaxReadErrors
        /\ readErrors' = readErrors + 1
        /\ loading' = Raised
  /\ UNCHANGED <<item, queue, lastLoaded, exhausted, pc, cand, results, runs>>

\* _finish_fill after its await, when the future has its rows.
FinishFill ==
  /\ loading.st = "read"
  /\ loading' = NoFill
  /\ queue' = queue \o loading.rows
  /\ exhausted' = (exhausted \/ loading.rows = <<>>)
  /\ lastLoaded' = IF loading.rows = <<>> THEN lastLoaded
                   ELSE loading.rows[Len(loading.rows)]

PrimeReturns ==
  /\ pc = "prime" /\ FinishFill
  /\ pc' = "ready"
  /\ UNCHANGED <<item, cand, results, boundVars>>

\* pop: at once when the queue holds something, else through _finish_fill.
Pop ==
  /\ pc = "ready"
  /\ pc' = IF queue = <<>> THEN "fill" ELSE "take"
  /\ loading' = IF queue = <<>> THEN SubmitFill(loading, lastLoaded, exhausted) ELSE loading
  /\ UNCHANGED <<item, queue, lastLoaded, exhausted, cand, results, boundVars>>

PopFilled ==
  /\ pc = "fill"
  /\ \/ FinishFill
     \/ loading = NoFill /\ UNCHANGED windowVars
  /\ pc' = "take"
  /\ UNCHANGED <<item, cand, results, boundVars>>

\* The rest of pop: hand out the head and prefetch at the low watermark.
Take ==
  /\ pc = "take" /\ queue # <<>>
  /\ cand' = Head(queue)
  /\ queue' = Tail(queue)
  /\ loading' = IF Len(Tail(queue)) <= LowWatermark
                THEN SubmitFill(loading, lastLoaded, exhausted) ELSE loading
  /\ pc' = "attempt"
  /\ UNCHANGED <<item, lastLoaded, exhausted, results, boundVars>>

\* pop returns None: the run flushes what it holds and completes the job.
TakeNone ==
  /\ pc = "take" /\ queue = <<>>
  /\ pc' = "ended"
  /\ UNCHANGED <<item, windowVars, cand, results, boundVars>>

\* A fill that raised: prime's error leaves run before its try, so that only a
\* restart brings the job back; pop's error ends the job as FAILED.
FillRaises ==
  /\ pc \in {"prime", "fill"} /\ loading = Raised
  /\ pc' = IF pc = "prime" THEN "broken" ELSE "failed"
  /\ UNCHANGED <<item, windowVars, cand, results, boundVars>>

-----------------------------------------------------------------------------
(* The executor around the buffer.                                         *)

Recorded == [o \in Ordinals |-> IF o \in results THEN "DONE" ELSE item[o]]

\* _attempt ends with a final result for the candidate.
Settle ==
  /\ pc = "attempt"
  /\ results' = results \cup {cand}
  /\ pc' = "ready"
  /\ UNCHANGED <<item, windowVars, cand, boundVars>>

\* A batch, the flush timer, or the flush at the end of the run.
Flush ==
  /\ results # {} /\ pc # "idle"
  /\ item' = Recorded /\ results' = {}
  /\ UNCHANGED <<windowVars, pc, cand, boundVars>>

\* A server wait: flush, mark the candidate RETRY, later try it again.
MarkRetry ==
  /\ pc = "attempt" /\ item[cand] = "READY"
  /\ item' = [Recorded EXCEPT ![cand] = "RETRY"]
  /\ results' = {}
  /\ UNCHANGED <<windowVars, pc, cand, boundVars>>

\* Pause, stop or a pausing error: flush, then leave the run.
Interrupt ==
  /\ pc \in {"ready", "attempt"} /\ results = {}
  /\ pc' = "idle"
  /\ UNCHANGED <<item, windowVars, cand, results, boundVars>>

\* The process ends at any moment; recovery makes an unfinished job resumable.
Crash ==
  /\ pc \notin {"idle", "failed"} /\ ~(pc = "ended" /\ results = {})
  /\ pc' = "idle" /\ results' = {}
  /\ loading' = NoFill
  /\ UNCHANGED <<item, queue, lastLoaded, exhausted, cand, boundVars>>

Await == PrimeReturns \/ PopFilled \/ FillRaises

BufferNext ==
  \/ BeginRun \/ WorkerReads \/ Await \/ Pop \/ Take \/ TakeNone
  \/ Settle \/ Flush \/ MarkRetry \/ Interrupt \/ Crash

\* Worker threads and the network loop go on; an attempt ends (its watchdog).
Fairness ==
  /\ WF_bufferVars(WorkerReads) /\ WF_bufferVars(Await) /\ WF_bufferVars(Pop)
  /\ WF_bufferVars(Take \/ TakeNone) /\ WF_bufferVars(Settle)

BufferSpec == BufferInit /\ [][BufferNext]_bufferVars /\ Fairness

-----------------------------------------------------------------------------
\* The buffer's fields have their types and the queue holds ordinals in order.
BufferTypeOK ==
  /\ item \in [Ordinals -> {"READY", "RETRY", "DONE"}]
  /\ queue \in Seq(Ordinals) /\ lastLoaded \in Ordinals \cup {0}
  /\ loading.st \in {"none", "submitted", "read", "raised"}
  /\ exhausted \in BOOLEAN
  /\ pc \in {"idle", "prime", "ready", "fill", "take", "attempt", "ended",
             "failed", "broken"}
  /\ cand \in Ordinals \cup {0} /\ results \subseteq Ordinals
  /\ runs \in 0..MaxRuns /\ readErrors \in 0..MaxReadErrors

\* What the run sees of the buffer.
Status ==
  CASE pc = "idle"              -> "idle"
    [] pc \in {"prime", "ready"} -> IF cand = 0 THEN "begun" ELSE "given"
    [] pc \in {"fill", "take"}  -> "asked"
    [] pc = "attempt"           -> "given"
    [] pc = "ended"             -> "ended"
    [] OTHER                    -> "failed"

Promise == INSTANCE PendingItems WITH last <- cand, status <- Status

\* Behind the prefetching, the buffer is the plain list of pending items: with
\* reads in flight while results are written, a run is offered exactly the next
\* pending item, hears the end only when none is left, and is always answered.
OffersPendingInOrder == Promise!Spec

=============================================================================
