------------------------------ MODULE Telemetry -------------------------------
(***************************************************************************)
(* The error rows of one Python process (python/src/shared/telemetry.py).  *)
(* log_processing_error puts a row on a bounded queue that a daemon thread *)
(* writes to the database; the worker process flushes the queue before it  *)
(* exits, while threads of abandoned jobs may still log.                   *)
(*                                                                         *)
(* Left out: the contents of the rows, the lazily created connection pool, *)
(* and trace_step, whose rows of processing_jobs each thread writes itself.*)
(***************************************************************************)
EXTENDS Naturals, Sequences, SequencesExt

CONSTANTS
  ErrorRow,   \* calls of log_processing_error
  QueueMax    \* _ERROR_QUEUE_MAX

ASSUME TelemetryAssumption ==
  /\ QueueMax \in Nat \ {0}
  /\ {"none", "idle"} \cap ErrorRow = {}

VARIABLES
  errorQueue, \* _error_queue
  writer,     \* _error_writer_thread: "none", "idle" or the row it is writing
  logged,     \* rows log_processing_error was called with
  written,    \* rows in processing_jobs_errors
  refused,    \* rows dropped on a full queue
  unwritten,  \* rows whose INSERT failed
  flushing,   \* flush_processing_errors: "no", "waiting", "drained", "timeout"
  asked       \* history: what was logged when the flush began

queueVars == <<errorQueue, writer, logged, written, refused, unwritten>>
telemetryVars == <<queueVars, flushing, asked>>

TelemetryInit ==
  /\ errorQueue = <<>> /\ writer = "none"
  /\ logged = {} /\ written = {} /\ refused = {} /\ unwritten = {}
  /\ flushing = "no" /\ asked = {}

-------------------------------------------------------------------------------
\* log_processing_error: the writer is started when there is none
\* (_ensure_error_writer, under its lock), then put_nowait.
LogError(r) ==
  /\ r \notin logged
  /\ logged' = logged \cup {r}
  /\ writer' = IF writer = "none" THEN "idle" ELSE writer
  /\ IF Len(errorQueue) < QueueMax
     THEN errorQueue' = Append(errorQueue, r) /\ UNCHANGED refused
     ELSE refused' = refused \cup {r} /\ UNCHANGED errorQueue
  /\ UNCHANGED <<written, unwritten, flushing, asked>>

\* _error_writer_loop: get ...
TakeRow ==
  /\ writer = "idle" /\ errorQueue # <<>>
  /\ writer' = Head(errorQueue)
  /\ errorQueue' = Tail(errorQueue)
  /\ UNCHANGED <<logged, written, refused, unwritten, flushing, asked>>

\* Mutant: the loop has no except: a failed INSERT kills the thread, and the
\* next call would have to start another.
WriteRowOrDie ==
  /\ writer \in ErrorRow
  /\ \/ written' = written \cup {writer} /\ writer' = "idle" /\ UNCHANGED unwritten
     \/ unwritten' = unwritten \cup {writer} /\ writer' = "none" /\ UNCHANGED written
  /\ UNCHANGED <<errorQueue, logged, refused, flushing, asked>>

\* ... and _insert_processing_error, whose failure is logged.
WriteRow ==
  /\ writer \in ErrorRow
  /\ \/ written' = written \cup {writer} /\ UNCHANGED unwritten
     \/ unwritten' = unwritten \cup {writer} /\ UNCHANGED written
  /\ writer' = "idle"
  /\ UNCHANGED <<errorQueue, logged, refused, flushing, asked>>

BeginFlush ==
  /\ flushing = "no"
  /\ flushing' = "waiting"
  /\ asked' = logged
  /\ UNCHANGED queueVars

\* Mutant: the flush returns when it finds the queue short of one row.
EndFlushEarly ==
  /\ flushing = "waiting"
  /\ \/ Len(errorQueue) <= 1 /\ flushing' = "drained"
     \/ flushing' = "timeout"
  /\ UNCHANGED <<queueVars, asked>>

\* flush_processing_errors polls empty(); the row the writer holds is not in
\* the queue any more.
EndFlush ==
  /\ flushing = "waiting"
  /\ \/ errorQueue = <<>> /\ flushing' = "drained"
     \/ flushing' = "timeout"
  /\ UNCHANGED <<queueVars, asked>>

TelemetryNext ==
  \/ \E r \in ErrorRow : LogError(r)
  \/ TakeRow \/ WriteRow \/ BeginFlush \/ EndFlush

TelemetrySpec == TelemetryInit /\ [][TelemetryNext]_telemetryVars

-------------------------------------------------------------------------------
(* Properties *)

TelemetryTypeOK ==
  /\ errorQueue \in Seq(ErrorRow) /\ Len(errorQueue) <= QueueMax
  /\ writer \in {"none", "idle"} \cup ErrorRow
  /\ logged \subseteq ErrorRow /\ written \subseteq ErrorRow
  /\ refused \subseteq ErrorRow /\ unwritten \subseteq ErrorRow
  /\ flushing \in {"no", "waiting", "drained", "timeout"} /\ asked \subseteq ErrorRow

Settled == written \cup unwritten \cup refused

\* A row is in the backlog until its INSERT has ended, also while the writer
\* holds it and the queue does not.
Backlog == IF writer \in ErrorRow THEN <<writer>> \o errorQueue ELSE errorQueue
Outcome == [r \in ErrorRow |->
  IF r \in written THEN "kept" ELSE IF r \in unwritten \cup refused THEN "lost" ELSE "none"]

AsLog == INSTANCE ErrorLog WITH
  Row <- ErrorRow, Capacity <- QueueMax, backlog <- Backlog, outcome <- Outcome,
  flush <- flushing, owed <- asked

\* "Record a per-page/per-step error asynchronously", "Block until the error
\* queue is drained. Call before process exit": the queue and its writer are
\* one log that loses a new row only when it is full, settles the others in
\* order, and leaves at most one row behind a flush that did not time out,
\* although callers go on logging meanwhile.
ImplementsErrorLog == AsLog!Spec

\* "Survives individual failures": after any failed INSERTs, a row without an
\* outcome is on the queue or in the writer's hands, and the writer is alive.
NoRowForgotten ==
  \A r \in logged \ Settled :
    writer # "none" /\ (writer = r \/ r \in ToSet(errorQueue))
===============================================================================
