---------------------------- MODULE IndexingWorker ----------------------------
(***************************************************************************)
(* chatrag-worker: what _process_message (worker_pubsub.py) and the job it *)
(* runs (index_documents, shared/indexing.py) do with one Pub/Sub message, *)
(* the indexing job of one conversation, over all its deliveries.          *)
(*                                                                         *)
(* Each delivery is an attempt with three threads of its own: the callback *)
(* that owns the message (cb), the job in the executor (job), the early    *)
(* description started for a PDF whose done-callback may emit the welcome  *)
(* (early), and within the job the upsert submitted to the pool (upsert).  *)
(* A row's text is the kind of welcome it carries, page_progress rows are  *)
(* left out, and so is the malformed payload, which names no conversation. *)
(***************************************************************************)
EXTENDS Integers, Sequences, SequencesExt

CONSTANTS
  Worker,         \* worker processes
  Nobody,         \* the host of an attempt not delivered yet
  HasPdf,         \* whether there is a PDF among the files: the cases taken
  MaxDeliveries,  \* PUBSUB_MAX_DELIVERY_ATT of infra/pubsub/setup.sh
  MaxFaults       \* bound on crashes, lost leases, failed INSERTs and the like

ASSUME WorkerAssumption ==
  /\ Nobody \notin Worker
  /\ HasPdf \subseteq BOOLEAN
  /\ MaxDeliveries \in Nat \ {0}
  /\ MaxFaults \in Nat

Attempt == 1 .. MaxDeliveries

VARIABLES
  pdf,         \* there is a PDF among the files (streamed, in cloud mode)
  message,     \* the Pub/Sub message
  deliveries,  \* attempts so far
  host,        \* host[a]: the worker attempt a was delivered to
  cb,          \* cb[a]: where _process_message is
  job,         \* job[a]: where index_documents is
  early,       \* early[a]: early_describe_future and its done-callback
  upsert,      \* upsert[a]: upsert_future
  result,      \* result[a]: the job's description, by its welcome text
  welcomed,    \* welcomed[a]: the closure variable welcome_emitted
  rows,        \* rows[a]: what attempt a has inserted, oldest first
  dropped,     \* dropped[a]: the rows whose INSERT failed
  chunks,      \* the Chroma collection holds chunks of the files
  cleared,     \* history: attempts over when the collection was last deleted
  faults

attemptVars == <<pdf, message, deliveries, host, cb>>
jobVars == <<job, early, upsert, result, welcomed>>
storeVars == <<rows, dropped, chunks, cleared>>
vars == <<attemptVars, jobVars, storeVars, faults>>

JobOver == {"returned", "rejected", "raised", "dead"}
Fault == faults < MaxFaults /\ faults' = faults + 1
Row(type, text) == [type |-> type, text |-> text]

\* publishIndexingJob has published the message; nothing is stored yet.
Init ==
  /\ pdf \in HasPdf
  /\ message = "pending"
  /\ deliveries = 0
  /\ host = [a \in Attempt |-> Nobody]
  /\ cb = [a \in Attempt |-> "none"]
  /\ job = [a \in Attempt |-> "none"]
  /\ early = [a \in Attempt |-> "none"]
  /\ upsert = [a \in Attempt |-> "none"]
  /\ result = [a \in Attempt |-> "none"]
  /\ welcomed = [a \in Attempt |-> FALSE]
  /\ rows = [a \in Attempt |-> <<>>]
  /\ dropped = [a \in Attempt |-> {}]
  /\ chunks = FALSE
  /\ cleared = {}
  /\ faults = 0

GotoCb(a, label) == cb' = [cb EXCEPT ![a] = label]
GotoJob(a, label) == job' = [job EXCEPT ![a] = label]

\* _emit_event_to_db: a failed INSERT is logged and forgotten, a failed
\* getconn leaves the function.  LoseRow stands for what both lose.
LoseRow(a, row) ==
  /\ Fault
  /\ dropped' = [dropped EXCEPT ![a] = @ \cup {row}]
  /\ UNCHANGED rows

EmitEventToDb(a, row) ==
  \/ /\ rows' = [rows EXCEPT ![a] = Append(@, row)]
     /\ UNCHANGED <<dropped, faults>>
  \/ LoseRow(a, row)

-------------------------------------------------------------------------------
(* Pub/Sub *)

\* max_messages = 1: one callback per worker.  The message comes again once
\* its earlier deliveries are over, or when a lease is lost under a callback.
Deliver(w, a) ==
  /\ message = "pending"
  /\ a = deliveries + 1
  /\ \A b \in Attempt : host[b] = w => cb[b] = "over"
  /\ \/ (\A b \in 1 .. deliveries : cb[b] = "over") /\ UNCHANGED faults
     \/ (\E b \in 1 .. deliveries : cb[b] # "over") /\ Fault
  /\ deliveries' = a
  /\ host' = [host EXCEPT ![a] = w]
  /\ GotoCb(a, "resolve")
  /\ UNCHANGED <<pdf, message, jobVars, storeVars>>

DeadLetter ==
  /\ message = "pending"
  /\ \A a \in Attempt : cb[a] = "over"
  /\ message' = "dead"
  /\ UNCHANGED <<pdf, deliveries, host, cb, jobVars, storeVars, faults>>

-------------------------------------------------------------------------------
(* _process_message *)

FilesResolved(a) ==
  /\ cb[a] = "resolve"
  /\ GotoCb(a, "wait")
  /\ GotoJob(a, "start")
  /\ UNCHANGED <<pdf, message, deliveries, host, early, upsert, result, welcomed,
                 storeVars, faults>>

FilesMissing(a) ==
  /\ cb[a] = "resolve"
  /\ GotoCb(a, "errorAck")
  /\ UNCHANGED <<pdf, message, deliveries, host, jobVars, storeVars, faults>>

\* future.result(): since Python 3.11 futures.TimeoutError is the builtin, so a
\* TimeoutError the job raised takes the branch of the job's own timeout.
JobDone(a) ==
  /\ cb[a] = "wait"
  /\ \/ job[a] = "returned" /\ GotoCb(a, "ack")
     \/ job[a] = "rejected" /\ GotoCb(a, "errorAck")
     \/ job[a] = "raised" /\ \/ GotoCb(a, "errorNack")
                             \/ GotoCb(a, "errorAck")
  /\ UNCHANGED <<pdf, message, deliveries, host, jobVars, storeVars, faults>>

\* Mutant: the timeout covers the job's start only.
JobTimesOutAtStart(a) ==
  /\ cb[a] = "wait"
  /\ job[a] = "start"
  /\ GotoCb(a, "errorAck")
  /\ UNCHANGED <<pdf, message, deliveries, host, jobVars, storeVars, faults>>

\* JOB_TIMEOUT_SEC: the callback goes on, and so does the job's thread.
JobTimesOut(a) ==
  /\ cb[a] = "wait"
  /\ job[a] \notin JobOver
  /\ GotoCb(a, "errorAck")
  /\ UNCHANGED <<pdf, message, deliveries, host, jobVars, storeVars, faults>>

\* Mutant: the message is acknowledged first.
VerdictAckFirst(a) ==
  \/ /\ cb[a] = "errorAck"
     /\ message' = IF message = "pending" THEN "acked" ELSE message
     /\ GotoCb(a, "errorNack")
     /\ UNCHANGED <<pdf, deliveries, host, jobVars, storeVars, faults>>
  \/ /\ cb[a] = "errorNack"
     /\ EmitEventToDb(a, Row("error", "none"))
     /\ GotoCb(a, "nack")
     /\ UNCHANGED <<pdf, message, deliveries, host, jobVars, chunks, cleared>>

\* The error row of every branch but success.
Verdict(a) ==
  /\ cb[a] \in {"errorAck", "errorNack"}
  /\ EmitEventToDb(a, Row("error", "none"))
  /\ GotoCb(a, IF cb[a] = "errorAck" THEN "ack" ELSE "nack")
  /\ UNCHANGED <<pdf, message, deliveries, host, jobVars, chunks, cleared>>

\* No connection for it: the exception leaves the callback and the Pub/Sub
\* library gives the message back.
VerdictRaises(a) ==
  /\ cb[a] \in {"errorAck", "errorNack"}
  /\ LoseRow(a, Row("error", "none"))
  /\ GotoCb(a, "nack")
  /\ UNCHANGED <<pdf, message, deliveries, host, jobVars, chunks, cleared>>

\* The ack of a delivery that was superseded may be ignored.
Ack(a) ==
  /\ cb[a] = "ack"
  /\ \/ message' = IF message = "pending" THEN "acked" ELSE message
     \/ a < deliveries /\ UNCHANGED message
  /\ GotoCb(a, "over")
  /\ UNCHANGED <<pdf, deliveries, host, jobVars, storeVars, faults>>

Nack(a) ==
  /\ cb[a] = "nack"
  /\ GotoCb(a, "over")
  /\ UNCHANGED <<pdf, message, deliveries, host, jobVars, storeVars, faults>>

-------------------------------------------------------------------------------
(* index_documents and _index_documents_inline: the job's thread *)

\* A PDF starts the early description before its pages are read.
Start(a) ==
  /\ job[a] = "start"
  /\ early' = [early EXCEPT ![a] = IF pdf THEN "running" ELSE "none"]
  /\ GotoJob(a, "extract")
  /\ UNCHANGED <<attemptVars, upsert, result, welcomed, storeVars, faults>>

\* _on_page_ready: in cloud mode a PDF's chunks go to Chroma page by page.
StreamPage(a) ==
  /\ job[a] = "extract"
  /\ pdf
  /\ ~chunks
  /\ chunks' = TRUE
  /\ UNCHANGED <<attemptVars, jobVars, rows, dropped, cleared, faults>>

Extract(a) ==
  /\ job[a] = "extract"
  /\ GotoJob(a, "moderate")
  /\ UNCHANGED <<attemptVars, early, upsert, result, welcomed, storeVars, faults>>

\* check_content_moderation lets the content through, or fails and does so too;
\* the pool starts the upsert.
Pass(a) ==
  /\ job[a] = "moderate"
  /\ GotoJob(a, "describe")
  /\ upsert' = [upsert EXCEPT ![a] = "running"]
  /\ UNCHANGED <<attemptVars, early, result, welcomed, storeVars, faults>>

\* SexualContentError; a delete_collection that fails is swallowed.
Reject(a) ==
  /\ job[a] = "moderate"
  /\ GotoJob(a, "rejecting")
  /\ \/ /\ chunks' = FALSE
        /\ cleared' = {b \in Attempt : job[b] \in JobOver} \cup {a}
        /\ UNCHANGED faults
     \/ Fault /\ UNCHANGED <<chunks, cleared>>
  /\ UNCHANGED <<attemptVars, early, upsert, result, welcomed, rows, dropped>>

\* The early description if it came to something, else a fresh one.
Describe(a) ==
  /\ job[a] = "describe"
  /\ early[a] # "running"
  /\ \E text \in CASE early[a] \in {"none", "failed"}         -> {"empty", "text"}
                   [] early[a] = "empty"                    -> {"empty"}
                   [] early[a] \in {"check", "emit", "over"} -> {"text"} :
       result' = [result EXCEPT ![a] = text]
  /\ GotoJob(a, "check")
  /\ UNCHANGED <<attemptVars, early, upsert, welcomed, storeVars, faults>>

\* _emit_welcome on the job's thread: the test and the emission are two steps.
CheckWelcome(a) ==
  /\ job[a] = "check"
  /\ GotoJob(a, IF welcomed[a] \/ result[a] = "empty" THEN "join" ELSE "emit")
  /\ UNCHANGED <<attemptVars, early, upsert, result, welcomed, storeVars, faults>>

EmitWelcome(a) ==
  /\ job[a] = "emit"
  /\ \/ /\ EmitEventToDb(a, Row("welcome_message", result[a]))
        /\ welcomed' = [welcomed EXCEPT ![a] = TRUE]
        /\ GotoJob(a, "join")
     \/ /\ LoseRow(a, Row("welcome_message", result[a]))
        /\ GotoJob(a, "failing")
        /\ UNCHANGED welcomed
  /\ UNCHANGED <<attemptVars, early, upsert, result, chunks, cleared>>

\* upsert_chunks on the pool: all of it, nothing to do, or a failed batch.
UpsertEnds(a) ==
  /\ upsert[a] = "running"
  /\ chunks' \in {chunks, TRUE}
  /\ \E end \in {"over", "failed"} : upsert' = [upsert EXCEPT ![a] = end]
  /\ UNCHANGED <<attemptVars, job, early, result, welcomed, rows, dropped,
                 cleared, faults>>

JoinUpsert(a) ==
  /\ job[a] = "join"
  /\ upsert[a] # "running"
  /\ GotoJob(a, IF upsert[a] = "over" THEN "regen" ELSE "failing")
  /\ upsert' = [upsert EXCEPT ![a] = "none"]
  /\ UNCHANGED <<attemptVars, early, result, welcomed, storeVars, faults>>

\* _maybe_regenerate_heavy_ocr_welcome, for a streamed PDF: the new text is
\* kept whether or not its row could be written.
Regenerate(a) ==
  /\ job[a] = "regen"
  /\ GotoJob(a, "wiki")
  /\ \/ UNCHANGED <<result, rows, dropped, faults>>
     \/ /\ pdf
        /\ result' = [result EXCEPT ![a] = "regenerated"]
        /\ EmitEventToDb(a, Row("welcome_message", "regenerated"))
  /\ UNCHANGED <<attemptVars, early, upsert, welcomed, chunks, cleared>>

\* Best effort: whatever goes wrong is swallowed.
Wiki(a) ==
  /\ job[a] = "wiki"
  /\ GotoJob(a, "complete")
  /\ \/ UNCHANGED <<rows, dropped, faults>>
     \/ result[a] # "empty" /\ EmitEventToDb(a, Row("wiki_message", "none"))
  /\ UNCHANGED <<attemptVars, early, upsert, result, welcomed, chunks, cleared>>

Complete(a) ==
  /\ job[a] = "complete"
  /\ \/ EmitEventToDb(a, Row("complete", result[a])) /\ GotoJob(a, "succeeding")
     \/ LoseRow(a, Row("complete", result[a])) /\ GotoJob(a, "failing")
  /\ UNCHANGED <<attemptVars, early, upsert, result, welcomed, chunks, cleared>>

\* Anything else that raises on the way.
JobRaises(a) ==
  /\ job[a] \in {"start", "extract", "describe", "regen"}
  /\ GotoJob(a, "failing")
  /\ UNCHANGED <<attemptVars, early, upsert, result, welcomed, storeVars, faults>>

\* Mutant: the pool is left without waiting for the upsert.
ReleaseUnjoined(a) ==
  /\ \/ job[a] = "succeeding" /\ GotoJob(a, "returned")
     \/ job[a] = "rejecting" /\ GotoJob(a, "rejected")
     \/ job[a] = "failing" /\ GotoJob(a, "raised")
  /\ UNCHANGED <<attemptVars, early, upsert, result, welcomed, storeVars, faults>>

\* The pool is joined on the way out; the finally of index_documents gives the
\* CPU slots back, and its ValueError replaces the job's outcome (CpuBudget).
Release(a) ==
  /\ upsert[a] # "running"
  /\ \/ job[a] = "succeeding" /\ GotoJob(a, "returned") /\ UNCHANGED faults
     \/ job[a] = "rejecting" /\ GotoJob(a, "rejected") /\ UNCHANGED faults
     \/ job[a] = "failing" /\ GotoJob(a, "raised") /\ UNCHANGED faults
     \/ /\ job[a] \in {"succeeding", "rejecting"}
        /\ GotoJob(a, "raised")
        /\ Fault
  /\ upsert' = [upsert EXCEPT ![a] = "none"]
  /\ result' = [result EXCEPT ![a] = "none"]
  /\ early' = [early EXCEPT ![a] = IF @ \in {"empty", "failed"} THEN "over" ELSE @]
  /\ UNCHANGED <<attemptVars, welcomed, storeVars>>

-------------------------------------------------------------------------------
(* The early description: _prefetch_pdf_welcome and the callback _done *)

GotoEarly(a, label) == early' = [early EXCEPT ![a] = label]

\* A welcome, an empty one, or none at all; only the first is emitted, and the
\* others tell nobody anything once the job is over.
EarlyEnds(a) ==
  /\ early[a] = "running"
  /\ \E end \in {"check"} \cup IF job[a] \in JobOver THEN {"over"}
                             ELSE {"empty", "failed"} : GotoEarly(a, end)
  /\ UNCHANGED <<attemptVars, job, upsert, result, welcomed, storeVars, faults>>

\* Mutant: _emit_welcome sets its flag before it emits.
EarlyCheckSets(a) ==
  /\ early[a] = "check"
  /\ GotoEarly(a, IF welcomed[a] THEN "over" ELSE "emit")
  /\ welcomed' = [welcomed EXCEPT ![a] = TRUE]
  /\ UNCHANGED <<attemptVars, job, upsert, result, storeVars, faults>>

EarlyCheck(a) ==
  /\ early[a] = "check"
  /\ GotoEarly(a, IF welcomed[a] THEN "over" ELSE "emit")
  /\ UNCHANGED <<attemptVars, job, upsert, result, welcomed, storeVars, faults>>

EarlyEmit(a) ==
  /\ early[a] = "emit"
  /\ GotoEarly(a, "over")
  /\ \/ /\ EmitEventToDb(a, Row("welcome_message", "text"))
        /\ welcomed' = [welcomed EXCEPT ![a] = TRUE]
     \/ /\ LoseRow(a, Row("welcome_message", "text"))
        /\ UNCHANGED welcomed
  /\ UNCHANGED <<attemptVars, job, upsert, result, chunks, cleared>>

-------------------------------------------------------------------------------
\* The worker dies: its callback, and the threads of every attempt it ran.
Crash(w) ==
  LET hit == {a \in Attempt : host[a] = w}
  IN  /\ Fault
      /\ \E a \in hit : cb[a] # "over" \/ job[a] \notin JobOver \cup {"none"}
      /\ cb' = [a \in Attempt |-> IF a \in hit THEN "over" ELSE cb[a]]
      /\ job' = [a \in Attempt |->
                   IF a \in hit /\ job[a] \notin JobOver \cup {"none"}
                   THEN "dead" ELSE job[a]]
      /\ early' = [a \in Attempt |->
                     IF a \in hit /\ early[a] # "none" THEN "over" ELSE early[a]]
      /\ result' = [a \in Attempt |-> IF a \in hit THEN "none" ELSE result[a]]
      /\ upsert' = [a \in Attempt |-> IF a \in hit THEN "none" ELSE upsert[a]]
      /\ UNCHANGED <<pdf, message, deliveries, host, welcomed, storeVars>>

-------------------------------------------------------------------------------
CallbackStep(a) ==
  \/ FilesResolved(a)
  \/ FilesMissing(a)
  \/ JobDone(a)
  \/ JobTimesOut(a)
  \/ Verdict(a)
  \/ VerdictRaises(a)
  \/ Ack(a)
  \/ Nack(a)

JobStep(a) ==
  \/ Start(a)
  \/ StreamPage(a)
  \/ Extract(a)
  \/ Pass(a)
  \/ Reject(a)
  \/ Describe(a)
  \/ CheckWelcome(a)
  \/ EmitWelcome(a)
  \/ UpsertEnds(a)
  \/ JoinUpsert(a)
  \/ Regenerate(a)
  \/ Wiki(a)
  \/ Complete(a)
  \/ JobRaises(a)
  \/ Release(a)
  \/ EarlyEnds(a)
  \/ EarlyCheck(a)
  \/ EarlyEmit(a)

Next ==
  \/ \E a \in Attempt : CallbackStep(a) \/ JobStep(a)
  \/ \E w \in Worker, a \in Attempt : Deliver(w, a)
  \/ \E w \in Worker : Crash(w)
  \/ DeadLetter

Spec == Init /\ [][Next]_vars

\* Pub/Sub redelivers what is pending and the callback is a bounded program
\* around one wait with a timeout.  Nothing is assumed of the job.
FairSpec ==
  /\ Spec
  /\ WF_vars(DeadLetter)
  /\ \A a \in Attempt : /\ WF_vars(\E w \in Worker : Deliver(w, a))
                        /\ WF_vars(CallbackStep(a))

-------------------------------------------------------------------------------
(* Properties *)

Label == {"none", "empty", "text", "regenerated"}
RowType == {"welcome_message", "wiki_message", "complete", "error"}
RowSet == [type : RowType, text : Label]

TypeOK ==
  /\ pdf \in HasPdf
  /\ message \in {"pending", "acked", "dead"}
  /\ deliveries \in 0 .. MaxDeliveries
  /\ host \in [Attempt -> Worker \cup {Nobody}]
  /\ cb \in [Attempt -> {"none", "resolve", "wait", "errorAck", "errorNack",
                         "ack", "nack", "over"}]
  /\ job \in [Attempt -> JobOver \cup
                {"none", "start", "extract", "moderate", "describe", "check",
                 "emit", "join", "regen", "wiki", "complete", "succeeding",
                 "rejecting", "failing"}]
  /\ early \in [Attempt -> {"none", "running", "check", "emit", "empty", "failed",
                            "over"}]
  /\ upsert \in [Attempt -> {"none", "running", "over", "failed"}]
  /\ result \in [Attempt -> Label]
  /\ welcomed \in [Attempt -> BOOLEAN]
  /\ rows \in [Attempt -> Seq(RowSet)]
  /\ dropped \in [Attempt -> SUBSET RowSet]
  /\ chunks \in BOOLEAN
  /\ cleared \in SUBSET Attempt
  /\ faults \in 0 .. MaxFaults

Written(a) == dropped[a] \cup ToSet(rows[a])
HasVerdict(a) == \E row \in Written(a) : row.type \in {"complete", "error"}
Welcomed(a, text) == Row("welcome_message", text) \in Written(a)

\* The worker acknowledges a message only when the conversation has been told
\* how the job ended: some complete or error row was written (or its INSERT
\* failed), whichever of the callback, a crash or a redelivery came first.
AckedHasVerdict == message = "acked" => \E a \in Attempt : HasVerdict(a)

\* A complete row that carries a welcome follows the welcome_message row that
\* shows it, although two threads share the flag that says it was emitted.
WelcomeFirst(inserted, lost) ==
  \A i \in DOMAIN inserted :
    LET row == inserted[i]
        welcome == Row("welcome_message", row.text)
    IN  row.type = "complete" /\ row.text # "empty" =>
          welcome \in lost \/ \E j \in 1 .. i - 1 : inserted[j] = welcome

WelcomeBeforeComplete == \A a \in Attempt : WelcomeFirst(rows[a], dropped[a])

\* When the content was rejected and the collection deleted, nothing of it is
\* searchable afterwards, unless an attempt that was still running then wrote
\* it: neither crashed, failed and retried attempts nor their pool threads
\* leave chunks behind.
RejectedLeavesNoChunks ==
  {a \in Attempt : job[a] # "none"} \subseteq cleared => ~chunks

\* Why the three hold: what a thread has written is known from where it is.
VerdictInv ==
  /\ \A a \in Attempt : cb[a] = "ack" => HasVerdict(a)
  /\ \A a \in Attempt : job[a] \in {"succeeding", "returned"} => HasVerdict(a)
  /\ AckedHasVerdict

WelcomeInv(a) ==
  /\ welcomed[a] => Welcomed(a, "text")
  /\ job[a] = "check" => result[a] \in {"empty", "text"}
  /\ job[a] = "emit" => result[a] = "text"
  /\ job[a] \in {"join", "regen", "wiki", "complete"} =>
       result[a] = "empty" \/ Welcomed(a, result[a])
  /\ WelcomeFirst(rows[a], dropped[a])

ChunkInv ==
  /\ \A a \in Attempt : upsert[a] = "running" =>
       job[a] \in {"describe", "check", "emit", "join", "failing"}
  /\ \A a \in cleared : job[a] \in JobOver \cup {"rejecting"}
  /\ RejectedLeavesNoChunks

\* An attempt has no job before its callback resolved the files.
DeliveryInv ==
  \A a \in Attempt :
    /\ cb[a] \in {"none", "resolve"} => job[a] = "none"
    /\ a > deliveries => cb[a] = "none" /\ host[a] = Nobody

IInv ==
  /\ TypeOK
  /\ VerdictInv
  /\ \A a \in Attempt : WelcomeInv(a)
  /\ DeliveryInv
  /\ ChunkInv

\* A message never hangs: whatever the job does, it is acknowledged or ends up
\* on the dead-letter topic.
MessageSettles == (message = "pending") ~> (message # "pending")

\* worker_pubsub.py: JOB_TIMEOUT_SEC is how long a job may run "before it is
\* abandoned": once its message is settled it writes no more rows.
AbandonedIsSilent ==
  [][message # "pending" => UNCHANGED rows]_vars
===============================================================================
