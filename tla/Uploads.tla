-------------------------------- MODULE Uploads --------------------------------
(***************************************************************************)
(* The routes that put documents into one conversation and index them in   *)
(* the backend's own process (worker mode "inline"): POST /upload,         *)
(* /upload/signed-url with /upload/finalize, /upload-url                   *)
(* (backend/src/routes/upload.ts), POST .../files and .../add-url          *)
(* (routes/conversations.ts), over POST /index, /index-stream and          *)
(* /describe-url of the Python server (python/indexing.ts, server.py).     *)
(* A route starts a job and answers; the job goes on on its own.           *)
(*                                                                         *)
(* What a job's pipeline does is modelled elsewhere; here it yields events *)
(* in any order the server can send them.  Left out: file contents and     *)
(* names, metadata, wiki and progress events, and the cloud worker mode.   *)
(***************************************************************************)
EXTENDS Naturals, FiniteSets

CONSTANTS
  StreamJob,   \* POST /upload and /upload/finalize
  FilesJob,    \* POST .../files
  UrlJob,      \* POST /upload-url and .../add-url
  MaxRestarts  \* bound: restarts of the backend

UploadJob == StreamJob \cup FilesJob \cup UrlJob

ASSUME UploadAssumption == MaxRestarts \in Nat

VARIABLES
  record,     \* the conversation: "none", "uploading", "processing", "ready",
              \* "failed" or "deleted"
  upload,     \* upload[j]: where the job is
  welcomes,   \* jobs that inserted an assistant message
  withWorker, \* jobs delegated to a worker that has not ended them
  restarts,
  overlapped, \* history: a job began while another was at work
  abandoned   \* history: a job left the conversation as it was

uploadHistory == <<overlapped, abandoned>>
uploadVars == <<record, upload, welcomes, withWorker, restarts, uploadHistory>>

AtWork == {"checking", "running", "completing", "failing"}
Working == {j \in UploadJob : upload[j] \in AtWork} \cup withWorker

UploadInit ==
  /\ record \in {"none", "ready"}       \* "ready": POST /conversations
  /\ upload = [j \in UploadJob |-> "new"]
  /\ welcomes = {}
  /\ withWorker = {} /\ restarts = 0
  /\ overlapped = FALSE /\ abandoned = FALSE

Moves(j, from, to) == upload[j] = from /\ upload' = [upload EXCEPT ![j] = to]
\* UPDATE conversations: nothing happens to a row that has been deleted.
Becomes(status) == record' = IF record = "deleted" THEN record ELSE status

-------------------------------------------------------------------------------
(* The routes *)

\* /upload and /upload-url insert the conversation, /upload/signed-url does
\* without a job; finalize, files and add-url update it.  finalize sets the
\* status before it looks at the files, files after it has stored them.
Begin(j) ==
  /\ \/ /\ record = "none" /\ j \in StreamJob \cup UrlJob
        /\ Moves(j, "new", "checking")
     \/ /\ record \notin {"none", "deleted"}
        /\ Moves(j, "new", IF j \in StreamJob THEN "checking" ELSE "running")
  /\ record' = "processing"
  /\ overlapped' = (overlapped \/ Working # {})
  /\ UNCHANGED <<welcomes, withWorker, restarts, abandoned>>

SignUrls ==
  /\ record = "none" /\ record' = "uploading"
  /\ UNCHANGED <<upload, welcomes, withWorker, restarts, uploadHistory>>

\* The token of the owner is inserted, and files are saved or fetched from the
\* bucket, while the status is already "processing"; a failed insert or save and
\* a bad reference end the request there, and no job begins.
Prepare(j) ==
  /\ \/ Moves(j, "checking", "running") /\ UNCHANGED abandoned
     \/ Moves(j, "checking", "over") /\ abandoned' = TRUE
  /\ UNCHANGED <<record, welcomes, withWorker, restarts, overlapped>>

-------------------------------------------------------------------------------
(* The jobs *)

InsertWelcome(j) == welcomes' = welcomes \cup {j}

\* welcome_message events of /index-stream: the early description and the job
\* may both send one, and the second is inserted as well.
StreamWelcome(j) ==
  /\ j \in StreamJob /\ upload[j] = "running"
  /\ record # "deleted"
  /\ InsertWelcome(j)
  /\ UNCHANGED <<record, upload, withWorker, restarts, uploadHistory>>

\* complete, or the result of /index and /describe-url.  A stream job inserts
\* the welcome it has not inserted yet, files the one it got, if any.
Complete(j) ==
  /\ Moves(j, "running", "completing")
  /\ record # "deleted"
  /\ \/ (j \in StreamJob => j \notin welcomes) /\ InsertWelcome(j)
     \/ (j \in StreamJob => j \in welcomes) /\ j \notin UrlJob /\ UNCHANGED welcomes
  /\ UNCHANGED <<record, withWorker, restarts, uploadHistory>>

SetReady(j) ==
  /\ Moves(j, "completing", "over")
  /\ Becomes("ready")
  /\ UNCHANGED <<welcomes, withWorker, restarts, uploadHistory>>

\* indexConversationStream skips a line that is no JSON: without its complete or
\* error the loop over the events just ends.
EndIsSkipped(j) ==
  /\ j \in StreamJob /\ Moves(j, "running", "over")
  /\ abandoned' = TRUE
  /\ UNCHANGED <<record, welcomes, withWorker, restarts, overlapped>>

\* An error event (within 60 s of the end of a job that raised), a response
\* that breaks off, a refusal, or a failed statement of the handler, also one
\* that finds the conversation deleted.
Fails(j) ==
  /\ \/ Moves(j, "running", "failing")
     \/ Moves(j, "completing", "failing")
  /\ UNCHANGED <<record, welcomes, withWorker, restarts, uploadHistory>>

\* Mutant: the catch of a job logs only.
SetFailedNot(j) ==
  /\ Moves(j, "failing", "over")
  /\ UNCHANGED <<record, welcomes, withWorker, restarts, uploadHistory>>

\* The catch of a job; what its UPDATE raises nobody handles.
SetFailed(j) ==
  /\ Moves(j, "failing", "over")
  /\ \/ Becomes("failed") /\ UNCHANGED abandoned
     \/ abandoned' = TRUE /\ UNCHANGED record
  /\ UNCHANGED <<welcomes, withWorker, restarts, overlapped>>

\* The rejection of explicit content: cleanupRejectedUpload, where a failed
\* DELETE is logged.
Rejected(j) ==
  /\ j \in StreamJob /\ Moves(j, "running", "over")
  /\ \/ record' = "deleted" /\ UNCHANGED abandoned
     \/ abandoned' = TRUE /\ UNCHANGED record
  /\ UNCHANGED <<welcomes, withWorker, restarts, overlapped>>

\* index_documents hands the job to a worker for want of CPUs: /index-stream
\* ends with neither complete nor error, and the loop with it; for files the
\* answer of /index is a result without a welcome, and the conversation ready.
Delegated(j) ==
  /\ j \notin UrlJob
  /\ withWorker' = withWorker \cup {j}
  /\ IF j \in StreamJob
     THEN Moves(j, "running", "over") /\ UNCHANGED abandoned
     ELSE Moves(j, "running", "completing") /\ abandoned' = TRUE
  /\ UNCHANGED <<record, welcomes, restarts, overlapped>>

\* The events listener handles the worker's complete or error.
WorkerEnds(j) ==
  /\ j \in withWorker /\ withWorker' = withWorker \ {j}
  /\ record' \in IF record = "deleted" THEN {record} ELSE {"ready", "failed"}
  /\ UNCHANGED <<upload, welcomes, restarts, uploadHistory>>

BackendDies ==
  /\ restarts < MaxRestarts /\ restarts' = restarts + 1
  /\ LET lost == {j \in UploadJob : upload[j] \in AtWork}
     IN  /\ upload' = [j \in UploadJob |-> IF j \in lost THEN "over" ELSE upload[j]]
         /\ abandoned' = (abandoned \/ lost # {})
  /\ UNCHANGED <<record, welcomes, withWorker, overlapped>>

UploadNext ==
  \/ SignUrls \/ BackendDies
  \/ \E j \in UploadJob :
       \/ Begin(j) \/ Prepare(j) \/ StreamWelcome(j) \/ Complete(j) \/ SetReady(j)
       \/ EndIsSkipped(j) \/ Fails(j) \/ SetFailed(j) \/ Rejected(j) \/ Delegated(j)
       \/ WorkerEnds(j)

UploadSpec == UploadInit /\ [][UploadNext]_uploadVars

-------------------------------------------------------------------------------
(* Properties *)

UploadTypeOK ==
  /\ record \in {"none", "uploading", "processing", "ready", "failed", "deleted"}
  /\ upload \in [UploadJob -> AtWork \cup {"new", "over"}]
  /\ welcomes \subseteq UploadJob /\ withWorker \subseteq UploadJob /\ restarts \in 0 .. MaxRestarts
  /\ overlapped \in BOOLEAN /\ abandoned \in BOOLEAN

\* Nobody waits for a job that is gone: a conversation is "processing" only
\* while a job is at work on it, here or with a worker, and settled only when
\* none is.  The exceptions are the jobs that leave it behind (a finalize, a
\* save or an owner's token that fails after the status was set, a stream whose
\* last line was skipped, a rejected upload that could not be deleted, a failure
\* that could not be written down, a restart, delegated files) and, for the
\* second part, jobs that overlap, as the first to end settles the conversation
\* for both.
StatusFollowsJobs ==
  ~abandoned =>
    /\ record = "processing" => Working # {}
    /\ ~overlapped /\ record \in {"ready", "failed"} => Working = {}
===============================================================================
