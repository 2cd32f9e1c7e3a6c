------------------------------- MODULE ErrorLog --------------------------------
(***************************************************************************)
(* What the error telemetry of a process promises its callers: one lossy,  *)
(* first-in first-out log.  A row is taken in or lost at once, rows that   *)
(* were taken in are settled in the order they came, each once, and a      *)
(* flush that reports success leaves at most one row of those it was       *)
(* called for.  Telemetry implements it with a queue and a writer thread.  *)
(***************************************************************************)
EXTENDS Naturals, Sequences

CONSTANTS
  Row,       \* calls of log_processing_error
  Capacity   \* rows that are taken in whatever the writer does

VARIABLES
  backlog,   \* rows taken in and not settled, oldest first
  outcome,   \* outcome[r]: "none", "kept" or "lost"
  flush,     \* "no", "waiting", "drained", "timeout"
  owed       \* rows logged before the flush

logVars == <<backlog, outcome, flush, owed>>

Pending == {backlog[i] : i \in DOMAIN backlog}
Seen == {r \in Row : outcome[r] # "none"} \cup Pending

Init ==
  /\ backlog = <<>>
  /\ outcome = [r \in Row |-> "none"]
  /\ flush = "no" /\ owed = {}

\* Only a full log loses a row that is handed to it.
Log(r) ==
  /\ r \notin Seen
  /\ \/ backlog' = Append(backlog, r) /\ UNCHANGED outcome
     \/ /\ Len(backlog) >= Capacity
        /\ outcome' = [outcome EXCEPT ![r] = "lost"] /\ UNCHANGED backlog
  /\ UNCHANGED <<flush, owed>>

Settle ==
  /\ backlog # <<>>
  /\ backlog' = Tail(backlog)
  /\ \E result \in {"kept", "lost"} :
       outcome' = [outcome EXCEPT ![Head(backlog)] = result]
  /\ UNCHANGED <<flush, owed>>

BeginFlush ==
  /\ flush = "no" /\ flush' = "waiting"
  /\ owed' = Seen
  /\ UNCHANGED <<backlog, outcome>>

EndFlush ==
  /\ flush = "waiting"
  /\ \/ flush' = "drained" /\ \A r, s \in owed \cap Pending : r = s
     \/ flush' = "timeout"
  /\ UNCHANGED <<backlog, outcome, owed>>

Next == (\E r \in Row : Log(r)) \/ Settle \/ BeginFlush \/ EndFlush

Spec == Init /\ [][Next]_logVars
===============================================================================
