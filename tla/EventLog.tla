------------------------------- MODULE EventLog -------------------------------
(***************************************************************************)
(* What the indexing_events table promises, without listeners, sockets or  *)
(* drains: an event row is written once, claimed by at most one backend    *)
(* replica, and the claim is never undone.  A claimed event ends handled   *)
(* ("done") or dropped ("lost": its handler threw or its replica died);    *)
(* nothing takes it up again, which makes the log at-most-once.            *)
(***************************************************************************)
CONSTANTS
  Replica,   \* backend processes
  EventId,   \* primary keys of indexing_events
  Nobody     \* owner of an event no replica has claimed

VARIABLES
  evt,       \* evt[e]: life of row e, see EventState
  owner      \* owner[e]: the replica whose claim won

logVars == <<evt, owner>>

EventState == {"none", "unprocessed", "running", "done", "lost"}

LogTypeOK ==
  /\ evt \in [EventId -> EventState]
  /\ owner \in [EventId -> Replica \cup {Nobody}]

LogInit ==
  /\ evt = [e \in EventId |-> "none"]
  /\ owner = [e \in EventId |-> Nobody]

\* The worker INSERTs the row with processed_at NULL.
Insert(e) ==
  /\ evt[e] = "none"
  /\ evt' = [evt EXCEPT ![e] = "unprocessed"]
  /\ UNCHANGED owner

\* UPDATE ... SET processed_at WHERE processed_at IS NULL RETURNING.
Claim(r, e) ==
  /\ evt[e] = "unprocessed"
  /\ evt' = [evt EXCEPT ![e] = "running"]
  /\ owner' = [owner EXCEPT ![e] = r]

\* Handlers of claimed events end, each one way or the other (a replica that
\* dies ends all of its handlers at once).
Settle ==
  /\ evt' \in [EventId -> EventState]
  /\ \A e \in EventId :
       evt'[e] = evt[e] \/ (evt[e] = "running" /\ evt'[e] \in {"done", "lost"})
  /\ UNCHANGED owner

LogNext ==
  \/ \E e \in EventId : Insert(e)
  \/ \E r \in Replica, e \in EventId : Claim(r, e)
  \/ Settle

LogSpec == LogInit /\ [][LogNext]_logVars
===============================================================================
