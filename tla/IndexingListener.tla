--------------------------- MODULE IndexingListener ---------------------------
(***************************************************************************)
(* The LISTEN client every backend replica runs in WORKER_MODE=cloud_run   *)
(* (backend/src/indexing-events-listener.ts) over the indexing_events      *)
(* table and its NOTIFY trigger (backend/sql/schema.sql), with the atomic  *)
(* claim of backend/src/indexing-jobs.ts.                                  *)
(*                                                                         *)
(* A replica may hold more than one session: connect() neither closes nor  *)
(* forgets the previous client when its catch-up query fails, so the       *)
(* module keeps a set of sockets, a module-level `client`, and the         *)
(* progress of each connect() call.  What handleIndexingEvent does is left *)
(* to EventRelay: here a claimed event runs and ends.                      *)
(*                                                                         *)
(* Left out: the reconnect delay (1 s doubling to 30 s; time is not        *)
(* modelled), malformed NOTIFY payloads (the trigger sends the row's id),  *)
(* and stopIndexingEventsListener, which nothing in the program calls.     *)
(***************************************************************************)
EXTENDS Integers, FiniteSets

CONSTANTS
  Replica,     \* backend processes
  MaxEvents,   \* rows the worker may insert
  MaxSessions, \* pg clients a replica may hold at once (names are reused)
  Batch,       \* LIMIT of the catch-up query (100 in the code)
  MaxFaults,   \* bound on crashes, broken sockets and failed queries
  Nobody

ASSUME ListenerAssumption ==
  /\ MaxEvents \in Nat
  /\ MaxSessions \in Nat \ {0}
  /\ Batch \in Nat \ {0}
  /\ MaxFaults \in Nat
  /\ Nobody \notin Replica

EventId == 1 .. MaxEvents
Session == 1 .. MaxSessions
NoClient == 0      \* the module-level client is null
ByNotify == 0      \* processEvent was called by handleNotification

VARIABLES
  evt,       \* life of each row of indexing_events, see EventState
  owner,     \* replica whose UPDATE set processed_at, or Nobody
  via,       \* session whose drain loop claimed the row, or ByNotify
  up,        \* replica processes that run
  sock,      \* sock[r]: sessions LISTENing on a live socket
  client,    \* client[r]: the module-level `client`
  timer,     \* timer[r]: reconnectTimer is set
  loop,      \* loop[r][s]: where the connect() call of session s is
  batch,     \* batch[r][s]: rows its drain loop has still to process
  wire,      \* wire[r][s]: NOTIFYs sent on session s, not received yet
  notif,     \* notif[r]: processEvent calls about to claim
  claimErr,  \* claimErr[r]: history, rows whose claim query failed on r
  faults     \* faults so far

logVars == <<evt, owner, via>>
netVars == <<sock, client, timer, loop, batch, wire>>
vars == <<evt, owner, via, up, sock, client, timer, loop, batch, wire, notif,
          claimErr, faults>>

EventState == {"none", "unprocessed", "running", "done", "lost"}
LoopState == {"idle", "connecting", "pick", "drain", "drainFull"}

Unprocessed == {e \in EventId : evt[e] = "unprocessed"}
Claimed(e) == evt[e] \in {"running", "done", "lost"}

Init ==
  /\ evt = [e \in EventId |-> "none"]
  /\ owner = [e \in EventId |-> Nobody]
  /\ via = [e \in EventId |-> ByNotify]
  /\ up = {}
  /\ sock = [r \in Replica |-> {}]
  /\ client = [r \in Replica |-> NoClient]
  /\ timer = [r \in Replica |-> FALSE]
  /\ loop = [r \in Replica |-> [s \in Session |-> "idle"]]
  /\ batch = [r \in Replica |-> [s \in Session |-> {}]]
  /\ wire = [r \in Replica |-> [s \in Session |-> {}]]
  /\ notif = [r \in Replica |-> {}]
  /\ claimErr = [r \in Replica |-> {}]
  /\ faults = 0

Fault == faults < MaxFaults /\ faults' = faults + 1

-------------------------------------------------------------------------------
\* The worker's INSERT commits; the trigger NOTIFYs every LISTENing session.
Emit(e) ==
  /\ evt[e] = "none"
  /\ evt' = [evt EXCEPT ![e] = "unprocessed"]
  /\ wire' = [r \in Replica |-> [s \in Session |->
                IF s \in sock[r] THEN wire[r][s] \cup {e} ELSE wire[r][s]]]
  /\ UNCHANGED <<owner, via, up, sock, client, timer, loop, batch, notif,
                 claimErr, faults>>

-------------------------------------------------------------------------------
(* connect, handleClientError, scheduleReconnect *)

\* A new pg client takes the least session name nobody uses.
Unused(r, s) == loop[r][s] = "idle" /\ s \notin sock[r]
Free(r, s) == Unused(r, s) /\ \A t \in 1 .. s - 1 : ~Unused(r, t)

\* The process starts and calls startIndexingEventsListener.
Start(r, s) ==
  /\ r \notin up
  /\ Free(r, s)
  /\ up' = up \cup {r}
  /\ loop' = [loop EXCEPT ![r][s] = "connecting"]
  /\ UNCHANGED <<logVars, sock, client, timer, batch, wire, notif, claimErr,
                 faults>>

\* The reconnect timer fires: connect() again, with a new client.
TimerFires(r, s) ==
  /\ timer[r]
  /\ Free(r, s)
  /\ timer' = [timer EXCEPT ![r] = FALSE]
  /\ loop' = [loop EXCEPT ![r][s] = "connecting"]
  /\ UNCHANGED <<logVars, up, sock, client, batch, wire, notif, claimErr,
                 faults>>

\* Mutant: connect() LISTENs and returns, without the catch-up drain.
ListeningNoDrain(r, s) ==
  /\ loop[r][s] = "connecting"
  /\ sock' = [sock EXCEPT ![r] = @ \cup {s}]
  /\ client' = [client EXCEPT ![r] = s]
  /\ loop' = [loop EXCEPT ![r][s] = "idle"]
  /\ UNCHANGED <<logVars, up, timer, batch, wire, notif, claimErr, faults>>

\* LISTEN succeeded: `client = next`, then drainUnprocessed.
Listening(r, s) ==
  /\ loop[r][s] = "connecting"
  /\ sock' = [sock EXCEPT ![r] = @ \cup {s}]
  /\ client' = [client EXCEPT ![r] = s]
  /\ loop' = [loop EXCEPT ![r][s] = "pick"]
  /\ UNCHANGED <<logVars, up, timer, batch, wire, notif, claimErr, faults>>

\* next.connect() or LISTEN rejects: the catch schedules a reconnect.
ConnectFails(r, s) ==
  /\ Fault
  /\ loop[r][s] = "connecting"
  /\ loop' = [loop EXCEPT ![r][s] = "idle"]
  /\ timer' = [timer EXCEPT ![r] = TRUE]
  /\ UNCHANGED <<logVars, up, sock, client, batch, wire, notif, claimErr>>

\* Mutant: the error handler forgets scheduleReconnect.
ClientErrorNoTimer(r, s) ==
  /\ Fault
  /\ s \in sock[r]
  /\ sock' = [sock EXCEPT ![r] = @ \ {s, client[r]}]
  /\ wire' = [wire EXCEPT ![r] = [t \in Session |->
                 IF t \in {s, client[r]} THEN {} ELSE wire[r][t]]]
  /\ client' = [client EXCEPT ![r] = NoClient]
  /\ UNCHANGED <<logVars, up, timer, loop, batch, notif, claimErr>>

\* A socket breaks and its pg client emits 'error'.  handleClientError ends
\* the *module-level* client, whichever session the error came from, and
\* schedules a reconnect; NOTIFYs in flight on a dead socket are gone.
ClientError(r, s) ==
  /\ Fault
  /\ s \in sock[r]
  /\ LET dead == {s, client[r]}
     IN  /\ sock' = [sock EXCEPT ![r] = @ \ dead]
         /\ wire' = [wire EXCEPT ![r] = [t \in Session |->
                        IF t \in dead THEN {} ELSE wire[r][t]]]
  /\ client' = [client EXCEPT ![r] = NoClient]
  /\ timer' = [timer EXCEPT ![r] = TRUE]
  /\ UNCHANGED <<logVars, up, loop, batch, notif, claimErr>>

-------------------------------------------------------------------------------
(* drainUnprocessed *)

\* pickUnprocessedBatch: the SELECT ... WHERE processed_at IS NULL ORDER BY
\* id LIMIT Batch on the module-level client, no rows when that is null.
DrainPick(r, s) ==
  /\ loop[r][s] = "pick"
  /\ \/ /\ client[r] = NoClient
        /\ loop' = [loop EXCEPT ![r][s] = "idle"]
        /\ UNCHANGED batch
     \/ /\ client[r] # NoClient
        /\ Cardinality(Unprocessed) < Batch
        /\ batch' = [batch EXCEPT ![r][s] = Unprocessed]
        /\ loop' = [loop EXCEPT ![r][s] = "drain"]
     \/ /\ client[r] # NoClient
        /\ \E B \in SUBSET Unprocessed :
             /\ Cardinality(B) = Batch
             /\ \A e \in B, f \in Unprocessed \ B : e < f
             /\ batch' = [batch EXCEPT ![r][s] = B]
        /\ loop' = [loop EXCEPT ![r][s] = "drainFull"]
  /\ UNCHANGED <<logVars, up, sock, client, timer, wire, notif, claimErr,
                 faults>>

\* The SELECT rejects: connect()'s catch schedules a reconnect and leaves
\* the client in place.
DrainPickFails(r, s) ==
  /\ Fault
  /\ loop[r][s] = "pick"
  /\ client[r] # NoClient
  /\ loop' = [loop EXCEPT ![r][s] = "idle"]
  /\ timer' = [timer EXCEPT ![r] = TRUE]
  /\ UNCHANGED <<logVars, up, sock, client, batch, wire, notif, claimErr>>

\* e is the row the drain loop is at; it awaits processEvent on each row.
AtRow(r, s, e) == e \in batch[r][s] /\ \A f \in batch[r][s] : e <= f

DropRow(r, s, e) == batch' = [batch EXCEPT ![r][s] = @ \ {e}]

\* claimIndexingEvent: set processed_at unless it is set.
ClaimIndexingEvent(r, s, e) ==
  /\ evt[e] = "unprocessed"
  /\ evt' = [evt EXCEPT ![e] = "running"]
  /\ owner' = [owner EXCEPT ![e] = r]
  /\ via' = [via EXCEPT ![e] = s]

DrainClaim(r, s, e) ==
  /\ AtRow(r, s, e)
  /\ ClaimIndexingEvent(r, s, e)
  /\ UNCHANGED <<up, netVars, notif, claimErr, faults>>

\* The claim found the row taken, or the handler this loop awaits has ended.
DrainNextRow(r, s, e) ==
  /\ AtRow(r, s, e)
  /\ evt[e] # "unprocessed"
  /\ ~(evt[e] = "running" /\ owner[e] = r /\ via[e] = s)
  /\ DropRow(r, s, e)
  /\ UNCHANGED <<logVars, up, sock, client, timer, loop, wire, notif,
                 claimErr, faults>>

\* The claim query rejects: processEvent logs it and the loop moves on.
DrainClaimFails(r, s, e) ==
  /\ Fault
  /\ AtRow(r, s, e)
  /\ evt[e] = "unprocessed"
  /\ DropRow(r, s, e)
  /\ claimErr' = [claimErr EXCEPT ![r] = @ \cup {e}]
  /\ UNCHANGED <<logVars, up, sock, client, timer, loop, wire, notif>>

\* Mutant: a full batch ends the loop too.
DrainEndAlways(r, s) ==
  /\ loop[r][s] \in {"drain", "drainFull"}
  /\ batch[r][s] = {}
  /\ loop' = [loop EXCEPT ![r][s] = "idle"]
  /\ UNCHANGED <<logVars, up, sock, client, timer, batch, wire, notif,
                 claimErr, faults>>

\* The batch is used up: stop if it was short, pick again if it was full.
DrainEnd(r, s) ==
  /\ loop[r][s] \in {"drain", "drainFull"}
  /\ batch[r][s] = {}
  /\ loop' = [loop EXCEPT ![r][s] = IF @ = "drain" THEN "idle" ELSE "pick"]
  /\ UNCHANGED <<logVars, up, sock, client, timer, batch, wire, notif,
                 claimErr, faults>>

-------------------------------------------------------------------------------
(* handleNotification and processEvent, one fire-and-forget call per NOTIFY *)

Receive(r, s, e) ==
  /\ e \in wire[r][s]
  /\ wire' = [wire EXCEPT ![r][s] = @ \ {e}]
  /\ notif' = [notif EXCEPT ![r] = @ \cup {e}]
  /\ UNCHANGED <<logVars, up, sock, client, timer, loop, batch, claimErr,
                 faults>>

NotifyClaim(r, e) ==
  /\ e \in notif[r]
  /\ notif' = [notif EXCEPT ![r] = @ \ {e}]
  /\ \/ ClaimIndexingEvent(r, ByNotify, e)
     \/ evt[e] # "unprocessed" /\ UNCHANGED logVars
  /\ UNCHANGED <<up, netVars, claimErr, faults>>

NotifyClaimFails(r, e) ==
  /\ Fault
  /\ e \in notif[r]
  /\ evt[e] = "unprocessed"
  /\ notif' = [notif EXCEPT ![r] = @ \ {e}]
  /\ claimErr' = [claimErr EXCEPT ![r] = @ \cup {e}]
  /\ UNCHANGED <<logVars, up, netVars>>

-------------------------------------------------------------------------------
(* the handler of a claimed event, and the process it runs in *)

HandlerReturns(e) ==
  /\ evt[e] = "running"
  /\ evt' = [evt EXCEPT ![e] = "done"]
  /\ UNCHANGED <<owner, via, up, netVars, notif, claimErr, faults>>

\* Mutant: a handler that throws gives the row back (processed_at = NULL).
HandlerThrowsRequeue(e) ==
  /\ Fault
  /\ evt[e] = "running"
  /\ evt' = [evt EXCEPT ![e] = "unprocessed"]
  /\ UNCHANGED <<owner, via, up, netVars, notif, claimErr>>

\* handleIndexingEvent rejects: processEvent logs it, processed_at stays set.
HandlerThrows(e) ==
  /\ Fault
  /\ evt[e] = "running"
  /\ evt' = [evt EXCEPT ![e] = "lost"]
  /\ UNCHANGED <<owner, via, up, netVars, notif, claimErr>>

\* The instance is killed: sockets, timers, loops and handlers go with it.
Crash(r) ==
  /\ Fault
  /\ r \in up
  /\ up' = up \ {r}
  /\ evt' = [e \in EventId |->
               IF evt[e] = "running" /\ owner[e] = r THEN "lost" ELSE evt[e]]
  /\ sock' = [sock EXCEPT ![r] = {}]
  /\ client' = [client EXCEPT ![r] = NoClient]
  /\ timer' = [timer EXCEPT ![r] = FALSE]
  /\ loop' = [loop EXCEPT ![r] = [s \in Session |-> "idle"]]
  /\ batch' = [batch EXCEPT ![r] = [s \in Session |-> {}]]
  /\ wire' = [wire EXCEPT ![r] = [s \in Session |-> {}]]
  /\ notif' = [notif EXCEPT ![r] = {}]
  /\ UNCHANGED <<owner, via, claimErr>>

-------------------------------------------------------------------------------
SessionStep(r, s) ==
  \/ Start(r, s)
  \/ TimerFires(r, s)
  \/ Listening(r, s)
  \/ ConnectFails(r, s)
  \/ ClientError(r, s)
  \/ DrainPick(r, s)
  \/ DrainPickFails(r, s)
  \/ DrainEnd(r, s)

RowStep(r, s, e) ==
  \/ DrainClaim(r, s, e)
  \/ DrainNextRow(r, s, e)
  \/ DrainClaimFails(r, s, e)
  \/ Receive(r, s, e)

ListenerNext ==
  \/ \E r \in Replica, s \in Session : SessionStep(r, s)
  \/ \E r \in Replica, s \in Session, e \in EventId : RowStep(r, s, e)
  \/ \E r \in Replica, e \in EventId :
       NotifyClaim(r, e) \/ NotifyClaimFails(r, e)

Next ==
  \/ \E e \in EventId : Emit(e) \/ HandlerReturns(e) \/ HandlerThrows(e)
  \/ ListenerNext
  \/ \E r \in Replica : Crash(r)

Spec == Init /\ [][Next]_vars

\* What the connect() call of session s does next: it is one async function,
\* so one of these is its next step.
ConnectCall(r, s) ==
  \/ Listening(r, s)
  \/ DrainPick(r, s)
  \/ DrainEnd(r, s)
  \/ \E e \in EventId : DrainClaim(r, s, e) \/ DrainNextRow(r, s, e)

\* Node's event loop runs every timer, socket and query callback it has, and
\* Cloud Run restarts an instance it lost.  Faults and emissions are not fair.
Progress(r) ==
  /\ WF_vars(\E s \in Session : Start(r, s))
  /\ WF_vars(\E s \in Session : TimerFires(r, s))
  /\ \A s \in Session :
       /\ WF_vars(ConnectCall(r, s))
       /\ WF_vars(\E e \in EventId : Receive(r, s, e))
  /\ WF_vars(\E e \in EventId : NotifyClaim(r, e))

FairSpec ==
  /\ Spec
  /\ \A r \in Replica : Progress(r)
  /\ \A e \in EventId : WF_vars(HandlerReturns(e))

-------------------------------------------------------------------------------
(* Properties *)

TypeOK ==
  /\ evt \in [EventId -> EventState]
  /\ owner \in [EventId -> Replica \cup {Nobody}]
  /\ via \in [EventId -> Session \cup {ByNotify}]
  /\ up \in SUBSET Replica
  /\ sock \in [Replica -> SUBSET Session]
  /\ client \in [Replica -> Session \cup {NoClient}]
  /\ timer \in [Replica -> BOOLEAN]
  /\ loop \in [Replica -> [Session -> LoopState]]
  /\ batch \in [Replica -> [Session -> SUBSET EventId]]
  /\ wire \in [Replica -> [Session -> SUBSET EventId]]
  /\ notif \in [Replica -> SUBSET EventId]
  /\ claimErr \in [Replica -> SUBSET EventId]
  /\ faults \in 0 .. MaxFaults

\* The listener never goes deaf for good: a running replica whose `client` is
\* null has a reconnect timer set or a connect() call under way, and a client
\* it believes in is one that LISTENs (scheduleReconnect returns early when a
\* timer is set, handleClientError may end a client other than the one that
\* failed).
ListenerComesBack ==
  \A r \in up :
    /\ client[r] = NoClient =>
         timer[r] \/ \E s \in Session : loop[r][s] = "connecting"
    /\ client[r] # NoClient => client[r] \in sock[r]

\* A process that is not running has no socket, timer, loop or pending call.
DownIsClean ==
  \A r \in Replica \ up :
    /\ sock[r] = {} /\ client[r] = NoClient /\ ~timer[r] /\ notif[r] = {}
    /\ \A s \in Session :
         loop[r][s] = "idle" /\ batch[r][s] = {} /\ wire[r][s] = {}

\* What replica r still owes the log: a NOTIFY in flight or received, or a
\* drain that has the row in its batch or will query the table again.
Covers(r, e) ==
  \/ e \in notif[r] \/ e \in claimErr[r]
  \/ \E s \in Session :
       \/ e \in wire[r][s]
       \/ e \in batch[r][s]
       \/ loop[r][s] \in {"connecting", "pick", "drainFull"}

\* No event is orphaned: while a row is unprocessed, every running replica
\* without a reconnect pending is going to see it, because connect() LISTENs
\* before it drains and NOTIFY covers what the SELECT was too early for.  The
\* one way out is a claim query that failed (claimErr).
NoOrphan ==
  \A r \in up, e \in EventId :
    evt[e] = "unprocessed" => timer[r] \/ Covers(r, e)

\* At most once: processed_at is never cleared, so a claimed event keeps its
\* owner and never starts again, however many replicas and sessions race for
\* it and whatever crashes.
ClaimIsFinal ==
  \A e \in EventId : Claimed(e) =>
    /\ owner'[e] = owner[e]
    /\ evt'[e] = evt[e] \/ (evt[e] = "running" /\ evt'[e] \in {"done", "lost"})

NeverHandledTwice == [][ClaimIsFinal]_vars

\* Every row is claimed in the end, through crashes, broken sockets and leaked
\* sessions, unless a replica's claim query failed on it.
EventuallyClaimed ==
  \A e \in EventId :
    evt[e] = "unprocessed"
      ~> (evt[e] # "unprocessed" \/ \E r \in Replica : e \in claimErr[r])

\* The inductive invariant: NoOrphan needs ListenerComesBack (a NOTIFY reaches
\* a replica only through the socket of a client it still has), and that one
\* needs to know that a process starts with nothing left from its last life.
IInv == TypeOK /\ DownIsClean /\ ListenerComesBack /\ NoOrphan

\* The listener implements the at-most-once log.
Log == INSTANCE EventLog WITH evt <- evt, owner <- owner
ImplementsLog == Log!LogSpec
===============================================================================
