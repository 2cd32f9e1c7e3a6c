-------------------------- MODULE ConversationStream ---------------------------
(***************************************************************************)
(* The event streams of one conversation: GET /events, which serves many   *)
(* conversations and never ends, and GET /conversations/:id/events, which  *)
(* ends with a complete or an error (backend/src/routes/conversations.ts), *)
(* over the emitter of events.ts and the teardown of                       *)
(* utils/stream-lifecycle.ts.  A stream reads the conversation, tells the  *)
(* browser the state it read, and subscribes.                              *)
(*                                                                         *)
(* The handlers that write and emit are modelled elsewhere; here they      *)
(* write the status and then emit, all in this process.  Left out: welcome *)
(* and progress events, which are passed through, and keepalives.          *)
(***************************************************************************)
EXTENDS Naturals, FiniteSets

CONSTANTS
  Single,     \* browsers on GET /conversations/:id/events
  Multi,      \* browsers on GET /events
  MaxConnects,\* bound: connections of all browsers together
  MaxRounds   \* bound: times the conversation is indexed once more

Browser == Single \cup Multi

ASSUME StreamAssumption == Single \cap Multi = {} /\ MaxConnects \in Nat /\ MaxRounds \in Nat

VARIABLES
  indexed,    \* conversations.status: "processing", "ready", "failed"
  emitting,   \* written and not yet emitted: "none", "ready", "failed"
  stream,     \* stream[b]: "none", "opening", "read", "open", "closed"
  gone,       \* browsers that closed the connection the server still serves
  handlers,   \* subscriptions in the emitter
  read,       \* read[b]: the status its stream read
  shown,      \* shown[b]: the last status the connection told: "none", "ready", "failed"
  missed,     \* history: streams an end was not announced to, see NothingMissed
  connects, rounds

conversationVars == <<indexed, emitting>>
connectionVars == <<stream, gone, handlers, read, shown, missed>>
streamVars == <<conversationVars, connectionVars, connects, rounds>>

StreamInit ==
  /\ indexed \in {"processing", "ready", "failed"}
  /\ emitting = "none"
  /\ stream = [b \in Browser |-> "none"]
  /\ gone = {} /\ handlers = {} /\ missed = {}
  /\ read = [b \in Browser |-> "none"]
  /\ shown = [b \in Browser |-> "none"]
  /\ connects = 0 /\ rounds = 0

\* Streams between the read of the status and the subscription.
InGap == {b \in Browser : stream[b] = "read"}

-------------------------------------------------------------------------------
(* The handlers *)

\* updateConversationStatus ...
WriteOutcome ==
  /\ indexed = "processing" /\ emitting = "none"
  /\ indexed' \in {"ready", "failed"} /\ emitting' = indexed'
  /\ UNCHANGED <<connectionVars, connects, rounds>>

\* ... and, after its await, emitConversationEvent: the listeners run before
\* it returns.  A single stream ends with a complete or an error.
EmitOutcome ==
  /\ emitting # "none" /\ emitting' = "none"
  /\ shown' = [b \in Browser |-> IF b \in handlers THEN emitting ELSE shown[b]]
  /\ stream' = [b \in Browser |->
       IF b \in handlers \cap Single THEN "closed" ELSE stream[b]]
  /\ handlers' = handlers \ Single
  /\ missed' = missed \cup InGap
  /\ UNCHANGED <<indexed, gone, read, connects, rounds>>

\* POST .../add-url and .../files put the conversation back to processing; the
\* end of add-url is emitted (WriteOutcome, EmitOutcome), that of files is not.
IndexAgain ==
  /\ indexed # "processing" /\ emitting = "none" /\ rounds < MaxRounds
  /\ indexed' = "processing" /\ rounds' = rounds + 1
  /\ UNCHANGED <<emitting, connectionVars, connects>>

SettleSilently ==
  /\ indexed = "processing" /\ emitting = "none" /\ rounds > 0
  /\ indexed' \in {"ready", "failed"}
  /\ missed' = missed \cup InGap \cup handlers
  /\ UNCHANGED <<emitting, stream, gone, handlers, read, shown, connects, rounds>>

-------------------------------------------------------------------------------
(* A stream *)

Connect(b) ==
  /\ stream[b] \in {"none", "closed"} /\ connects < MaxConnects
  /\ connects' = connects + 1
  /\ stream' = [stream EXCEPT ![b] = "opening"]
  /\ gone' = gone \ {b} /\ missed' = missed \ {b}
  /\ shown' = [shown EXCEPT ![b] = "none"]
  /\ UNCHANGED <<conversationVars, handlers, read, rounds>>

\* getConversation: the conversation, and in further queries its messages.
ReadStatus(b) ==
  /\ stream[b] = "opening"
  /\ stream' = [stream EXCEPT ![b] = "read"]
  /\ read' = [read EXCEPT ![b] = indexed]
  /\ UNCHANGED <<conversationVars, gone, handlers, shown, missed, connects, rounds>>

\* Mutant: only the welcome is told again.
CatchUpWelcome(b) == "none"

CatchUp(b) == IF read[b] = "processing" THEN "none" ELSE read[b]

\* Mutant: the subscription does not depend on the connection.
OpenRegardless(b) ==
  /\ stream[b] = "read"
  /\ UNCHANGED <<conversationVars, gone, read, missed, connects, rounds>>
  /\ shown' = [shown EXCEPT ![b] = CatchUp(b)]
  /\ stream' = [stream EXCEPT ![b] = IF b \in gone THEN "closed" ELSE "open"]
  /\ handlers' = handlers \cup {b}

\* After the last await the route runs through: what it read is told, a single
\* stream of a failed conversation ends, a send that finds the connection
\* closed returns, and only then does it subscribe.  bindStreamLifecycle is
\* called here, too late for a connection that has closed.
Open(b) ==
  /\ stream[b] = "read"
  /\ UNCHANGED <<conversationVars, gone, read, missed, connects, rounds>>
  /\ \/ b \in gone /\ stream' = [stream EXCEPT ![b] = "closed"] /\ UNCHANGED <<handlers, shown>>
     \/ /\ b \notin gone
        /\ shown' = [shown EXCEPT ![b] = CatchUp(b)]
        /\ IF b \in Single /\ read[b] = "failed"
           THEN stream' = [stream EXCEPT ![b] = "closed"] /\ UNCHANGED handlers
           ELSE stream' = [stream EXCEPT ![b] = "open"] /\ handlers' = handlers \cup {b}

\* The browser leaves; the close event of an open stream runs its teardown.
BrowserCloses(b) ==
  /\ b \notin gone /\ stream[b] \notin {"none", "closed"}
  /\ IF stream[b] = "open"
     THEN /\ stream' = [stream EXCEPT ![b] = "closed"]
          /\ handlers' = handlers \ {b} /\ UNCHANGED gone
     ELSE gone' = gone \cup {b} /\ UNCHANGED <<stream, handlers>>
  /\ UNCHANGED <<conversationVars, read, shown, missed, connects, rounds>>

StreamNext ==
  \/ WriteOutcome \/ EmitOutcome \/ IndexAgain \/ SettleSilently
  \/ \E b \in Browser :
       Connect(b) \/ ReadStatus(b) \/ Open(b) \/ BrowserCloses(b)

StreamSpec == StreamInit /\ [][StreamNext]_streamVars

-------------------------------------------------------------------------------
(* Properties *)

StreamTypeOK ==
  /\ indexed \in {"processing", "ready", "failed"}
  /\ emitting \in {"none", "ready", "failed"}
  /\ stream \in [Browser -> {"none", "opening", "read", "open", "closed"}]
  /\ gone \subseteq Browser /\ handlers \subseteq Browser /\ missed \subseteq Browser
  /\ read \in [Browser -> {"none", "processing", "ready", "failed"}]
  /\ shown \in [Browser -> {"none", "ready", "failed"}]
  /\ connects \in 0 .. MaxConnects /\ rounds \in 0 .. MaxRounds

\* "If conversation has already reached a terminal state, send catchup events":
\* a browser on an open stream knows how the indexing ended, although the end
\* may come before, between or after the read and the subscription.  The ends
\* it may not know of are those emitted in just that gap, and those of POST
\* .../files, which nobody announces.
NothingMissed ==
  \A b \in Browser :
    stream[b] = "open" /\ indexed # "processing" /\ emitting = "none" /\ b \notin missed
      => shown[b] = indexed

\* bindStreamLifecycle, "teardown runs once no matter which side closes first":
\* the emitter holds no handler of a connection that is closed, also when the
\* browser left before the teardown was bound.
NoHandlerLeak == handlers = {b \in Browser : stream[b] = "open"}
===============================================================================
