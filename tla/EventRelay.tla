------------------------------ MODULE EventRelay ------------------------------
(***************************************************************************)
(* What a backend replica does with a claimed indexing event: the handlers *)
(* of backend/src/indexing-handler.ts, one step per database call they     *)
(* await, over one conversation.  Claims come from EventLog, which         *)
(* IndexingListener implements; several handlers run at once, on one       *)
(* replica or on many, because handleNotification does not await them.     *)
(*                                                                         *)
(* The events a conversation gets are the worker's: `script` is one of the *)
(* sequences index_documents and _process_message write.  A message is the *)
(* set of texts merged into its content.  Left out: the citation and       *)
(* suggestion payloads, the page counts of the UPDATE footer, events of    *)
(* unknown type and c4_message (ignored by the code), the empty            *)
(* wiki_message (the worker never sends one), message_appended.            *)
(***************************************************************************)
EXTENDS EventLog, Integers, FiniteSets, Sequences

CONSTANTS
  Scripts,    \* the event sequences to consider, in the order of their ids
  NoText,     \* a complete event whose job produced no welcome
  Fallback,   \* the text of buildFallbackWelcome
  Home,       \* the replica that holds the browser's SSE socket
  MaxFaults   \* bound on crashes and failed queries

EventType ==
  {"page_progress", "welcome_message", "wiki_message", "complete", "error"}

ASSUME RelayAssumption ==
  /\ Home \in Replica
  /\ MaxFaults \in Nat
  /\ IsFiniteSet(EventId) /\ EventId = 1 .. Cardinality(EventId)
  /\ \A rows \in Scripts :
       /\ Len(rows) \in Nat /\ DOMAIN rows = 1 .. Len(rows)
       /\ \A e \in DOMAIN rows : rows[e].type \in EventType

VARIABLES
  script,     \* script[e]: [type, text] of the e-th row of the conversation
  pc,         \* pc[e]: the await the handler of e is at
  draft,      \* draft[e]: content getMessageById gave
  messages,   \* assistant messages of the conversation, oldest first
  status,     \* conversations.status
  described,  \* uploaded_files.file_metadata has been written
  shown,      \* events the browser received
  ahead,      \* history: rows whose handler began before every earlier row
              \* was handled
  faults

convVars == <<messages, status, described>>
vars == <<evt, owner, script, pc, draft, messages, status,
          described, shown, ahead, faults>>

Type(e) == script[e].type
Text(e) == script[e].text
Welcome(text) == [internal |-> FALSE, text |-> {text}]
WelcomeText(e) == IF Text(e) = NoText THEN Fallback ELSE Text(e)

Running(e) == evt[e] = "running"
At(e, label) == Running(e) /\ pc[e] = label
Goto(e, label) == pc' = [pc EXCEPT ![e] = label]
Fault == faults < MaxFaults /\ faults' = faults + 1

\* createConversation + publishIndexingJob: no message, status 'processing'.
Init ==
  /\ LogInit
  /\ script \in Scripts
  /\ pc = [e \in EventId |-> "idle"]
  /\ draft = [e \in EventId |-> {}]
  /\ messages = <<>>
  /\ status = "processing"
  /\ described = FALSE
  /\ shown = {}
  /\ ahead = {}
  /\ faults = 0

\* The worker writes the rows of the script in order.
Emit(e) ==
  /\ e \in DOMAIN script
  /\ \A d \in EventId : d < e => evt[d] # "none"
  /\ Insert(e)
  /\ UNCHANGED <<script, pc, draft, convVars, shown, ahead, faults>>

\* handleIndexingEvent: the switch on event_type.
FirstLabel(e) ==
  CASE Type(e) = "page_progress"   -> "emit"
    [] Type(e) = "welcome_message" -> "find"
    [] Type(e) = "wiki_message"    -> "wiki"
    [] Type(e) = "complete"        -> "find"
    [] Type(e) = "error"           -> "status"

Begin(r, e) ==
  /\ Claim(r, e)
  /\ Goto(e, FirstLabel(e))
  /\ ahead' = IF \A d \in EventId : d < e => evt[d] = "done"
              THEN ahead ELSE ahead \cup {e}
  /\ UNCHANGED <<script, draft, convVars, shown, faults>>

-------------------------------------------------------------------------------
(* handleWelcomeMessage and handleComplete *)

\* Mutant: `complete` takes the welcome for granted.
FindWelcomeTrusting(e) ==
  /\ At(e, "find")
  /\ Goto(e, IF Type(e) = "welcome_message"
             THEN IF messages = <<>> THEN "insert" ELSE "meta"
             ELSE "status")
  /\ UNCHANGED <<logVars, script, draft, convVars, shown, ahead, faults>>

\* findExistingWelcomeMessageId: the oldest assistant message, hidden or not.
\* Messages are only ever appended here, so the id it returns is that of the
\* first one.
FindWelcome(e) ==
  /\ At(e, "find")
  /\ Goto(e, CASE messages = <<>>                -> "insert"
               [] messages # <<>> /\ Type(e) = "welcome_message" -> "meta"
               [] messages # <<>> /\ Type(e) = "complete" ->
                    IF Text(e) = NoText THEN "status" ELSE "read")
  /\ UNCHANGED <<logVars, script, draft, convVars, shown, ahead, faults>>

InsertWelcome(e) ==
  /\ At(e, "insert")
  /\ messages' = Append(messages, Welcome(WelcomeText(e)))
  /\ Goto(e, "meta")
  /\ UNCHANGED <<logVars, script, draft, status, described, shown,
                 ahead, faults>>

\* Mutant: a welcome stored by `complete` ends the handler.
AfterMetadataEmit(e) == "emit"

AfterMetadata(e) == IF Type(e) = "complete" THEN "status" ELSE "emit"

\* updateFileMetadata for every file of the payload.
WriteMetadata(e) ==
  /\ At(e, "meta")
  /\ described' = TRUE
  /\ Goto(e, AfterMetadata(e))
  /\ UNCHANGED <<logVars, script, draft, messages, status, shown,
                 ahead, faults>>

\* appendWelcomeUpdate: read the message, merge, write it back.
ReadWelcome(e) ==
  /\ At(e, "read")
  /\ IF Text(e) \in messages[1].text
     THEN Goto(e, "status") /\ UNCHANGED draft
     ELSE Goto(e, "write") /\ draft' = [draft EXCEPT ![e] = messages[1].text]
  /\ UNCHANGED <<logVars, script, convVars, shown, ahead, faults>>

\* Mutant: the write replaces the message's text.
WriteWelcomeReplacing(e) ==
  /\ At(e, "write")
  /\ messages' = [messages EXCEPT ![1].text = {Text(e)}]
  /\ draft' = [draft EXCEPT ![e] = {}]
  /\ Goto(e, "status")
  /\ UNCHANGED <<logVars, script, status, described, shown, ahead, faults>>

WriteWelcome(e) ==
  /\ At(e, "write")
  /\ messages' = [messages EXCEPT ![1].text = draft[e] \cup {Text(e)}]
  /\ draft' = [draft EXCEPT ![e] = {}]
  /\ Goto(e, "status")
  /\ UNCHANGED <<logVars, script, status, described, shown, ahead, faults>>

\* updateConversationStatus: 'ready' for complete, 'failed' for error.
SetStatus(e) ==
  /\ At(e, "status")
  /\ status' = IF Type(e) = "complete" THEN "ready" ELSE "failed"
  /\ Goto(e, "emit")
  /\ UNCHANGED <<logVars, script, draft, messages, described,
                 shown, ahead, faults>>

-------------------------------------------------------------------------------
(* wiki_message, the emit that ends every handler, and failures *)

InsertWiki(e) ==
  /\ At(e, "wiki")
  /\ messages' = Append(messages, [internal |-> TRUE, text |-> {Text(e)}])
  /\ Goto(e, "emit")
  /\ UNCHANGED <<logVars, script, draft, status, described, shown,
                 ahead, faults>>

\* emitConversationEvent reaches the SSE clients of the same process only.
EmitToBrowser(e) ==
  /\ At(e, "emit")
  /\ shown' = IF owner[e] = Home THEN shown \cup {e} ELSE shown
  /\ evt' = [evt EXCEPT ![e] = "done"]
  /\ Goto(e, "idle")
  /\ UNCHANGED <<owner, script, draft, convVars, ahead, faults>>

\* A failed query inside one of the handlers' own try blocks: the metadata
\* loop, the welcome update and the wiki insert carry on without it.
SwallowedFailure(e) ==
  /\ Fault
  /\ \/ At(e, "meta") /\ Goto(e, AfterMetadata(e)) /\ UNCHANGED evt
     \/ At(e, "read") /\ Goto(e, "status") /\ UNCHANGED evt
     \/ At(e, "write") /\ Goto(e, "status") /\ UNCHANGED evt
     \/ At(e, "wiki") /\ Goto(e, "idle") /\ evt' = [evt EXCEPT ![e] = "done"]
  /\ draft' = [draft EXCEPT ![e] = {}]
  /\ UNCHANGED <<owner, script, convVars, shown, ahead>>

\* Any other failed query leaves the handler: processEvent logs it.
HandlerThrows(e) ==
  /\ Fault
  /\ At(e, "find") \/ At(e, "insert") \/ At(e, "status")
  /\ evt' = [evt EXCEPT ![e] = "lost"]
  /\ Goto(e, "idle")
  /\ UNCHANGED <<owner, script, draft, convVars, shown, ahead>>

\* The replica dies with its handlers at whatever await they are.
Crash(r) ==
  /\ Fault
  /\ \E e \in EventId : Running(e) /\ owner[e] = r
  /\ evt' = [e \in EventId |->
               IF Running(e) /\ owner[e] = r THEN "lost" ELSE evt[e]]
  /\ pc' = [e \in EventId |->
               IF Running(e) /\ owner[e] = r THEN "idle" ELSE pc[e]]
  /\ draft' = [e \in EventId |->
                  IF Running(e) /\ owner[e] = r THEN {} ELSE draft[e]]
  /\ UNCHANGED <<owner, script, convVars, shown, ahead>>

-------------------------------------------------------------------------------
HandlerStep(e) ==
  \/ FindWelcome(e)
  \/ InsertWelcome(e)
  \/ WriteMetadata(e)
  \/ ReadWelcome(e)
  \/ WriteWelcome(e)
  \/ SetStatus(e)
  \/ InsertWiki(e)
  \/ EmitToBrowser(e)

Next ==
  \/ \E e \in EventId :
       Emit(e) \/ HandlerStep(e) \/ SwallowedFailure(e) \/ HandlerThrows(e)
  \/ \E r \in Replica, e \in EventId : Begin(r, e)
  \/ \E r \in Replica : Crash(r)

Spec == Init /\ [][Next]_vars

\* A running handler's queries come back.  Neither the worker's writes nor the
\* claims are fair: a claim query that fails leaves its row to the next drain.
FairSpec == Spec /\ \A e \in EventId : WF_vars(HandlerStep(e))

-------------------------------------------------------------------------------
(* Properties *)

Texts == {script[e].text : e \in DOMAIN script} \cup {Fallback}
Message == [internal : BOOLEAN, text : SUBSET Texts]
Await == {"idle", "find", "insert", "meta", "read", "write", "status", "wiki", "emit"}

TypeOK ==
  /\ LogTypeOK
  /\ script \in Scripts
  /\ pc \in [EventId -> Await]
  /\ draft \in [EventId -> SUBSET Texts]
  /\ messages \in Seq(Message)
  /\ status \in {"processing", "ready", "failed"}
  /\ described \in BOOLEAN
  /\ shown \in SUBSET EventId
  /\ ahead \in SUBSET EventId
  /\ faults \in 0 .. MaxFaults

Visible == {i \in DOMAIN messages : ~messages[i].internal}

Begun(e) == evt[e] \in {"running", "done", "lost"}

\* The wiki row was handled out of turn, or comes with no welcome row before it
\* because the worker's INSERT of that row failed.
WikiAhead ==
  \E e \in EventId :
    /\ Begun(e) /\ Type(e) = "wiki_message"
    /\ e \in ahead \/ \A d \in DOMAIN script : d < e => Type(d) # "welcome_message"

\* The conversation has a welcome the user can see.  The one way to have only a
\* hidden message is a wiki row ahead of its welcome: findExistingWelcomeMessageId
\* takes the oldest assistant message, hidden or not, so nobody inserts a welcome
\* behind it.
Welcomed == messages # <<>> /\ (Visible = {} => WikiAhead)

\* What has to be stored when the handler of e tells the browser about it.
Stored(e) ==
  /\ Type(e) \in {"welcome_message", "complete"} => Welcomed
  /\ Type(e) \in {"complete", "error"} => status # "processing"

\* A conversation is 'ready' only once its welcome is stored: handleComplete finds
\* or inserts one before it writes the status, whatever was lost, raced or
\* delivered out of order before it, except for a wiki row that got ahead.
ReadyHasWelcome == status = "ready" => Welcomed

\* The browser is told nothing the database does not hold yet: after a
\* welcome_message or complete event there is a welcome to fetch (with the same
\* exception), and after `complete` or `error` the conversation is no longer
\* 'processing'.
ShownIsStored == \A e \in shown : Stored(e)

\* What the handler of e has stored when it is through with its row, in terms no
\* other handler can undo.
Held(e) ==
  /\ Type(e) \in {"welcome_message", "complete"} => messages # <<>>
  /\ Type(e) \in {"complete", "error"} => status # "processing"

\* Where a running handler is says what it has already stored: the reason why
\* ReadyHasWelcome and ShownIsStored hold whatever the other handlers do.
InHandler(e) ==
  /\ pc[e] = "find" => Type(e) \in {"welcome_message", "complete"}
  /\ pc[e] = "insert" => Type(e) \in {"welcome_message", "complete"}
  /\ pc[e] = "meta" => /\ Type(e) \in {"welcome_message", "complete"}
                       /\ messages # <<>>
  /\ pc[e] \in {"read", "write"} => Type(e) = "complete" /\ messages # <<>>
  /\ pc[e] = "status" => /\ Type(e) \in {"complete", "error"}
                         /\ Type(e) = "complete" => messages # <<>>
  /\ pc[e] = "wiki" => Type(e) = "wiki_message"
  /\ pc[e] = "emit" => Held(e)

\* A row that did not get ahead found every earlier row handled, the welcome
\* among them: a wiki row in its turn is never the first message.
InTurn ==
  \A e \in EventId \ ahead :
    Begun(e) => \A d \in EventId : d < e => evt[d] = "done"
DoneHeld == \A e \in EventId : evt[e] = "done" => Held(e)
FirstIsWelcome == messages # <<>> /\ messages[1].internal => WikiAhead

OnlyScript == \A e \in EventId : evt[e] # "none" => e \in DOMAIN script

\* The inductive invariant behind both.
IInv ==
  /\ TypeOK
  /\ OnlyScript
  /\ \A e \in EventId : Running(e) => InHandler(e)
  /\ shown \subseteq {e \in EventId : evt[e] = "done"}
  /\ status = "ready" => messages # <<>>
  /\ ahead \subseteq {e \in EventId : Begun(e)}
  /\ InTurn
  /\ DoneHeld
  /\ FirstIsWelcome

\* Reference: the handlers as one sequential program over the row sequence.
Unindexed == [messages |-> <<>>, status |-> "processing", described |-> FALSE]

Handled(conv, row) ==
  LET text == IF row.text = NoText THEN Fallback ELSE row.text
      fresh == row.type \in {"welcome_message", "complete"} /\ conv.messages = <<>>
  IN  [messages |->
         IF fresh THEN <<Welcome(text)>>
         ELSE IF row.type = "wiki_message"
         THEN Append(conv.messages, [internal |-> TRUE, text |-> {row.text}])
         ELSE IF row.type = "complete" /\ row.text # NoText
         THEN [conv.messages EXCEPT ![1].text = @ \cup {row.text}]
         ELSE conv.messages,
       status |-> IF row.type = "complete" THEN "ready"
                  ELSE IF row.type = "error" THEN "failed"
                  ELSE conv.status,
       described |-> conv.described \/ fresh \/ row.type = "welcome_message"]

\* The conversation after each number of rows.
Replay[n \in {0} \cup DOMAIN script] ==
  IF n = 0 THEN Unindexed ELSE Handled(Replay[n - 1], script[n])

Conversation == [messages |-> messages, status |-> status, described |-> described]

\* The handlers ran one by one, in row order, unharmed.
Serial == ahead = {} /\ faults = 0

\* When the rows were handled one at a time in id order (what a drain after a
\* reconnect does) and nothing failed, the await-by-await handlers leave the
\* conversation as the sequential program would: one first message, the text of
\* every complete merged into it once, the status of the last terminal event.
SerialIsReplay ==
  Serial /\ (\A e \in EventId : ~Running(e)) =>
    Conversation = Replay[Cardinality({e \in EventId : evt[e] = "done"})]

\* A claimed terminal row does not leave the conversation 'processing': whatever
\* path its handler takes through the welcome, it ends in a status write, unless
\* that very handler died.  That the row is claimed is EventuallyClaimed of
\* IndexingListener, with the exceptions named there.
CompleteSettles ==
  \A e \in EventId :
    (Running(e) /\ Type(e) \in {"complete", "error"})
      ~> (status # "processing" \/ evt[e] = "lost")

\* indexing-handler.ts: the claim is the single-writer guarantee, "so no
\* further dedup is needed here": a conversation gets one visible welcome.
OneWelcome == Cardinality(Visible) <= 1

\* indexing-handler.ts: "all instances receive it, the one with the browser
\* relays": the browser gets every event that was handled.
BrowserSeesHandled ==
  faults = 0 => \A e \in EventId : evt[e] = "done" => e \in shown
===============================================================================
