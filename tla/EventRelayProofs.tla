--------------------------- MODULE EventRelayProofs ---------------------------
(***************************************************************************)
(* For every set of event sequences, every number of replicas and rows,    *)
(* and any number of failures: a 'ready' conversation has a welcome and    *)
(* the browser is told of nothing the database does not hold, up to a wiki *)
(* row that got ahead.  The inductive invariant is IInv of EventRelay:     *)
(* what a handler has stored by the await it is at, which no other handler *)
(* takes back because messages are only appended and a status never        *)
(* returns to 'processing'; and that the oldest message is a welcome,      *)
(* because a wiki row in its turn finds the welcome row handled.           *)
(* SerialInv adds what a handler has done of its row while no other runs,  *)
(* for the comparison with Replay.                                         *)
(***************************************************************************)
EXTENDS EventRelay, NumberFacts, SequenceTheorems, TLAPS

LEMMA ScriptText ==
  ASSUME NEW e \in DOMAIN script
  PROVE  Text(e) \in Texts /\ WelcomeText(e) \in Texts
  BY DEF Text, WelcomeText, Texts

LEMMA ScriptKept ==
  [Next]_vars => script' = script /\ Texts' = Texts /\ Message' = Message
<1>1. ASSUME [Next]_vars PROVE script' = script
  <2>1. ASSUME NEW e \in EventId, HandlerStep(e) PROVE script' = script
    <3>1. CASE FindWelcome(e) \/ ReadWelcome(e)
      BY <3>1 DEF FindWelcome, ReadWelcome
    <3>2. CASE InsertWelcome(e) \/ WriteMetadata(e) \/ WriteWelcome(e)
      BY <3>2 DEF InsertWelcome, WriteMetadata, WriteWelcome
    <3>3. CASE SetStatus(e) \/ InsertWiki(e) \/ EmitToBrowser(e)
      BY <3>3 DEF SetStatus, InsertWiki, EmitToBrowser
    <3>. QED  BY <2>1, <3>1, <3>2, <3>3 DEF HandlerStep
  <2>2. ASSUME NEW e \in EventId, Emit(e) \/ SwallowedFailure(e) \/ HandlerThrows(e)
        PROVE  script' = script
    BY <2>2 DEF Emit, SwallowedFailure, HandlerThrows
  <2>3. ASSUME NEW r \in Replica, Crash(r) \/ \E e \in EventId : Begin(r, e)
        PROVE  script' = script
    BY <2>3 DEF Begin, Crash
  <2>. QED  BY <1>1, <2>1, <2>2, <2>3 DEF Next, vars
<1>. QED  BY <1>1 DEF Texts, Message

LEMMA ScriptType ==
  ASSUME TypeOK, NEW e \in EventId, e \in DOMAIN script
  PROVE  Type(e) \in EventType
  BY RelayAssumption DEF TypeOK, Type

\* Appending keeps a conversation typed and not empty.
LEMMA AppendMessage ==
  ASSUME messages \in Seq(Message), NEW m \in Message
  PROVE  /\ Append(messages, m) \in Seq(Message)
         /\ Append(messages, m) # <<>>
<1>1. Append(messages, m) \in Seq(Message) /\ Len(Append(messages, m)) = Len(messages) + 1
  BY AppendProperties
<1>2. Len(messages) \in Nat
  BY LenProperties
<1>. QED  BY <1>1, <1>2, EmptySeq

\* Rewriting the text of the first message keeps the conversation typed.
LEMMA RewriteFirst ==
  ASSUME messages \in Seq(Message), messages # <<>>, NEW T \in SUBSET Texts
  PROVE  /\ [messages EXCEPT ![1].text = T] \in Seq(Message)
         /\ [messages EXCEPT ![1].text = T] # <<>>
         /\ [messages EXCEPT ![1].text = T][1].internal = messages[1].internal
<1> DEFINE rewritten == [messages EXCEPT ![1].text = T]
<1>1. Len(messages) \in Nat \ {0} /\ DOMAIN messages = 1 .. Len(messages)
  OBVIOUS
<1>2. rewritten = [i \in 1 .. Len(messages) |->
                     IF i = 1 THEN [messages[1] EXCEPT !.text = T] ELSE messages[i]]
  BY <1>1
<1>3. \A i \in 1 .. Len(messages) : rewritten[i] \in Message
  <2>1. messages[1] \in Message
    BY <1>1
  <2>2. [messages[1] EXCEPT !.text = T] \in Message
    BY <2>1 DEF Message
  <2>. QED  BY <1>1, <1>2, <2>2
<1>4. rewritten \in Seq(Message)
  BY <1>1, <1>2, <1>3
<1>5. rewritten # <<>>
  BY <1>1, <1>2
<1>6. rewritten[1].internal = messages[1].internal
  <2>1. messages[1] \in Message /\ 1 \in 1 .. Len(messages)
    BY <1>1
  <2>2. [messages[1] EXCEPT !.text = T].internal = messages[1].internal
    BY <2>1 DEF Message
  <2>. QED  BY <1>2, <2>1, <2>2
<1>. QED  BY <1>4, <1>5, <1>6
-------------------------------------------------------------------------------
(* Types *)

LEMMA InitType == Init => TypeOK
<1> SUFFICES ASSUME Init PROVE TypeOK
  OBVIOUS
<1>1. messages \in Seq(Message)
  BY EmptySeq DEF Init
<1>2. LogTypeOK
  BY DEF Init, LogInit, LogTypeOK, EventState
<1>3. pc \in [EventId -> Await] /\ draft \in [EventId -> SUBSET Texts]
  BY DEF Init, Await
<1>4. script \in Scripts /\ shown \in SUBSET EventId /\ faults \in 0 .. MaxFaults
  BY RelayAssumption DEF Init
<1>5. /\ status \in {"processing", "ready", "failed"}
      /\ described \in BOOLEAN
      /\ ahead \in SUBSET EventId
  BY DEF Init
<1>. QED  BY <1>1, <1>2, <1>3, <1>4, <1>5 DEF TypeOK

LEMMA StepType == IInv /\ [Next]_vars => TypeOK' /\ OnlyScript'
<1> SUFFICES ASSUME IInv, [Next]_vars PROVE TypeOK' /\ OnlyScript'
  OBVIOUS
<1>a. script' = script /\ Texts' = Texts /\ Message' = Message
  BY ScriptKept
<1>b. TypeOK /\ OnlyScript
  BY DEF IInv
<1>d. \A e \in EventId : Running(e) => e \in DOMAIN script /\ InHandler(e)
  BY DEF IInv, OnlyScript, Running
<1> USE <1>a, <1>b, RelayAssumption
    DEF TypeOK, LogTypeOK, OnlyScript, EventState, Await, Goto, Fault, logVars,
        convVars, At, Running
<1>1. ASSUME NEW e \in EventId, Emit(e) PROVE TypeOK' /\ OnlyScript'
  BY <1>1 DEF Emit, Insert
<1>2. ASSUME NEW r \in Replica, NEW e \in EventId, Begin(r, e)
      PROVE  TypeOK' /\ OnlyScript'
  <2>1. e \in DOMAIN script
    BY <1>2 DEF Begin, Claim
  <2>2. FirstLabel(e) \in {"emit", "find", "wiki", "status"}
    BY <2>1, ScriptType DEF FirstLabel, EventType
  <2>. QED  BY <1>2, <2>1, <2>2 DEF Begin, Claim
<1>3. ASSUME NEW e \in EventId, FindWelcome(e) PROVE TypeOK' /\ OnlyScript'
  <2>1. Type(e) \in {"welcome_message", "complete"}
    BY <1>3, <1>d DEF FindWelcome, InHandler
  <2>2. \E l \in {"insert", "meta", "status", "read"} : pc' = [pc EXCEPT ![e] = l]
    BY <1>3, <2>1 DEF FindWelcome
  <2>. QED  BY <1>3, <2>2 DEF FindWelcome
<1>4. ASSUME NEW e \in EventId, InsertWelcome(e) PROVE TypeOK' /\ OnlyScript'
  <2>1. messages' \in Seq(Message)
    BY <1>4, <1>d, ScriptText, AppendMessage DEF InsertWelcome, Welcome, Message
  <2>. QED  BY <1>4, <2>1 DEF InsertWelcome
<1>5. ASSUME NEW e \in EventId, WriteMetadata(e) PROVE TypeOK' /\ OnlyScript'
  BY <1>5 DEF WriteMetadata, AfterMetadata
<1>6. ASSUME NEW e \in EventId, ReadWelcome(e) PROVE TypeOK' /\ OnlyScript'
  <2>1. messages # <<>>
    BY <1>6, <1>d DEF ReadWelcome, InHandler
  <2>2. messages[1] \in Message
    BY <2>1
  <2>3. messages[1].text \in SUBSET Texts
    BY <2>2 DEF Message
  <2>. QED  BY <1>6, <2>3 DEF ReadWelcome
<1>7. ASSUME NEW e \in EventId, WriteWelcome(e) PROVE TypeOK' /\ OnlyScript'
  <2>1. messages # <<>> /\ e \in DOMAIN script
    BY <1>7, <1>d DEF WriteWelcome, InHandler
  <2>2. draft[e] \cup {Text(e)} \in SUBSET Texts
    BY <2>1, ScriptText
  <2>3. messages' \in Seq(Message)
    BY <1>7, <2>1, <2>2, RewriteFirst DEF WriteWelcome
  <2>. QED  BY <1>7, <2>3 DEF WriteWelcome
<1>8. ASSUME NEW e \in EventId, SetStatus(e) PROVE TypeOK' /\ OnlyScript'
  BY <1>8 DEF SetStatus
<1>9. ASSUME NEW e \in EventId, InsertWiki(e) PROVE TypeOK' /\ OnlyScript'
  <2>1. messages' \in Seq(Message)
    BY <1>9, <1>d, ScriptText, AppendMessage DEF InsertWiki, Message
  <2>. QED  BY <1>9, <2>1 DEF InsertWiki
<1>10. ASSUME NEW e \in EventId, EmitToBrowser(e) PROVE TypeOK' /\ OnlyScript'
  BY <1>10 DEF EmitToBrowser
<1>11. ASSUME NEW e \in EventId, SwallowedFailure(e) PROVE TypeOK' /\ OnlyScript'
  <2>1. draft' \in [EventId -> SUBSET Texts] /\ UNCHANGED <<owner, script, convVars, shown>>
    BY <1>11 DEF SwallowedFailure
  <2>2. evt' \in [EventId -> EventState] /\ \A d \in EventId : evt'[d] # "none" => evt[d] # "none"
    BY <1>11 DEF SwallowedFailure
  <2>3. pc' \in [EventId -> Await]
    BY <1>11 DEF SwallowedFailure, AfterMetadata
  <2>8. UNCHANGED <<owner, messages, status, described, shown>> /\ ahead' = ahead
    BY <1>11 DEF SwallowedFailure
  <2>9. faults' \in 0 .. MaxFaults
    BY <1>11 DEF SwallowedFailure
  <2>. QED  BY <2>1, <2>2, <2>3, <2>8, <2>9
<1>12. ASSUME NEW e \in EventId, HandlerThrows(e) PROVE TypeOK' /\ OnlyScript'
  <2>1. evt' \in [EventId -> EventState] /\ \A d \in EventId : evt'[d] # "none" => evt[d] # "none"
    BY <1>12 DEF HandlerThrows
  <2>8. UNCHANGED <<owner, messages, status, described, shown>> /\ ahead' = ahead
    BY <1>12 DEF HandlerThrows
  <2>9. faults' \in 0 .. MaxFaults
    BY <1>12 DEF HandlerThrows
  <2>7. pc' \in [EventId -> Await] /\ draft' = draft
    BY <1>12 DEF HandlerThrows
  <2>. QED  BY <2>1, <2>7, <2>8, <2>9
<1>13. ASSUME NEW r \in Replica, Crash(r) PROVE TypeOK' /\ OnlyScript'
  <2>1. evt' \in [EventId -> EventState] /\ \A d \in EventId : evt'[d] # "none" => evt[d] # "none"
    BY <1>13 DEF Crash
  <2>2. pc' \in [EventId -> Await] /\ draft' \in [EventId -> SUBSET Texts]
    BY <1>13 DEF Crash
  <2>8. UNCHANGED <<owner, messages, status, described, shown>> /\ ahead' = ahead
    BY <1>13 DEF Crash
  <2>9. faults' \in 0 .. MaxFaults
    BY <1>13 DEF Crash
  <2>. QED  BY <2>1, <2>2, <2>8, <2>9
<1>14. CASE UNCHANGED vars
  BY <1>14 DEF vars
<1>. QED
  BY <1>1, <1>2, <1>3, <1>4, <1>5, <1>6, <1>7, <1>8, <1>9, <1>10, <1>11, <1>12,
     <1>13, <1>14 DEF Next, HandlerStep
-------------------------------------------------------------------------------
(* What has been stored stays stored *)

LEMMA InsertAdds ==
  ASSUME IInv, NEW e \in EventId, InsertWelcome(e)
  PROVE  messages' # <<>>
<1>1. messages \in Seq(Message) /\ e \in DOMAIN script
  BY DEF IInv, TypeOK, OnlyScript, InsertWelcome, At, Running
<1>2. Welcome(WelcomeText(e)) \in Message
  BY <1>1, ScriptText DEF Welcome, Message
<1>. QED  BY <1>1, <1>2, AppendMessage DEF InsertWelcome

\* Messages are never deleted and no status goes back to 'processing'.
LEMMA Monotone ==
  IInv /\ [Next]_vars =>
    /\ messages # <<>> => messages' # <<>>
    /\ status # "processing" => status' # "processing"
<1> SUFFICES ASSUME IInv, [Next]_vars
             PROVE  /\ messages # <<>> => messages' # <<>>
                    /\ status # "processing" => status' # "processing"
  OBVIOUS
<1>a. /\ messages \in Seq(Message)
      /\ \A e \in EventId : Running(e) => e \in DOMAIN script /\ InHandler(e)
      /\ draft \in [EventId -> SUBSET Texts]
  BY DEF IInv, TypeOK, OnlyScript, Running
<1>1. ASSUME NEW e \in EventId, InsertWelcome(e) PROVE messages' # <<>> /\ status' = status
  BY <1>1, InsertAdds DEF InsertWelcome
<1>2. ASSUME NEW e \in EventId, InsertWiki(e) PROVE messages' # <<>> /\ status' = status
  <2>1. [internal |-> TRUE, text |-> {Text(e)}] \in Message
    BY <1>2, <1>a, ScriptText DEF InsertWiki, At, Message
  <2>. QED  BY <1>2, <1>a, <2>1, AppendMessage DEF InsertWiki
<1>3. ASSUME NEW e \in EventId, WriteWelcome(e) PROVE messages' # <<>> /\ status' = status
  <2>1. messages # <<>> /\ e \in DOMAIN script
    BY <1>3, <1>a DEF WriteWelcome, At, InHandler
  <2>2. draft[e] \cup {Text(e)} \in SUBSET Texts
    BY <1>a, <2>1, ScriptText
  <2>. QED  BY <1>3, <1>a, <2>1, <2>2, RewriteFirst DEF WriteWelcome
<1>4. ASSUME NEW e \in EventId, SetStatus(e) PROVE messages' = messages /\ status' # "processing"
  BY <1>4 DEF SetStatus
<1>5. ASSUME NEW e \in EventId,
             FindWelcome(e) \/ WriteMetadata(e) \/ ReadWelcome(e) \/ EmitToBrowser(e)
      PROVE  messages' = messages /\ status' = status
  BY <1>5 DEF FindWelcome, WriteMetadata, ReadWelcome, EmitToBrowser, convVars
<1>6. ASSUME NEW e \in EventId, Emit(e) \/ SwallowedFailure(e) \/ HandlerThrows(e)
      PROVE  messages' = messages /\ status' = status
  BY <1>6 DEF Emit, SwallowedFailure, HandlerThrows, convVars
<1>7. ASSUME NEW r \in Replica, Crash(r) \/ \E e \in EventId : Begin(r, e)
      PROVE  messages' = messages /\ status' = status
  BY <1>7 DEF Crash, Begin, convVars
<1>8. CASE UNCHANGED vars
  BY <1>8 DEF vars
<1>. QED  BY <1>1, <1>2, <1>3, <1>4, <1>5, <1>6, <1>7, <1>8 DEF Next, HandlerStep

\* What e had stored, and what its await implies, survive a step of another.
LEMMA OthersKeep ==
  ASSUME IInv, [Next]_vars, NEW d \in EventId
  PROVE  /\ Held(d) => Held(d)'
         /\ InHandler(d) /\ pc'[d] = pc[d] => InHandler(d)'
<1>1. Type(d)' = Type(d)
  BY ScriptKept DEF Type
<1>. QED  BY <1>1, Monotone DEF Held, InHandler

\* The handler of e keeps InHandler as it goes from await to await.
LEMMA StepInHandler ==
  IInv /\ [Next]_vars => \A d \in EventId : Running(d)' => InHandler(d)'
<1> SUFFICES ASSUME IInv, [Next]_vars, NEW d \in EventId, Running(d)'
             PROVE  InHandler(d)'
  OBVIOUS
<1>a. /\ pc \in [EventId -> Await] /\ evt \in [EventId -> EventState]
      /\ Running(d) => InHandler(d)
      /\ Type(d)' = Type(d)
  BY ScriptKept DEF IInv, TypeOK, LogTypeOK, Type
<1>b. Running(d) /\ pc'[d] = pc[d] => InHandler(d)'
  BY <1>a, OthersKeep
<1>c. /\ messages # <<>> => messages' # <<>>
      /\ Held(d) => Held(d)'
  BY Monotone, OthersKeep
<1>d. ASSUME InsertWelcome(d) PROVE messages' # <<>>
  BY <1>d, InsertAdds
<1>1. CASE Running(d) /\ pc'[d] # pc[d]
  <2> USE <1>1, <1>a, <1>c DEF At, Goto, InHandler
  <2>1. CASE FindWelcome(d)
    BY <2>1 DEF FindWelcome, convVars
  <2>2. CASE InsertWelcome(d)
    BY <2>2, <1>d DEF InsertWelcome
  <2>3. CASE WriteMetadata(d)
    BY <2>3 DEF WriteMetadata, AfterMetadata, Held
  <2>4. CASE ReadWelcome(d)
    BY <2>4 DEF ReadWelcome
  <2>5. CASE WriteWelcome(d)
    BY <2>5 DEF WriteWelcome
  <2>6. CASE SetStatus(d)
    BY <2>6 DEF SetStatus, Held
  <2>7. CASE InsertWiki(d)
    BY <2>7 DEF InsertWiki, Held
  <2>8. CASE SwallowedFailure(d)
    BY <2>8 DEF SwallowedFailure, AfterMetadata, Held, Running
  <2>9. CASE EmitToBrowser(d) \/ HandlerThrows(d)
    BY <2>9 DEF EmitToBrowser, HandlerThrows, Running
  <2>10. ASSUME NEW e \in EventId, e # d,
                HandlerStep(e) \/ SwallowedFailure(e) \/ HandlerThrows(e)
         PROVE  pc'[d] = pc[d]
    <3>1. CASE HandlerStep(e)
      BY <2>10, <3>1 DEF HandlerStep, FindWelcome, InsertWelcome, WriteMetadata,
         ReadWelcome, WriteWelcome, SetStatus, InsertWiki, EmitToBrowser
    <3>2. CASE SwallowedFailure(e) \/ HandlerThrows(e)
      BY <2>10, <3>2 DEF SwallowedFailure, HandlerThrows
    <3>. QED  BY <2>10, <3>1, <3>2
  <2>11. ASSUME NEW e \in EventId, Emit(e) PROVE FALSE
    BY <2>11 DEF Emit
  <2>12. ASSUME NEW r \in Replica, NEW e \in EventId, Begin(r, e) PROVE FALSE
    BY <2>12 DEF Begin, Claim, Running
  <2>13. ASSUME NEW r \in Replica, Crash(r) PROVE FALSE
    BY <2>13 DEF Crash, Running
  <2>14. CASE UNCHANGED vars
    BY <2>14 DEF vars
  <2>. QED
    BY <2>1, <2>2, <2>3, <2>4, <2>5, <2>6, <2>7, <2>8, <2>9, <2>10, <2>11, <2>12,
       <2>13, <2>14 DEF Next, HandlerStep
<1>2. CASE ~Running(d)
  <2>1. ASSUME NEW r \in Replica, Begin(r, d) PROVE InHandler(d)'
    <3>1. d \in DOMAIN script
      BY <2>1 DEF Begin, Claim, IInv, OnlyScript
    <3>2. Type(d) \in EventType
      BY <3>1, ScriptType DEF IInv
    <3>3. pc'[d] = FirstLabel(d)
      BY <2>1, <1>a DEF Begin, Goto
    <3>. QED  BY <3>2, <3>3, <1>a DEF FirstLabel, EventType, InHandler, Held
  <2>2. ASSUME evt'[d] \in {evt[d], "unprocessed", "done", "lost"} PROVE FALSE
    BY <1>2, <2>2 DEF Running
  <2> USE <1>a, <2>2
  <2>3. ASSUME NEW e \in EventId, HandlerStep(e) PROVE FALSE
    BY <2>3 DEF HandlerStep, FindWelcome, InsertWelcome, WriteMetadata, ReadWelcome,
       WriteWelcome, SetStatus, InsertWiki, EmitToBrowser, logVars
  <2>4. ASSUME NEW e \in EventId, Emit(e) \/ SwallowedFailure(e) \/ HandlerThrows(e)
        PROVE  FALSE
    BY <2>4 DEF Emit, Insert, SwallowedFailure, HandlerThrows
  <2>5. ASSUME NEW r \in Replica, Crash(r) \/ \E e \in EventId : e # d /\ Begin(r, e)
        PROVE  FALSE
    BY <2>5 DEF Crash, Begin, Claim
  <2>6. CASE UNCHANGED vars
    BY <2>6 DEF vars
  <2>. QED  BY <2>1, <2>3, <2>4, <2>5, <2>6 DEF Next
<1>. QED  BY <1>1, <1>2, <1>b

\* How the log moves: a row starts by a claim and ends once.
LEMMA LogSteps ==
  IInv /\ [Next]_vars =>
    \A d \in EventId : /\ evt'[d] # evt[d] =>
                            \/ evt[d] = "none" /\ evt'[d] = "unprocessed"
                            \/ evt[d] = "unprocessed" /\ evt'[d] = "running"
                            \/ evt[d] = "running" /\ evt'[d] \in {"done", "lost"}
                       /\ evt'[d] = "done" =>
                            evt[d] = "done" \/ At(d, "emit") \/ At(d, "wiki")
<1>. SUFFICES ASSUME IInv, [Next]_vars, NEW d \in EventId, evt'[d] # evt[d]
              PROVE  /\ \/ evt[d] = "none" /\ evt'[d] = "unprocessed"
                        \/ evt[d] = "unprocessed" /\ evt'[d] = "running"
                        \/ evt[d] = "running" /\ evt'[d] \in {"done", "lost"}
                     /\ evt'[d] = "done" => At(d, "emit") \/ At(d, "wiki")
  OBVIOUS
<1>a. evt \in [EventId -> EventState]
  BY DEF IInv, TypeOK, LogTypeOK
<1>1. ASSUME NEW e \in EventId, HandlerStep(e), ~EmitToBrowser(e) PROVE evt' = evt
  BY <1>1 DEF HandlerStep, FindWelcome, InsertWelcome, WriteMetadata, ReadWelcome,
     WriteWelcome, SetStatus, InsertWiki, logVars
<1>2. ASSUME NEW e \in EventId, EmitToBrowser(e)
      PROVE  At(e, "emit") /\ evt' = [evt EXCEPT ![e] = "done"]
  BY <1>2 DEF EmitToBrowser
<1>3. ASSUME NEW e \in EventId, SwallowedFailure(e)
      PROVE  evt' = evt \/ (At(e, "wiki") /\ evt' = [evt EXCEPT ![e] = "done"])
  BY <1>3 DEF SwallowedFailure
<1>4. ASSUME NEW e \in EventId, HandlerThrows(e)
      PROVE  Running(e) /\ evt' = [evt EXCEPT ![e] = "lost"]
  BY <1>4 DEF HandlerThrows, At
<1>5. ASSUME NEW e \in EventId, Emit(e)
      PROVE  evt[e] = "none" /\ evt' = [evt EXCEPT ![e] = "unprocessed"]
  BY <1>5 DEF Emit, Insert
<1>6. ASSUME NEW r \in Replica, NEW e \in EventId, Begin(r, e)
      PROVE  evt[e] = "unprocessed" /\ evt' = [evt EXCEPT ![e] = "running"]
  BY <1>6 DEF Begin, Claim
<1>7. ASSUME NEW r \in Replica, Crash(r)
      PROVE  evt'[d] = evt[d] \/ (evt[d] = "running" /\ evt'[d] = "lost")
  BY <1>7 DEF Crash, Running
<1>8. ASSUME UNCHANGED vars PROVE evt' = evt
  BY <1>8 DEF vars
<1>. QED
  BY <1>a, <1>1, <1>2, <1>3, <1>4, <1>5, <1>6, <1>7, <1>8 DEF Next, At, Running

\* A row handled to the end has stored what it is about.
LEMMA StepDone == IInv /\ [Next]_vars => DoneHeld'
<1>. SUFFICES ASSUME IInv, [Next]_vars, NEW d \in EventId, evt'[d] = "done" PROVE Held(d)'
  BY DEF DoneHeld
<1>1. CASE evt[d] = "done"
  BY <1>1, OthersKeep DEF IInv, DoneHeld
<1>2. CASE At(d, "emit")
  BY <1>2, OthersKeep DEF IInv, InHandler, At
<1>3. CASE At(d, "wiki")
  <2>1. Type(d) = "wiki_message"
    BY <1>3 DEF IInv, InHandler, At
  <2>2. Held(d)
    BY <2>1 DEF Held
  <2>. QED  BY <2>2, OthersKeep
<1>. QED  BY <1>1, <1>2, <1>3, LogSteps

\* What begins before its turn is noted, and what is noted has begun.
LEMMA StepTurn ==
  IInv /\ [Next]_vars =>
    /\ InTurn' /\ ahead \subseteq ahead'
    /\ ahead' \subseteq {e \in EventId : Begun(e)'}
<1>. SUFFICES ASSUME IInv, [Next]_vars
              PROVE  /\ InTurn' /\ ahead \subseteq ahead'
                     /\ ahead' \subseteq {e \in EventId : Begun(e)'}
  OBVIOUS
<1>a. /\ evt \in [EventId -> EventState] /\ ahead \in SUBSET EventId
      /\ ahead \subseteq {e \in EventId : Begun(e)} /\ InTurn
  BY DEF IInv, TypeOK, LogTypeOK
<1>b. \A d \in EventId : (Begun(d) => Begun(d)') /\ (evt[d] = "done" => evt'[d] = "done")
  BY LogSteps DEF Begun
<1>1. CASE \E r \in Replica, e \in EventId : Begin(r, e)
  <2>1. PICK e \in EventId : /\ evt[e] = "unprocessed" /\ evt' = [evt EXCEPT ![e] = "running"]
                             /\ ahead' = IF \A d \in EventId : d < e => evt[d] = "done"
                                         THEN ahead ELSE ahead \cup {e}
    BY <1>1 DEF Begin, Claim
  <2>2. Begun(e)' /\ \A d \in EventId : d # e => Begun(d)' = Begun(d)
    BY <1>a, <2>1 DEF Begun
  <2>3. ahead \subseteq ahead' /\ ahead' \subseteq {d \in EventId : Begun(d)'}
    BY <1>a, <1>b, <2>1, <2>2
  <2>4. ASSUME NEW c \in EventId \ ahead', Begun(c)', NEW d \in EventId, d < c
        PROVE  evt'[d] = "done"
    <3>1. CASE c = e
      <4>1. evt[d] = "done"
        BY <2>1, <2>4, <3>1
      <4>. QED  BY <4>1, <1>b
    <3>2. CASE c # e
      BY <3>2, <1>a, <1>b, <2>2, <2>3, <2>4 DEF InTurn
    <3>. QED  BY <3>1, <3>2
  <2>. QED  BY <2>3, <2>4 DEF InTurn
<1>2. CASE ~\E r \in Replica, e \in EventId : Begin(r, e)
  <2>1. ahead' = ahead
    <3>1. ASSUME NEW e \in EventId, HandlerStep(e) PROVE ahead' = ahead
      BY <3>1 DEF HandlerStep, FindWelcome, InsertWelcome, WriteMetadata, ReadWelcome,
         WriteWelcome, SetStatus, InsertWiki, EmitToBrowser
    <3>2. ASSUME NEW e \in EventId, Emit(e) \/ SwallowedFailure(e) \/ HandlerThrows(e)
          PROVE  ahead' = ahead
      BY <3>2 DEF Emit, SwallowedFailure, HandlerThrows
    <3>3. ASSUME NEW r \in Replica, Crash(r) PROVE ahead' = ahead
      BY <3>3 DEF Crash
    <3>4. CASE UNCHANGED vars
      BY <3>4 DEF vars
    <3>. QED  BY <1>2, <3>1, <3>2, <3>3, <3>4 DEF Next
  <2>2. ASSUME NEW c \in EventId, Begun(c)' PROVE Begun(c)
    <3>1. ASSUME evt[c] = "unprocessed", evt'[c] = "running" PROVE FALSE
      <4>1. ASSUME NEW e \in EventId, HandlerStep(e) PROVE evt'[c] \in {evt[c], "done"}
        BY <1>a, <4>1 DEF HandlerStep, FindWelcome, InsertWelcome, WriteMetadata,
           ReadWelcome, WriteWelcome, SetStatus, InsertWiki, EmitToBrowser, logVars
      <4>2. ASSUME NEW e \in EventId, Emit(e) \/ SwallowedFailure(e) \/ HandlerThrows(e)
            PROVE  evt'[c] \in {evt[c], "unprocessed", "done", "lost"}
        BY <1>a, <4>2 DEF Emit, Insert, SwallowedFailure, HandlerThrows
      <4>3. ASSUME NEW r \in Replica, Crash(r) PROVE evt'[c] \in {evt[c], "lost"}
        BY <4>3 DEF Crash
      <4>4. CASE UNCHANGED vars
        BY <3>1, <4>4 DEF vars
      <4>. QED  BY <1>2, <3>1, <4>1, <4>2, <4>3, <4>4 DEF Next
    <3>. QED  BY <2>2, <3>1, LogSteps DEF Begun
  <2>. QED  BY <1>a, <1>b, <2>1, <2>2 DEF InTurn
<1>. QED  BY <1>1, <1>2

\* A wiki row that got ahead stays so.
LEMMA WikiAheadKept == IInv /\ [Next]_vars /\ WikiAhead => WikiAhead'
<1>. SUFFICES ASSUME IInv, [Next]_vars, WikiAhead PROVE WikiAhead'
  OBVIOUS
<1>1. PICK e \in EventId :
        /\ Begun(e) /\ Type(e) = "wiki_message"
        /\ e \in ahead \/ \A d \in DOMAIN script : d < e => Type(d) # "welcome_message"
  BY DEF WikiAhead
<1>2. Begun(e)'
  BY <1>1, LogSteps DEF Begun
<1>3. e \in ahead => e \in ahead'
  BY StepTurn
<1>4. script' = script /\ \A d \in DOMAIN script \cup {e} : Type(d)' = Type(d)
  BY ScriptKept DEF Type
<1>. QED  BY <1>1, <1>2, <1>3, <1>4 DEF WikiAhead

\* Only a wiki row that got ahead can put a hidden message first.
LEMMA StepFirst == IInv /\ [Next]_vars => FirstIsWelcome'
<1>. SUFFICES ASSUME IInv, [Next]_vars, messages' # <<>>, messages'[1].internal
              PROVE  WikiAhead'
  BY DEF FirstIsWelcome
<1>a. /\ messages \in Seq(Message) /\ script \in Scripts /\ FirstIsWelcome
      /\ \A e \in EventId : Running(e) => e \in DOMAIN script /\ InHandler(e)
      /\ draft \in [EventId -> SUBSET Texts]
  BY DEF IInv, TypeOK, OnlyScript, Running
<1>b. ASSUME messages # <<>>, messages'[1].internal = messages[1].internal PROVE WikiAhead'
  BY <1>a, <1>b, WikiAheadKept DEF FirstIsWelcome
<1>c. ASSUME NEW m \in Message, messages # <<>>, messages' = Append(messages, m)
      PROVE  messages'[1] = messages[1]
  BY <1>a, <1>c
<1>1. ASSUME NEW e \in EventId, InsertWelcome(e) PROVE WikiAhead'
  <2>1. PICK m \in Message : m = Welcome(WelcomeText(e)) /\ messages' = Append(messages, m)
    BY <1>1, <1>a, ScriptText DEF InsertWelcome, At, Welcome, Message
  <2>2. CASE messages = <<>>
    <3>1. messages'[1] = m
      BY <2>1, <2>2
    <3>. QED  BY <2>1, <3>1 DEF Welcome
  <2>3. CASE messages # <<>>
    BY <1>b, <1>c, <2>1, <2>3
  <2>. QED  BY <2>2, <2>3
<1>2. ASSUME NEW e \in EventId, InsertWiki(e) PROVE WikiAhead'
  <2>1. /\ Running(e) /\ e \in DOMAIN script /\ Type(e) = "wiki_message" /\ Begun(e)
        /\ messages' = Append(messages, [internal |-> TRUE, text |-> {Text(e)}])
    BY <1>2, <1>a DEF InsertWiki, At, InHandler, Begun, Running
  <2>2. CASE messages # <<>>
    <3>1. [internal |-> TRUE, text |-> {Text(e)}] \in Message
      BY <2>1, ScriptText DEF Message
    <3>. QED  BY <1>b, <1>c, <2>1, <2>2, <3>1
  <2>3. CASE messages = <<>>
    <3>1. ASSUME e \notin ahead, NEW d \in DOMAIN script, d < e, Type(d) = "welcome_message"
          PROVE  FALSE
      <4>1. d \in EventId
        <5>1. PICK N \in Nat : EventId = 1 .. N
          BY RelayAssumption, FS_CardinalityType
        <5>2. DOMAIN script = 1 .. Len(script) /\ Len(script) \in Nat
          BY <1>a, RelayAssumption
        <5>. QED  BY <3>1, <5>1, <5>2
      <4>2. evt[d] = "done"
        BY <2>1, <3>1, <4>1 DEF IInv, InTurn
      <4>. QED  BY <2>3, <3>1, <4>1, <4>2 DEF IInv, DoneHeld, Held
    <3>2. WikiAhead
      BY <2>1, <3>1 DEF WikiAhead
    <3>. QED  BY <3>2, WikiAheadKept
  <2>. QED  BY <2>2, <2>3
<1>3. ASSUME NEW e \in EventId, WriteWelcome(e) PROVE WikiAhead'
  <2>1. messages # <<>> /\ e \in DOMAIN script
    BY <1>3, <1>a DEF WriteWelcome, At, InHandler
  <2>2. draft[e] \cup {Text(e)} \in SUBSET Texts
    BY <1>a, <2>1, ScriptText
  <2>3. messages'[1].internal = messages[1].internal
    BY <1>3, <1>a, <2>1, <2>2, RewriteFirst DEF WriteWelcome
  <2>. QED  BY <1>b, <2>1, <2>3
<1>4. ASSUME messages' = messages PROVE WikiAhead'
  BY <1>4, <1>b
<1>5. ASSUME NEW e \in EventId,
             FindWelcome(e) \/ WriteMetadata(e) \/ ReadWelcome(e) \/ EmitToBrowser(e)
               \/ SetStatus(e)
      PROVE  messages' = messages
  BY <1>5 DEF FindWelcome, WriteMetadata, ReadWelcome, EmitToBrowser, SetStatus, convVars
<1>6. ASSUME NEW e \in EventId, Emit(e) \/ SwallowedFailure(e) \/ HandlerThrows(e)
      PROVE  messages' = messages
  BY <1>6 DEF Emit, SwallowedFailure, HandlerThrows, convVars
<1>7. ASSUME NEW r \in Replica, Crash(r) \/ \E e \in EventId : Begin(r, e)
      PROVE  messages' = messages
  BY <1>7 DEF Crash, Begin, convVars
<1>8. CASE UNCHANGED vars
  BY <1>4, <1>8 DEF vars
<1>. QED
  BY <1>1, <1>2, <1>3, <1>4, <1>5, <1>6, <1>7, <1>8 DEF Next, HandlerStep

\* The browser is told of e only in the step that ends its handler.
LEMMA StepShown == IInv /\ [Next]_vars => shown' \subseteq {e \in EventId : evt'[e] = "done"}
<1>. SUFFICES ASSUME IInv, [Next]_vars
              PROVE  shown' \subseteq {e \in EventId : evt'[e] = "done"}
  OBVIOUS
<1>a. evt \in [EventId -> EventState] /\ shown \subseteq {e \in EventId : evt[e] = "done"}
  BY DEF IInv, TypeOK, LogTypeOK
<1>b. \A e \in EventId : evt[e] = "done" => evt'[e] = "done"
  BY LogSteps
<1>1. ASSUME NEW e \in EventId, EmitToBrowser(e)
      PROVE  shown' \in {shown, shown \cup {e}} /\ evt'[e] = "done"
  BY <1>1, <1>a DEF EmitToBrowser
<1>2. ASSUME NEW e \in EventId, HandlerStep(e), ~EmitToBrowser(e) PROVE shown' = shown
  BY <1>2 DEF HandlerStep, FindWelcome, InsertWelcome, WriteMetadata, ReadWelcome,
     WriteWelcome, SetStatus, InsertWiki
<1>3. ASSUME NEW e \in EventId, Emit(e) \/ SwallowedFailure(e) \/ HandlerThrows(e)
      PROVE  shown' = shown
  BY <1>3 DEF Emit, SwallowedFailure, HandlerThrows
<1>4. ASSUME NEW r \in Replica, Crash(r) \/ \E e \in EventId : Begin(r, e)
      PROVE  shown' = shown
  BY <1>4 DEF Crash, Begin
<1>5. ASSUME UNCHANGED vars PROVE shown' = shown
  BY <1>5 DEF vars
<1>. QED  BY <1>a, <1>b, <1>1, <1>2, <1>3, <1>4, <1>5 DEF Next

\* Only the handler of a `complete` row sets 'ready', and it is past its insert.
LEMMA StepReady == IInv /\ [Next]_vars => (status' = "ready" => messages' # <<>>)
<1> SUFFICES ASSUME IInv, [Next]_vars PROVE status' = "ready" => messages' # <<>>
  OBVIOUS
<1>1. ASSUME NEW e \in EventId, SetStatus(e), status' = "ready" PROVE messages # <<>>
  BY <1>1 DEF SetStatus, At, IInv, InHandler
<1>2. ASSUME \A e \in EventId : ~SetStatus(e) PROVE status' = status
  <2>1. ASSUME NEW e \in EventId, HandlerStep(e) PROVE status' = status
    BY <1>2, <2>1 DEF HandlerStep, FindWelcome, InsertWelcome, WriteMetadata,
       ReadWelcome, WriteWelcome, InsertWiki, EmitToBrowser, convVars
  <2>2. ASSUME NEW e \in EventId, Emit(e) \/ SwallowedFailure(e) \/ HandlerThrows(e)
        PROVE  status' = status
    BY <2>2 DEF Emit, SwallowedFailure, HandlerThrows, convVars
  <2>3. ASSUME NEW r \in Replica, Crash(r) \/ \E e \in EventId : Begin(r, e)
        PROVE  status' = status
    BY <2>3 DEF Crash, Begin, convVars
  <2>4. CASE UNCHANGED vars
    BY <2>4 DEF vars
  <2>. QED  BY <2>1, <2>2, <2>3, <2>4 DEF Next
<1>. QED  BY <1>1, <1>2, Monotone DEF IInv
-------------------------------------------------------------------------------
LEMMA InitIInv == Init => IInv
  BY InitType DEF Init, LogInit, IInv, OnlyScript, Running, InTurn, Begun, DoneHeld,
     FirstIsWelcome

LEMMA Invariance == Spec => []IInv
<1>1. IInv /\ [Next]_vars => IInv'
  BY StepType, StepInHandler, StepShown, StepReady, StepTurn, StepDone, StepFirst
  DEF IInv
<1>. QED  BY InitIInv, <1>1, PTL DEF Spec

\* A conversation with a message has a welcome, up to a wiki row ahead.
LEMMA MessageWelcomes == IInv /\ messages # <<>> => Welcomed
<1>. SUFFICES ASSUME IInv, messages # <<>>, Visible = {} PROVE WikiAhead
  BY DEF Welcomed
<1>1. 1 \in DOMAIN messages
  BY DEF IInv, TypeOK
<1>2. messages[1].internal
  BY <1>1 DEF Visible
<1>. QED  BY <1>2 DEF IInv, FirstIsWelcome

\* Type correctness of the relay.
THEOREM TypeCorrect == Spec => []TypeOK
  BY Invariance, PTL DEF IInv

\* A conversation is 'ready' only with a welcome the user can see, whatever
\* crashed or raced (handleComplete of indexing-handler.ts), unless a hidden wiki
\* message was stored ahead of it.
THEOREM ReadyWithWelcome == Spec => []ReadyHasWelcome
<1>1. IInv => ReadyHasWelcome
  BY MessageWelcomes DEF IInv, ReadyHasWelcome
<1>. QED  BY <1>1, Invariance, PTL

\* The SSE stream never runs ahead of the database: what the browser is told of
\* has its welcome (with the same exception) and its terminal status stored.
THEOREM BrowserBehindStore == Spec => []ShownIsStored
<1>1. IInv => ShownIsStored
  <2>. SUFFICES ASSUME IInv, NEW e \in shown PROVE Stored(e)
    BY DEF ShownIsStored
  <2>1. e \in EventId /\ Held(e)
    BY DEF IInv, DoneHeld
  <2>. QED  BY <2>1, MessageWelcomes DEF Held, Stored
<1>. QED  BY <1>1, Invariance, PTL

-------------------------------------------------------------------------------
(* The sequential program                                                  *)

\* What a conversation may be.
Conversations ==
  [messages : Seq(Message), status : {"processing", "ready", "failed"}, described : BOOLEAN]

\* A row makes a conversation of a conversation.
LEMMA HandledIsConversation ==
  ASSUME NEW c \in Conversations, NEW e \in DOMAIN script, Type(e) \in EventType
  PROVE  Handled(c, script[e]) \in Conversations
<1>. DEFINE h == Handled(c, script[e])
            text == IF script[e].text = NoText THEN Fallback ELSE script[e].text
<1>1. text \in Texts /\ script[e].text \in Texts
  BY DEF Texts
<1>2. PICK s \in Seq(Message) : s = c.messages
  BY DEF Conversations
<1>3. c.status \in {"processing", "ready", "failed"} /\ c.described \in BOOLEAN
  BY DEF Conversations
<1>4. h.messages \in Seq(Message)
  <2>1. Welcome(text) \in Message /\ [internal |-> TRUE, text |-> {script[e].text}] \in Message
    BY <1>1 DEF Welcome, Message
  <2>2. CASE h.messages = <<Welcome(text)>>
    BY <2>1, <2>2
  <2>3. CASE h.messages = Append(s, [internal |-> TRUE, text |-> {script[e].text}])
    BY <2>1, <2>3
  <2>4. CASE s # <<>> /\ h.messages = [s EXCEPT ![1].text = @ \cup {script[e].text}]
    <3>1. 1 \in DOMAIN s /\ DOMAIN s = 1 .. Len(s) /\ Len(s) \in Nat /\ s[1] \in Message
      BY <2>4
    <3>2. PICK m \in Message : m = [s[1] EXCEPT !.text = @ \cup {script[e].text}]
      BY <1>1, <3>1 DEF Message
    <3>3. h.messages = [s EXCEPT ![1] = m]
      BY <2>4, <3>1, <3>2
    <3>. QED  BY <3>1, <3>3
  <2>5. CASE h.messages = s
    BY <2>5
  <2>6. h.messages \in {<<Welcome(text)>>,
          Append(s, [internal |-> TRUE, text |-> {script[e].text}]), s}
        \/ (s # <<>> /\ h.messages = [s EXCEPT ![1].text = @ \cup {script[e].text}])
    BY <1>2 DEF Handled
  <2>. QED  BY <2>2, <2>3, <2>4, <2>5, <2>6
<1>5. h.status \in {"processing", "ready", "failed"}
  BY <1>3 DEF Handled
<1>6. h.described \in BOOLEAN
  BY <1>3 DEF Handled
<1>7. h = [messages |-> h.messages, status |-> h.status, described |-> h.described]
  BY DEF Handled
<1>. HIDE DEF h
<1>8. h \in Conversations
  BY <1>4, <1>5, <1>6, <1>7 DEF Conversations
<1>. QED  BY <1>8 DEF h

\* Replay unfolds as its definition says: there is such a function, by recursion,
\* and its values are conversations, by induction.
LEMMA ReplayUnfolds ==
  ASSUME script \in Scripts
  PROVE  /\ Replay[0] = Unindexed
         /\ \A k \in DOMAIN script : Replay[k] = Handled(Replay[k - 1], script[k])
         /\ \A k \in 0 .. Len(script) : Replay[k] \in Conversations
<1>. DEFINE n == Len(script)
            next(k, c) == IF k \in DOMAIN script THEN Handled(c, script[k]) ELSE c
            replaying == [k \in Nat |-> [c \in Conversations |-> next(k, c)]]
            Body(f) == [k \in {0} \cup DOMAIN script |->
                          IF k = 0 THEN Unindexed ELSE Handled(f[k - 1], script[k])]
<1>1. n \in Nat /\ DOMAIN script = 1 .. n /\ \A e \in DOMAIN script : Type(e) \in EventType
  BY RelayAssumption DEF Type
<1>2. Unindexed \in Conversations
  <2>1. <<>> \in Seq(Message)
    OBVIOUS
  <2>. QED  BY <2>1 DEF Unindexed, Conversations
<1>3. ASSUME NEW k \in Nat, NEW c \in Conversations PROVE next(k, c) \in Conversations
  BY <1>1, HandledIsConversation
<1>. HIDE DEF n, next
<1>4. replaying \in [Nat -> [Conversations -> Conversations]]
  BY <1>3
<1>5. PICK f \in [0 .. n -> Conversations] :
        f[0] = Unindexed /\ \A k \in 1 .. n : f[k] = replaying[k][f[k - 1]]
  <2>. HIDE DEF replaying
  <2>1. \E f \in [0 .. n -> Conversations] : Unfolds(f, n, Unindexed, replaying)
    BY <1>1, <1>2, <1>4, Recursion
  <2>. QED  BY <2>1 DEF Unfolds
<1>6. ASSUME NEW k \in 1 .. n PROVE f[k] = Handled(f[k - 1], script[k])
  <2>1. k \in Nat /\ k - 1 \in 0 .. n
    BY <1>1
  <2>2. f[k - 1] \in Conversations
    BY <2>1, <1>5
  <2>3. f[k] = next(k, f[k - 1])
    BY <2>1, <2>2, <1>5
  <2>. QED  BY <2>3, <1>1 DEF next
<1>7. f = Body(f)
  <2>1. {0} \cup DOMAIN script = 0 .. n
    BY <1>1
  <2>2. ASSUME NEW k \in 0 .. n PROVE f[k] = Body(f)[k]
    <3>1. k = 0 \/ k \in 1 .. n
      BY <1>1
    <3>. QED  BY <3>1, <2>1, <1>5, <1>6
  <2>. QED  BY <2>1, <2>2, <1>5
<1>8. Replay = CHOOSE g : g = Body(g)
  BY DEF Replay
<1>9. PICK g : g = Replay /\ g = Body(g)
  <2>. HIDE DEF Body
  <2>. QED  BY <1>7, <1>8
<1>10. g[0] = Unindexed
  BY <1>9
<1>11. ASSUME NEW k \in 1 .. n PROVE g[k] = Handled(g[k - 1], script[k])
  BY <1>1, <1>9
<1>. DEFINE Good == {m \in Nat : m <= n => g[m] \in Conversations}
<1>12. 0 \in Good
  BY <1>2, <1>10
<1>13. ASSUME NEW m \in Nat, m \in Good PROVE m + 1 \in Good
  <2>. SUFFICES ASSUME m + 1 <= n PROVE g[m + 1] \in Conversations
    OBVIOUS
  <2>1. m + 1 \in 1 .. n /\ m + 1 - 1 = m /\ m <= n
    BY <1>1
  <2>2. g[m + 1] = Handled(g[m], script[m + 1]) /\ g[m] \in Conversations
    BY <2>1, <1>11, <1>13
  <2>3. m + 1 \in DOMAIN script /\ Type(m + 1) \in EventType
    BY <2>1, <1>1
  <2>. QED  BY <2>2, <2>3, HandledIsConversation
<1>14. Nat \subseteq Good
  <2>. HIDE DEF Good
  <2>. QED  BY <1>12, <1>13, Induction
<1>15. \A k \in 0 .. n : g[k] \in Conversations
  BY <1>14, <1>1
<1>. QED  BY <1>1, <1>9, <1>10, <1>11, <1>15 DEF n

\* What the handler of e has done of the row by the await it is at.
Partway(e, before) ==
  LET after == Handled(before, script[e])
      welcoming == Type(e) \in {"welcome_message", "complete"}
  IN  /\ pc[e] # "idle"
      /\ pc[e] = "find" => welcoming /\ Conversation = before
      /\ pc[e] = "wiki" => Type(e) = "wiki_message" /\ Conversation = before
      /\ pc[e] = "insert" => welcoming /\ messages = <<>> /\ Conversation = before
      /\ pc[e] = "meta" =>
           /\ welcoming /\ messages = after.messages
           /\ before.messages = <<>> \/ Type(e) = "welcome_message"
           /\ status = before.status /\ described = before.described
      /\ pc[e] \in {"read", "write"} =>
           /\ Type(e) = "complete" /\ Text(e) # NoText /\ messages # <<>>
           /\ Conversation = before
      /\ pc[e] = "write" => draft[e] = messages[1].text
      /\ pc[e] = "status" =>
           /\ Type(e) \in {"complete", "error"}
           /\ messages = after.messages /\ described = after.described
           /\ status = before.status
      /\ pc[e] = "emit" => Conversation = after

\* The first n rows are handled, and no other but the next is being handled.
SoFar(n) ==
  /\ \A e \in EventId : evt[e] = "done" <=> e <= n
  /\ \A e \in EventId : Running(e) => e = n + 1 /\ Partway(e, Replay[n])
  /\ (\A e \in EventId : ~Running(e)) => Conversation = Replay[n]

\* The inductive invariant: as long as the handlers ran one by one.
SerialInv ==
  Serial => \E n \in 0 .. Len(script) : n <= Cardinality(EventId) /\ SoFar(n)

LEMMA ReplayKept == script' = script => Replay' = Replay
  BY DEF Replay

\* An await of the handler that is not its last.
LEMMA AwaitPartway ==
  ASSUME IInv, NEW e \in EventId, Running(e), NEW before \in Conversations, Partway(e, before),
         HandlerStep(e), ~EmitToBrowser(e)
  PROVE  Partway(e, before)'
<1>1. /\ e \in DOMAIN script /\ pc \in [EventId -> Await] /\ messages \in Seq(Message)
      /\ script' = script /\ Type(e) \in EventType /\ draft \in [EventId -> SUBSET Texts]
      /\ Type(e)' = Type(e) /\ Text(e)' = Text(e)
  <2>1. [Next]_vars
    BY DEF Next
  <2>2. script' = script
    BY <2>1, ScriptKept
  <2>3. e \in DOMAIN script
    BY DEF IInv, OnlyScript, Running
  <2>4. Type(e) \in EventType
    BY <2>3, ScriptType DEF IInv
  <2>. QED  BY <2>2, <2>3, <2>4 DEF IInv, TypeOK, Type, Text
<1>2. PICK after : after = Handled(before, script[e])
  OBVIOUS
<1>3. /\ after.messages =
           IF Type(e) \in {"welcome_message", "complete"} /\ before.messages = <<>>
           THEN <<Welcome(WelcomeText(e))>>
           ELSE IF Type(e) = "wiki_message"
           THEN Append(before.messages, [internal |-> TRUE, text |-> {Text(e)}])
           ELSE IF Type(e) = "complete" /\ Text(e) # NoText
           THEN [before.messages EXCEPT ![1].text = @ \cup {Text(e)}]
           ELSE before.messages
      /\ after.status = IF Type(e) = "complete" THEN "ready"
                        ELSE IF Type(e) = "error" THEN "failed" ELSE before.status
      /\ after.described = \/ before.described
                           \/ Type(e) \in {"welcome_message", "complete"} /\ before.messages = <<>>
                           \/ Type(e) = "welcome_message"
      /\ after = [messages |-> after.messages, status |-> after.status,
                  described |-> after.described]
  BY <1>2 DEF Handled, Type, Text, WelcomeText
<1>4. /\ before = [messages |-> before.messages, status |-> before.status,
                   described |-> before.described]
      /\ before.described \in BOOLEAN
  BY DEF Conversations
<1>5. Conversation = before => messages = before.messages /\ status = before.status
                               /\ described = before.described
  BY DEF Conversation
<1>6. messages = after.messages /\ status = after.status /\ described = after.described
        => Conversation = after
  BY <1>3 DEF Conversation
<1>7. Handled(before, script[e])' = after
  BY <1>1, <1>2 DEF Handled, Welcome
<1>8. \A l \in Await : Goto(e, l) => pc'[e] = l
  BY <1>1 DEF Goto
<1>. USE <1>1, <1>3, <1>4, <1>5, <1>6, <1>7, <1>8
<1>9. CASE FindWelcome(e)
  <2>1. pc[e] = "find" /\ Conversation = before /\ Type(e) \in {"welcome_message", "complete"}
    BY <1>9 DEF FindWelcome, At, Partway
  <2>2. UNCHANGED <<messages, status, described, draft>> /\ Conversation' = Conversation
    BY <1>9 DEF FindWelcome, convVars, Conversation
  <2>3. CASE messages = <<>>
    <3>1. pc'[e] = "insert"
      BY <1>9, <2>3 DEF FindWelcome, Await, Goto
    <3>. QED  BY <2>1, <2>2, <2>3, <3>1 DEF Partway
  <2>4. CASE messages # <<>> /\ Type(e) = "welcome_message"
    <3>1. pc'[e] = "meta"
      BY <1>9, <2>4 DEF FindWelcome, Await, Goto
    <3>2. messages = after.messages
      BY <2>1, <2>4
    <3>. QED  BY <2>1, <2>2, <2>4, <3>1, <3>2 DEF Partway
  <2>5. CASE messages # <<>> /\ Type(e) = "complete"
    <3>1. pc'[e] = IF Text(e) = NoText THEN "status" ELSE "read"
      BY <1>9, <2>5 DEF FindWelcome, Await, Goto
    <3>2. Text(e) = NoText => messages = after.messages /\ described = after.described
      BY <2>1, <2>5
    <3>. QED  BY <2>1, <2>2, <2>5, <3>1, <3>2 DEF Partway
  <2>. QED  BY <2>1, <2>3, <2>4, <2>5
<1>10. CASE InsertWelcome(e)
  <2>1. pc[e] = "insert" /\ messages = <<>> /\ Conversation = before
        /\ Type(e) \in {"welcome_message", "complete"}
    BY <1>10 DEF InsertWelcome, At, Partway
  <2>2. messages' = <<Welcome(WelcomeText(e))>>
    BY <1>10, <2>1 DEF InsertWelcome
  <2>3. pc'[e] = "meta" /\ UNCHANGED <<status, described, draft>>
    BY <1>10 DEF InsertWelcome, Await
  <2>. QED  BY <2>1, <2>2, <2>3 DEF Partway
<1>11. CASE WriteMetadata(e)
  <2>1. /\ pc[e] = "meta" /\ messages = after.messages
        /\ Type(e) \in {"welcome_message", "complete"}
        /\ before.messages = <<>> \/ Type(e) = "welcome_message"
        /\ status = before.status
    BY <1>11 DEF WriteMetadata, At, Partway
  <2>2. described' = TRUE /\ UNCHANGED <<messages, status, draft>>
        /\ pc'[e] = IF Type(e) = "complete" THEN "status" ELSE "emit"
    BY <1>11 DEF WriteMetadata, AfterMetadata, Await
  <2>3. after.described = TRUE
    BY <2>1
  <2>4. Type(e) # "complete" => Conversation' = after
    BY <2>1, <2>2, <2>3 DEF Conversation
  <2>. QED  BY <2>1, <2>2, <2>3, <2>4 DEF Partway
<1>12. CASE ReadWelcome(e)
  <2>1. /\ pc[e] = "read" /\ Type(e) = "complete" /\ Text(e) # NoText /\ messages # <<>>
        /\ Conversation = before
    BY <1>12 DEF ReadWelcome, At, Partway
  <2>2. UNCHANGED <<messages, status, described>> /\ Conversation' = Conversation
    BY <1>12 DEF ReadWelcome, convVars, Conversation
  <2>3. CASE Text(e) \in messages[1].text
    <3>1. pc'[e] = "status"
      BY <1>12, <2>3 DEF ReadWelcome, Await
    <3>2. after.messages = messages
      <4>1. after.messages = [messages EXCEPT ![1].text = @ \cup {Text(e)}]
        BY <2>1
      <4>2. 1 \in DOMAIN messages /\ messages[1] \in Message
        BY <2>1
      <4>3. [messages[1] EXCEPT !.text = @ \cup {Text(e)}] = messages[1]
        <5>1. PICK m \in Message : m = messages[1]
          BY <4>2
        <5>2. m = [internal |-> m.internal, text |-> m.text]
          BY DEF Message
        <5>3. m.text \cup {Text(e)} = m.text
          BY <2>3, <5>1
        <5>. QED  BY <5>1, <5>2, <5>3
      <4>4. [messages EXCEPT ![1].text = @ \cup {Text(e)}] =
              [messages EXCEPT ![1] = [messages[1] EXCEPT !.text = @ \cup {Text(e)}]]
        BY <4>2
      <4>5. [messages EXCEPT ![1] = messages[1]] = messages
        BY <4>2
      <4>. QED  BY <4>1, <4>3, <4>4, <4>5
    <3>. QED  BY <2>1, <2>2, <3>1, <3>2 DEF Partway
  <2>4. CASE Text(e) \notin messages[1].text
    <3>1. pc'[e] = "write" /\ draft'[e] = messages[1].text
      BY <1>12, <2>4 DEF ReadWelcome, Await
    <3>. QED  BY <2>1, <2>2, <3>1 DEF Partway
  <2>. QED  BY <2>3, <2>4
<1>13. CASE WriteWelcome(e)
  <2>1. /\ pc[e] = "write" /\ Type(e) = "complete" /\ Text(e) # NoText /\ messages # <<>>
        /\ Conversation = before /\ draft[e] = messages[1].text
    BY <1>13 DEF WriteWelcome, At, Partway
  <2>2. pc'[e] = "status" /\ UNCHANGED <<status, described>>
    BY <1>13 DEF WriteWelcome, Await
  <2>3. messages' = [messages EXCEPT ![1].text = draft[e] \cup {Text(e)}]
    BY <1>13 DEF WriteWelcome
  <2>4. after.messages = [messages EXCEPT ![1].text = @ \cup {Text(e)}]
    BY <2>1
  <2>5. [messages EXCEPT ![1].text = draft[e] \cup {Text(e)}]
          = [messages EXCEPT ![1].text = @ \cup {Text(e)}]
    BY <2>1
  <2>. QED  BY <2>1, <2>2, <2>3, <2>4, <2>5 DEF Partway
<1>14. CASE SetStatus(e)
  <2>1. /\ pc[e] = "status" /\ Type(e) \in {"complete", "error"}
        /\ messages = after.messages /\ described = after.described
    BY <1>14 DEF SetStatus, At, Partway
  <2>2. pc'[e] = "emit" /\ UNCHANGED <<messages, described>> /\ status' = after.status
    BY <1>14, <2>1 DEF SetStatus, Await
  <2>3. Conversation' = after
    BY <2>1, <2>2 DEF Conversation
  <2>. QED  BY <2>2, <2>3 DEF Partway
<1>15. CASE InsertWiki(e)
  <2>1. pc[e] = "wiki" /\ Type(e) = "wiki_message" /\ Conversation = before
    BY <1>15 DEF InsertWiki, At, Partway
  <2>2. pc'[e] = "emit" /\ UNCHANGED <<status, described>>
        /\ messages' = Append(messages, [internal |-> TRUE, text |-> {Text(e)}])
    BY <1>15 DEF InsertWiki, Await
  <2>3. messages' = after.messages /\ status' = after.status /\ described' = after.described
    BY <2>1, <2>2
  <2>4. Conversation' = after
    BY <2>3 DEF Conversation
  <2>. QED  BY <2>2, <2>4 DEF Partway
<1>. QED
  BY <1>9, <1>10, <1>11, <1>12, <1>13, <1>14, <1>15 DEF HandlerStep

LEMMA SerialInitInv == Init => SerialInv
<1>. SUFFICES ASSUME Init PROVE SerialInv
  OBVIOUS
<1>1. script \in Scripts /\ Len(script) \in Nat
  BY RelayAssumption DEF Init
<1>2. Conversation = Replay[0]
  BY <1>1, ReplayUnfolds DEF Init, Conversation, Unindexed
<1>3. Cardinality(EventId) \in Nat
  BY RelayAssumption, FS_CardinalityType
<1>4. \A e \in EventId : ~(e <= 0) /\ evt[e] = "none"
  BY <1>3, RelayAssumption DEF Init, LogInit
<1>5. SoFar(0)
  BY <1>2, <1>4 DEF SoFar, Running
<1>. QED  BY <1>1, <1>3, <1>5 DEF SerialInv

\* While the handlers run unharmed, no step is a failure.
LEMMA Unharmed ==
  ASSUME IInv, Serial'
  PROVE  /\ \A e \in EventId : ~SwallowedFailure(e) /\ ~HandlerThrows(e)
         /\ \A r \in Replica : ~Crash(r)
<1>1. faults \in Nat
  BY RelayAssumption DEF IInv, TypeOK
<1>. QED  BY <1>1 DEF Serial, SwallowedFailure, HandlerThrows, Crash, Fault

LEMMA SerialNextInv == IInv /\ SerialInv /\ [Next]_vars => SerialInv'
<1>. SUFFICES ASSUME IInv, SerialInv, [Next]_vars, Serial' PROVE SerialInv'
  BY DEF SerialInv
<1>1. script' = script /\ Replay' = Replay
  BY ScriptKept, ReplayKept
<1>2. PICK N \in Nat : EventId = 1 .. N /\ Cardinality(EventId) = N
  BY RelayAssumption, FS_CardinalityType
<1>3. /\ script \in Scripts /\ Len(script) \in Nat /\ DOMAIN script = 1 .. Len(script)
      /\ evt \in [EventId -> EventState] /\ pc \in [EventId -> Await] /\ faults \in Nat
  BY RelayAssumption DEF IInv, TypeOK, LogTypeOK
<1>4. Serial
  <2>1. ahead = {}
    BY StepTurn DEF Serial
  <2>2. ASSUME NEW e \in EventId, HandlerStep(e) \/ Emit(e) PROVE faults' = faults
    BY <2>2 DEF HandlerStep, FindWelcome, InsertWelcome, WriteMetadata, ReadWelcome,
       WriteWelcome, SetStatus, InsertWiki, EmitToBrowser, Emit
  <2>3. ASSUME NEW r \in Replica, NEW e \in EventId, Begin(r, e) PROVE faults' = faults
    BY <2>3 DEF Begin
  <2>4. ASSUME UNCHANGED vars PROVE faults' = faults
    BY <2>4 DEF vars
  <2>. QED  BY <2>1, <2>2, <2>3, <2>4, Unharmed DEF Next, Serial
<1>5. PICK n \in 0 .. Len(script) : n <= N /\ SoFar(n)
  BY <1>2, <1>4 DEF SerialInv
<1>6. ASSUME SoFar(n)' PROVE SerialInv'
  BY <1>1, <1>2, <1>3, <1>5, <1>6 DEF SerialInv
<1>7. PICK before \in Conversations : before = Replay[n]
  BY <1>3, ReplayUnfolds
<1>8. ASSUME NEW e \in EventId, Emit(e) PROVE SerialInv'
  <2>1. /\ evt[e] = "none" /\ evt' = [evt EXCEPT ![e] = "unprocessed"]
        /\ UNCHANGED <<pc, draft, messages, status, described>>
    BY <1>8 DEF Emit, Insert, convVars
  <2>2. \A d \in EventId : (evt'[d] = "done" <=> evt[d] = "done") /\ Running(d)' = Running(d)
    BY <1>3, <2>1 DEF Running
  <2>3. \A d \in EventId : Partway(d, Replay[n])' = Partway(d, Replay[n])
    BY <1>1, <2>1 DEF Partway, Conversation, Type, Text, Handled, Welcome
  <2>4. Conversation' = Conversation
    BY <2>1 DEF Conversation
  <2>5. SoFar(n)'
    BY <1>1, <1>5, <2>2, <2>3, <2>4 DEF SoFar
  <2>. QED  BY <1>6, <2>5
<1>9. ASSUME NEW r \in Replica, NEW e \in EventId, Begin(r, e) PROVE SerialInv'
  <2>a. /\ \A d \in EventId : d < e => evt[d] = "done"
        /\ evt[e] = "unprocessed" /\ evt' = [evt EXCEPT ![e] = "running"]
        /\ pc' = [pc EXCEPT ![e] = FirstLabel(e)]
        /\ UNCHANGED <<draft, messages, status, described>>
    BY <1>9 DEF Begin, Claim, Goto, convVars, Serial
  <2>b. ASSUME NEW d \in EventId, Running(d) PROVE FALSE
    <3>1. d = n + 1 /\ evt[d] = "running" /\ ~(e <= n) /\ d # e
      BY <1>5, <2>a, <2>b DEF SoFar, Running
    <3>2. d < e
      BY <1>2, <3>1
    <3>. QED  BY <2>a, <3>1, <3>2
  <2>1. /\ \A d \in EventId : ~Running(d) /\ (d < e => evt[d] = "done")
        /\ evt[e] = "unprocessed" /\ evt' = [evt EXCEPT ![e] = "running"]
        /\ pc' = [pc EXCEPT ![e] = FirstLabel(e)]
        /\ UNCHANGED <<draft, messages, status, described>>
    BY <2>a, <2>b
  <2>2. e = n + 1
    <3>1. ~(e <= n)
      BY <1>5, <2>1 DEF SoFar
    <3>2. CASE e > n + 1
      <4>1. e - 1 \in EventId /\ e - 1 < e /\ ~(e - 1 <= n)
        BY <1>2, <3>2
      <4>. QED  BY <1>5, <2>1, <4>1 DEF SoFar
    <3>. QED  BY <1>2, <3>1, <3>2
  <2>3. e \in DOMAIN script /\ Type(e) \in EventType
    BY <2>1, ScriptType DEF IInv, OnlyScript
  <2>4. Conversation = before /\ Conversation' = Conversation
    BY <1>5, <1>7, <2>1 DEF SoFar, Conversation
  <2>5. Partway(e, before)'
    <3>1. Type(e)' = Type(e) /\ pc'[e] = FirstLabel(e)
      BY <1>1, <1>3, <2>1 DEF Type
    <3>2. CASE Type(e) = "page_progress"
      <4>1. pc'[e] = "emit"
        BY <3>1, <3>2 DEF FirstLabel
      <4>2. Handled(before, script[e]) = before
        BY <3>2 DEF Handled, Type, Conversations
      <4>. QED  BY <1>1, <2>4, <4>1, <4>2 DEF Partway, Handled, Welcome
    <3>3. CASE Type(e) \in {"welcome_message", "complete"}
      <4>1. pc'[e] = "find"
        BY <3>1, <3>3 DEF FirstLabel
      <4>. QED  BY <2>4, <3>1, <3>3, <4>1 DEF Partway
    <3>4. CASE Type(e) = "wiki_message"
      <4>1. pc'[e] = "wiki"
        BY <3>1, <3>4 DEF FirstLabel
      <4>. QED  BY <2>4, <3>1, <3>4, <4>1 DEF Partway
    <3>5. CASE Type(e) = "error"
      <4>1. pc'[e] = "status"
        BY <3>1, <3>5 DEF FirstLabel
      <4>2. /\ Handled(before, script[e]).messages = before.messages
            /\ Handled(before, script[e]).described = before.described
        BY <3>5 DEF Handled, Type, Conversations
      <4>3. messages = before.messages /\ status = before.status /\ described = before.described
        BY <2>4 DEF Conversation
      <4>. QED  BY <1>1, <2>1, <3>1, <3>5, <4>1, <4>2, <4>3 DEF Partway, Handled, Welcome
    <3>. QED  BY <2>3, <3>2, <3>3, <3>4, <3>5 DEF EventType
  <2>6. \A d \in EventId : /\ evt'[d] = "done" <=> evt[d] = "done"
                           /\ Running(d)' => d = e
    BY <1>3, <2>1 DEF Running
  <2>7. Running(e)'
    BY <1>3, <2>1 DEF Running
  <2>8. Partway(e, Replay[n])'
    BY <1>1, <1>7, <2>5
  <2>9. SoFar(n)'
    BY <1>5, <2>2, <2>6, <2>7, <2>8 DEF SoFar
  <2>. QED  BY <1>6, <2>9
<1>10. ASSUME NEW e \in EventId, HandlerStep(e), ~EmitToBrowser(e) PROVE SerialInv'
  <2>1. Running(e) /\ evt' = evt
    BY <1>10 DEF HandlerStep, FindWelcome, InsertWelcome, WriteMetadata, ReadWelcome,
       WriteWelcome, SetStatus, InsertWiki, At, logVars
  <2>2. e = n + 1 /\ Partway(e, before)
    BY <1>5, <1>7, <2>1 DEF SoFar
  <2>3. Partway(e, before)'
    BY <1>10, <2>1, <2>2, AwaitPartway
  <2>4. Partway(e, Replay[n])'
    BY <1>1, <1>7, <2>3
  <2>5. \A d \in EventId : Running(d)' = Running(d)
    BY <2>1 DEF Running
  <2>6. \A d \in EventId : Running(d) => d = e
    BY <1>5, <2>2 DEF SoFar
  <2>7. SoFar(n)'
    BY <1>5, <2>1, <2>2, <2>4, <2>5, <2>6 DEF SoFar
  <2>. QED  BY <1>6, <2>7
<1>11. ASSUME NEW e \in EventId, EmitToBrowser(e) PROVE SerialInv'
  <2>1. /\ Running(e) /\ pc[e] = "emit" /\ evt' = [evt EXCEPT ![e] = "done"]
        /\ UNCHANGED <<messages, status, described>>
    BY <1>11 DEF EmitToBrowser, At, convVars
  <2>2. e = n + 1 /\ Partway(e, before)
    BY <1>5, <1>7, <2>1 DEF SoFar
  <2>3. e \in DOMAIN script
    BY <2>1 DEF IInv, OnlyScript, Running
  <2>4. n + 1 \in 0 .. Len(script) /\ n + 1 <= N /\ e \in DOMAIN script /\ e - 1 = n
    BY <1>2, <1>3, <2>2, <2>3
  <2>5. Conversation' = Replay[n + 1]
    <3>1. Conversation = Handled(before, script[e])
      BY <2>1, <2>2 DEF Partway
    <3>2. Conversation' = Conversation
      BY <2>1 DEF Conversation
    <3>3. Replay[e] = Handled(Replay[e - 1], script[e])
      BY <1>3, <2>3, ReplayUnfolds
    <3>. QED  BY <1>7, <2>2, <2>4, <3>1, <3>2, <3>3
  <2>6. \A d \in EventId : ~Running(d)'
    <3>1. \A d \in EventId : Running(d) => d = e
      BY <1>5, <2>2 DEF SoFar
    <3>. QED  BY <1>3, <2>1, <3>1 DEF Running
  <2>7. \A d \in EventId : evt'[d] = "done" <=> d <= n + 1
    <3>1. \A d \in EventId : evt[d] = "done" <=> d <= n
      BY <1>5 DEF SoFar
    <3>2. \A d \in EventId : d <= n + 1 <=> (d <= n \/ d = e)
      BY <1>2, <2>2
    <3>. QED  BY <1>3, <2>1, <3>1, <3>2
  <2>8. SoFar(n + 1)'
    BY <1>1, <2>5, <2>6, <2>7 DEF SoFar
  <2>. QED  BY <1>1, <1>2, <1>3, <2>4, <2>8 DEF SerialInv
<1>12. CASE UNCHANGED vars
  <2>1. SoFar(n)'
    BY <1>1, <1>5, <1>12 DEF vars, SoFar, Partway, Conversation, Type, Text, Handled,
       Welcome, Running
  <2>. QED  BY <1>6, <2>1
<1>. QED
  BY <1>8, <1>9, <1>10, <1>11, <1>12, Unharmed DEF Next

\* Handled one at a time, in the order of their ids and unharmed, the rows leave
\* the conversation the sequential program makes of them, for any rows.
THEOREM SerialHandlersReplay == Spec => []SerialIsReplay
<1>1. Init => IInv /\ SerialInv
  BY SerialInitInv, InitIInv
<1>2. SerialInv /\ IInv /\ [Next]_vars => SerialInv'
  BY SerialNextInv
<1>3. IInv /\ SerialInv => SerialIsReplay
  <2>. SUFFICES ASSUME IInv, SerialInv, Serial, \A e \in EventId : ~Running(e)
                PROVE  Conversation = Replay[Cardinality({e \in EventId : evt[e] = "done"})]
    BY DEF SerialIsReplay
  <2>1. PICK N \in Nat : EventId = 1 .. N /\ Cardinality(EventId) = N
    BY RelayAssumption, FS_CardinalityType
  <2>2. PICK n \in 0 .. Len(script) : n <= N /\ SoFar(n)
    BY <2>1 DEF SerialInv
  <2>3. n \in Nat
    BY RelayAssumption DEF IInv, TypeOK
  <2>4. {e \in EventId : evt[e] = "done"} = 1 .. n
    BY <2>1, <2>2, <2>3 DEF SoFar
  <2>5. Cardinality(1 .. n) = n
    <3>1. 1 \in Int /\ n \in Int
      BY <2>3
    <3>2. Cardinality(1 .. n) = IF 1 > n THEN 0 ELSE n - 1 + 1
      BY <3>1, FS_Interval
    <3>. QED  BY <2>3, <3>2
  <2>. QED  BY <2>2, <2>4, <2>5 DEF SoFar
<1>. QED  BY <1>1, <1>2, <1>3, Invariance, PTL DEF Spec
===============================================================================
