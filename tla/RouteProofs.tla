------------------------------ MODULE RouteProofs ------------------------------
(***************************************************************************)
(* For any number of requests, browsers, jobs and faults: the promises of  *)
(* the backend's routes.  Access, Ask, ConversationStream, Uploads and     *)
(* ImageStream have no variable in common; each has its inductive          *)
(* invariant here.                                                         *)
(***************************************************************************)
EXTENDS Access, Ask, ConversationStream, Uploads, ImageStream,
        NumberFacts, SequenceTheorems, TLAPS

-------------------------------------------------------------------------------
(* Access: a password is handed out after its row, and no row is deleted. *)

AccessInv ==
  /\ AccessTypeOK
  /\ PasswordOpens
  /\ \A c \in Approval : approving[c].at = "mark" => "editor" \in accessTokens

LEMMA AccessInitInv == AccessInit => AccessInv
  BY AccessAssumption DEF AccessInit, AccessInv, AccessTypeOK, PasswordOpens, NoRequest

LEMMA AccessNextInv == AccessInv /\ [AccessNext]_accessVars => AccessInv'
<1> SUFFICES ASSUME AccessInv, [AccessNext]_accessVars PROVE AccessInv'
  OBVIOUS
<1>. USE AccessAssumption DEF AccessInv, AccessTypeOK, PasswordOpens
<1>1. CASE CreateConversation
  <2>1. CASE ownerCall = "start" /\ ownerCall' = "inserted" /\ UNCHANGED <<accessTokens, accessFaults>>
    BY <1>1, <2>1 DEF CreateConversation
  <2>2. CASE ownerCall' = "told" /\ accessTokens' = accessTokens \cup {"owner"} /\ UNCHANGED accessFaults
    BY <1>1, <2>2 DEF CreateConversation
  <2>3. CASE ownerCall' = "failed" /\ AccessFault /\ UNCHANGED accessTokens
    BY <1>1, <2>3 DEF CreateConversation, AccessFault
  <2>. QED  BY <1>1, <2>1, <2>2, <2>3 DEF CreateConversation
<1>2. ASSUME NEW r \in AccessRequest, FileRequest(r) PROVE AccessInv'
  BY <1>2 DEF FileRequest, callVars
<1>3. ASSUME NEW r \in AccessRequest, PollRequest(r) PROVE AccessInv'
  BY <1>3 DEF PollRequest, callVars, tableVars
<1>4. ASSUME NEW c \in Approval, NEW r \in AccessRequest, BeginApproval(c, r)
      PROVE  AccessInv'
  BY <1>4 DEF BeginApproval, tableVars, NoRequest
<1>5. ASSUME NEW c \in Approval, InsertToken(c) PROVE AccessInv'
  BY <1>5 DEF InsertToken, GoesOn, NoRequest
<1>6. ASSUME NEW c \in Approval, MarkApproved(c) PROVE AccessInv'
  BY <1>6 DEF MarkApproved, GoesOn, NoRequest
<1>7. ASSUME NEW c \in Approval, ApprovalFails(c) PROVE AccessInv'
  BY <1>7 DEF ApprovalFails, GoesOn, NoRequest, AccessFault, tableVars
<1>8. CASE BackendRestarts
  BY <1>8 DEF BackendRestarts, AccessFault, NoRequest, tableVars
<1>9. CASE UNCHANGED accessVars
  BY <1>9 DEF accessVars, callVars, tableVars
<1>. QED  BY <1>1, <1>2, <1>3, <1>4, <1>5, <1>6, <1>7, <1>8, <1>9 DEF AccessNext

\* Whichever statement of whichever approval fails, and whenever the backend
\* restarts: a password somebody was sent is in the table.
THEOREM PasswordsOpen == AccessSpec => []PasswordOpens
<1>1. AccessInv => PasswordOpens
  BY DEF AccessInv
<1>. QED  BY <1>1, AccessInitInv, AccessNextInv, PTL DEF AccessSpec

-------------------------------------------------------------------------------
(* Ask: a request that goes on to the answer is excused or has a chunk, and *)
(* one that is re-indexing is excused or has the chunks it added.           *)

AskInv ==
  /\ request \in [Asker -> RequestState] /\ reindexed \in [Asker -> SUBSET Chunk]
  /\ \A a \in Asker :
       /\ request[a] = "answering" => a \in excused \/ collection # {}
       /\ request[a] = "reindexing" => a \in excused \/ reindexed[a] \subseteq collection
       /\ request[a] \in {"new", "admitted", "counting"} => reindexed[a] = {}
  /\ NoBlindAnswer

LEMMA AskInitInv == AskInit => AskInv
  BY DEF AskInit, AskInv, NoBlindAnswer, RequestState

LEMMA AskNextInv == AskInv /\ [AskNext]_askVars => AskInv'
<1> SUFFICES ASSUME AskInv, [AskNext]_askVars PROVE AskInv'
  OBVIOUS
<1>. USE AskAssumption DEF AskInv, NoBlindAnswer, RequestState, snapshot, histories, corpus
<1>0. ASSUME NEW who \in SUBSET Asker, Empty(who), UNCHANGED <<request, reindexed, blind>>
      PROVE  AskInv'
  <2>1. ASSUME NEW a \in Asker, request[a] = "answering" PROVE a \in excused'
    BY <1>0, <2>1 DEF Empty
  <2>2. ASSUME NEW a \in Asker, request[a] = "reindexing"
        PROVE  a \in excused' \/ reindexed[a] = {}
    BY <1>0, <2>2 DEF Empty
  <2>3. excused \subseteq excused'
    BY <1>0 DEF Empty
  <2>. QED  BY <1>0, <2>1, <2>2, <2>3
<1>1. CASE IndexingGoesOn
  <2>1. UNCHANGED <<request, reindexed, blind>>
    BY <1>1 DEF IndexingGoesOn
  <2>2. CASE Empty({})
    BY <1>0, <2>1, <2>2
  <2>3. CASE collection \subseteq collection' /\ excused' = excused
    BY <2>1, <2>3
  <2>. QED  BY <1>1, <2>2, <2>3 DEF IndexingGoesOn
<1>2. CASE ChromaLost \/ FilesAdded
  BY <1>0, <1>2 DEF ChromaLost, FilesAdded
<1>3. CASE DelegatedEnds
  <2>1. UNCHANGED <<request, reindexed, blind>>
    BY <1>3 DEF DelegatedEnds
  <2>2. CASE Empty({})
    BY <1>0, <2>1, <2>2
  <2>3. CASE (collection' = Chunk \/ collection' = collection) /\ excused' = excused
    BY <2>1, <2>3
  <2>. QED  BY <1>3, <2>2, <2>3 DEF DelegatedEnds
<1>4. ASSUME NEW a \in Asker, Admit(a) PROVE AskInv'
  BY <1>4 DEF Admit, At
<1>5. ASSUME NEW a \in Asker, StoreQuestion(a) PROVE AskInv'
  BY <1>5 DEF StoreQuestion, At, Excuse
<1>6. ASSUME NEW a \in Asker, CountChunks(a) PROVE AskInv'
  BY <1>6 DEF CountChunks, At, Excuse, AskFault
<1>7. ASSUME NEW a \in Asker, ReindexChunk(a) PROVE AskInv'
  <2>1. PICK c \in Chunk : reindexed' = [reindexed EXCEPT ![a] = @ \cup {c}]
                         /\ collection' = collection \cup {c}
    BY <1>7 DEF ReindexChunk
  <2>2. request[a] = "reindexing" /\ UNCHANGED <<request, excused, blind>>
    BY <1>7 DEF ReindexChunk
  <2>3. ASSUME NEW b \in Asker, request[b] = "reindexing"
        PROVE  b \in excused \/ reindexed'[b] \subseteq collection'
    BY <2>1, <2>3
  <2>. QED  BY <2>1, <2>2, <2>3
<1>8. ASSUME NEW a \in Asker, ReindexEnds(a) PROVE AskInv'
  <2>1. /\ request[a] = "reindexing" /\ UNCHANGED blind
        /\ reindexed' = [reindexed EXCEPT ![a] = {}]
        /\ \E to \in {"answering", "failed"} : request' = [request EXCEPT ![a] = to]
    BY <1>8 DEF ReindexEnds, At
  <2>2. CASE Empty({a})
    <3>1. a \in excused' /\ excused \subseteq excused'
      BY <2>2 DEF Empty
    <3>2. ASSUME NEW b \in Asker, request[b] = "answering" PROVE b \in excused'
      BY <2>2, <3>2 DEF Empty
    <3>3. ASSUME NEW b \in Asker, request[b] = "reindexing"
          PROVE  b \in excused' \/ reindexed[b] = {}
      BY <2>2, <3>3 DEF Empty
    <3>. QED  BY <2>1, <3>1, <3>2, <3>3
  <2>3. CASE /\ UNCHANGED collection
             /\ \/ reindexed[a] = Chunk /\ UNCHANGED excused
                \/ Excuse(a)
                \/ UNCHANGED excused /\ request' = [request EXCEPT ![a] = "failed"]
    BY <2>1, <2>3 DEF Excuse
  <2>. QED  BY <1>8, <2>2, <2>3 DEF ReindexEnds, At
<1>9. ASSUME NEW a \in Asker, Answer(a) PROVE AskInv'
  BY <1>9 DEF Answer, At, AskFault
<1>10. ASSUME NEW a \in Asker, StoreAnswer(a) \/ StoreImageRequest(a) PROVE AskInv'
  BY <1>10 DEF StoreAnswer, StoreImageRequest, At
<1>11. CASE UNCHANGED askVars
  BY <1>11 DEF askVars
<1>. QED
  BY <1>1, <1>2, <1>3, <1>4, <1>5, <1>6, <1>7, <1>8, <1>9, <1>10, <1>11 DEF AskNext

\* ensureCollectionIndexed, for any number of concurrent questions: a ready
\* conversation is never answered without a chunk but for the named causes.
THEOREM AnswersSee == AskSpec => []NoBlindAnswer
<1>1. AskInv => NoBlindAnswer
  BY DEF AskInv
<1>. QED  BY <1>1, AskInitInv, AskNextInv, PTL DEF AskSpec

-------------------------------------------------------------------------------
(* Ask, the numbers of citations: every request numbers on from a prefix of *)
(* the messages, and that prefix fixes what it knows.                       *)

\* Citations: some of the chunks, with a number each.
Numberings == UNION {[S -> Nat] : S \in SUBSET Chunk}

\* New chunks have positions of their own, from one on.
LEMMA NewPositions ==
  ASSUME NEW cited, NEW n \in Nat, DOMAIN cited = 1 .. n, NEW known,
         \A i, j \in DOMAIN cited : i # j => cited[i] # cited[j]
  PROVE  /\ \A c \in Range(cited) : NewPosition(c, cited, known) \in Nat
         /\ \A c \in Range(cited) \ DOMAIN known : NewPosition(c, cited, known) > 0
         /\ \A c, d \in Range(cited) \ DOMAIN known :
              c # d => NewPosition(c, cited, known) # NewPosition(d, cited, known)
<1>. DEFINE at(c) == CHOOSE k \in DOMAIN cited : cited[k] = c
            new(m) == {k \in 1 .. m : cited[k] \notin DOMAIN known}
<1>1. \A c \in Range(cited) : at(c) \in 1 .. n /\ cited[at(c)] = c
  BY DEF Range
<1>2. \A c : NewPosition(c, cited, known) = Cardinality(new(at(c)))
  BY DEF NewPosition
<1>3. ASSUME NEW m \in 1 .. n PROVE IsFiniteSet(new(m)) /\ Cardinality(new(m)) \in Nat
  <2>0. 1 \in Int /\ m \in Int
    OBVIOUS
  <2>1. IsFiniteSet(1 .. m)
    BY <2>0, FS_Interval
  <2>2. new(m) \subseteq 1 .. m
    OBVIOUS
  <2>3. IsFiniteSet(new(m))
    BY <2>1, <2>2, FS_Subset
  <2>. QED  BY <2>3, FS_CardinalityType
<1>. HIDE DEF at
<1>4. ASSUME NEW c \in Range(cited) \ DOMAIN known PROVE Cardinality(new(at(c))) > 0
  <2>1. at(c) \in new(at(c)) /\ at(c) \in 1 .. n
    BY <1>1
  <2>. HIDE DEF new
  <2>2. Cardinality(new(at(c))) # 0
    BY <2>1, <1>3, FS_EmptySet
  <2>. QED  BY <2>1, <2>2, <1>3
<1>5. ASSUME NEW c \in Range(cited) \ DOMAIN known, NEW d \in Range(cited) \ DOMAIN known,
             at(c) < at(d)
      PROVE  Cardinality(new(at(c))) # Cardinality(new(at(d)))
  <2>1. at(c) \in 1 .. n /\ at(d) \in 1 .. n
    BY <1>1
  <2>2. new(at(c)) \subseteq new(at(d))
    BY <2>1, <1>5
  <2>3. at(d) \in new(at(d)) /\ at(d) \notin new(at(c))
    BY <2>1, <1>1, <1>5
  <2>4. IsFiniteSet(new(at(d)))
    BY <1>3, <2>1
  <2>. HIDE DEF new
  <2>. QED  BY <2>2, <2>3, <2>4, FS_Subset
<1>6. ASSUME NEW c \in Range(cited) \ DOMAIN known, NEW d \in Range(cited) \ DOMAIN known,
             c # d
      PROVE  at(c) < at(d) \/ at(d) < at(c)
  BY <1>1, <1>6
<1>. HIDE DEF new
<1>7. \A c \in Range(cited) : Cardinality(new(at(c))) \in Nat
  BY <1>1, <1>3
<1>. QED  BY <1>2, <1>4, <1>5, <1>6, <1>7

\* Known chunks keep their number, new ones have numbers of their own.
Extends(f, known) ==
  /\ \A c \in DOMAIN f \cap DOMAIN known : f[c] = known[c]
  /\ \A c \in DOMAIN f \ DOMAIN known :
       /\ \A d \in DOMAIN known : f[c] # known[d]
       /\ \A d \in DOMAIN f \ DOMAIN known : c # d => f[c] # f[d]

\* _renumber_citations_globally keeps every number and gives no number twice.
LEMMA RenumberExtends ==
  ASSUME NEW S \in SUBSET Chunk, NEW cited \in Citable(S), NEW known \in Numberings
  PROVE  Renumber(cited, known) \in Numberings /\ Extends(Renumber(cited, known), known)
<1>. DEFINE top == Max({0} \cup Range(known))
            f == Renumber(cited, known)
<1>1. PICK n \in Nat : cited \in [1 .. n -> S]
  <2>1. Cardinality(S) \in Nat
    BY AskAssumption, FS_Subset, FS_CardinalityType
  <2>. QED  BY <2>1 DEF Citable
<1>2. \A i, j \in DOMAIN cited : i # j => cited[i] # cited[j]
  BY DEF Citable
<1>3. DOMAIN cited = 1 .. n
  BY <1>1
<1>4. /\ \A c \in Range(cited) : NewPosition(c, cited, known) \in Nat
      /\ \A c \in Range(cited) \ DOMAIN known : NewPosition(c, cited, known) > 0
      /\ \A c, d \in Range(cited) \ DOMAIN known :
           c # d => NewPosition(c, cited, known) # NewPosition(d, cited, known)
  BY <1>2, <1>3, NewPositions, Zenon
<1>5. top \in Nat /\ \A d \in DOMAIN known : known[d] <= top
  <2>1. IsFiniteSet(DOMAIN known)
    BY AskAssumption, FS_Subset DEF Numberings
  <2>2. IsFiniteSet(Range(known))
    <3>1. known \in Surjection(DOMAIN known, Range(known))
      BY DEF Surjection, Range, Numberings
    <3>. QED  BY <2>1, <3>1, FS_Surjection
  <2>3. IsFiniteSet({0} \cup Range(known))
    BY <2>2, FS_Union, FS_Singleton
  <2>4. {0} \cup Range(known) \in SUBSET Nat
    BY DEF Numberings, Range
  <2>5. top \in {0} \cup Range(known) /\ \A k \in {0} \cup Range(known) : k <= top
    BY <2>3, <2>4, MaxOfFinite
  <2>. QED  BY <2>4, <2>5 DEF Range
<1>6. f = [c \in Range(cited) |->
             IF c \in DOMAIN known THEN known[c] ELSE top + NewPosition(c, cited, known)]
  BY DEF Renumber
<1>7. Range(cited) \subseteq Chunk
  BY <1>1 DEF Range
<1>. HIDE DEF top, f
<1>8. \A c \in DOMAIN f : c \notin DOMAIN known => f[c] > top /\ f[c] \in Nat
  BY <1>4, <1>5, <1>6
<1>9. \A c \in DOMAIN f : c \in DOMAIN known => f[c] = known[c] /\ f[c] \in Nat
  BY <1>6 DEF Numberings
<1>10. f \in Numberings
  <2>1. DOMAIN f = Range(cited) /\ f = [c \in Range(cited) |-> f[c]]
    BY <1>6
  <2>2. f \in [Range(cited) -> Nat]
    BY <2>1, <1>8, <1>9
  <2>. QED  BY <2>2, <1>7 DEF Numberings
<1>11. ASSUME NEW c \in DOMAIN f \ DOMAIN known
       PROVE  /\ \A d \in DOMAIN known : f[c] # known[d]
              /\ \A d \in DOMAIN f \ DOMAIN known : c # d => f[c] # f[d]
  <2>1. \A d \in DOMAIN known : f[c] # known[d]
    BY <1>5, <1>8 DEF Numberings
  <2>2. ASSUME NEW d \in DOMAIN f \ DOMAIN known, c # d PROVE f[c] # f[d]
    BY <2>2, <1>4, <1>5, <1>6
  <2>. QED  BY <2>1, <2>2
<1>12. Extends(f, known)
  BY <1>9, <1>11 DEF Extends
<1>. QED  BY <1>10, <1>12 DEF f

Cites(k) == messages[k].cites
AskerOf(k) == messages[k].asker

\* In the first n messages a chunk has one number and a number one chunk.
Agree(n) ==
  \A i, j \in Answers(n) : \A c \in DOMAIN Cites(i), d \in DOMAIN Cites(j) :
    (c = d) <=> (Cites(i)[c] = Cites(j)[d])

\* No answer was given between a request's reading and its own answer.
InTurn(n) == \A k \in Answers(n) : DOMAIN Cites(k) # {} => answersSeen[AskerOf(k)] = Answers(k - 1)

Message == [asker : Asker, role : {"user", "assistant"}, cites : Numberings]

\* What a request knows of the messages is what the first m of them say.
HasRead(a, m) == answersSeen[a] = Answers(m) /\ numbers[a] = PreviousCitations(m)

AskTyped ==
  /\ collection \subseteq Chunk
  /\ request \in [Asker -> RequestState]
  /\ messages \in Seq(Message)
  /\ numbers \in [Asker -> Numberings]
  /\ rows \in [Asker -> Numberings]
  /\ answersSeen \in [Asker -> SUBSET Nat]

\* Questions cite nothing, and who has answered is done.
OnlyAnswersCite ==
  \A k \in DOMAIN messages :
    /\ messages[k].role = "assistant" => request[AskerOf(k)] = "done"
    /\ messages[k].role # "assistant" => DOMAIN Cites(k) = {}

\* Citations go on from the numbers the request read; there are none before
\* its answer.
RowsExtend ==
  \A a \in Asker :
    /\ Extends(rows[a], numbers[a])
    /\ request[a] \notin {"answered", "done"} => DOMAIN rows[a] = {}

NumbersInv ==
  /\ AskTyped
  /\ OnlyAnswersCite
  /\ RowsExtend
  /\ \A a \in Asker : \E m \in 0 .. Len(messages) : HasRead(a, m)
  /\ InTurn(Len(messages)) => Agree(Len(messages))

LEMMA NumbersInitInv == AskInit => NumbersInv
<1> SUFFICES ASSUME AskInit PROVE NumbersInv
  OBVIOUS
<1>1. messages = <<>> /\ Len(messages) = 0 /\ DOMAIN messages = {}
  BY DEF AskInit
<1>2. <<>> \in Numberings /\ DOMAIN <<>> = {}
  <2>1. <<>> \in [{} -> Nat] /\ {} \in SUBSET Chunk
    OBVIOUS
  <2>. QED  BY <2>1 DEF Numberings
<1>3. AskTyped
  BY <1>2 DEF AskInit, AskTyped, RequestState
<1>4. OnlyAnswersCite /\ RowsExtend
  BY <1>1, <1>2 DEF AskInit, OnlyAnswersCite, RowsExtend, Extends
<1>5. Answers(0) = {} /\ PreviousCitations(0) = <<>>
  <2>1. 1 .. 0 = {}
    OBVIOUS
  <2>2. UNION {DOMAIN messages[k].cites : k \in 1 .. 0} = {}
    BY <2>1
  <2>3. PreviousCitations(0) = [c \in {} |-> messages[Min(Citing(c, 0))].cites[c]]
    BY <2>2 DEF PreviousCitations
  <2>4. PreviousCitations(0) = <<>>
    BY <2>3
  <2>. QED  BY <2>1, <2>4 DEF Answers
<1>6. \A a \in Asker : HasRead(a, 0)
  BY <1>5 DEF AskInit, HasRead
<1>7. Agree(0)
  BY <1>5 DEF Agree
<1>. QED  BY <1>1, <1>3, <1>4, <1>6, <1>7 DEF NumbersInv

\* What a sequence of messages is.
LEMMA MessageFacts ==
  ASSUME AskTyped
  PROVE  /\ Len(messages) \in Nat /\ DOMAIN messages = 1 .. Len(messages)
         /\ \A k \in 1 .. Len(messages) : Cites(k) \in Numberings /\ AskerOf(k) \in Asker
<1>1. messages \in Seq(Message)
  BY DEF AskTyped
<1>2. \A k \in 1 .. Len(messages) : messages[k] \in Message
  BY <1>1
<1>. QED  BY <1>1, <1>2 DEF Message, Cites, AskerOf

\* The first message that cites a chunk gives it the number.
LEMMA KnownCitations ==
  ASSUME AskTyped, OnlyAnswersCite, NEW m \in 0 .. Len(messages)
  PROVE  /\ PreviousCitations(m) \in Numberings
         /\ \A k \in Answers(m) : DOMAIN Cites(k) \subseteq DOMAIN PreviousCitations(m)
         /\ \A c \in DOMAIN PreviousCitations(m) :
              \E k \in Answers(m) : c \in DOMAIN Cites(k) /\ PreviousCitations(m)[c] = Cites(k)[c]
<1>. DEFINE known == PreviousCitations(m)
            D == UNION {DOMAIN messages[k].cites : k \in 1 .. m}
<1>1. \A k \in 1 .. m : k \in 1 .. Len(messages) /\ k \in DOMAIN messages
  BY MessageFacts
<1>2. \A k \in 1 .. m : DOMAIN Cites(k) # {} => k \in Answers(m)
  BY <1>1 DEF OnlyAnswersCite, Answers
<1>3. known = [c \in D |-> messages[Min(Citing(c, m))].cites[c]]
  BY DEF PreviousCitations
<1>4. ASSUME NEW c \in D
      PROVE  \E k \in Answers(m) : c \in DOMAIN Cites(k) /\ known[c] = Cites(k)[c]
  <2>1. Citing(c, m) \in SUBSET Nat /\ Citing(c, m) # {}
    BY DEF Citing
  <2>2. Min(Citing(c, m)) \in Citing(c, m)
    BY <2>1, MinOfNumbers
  <2>. DEFINE k == Min(Citing(c, m))
  <2>3. k \in 1 .. m /\ c \in DOMAIN Cites(k)
    BY <2>2 DEF Citing, Cites
  <2>4. known[c] = Cites(k)[c]
    BY <1>3 DEF Cites
  <2>5. k \in Answers(m)
    BY <1>2, <2>3
  <2>. QED  BY <2>3, <2>4, <2>5
<1>5. DOMAIN known = D
  BY <1>3
<1>6. \A k \in Answers(m) : DOMAIN Cites(k) \subseteq D
  BY DEF Answers, Cites
<1>7. D \in SUBSET Chunk
  BY <1>1, MessageFacts DEF Numberings, Cites
<1>8. known \in [D -> Nat]
  <2>1. \A c \in D : known[c] \in Nat
    <3>. SUFFICES ASSUME NEW c \in D PROVE known[c] \in Nat
      OBVIOUS
    <3>1. PICK k \in Answers(m) : c \in DOMAIN Cites(k) /\ known[c] = Cites(k)[c]
      BY <1>4
    <3>2. Cites(k) \in Numberings
      BY <1>1, MessageFacts DEF Answers
    <3>. QED  BY <3>1, <3>2 DEF Numberings
  <2>. QED  BY <1>3, <2>1
<1>. HIDE DEF known, D
<1>9. known \in Numberings
  BY <1>7, <1>8 DEF Numberings
<1>. QED  BY <1>4, <1>5, <1>6, <1>9 DEF known

\* Questions add nothing: who has seen the answers knows their numbers.
LEMMA AnswersGiveNumbers ==
  ASSUME AskTyped, OnlyAnswersCite, NEW m \in 0 .. Len(messages), NEW n \in 0 .. Len(messages),
         Answers(m) = Answers(n)
  PROVE  PreviousCitations(m) = PreviousCitations(n)
<1>. DEFINE D(x) == UNION {DOMAIN messages[k].cites : k \in 1 .. x}
<1>0. \A x \in {m, n} : \A k \in 1 .. x : k \in DOMAIN messages
  BY MessageFacts
<1>1. \A x \in {m, n} : \A k \in 1 .. x : DOMAIN messages[k].cites # {} => k \in Answers(x)
  BY <1>0 DEF OnlyAnswersCite, Answers, Cites
<1>2. \A c : Citing(c, m) = Citing(c, n)
  BY <1>1 DEF Citing, Answers
<1>3. D(m) = D(n)
  <2>1. \A c : c \in D(m) <=> Citing(c, m) # {}
    BY DEF Citing
  <2>2. \A c : c \in D(n) <=> Citing(c, n) # {}
    BY DEF Citing
  <2>. QED  BY <1>2, <2>1, <2>2
<1>. QED  BY <1>2, <1>3 DEF PreviousCitations

\* What is appended changes nothing of what came before.
LEMMA Appended ==
  ASSUME AskTyped, NEW e \in Message, messages' = Append(messages, e)
  PROVE  /\ messages' \in Seq(Message) /\ Len(messages') = Len(messages) + 1
         /\ \A k \in 1 .. Len(messages) : messages'[k] = messages[k]
         /\ messages'[Len(messages) + 1] = e
         /\ \A m \in 0 .. Len(messages) :
              Answers(m)' = Answers(m) /\ PreviousCitations(m)' = PreviousCitations(m)
<1>0. messages \in Seq(Message)
  BY DEF AskTyped
<1>1. /\ messages' \in Seq(Message) /\ Len(messages') = Len(messages) + 1
      /\ \A k \in 1 .. Len(messages) : messages'[k] = messages[k]
      /\ messages'[Len(messages) + 1] = e
  BY <1>0
<1>2. ASSUME NEW m \in 0 .. Len(messages)
      PROVE  Answers(m)' = Answers(m) /\ PreviousCitations(m)' = PreviousCitations(m)
  <2>1. \A k \in 1 .. m : messages'[k] = messages[k]
    BY <1>0, <1>1
  <2>2. Answers(m)' = Answers(m)
    BY <2>1 DEF Answers
  <2>3. \A c : Citing(c, m)' = Citing(c, m)
    BY <2>1 DEF Citing
  <2>. DEFINE D == UNION {DOMAIN messages[k].cites : k \in 1 .. m}
  <2>4. D' = D
    BY <2>1
  <2>5. ASSUME NEW c \in D
        PROVE  messages'[Min(Citing(c, m))].cites[c] = messages[Min(Citing(c, m))].cites[c]
    <3>1. Citing(c, m) \in SUBSET Nat /\ Citing(c, m) # {}
      BY DEF Citing
    <3>2. Min(Citing(c, m)) \in 1 .. m
      BY <3>1, MinOfNumbers DEF Citing
    <3>. QED  BY <2>1, <3>2
  <2>. DEFINE old(c) == messages[Min(Citing(c, m))].cites[c]
  <2>6. PreviousCitations(m)' = [c \in D' |-> old(c)']
    BY DEF PreviousCitations
  <2>7. PreviousCitations(m) = [c \in D |-> old(c)]
    BY DEF PreviousCitations
  <2>9. \A c \in D : old(c)' = old(c)
    BY <2>3, <2>5
  <2>. HIDE DEF D, old
  <2>8. PreviousCitations(m)' = PreviousCitations(m)
    BY <2>4, <2>6, <2>7, <2>9
  <2>. QED  BY <2>2, <2>8
<1>. QED  BY <1>1, <1>2

\* A step of the conversation, or of a request, that says and reads nothing.
LEMMA SaysNothing ==
  ASSUME NumbersInv, UNCHANGED <<messages, snapshot, rows>>, collection' \subseteq Chunk,
         request' \in [Asker -> RequestState],
         \A a \in Asker : /\ request[a] = "done" => request'[a] = "done"
                          /\ request[a] = "answered" => request'[a] \in {"answered", "done"}
  PROVE  NumbersInv'
<1>1. AskTyped'
  BY DEF NumbersInv, AskTyped, snapshot
<1>2. OnlyAnswersCite'
  <2>. SUFFICES ASSUME NEW k \in DOMAIN messages
                PROVE  (/\ messages[k].role = "assistant" => request[AskerOf(k)] = "done"
                        /\ messages[k].role # "assistant" => DOMAIN Cites(k) = {})'
    BY DEF OnlyAnswersCite
  <2>1. AskerOf(k) \in Asker
    BY MessageFacts DEF NumbersInv
  <2>. QED  BY <2>1 DEF NumbersInv, OnlyAnswersCite, AskerOf, Cites
<1>3. RowsExtend'
  BY DEF NumbersInv, RowsExtend, Extends, snapshot
<1>4. \A n : Answers(n)' = Answers(n) /\ PreviousCitations(n)' = PreviousCitations(n)
  BY DEF Answers, PreviousCitations, Citing
<1>5. (\A a \in Asker : \E m \in 0 .. Len(messages) : HasRead(a, m))'
  BY <1>4 DEF NumbersInv, HasRead, snapshot
<1>6. (InTurn(Len(messages)) => Agree(Len(messages)))'
  BY <1>4 DEF NumbersInv, InTurn, Agree, snapshot, Cites, AskerOf
<1>. QED  BY <1>1, <1>2, <1>3, <1>5, <1>6 DEF NumbersInv

\* A message is added: a question, or the answer of a request.
LEMMA SaysOne ==
  ASSUME NumbersInv, NEW a \in Asker, NEW e \in Message, messages' = Append(messages, e),
         e.asker = a, UNCHANGED <<collection, snapshot, rows>>,
         \/ e.role = "user" /\ DOMAIN e.cites = {}
         \/ e.role = "assistant" /\ e.cites = rows[a],
         request[a] # "done",
         request' \in [Asker -> RequestState],
         e.role = "assistant" => request'[a] = "done",
         request'[a] \notin {"answered", "done"} => request[a] \notin {"answered", "done"},
         \A b \in Asker \ {a} : request'[b] = request[b]
  PROVE  NumbersInv'
<1>0. AskTyped /\ OnlyAnswersCite /\ RowsExtend
  BY DEF NumbersInv
<1>. PICK n \in Nat : n = Len(messages)
  BY <1>0, MessageFacts
<1>1. n + 1 \in Nat /\ n \in 0 .. n
  OBVIOUS
<1>2. /\ messages' \in Seq(Message) /\ Len(messages') = n + 1
      /\ \A k \in 1 .. n : messages'[k] = messages[k]
      /\ messages'[n + 1] = e
      /\ \A m \in 0 .. n : Answers(m)' = Answers(m) /\ PreviousCitations(m)' = PreviousCitations(m)
  BY <1>0, Appended, Zenon
<1>3. DOMAIN messages = 1 .. n /\ DOMAIN messages' = 1 .. n + 1
  BY <1>0, <1>2, MessageFacts
<1>4. \A k \in 1 .. n : Cites(k)' = Cites(k) /\ AskerOf(k)' = AskerOf(k)
  BY <1>2 DEF Cites, AskerOf
<1>5. Cites(n + 1)' = e.cites /\ AskerOf(n + 1)' = a
  BY <1>2 DEF Cites, AskerOf
<1>6. AskTyped'
  BY <1>0, <1>2 DEF AskTyped, snapshot
<1>7. OnlyAnswersCite'
  <2>1. ASSUME NEW k \in 1 .. n
        PROVE  (/\ messages[k].role = "assistant" => request[AskerOf(k)] = "done"
                /\ messages[k].role # "assistant" => DOMAIN Cites(k) = {})'
    <3>1. /\ messages[k].role = "assistant" => request[AskerOf(k)] = "done"
          /\ messages[k].role # "assistant" => DOMAIN Cites(k) = {}
      BY <1>0, <1>3 DEF OnlyAnswersCite
    <3>2. AskerOf(k) \in Asker
      BY <1>0, MessageFacts
    <3>3. messages'[k].role = messages[k].role
      BY <1>2
    <3>. QED  BY <3>1, <3>2, <3>3, <1>4
  <2>2. (/\ messages[n + 1].role = "assistant" => request[AskerOf(n + 1)] = "done"
         /\ messages[n + 1].role # "assistant" => DOMAIN Cites(n + 1) = {})'
    BY <1>2, <1>5
  <2>3. \A k \in 1 .. n + 1 : k \in 1 .. n \/ k = n + 1
    BY <1>1
  <2>. QED  BY <1>3, <2>1, <2>2, <2>3 DEF OnlyAnswersCite
<1>8. RowsExtend'
  BY <1>0 DEF RowsExtend, Extends, snapshot
<1>9. (\A b \in Asker : \E m \in 0 .. Len(messages) : HasRead(b, m))'
  <2>. SUFFICES ASSUME NEW b \in Asker PROVE \E m \in 0 .. Len(messages') : HasRead(b, m)'
    OBVIOUS
  <2>1. PICK m \in 0 .. n : HasRead(b, m)
    BY DEF NumbersInv
  <2>2. HasRead(b, m)'
    BY <1>2, <2>1 DEF HasRead, snapshot
  <2>3. m \in 0 .. Len(messages')
    BY <1>1, <1>2
  <2>. QED  BY <2>2, <2>3
<1>10. InTurn(n + 1)' => InTurn(n) /\ Agree(n)
  <2>. SUFFICES ASSUME InTurn(n + 1)' PROVE InTurn(n)
    BY DEF NumbersInv
  <2>. SUFFICES ASSUME NEW k \in Answers(n), DOMAIN Cites(k) # {}
                PROVE  answersSeen[AskerOf(k)] = Answers(k - 1)
    BY DEF InTurn
  <2>1. k \in 1 .. n /\ k \in 1 .. n + 1 /\ k - 1 \in 0 .. n
    BY DEF Answers
  <2>2. k \in Answers(n + 1)' /\ DOMAIN Cites(k)' # {}
    BY <2>1, <1>2, <1>4 DEF Answers
  <2>3. (answersSeen[AskerOf(k)] = Answers(k - 1))'
    BY <2>2 DEF InTurn
  <2>. QED  BY <2>1, <2>3, <1>2, <1>4 DEF snapshot
<1>11. \A k \in Answers(n + 1)' : DOMAIN Cites(k)' # {} =>
         \/ k \in Answers(n) /\ Cites(k)' = Cites(k)
         \/ k = n + 1 /\ e.role = "assistant" /\ Cites(k)' = rows[a]
  <2>. SUFFICES ASSUME NEW k \in Answers(n + 1)', DOMAIN Cites(k)' # {}
                PROVE  \/ k \in Answers(n) /\ Cites(k)' = Cites(k)
                       \/ k = n + 1 /\ e.role = "assistant" /\ Cites(k)' = rows[a]
    OBVIOUS
  <2>1. k \in 1 .. n + 1
    BY DEF Answers
  <2>2. CASE k = n + 1
    BY <2>2, <1>5
  <2>3. CASE k \in 1 .. n
    BY <2>3, <1>2, <1>4 DEF Answers
  <2>. QED  BY <2>1, <2>2, <2>3
<1>12. ASSUME InTurn(n + 1)', e.role = "assistant", DOMAIN rows[a] # {}
       PROVE  numbers[a] = PreviousCitations(n)
  <2>1. n + 1 \in Answers(n + 1)' /\ DOMAIN Cites(n + 1)' # {}
    BY <1>2, <1>5, <1>12 DEF Answers
  <2>2. answersSeen'[a] = Answers(n)'
    BY <2>1, <1>5, <1>12 DEF InTurn
  <2>3. answersSeen[a] = Answers(n)
    BY <2>2, <1>2 DEF snapshot
  <2>4. PICK m \in 0 .. n : HasRead(a, m)
    BY DEF NumbersInv
  <2>5. Answers(m) = Answers(n) /\ numbers[a] = PreviousCitations(m)
    BY <2>3, <2>4 DEF HasRead
  <2>. QED  BY <2>5, <1>0, <1>1, AnswersGiveNumbers
<1>13. ASSUME InTurn(n + 1)', e.role = "assistant", DOMAIN rows[a] # {}
       PROVE  /\ \A k \in Answers(n) : \A c \in DOMAIN Cites(k), d \in DOMAIN rows[a] :
                   (c = d) <=> (Cites(k)[c] = rows[a][d])
              /\ \A c, d \in DOMAIN rows[a] : (c = d) <=> (rows[a][c] = rows[a][d])
  <2>. DEFINE known == PreviousCitations(n)
  <2>1. Extends(rows[a], known)
    BY <1>0, <1>12, <1>13 DEF RowsExtend
  <2>2. Agree(n)
    BY <1>10, <1>13
  <2>3. \A k \in Answers(n) : DOMAIN Cites(k) \subseteq DOMAIN known
    BY <1>0, <1>1, KnownCitations
  <2>4. \A c \in DOMAIN known : \E k \in Answers(n) : c \in DOMAIN Cites(k) /\ known[c] = Cites(k)[c]
    BY <1>0, <1>1, KnownCitations
  <2>. HIDE DEF known
  <2>5. ASSUME NEW k \in Answers(n), NEW c \in DOMAIN Cites(k) PROVE Cites(k)[c] = known[c]
    <3>1. PICK j \in Answers(n) : c \in DOMAIN Cites(j) /\ known[c] = Cites(j)[c]
      BY <2>3, <2>4
    <3>. QED  BY <2>2, <3>1 DEF Agree
  <2>6. ASSUME NEW c \in DOMAIN known, NEW d \in DOMAIN rows[a]
        PROVE  (c = d) <=> (known[c] = rows[a][d])
    <3>1. CASE d \in DOMAIN known
      <4>1. rows[a][d] = known[d]
        BY <2>1, <3>1 DEF Extends
      <4>2. PICK i \in Answers(n) : c \in DOMAIN Cites(i) /\ known[c] = Cites(i)[c]
        BY <2>4
      <4>3. PICK j \in Answers(n) : d \in DOMAIN Cites(j) /\ known[d] = Cites(j)[d]
        BY <2>4, <3>1
      <4>. QED  BY <2>2, <4>1, <4>2, <4>3 DEF Agree
    <3>2. CASE d \notin DOMAIN known
      BY <2>1, <3>2 DEF Extends
    <3>. QED  BY <3>1, <3>2
  <2>7. ASSUME NEW k \in Answers(n), NEW c \in DOMAIN Cites(k), NEW d \in DOMAIN rows[a]
        PROVE  (c = d) <=> (Cites(k)[c] = rows[a][d])
    BY <2>3, <2>5, <2>6
  <2>8. ASSUME NEW c \in DOMAIN rows[a], NEW d \in DOMAIN rows[a], c # d
        PROVE  rows[a][c] # rows[a][d]
    <3>1. CASE c \in DOMAIN known
      BY <2>1, <2>6, <2>8, <3>1 DEF Extends
    <3>2. CASE d \in DOMAIN known
      BY <2>1, <2>6, <2>8, <3>2 DEF Extends
    <3>3. CASE c \notin DOMAIN known /\ d \notin DOMAIN known
      BY <2>1, <2>8, <3>3 DEF Extends
    <3>. QED  BY <3>1, <3>2, <3>3
  <2>. QED  BY <2>7, <2>8
<1>14. ASSUME InTurn(n + 1)' PROVE Agree(n + 1)'
  <2>. SUFFICES ASSUME NEW i \in Answers(n + 1)', NEW j \in Answers(n + 1)',
                       NEW c \in DOMAIN Cites(i)', NEW d \in DOMAIN Cites(j)'
                PROVE  (c = d) <=> (Cites(i)'[c] = Cites(j)'[d])
    BY DEF Agree
  <2>1. \/ i \in Answers(n) /\ Cites(i)' = Cites(i)
        \/ e.role = "assistant" /\ Cites(i)' = rows[a]
    BY <1>11
  <2>2. \/ j \in Answers(n) /\ Cites(j)' = Cites(j)
        \/ e.role = "assistant" /\ Cites(j)' = rows[a]
    BY <1>11
  <2>3. CASE i \in Answers(n) /\ Cites(i)' = Cites(i) /\ j \in Answers(n) /\ Cites(j)' = Cites(j)
    BY <1>10, <1>14, <2>3 DEF Agree
  <2>4. CASE e.role = "assistant" /\ (Cites(i)' = rows[a] \/ Cites(j)' = rows[a])
    BY <1>13, <1>14, <2>1, <2>2, <2>4
  <2>. QED  BY <2>1, <2>2, <2>3, <2>4
<1>. QED  BY <1>2, <1>6, <1>7, <1>8, <1>9, <1>14 DEF NumbersInv

LEMMA NumbersNextInv == NumbersInv /\ [AskNext]_askVars => NumbersInv'
<1> SUFFICES ASSUME NumbersInv, [AskNext]_askVars PROVE NumbersInv'
  OBVIOUS
<1>. USE DEF corpus, histories, RequestState
<1>0. AskTyped
  BY DEF NumbersInv
<1>12. collection \subseteq Chunk /\ request \in [Asker -> RequestState]
  BY <1>0 DEF AskTyped
<1>1. CASE IndexingGoesOn
  BY <1>1, <1>12, SaysNothing DEF IndexingGoesOn, Empty
<1>2. CASE ChromaLost \/ FilesAdded
  BY <1>2, <1>12, SaysNothing DEF ChromaLost, FilesAdded, Empty
<1>3. CASE DelegatedEnds
  BY <1>3, <1>12, SaysNothing DEF DelegatedEnds, Empty
<1>4. ASSUME NEW a \in Asker, Admit(a) PROVE NumbersInv'
  <2>1. CASE UNCHANGED snapshot
    BY <1>4, <2>1, <1>12, SaysNothing DEF Admit, At
  <2>2. CASE /\ At(a, "new", "admitted")
             /\ wasReady' = [wasReady EXCEPT ![a] = status = "ready"]
             /\ numbers' = [numbers EXCEPT ![a] = PreviousCitations(Len(messages))]
             /\ answersSeen' = [answersSeen EXCEPT ![a] = Answers(Len(messages))]
    <3>. DEFINE n == Len(messages)
    <3>0. AskTyped /\ OnlyAnswersCite /\ RowsExtend
      BY DEF NumbersInv
    <3>1. n \in Nat /\ n \in 0 .. n /\ DOMAIN messages = 1 .. n
      BY <3>0, MessageFacts
    <3>2. messages' = messages /\ rows' = rows /\ collection' = collection
      BY <1>4 DEF Admit
    <3>3. request[a] = "new" /\ request' = [request EXCEPT ![a] = "admitted"]
      BY <2>2 DEF At
    <3>4. \A m : Answers(m)' = Answers(m) /\ PreviousCitations(m)' = PreviousCitations(m)
      BY <3>2 DEF Answers, PreviousCitations, Citing
    <3>5. AskTyped'
      <4>1. PreviousCitations(n) \in Numberings
        BY <3>0, <3>1, KnownCitations
      <4>2. Answers(n) \subseteq Nat
        BY DEF Answers
      <4>. HIDE DEF n
      <4>3. numbers' \in [Asker -> Numberings] /\ answersSeen' \in [Asker -> SUBSET Nat]
        BY <2>2, <3>0, <4>1, <4>2 DEF AskTyped, n
      <4>. QED  BY <3>0, <3>2, <3>3, <4>3 DEF AskTyped
    <3>6. \A k \in DOMAIN messages : messages[k].role = "assistant" =>
            AskerOf(k) # a /\ AskerOf(k) \in Asker
      BY <3>0, <3>1, <3>3, MessageFacts DEF OnlyAnswersCite
    <3>7. OnlyAnswersCite'
      <4>. SUFFICES ASSUME NEW k \in DOMAIN messages
                    PROVE  (/\ messages[k].role = "assistant" => request[AskerOf(k)] = "done"
                            /\ messages[k].role # "assistant" => DOMAIN Cites(k) = {})'
        BY <3>2 DEF OnlyAnswersCite
      <4>. QED  BY <3>0, <3>2, <3>3, <3>6, <1>12 DEF OnlyAnswersCite, AskerOf, Cites
    <3>8. RowsExtend'
      <4>1. DOMAIN rows[a] = {}
        BY <3>0, <3>3 DEF RowsExtend
      <4>2. Extends(rows[a], numbers[a])'
        BY <4>1, <3>2 DEF Extends
      <4>3. \A b \in Asker \ {a} : numbers'[b] = numbers[b] /\ request'[b] = request[b]
        BY <2>2, <3>0, <3>3 DEF AskTyped
      <4>4. ASSUME NEW b \in Asker \ {a} PROVE Extends(rows[b], numbers[b])'
        BY <4>3, <3>0, <3>2 DEF RowsExtend, Extends
      <4>. QED  BY <4>1, <4>2, <4>3, <4>4, <3>0, <3>2 DEF RowsExtend
    <3>9. (\A b \in Asker : \E m \in 0 .. Len(messages) : HasRead(b, m))'
      <4>1. HasRead(a, n)'
        BY <2>2, <3>0, <3>2, <3>4 DEF AskTyped, HasRead
      <4>2. ASSUME NEW b \in Asker \ {a} PROVE \E m \in 0 .. n : HasRead(b, m)'
        <5>1. PICK m \in 0 .. n : HasRead(b, m)
          BY DEF NumbersInv
        <5>2. numbers'[b] = numbers[b] /\ answersSeen'[b] = answersSeen[b]
          BY <2>2, <3>0 DEF AskTyped
        <5>3. HasRead(b, m)'
          BY <3>4, <5>1, <5>2 DEF HasRead
        <5>. QED  BY <5>3
      <4>. QED  BY <3>1, <3>2, <4>1, <4>2
    <3>10. (InTurn(Len(messages)) => Agree(Len(messages)))'
      <4>1. \A k \in Answers(n) : answersSeen'[AskerOf(k)] = answersSeen[AskerOf(k)]
        BY <2>2, <3>0, <3>1, <3>6 DEF AskTyped, Answers
      <4>2. InTurn(Len(messages))' => InTurn(Len(messages))
        BY <3>2, <3>4, <4>1 DEF InTurn, Cites, AskerOf
      <4>3. Agree(Len(messages)) => Agree(Len(messages))'
        BY <3>2, <3>4 DEF Agree, Cites
      <4>. QED  BY <4>2, <4>3 DEF NumbersInv
    <3>. QED  BY <3>5, <3>7, <3>8, <3>9, <3>10 DEF NumbersInv
  <2>. QED  BY <1>4, <2>1, <2>2 DEF Admit
<1>5. ASSUME NEW a \in Asker, StoreQuestion(a) \/ StoreImageRequest(a) PROVE NumbersInv'
  <2>. DEFINE e == [asker |-> a, role |-> "user", cites |-> <<>>]
  <2>1. e \in Message /\ DOMAIN e.cites = {}
    <3>1. <<>> \in [{} -> Nat] /\ {} \in SUBSET Chunk
      OBVIOUS
    <3>2. <<>> \in Numberings
      BY <3>1 DEF Numberings
    <3>. QED  BY <3>2 DEF Message
  <2>2. messages' = Append(messages, e) /\ UNCHANGED <<collection, snapshot, rows>>
    BY <1>5 DEF StoreQuestion, StoreImageRequest, Say
  <2>3. /\ request[a] \in {"admitted", "new"}
        /\ \E to \in {"counting", "answering", "answered"} : request' = [request EXCEPT ![a] = to]
    BY <1>5 DEF StoreQuestion, StoreImageRequest, At
  <2>. HIDE DEF e
  <2>4. e.asker = a /\ e.role = "user"
    BY DEF e
  <2>. QED  BY <2>1, <2>2, <2>3, <2>4, <1>12, SaysOne
<1>6. ASSUME NEW a \in Asker, CountChunks(a) PROVE NumbersInv'
  BY <1>6, <1>12, SaysNothing DEF CountChunks, At
<1>7. ASSUME NEW a \in Asker, ReindexChunk(a) PROVE NumbersInv'
  BY <1>7, <1>12, SaysNothing DEF ReindexChunk
<1>8. ASSUME NEW a \in Asker, ReindexEnds(a) PROVE NumbersInv'
  BY <1>8, <1>12, SaysNothing DEF ReindexEnds, At, Empty
<1>9. ASSUME NEW a \in Asker, Answer(a) PROVE NumbersInv'
  <2>1. CASE UNCHANGED rows
    BY <1>9, <2>1, <1>12, SaysNothing DEF Answer, At
  <2>2. CASE /\ At(a, "answering", "answered")
             /\ \E cited \in Citable(collection) :
                  rows' = [rows EXCEPT ![a] = Renumber(cited, numbers[a])]
    <3>0. AskTyped /\ OnlyAnswersCite /\ RowsExtend
      BY DEF NumbersInv
    <3>1. PICK cited \in Citable(collection) : rows' = [rows EXCEPT ![a] = Renumber(cited, numbers[a])]
      BY <2>2
    <3>2. Renumber(cited, numbers[a]) \in Numberings /\ Extends(Renumber(cited, numbers[a]), numbers[a])
      <4>1. collection \in SUBSET Chunk /\ numbers[a] \in Numberings
        BY <3>0 DEF AskTyped
      <4>. QED  BY <4>1, RenumberExtends
    <3>3. UNCHANGED <<messages, snapshot, collection>>
      BY <1>9 DEF Answer
    <3>4. request[a] = "answering" /\ request' = [request EXCEPT ![a] = "answered"]
      BY <2>2 DEF At
    <3>5. AskTyped'
      BY <3>0, <3>1, <3>2, <3>3, <3>4 DEF AskTyped, snapshot
    <3>6. \A m : Answers(m)' = Answers(m) /\ PreviousCitations(m)' = PreviousCitations(m)
      BY <3>3 DEF Answers, PreviousCitations, Citing
    <3>7. OnlyAnswersCite'
      <4>. SUFFICES ASSUME NEW k \in DOMAIN messages
                    PROVE  (/\ messages[k].role = "assistant" => request[AskerOf(k)] = "done"
                            /\ messages[k].role # "assistant" => DOMAIN Cites(k) = {})'
        BY <3>3 DEF OnlyAnswersCite
      <4>1. AskerOf(k) \in Asker
        BY <3>0, MessageFacts
      <4>. QED  BY <3>0, <3>3, <3>4, <4>1, <1>12 DEF OnlyAnswersCite, AskerOf, Cites
    <3>8. RowsExtend'
      <4>1. \A b \in Asker \ {a} : rows'[b] = rows[b] /\ request'[b] = request[b]
        BY <3>0, <3>1, <3>4 DEF AskTyped
      <4>2. rows'[a] = Renumber(cited, numbers[a]) /\ request'[a] = "answered"
        BY <3>0, <3>1, <3>4 DEF AskTyped
      <4>3. numbers' = numbers
        BY <3>3 DEF snapshot
      <4>4. Extends(rows[a], numbers[a])'
        BY <3>2, <4>2, <4>3 DEF Extends
      <4>5. ASSUME NEW b \in Asker \ {a} PROVE Extends(rows[b], numbers[b])'
        BY <4>1, <4>3, <3>0 DEF RowsExtend, Extends
      <4>. QED  BY <4>1, <4>2, <4>4, <4>5, <3>0 DEF RowsExtend
    <3>9. (\A b \in Asker : \E m \in 0 .. Len(messages) : HasRead(b, m))'
      BY <3>3, <3>6 DEF NumbersInv, HasRead, snapshot
    <3>10. (InTurn(Len(messages)) => Agree(Len(messages)))'
      BY <3>3, <3>6 DEF NumbersInv, InTurn, Agree, snapshot, Cites, AskerOf
    <3>. QED  BY <3>5, <3>7, <3>8, <3>9, <3>10 DEF NumbersInv
  <2>. QED  BY <1>9, <2>1, <2>2 DEF Answer
<1>10. ASSUME NEW a \in Asker, StoreAnswer(a) PROVE NumbersInv'
  <2>. DEFINE e == [asker |-> a, role |-> "assistant", cites |-> rows[a]]
  <2>1. e \in Message
    BY <1>0 DEF AskTyped, Message
  <2>2. messages' = Append(messages, e) /\ UNCHANGED <<collection, snapshot, rows>>
    BY <1>10 DEF StoreAnswer, Say
  <2>3. request[a] = "answered" /\ request' = [request EXCEPT ![a] = "done"]
    BY <1>10 DEF StoreAnswer, At
  <2>. HIDE DEF e
  <2>4. e.asker = a /\ e.role = "assistant" /\ e.cites = rows[a]
    BY DEF e
  <2>. QED  BY <2>1, <2>2, <2>3, <2>4, <1>12, SaysOne
<1>11. CASE UNCHANGED askVars
  BY <1>11, <1>12, SaysNothing DEF askVars
<1>. QED
  BY <1>1, <1>2, <1>3, <1>4, <1>5, <1>6, <1>7, <1>8, <1>9, <1>10, <1>11 DEF AskNext

\* _renumber_citations_globally, for any number of questions, chunks and
\* answers: as long as no answer came between a question's reading and its own
\* answer, a chunk keeps its number and shares it with no other.
THEOREM ChunksKeepNumbers == AskSpec => []NumbersAgree
<1>1. NumbersInv => NumbersAgree
  BY DEF NumbersInv, NumbersAgree, InTurn, Agree, Cites, AskerOf
<1>. QED  BY <1>1, NumbersInitInv, NumbersNextInv, PTL DEF AskSpec

-------------------------------------------------------------------------------
(* ConversationStream: what a stream read is still so when it subscribes,  *)
(* unless an end passed in between, and an end reaches who has subscribed. *)

StreamInv ==
  /\ StreamTypeOK
  /\ NoHandlerLeak
  /\ NothingMissed
  /\ emitting # "none" => emitting = indexed
  /\ \A b \in Browser :
       stream[b] = "read" /\ indexed # "processing" /\ emitting = "none" /\ b \notin missed
         => read[b] = indexed

LEMMA StreamInitInv == StreamInit => StreamInv
  BY StreamAssumption DEF StreamInit, StreamInv, StreamTypeOK, NoHandlerLeak, NothingMissed

LEMMA StreamNextInv == StreamInv /\ [StreamNext]_streamVars => StreamInv'
<1> SUFFICES ASSUME StreamInv, [StreamNext]_streamVars PROVE StreamInv'
  OBVIOUS
<1>. USE StreamAssumption
     DEF StreamInv, StreamTypeOK, NoHandlerLeak, NothingMissed, conversationVars,
         connectionVars
<1>1. CASE WriteOutcome
  BY <1>1 DEF WriteOutcome
<1>2. CASE EmitOutcome
  BY <1>2 DEF EmitOutcome, InGap, Browser
<1>3. CASE IndexAgain
  BY <1>3 DEF IndexAgain
<1>4. CASE SettleSilently
  BY <1>4 DEF SettleSilently, InGap
<1>5. ASSUME NEW b \in Browser, Connect(b) PROVE StreamInv'
  BY <1>5 DEF Connect
<1>6. ASSUME NEW b \in Browser, ReadStatus(b) PROVE StreamInv'
  BY <1>6 DEF ReadStatus
<1>7. ASSUME NEW b \in Browser, Open(b) PROVE StreamInv'
  BY <1>7 DEF Open, CatchUp
<1>8. ASSUME NEW b \in Browser, BrowserCloses(b) PROVE StreamInv'
  BY <1>8 DEF BrowserCloses
<1>9. CASE UNCHANGED streamVars
  BY <1>9 DEF streamVars
<1>. QED
  BY <1>1, <1>2, <1>3, <1>4, <1>5, <1>6, <1>7, <1>8, <1>9 DEF StreamNext

\* The emitter's handlers are those of the open streams, for any number of
\* browsers that come and go.
THEOREM HandlersAreOpen == StreamSpec => []NoHandlerLeak
<1>1. StreamInv => NoHandlerLeak
  BY DEF StreamInv
<1>. QED  BY <1>1, StreamInitInv, StreamNextInv, PTL DEF StreamSpec

\* The catch-up and the subscription together tell an open stream how the
\* indexing ended, but for an end in the gap between the two.
THEOREM EndsAreTold == StreamSpec => []NothingMissed
<1>1. StreamInv => NothingMissed
  BY DEF StreamInv
<1>. QED  BY <1>1, StreamInitInv, StreamNextInv, PTL DEF StreamSpec

-------------------------------------------------------------------------------
(* Uploads: without overlap one job at most is at work, here or with a     *)
(* worker, and not with both unless it was abandoned.                      *)

OneAtWork ==
  /\ ~overlapped => \A i, j \in Working : i = j
  /\ ~abandoned => \A j \in withWorker : upload[j] = "over"

UploadInv == UploadTypeOK /\ OneAtWork /\ StatusFollowsJobs

LEMMA UploadInitInv == UploadInit => UploadInv
<1> SUFFICES ASSUME UploadInit PROVE UploadInv
  OBVIOUS
<1>1. UploadTypeOK
  <2>1. upload \in [UploadJob -> AtWork \cup {"new", "over"}]
    BY DEF UploadInit, AtWork
  <2>2. restarts \in 0 .. MaxRestarts
    BY UploadAssumption DEF UploadInit
  <2>. QED  BY <2>1, <2>2 DEF UploadInit, UploadTypeOK
<1>2. Working = {} /\ withWorker = {}
  BY DEF UploadInit, Working, AtWork
<1>3. OneAtWork /\ StatusFollowsJobs
  BY <1>2 DEF UploadInit, OneAtWork, StatusFollowsJobs
<1>. QED  BY <1>1, <1>3 DEF UploadInv

LEMMA UploadNextInv == UploadInv /\ [UploadNext]_uploadVars => UploadInv'
<1> SUFFICES ASSUME UploadInv, [UploadNext]_uploadVars PROVE UploadInv'
  OBVIOUS
<1>. USE UploadAssumption
     DEF UploadInv, UploadTypeOK, OneAtWork, StatusFollowsJobs,
         Working, AtWork, uploadHistory, Moves, Becomes
<1>1. CASE SignUrls
  BY <1>1 DEF SignUrls
<1>2. CASE BackendDies
  <2>1. CASE abandoned' = abandoned
    BY <1>2, <2>1 DEF BackendDies
  <2>2. CASE abandoned'
    <3>1. abandoned' \in BOOLEAN
      BY <1>2 DEF BackendDies
    <3>2. StatusFollowsJobs' /\ (~abandoned' => \A i \in withWorker' : upload'[i] = "over")
      BY <2>2, Zenon
    <3>. QED  BY <1>2, <3>1, <3>2 DEF BackendDies
  <2>. QED  BY <1>2, <2>1, <2>2, Zenon DEF BackendDies
<1>3. ASSUME NEW j \in UploadJob, Begin(j) PROVE UploadInv'
  <2>1. upload[j] = "new" /\ \A i \in UploadJob \ {j} : upload'[i] = upload[i]
    BY <1>3 DEF Begin
  <2>2. upload'[j] \in {"checking", "running"}
    BY <1>3 DEF Begin
  <2>3. UploadTypeOK'
    BY <1>3 DEF Begin
  <2>4. OneAtWork'
    <3>1. ASSUME ~overlapped', NEW i \in Working' PROVE i = j
      <4>1. Working = {}
        BY <1>3, <3>1 DEF Begin
      <4>2. withWorker' = {} /\ upload[i] \notin AtWork
        BY <1>3, <3>1, <4>1 DEF Begin
      <4>. QED  BY <2>1, <3>1, <4>2
    <3>2. ASSUME ~abandoned', NEW i \in withWorker' PROVE upload'[i] = "over"
      <4>1. i \in withWorker /\ upload[i] = "over"
        BY <1>3, <3>2 DEF Begin
      <4>. QED  BY <2>1, <4>1
    <3>. QED  BY <3>1, <3>2
  <2>5. StatusFollowsJobs'
    BY <1>3, <2>2 DEF Begin
  <2>. QED  BY <2>3, <2>4, <2>5
<1>4. ASSUME NEW j \in UploadJob, Prepare(j) PROVE UploadInv'
  <2>1. CASE abandoned' = abandoned
    BY <1>4, <2>1 DEF Prepare
  <2>2. CASE abandoned'
    <3>1. abandoned' \in BOOLEAN
      BY <1>4 DEF Prepare
    <3>2. StatusFollowsJobs' /\ (~abandoned' => \A i \in withWorker' : upload'[i] = "over")
      BY <2>2, Zenon
    <3>. QED  BY <1>4, <3>1, <3>2 DEF Prepare
  <2>. QED  BY <1>4, <2>1, <2>2, Zenon DEF Prepare
<1>5. ASSUME NEW j \in UploadJob, StreamWelcome(j) PROVE UploadInv'
  BY <1>5 DEF StreamWelcome, InsertWelcome
<1>6. ASSUME NEW j \in UploadJob, Complete(j) PROVE UploadInv'
  BY <1>6 DEF Complete, InsertWelcome
<1>7. ASSUME NEW j \in UploadJob, SetReady(j) PROVE UploadInv'
  BY <1>7 DEF SetReady
<1>8. ASSUME NEW j \in UploadJob, Fails(j) PROVE UploadInv'
  BY <1>8 DEF Fails
<1>9. ASSUME NEW j \in UploadJob, SetFailed(j) PROVE UploadInv'
  <2>1. CASE abandoned' = abandoned
    BY <1>9, <2>1 DEF SetFailed
  <2>2. CASE abandoned'
    <3>1. abandoned' \in BOOLEAN
      BY <1>9 DEF SetFailed
    <3>2. StatusFollowsJobs' /\ (~abandoned' => \A i \in withWorker' : upload'[i] = "over")
      BY <2>2, Zenon
    <3>. QED  BY <1>9, <3>1, <3>2 DEF SetFailed
  <2>. QED  BY <1>9, <2>1, <2>2, Zenon DEF SetFailed
<1>10. ASSUME NEW j \in UploadJob, Rejected(j) PROVE UploadInv'
  <2>1. CASE abandoned' = abandoned
    BY <1>10, <2>1 DEF Rejected
  <2>2. CASE abandoned'
    <3>1. abandoned' \in BOOLEAN
      BY <1>10 DEF Rejected
    <3>2. StatusFollowsJobs' /\ (~abandoned' => \A i \in withWorker' : upload'[i] = "over")
      BY <2>2, Zenon
    <3>. QED  BY <1>10, <3>1, <3>2 DEF Rejected
  <2>. QED  BY <1>10, <2>1, <2>2, Zenon DEF Rejected
<1>11. ASSUME NEW j \in UploadJob, Delegated(j) PROVE UploadInv'
  BY <1>11 DEF Delegated
<1>12. ASSUME NEW j \in UploadJob, WorkerEnds(j) PROVE UploadInv'
  BY <1>12 DEF WorkerEnds
<1>13. ASSUME NEW j \in UploadJob, EndIsSkipped(j) PROVE UploadInv'
  BY <1>13 DEF EndIsSkipped
<1>14. CASE UNCHANGED uploadVars
  BY <1>14 DEF uploadVars
<1>. QED
  BY <1>1, <1>2, <1>3, <1>4, <1>5, <1>6, <1>7, <1>8, <1>9, <1>10, <1>11, <1>12, <1>13,
     <1>14 DEF UploadNext

\* A conversation is processing only while a job of its own is at work, and
\* settled only when none is, for any number of jobs, but for the named causes.
THEOREM StatusIsFollowed == UploadSpec => []StatusFollowsJobs
<1>1. UploadInv => StatusFollowsJobs
  BY DEF UploadInv
<1>. QED  BY <1>1, UploadInitInv, UploadNextInv, PTL DEF UploadSpec
-------------------------------------------------------------------------------
(* ImageStream: an outcome is the last thing said, on both connections.      *)

OutcomeLast(s) == \A k \in Outcomes(s) : k = Len(s)
Completes(s) == \E k \in Outcomes(s) : s[k] = "complete"

ImageInv ==
  /\ ImageTypeOK
  /\ run = "done" => saved > 0
  \* The pipe: the Python server says the outcome and stops.
  /\ OutcomeLast(pipe) /\ (Outcomes(pipe) # {} => serving = "ended")
  /\ Completes(pipe) => saved > 0
  \* The route: complete comes after the image and the message.
  /\ relay \in {"final", "framed", "stored"} => saved > 0
  /\ relay = "stored" => answered
  /\ OutcomeLast(sent) /\ (Outcomes(sent) # {} => relay = "ended")
  /\ Completes(sent) => answered /\ saved > 0
  /\ relay = "ended" /\ browser = "open" => Outcomes(sent) # {}

LEMMA OutcomesAfterAppend ==
  ASSUME NEW s \in Seq(Sendable), NEW e \in Sendable
  PROVE  /\ Append(s, e) \in Seq(Sendable)
         /\ Outcomes(Append(s, e)) = Outcomes(s) \cup (IF e \in Terminal THEN {Len(s) + 1} ELSE {})
         /\ Outcomes(s) = {} => OutcomeLast(Append(s, e))
         /\ Completes(Append(s, e)) <=> Completes(s) \/ e = "complete"
<1>1. /\ Append(s, e) \in Seq(Sendable) /\ Len(Append(s, e)) = Len(s) + 1
      /\ \A k \in 1 .. Len(s) : Append(s, e)[k] = s[k]
      /\ Append(s, e)[Len(s) + 1] = e
  BY AppendProperties
<1>2. DOMAIN s = 1 .. Len(s) /\ DOMAIN Append(s, e) = 1 .. Len(s) + 1 /\ Len(s) \in Nat
  BY <1>1, LenProperties
<1>3. DOMAIN Append(s, e) = DOMAIN s \cup {Len(s) + 1} /\ Len(s) + 1 \notin DOMAIN s
  BY <1>2
<1>4. Outcomes(Append(s, e)) = Outcomes(s) \cup (IF e \in Terminal THEN {Len(s) + 1} ELSE {})
  BY <1>1, <1>2, <1>3 DEF Outcomes
<1>5. Completes(Append(s, e)) <=> Completes(s) \/ e = "complete"
  BY <1>1, <1>2, <1>3 DEF Completes, Outcomes, Terminal
<1>. QED  BY <1>1, <1>4, <1>5 DEF OutcomeLast

LEMMA OutcomesAfterTail ==
  ASSUME NEW s \in Seq(Sendable), s # <<>>, OutcomeLast(s)
  PROVE  /\ Tail(s) \in Seq(Sendable) /\ Head(s) \in Sendable
         /\ OutcomeLast(Tail(s))
         /\ Outcomes(Tail(s)) # {} => Outcomes(s) # {}
         /\ Completes(Tail(s)) => Completes(s)
         /\ Head(s) \in Terminal => Outcomes(s) # {}
         /\ Head(s) = "complete" => Completes(s)
<1>1. /\ Tail(s) \in Seq(Sendable) /\ Len(Tail(s)) = Len(s) - 1
      /\ \A k \in 1 .. Len(Tail(s)) : Tail(s)[k] = s[k + 1]
      /\ Head(s) = s[1] /\ Head(s) \in Sendable
  BY HeadTailProperties
<1>2. DOMAIN s = 1 .. Len(s) /\ DOMAIN Tail(s) = 1 .. Len(s) - 1 /\ Len(s) \in Nat \ {0}
  BY <1>1, LenProperties, EmptySeq
<1>3. \A k \in Outcomes(Tail(s)) : k + 1 \in Outcomes(s) /\ Tail(s)[k] = s[k + 1]
  BY <1>1, <1>2 DEF Outcomes
<1>4. OutcomeLast(Tail(s))
  BY <1>1, <1>2, <1>3 DEF OutcomeLast, Outcomes
<1>5. Completes(Tail(s)) => Completes(s)
  BY <1>3 DEF Completes
<1>6. 1 \in DOMAIN s
  BY <1>2
<1>. QED  BY <1>1, <1>3, <1>4, <1>5, <1>6 DEF Outcomes, Completes, Terminal

LEMMA Words ==
  /\ \A e \in {"prompt_ready", "partial"} : e \in Sendable /\ e \notin Terminal /\ e # "complete"
  /\ \A e \in {"complete", "error"} : e \in Sendable /\ e \in Terminal
  /\ \A e \in Sendable \ {"complete", "error"} : e \notin Terminal
  BY DEF Sendable, Terminal

\* What is said when no outcome has been told.
LEMMA Telling ==
  ASSUME NEW s \in Seq(Sendable), Outcomes(s) = {}, NEW e \in Sendable
  PROVE  /\ Append(s, e) \in Seq(Sendable) /\ OutcomeLast(Append(s, e))
         /\ Outcomes(Append(s, e)) # {} <=> e \in Terminal
         /\ Completes(Append(s, e)) <=> e = "complete"
<1>1. ~Completes(s)
  BY DEF Completes
<1>. QED  BY <1>1, OutcomesAfterAppend

LEMMA ImageInitInv == ImageInit => ImageInv
<1> SUFFICES ASSUME ImageInit PROVE ImageInv
  OBVIOUS
<1>1. Outcomes(<<>>) = {}
  BY DEF Outcomes
<1>2. ImageTypeOK
  <2>1. frames \in 0 .. MaxFrames /\ saved \in Nat
    BY ImageAssumption DEF ImageInit
  <2>2. events \in Seq({"prompt_ready", "partial"}) /\ pipe \in Seq(Sendable) /\ sent \in Seq(Sendable)
    BY EmptySeq DEF ImageInit
  <2>. QED  BY <2>1, <2>2 DEF ImageInit, ImageTypeOK
<1>. QED  BY <1>1, <1>2 DEF ImageInit, ImageInv, OutcomeLast, Completes

LEMMA ImageNextInv == ImageInv /\ [ImageNext]_imageVars => ImageInv'
<1> SUFFICES ASSUME ImageInv, [ImageNext]_imageVars PROVE ImageInv'
  OBVIOUS
<1>. USE ImageAssumption DEF ImageInv, ImageTypeOK, threadVars, serverVars, routeVars
<1>1. CASE BuildPrompt
  <2>1. events' \in Seq({"prompt_ready", "partial"})
    BY <1>1 DEF BuildPrompt
  <2>2. run' \in {"edit", "first", "failed"}
    BY <1>1 DEF BuildPrompt
  <2>. QED  BY <1>1, <2>1, <2>2 DEF BuildPrompt
<1>2. CASE Frame
  BY <1>2 DEF Frame
<1>3. CASE FinalFrame
  BY <1>3 DEF FinalFrame
<1>4. CASE AttemptFails
  <2>1. run' \in {"blocking", "second", "failed"} /\ frames' = 0
    BY <1>4 DEF AttemptFails
  <2>2. UNCHANGED <<references, fellBack, saved, serverVars, pipe, routeVars>>
    BY <1>4 DEF AttemptFails
  <2>. QED  BY <2>1, <2>2
<1>5. CASE BlockingEdit
  <2>1. run' = "failed" /\ UNCHANGED <<references, frames, serverVars, pipe, routeVars>>
    BY <1>5 DEF BlockingEdit
  <2>2. CASE saved' = saved + 1 /\ fellBack' = TRUE
    BY <2>1, <2>2
  <2>3. CASE UNCHANGED <<saved, fellBack>>
    BY <2>1, <2>3
  <2>. QED  BY <1>5, <2>2, <2>3 DEF BlockingEdit
<1>6. CASE ServeEvent
  <2>1. /\ Head(events) \in {"prompt_ready", "partial"}
        /\ Tail(events) \in Seq({"prompt_ready", "partial"})
    BY <1>6, HeadTailProperties DEF ServeEvent
  <2>2. Outcomes(pipe) = {} /\ Head(events) \in Sendable \ Terminal
    BY <1>6, <2>1, Words DEF ServeEvent
  <2>3. /\ pipe' \in Seq(Sendable) /\ OutcomeLast(pipe') /\ Outcomes(pipe') = {}
        /\ ~Completes(pipe')
    BY <1>6, <2>2, Words, Telling DEF ServeEvent
  <2>. QED  BY <1>6, <2>1, <2>3 DEF ServeEvent
<1>7. CASE ServeOutcome
  <2>1. Outcomes(pipe) = {}
    BY <1>7 DEF ServeOutcome
  <2>2. PICK e \in {"complete", "error"} :
          pipe' = Append(pipe, e) /\ (e = "complete" => run = "done")
    BY <1>7 DEF ServeOutcome
  <2>3. pipe' \in Seq(Sendable) /\ OutcomeLast(pipe') /\ (Completes(pipe') => run = "done")
    BY <2>1, <2>2, Words, Telling
  <2>. QED  BY <1>7, <2>3 DEF ServeOutcome
<1>8. CASE ResponseBreaksOff
  BY <1>8 DEF ResponseBreaksOff
<1>9. CASE Relay
  <2>1. /\ pipe' \in Seq(Sendable) /\ OutcomeLast(pipe')
        /\ Outcomes(pipe') # {} => serving = "ended"
        /\ Completes(pipe') => saved > 0
        /\ Head(pipe) = "complete" => saved > 0
        /\ Head(pipe) \in Sendable
    BY <1>9, OutcomesAfterTail DEF Relay
  <2>2. Outcomes(sent) = {} /\ ~Completes(sent)
    BY <1>9 DEF Relay, Completes
  <2>3. CASE Head(pipe) = "complete"
    BY <1>9, <2>1, <2>2, <2>3 DEF Relay
  <2>4. CASE Head(pipe) = "error"
    <3>1. sent' = Append(sent, "error") /\ relay' = "ended"
      BY <1>9, <2>4 DEF Relay, Sends
    <3>2. /\ sent' \in Seq(Sendable) /\ OutcomeLast(sent') /\ ~Completes(sent')
          /\ Outcomes(sent') # {}
      BY <2>2, <3>1, Words, Telling
    <3>. QED  BY <1>9, <2>1, <3>1, <3>2 DEF Relay
  <2>5. CASE Head(pipe) \notin Terminal
    <3>1. sent' = Append(sent, Head(pipe)) /\ relay' = relay
      BY <1>9, <2>5 DEF Relay, Sends, Terminal
    <3>2. /\ sent' \in Seq(Sendable) /\ OutcomeLast(sent') /\ ~Completes(sent')
          /\ Outcomes(sent') = {}
      BY <2>1, <2>2, <2>5, <3>1, Words, Telling
    <3>. QED  BY <1>9, <2>1, <3>1, <3>2 DEF Relay
  <2>. QED  BY <2>3, <2>4, <2>5 DEF Terminal
<1>10. CASE RelayLoses
  <2>1. Outcomes(sent) = {} /\ ~Completes(sent) /\ sent' = Append(sent, "error")
    BY <1>10 DEF RelayLoses, Completes, Sends
  <2>2. /\ sent' \in Seq(Sendable) /\ OutcomeLast(sent') /\ ~Completes(sent')
        /\ Outcomes(sent') # {}
    BY <2>1, Words, Telling
  <2>. QED  BY <1>10, <2>2 DEF RelayLoses
<1>11. CASE SyntheticFrame
  <2>1. Outcomes(sent) = {} /\ ~Completes(sent)
    BY <1>11 DEF SyntheticFrame, Completes
  <2>2. sent' = Append(sent, "partial") \/ sent' = sent
    BY <1>11 DEF SyntheticFrame, Sends
  <2>3. /\ sent' \in Seq(Sendable) /\ OutcomeLast(sent') /\ ~Completes(sent')
        /\ Outcomes(sent') = {}
    BY <2>1, <2>2, Words, Telling
  <2>. QED  BY <1>11, <2>3 DEF SyntheticFrame
<1>12. CASE StoreImage
  <2>1. Outcomes(sent) = {} /\ ~Completes(sent)
    BY <1>12 DEF StoreImage, Completes
  <2>2. CASE relay' = "stored" /\ answered' = TRUE /\ UNCHANGED sent
    BY <1>12, <2>1, <2>2 DEF StoreImage
  <2>3. CASE relay' = "ended" /\ Sends("error") /\ UNCHANGED answered
    <3>1. CASE browser = "closed"
      BY <1>12, <2>1, <2>3, <3>1 DEF StoreImage, Sends
    <3>2. CASE browser = "open"
      <4>1. /\ sent' \in Seq(Sendable) /\ OutcomeLast(sent') /\ ~Completes(sent')
            /\ Outcomes(sent') # {}
        BY <2>1, <2>3, <3>2, Words, Telling DEF Sends
      <4>. QED  BY <1>12, <2>3, <4>1 DEF StoreImage
    <3>. QED  BY <3>1, <3>2
  <2>. QED  BY <1>12, <2>2, <2>3 DEF StoreImage
<1>13. CASE TellComplete
  <2>1. Outcomes(sent) = {} /\ ~Completes(sent) /\ answered /\ saved > 0
    BY <1>13 DEF TellComplete, Completes
  <2>2. CASE browser = "closed"
    BY <1>13, <2>1, <2>2 DEF TellComplete, Sends
  <2>3. CASE browser = "open"
    <3>1. /\ sent' \in Seq(Sendable) /\ OutcomeLast(sent') /\ Outcomes(sent') # {}
      BY <1>13, <2>1, <2>3, Words, Telling DEF TellComplete, Sends
    <3>. QED  BY <1>13, <2>1, <3>1 DEF TellComplete
  <2>. QED  BY <2>2, <2>3
<1>14. CASE BrowserLeaves
  BY <1>14 DEF BrowserLeaves
<1>15. CASE UNCHANGED imageVars
  BY <1>15 DEF imageVars
<1>. QED
  BY <1>1, <1>2, <1>3, <1>4, <1>5, <1>6, <1>7, <1>8, <1>9, <1>10, <1>11, <1>12, <1>13,
     <1>14, <1>15 DEF ImageNext

\* A browser that stays is told one outcome, last, and complete only of an
\* image that exists and a message that is stored.
THEOREM OneOutcomeIsTold == ImageSpec => []OneOutcome
<1>1. ImageInv => OneOutcome
  BY DEF ImageInv, OneOutcome, OutcomeLast, Completes
<1>. QED  BY <1>1, ImageInitInv, ImageNextInv, PTL DEF ImageSpec

-------------------------------------------------------------------------------
\* What the numbers do not depend on.
CorpusOK ==
  /\ status \in {"processing", "ready", "failed"} /\ welcomed \in BOOLEAN
  /\ delegated \in BOOLEAN /\ wasReady \in [Asker -> BOOLEAN]
HistoriesOK == excused \subseteq Asker /\ blind \subseteq Asker /\ askFaults \in 0 .. MaxAskFaults

LEMMA CorpusNext == CorpusOK /\ [AskNext]_askVars => CorpusOK'
<1> SUFFICES ASSUME CorpusOK, [AskNext]_askVars PROVE CorpusOK'
  OBVIOUS
<1>. USE DEF CorpusOK, corpus, snapshot
<1>1. CASE IndexingGoesOn
  BY <1>1, Zenon DEF IndexingGoesOn
<1>2. CASE ChromaLost \/ DelegatedEnds \/ FilesAdded
  BY <1>2, Zenon DEF ChromaLost, DelegatedEnds, FilesAdded
<1>3. ASSUME NEW a \in Asker, Admit(a) PROVE CorpusOK'
  <2>1. UNCHANGED corpus /\ \E b \in BOOLEAN : wasReady' = wasReady \/ wasReady' = [wasReady EXCEPT ![a] = b]
    BY <1>3, Zenon DEF Admit
  <2>. QED  BY <2>1
<1>4. ASSUME NEW a \in Asker,
             StoreQuestion(a) \/ StoreAnswer(a) \/ StoreImageRequest(a) \/ CountChunks(a)
      PROVE  CorpusOK'
  BY <1>4, Zenon DEF StoreQuestion, StoreAnswer, StoreImageRequest, CountChunks
<1>5. ASSUME NEW a \in Asker, ReindexChunk(a) \/ ReindexEnds(a) \/ Answer(a) PROVE CorpusOK'
  BY <1>5, Zenon DEF ReindexChunk, ReindexEnds, Answer
<1>6. CASE UNCHANGED askVars
  BY <1>6, Zenon DEF askVars
<1>. QED  BY <1>1, <1>2, <1>3, <1>4, <1>5, <1>6, Zenon DEF AskNext

LEMMA HistoriesNext == HistoriesOK /\ [AskNext]_askVars => HistoriesOK'
<1> SUFFICES ASSUME HistoriesOK, [AskNext]_askVars PROVE HistoriesOK'
  OBVIOUS
<1>. USE AskAssumption DEF HistoriesOK, histories, AskFault, Excuse
<1>1. CASE IndexingGoesOn \/ DelegatedEnds
  BY <1>1 DEF IndexingGoesOn, DelegatedEnds, Empty
<1>2. CASE ChromaLost \/ FilesAdded
  BY <1>2 DEF ChromaLost, FilesAdded, Empty
<1>3. ASSUME NEW a \in Asker,
             Admit(a) \/ StoreQuestion(a) \/ StoreAnswer(a) \/ StoreImageRequest(a)
      PROVE  HistoriesOK'
  BY <1>3 DEF Admit, StoreQuestion, StoreAnswer, StoreImageRequest
<1>4. ASSUME NEW a \in Asker, CountChunks(a) PROVE HistoriesOK'
  BY <1>4 DEF CountChunks
<1>5. ASSUME NEW a \in Asker, ReindexChunk(a) \/ ReindexEnds(a) PROVE HistoriesOK'
  BY <1>5 DEF ReindexChunk, ReindexEnds, Empty
<1>6. ASSUME NEW a \in Asker, Answer(a) PROVE HistoriesOK'
  BY <1>6 DEF Answer
<1>7. CASE UNCHANGED askVars
  BY <1>7 DEF askVars
<1>. QED  BY <1>1, <1>2, <1>3, <1>4, <1>5, <1>6, <1>7 DEF AskNext

\* The variables of the questions keep their types, for any number of them.
THEOREM AskTypes == AskSpec => []AskTypeOK
<1>1. AskInit => CorpusOK /\ HistoriesOK
  <2>1. AskInit => CorpusOK
    BY DEF AskInit, CorpusOK
  <2>2. AskInit => HistoriesOK
    BY AskAssumption DEF AskInit, HistoriesOK
  <2>. QED  BY <2>1, <2>2
<1>2. AskInv /\ NumbersInv /\ CorpusOK /\ HistoriesOK => AskTypeOK
  <2>. SUFFICES ASSUME AskInv, NumbersInv, CorpusOK, HistoriesOK PROVE AskTypeOK
    OBVIOUS
  <2>0. AskTyped /\ messages \in Seq(Message)
    BY DEF NumbersInv, AskTyped
  <2>1. DOMAIN messages = 1 .. Len(messages) /\ Len(messages) \in Nat
    BY <2>0
  <2>2. ASSUME NEW k \in DOMAIN messages
        PROVE  messages[k].asker \in Asker /\ messages[k].role \in {"user", "assistant"}
    <3>1. messages[k] \in Message
      BY <2>0, <2>1
    <3>. QED  BY <3>1 DEF Message
  <2>3. ASSUME NEW a \in Asker
        PROVE  DOMAIN numbers[a] \subseteq Chunk /\ DOMAIN rows[a] \subseteq Chunk
    BY <2>0 DEF AskTyped, Numberings
  <2>4. ASSUME NEW a \in Asker PROVE answersSeen[a] \in SUBSET (DOMAIN messages)
    <3>1. PICK m \in 0 .. Len(messages) : answersSeen[a] = Answers(m)
      BY DEF NumbersInv, HasRead
    <3>. QED  BY <2>1, <3>1 DEF Answers
  <2>5. answersSeen \in [Asker -> SUBSET (DOMAIN messages)]
    BY <2>0, <2>4 DEF AskTyped
  <2>6. reindexed \in [Asker -> SUBSET Chunk]
    BY DEF AskInv
  <2>. QED
    BY <2>0, <2>2, <2>3, <2>5, <2>6, Zenon DEF AskTypeOK, AskTyped, CorpusOK, HistoriesOK
<1>. QED
  BY <1>1, <1>2, CorpusNext, HistoriesNext, NumbersInitInv, NumbersNextInv, AskInitInv,
     AskNextInv, PTL DEF AskSpec

===============================================================================
