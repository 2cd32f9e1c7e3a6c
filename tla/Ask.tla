--------------------------------- MODULE Ask ----------------------------------
(***************************************************************************)
(* Questions about one conversation: POST /ask (backend/src/routes/ask.ts) *)
(* with ensureCollectionIndexed (python/reindex.ts), the retrieval and the *)
(* numbering of citations in answer_with_citations                         *)
(* (python/src/shared/rag.py), and the blocking POST /generate-image       *)
(* (routes/image-gen.ts).  Requests run concurrently, each with the        *)
(* conversation as it was when the request began.                          *)
(*                                                                         *)
(* The indexing of the conversation, modelled elsewhere, is seen as the    *)
(* chunks and the welcome it delivers, and as the rejection that deletes   *)
(* the collection.  The citations of a message are a function from chunks  *)
(* to numbers.  Left out: the contents of prompts and answers, the EXIF    *)
(* and recognition answers, which cite nothing, the user's master wiki and *)
(* conversations that are deleted.                                         *)
(***************************************************************************)
EXTENDS Naturals, Sequences, FiniteSets, FiniteSetsExt, Functions

CONSTANTS
  Asker,          \* requests
  Chunk,          \* chunks of the conversation's files
  MaxAskFaults    \* bound: restarts of Chroma and failed calls

ASSUME AskAssumption == MaxAskFaults \in Nat /\ IsFiniteSet(Chunk) /\ Chunk # {}

VARIABLES
  status,     \* conversations.status: "processing", "ready", "failed"
  welcomed,   \* there is an assistant message
  collection, \* chunks in Chroma
  delegated,  \* a worker has a re-indexing job of the conversation
  messages,   \* questions and answers: [asker, role, cites]
  request,    \* request[a]: where it is
  reindexed,  \* reindexed[a]: chunks its POST /index has added
  wasReady,   \* wasReady[a]: the status it read was "ready"
  numbers,    \* numbers[a]: previous_citations, chunk to number
  rows,       \* rows[a]: the citations of its answer, chunk to number
  answersSeen,\* answersSeen[a]: where in the messages it read the answers are
  excused,    \* history: requests that may find no chunks, see NoBlindAnswer
  blind,      \* history: requests that found none
  askFaults   \* history: failures so far

corpus == <<status, welcomed, collection, delegated>>
snapshot == <<wasReady, numbers, answersSeen>>
histories == <<excused, blind, askFaults>>
askVars == <<corpus, messages, request, reindexed, snapshot, rows, histories>>

RequestState == {"new", "refused", "admitted", "counting", "reindexing",
                 "answering", "answered", "done", "failed"}

AskInit ==
  /\ \/ status = "processing" /\ welcomed = FALSE /\ collection = {}
     \/ status = "ready" /\ welcomed = TRUE /\ collection = Chunk
     \/ status = "failed" /\ welcomed \in BOOLEAN /\ collection = {}
  /\ delegated = FALSE
  /\ messages = <<>>
  /\ request = [a \in Asker |-> "new"]
  /\ reindexed = [a \in Asker |-> {}]
  /\ wasReady = [a \in Asker |-> FALSE]
  /\ numbers = [a \in Asker |-> <<>>]
  /\ rows = [a \in Asker |-> <<>>]
  /\ answersSeen = [a \in Asker |-> {}]
  /\ excused = {} /\ blind = {} /\ askFaults = 0

AskFault == askFaults < MaxAskFaults /\ askFaults' = askFaults + 1
At(a, from, to) == request[a] = from /\ request' = [request EXCEPT ![a] = to]
Excuse(a) == excused' = excused \cup {a}

-------------------------------------------------------------------------------
(* What happens to the conversation meanwhile *)

\* The collection is emptied: requests that have counted, or added chunks, will
\* find nothing.
Empty(who) ==
  /\ collection' = {}
  /\ excused' = excused \cup who \cup
       {b \in Asker : request[b] = "answering" \/ (request[b] = "reindexing" /\ reindexed[b] # {})}

\* POST .../files: another job of a conversation that was settled.
FilesAdded ==
  /\ status # "processing" /\ status' = "processing"
  /\ UNCHANGED <<welcomed, collection, delegated, messages, request, reindexed, snapshot,
                 rows, histories>>

\* Indexing: chunks, the early welcome, the end, with the chunks of the files of
\* this job.  SexualContentError deletes the collection, whoever filled it.
IndexingGoesOn ==
  /\ status = "processing"
  /\ \/ \E c \in Chunk \ collection : collection' = collection \cup {c}
        /\ UNCHANGED <<status, welcomed, excused>>
     \/ ~welcomed /\ welcomed' = TRUE /\ UNCHANGED <<status, collection, excused>>
     \/ /\ status' = "ready" /\ welcomed' = TRUE
        /\ \E chunks \in SUBSET Chunk : collection' = collection \cup chunks
        /\ UNCHANGED excused
     \/ status' = "failed" /\ UNCHANGED <<welcomed, collection, excused>>
     \/ status' = "failed" /\ Empty({}) /\ UNCHANGED welcomed
  /\ UNCHANGED <<delegated, messages, request, reindexed, snapshot, rows, blind, askFaults>>

\* The container with Chroma restarts.
ChromaLost ==
  /\ collection # {} /\ AskFault
  /\ Empty({})
  /\ UNCHANGED <<status, welcomed, delegated, messages, request, reindexed, snapshot, rows, blind>>

\* The worker ends the job that POST /index delegated to it, with all chunks, an
\* error or a rejection, and the status follows.
DelegatedEnds ==
  /\ delegated /\ delegated' = FALSE
  /\ \/ status' = "ready" /\ welcomed' = TRUE /\ collection' = Chunk /\ UNCHANGED excused
     \/ status' = "failed" /\ UNCHANGED <<welcomed, collection, excused>>
     \/ status' = "failed" /\ Empty({}) /\ UNCHANGED welcomed
  /\ UNCHANGED <<messages, request, reindexed, snapshot, rows, blind, askFaults>>

-------------------------------------------------------------------------------
(* POST /ask *)

\* The answers among the first n messages, and their messages that cite a chunk.
Answers(n) == {k \in 1 .. n : messages[k].role = "assistant"}
Citing(c, n) == {k \in 1 .. n : c \in DOMAIN messages[k].cites}

\* previousCitations: a chunk has the number of the first message citing it.
PreviousCitations(n) ==
  [c \in UNION {DOMAIN messages[k].cites : k \in 1 .. n} |->
     messages[Min(Citing(c, n))].cites[c]]

\* The role and the conversation are read; a role other than owner or editor,
\* and a conversation that is not ready and has no welcome, are refused.
Admit(a) ==
  /\ request[a] = "new"
  /\ \/ At(a, "new", "refused") /\ UNCHANGED snapshot
     \/ /\ status = "ready" \/ welcomed
        /\ At(a, "new", "admitted")
        /\ wasReady' = [wasReady EXCEPT ![a] = status = "ready"]
        /\ numbers' = [numbers EXCEPT ![a] = PreviousCitations(Len(messages))]
        /\ answersSeen' = [answersSeen EXCEPT ![a] = Answers(Len(messages))]
  /\ UNCHANGED <<corpus, messages, reindexed, rows, histories>>

Say(a, role, cites) ==
  messages' = Append(messages, [asker |-> a, role |-> role, cites |-> cites])

\* The question is stored before it is answered.  The collection is looked at
\* only when the conversation was ready.
StoreQuestion(a) ==
  /\ IF wasReady[a]
     THEN At(a, "admitted", "counting") /\ UNCHANGED excused
     ELSE At(a, "admitted", "answering") /\ Excuse(a)
  /\ Say(a, "user", <<>>)
  /\ UNCHANGED <<corpus, reindexed, snapshot, rows, blind, askFaults>>

\* ensureCollectionIndexed up to the request to index: any chunk is enough.
\* Without files, or when the count is refused, it returns as well; when the
\* count raises the request ends with the question stored.
CountChunks(a) ==
  /\ \/ collection # {} /\ At(a, "counting", "answering") /\ UNCHANGED <<excused, askFaults>>
     \/ collection = {} /\ At(a, "counting", "reindexing") /\ UNCHANGED <<excused, askFaults>>
     \/ At(a, "counting", "answering") /\ Excuse(a) /\ AskFault
     \/ At(a, "counting", "failed") /\ AskFault /\ UNCHANGED excused
  /\ UNCHANGED <<corpus, messages, reindexed, snapshot, rows, blind>>

\* POST /index of the Python server, which other requests may be running too:
\* it adds chunks, those there are already left as they are ...
ReindexChunk(a) ==
  /\ request[a] = "reindexing"
  /\ \E c \in Chunk \ reindexed[a] :
       /\ reindexed' = [reindexed EXCEPT ![a] = @ \cup {c}]
       /\ collection' = collection \cup {c}
  /\ UNCHANGED <<status, welcomed, delegated, messages, request, snapshot, rows, histories>>

\* Mutant: POST /index is sent and not awaited.
ReindexUnawaited(a) ==
  /\ At(a, "reindexing", "answering")
  /\ UNCHANGED <<corpus, messages, reindexed, snapshot, rows, histories>>

\* ... until it has added all, or it is delegated to a worker for want of CPUs,
\* or the files are rejected this time and the collection deleted, or it is
\* refused; a call that raises ends the request.
ReindexEnds(a) ==
  /\ \/ /\ reindexed[a] = Chunk /\ At(a, "reindexing", "answering")
        /\ UNCHANGED <<collection, delegated, excused, askFaults>>
     \/ /\ At(a, "reindexing", "answering")
        /\ delegated' = TRUE /\ Excuse(a) /\ UNCHANGED <<collection, askFaults>>
     \/ /\ At(a, "reindexing", "answering")
        /\ Empty({a}) /\ UNCHANGED <<delegated, askFaults>>
     \/ /\ At(a, "reindexing", "answering")
        /\ Excuse(a) /\ AskFault /\ UNCHANGED <<collection, delegated>>
     \/ /\ At(a, "reindexing", "failed")
        /\ AskFault /\ UNCHANGED <<collection, delegated, excused>>
  /\ reindexed' = [reindexed EXCEPT ![a] = {}]
  /\ UNCHANGED <<status, welcomed, messages, snapshot, rows, blind>>

\* The position of a chunk among the cited ones that have no number yet.
NewPosition(c, cited, known) ==
  LET at == CHOOSE k \in DOMAIN cited : cited[k] = c
  IN  Cardinality({k \in 1 .. at : cited[k] \notin DOMAIN known})

\* Mutant: new chunks are numbered from one in every answer.
NumberFromOne(cited, known) ==
  [c \in Range(cited) |->
     IF c \in DOMAIN known THEN known[c] ELSE NewPosition(c, cited, known)]

\* _renumber_citations_globally: chunks in the order the answer cites them
\* first; known ones keep their number, new ones count on from the highest.
Renumber(cited, known) ==
  LET highest == Max({0} \cup Range(known))
  IN  [c \in Range(cited) |->
         IF c \in DOMAIN known THEN known[c] ELSE highest + NewPosition(c, cited, known)]

Citable(cs) == {s \in UNION {[1 .. n -> cs] : n \in 0 .. Cardinality(cs)} :
                  \A i, j \in DOMAIN s : i # j => s[i] # s[j]}

\* POST /answer: any of the chunks found may be cited, none need be.  The
\* citations are renumbered after the model has answered, from the snapshot.
Answer(a) ==
  /\ \/ /\ At(a, "answering", "answered")
        /\ \E cited \in Citable(collection) :
             rows' = [rows EXCEPT ![a] = Renumber(cited, numbers[a])]
        /\ blind' = IF collection = {} THEN blind \cup {a} ELSE blind
        /\ UNCHANGED askFaults
     \/ At(a, "answering", "failed") /\ AskFault /\ UNCHANGED <<rows, blind>>
  /\ UNCHANGED <<corpus, messages, reindexed, snapshot, excused>>

StoreAnswer(a) ==
  /\ At(a, "answered", "done")
  /\ Say(a, "assistant", rows[a])
  /\ UNCHANGED <<corpus, reindexed, snapshot, rows, histories>>

\* POST /generate-image: neither the status nor the collection matters, and
\* the image's sources are not numbered with the citations.
StoreImageRequest(a) ==
  /\ At(a, "new", "answered")
  /\ Say(a, "user", <<>>)
  /\ UNCHANGED <<corpus, reindexed, snapshot, rows, histories>>

AskNext ==
  \/ FilesAdded \/ IndexingGoesOn \/ ChromaLost \/ DelegatedEnds
  \/ \E a \in Asker :
       \/ Admit(a) \/ StoreQuestion(a) \/ CountChunks(a)
       \/ ReindexChunk(a) \/ ReindexEnds(a) \/ Answer(a) \/ StoreAnswer(a)
       \/ StoreImageRequest(a)

AskSpec == AskInit /\ [][AskNext]_askVars

-------------------------------------------------------------------------------
(* Properties *)

AskTypeOK ==
  /\ status \in {"processing", "ready", "failed"} /\ welcomed \in BOOLEAN
  /\ collection \subseteq Chunk /\ delegated \in BOOLEAN
  /\ \A k \in DOMAIN messages :
       messages[k].asker \in Asker /\ messages[k].role \in {"user", "assistant"}
  /\ request \in [Asker -> RequestState] /\ reindexed \in [Asker -> SUBSET Chunk]
  /\ wasReady \in [Asker -> BOOLEAN] /\ answersSeen \in [Asker -> SUBSET (DOMAIN messages)]
  /\ \A a \in Asker : DOMAIN numbers[a] \subseteq Chunk /\ DOMAIN rows[a] \subseteq Chunk
  /\ excused \subseteq Asker /\ blind \subseteq Asker /\ askFaults \in 0 .. MaxAskFaults

\* "globally consistent across messages: same source keeps its number": as
\* long as no answer was given between a question's reading the conversation
\* and its own answer, a chunk has one number and a number one chunk in the
\* whole conversation.
NumbersAgree ==
  LET cites(k) == messages[k].cites
      answers == Answers(Len(messages))
  IN  (\A k \in answers :
         DOMAIN cites(k) # {} => answersSeen[messages[k].asker] = Answers(k - 1))
      => \A i, j \in answers : \A c \in DOMAIN cites(i), d \in DOMAIN cites(j) :
           (c = d) <=> (cites(i)[c] = cites(j)[d])

\* ensureCollectionIndexed: a question about a ready conversation is answered
\* without a chunk only when the collection could not be counted or indexed,
\* the job was delegated, or the collection was emptied after the request had
\* counted or added its chunks: by a restart of Chroma, or by a rejection, also
\* that of another request's re-index or of a job for added files.
NoBlindAnswer == blind \subseteq excused

===============================================================================
