------------------------------ MODULE Answering -------------------------------
(***************************************************************************)
(* One question inside the Python server: POST /answer (python/src/        *)
(* server.py) and answer_with_citations (python/src/shared/rag.py) with    *)
(* the retrieval of shared/vector_store.py, the recognition of             *)
(* shared/metadata.py and shared/image_search.py, and the call of the      *)
(* model in shared/llm_instrument.py.  Ask models the requests around it.  *)
(*                                                                         *)
(* Texts are seen by what is chosen and how long it is: a chunk is its     *)
(* place in the index, a tag its number.  Distances and cosines are scaled *)
(* so that a distance of 2.0 is HalfTurn.  What is not looked at before a  *)
(* step is chosen in that step.  Left out: the budget of the prompt as a   *)
(* whole, which PromptBudget models, and the record of the calls.          *)
(***************************************************************************)
EXTENDS Integers, Sequences, FiniteSets, SequencesExt, FiniteSetsExt

CONSTANTS
  Distance,            \* (squared) L2 distances a chunk may have
  Cosine,              \* cosines, where the distance does not give them
  HalfTurn,            \* the distance at which l2_sim is 0
  MaxDistance,         \* max_distance, per words of the question
  TopK,                \* top_k
  FetchMultiplier,     \* HYBRID_FETCH_MULTIPLIER
  MaxImageCitations,   \* _MAX_IMAGE_CITATIONS
  MaxStored,           \* bound: chunks in the index
  Pages,               \* bound: pages of the file
  HistoryTokens,       \* _MAX_CHAT_HISTORY_TOKENS
  SeparatorTokens,     \* tokens of _HISTORY_SEP
  MessageTokens,       \* tokens a message may have
  MaxMessages,         \* bound: messages in the history
  MaxTags              \* bound: source tags in the model's answer

ASSUME AnsweringAssumption ==
  /\ Distance \cup Cosine \cup MaxDistance \cup MessageTokens \subseteq Nat
  /\ {TopK, FetchMultiplier, MaxStored, Pages, MaxMessages, MaxTags} \subseteq Nat \ {0}
  /\ {HalfTurn, MaxImageCitations, HistoryTokens, SeparatorTokens} \subseteq Nat

VARIABLES
  answering,   \* where the request is: "received", "retrieving", "limiting",
               \* "composing", "remembering", "calling", "numbering",
               \* "answered", "failed"
  limit,       \* max_distance
  index,       \* the chunks of the collection, nearest first
  unit,        \* the embeddings are unit vectors
  found,       \* rows: places in the index of the retrieved chunks
  prompt,      \* [style, pages, chapter, kept, omitted]: what is put in it
  reply        \* [tags, cites]: the numbers in the answer, and its citations
               \* as pairs of a chunk and its number

answeringVars == <<answering, limit, index, unit, found, prompt, reply>>

NoPrompt == [style |-> "answer", pages |-> {}, chapter |-> 0, kept |-> 0, omitted |-> 0]
NoReply == [tags |-> {}, cites |-> {}]

AnsweringInit ==
  /\ answering = "received" /\ limit \in MaxDistance /\ unit \in BOOLEAN
  /\ index = <<>> /\ found = <<>> /\ prompt = NoPrompt /\ reply = NoReply

Goes(from, to) == answering = from /\ answering' = to

-------------------------------------------------------------------------------
(* Answers without retrieval *)

\* "show exif": the metadata of the images of the conversation, if it has any.
AnswerExif ==
  /\ Goes("received", "answered")
  /\ UNCHANGED <<limit, index, unit, found, prompt, reply>>

\* reverse_image_search: nothing without credentials, file or library, when the
\* call fails or when nothing is detected.
WebDetection == {"none", "results"}

\* identify_from_web_results: the model is asked when there is anything to go by,
\* and may be unsure, answer no JSON or fail.
Identified(web, exif, described) ==
  IF web = "none" /\ ~exif /\ ~described THEN {FALSE} ELSE BOOLEAN

\* enrich_metadata_web: either is enough.
Enriched(web, named) == web # "none" \/ named

\* "recognize": without an enriched image it is an ordinary question.
AnswerRecognized ==
  /\ \E web \in WebDetection, exif, described \in BOOLEAN :
       \E named \in Identified(web, exif, described) :
         Goes("received", IF Enriched(web, named) THEN "answered" ELSE "retrieving")
  /\ UNCHANGED <<limit, index, unit, found, prompt, reply>>

OrdinaryQuestion ==
  /\ Goes("received", "retrieving")
  /\ UNCHANGED <<limit, index, unit, found, prompt, reply>>

-------------------------------------------------------------------------------
(* query_chunks *)

Nearest(chunks, n) == 1 .. Min({n, Len(chunks)})
Within(chunks, places) == {k \in places : chunks[k].distance <= limit}

\* Places sorted by falling score; the sort is stable.
Ranked(places, score) ==
  LET ahead(k, l) == score[k] > score[l] \/ (score[k] = score[l] /\ k < l)
  IN  CHOOSE s \in [1 .. Cardinality(places) -> places] :
        \A i, j \in DOMAIN s : i < j => ahead(s[i], s[j])

\* The order of the places, which is that of the index.
InOrder(places) == Ranked(places, [k \in places |-> 0])

\* _query_chunks_l2
L2Rows(chunks) == InOrder(Within(chunks, Nearest(chunks, TopK)))

\* Mutant: sorted without reverse=True.
WorstScore(chunk) == chunk.distance - HalfTurn - chunk.cosine

\* hybrid_score, of equal weights.
HybridScore(chunk) == HalfTurn - chunk.distance + chunk.cosine

\* _query_chunks_hybrid
HybridRows(chunks) ==
  LET places == Within(chunks, Nearest(chunks, TopK * FetchMultiplier))
      candidates == Ranked(places, [k \in places |-> HybridScore(chunks[k])])
  IN  SubSeq(candidates, 1, Min({TopK, Cardinality(places)}))

\* The collection: the cosine of two unit vectors is given by their distance.
Collections ==
  LET cosines(d) == IF unit THEN {HalfTurn - d} ELSE Cosine
      nearer(s) == \A k, l \in DOMAIN s : k < l => s[k].distance <= s[l].distance
  IN  {s \in BoundedSeq(UNION {[distance : {d}, cosine : cosines(d)] : d \in Distance}, MaxStored) :
         nearer(s)}

\* The path is chosen by HYBRID_RETRIEVAL_ENABLED.
Retrieve ==
  /\ Goes("retrieving", "limiting")
  /\ index' \in Collections
  /\ found' \in {L2Rows(index'), HybridRows(index')}
  /\ UNCHANGED <<limit, unit, prompt, reply>>

\* _limit_image_rows: rows beyond the first images are dropped, none is added.
LimitImages ==
  /\ Goes("limiting", "composing")
  /\ \E images \in SUBSET ToSet(found) :
       LET upTo(i) == {j \in 1 .. i : found[j] \in images}
           stays(i) == found[i] \in images => Cardinality(upTo(i)) <= MaxImageCitations
           order == InOrder({i \in DOMAIN found : stays(i)})
       IN  found' = [k \in DOMAIN order |-> found[order[k]]]
  /\ index' = <<>>
  /\ UNCHANGED <<limit, unit, prompt, reply>>

-------------------------------------------------------------------------------
(* The prompt *)

\* The first of the styles that the question matches.
Style(matched) ==
  LET order == <<"quiz", "key_facts", "professor", "answer">>
  IN  order[Min({k \in DOMAIN order : order[k] \in matched \cup {"answer"}})]

\* _extract_matched_pages and the scores of a chapter in _extract_chapter_context
\* after each row: every row that is in it adds 1 / rank.  Sixty divides by six
\* ranks.
MatchedPages(page) == {page[k] : k \in DOMAIN page} \ {0}
Scores(chapter, c) ==
  LET score[k \in 0 .. Len(chapter)] ==
        IF k = 0 THEN 0 ELSE score[k - 1] + (IF chapter[k] = c THEN 60 \div k ELSE 0)
  IN  score
Score(chapter, c) == Scores(chapter, c)[Len(chapter)]

\* The best chapter, the one met first of several; none without chapters.
BestChapter(chapter) ==
  LET ranked == {k \in DOMAIN chapter : chapter[k] # 0}
      best == {k \in ranked : \A l \in ranked :
                 Score(chapter, chapter[l]) <= Score(chapter, chapter[k])}
  IN  IF ranked = {} THEN 0 ELSE chapter[Min(best)]

\* A row has a page or none; its chapter, where chapters were detected, is found
\* in the chapters file, or else left out.  A quiz is given the whole text and
\* the page summaries instead, and neither file need exist.
Compose ==
  /\ answering = "composing" /\ prompt = NoPrompt
  /\ \E page, chapter \in [DOMAIN found -> 0 .. Pages], files \in BOOLEAN,
        matched \in SUBSET {"quiz", "key_facts", "professor"} :
       prompt' = [NoPrompt EXCEPT
         !.style = Style(matched),
         !.pages = IF Style(matched) = "quiz" THEN {} ELSE IF files THEN MatchedPages(page) ELSE {},
         !.chapter = IF Style(matched) = "quiz" \/ ~files THEN 0 ELSE BestChapter(chapter)]
  /\ Goes("composing", "remembering")
  /\ UNCHANGED <<limit, index, unit, found, reply>>

\* _format_chat_history: all messages when they fit, and otherwise the newest
\* that do, each counted with a separator: one too long hides all before it.
Remember ==
  /\ Goes("remembering", "calling")
  /\ \E lengths \in BoundedSeq(MessageTokens, MaxMessages) :
       LET n == Len(lengths)
           tokensOf(m) == MapThenSumSet(LAMBDA k : lengths[k] + SeparatorTokens, n - m + 1 .. n)
           fits == {0} \cup {m \in 1 .. n : tokensOf(m) <= HistoryTokens}
           newest == IF n = 0 \/ tokensOf(n) - SeparatorTokens <= HistoryTokens THEN n
                     ELSE Max(fits)
       IN  prompt' = [prompt EXCEPT !.kept = newest, !.omitted = n - newest]
  /\ UNCHANGED <<limit, index, unit, found, reply>>

\* get_llm and traced_llm_call; a failed call is recorded and raised again.
CallModel ==
  /\ \/ Goes("calling", "numbering")
     \/ Goes("calling", "failed")
  /\ prompt' = NoPrompt
  /\ UNCHANGED <<limit, index, unit, found, reply>>

\* get_llm: there is no key for the model, or the prompt cannot be built.
NoModel ==
  /\ Goes("composing", "failed")
  /\ UNCHANGED <<limit, index, unit, found, prompt, reply>>

\* The collection or the embedding of the question raises: an answer of 500.
RaiseEarly ==
  /\ Goes("retrieving", "failed")
  /\ UNCHANGED <<limit, index, unit, found, prompt, reply>>

-------------------------------------------------------------------------------
(* _renumber_citations_globally *)

\* Tags of several numbers are seen as several tags, and one of numbers and
\* letters, which no pattern matches, as text.  The sources cited are
\* collected before _normalize_source_tags takes letters off: a source cited
\* only with a letter is not among them.
PlainTags(tags, s) == {k \in DOMAIN tags : tags[k].source = s /\ ~tags[k].lettered}
CitedSources(tags) == {s \in DOMAIN found : PlainTags(tags, s) # {}}

\* A known chunk keeps its number, the new ones get the next numbers in the
\* order they are cited first.
GlobalNumbers(tags, known) ==
  LET highest == Max({0} \cup Range(known))
      new == {s \in CitedSources(tags) : found[s] \notin DOMAIN known}
      first(s) == Min(PlainTags(tags, s))
  IN  [s \in CitedSources(tags) |->
         IF s \notin new THEN known[found[s]]
         ELSE highest + Cardinality({t \in new : first(t) <= first(s)})]

\* Mutant: a tag without a source stays as it is.
ReplaceOrKeep(tags, number) ==
  {IF tags[k].source \in DOMAIN number THEN number[tags[k].source]
   ELSE tags[k].source : k \in DOMAIN tags}

\* Then letters are off, and a tag without a number is taken out.
ReplaceTags(tags, number) ==
  {number[s] : s \in {tags[k].source : k \in DOMAIN tags} \cap DOMAIN number}

\* previous_citations: some chunks have numbers.
Number ==
  /\ Goes("numbering", "answered")
  /\ \E tags \in BoundedSeq([source : 0 .. TopK + 1, lettered : BOOLEAN], MaxTags),
        before \in SUBSET (1 .. MaxStored), gap \in {0, 1} :
       LET known == [c \in before |-> Cardinality(before \cap (1 .. c)) + gap]
           number == GlobalNumbers(tags, known)
       IN  reply' = [tags |-> ReplaceTags(tags, number),
                     cites |-> {<<found[s], number[s]>> : s \in DOMAIN number}]
  /\ UNCHANGED <<limit, index, unit, found, prompt>>

AnsweringNext ==
  \/ AnswerExif \/ AnswerRecognized \/ OrdinaryQuestion
  \/ Retrieve \/ LimitImages \/ Compose \/ Remember \/ NoModel \/ CallModel
  \/ RaiseEarly \/ Number

AnsweringSpec == AnsweringInit /\ [][AnsweringNext]_answeringVars

-------------------------------------------------------------------------------
(* Properties *)

AnsweringTypeOK ==
  /\ answering \in {"received", "retrieving", "limiting", "composing", "remembering",
                    "calling", "numbering", "answered", "failed"}
  /\ limit \in MaxDistance /\ unit \in BOOLEAN /\ Len(index) <= MaxStored
  /\ Len(found) <= TopK /\ ToSet(found) \subseteq 1 .. MaxStored
  /\ prompt.style \in {"quiz", "key_facts", "professor", "answer"}
  /\ prompt.pages \subseteq 1 .. Pages /\ prompt.chapter \in 0 .. Pages
  /\ {prompt.kept, prompt.omitted} \subseteq 0 .. MaxMessages
  /\ reply.tags \subseteq Nat

\* "For perfectly unit-normalised vectors (as returned by OpenAI) the two
\* metrics are equivalent": there, enabling the hybrid path, with its wider
\* fetch, its later cut and its other order, changes no row of any question.
RerankIsIdle == answering = "limiting" /\ unit => found = L2Rows(index)

\* The frontend looks a tag up by its number: whatever the model cites, a
\* source it was not given, one with a letter or one cited before, every number
\* left in the answer is that of one citation, and every citation has a tag.
TagsResolve ==
  /\ reply.tags = {c[2] : c \in reply.cites}
  /\ \A c, d \in reply.cites : c[2] = d[2] => c = d

===============================================================================
