------------------------------ MODULE Retrieval -------------------------------
(***************************************************************************)
(* upsert_chunks of python/src/shared/vector_store.py: what puts the       *)
(* chunks of a page or a document into Chroma.  All texts are embedded     *)
(* first, in batches that fit a token budget, on several threads that      *)
(* write into one list; then the chunks are added in batches of another    *)
(* size.  A failed request raises and nothing is retried.                  *)
(*                                                                         *)
(* A text is the number of tokens it is estimated at; a vector is named by *)
(* the position of the text it is the embedding of.                        *)
(***************************************************************************)
EXTENDS Integers, Sequences, FiniteSets

CONSTANTS
  Tokens,          \* estimated tokens a text may have
  MaxTexts,        \* bound: texts in one call
  EmbedMaxTokens,  \* EMBED_MAX_TOKENS_PER_BATCH
  EmbedBatchSize,  \* EMBED_BATCH_SIZE
  AddBatchSize     \* CHROMA_BATCH_SIZE

ASSUME RetrievalAssumption ==
  /\ Tokens \subseteq Nat \ {0} /\ MaxTexts \in Nat
  /\ EmbedMaxTokens \in Nat \ {0} /\ EmbedBatchSize \in Nat \ {0}
  /\ AddBatchSize \in Nat \ {0}

VARIABLES
  sizes,    \* tokens of the texts of this call, in order
  vectors,  \* all_vectors: vectors[k] names a text, 0 for None
  embedded, \* embedding requests that have ended
  added,    \* chunks Chroma holds: sequence of [chunk, vector]
  upsert    \* "embed", "add", "ok", "raised"

retrievalVars == <<sizes, vectors, embedded, added, upsert>>

RetrievalInit ==
  /\ sizes \in UNION {[1 .. n -> Tokens] : n \in 0 .. MaxTexts}
  /\ vectors = [k \in 1 .. Len(sizes) |-> 0]
  /\ embedded = {}
  /\ added = <<>>
  /\ upsert = IF sizes = <<>> THEN "ok" ELSE "embed"

-------------------------------------------------------------------------------
\* Does the k-th text, of n tokens, close the open batch, which starts at the
\* text open.from?  It never closes an empty one.
Full(open, k, n) ==
  /\ open.from < k
  /\ open.tokens + n > EmbedMaxTokens \/ k - open.from >= EmbedBatchSize

Put(open, k, n) ==
  IF Full(open, k, n) THEN [batch |-> open.batch + 1, from |-> k, tokens |-> n]
  ELSE [open EXCEPT !.tokens = @ + n]

\* _build_token_aware_batches: the batch that is open after each text of s.
Batched(s) ==
  LET open[k \in 0 .. Len(s)] ==
        IF k = 0 THEN [batch |-> 1, from |-> 1, tokens |-> 0]
        ELSE Put(open[k - 1], k, s[k])
  IN  open

Batches(s) == {Batched(s)[k].batch : k \in DOMAIN s}
TextsOf(s, b) == {k \in DOMAIN s : Batched(s)[k].batch = b}

\* Mutant: batches are taken to have EMBED_BATCH_SIZE texts each.
StartByCount(s, b) == (b - 1) * EmbedBatchSize

\* start_idx, where the answer for batch b is written.
Start(s, b) == (CHOOSE o \in {Batched(s)[k] : k \in DOMAIN s} : o.batch = b).from - 1

\* The place that the vector of text t, sorted by its index in the answer, is
\* written to.
Place(s, b, t) == Start(s, b) + 1 + Cardinality({k \in TextsOf(s, b) : k < t})

\* _embed_batch, on a thread of the pool.
EmbedBatch(b) ==
  /\ upsert = "embed" /\ b \in Batches(sizes) \ embedded
  /\ embedded' = embedded \cup {b}
  /\ vectors' = [k \in DOMAIN sizes |->
       IF \E t \in TextsOf(sizes, b) : Place(sizes, b, t) = k
       THEN CHOOSE t \in TextsOf(sizes, b) : Place(sizes, b, t) = k ELSE vectors[k]]
  /\ UNCHANGED <<sizes, added, upsert>>

\* A request fails: embed_texts raises when it asks for the result.
EmbedFails ==
  /\ upsert = "embed" /\ embedded # Batches(sizes)
  /\ upsert' = "raised"
  /\ UNCHANGED <<sizes, vectors, embedded, added>>

EmbedEnds ==
  /\ upsert = "embed" /\ embedded = Batches(sizes)
  /\ upsert' = "add"
  /\ UNCHANGED <<sizes, vectors, embedded, added>>

\* collection.add of the next slice, or its failure: what was added stays.
AddBatch ==
  /\ upsert = "add"
  /\ LET end == IF Len(added) + AddBatchSize < Len(sizes)
                THEN Len(added) + AddBatchSize ELSE Len(sizes) IN
       \/ /\ added' = [k \in 1 .. end |->
               IF k \in DOMAIN added THEN added[k]
               ELSE [chunk |-> k, vector |-> vectors[k]]]
          /\ upsert' = IF end = Len(sizes) THEN "ok" ELSE "add"
       \/ upsert' = "raised" /\ UNCHANGED added
  /\ UNCHANGED <<sizes, vectors, embedded>>

RetrievalNext ==
  (\E b \in 1 .. MaxTexts : EmbedBatch(b)) \/ EmbedFails \/ EmbedEnds \/ AddBatch

RetrievalSpec == RetrievalInit /\ [][RetrievalNext]_retrievalVars

-------------------------------------------------------------------------------
(* Properties *)

RetrievalTypeOK ==
  /\ \A k \in DOMAIN sizes : sizes[k] \in Tokens
  /\ DOMAIN vectors = DOMAIN sizes /\ \A k \in DOMAIN sizes : vectors[k] \in 0 .. MaxTexts
  /\ embedded \subseteq 1 .. MaxTexts
  /\ added \in Seq([chunk : 1 .. MaxTexts, vector : 0 .. MaxTexts])
  /\ upsert \in {"embed", "add", "ok", "raised"}

\* embed_texts: whatever the requests' order of ending, a chunk in Chroma has
\* the vector of its own text, and a call that ends leaves none out.
OwnVectors ==
  /\ \A k \in DOMAIN added : added[k] = [chunk |-> k, vector |-> k]
  /\ upsert = "ok" => Len(added) = Len(sizes)
===============================================================================
