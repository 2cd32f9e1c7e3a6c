------------------------------ MODULE PageWorker ------------------------------
(***************************************************************************)
(* One PDF in local mode: process_pdf_parallel of                          *)
(* python/src/shared/page_worker.py.  Threads of a pool process the pages  *)
(* (process_pdf_page) and claim images by xref in a set they share         *)
(* (claim_xref_if_drawn_on_page of extractors.py); the main thread         *)
(* collects the results, hands the first texts to on_early_text and        *)
(* retries failed pages once, on its own.                                  *)
(*                                                                         *)
(* A page lists every image of the document, as PDFs whose pages inherit   *)
(* one resource dictionary do.  Texts and chunks are the pages they come   *)
(* from; telemetry rows and the size filter are left out.                  *)
(***************************************************************************)
EXTENDS Naturals, FiniteSets

CONSTANTS
  Leaf,            \* pages
  Xref,            \* images
  PageWorkers,     \* PDF_PAGE_WORKERS
  EarlyTarget,     \* early_text_target_pages
  MaxPageFaults    \* bound: failed calls and failed extractions

ASSUME PageAssumption ==
  /\ PageWorkers \in Nat \ {0} /\ EarlyTarget \in Nat /\ MaxPageFaults \in Nat

VARIABLES
  drawn,     \* drawn[l]: images page l draws
  thread,    \* thread[l]: where the call process_pdf_page(l) is
  left,      \* left[l]: listed images the call has still to look at
  looked,    \* looked[l]: images that passed the test without the lock
  seen,      \* seen_xrefs
  images,    \* images[l]: images the call extracted
  result,    \* page_results[l]: "none", "ok", "error"
  kept,      \* kept[l]: images of page_results[l]
  early,     \* pages in early_text; {} until on_early_text is called
  texts,     \* early_page_texts
  main,      \* "collect", "retry", "aggregate", "done"
  retried,   \* pages retried so far
  blamed,    \* history: images claimed by a call that failed or could not
             \* extract them
  pageFaults \* history: failures so far

Collecting == <<result, kept, early, texts, main, retried>>
Faults == <<blamed, pageFaults>>
pageVars == <<drawn, thread, left, looked, seen, images, Collecting, Faults>>

ThreadState == {"queued", "text", "images", "ok", "error", "collected"}
InPage(l) == thread[l] \in {"text", "images"}

PageInit ==
  /\ drawn \in [Leaf -> SUBSET Xref]
  /\ thread = [l \in Leaf |-> "queued"]
  /\ left = [l \in Leaf |-> {}] /\ looked = [l \in Leaf |-> {}]
  /\ seen = {} /\ blamed = {} /\ pageFaults = 0
  /\ images = [l \in Leaf |-> {}]
  /\ result = [l \in Leaf |-> "none"]
  /\ kept = [l \in Leaf |-> {}]
  /\ early = {} /\ texts = {}
  /\ main = "collect" /\ retried = {}

\* A failure after which the images xs, claimed, are in nobody's result.
PageFault(xs) ==
  /\ pageFaults < MaxPageFaults
  /\ pageFaults' = pageFaults + 1
  /\ blamed' = blamed \cup xs

-------------------------------------------------------------------------------
(* process_pdf_page *)

\* A thread of the pool takes the page, or the main thread retries it.
BeginPage(l) ==
  /\ thread[l] = "queued"
  /\ main = "collect" => Cardinality({m \in Leaf : InPage(m)}) < PageWorkers
  /\ thread' = [thread EXCEPT ![l] = "text"]
  /\ images' = [images EXCEPT ![l] = {}]
  /\ UNCHANGED <<drawn, left, looked, seen, Faults, Collecting>>

\* Steps 1 and 1b: the text, by OCR when it is sparse; a failure of OCR is
\* swallowed.  Then the listed images are gone through.
ExtractPageText(l) ==
  /\ thread[l] = "text"
  /\ thread' = [thread EXCEPT ![l] = "images"]
  /\ left' = [left EXCEPT ![l] = Xref]
  /\ UNCHANGED <<drawn, looked, seen, images, Faults, Collecting>>

\* Mutant: the image is claimed before it is known to be drawn here.
LookAndClaim(l, x) ==
  /\ thread[l] = "images" /\ x \in left[l] /\ looked[l] = {}
  /\ left' = [left EXCEPT ![l] = @ \ {x}]
  /\ looked' = [looked EXCEPT ![l] = IF x \notin seen /\ x \in drawn[l] THEN {x} ELSE {}]
  /\ seen' = IF x \in drawn[l] THEN seen ELSE seen \cup {x}
  /\ UNCHANGED <<drawn, thread, images, Faults, Collecting>>

\* The test without the lock, then get_image_rects: not drawn here, or drawn.
\* When get_image_rects raises the image is taken as drawn.
LookAtImage(l, x) ==
  /\ thread[l] = "images" /\ x \in left[l] /\ looked[l] = {}
  /\ left' = [left EXCEPT ![l] = @ \ {x}]
  /\ looked' = [looked EXCEPT ![l] = IF x \notin seen /\ x \in drawn[l] THEN {x} ELSE {}]
  /\ UNCHANGED <<drawn, thread, seen, images, Faults, Collecting>>

\* Mutant: the set is not looked at again once the lock is held.
ClaimUnchecked(l, x) ==
  /\ thread[l] = "images" /\ x \in looked[l]
  /\ looked' = [looked EXCEPT ![l] = {}]
  /\ seen' = seen \cup {x}
  /\ images' = [images EXCEPT ![l] = @ \cup {x}]
  /\ UNCHANGED <<drawn, thread, left, Faults, Collecting>>

\* The test and the claim under the lock, then the extraction, which skips the
\* image when extract_image raises.
ClaimImage(l, x) ==
  /\ thread[l] = "images" /\ x \in looked[l]
  /\ looked' = [looked EXCEPT ![l] = {}]
  /\ seen' = seen \cup {x}
  /\ \/ /\ images' = [images EXCEPT ![l] = IF x \in seen THEN @ ELSE @ \cup {x}]
        /\ UNCHANGED Faults
     \/ x \notin seen /\ PageFault({x}) /\ UNCHANGED images
  /\ UNCHANGED <<drawn, thread, left, Collecting>>

\* Steps 3 to 5: images are described, an image that cannot be gets a plain
\* caption; the text is chunked.
PageEnds(l) ==
  /\ thread[l] = "images" /\ left[l] = {} /\ looked[l] = {}
  /\ thread' = [thread EXCEPT ![l] = "ok"]
  /\ UNCHANGED <<drawn, left, looked, seen, images, Faults, Collecting>>

\* Any step raises: the error is recorded and the images stay claimed.
PageFails(l) ==
  /\ InPage(l) /\ PageFault(images[l])
  /\ thread' = [thread EXCEPT ![l] = "error"]
  /\ left' = [left EXCEPT ![l] = {}] /\ looked' = [looked EXCEPT ![l] = {}]
  /\ UNCHANGED <<drawn, seen, images, Collecting>>

-------------------------------------------------------------------------------
(* process_pdf_parallel *)

Ended(l) == thread[l] \in {"ok", "error"}
\* early_target: all pages, when there are fewer than the target.
Enough(n) == n > 0 /\ (n >= EarlyTarget \/ n = Cardinality(Leaf))

\* as_completed: the result is stored and its text kept for the snapshot,
\* which is taken once there are enough texts or the time is up.
Collect(l) ==
  /\ main = "collect" /\ Ended(l)
  /\ thread' = [thread EXCEPT ![l] = "collected"]
  /\ result' = [result EXCEPT ![l] = thread[l]]
  /\ kept' = [kept EXCEPT ![l] = IF thread[l] = "ok" THEN images[l] ELSE {}]
  /\ \E withText \in {thread[l] = "ok", TRUE} :
       texts' = IF early = {} /\ withText THEN texts \cup {l} ELSE texts
  /\ \/ /\ early = {} /\ texts' # {}
        /\ early' = texts'
     \/ /\ early # {} \/ ~Enough(Cardinality(texts'))
        /\ UNCHANGED early
  /\ UNCHANGED <<drawn, left, looked, seen, images, main, retried, Faults>>

\* The pool has ended; without a snapshot so far all texts are handed over.
CollectEnds ==
  /\ main = "collect" /\ \A l \in Leaf : thread[l] = "collected"
  /\ early' = IF early = {} THEN texts ELSE early
  /\ main' = "retry"
  /\ UNCHANGED <<drawn, thread, left, looked, seen, images, result, kept, texts,
                 retried, Faults>>

\* Phase 2: failed pages one after the other, with the same seen_xrefs.
RetryPage(l) ==
  /\ main = "retry" /\ result[l] = "error" /\ l \notin retried
  /\ \A m \in Leaf : thread[m] = "collected"
  /\ thread' = [thread EXCEPT ![l] = "queued"]
  /\ retried' = retried \cup {l}
  /\ UNCHANGED <<drawn, left, looked, seen, images, result, kept, early, texts,
                 main, Faults>>

\* A retry that fails again leaves the first result.
Retried(l) ==
  /\ main = "retry" /\ Ended(l)
  /\ thread' = [thread EXCEPT ![l] = "collected"]
  /\ IF thread[l] = "ok"
     THEN /\ result' = [result EXCEPT ![l] = "ok"]
          /\ kept' = [kept EXCEPT ![l] = images[l]]
     ELSE UNCHANGED <<result, kept>>
  /\ UNCHANGED <<drawn, left, looked, seen, images, early, texts, main, retried, Faults>>

Aggregate ==
  /\ main = "retry"
  /\ \A l \in Leaf : thread[l] = "collected" /\ (result[l] = "error" => l \in retried)
  /\ main' = "done"
  /\ UNCHANGED <<drawn, thread, left, looked, seen, images, result, kept, early,
                 texts, retried, Faults>>

PageNext ==
  \/ \E l \in Leaf :
       \/ BeginPage(l) \/ ExtractPageText(l) \/ PageEnds(l) \/ PageFails(l)
       \/ \E x \in Xref : LookAtImage(l, x) \/ ClaimImage(l, x)
       \/ Collect(l) \/ RetryPage(l) \/ Retried(l)
  \/ CollectEnds \/ Aggregate

PageSpec == PageInit /\ [][PageNext]_pageVars

-------------------------------------------------------------------------------
(* Properties *)

PageTypeOK ==
  /\ drawn \in [Leaf -> SUBSET Xref]
  /\ thread \in [Leaf -> ThreadState]
  /\ left \in [Leaf -> SUBSET Xref] /\ looked \in [Leaf -> SUBSET Xref]
  /\ seen \subseteq Xref
  /\ images \in [Leaf -> SUBSET Xref]
  /\ result \in [Leaf -> {"none", "ok", "error"}]
  /\ kept \in [Leaf -> SUBSET Xref]
  /\ early \subseteq Leaf /\ texts \subseteq Leaf /\ retried \subseteq Leaf
  /\ main \in {"collect", "retry", "done"}
  /\ blamed \subseteq Xref /\ pageFaults \in 0 .. MaxPageFaults

\* claim_xref_if_drawn_on_page: the lockless test costs "an occasional extra
\* get_image_rects call, never a duplicate claim": an image is in the result
\* of one page at most, and of one that draws it, retries included.
ImageHasOneHome ==
  \A l \in Leaf :
    /\ kept[l] \subseteq drawn[l]
    /\ \A m \in Leaf \ {l} : kept[l] \cap kept[m] = {}

\* An image the document draws is missing from the result only when a call
\* that had claimed it failed, or all its pages are reported as errors: a page
\* that skips an image because it is claimed elsewhere loses it to no other
\* cause.
MissingImageIsBlamed ==
  main = "done" =>
    \A l \in Leaf : \A x \in drawn[l] \ blamed :
      result[l] = "error" \/ \E m \in Leaf : x \in kept[m]

===============================================================================
