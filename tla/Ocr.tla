--------------------------------- MODULE Ocr ----------------------------------
(***************************************************************************)
(* Text out of scanned pages: ocr_pdf_page of                              *)
(* python/src/shared/extractors.py, which asks a local program for the     *)
(* whole document once and the vision model for what it does not give.     *)
(*                                                                         *)
(* A scanned page is asked for twice: by the prefetch for the welcome      *)
(* (indexing.py) and by the pipeline.  One lock of the process guards the  *)
(* results of the program, for all documents.  Texts are seen by where     *)
(* they come from.                                                         *)
(***************************************************************************)
EXTENDS Integers

CONSTANTS
  Scanned,         \* scanned documents
  ScannedPages,    \* pages of one
  PrefetchPages,   \* _OCR_PREFETCH_PAGES, 0 for all
  MaxOcrFailures   \* bound: failed runs of the program

ASSUME OcrAssumption == ScannedPages \in Nat \ {0} /\ {PrefetchPages, MaxOcrFailures} \subseteq Nat

\* pages_to_ocr
Prefetched == IF PrefetchPages \in 1 .. ScannedPages THEN PrefetchPages ELSE ScannedPages

\* A call of ocr_pdf_page: the prefetch is not made for a single page.
OcrCall ==
  {c \in [by : {"prefetch", "pipeline"}, file : Scanned, page : 1 .. ScannedPages] :
     c.by = "prefetch" => ScannedPages >= 2 /\ c.page <= Prefetched}
NotRun == [text |-> {}, count |-> -1]

VARIABLES
  localOcr,     \* LOCAL_PDF_OCR_ENABLED
  ocrAt,        \* ocrAt[c]: "new", "lock", "local", "read", "vision", "done"
  ocrText,      \* ocrText[c]: "none", "local", "vision" or "nothing"
  ocrPages,     \* ocrPages[c]: the pages _get_local_ocr_pages returned
  ocrCache,     \* _LOCAL_OCR_CACHE: per file NotRun, or how many pages the
                \* program wrote and those with text
  cacheLock,    \* calls in the body of "with _LOCAL_OCR_CACHE_LOCK"
  ocrWelcome,   \* per file what the prefetch describes: "none" yet, "minimal",
                \* "partial" or "whole"
  ocrRuns,      \* history: runs of the program that succeeded, per file
  ocrFailures   \* history: runs that did not, or wrote no page

ocrVars == <<localOcr, ocrAt, ocrText, ocrPages, ocrCache, cacheLock, ocrWelcome, ocrRuns, ocrFailures>>

OcrInit ==
  /\ localOcr \in BOOLEAN
  /\ ocrAt = [c \in OcrCall |-> "new"]
  /\ ocrText = [c \in OcrCall |-> "none"]
  /\ ocrPages = [c \in OcrCall |-> NotRun]
  /\ ocrCache = [f \in Scanned |-> NotRun]
  /\ cacheLock = {} /\ ocrWelcome = [f \in Scanned |-> "none"]
  /\ ocrRuns = [f \in Scanned |-> 0] /\ ocrFailures = 0

-------------------------------------------------------------------------------
(* ocr_pdf_page *)

Moved(c, from, to) == ocrAt[c] = from /\ ocrAt' = [ocrAt EXCEPT ![c] = to]

\* Without the local program the vision model is asked at once.
AskOcr(c) ==
  /\ Moved(c, "new", IF localOcr THEN "lock" ELSE "vision")
  /\ UNCHANGED <<localOcr, ocrText, ocrPages, ocrCache, cacheLock, ocrWelcome, ocrRuns, ocrFailures>>

\* Mutant: the cache is looked at before the lock is taken.
LookUnlocked(c) ==
  /\ IF ocrCache[c.file] # NotRun
     THEN /\ Moved(c, "lock", "read")
          /\ ocrPages' = [ocrPages EXCEPT ![c] = ocrCache[c.file]]
          /\ UNCHANGED cacheLock
     ELSE /\ Moved(c, "lock", "local")
          /\ cacheLock' = cacheLock \cup {c} /\ UNCHANGED ocrPages
  /\ UNCHANGED <<localOcr, ocrText, ocrCache, ocrWelcome, ocrRuns, ocrFailures>>

\* _get_local_ocr_pages: the lock is taken and the cache looked at; without an
\* entry the program is run, the lock held meanwhile.
LookLocked(c) ==
  /\ cacheLock = {}
  /\ IF ocrCache[c.file] # NotRun
     THEN /\ Moved(c, "lock", "read")
          /\ ocrPages' = [ocrPages EXCEPT ![c] = ocrCache[c.file]]
          /\ UNCHANGED cacheLock
     ELSE /\ Moved(c, "lock", "local")
          /\ cacheLock' = {c} /\ UNCHANGED ocrPages
  /\ UNCHANGED <<localOcr, ocrText, ocrCache, ocrWelcome, ocrRuns, ocrFailures>>

\* _run_local_pdf_ocr: it writes a document that is read page by page.
LocalOcrWrites(c) ==
  /\ Moved(c, "local", "read")
  /\ \E count \in 1 .. ScannedPages : \E withText \in SUBSET (1 .. count) :
       LET output == [text |-> withText, count |-> count]
       IN  /\ ocrCache' = [ocrCache EXCEPT ![c.file] = output]
           /\ ocrPages' = [ocrPages EXCEPT ![c] = output]
  /\ cacheLock' = cacheLock \ {c}
  /\ ocrRuns' = [ocrRuns EXCEPT ![c.file] = @ + 1]
  /\ UNCHANGED <<localOcr, ocrText, ocrWelcome, ocrFailures>>

\* It is not installed, times out, exits with an error, writes nothing or
\* something unreadable or empty: that is not cached.
LocalOcrFails(c) ==
  /\ ocrFailures < MaxOcrFailures /\ ocrFailures' = ocrFailures + 1
  /\ Moved(c, "local", "vision")
  /\ cacheLock' = cacheLock \ {c}
  /\ UNCHANGED <<localOcr, ocrText, ocrPages, ocrCache, ocrWelcome, ocrRuns>>

\* The page is there and has text, or the vision model is asked.
ReadLocalPage(c) ==
  /\ IF c.page <= ocrPages[c].count /\ c.page \in ocrPages[c].text
     THEN Moved(c, "read", "done") /\ ocrText' = [ocrText EXCEPT ![c] = "local"]
     ELSE Moved(c, "read", "vision") /\ UNCHANGED ocrText
  /\ UNCHANGED <<localOcr, ocrPages, ocrCache, cacheLock, ocrWelcome, ocrRuns, ocrFailures>>

\* The rendered page goes to the vision model, which finds a text or none; the
\* rendering or the call may raise, which the callers treat like no text.
VisionOcr(c) ==
  /\ Moved(c, "vision", "done")
  /\ \E t \in {"vision", "nothing"} : ocrText' = [ocrText EXCEPT ![c] = t]
  /\ UNCHANGED <<localOcr, ocrPages, ocrCache, cacheLock, ocrWelcome, ocrRuns, ocrFailures>>

\* The end of _ocr_prefetch_welcome: the texts of all its pages are described,
\* as unfinished when there is hardly any text or some pages were not asked for.
PrefetchEnds(f) ==
  LET calls == {c \in OcrCall : c.by = "prefetch" /\ c.file = f}
      silent == \A c \in calls : ocrText[c] = "nothing"
      told == IF Prefetched < ScannedPages THEN "partial" ELSE "whole"
  IN  /\ calls # {} /\ \A c \in calls : ocrAt[c] = "done"
      /\ ocrWelcome[f] = "none"
      /\ \E w \in IF silent THEN {"minimal"} ELSE {"minimal", told} :
           ocrWelcome' = [ocrWelcome EXCEPT ![f] = w]
      /\ UNCHANGED <<localOcr, ocrAt, ocrText, ocrPages, ocrCache, cacheLock, ocrRuns, ocrFailures>>

OcrNext ==
  \/ \E f \in Scanned : PrefetchEnds(f)
  \/ \E c \in OcrCall :
       \/ AskOcr(c) \/ LookLocked(c) \/ LocalOcrWrites(c) \/ LocalOcrFails(c)
       \/ ReadLocalPage(c) \/ VisionOcr(c)

OcrSpec == OcrInit /\ [][OcrNext]_ocrVars

-------------------------------------------------------------------------------
(* Properties *)

OcrTypeOK ==
  /\ localOcr \in BOOLEAN
  /\ ocrAt \in [OcrCall -> {"new", "lock", "local", "read", "vision", "done"}]
  /\ ocrText \in [OcrCall -> {"none", "local", "vision", "nothing"}]
  /\ \A f \in Scanned : ocrCache[f].count \in -1 .. ScannedPages
  /\ \A c \in OcrCall : ocrPages[c] \in {NotRun, ocrCache[c.file]}
  /\ cacheLock \subseteq OcrCall
  /\ ocrWelcome \in [Scanned -> {"none", "minimal", "partial", "whole"}]
  /\ ocrRuns \in [Scanned -> Nat] /\ ocrFailures \in 0 .. MaxOcrFailures

\* "so page-level OCR fallback does not re-run full-document OCR repeatedly
\* when many pages need OCR": however many calls of the prefetch and of the
\* pipeline wait for it, the program writes a document once.
OcrRunsOnce == \A f \in Scanned : ocrRuns[f] <= 1

===============================================================================
