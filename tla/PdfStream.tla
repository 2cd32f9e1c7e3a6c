------------------------------ MODULE PdfStream -------------------------------
(***************************************************************************)
(* One PDF in cloud mode: process_pdf_streaming                            *)
(* (python/src/shared/streaming_pdf.py) with the callback _on_page_ready   *)
(* of index_documents, over the deliveries of its job.  The main thread    *)
(* scans the pages, queues sparse ones for OCR and then drains the OCR     *)
(* jobs in the order they end; every page goes to the table pdf_pages      *)
(* (row) and to Chroma (stored), each of which may fail.                   *)
(*                                                                         *)
(* A page's text is abstracted to where it came from: the text layer, the  *)
(* same in every run, or the OCR call of one delivery, since the model that *)
(* reads the page image words it anew each time.  Chapters and the early   *)
(* welcome are left out.                                                   *)
(***************************************************************************)
EXTENDS Naturals, FiniteSets

CONSTANTS
  LastPage,    \* pages are numbered from 1
  MaxJobs,     \* bound: deliveries of the job
  MaxPdfFaults \* bound: failures

ASSUME PdfAssumption ==
  LastPage \in Nat \ {0} /\ MaxJobs \in Nat \ {0} /\ MaxPdfFaults \in Nat

Page == 1 .. LastPage

\* What the text layer holds: nothing readable (doc[page_idx] raises), no
\* characters, too few of them (or a caption beside a large image), enough.
Layer == {"broken", "blank", "sparse", "full"}

\* What a page's text can be: `from` "header" is the "# Page N" line alone,
\* which every page that can be opened has; an OCR text has the delivery it is of.
TextFrom(from) == [from |-> from, run |-> 0]
OcrText(d) == [from |-> "ocr", run |-> d]
NoText == TextFrom("none")
Text == {TextFrom(from) : from \in {"none", "header", "native"}}
          \cup {OcrText(d) : d \in 1 .. MaxJobs}

NativeText(kind) ==
  TextFrom(CASE kind = "broken" -> "none" [] kind = "blank" -> "header" [] OTHER -> "native")

\* split_into_chunks strips the header and drops what is empty then.
Chunked(text) == IF text.from = "header" THEN NoText ELSE text

VARIABLES
  layer,      \* layer[p]: the text layer of the file
  deliveries, \* runs of the job so far
  phase,      \* "scan", "drain", "save", "index", "done", "failed"
  next,       \* the page the scan is at
  ocrJob,     \* ocrJob[p]: "idle", "queued", "ocr", "empty", "raised"
  pending,    \* futures as_completed has not yielded yet
  current,    \* the outcome being emitted: [page, text, source]
  emitted,    \* emitted[p]: outcomes appended to result.pages
  failedPages,\* the pages of result.errors
  counted,    \* pages whose chunks are in local_chunks
  row,        \* row[p]: text in pdf_pages
  stored,     \* stored[p]: the texts the page's chunks in Chroma are cut from
  pdfFaults   \* history: failures so far

pdfRun == <<phase, next, ocrJob, pending, current, emitted, failedPages, counted>>
pdfVars == <<layer, deliveries, pdfRun, row, stored, pdfFaults>>

NoOutcome == [page |-> 1, text |-> NoText, source |-> "raw"]

FreshRun ==
  /\ phase = "scan"
  /\ next = 1
  /\ ocrJob = [p \in Page |-> "idle"]
  /\ pending = {}
  /\ current = NoOutcome
  /\ emitted = [p \in Page |-> 0]
  /\ failedPages = {}
  /\ counted = {}

PdfInit ==
  /\ layer \in [Page -> Layer]
  /\ deliveries = 1
  /\ FreshRun
  /\ row = [p \in Page |-> NoText]
  /\ stored = [p \in Page |-> {}]
  /\ pdfFaults = 0

MayFail == pdfFaults < MaxPdfFaults
Fault == MayFail /\ pdfFaults' = pdfFaults + 1
NoFault == UNCHANGED pdfFaults

-------------------------------------------------------------------------------
\* _emit appends the outcome and counts it, then calls on_page_ready.
Emit(p, text, source) ==
  /\ current' = [page |-> p, text |-> text, source |-> source]
  /\ emitted' = [emitted EXCEPT ![p] = @ + 1]
  /\ failedPages' = IF source = "failed" THEN failedPages \cup {p} ELSE failedPages
  /\ phase' = "save"

Queue(p) ==
  /\ ocrJob' = [ocrJob EXCEPT ![p] = "queued"]
  /\ pending' = pending \cup {p}

\* Mutant: no continue after a page was emitted from its text layer.
ScanBoth(p) ==
  /\ phase = "scan" /\ next = p
  /\ IF layer[p] = "full" THEN Emit(p, TextFrom("native"), "raw")
     ELSE UNCHANGED <<current, emitted, failedPages, phase>>
  /\ Queue(p)
  /\ next' = next + 1
  /\ UNCHANGED <<layer, deliveries, counted, row, stored, pdfFaults>>

\* Phase 1: a page with enough text is emitted at once, the others queued.
Scan(p) ==
  /\ phase = "scan" /\ next = p
  /\ IF layer[p] = "full"
     THEN Emit(p, TextFrom("native"), "raw") /\ UNCHANGED <<ocrJob, pending>>
     ELSE Queue(p) /\ UNCHANGED <<current, emitted, failedPages, phase>>
  /\ next' = next + 1
  /\ UNCHANGED <<layer, deliveries, counted, row, stored, pdfFaults>>

\* _page_has_significant_images is outside the try: what it raises ends the
\* run, once the OCR jobs already queued have ended in vain.
ScanAborts(p) ==
  /\ phase = "scan" /\ next = p /\ layer[p] \in {"sparse", "full"}
  /\ Fault
  /\ phase' = "failed"
  /\ UNCHANGED <<layer, deliveries, next, ocrJob, pending, current, emitted,
                 failedPages, counted, row, stored>>

ScanEnds ==
  /\ phase = "scan" /\ next > LastPage
  /\ phase' = "drain"
  /\ UNCHANGED <<layer, deliveries, next, ocrJob, pending, current, emitted,
                 failedPages, counted, row, stored, pdfFaults>>

\* ocr_pdf_page on a thread of the pool: text, no text, or an exception.
OcrEnds(p) ==
  /\ ocrJob[p] = "queued" /\ phase # "failed"
  /\ \E r \in {"ocr", "empty", "raised"} :
       /\ ocrJob' = [ocrJob EXCEPT ![p] = r]
       /\ IF r = "ocr" THEN NoFault ELSE Fault
  /\ UNCHANGED <<layer, deliveries, phase, next, pending, current, emitted,
                 failedPages, counted, row, stored>>

\* _ocr_page_job: without OCR text the native text, when it has characters,
\* is what the page keeps; the header counts as such, so a blank page whose OCR
\* failed is no error.
OcrOutcome(p) ==
  IF ocrJob[p] = "ocr" THEN [text |-> OcrText(deliveries), source |-> "ocr"]
  ELSE IF NativeText(layer[p]) # NoText
       THEN [text |-> NativeText(layer[p]), source |-> "raw"]
       ELSE [text |-> NoText, source |-> "failed"]

\* Phase 2: as_completed.
Drain(p) ==
  /\ phase = "drain"
  /\ ocrJob[p] \in {"ocr", "empty", "raised"} /\ p \in pending
  /\ pending' = pending \ {p}
  /\ Emit(p, OcrOutcome(p).text, OcrOutcome(p).source)
  /\ UNCHANGED <<layer, deliveries, next, ocrJob, counted, row, stored, pdfFaults>>

\* The callback is over: back to the scan, or to the drain.
Return == phase' = IF next > LastPage THEN "drain" ELSE "scan"

\* save_page overwrites the row of an earlier run.  A failed statement is
\* logged; a pool without a connection raises out of the callback, which
\* _emit swallows, so that the chunks are skipped as well.
Save ==
  /\ phase = "save"
  /\ LET p == current.page IN
       \/ /\ \/ row' = [row EXCEPT ![p] = current.text] /\ NoFault
             \/ UNCHANGED row /\ Fault
          /\ IF current.source = "failed" \/ current.text = NoText
             THEN Return ELSE phase' = "index"
       \/ UNCHANGED row /\ Fault /\ Return
  /\ UNCHANGED <<layer, deliveries, next, ocrJob, pending, current, emitted,
                 failedPages, counted, stored>>

\* Mutant: chunk ids without the page number: pages take each other's.
AddedColliding(p, text) ==
  IF \E q \in Page : stored[q] # {} THEN {stored[p]} ELSE {{text}}

\* upsert_chunks calls collection.add, which leaves ids it knows alone, and the
\* ids count a page's chunks from 0: of a text that comes second only the chunks
\* past the end of the first are stored, if it is the longer one.
Added(p, text) ==
  IF stored[p] = {} THEN {{text}} ELSE {stored[p], stored[p] \cup {text}}

\* The page's chunks are counted as upserted whether the upsert failed or not.
Index ==
  /\ phase = "index"
  /\ LET p == current.page
         text == Chunked(current.text) IN
       IF text = NoText THEN UNCHANGED <<stored, counted, pdfFaults>>
       ELSE /\ \/ /\ \E texts \in Added(p, text) : stored' = [stored EXCEPT ![p] = texts]
                  /\ NoFault
               \/ UNCHANGED stored /\ Fault
            /\ counted' = counted \cup {p}
  /\ Return
  /\ UNCHANGED <<layer, deliveries, next, ocrJob, pending, current, emitted,
                 failedPages, row>>

\* All OCR jobs drained: errors are the failed outcomes.
Finished ==
  /\ phase = "drain"
  /\ pending = {}
  /\ phase' = "done"
  /\ UNCHANGED <<layer, deliveries, next, ocrJob, pending, current, emitted,
                 failedPages, counted, row, stored, pdfFaults>>

\* The process dies, or the run failed and its message is delivered again;
\* also, it had ended but was not acknowledged.  Nothing reads pdf_pages: the
\* new run starts from the first page.
Redeliver ==
  /\ deliveries < MaxJobs
  /\ deliveries' = deliveries + 1
  /\ phase' = "scan" /\ next' = 1
  /\ ocrJob' = [p \in Page |-> "idle"] /\ pending' = {}
  /\ current' = NoOutcome
  /\ emitted' = [p \in Page |-> 0]
  /\ failedPages' = {} /\ counted' = {}
  /\ UNCHANGED <<layer, row, stored, pdfFaults>>

PdfNext ==
  \/ \E p \in Page : Scan(p) \/ ScanAborts(p) \/ OcrEnds(p) \/ Drain(p)
  \/ ScanEnds \/ Save \/ Index \/ Finished \/ Redeliver

PdfSpec == PdfInit /\ [][PdfNext]_pdfVars

-------------------------------------------------------------------------------
(* Properties *)

PdfTypeOK ==
  /\ layer \in [Page -> Layer]
  /\ deliveries \in 1 .. MaxJobs
  /\ phase \in {"scan", "drain", "save", "index", "done", "failed"}
  /\ next \in 1 .. LastPage + 1
  /\ ocrJob \in [Page -> {"idle", "queued", "ocr", "empty", "raised"}]
  /\ current \in [page : Page, text : Text, source : {"raw", "ocr", "failed"}]
  /\ pending \subseteq Page
  /\ emitted \in [Page -> 0 .. 1]
  /\ failedPages \subseteq Page
  /\ counted \subseteq Page
  /\ row \in [Page -> Text]
  /\ stored \in [Page -> SUBSET Text]
  /\ pdfFaults \in 0 .. MaxPdfFaults

\* process_pdf_streaming: on_page_ready is "called exactly once per page",
\* whatever order the OCR jobs end in: a run that is done has an outcome for
\* every page, and an error for exactly the pages the scan could not open and
\* OCR gave no text for.  (A blank page without OCR text is emitted with its
\* header for a text, and is no error.)
EveryPageOnce ==
  phase = "done" =>
    /\ \A p \in Page : emitted[p] = 1
    /\ failedPages = {p \in Page : layer[p] = "broken" /\ ocrJob[p] # "ocr"}

\* The chunks of p are not those of its row.
Disagrees(p) ==
  stored[p] # (IF Chunked(row[p]) = NoText THEN {} ELSE {Chunked(row[p])})

\* A later delivery read the page again: the row has its text, and the chunks,
\* or the first of them, are still those of an earlier delivery's.
Reread(p) ==
  row[p].from = "ocr" /\ \E text \in stored[p] : text.from = "ocr" /\ text.run < row[p].run

\* The table and the collection are two stores written one after the other, one
\* overwritten and one not by a later run.  A failed call costs one page at most,
\* over any number of runs, and a crash none, as the next run takes every page
\* again; what else they disagree on is pages OCR read again.
FaultCostsOnePage ==
  phase = "done" =>
    Cardinality({p \in Page : Disagrees(p) /\ ~Reread(p)}) <= pdfFaults
===============================================================================
