---------------------------- MODULE PipelineProofs ----------------------------
(***************************************************************************)
(* For documents of any length with any number of images, failures and     *)
(* deliveries: the promises of the two PDF pipelines, of the OCR cache and of *)
(* the sampling of animations.  The four modules have no variable in common; *)
(* each has its inductive invariant here.                                  *)
(***************************************************************************)
EXTENDS PageWorker, PdfStream, Ocr, StandaloneFile, NumberFacts

-------------------------------------------------------------------------------
(* PageWorker: an image is with the one call that claimed it until its page *)
(* is retried, and a page is retried only after a call that failed.         *)

\* Images extracted are claimed, drawn on their page and with one call.
Claims ==
  /\ \A l \in Leaf :
       /\ looked[l] \subseteq drawn[l]
       /\ \A x, y \in looked[l] : x = y
       /\ images[l] \subseteq drawn[l] \cap seen
  /\ \A l, m \in Leaf : l # m => images[l] \cap images[m] = {}

\* A claimed image is with a call, or was with one that lost it; what a call
\* that did not get to its end claimed is lost.
Losses ==
  /\ \A x \in seen : x \in blamed \/ \E l \in Leaf : x \in images[l]
  /\ \A l \in Leaf :
       thread[l] \in {"queued", "error"} \/ (thread[l] = "collected" /\ result[l] # "ok")
         => images[l] \subseteq blamed

\* What a page has gone past is claimed, by this call or by another.
GonePast ==
  \A l \in Leaf :
    /\ thread[l] = "images" => drawn[l] \subseteq left[l] \cup looked[l] \cup seen
    /\ thread[l] = "ok" \/ result[l] = "ok" => drawn[l] \subseteq seen

\* A page's result is the images of the call that ended well.
Results ==
  \A l \in Leaf :
    /\ kept[l] = IF result[l] = "ok" THEN images[l] ELSE {}
    /\ result[l] = "ok" => thread[l] = "collected"
    /\ thread[l] = "collected" \/ main # "collect" => result[l] # "none"
    /\ main = "done" => thread[l] = "collected"

PageInv == PageTypeOK /\ Claims /\ Losses /\ GonePast /\ Results

LEMMA PageInitInv == PageInit => PageInv
  BY PageAssumption DEF PageInit, PageInv, PageTypeOK, ThreadState, Claims, Losses, GonePast, Results

LEMMA PageNextInv == PageInv /\ [PageNext]_pageVars => PageInv'
<1> SUFFICES ASSUME PageInv, [PageNext]_pageVars PROVE PageInv'
  OBVIOUS
<1>. USE PageAssumption DEF PageInv, PageTypeOK, ThreadState, InPage, Faults, Collecting
<1>1. ASSUME NEW l \in Leaf, BeginPage(l) PROVE PageInv'
  <2>1. PageTypeOK'
    BY <1>1 DEF BeginPage
  \* What the failed call had claimed is lost already.
  <2>2. Claims' /\ Losses'
    <3>1. images[l] \subseteq blamed
      BY <1>1 DEF BeginPage, Losses
    <3>. QED  BY <1>1, <3>1 DEF BeginPage, Claims, Losses
  <2>3. GonePast' /\ Results'
    BY <1>1 DEF BeginPage, GonePast, Results
  <2>. QED  BY <2>1, <2>2, <2>3
<1>2. ASSUME NEW l \in Leaf, ExtractPageText(l) PROVE PageInv'
  BY <1>2 DEF ExtractPageText, Claims, Losses, GonePast, Results
<1>3. ASSUME NEW l \in Leaf, NEW x \in Xref, LookAtImage(l, x) PROVE PageInv'
  BY <1>3 DEF LookAtImage, Claims, Losses, GonePast, Results
<1>4. ASSUME NEW l \in Leaf, NEW x \in Xref, ClaimImage(l, x) PROVE PageInv'
  <2>1. looked[l] = {x} /\ x \in drawn[l] /\ result[l] # "ok"
    BY <1>4 DEF ClaimImage, Claims, Results
  <2>2. CASE /\ images' = [images EXCEPT ![l] = IF x \in seen THEN @ ELSE @ \cup {x}]
             /\ UNCHANGED Faults
    BY <1>4, <2>1, <2>2 DEF ClaimImage, Claims, Losses, GonePast, Results
  <2>3. CASE x \notin seen /\ PageFault({x}) /\ UNCHANGED images
    BY <1>4, <2>1, <2>3 DEF ClaimImage, PageFault, Claims, Losses, GonePast, Results
  <2>. QED  BY <1>4, <2>2, <2>3 DEF ClaimImage
<1>5. ASSUME NEW l \in Leaf, PageEnds(l) PROVE PageInv'
  BY <1>5 DEF PageEnds, Claims, Losses, GonePast, Results
<1>6. ASSUME NEW l \in Leaf, PageFails(l) PROVE PageInv'
  BY <1>6 DEF PageFails, PageFault, Claims, Losses, GonePast, Results
<1>7. ASSUME NEW l \in Leaf, Collect(l) PROVE PageInv'
  <2>1. texts' \subseteq Leaf /\ early' \subseteq Leaf
    BY <1>7 DEF Collect
  <2>2. /\ thread[l] \in {"ok", "error"}
        /\ thread' = [thread EXCEPT ![l] = "collected"]
        /\ result' = [result EXCEPT ![l] = thread[l]]
        /\ kept' = [kept EXCEPT ![l] = IF thread[l] = "ok" THEN images[l] ELSE {}]
        /\ UNCHANGED <<drawn, left, looked, seen, images, main, retried, Faults>>
    BY <1>7 DEF Collect, Ended
  <2>3. PageTypeOK'
    BY <2>1, <2>2
  <2>4. Claims' /\ GonePast'
    BY <2>2 DEF Claims, GonePast
  <2>5. Losses' /\ Results'
    BY <2>2 DEF Losses, Results
  <2>. QED  BY <2>3, <2>4, <2>5
<1>8. ASSUME NEW l \in Leaf, RetryPage(l) PROVE PageInv'
  BY <1>8 DEF RetryPage, Claims, Losses, GonePast, Results
<1>9. ASSUME NEW l \in Leaf, Retried(l) PROVE PageInv'
  <2>1. /\ main = "retry" /\ thread[l] \in {"ok", "error"}
        /\ thread' = [thread EXCEPT ![l] = "collected"]
        /\ UNCHANGED <<drawn, left, looked, seen, images, early, texts, main, retried, Faults>>
    BY <1>9 DEF Retried, Ended
  <2>2. CASE thread[l] = "ok"
    <3>1. /\ result' = [result EXCEPT ![l] = "ok"]
          /\ kept' = [kept EXCEPT ![l] = images[l]]
      BY <1>9, <2>2 DEF Retried
    <3>2. PageTypeOK'
      BY <2>1, <3>1
    <3>3. Claims' /\ GonePast'
      BY <2>1, <2>2, <3>1 DEF Claims, GonePast
    <3>4. Losses' /\ Results'
      BY <2>1, <2>2, <3>1 DEF Losses, Results
    <3>. QED  BY <3>2, <3>3, <3>4
  <2>3. CASE thread[l] = "error"
    <3>1. UNCHANGED <<result, kept>>
      BY <1>9, <2>3 DEF Retried
    <3>2. result[l] = "error" /\ images[l] \subseteq blamed
      BY <2>1, <2>3 DEF Losses, Results
    <3>3. PageTypeOK' /\ Claims' /\ GonePast'
      BY <2>1, <2>3, <3>1, <3>2 DEF Claims, GonePast
    <3>4. Losses' /\ Results'
      BY <2>1, <2>3, <3>1, <3>2 DEF Losses, Results
    <3>. QED  BY <3>3, <3>4
  <2>. QED  BY <2>1, <2>2, <2>3
<1>10. CASE CollectEnds
  BY <1>10 DEF CollectEnds, Claims, Losses, GonePast, Results
<1>11. CASE Aggregate
  BY <1>11 DEF Aggregate, Claims, Losses, GonePast, Results
<1>12. CASE UNCHANGED pageVars
  BY <1>12 DEF pageVars, Claims, Losses, GonePast, Results
<1>. QED  BY <1>1, <1>2, <1>3, <1>4, <1>5, <1>6, <1>7, <1>8, <1>9, <1>10, <1>11, <1>12 DEF PageNext

\* However many pages look at an image before one of them holds the lock: it
\* is in the result of one page, which draws it.
THEOREM OneClaimPerImage == PageSpec => []ImageHasOneHome
<1>1. PageInv => ImageHasOneHome
  BY DEF PageInv, Claims, Results, ImageHasOneHome
<1>. QED  BY <1>1, PageInitInv, PageNextInv, PTL DEF PageSpec

\* A page that leaves an image to another call loses it only with that call.
THEOREM OnlyFaultsLoseImages == PageSpec => []MissingImageIsBlamed
<1>1. PageInv => MissingImageIsBlamed
  <2> SUFFICES ASSUME PageInv, main = "done", NEW l \in Leaf, NEW x \in drawn[l] \ blamed,
                      result[l] # "error"
               PROVE  \E m \in Leaf : x \in kept[m]
    BY DEF MissingImageIsBlamed
  <2>1. x \in seen
    BY DEF PageInv, PageTypeOK, GonePast, Results
  <2>2. PICK m \in Leaf : x \in images[m]
    BY <2>1 DEF PageInv, Losses
  <2>3. result[m] = "ok"
    BY <2>2 DEF PageInv, Losses, Results
  <2>. QED  BY <2>2, <2>3 DEF PageInv, Results
<1>. QED  BY <1>1, PageInitInv, PageNextInv, PTL DEF PageSpec

-------------------------------------------------------------------------------
(* PdfStream: a page is ahead of the scan, with the OCR pool, or emitted.    *)

\* Emitted: exactly the pages behind the scan that OCR does not hold.
OnceSoFar ==
  \A p \in Page :
    /\ p >= next => p \notin pending /\ emitted[p] = 0 /\ ocrJob[p] = "idle"
    /\ p < next => emitted[p] = (IF p \in pending THEN 0 ELSE 1)
    /\ ocrJob[p] = "queued" => p \in pending
    /\ p \in pending => ocrJob[p] # "idle"

ErrorsSoFar ==
  failedPages = {p \in Page : emitted[p] = 1 /\ layer[p] = "broken" /\ ocrJob[p] # "ocr"}

PhaseIsDue ==
  /\ phase \in {"drain", "done"} => next = LastPage + 1
  /\ phase = "done" => pending = {}

\* What a page that no fault has touched says: in this delivery, and in one of
\* the deliveries so far.
Wanted(p) == IF layer[p] = "full" THEN TextFrom("native") ELSE OcrText(deliveries)
WantedSoFar(p) ==
  IF layer[p] = "full" THEN {TextFrom("native")} ELSE {OcrText(d) : d \in 1 .. deliveries}

InFlight(p) == phase \in {"save", "index"} /\ current.page = p

\* Both stores hold what they should of page p, or nothing yet; once p is
\* emitted, the table holds what this delivery read.
Clean(p) ==
  /\ ocrJob[p] \in {"idle", "queued", "ocr"}
  /\ layer[p] = "full" => ocrJob[p] = "idle"
  /\ ocrJob[p] = "idle" /\ p < next => layer[p] = "full"
  /\ row[p] \in {NoText} \cup WantedSoFar(p) /\ stored[p] \subseteq WantedSoFar(p)
  /\ InFlight(p) =>
       /\ current.text = Wanted(p) /\ current.source # "failed"
       /\ emitted[p] = 1
       /\ phase = "index" => row[p] = Wanted(p)
  /\ emitted[p] = 1 /\ ~InFlight(p) => row[p] = Wanted(p) /\ stored[p] # {}

\* Every page that is not clean has a fault to itself.
FaultsPay ==
  \E C \in SUBSET Page :
    Cardinality(C) <= pdfFaults /\ \A p \in Page \ C : Clean(p)

PdfInv == PdfTypeOK /\ OnceSoFar /\ ErrorsSoFar /\ PhaseIsDue /\ FaultsPay

LEMMA PdfInitInv == PdfInit => PdfInv
<1> SUFFICES ASSUME PdfInit PROVE PdfInv
  OBVIOUS
<1>. USE PdfAssumption DEF PdfInit, FreshRun, Page
<1>1. PdfTypeOK
  BY DEF PdfTypeOK, NoOutcome, Text, NoText
<1>2. OnceSoFar /\ ErrorsSoFar /\ PhaseIsDue
  BY DEF OnceSoFar, ErrorsSoFar, PhaseIsDue
<1>3. \A p \in Page : Clean(p)
  BY DEF Clean, InFlight
<1>4. FaultsPay
  BY <1>3, FS_EmptySet DEF FaultsPay
<1>. QED  BY <1>1, <1>2, <1>4 DEF PdfInv

LEMMA PagesAreFinite == \A C \in SUBSET Page : IsFiniteSet(C) /\ Cardinality(C) \in Nat
<1>1. LastPage \in Int /\ 1 \in Int
  BY PdfAssumption
<1>2. IsFiniteSet(Page)
  BY <1>1, FS_Interval DEF Page
<1>. QED  BY <1>2, FS_Subset, FS_CardinalityType

\* A step that spends no fault, or spends it on no page, leaves the pages that
\* were clean clean.
LEMMA NothingToPay ==
  ASSUME FaultsPay, pdfFaults \in Nat, pdfFaults' \in Nat, pdfFaults <= pdfFaults',
         \A p \in Page : Clean(p) => Clean(p)'
  PROVE  FaultsPay'
<1>1. PICK C \in SUBSET Page :
        Cardinality(C) <= pdfFaults /\ \A p \in Page \ C : Clean(p)
  BY DEF FaultsPay
<1>2. IsFiniteSet(C) /\ Cardinality(C) \in Nat
  BY PagesAreFinite
<1>3. Cardinality(C) <= pdfFaults'
  BY <1>1, <1>2
<1>. QED  BY <1>1, <1>3 DEF FaultsPay

\* A fault pays for one page.
LEMMA OnePageMore ==
  ASSUME FaultsPay, pdfFaults \in Nat, pdfFaults' = pdfFaults + 1, NEW q \in Page,
         \A p \in Page \ {q} : Clean(p) => Clean(p)'
  PROVE  FaultsPay'
<1>1. PICK C \in SUBSET Page :
        Cardinality(C) <= pdfFaults /\ \A p \in Page \ C : Clean(p)
  BY DEF FaultsPay
<1>2. IsFiniteSet(C) /\ Cardinality(C) \in Nat
  BY PagesAreFinite
<1>3. Cardinality(C \cup {q}) <= pdfFaults'
  <2>1. Cardinality(C \cup {q}) = IF q \in C THEN Cardinality(C) ELSE Cardinality(C) + 1
    BY <1>2, FS_AddElement
  <2>. QED  BY <1>1, <1>2, <2>1
<1>4. \A p \in Page \ (C \cup {q}) : Clean(p)'
  BY <1>1
<1>. QED  BY <1>3, <1>4 DEF FaultsPay
LEMMA PdfNextInv == PdfInv /\ [PdfNext]_pdfVars => PdfInv'
<1> SUFFICES ASSUME PdfInv, [PdfNext]_pdfVars PROVE PdfInv'
  OBVIOUS
<1>. USE PdfAssumption DEF PdfInv
<1>1. pdfFaults \in Nat /\ next \in Nat /\ LastPage \in Nat
  BY DEF PdfTypeOK
<1>2. ASSUME NEW q \in Page, Scan(q) PROVE PdfInv'
  <2>. USE DEF Scan, Emit, Queue
  <2>1. PdfTypeOK'
    <3>1. current' \in [page : Page, text : Text, source : {"raw", "ocr", "failed"}]
      BY <1>2 DEF PdfTypeOK, Text
    <3>2. next' \in 1 .. LastPage + 1
      BY <1>1, <1>2 DEF Page
    <3>3. emitted' \in [Page -> 0 .. 1]
      <4>1. emitted[q] + 1 \in 0 .. 1
        BY <1>1, <1>2 DEF OnceSoFar, Page
      <4>. QED  BY <1>2, <4>1 DEF PdfTypeOK
    <3>4. /\ ocrJob' \in [Page -> {"idle", "queued", "ocr", "empty", "raised"}]
          /\ pending' \subseteq Page /\ failedPages' \subseteq Page
      <4>1. CASE layer[q] = "full"
        <5>1. ocrJob' = ocrJob /\ pending' = pending /\ failedPages' = failedPages
          BY <1>2, <4>1
        <5>. QED  BY <5>1 DEF PdfTypeOK
      <4>2. CASE layer[q] # "full"
        <5>1. /\ ocrJob' = [ocrJob EXCEPT ![q] = "queued"]
              /\ pending' = pending \cup {q} /\ failedPages' = failedPages
          BY <1>2, <4>2
        <5>. QED  BY <5>1 DEF PdfTypeOK
      <4>. QED  BY <4>1, <4>2
    <3>5. phase' \in {"scan", "save"}
      BY <1>2
    <3>. QED  BY <1>2, <3>1, <3>2, <3>3, <3>4, <3>5 DEF PdfTypeOK
  <2>2. OnceSoFar' /\ ErrorsSoFar' /\ PhaseIsDue'
    BY <1>1, <1>2 DEF PdfTypeOK, OnceSoFar, ErrorsSoFar, PhaseIsDue, Page
  <2>3. \A p \in Page : Clean(p) => Clean(p)'
    BY <1>1, <1>2 DEF PdfTypeOK, OnceSoFar, Clean, Wanted, WantedSoFar, InFlight, Page
  <2>4. FaultsPay'
    BY <1>1, <1>2, <2>3, NothingToPay
  <2>. QED  BY <2>1, <2>2, <2>4
<1>3. ASSUME NEW q \in Page, ScanAborts(q) PROVE PdfInv'
  <2>. USE DEF ScanAborts, Fault, MayFail
  <2>1. PdfTypeOK' /\ OnceSoFar' /\ ErrorsSoFar' /\ PhaseIsDue'
    BY <1>1, <1>3 DEF PdfTypeOK, OnceSoFar, ErrorsSoFar, PhaseIsDue
  <2>2. \A p \in Page : Clean(p) => Clean(p)'
    BY <1>3 DEF Clean, Wanted, WantedSoFar, InFlight
  <2>3. FaultsPay'
    BY <1>1, <1>3, <2>2, NothingToPay
  <2>. QED  BY <2>1, <2>3
<1>4. CASE ScanEnds
  <2>. USE DEF ScanEnds
  <2>1. PdfTypeOK' /\ OnceSoFar' /\ ErrorsSoFar' /\ PhaseIsDue'
    BY <1>1, <1>4 DEF PdfTypeOK, OnceSoFar, ErrorsSoFar, PhaseIsDue
  <2>2. \A p \in Page : Clean(p) => Clean(p)'
    BY <1>4 DEF Clean, Wanted, WantedSoFar, InFlight
  <2>3. FaultsPay'
    BY <1>1, <1>4, <2>2, NothingToPay
  <2>. QED  BY <2>1, <2>3
<1>5. ASSUME NEW q \in Page, OcrEnds(q) PROVE PdfInv'
  <2>1. PICK r \in {"ocr", "empty", "raised"} :
          /\ ocrJob' = [ocrJob EXCEPT ![q] = r]
          /\ IF r = "ocr" THEN NoFault ELSE Fault
    BY <1>5 DEF OcrEnds
  <2>2. /\ ocrJob[q] = "queued" /\ q \in pending
        /\ UNCHANGED <<layer, deliveries, phase, next, pending, current, emitted,
                       failedPages, counted, row, stored>>
    BY <1>5 DEF OcrEnds, OnceSoFar
  <2>3. PdfTypeOK'
    BY <1>1, <2>1, <2>2 DEF PdfTypeOK, NoFault, Fault, MayFail
  <2>4. OnceSoFar' /\ ErrorsSoFar' /\ PhaseIsDue'
    BY <1>1, <2>1, <2>2 DEF PdfTypeOK, OnceSoFar, ErrorsSoFar, PhaseIsDue, Page
  <2>5. \A p \in Page \ {q} : Clean(p) => Clean(p)'
    BY <2>1, <2>2 DEF Clean, Wanted, WantedSoFar, InFlight, PdfTypeOK
  <2>6. FaultsPay'
    <3>1. CASE r = "ocr"
      <4>1. Clean(q) => Clean(q)'
        BY <2>1, <2>2, <3>1 DEF Clean, Wanted, WantedSoFar, InFlight, PdfTypeOK
      <4>. QED  BY <1>1, <2>1, <2>5, <3>1, <4>1, NothingToPay DEF NoFault
    <3>2. CASE r # "ocr"
      BY <1>1, <2>1, <2>5, <3>2, OnePageMore DEF Fault
    <3>. QED  BY <3>1, <3>2
  <2>. QED  BY <2>3, <2>4, <2>6
<1>6. ASSUME NEW q \in Page, Drain(q) PROVE PdfInv'
  <2>. USE DEF Drain, Emit
  <2>1. OcrOutcome(q) \in [text : Text, source : {"raw", "ocr", "failed"}]
    BY DEF OcrOutcome, NativeText, Text, NoText, PdfTypeOK, Layer
  <2>2. OcrOutcome(q).source = "failed" <=> layer[q] = "broken" /\ ocrJob[q] # "ocr"
    BY DEF OcrOutcome, NativeText, NoText, TextFrom, PdfTypeOK, Layer
  <2>3. ocrJob[q] = "ocr" => OcrOutcome(q).text = OcrText(deliveries) /\ OcrOutcome(q).source = "ocr"
    BY DEF OcrOutcome
  <2>4. q < next /\ emitted[q] = 0
    BY <1>1, <1>6 DEF OnceSoFar, Page
  <2>. DEFINE text == OcrOutcome(q).text
              source == OcrOutcome(q).source
  <2>5. text \in Text /\ source \in {"raw", "ocr", "failed"}
    BY <2>1
  <2>6. /\ current' = [page |-> q, text |-> text, source |-> source]
        /\ failedPages' = IF source = "failed" THEN failedPages \cup {q} ELSE failedPages
    BY <1>6
  <2>. HIDE DEF text, source
  <2>7. PdfTypeOK'
    BY <1>1, <1>6, <2>4, <2>5, <2>6 DEF PdfTypeOK
  <2>8. OnceSoFar' /\ ErrorsSoFar' /\ PhaseIsDue'
    BY <1>1, <1>6, <2>2, <2>4, <2>6 DEF PdfTypeOK, OnceSoFar, ErrorsSoFar, PhaseIsDue, source
  <2>9. \A p \in Page : Clean(p) => Clean(p)'
    BY <1>1, <1>6, <2>3, <2>4, <2>6 DEF PdfTypeOK, OnceSoFar, Clean, Wanted, WantedSoFar, InFlight, text, source
  <2>10. FaultsPay'
    BY <1>1, <1>6, <2>9, NothingToPay
  <2>. QED  BY <2>7, <2>8, <2>10
<1>7. CASE Save
  <2>1. PICK q \in Page : q = current.page /\ current.text \in Text
    BY DEF PdfTypeOK
  <2>2. /\ phase = "save"
        /\ UNCHANGED <<layer, deliveries, next, ocrJob, pending, current, emitted,
                       failedPages, counted, stored>>
    BY <1>7 DEF Save
  <2>3. \/ phase' = "index" /\ ~(current.source = "failed" \/ current.text = NoText)
        \/ phase' = (IF next > LastPage THEN "drain" ELSE "scan")
    BY <1>7 DEF Save, Return
  <2>4. \/ row' = [row EXCEPT ![q] = current.text] /\ NoFault
        \/ UNCHANGED row /\ Fault
    BY <1>7, <2>1 DEF Save
  <2>5. PdfTypeOK'
    <3>1. row' \in [Page -> Text]
      BY <2>1, <2>4 DEF PdfTypeOK
    <3>2. pdfFaults' \in 0 .. MaxPdfFaults
      BY <1>1, <2>4 DEF PdfTypeOK, Fault, MayFail, NoFault
    <3>. QED  BY <2>2, <2>3, <3>1, <3>2 DEF PdfTypeOK
  <2>6. OnceSoFar' /\ ErrorsSoFar'
    BY <2>2 DEF OnceSoFar, ErrorsSoFar
  <2>7. PhaseIsDue'
    BY <1>1, <2>2, <2>3 DEF PhaseIsDue, PdfTypeOK
  <2>8. ASSUME NEW p \in Page \ {q}, Clean(p) PROVE Clean(p)'
    BY <2>1, <2>2, <2>3, <2>4, <2>8 DEF Clean, Wanted, WantedSoFar, InFlight, PdfTypeOK
  <2>9. FaultsPay'
    <3>1. CASE UNCHANGED row /\ Fault
      BY <1>1, <2>1, <2>8, <3>1, OnePageMore DEF Fault
    <3>2. CASE row' = [row EXCEPT ![q] = current.text] /\ NoFault
      \* A clean page's outcome has text: its chunks come next.
      <4>1. ASSUME Clean(q) PROVE Clean(q)'
        <5>1. current.text = Wanted(q) /\ current.source # "failed" /\ emitted[q] = 1
          BY <2>1, <2>2, <4>1 DEF Clean, InFlight
        <5>2. phase' = "index"
          BY <1>1, <1>7, <3>2, <5>1
             DEF Save, Wanted, Fault, NoFault, Return, NoText, TextFrom, OcrText
        <5>. QED  BY <2>1, <2>2, <3>2, <4>1, <5>1, <5>2 DEF Clean, Wanted, WantedSoFar, InFlight, PdfTypeOK
      <4>. QED  BY <1>1, <2>8, <3>2, <4>1, NothingToPay DEF NoFault
    <3>. QED  BY <2>4, <3>1, <3>2
  <2>. QED  BY <2>5, <2>6, <2>7, <2>9
<1>8. CASE Index
  <2>. DEFINE text == Chunked(current.text)
  <2>1. PICK q \in Page : q = current.page /\ text \in Text
    BY DEF PdfTypeOK, Chunked, Text, NoText
  <2>2. /\ phase = "index"
        /\ phase' = (IF next > LastPage THEN "drain" ELSE "scan")
        /\ UNCHANGED <<layer, deliveries, next, ocrJob, pending, current, emitted,
                       failedPages, row>>
    BY <1>8 DEF Index, Return
  <2>3. \/ text # NoText /\ (\E T \in Added(q, text) : stored' = [stored EXCEPT ![q] = T])
           /\ NoFault
        \/ UNCHANGED stored /\ Fault
        \/ text = NoText /\ UNCHANGED stored /\ NoFault
    BY <1>8, <2>1 DEF Index, NoFault
  <2>4. counted' \subseteq Page
    BY <1>8, <2>1 DEF Index, PdfTypeOK
  <2>. HIDE DEF text
  <2>5. PdfTypeOK'
    <3>1. stored' \in [Page -> SUBSET Text]
      <4>1. Added(q, text) \subseteq SUBSET Text
        BY <2>1 DEF PdfTypeOK, Added
      <4>. QED  BY <2>1, <2>3, <4>1 DEF PdfTypeOK
    <3>2. pdfFaults' \in 0 .. MaxPdfFaults
      BY <1>1, <2>3 DEF PdfTypeOK, Fault, MayFail, NoFault
    <3>. QED  BY <2>2, <2>4, <3>1, <3>2 DEF PdfTypeOK
  <2>6. OnceSoFar' /\ ErrorsSoFar'
    BY <2>2 DEF OnceSoFar, ErrorsSoFar
  <2>7. PhaseIsDue'
    BY <1>1, <2>2 DEF PhaseIsDue, PdfTypeOK
  <2>8. ASSUME NEW p \in Page \ {q}, Clean(p) PROVE Clean(p)'
    <3>1. stored'[p] = stored[p]
      BY <2>3 DEF PdfTypeOK
    <3>. QED  BY <2>1, <2>2, <2>8, <3>1 DEF Clean, Wanted, WantedSoFar, InFlight, PdfTypeOK
  <2>9. FaultsPay'
    <3>1. CASE UNCHANGED stored /\ Fault
      BY <1>1, <2>1, <2>8, <3>1, OnePageMore DEF Fault
    <3>2. CASE text # NoText /\ NoFault
               /\ \E T \in Added(q, text) : stored' = [stored EXCEPT ![q] = T]
      <4>1. ASSUME Clean(q) PROVE Clean(q)'
        <5>1. row[q] = Wanted(q) /\ text = Wanted(q)
          BY <2>1, <2>2, <4>1 DEF Clean, InFlight, Wanted, Chunked, text, TextFrom, OcrText
        <5>2. Wanted(q) \in WantedSoFar(q)
          BY DEF Wanted, WantedSoFar, PdfTypeOK
        <5>3. stored'[q] \in Added(q, text)
          BY <3>2 DEF PdfTypeOK
        <5>4. stored'[q] # {} /\ stored'[q] \subseteq WantedSoFar(q)
          BY <4>1, <5>1, <5>2, <5>3 DEF Clean, Added
        <5>. QED
          BY <2>2, <4>1, <5>1, <5>4 DEF Clean, InFlight, Wanted, WantedSoFar
      <4>. QED  BY <1>1, <2>8, <3>2, <4>1, NothingToPay DEF NoFault
    <3>3. CASE text = NoText /\ UNCHANGED stored /\ NoFault
      <4>1. ASSUME Clean(q) PROVE FALSE
        <5>1. text = Wanted(q)
          BY <2>1, <2>2, <4>1 DEF Clean, InFlight, Wanted, Chunked, text, TextFrom, OcrText
        <5>. QED  BY <3>3, <5>1 DEF Wanted, NoText, TextFrom, OcrText
      <4>. QED  BY <1>1, <2>8, <3>3, <4>1, NothingToPay DEF NoFault
    <3>. QED  BY <2>3, <3>1, <3>2, <3>3
  <2>. QED  BY <2>5, <2>6, <2>7, <2>9
<1>9. CASE Finished
  <2>. USE DEF Finished
  <2>1. PdfTypeOK' /\ OnceSoFar' /\ ErrorsSoFar' /\ PhaseIsDue'
    BY <1>1, <1>9 DEF PdfTypeOK, OnceSoFar, ErrorsSoFar, PhaseIsDue
  <2>2. \A p \in Page : Clean(p) => Clean(p)'
    BY <1>9 DEF Clean, Wanted, WantedSoFar, InFlight
  <2>3. FaultsPay'
    BY <1>1, <1>9, <2>2, NothingToPay
  <2>. QED  BY <2>1, <2>3
<1>10. CASE Redeliver
  <2>. USE DEF Redeliver
  <2>1. PdfTypeOK'
    BY <1>1, <1>10 DEF PdfTypeOK, NoOutcome, Page, Text, NoText
  <2>2. OnceSoFar' /\ ErrorsSoFar' /\ PhaseIsDue'
    BY <1>1, <1>10 DEF OnceSoFar, ErrorsSoFar, PhaseIsDue, Page
  <2>3. ASSUME NEW p \in Page, Clean(p) PROVE Clean(p)'
    <3>1. \A d \in 1 .. deliveries : d \in 1 .. deliveries'
      BY <1>10 DEF PdfTypeOK
    <3>2. WantedSoFar(p) \subseteq WantedSoFar(p)'
      BY <1>10, <3>1 DEF WantedSoFar
    <3>3. row'[p] \in {NoText} \cup WantedSoFar(p)' /\ stored'[p] \subseteq WantedSoFar(p)'
      BY <1>10, <2>3, <3>2 DEF Clean
    <3>4. ocrJob'[p] = "idle" /\ emitted'[p] = 0 /\ ~(p < next') /\ ~InFlight(p)'
      BY <1>1, <1>10 DEF InFlight, Page
    <3>. QED  BY <3>3, <3>4 DEF Clean
  <2>4. FaultsPay'
    BY <1>1, <1>10, <2>3, NothingToPay DEF PdfTypeOK
  <2>. QED  BY <2>1, <2>2, <2>4
<1>11. CASE UNCHANGED pdfVars
  <2>1. PdfTypeOK' /\ OnceSoFar' /\ ErrorsSoFar' /\ PhaseIsDue'
    BY <1>11 DEF pdfVars, pdfRun, PdfTypeOK, OnceSoFar, ErrorsSoFar, PhaseIsDue
  <2>2. \A p \in Page : Clean(p) => Clean(p)'
    BY <1>11 DEF pdfVars, pdfRun, Clean, Wanted, WantedSoFar, InFlight
  <2>3. FaultsPay'
    BY <1>1, <1>11, <2>2, NothingToPay DEF pdfVars
  <2>. QED  BY <2>1, <2>3
<1>. QED
  BY <1>2, <1>3, <1>4, <1>5, <1>6, <1>7, <1>8, <1>9, <1>10, <1>11 DEF PdfNext

\* In whatever order the OCR jobs end, and whatever fails: a run that is done
\* has emitted every page once, and its errors are the pages that could not be
\* opened and that OCR gave no text for.
THEOREM PagesAreEmittedOnce == PdfSpec => []EveryPageOnce
<1>1. PdfInv => EveryPageOnce
  <2> SUFFICES ASSUME PdfInv, phase = "done"
               PROVE  /\ \A p \in Page : emitted[p] = 1
                      /\ failedPages = {p \in Page : layer[p] = "broken" /\ ocrJob[p] # "ocr"}
    BY DEF EveryPageOnce
  <2>1. \A p \in Page : emitted[p] = 1
    BY PdfAssumption DEF PdfInv, OnceSoFar, PhaseIsDue, Page
  <2>. QED  BY <2>1 DEF PdfInv, ErrorsSoFar
<1>. QED  BY <1>1, PdfInitInv, PdfNextInv, PTL DEF PdfSpec

\* Over any number of deliveries the table and the collection disagree, besides
\* pages that OCR read again in a later delivery, on no more pages than there were
\* failed calls.
THEOREM FaultsPayForPages == PdfSpec => []FaultCostsOnePage
<1>. DEFINE Costly == {p \in Page : Disagrees(p) /\ ~Reread(p)}
<1>1. PdfInv => FaultCostsOnePage
  <2> SUFFICES ASSUME PdfInv, phase = "done" PROVE Cardinality(Costly) <= pdfFaults
    BY DEF FaultCostsOnePage
  <2>1. PICK C \in SUBSET Page :
          Cardinality(C) <= pdfFaults /\ \A p \in Page \ C : Clean(p)
    BY DEF PdfInv, FaultsPay
  <2>2. Costly \subseteq C
    <3> SUFFICES ASSUME NEW p \in Page \ C, Disagrees(p) PROVE Reread(p)
      OBVIOUS
    <3>1. emitted[p] = 1 /\ ~InFlight(p)
      BY PdfAssumption DEF PdfInv, OnceSoFar, PhaseIsDue, InFlight, Page
    <3>2. row[p] = Wanted(p) /\ stored[p] # {} /\ stored[p] \subseteq WantedSoFar(p)
      BY <2>1, <3>1 DEF Clean
    <3>3. stored[p] # {Wanted(p)}
      BY <3>2 DEF Disagrees, Chunked, Wanted, NoText, TextFrom, OcrText
    <3>4. PICK text \in stored[p] : text # Wanted(p)
      BY <3>2, <3>3
    <3>5. layer[p] # "full"
      BY <3>2, <3>4 DEF Wanted, WantedSoFar
    <3>6. PICK d \in 1 .. deliveries : text = OcrText(d)
      BY <3>2, <3>4, <3>5 DEF WantedSoFar
    <3>7. d < deliveries
      BY <3>4, <3>5, <3>6 DEF Wanted, PdfInv, PdfTypeOK
    <3>. QED  BY <3>2, <3>4, <3>5, <3>6, <3>7 DEF Reread, Wanted, OcrText
  <2>3. Cardinality(Costly) <= Cardinality(C)
    BY <2>2, PagesAreFinite, FS_Subset
  <2>4. Cardinality(Costly) \in Nat /\ Cardinality(C) \in Nat
    BY PagesAreFinite
  <2>. QED  BY <2>1, <2>3, <2>4 DEF PdfInv, PdfTypeOK
<1>. QED  BY <1>1, PdfInitInv, PdfNextInv, PTL DEF PdfSpec

-------------------------------------------------------------------------------
(* Ocr: the program runs only in the hands of the one call in the lock, for *)
(* a document without an entry, and an entry is what one run left.          *)

OneRunner ==
  /\ \A c \in OcrCall :
       ocrAt[c] = "local" => cacheLock = {c} /\ ocrCache[c.file] = NotRun
  /\ \A f \in Scanned : ocrRuns[f] = IF ocrCache[f] = NotRun THEN 0 ELSE 1

Output == [text : SUBSET (1 .. ScannedPages), count : -1 .. ScannedPages]

OcrInv ==
  /\ OcrTypeOK
  /\ ocrCache \in [Scanned -> Output] /\ ocrPages \in [OcrCall -> Output]
  /\ OneRunner

LEMMA CallHasFile == \A c \in OcrCall : c.file \in Scanned
  BY DEF OcrCall

LEMMA NotRunIsOutput == NotRun \in Output
  BY OcrAssumption DEF NotRun, Output

LEMMA OcrInitInv == OcrInit => OcrInv
<1> SUFFICES ASSUME OcrInit PROVE OcrInv
  OBVIOUS
<1>1. OcrTypeOK
  BY OcrAssumption, CallHasFile DEF OcrInit, OcrTypeOK, NotRun
<1>2. OneRunner
  BY CallHasFile DEF OcrInit, OneRunner
<1>. QED  BY <1>1, <1>2, NotRunIsOutput DEF OcrInit, OcrInv

LEMMA OcrNextInv == OcrInv /\ [OcrNext]_ocrVars => OcrInv'
<1> SUFFICES ASSUME OcrInv, [OcrNext]_ocrVars PROVE OcrInv'
  OBVIOUS
<1>. USE OcrAssumption, CallHasFile, NotRunIsOutput DEF OcrInv, OcrTypeOK, OneRunner
<1>1. ASSUME NEW f \in Scanned, PrefetchEnds(f) PROVE OcrInv'
  BY <1>1 DEF PrefetchEnds
<1>2. ASSUME NEW c \in OcrCall, AskOcr(c) PROVE OcrInv'
  BY <1>2 DEF AskOcr, Moved
<1>3. ASSUME NEW c \in OcrCall, LookLocked(c) PROVE OcrInv'
  <2>1. CASE ocrCache[c.file] # NotRun
    <3>1. /\ ocrAt' = [ocrAt EXCEPT ![c] = "read"]
          /\ ocrPages' = [ocrPages EXCEPT ![c] = ocrCache[c.file]]
          /\ UNCHANGED <<localOcr, ocrText, ocrCache, cacheLock, ocrWelcome, ocrRuns, ocrFailures>>
      BY <1>3, <2>1 DEF LookLocked, Moved
    <3>2. \A d \in OcrCall : ocrPages'[d] \in {NotRun, ocrCache'[d.file]}
      BY <3>1
    <3>. QED  BY <3>1, <3>2
  <2>2. CASE ocrCache[c.file] = NotRun
    \* Nobody else is running the program: the lock was free.
    <3>1. \A d \in OcrCall : ocrAt[d] # "local"
      BY <1>3 DEF LookLocked
    <3>2. /\ ocrAt' = [ocrAt EXCEPT ![c] = "local"] /\ cacheLock' = {c}
          /\ UNCHANGED <<localOcr, ocrText, ocrPages, ocrCache, ocrWelcome, ocrRuns, ocrFailures>>
      BY <1>3, <2>2 DEF LookLocked, Moved
    <3>. QED  BY <2>2, <3>1, <3>2
  <2>. QED  BY <2>1, <2>2
<1>4. ASSUME NEW c \in OcrCall, LocalOcrWrites(c) PROVE OcrInv'
  <2>1. PICK count \in 1 .. ScannedPages : \E withText \in SUBSET (1 .. count) :
          /\ ocrCache' = [ocrCache EXCEPT ![c.file] = [text |-> withText, count |-> count]]
          /\ ocrPages' = [ocrPages EXCEPT ![c] = [text |-> withText, count |-> count]]
    BY <1>4 DEF LocalOcrWrites
  <2>2. PICK withText \in SUBSET (1 .. count) :
          /\ ocrCache' = [ocrCache EXCEPT ![c.file] = [text |-> withText, count |-> count]]
          /\ ocrPages' = [ocrPages EXCEPT ![c] = [text |-> withText, count |-> count]]
    BY <2>1
  <2>. DEFINE output == [text |-> withText, count |-> count]
  <2>3. output.count = count /\ output \in Output /\ output # NotRun
    BY DEF NotRun, Output
  <2>4. ocrAt[c] = "local" /\ cacheLock = {c} /\ ocrCache[c.file] = NotRun
    BY <1>4 DEF LocalOcrWrites, Moved
  <2>5. /\ ocrAt' = [ocrAt EXCEPT ![c] = "read"]
        /\ cacheLock' = {}
        /\ ocrRuns' = [ocrRuns EXCEPT ![c.file] = @ + 1]
        /\ UNCHANGED <<localOcr, ocrText, ocrWelcome, ocrFailures>>
    BY <1>4, <2>4 DEF LocalOcrWrites, Moved
  <2>6. ocrCache' = [ocrCache EXCEPT ![c.file] = output] /\ ocrPages' = [ocrPages EXCEPT ![c] = output]
    BY <2>2
  <2>. HIDE DEF output
  <2>7. \A d \in OcrCall : ocrAt'[d] # "local"
    BY <2>4, <2>5
  \* The other calls for the document have read nothing yet.
  <2>8. \A d \in OcrCall : ocrPages'[d] \in {NotRun, ocrCache'[d.file]}
    BY <2>4, <2>6
  <2>9. \A f \in Scanned : ocrCache'[f].count \in -1 .. ScannedPages
    BY <2>3, <2>6
  <2>10. \A f \in Scanned : ocrRuns'[f] = IF ocrCache'[f] = NotRun THEN 0 ELSE 1
    BY <2>3, <2>4, <2>5, <2>6
  <2>11. ocrAt' \in [OcrCall -> {"new", "lock", "local", "read", "vision", "done"}]
    BY <2>5
  <2>12. ocrRuns' \in [Scanned -> Nat]
    BY <2>5
  <2>13. ocrCache' \in [Scanned -> Output] /\ ocrPages' \in [OcrCall -> Output]
    BY <2>3, <2>6
  <2>14. OcrTypeOK'
    BY <2>5, <2>8, <2>9, <2>11, <2>12
  <2>. QED  BY <2>7, <2>10, <2>13, <2>14
<1>5. ASSUME NEW c \in OcrCall, LocalOcrFails(c) PROVE OcrInv'
  BY <1>5 DEF LocalOcrFails, Moved
<1>6. ASSUME NEW c \in OcrCall, ReadLocalPage(c) PROVE OcrInv'
  BY <1>6 DEF ReadLocalPage, Moved
<1>7. ASSUME NEW c \in OcrCall, VisionOcr(c) PROVE OcrInv'
  BY <1>7 DEF VisionOcr, Moved
<1>8. CASE UNCHANGED ocrVars
  BY <1>8 DEF ocrVars
<1>. QED  BY <1>1, <1>2, <1>3, <1>4, <1>5, <1>6, <1>7, <1>8 DEF OcrNext

\* However many calls of however many documents meet at the one lock, and
\* whichever runs of the program fail: it writes a document once.
THEOREM WrittenOnce == OcrSpec => []OcrRunsOnce
<1>1. OcrInv => OcrRunsOnce
  <2> SUFFICES ASSUME OcrInv, NEW f \in Scanned PROVE ocrRuns[f] <= 1
    BY DEF OcrRunsOnce
  <2>1. ocrRuns[f] = 0 \/ ocrRuns[f] = 1
    BY DEF OcrInv, OneRunner
  <2>. QED  BY <2>1
<1>. QED  BY <1>1, OcrInitInv, OcrNextInv, PTL DEF OcrSpec

-------------------------------------------------------------------------------
(* StandaloneFile: round(i * (n - 1) / (k - 1)) for i in 0 .. k - 1.         *)

\* A rounded quotient is off by half at most.
LEMMA NearestFrame ==
  ASSUME NEW x \in Nat, NEW b \in Nat \ {0}
  PROVE  /\ Round(x, b) \in Nat
         /\ 2 * (b * Round(x, b)) <= 2 * x + b
         /\ 2 * x <= 2 * (b * Round(x, b)) + b
<1>1. PICK q \in Nat : q = x \div b
  BY Division
<1>2. PICK r \in Nat : r = x % b
  BY Division
<1>3. x = b * q + r /\ r < b
  BY Division, <1>1, <1>2
<1>4. CASE Round(x, b) = q
  <2>1. 2 * r <= b
    BY <1>1, <1>2, <1>4 DEF Round
  <2>2. b * q \in Nat
    BY Product
  <2>. QED  BY <2>1, <2>2, <1>3, <1>4
<1>5. CASE Round(x, b) = q + 1
  <2>1. 2 * r >= b
    BY <1>1, <1>2, <1>5 DEF Round
  <2>2. b * q \in Nat
    BY Product
  <2>3. b * (q + 1) = b * q + b
    BY Distributes
  <2>. QED  BY <2>1, <2>2, <2>3, <1>3, <1>5
<1>6. Round(x, b) = q \/ Round(x, b) = q + 1
  BY <1>1, <1>2 DEF Round
<1>. QED  BY <1>4, <1>5, <1>6

\* Two samples in a row are one of two whole numbers apart.
LEMMA Gap ==
  ASSUME NEW a \in Nat \ {0}, NEW b \in Nat \ {0}, b <= a, NEW i \in Nat
  PROVE  Round((i + 1) * a, b) - Round(i * a, b)
           \in {a \div b, IF a % b = 0 THEN a \div b ELSE (a \div b) + 1}
<1>1. PICK q \in Nat : q = a \div b
  BY Division
<1>2. PICK r \in Nat : r = a % b
  BY Division
<1>3. a = b * q + r /\ r < b
  BY Division, <1>1, <1>2
<1>4. b * q \in Nat
  BY Product
<1>5. CASE r = 0
  <2>1. ASSUME NEW j \in Nat PROVE Round(j * a, b) = j * q
    <3>1. j * q \in Nat
      BY Product
    <3>4. 0 \in Nat /\ 0 < b
      OBVIOUS
    <3>2. j * a = b * (j * q) + 0
      BY <1>3, <1>5
    <3>3. (b * (j * q) + 0) \div b = j * q /\ (b * (j * q) + 0) % b = 0
      BY <3>1, <3>4, DivisionIsUnique, Zenon
    <3>5. PICK p \in Nat : p = j * q
      BY <3>1
    <3>. QED  BY <3>2, <3>3, <3>5 DEF Round
  <2>2. Round((i + 1) * a, b) = (i + 1) * q /\ Round(i * a, b) = i * q
    <3>1. i + 1 \in Nat
      OBVIOUS
    <3>. QED  BY <2>1, <3>1, Zenon
  <2>3. (i + 1) * q = i * q + q
    OBVIOUS
  <2>4. i * q \in Nat
    BY Product
  <2>. QED  BY <2>2, <2>3, <2>4, <1>1, <1>2, <1>5
<1>6. CASE r > 0
  <2>1. PICK s \in Nat : s = Round(i * a, b)
    BY NearestFrame, Product
  <2>2. PICK t \in Nat : t = Round((i + 1) * a, b)
    BY NearestFrame, Product
  <2>3. PICK x \in Nat : x = i * a
    BY Product
  <2>4. (i + 1) * a = x + a
    BY <2>3
  <2>5. 2 * (b * s) <= 2 * x + b /\ 2 * x <= 2 * (b * s) + b
    BY <2>1, <2>3, NearestFrame
  <2>6. 2 * (b * t) <= 2 * (x + a) + b /\ 2 * (x + a) <= 2 * (b * t) + b
    BY <2>2, <2>4, NearestFrame, x + a \in Nat
  <2>7. b * t \in Nat /\ b * s \in Nat
    BY Product
  <2>8. b * (t - s) = b * t - b * s /\ b * (q - 1) = b * q - b /\ b * (q + 2) = b * q + 2 * b
    BY Distributes
  <2>9. b * (q - 1) < b * (t - s) /\ b * (t - s) < b * (q + 2)
    BY <2>5, <2>6, <2>7, <2>8, <1>3, <1>4, <1>6
  <2>10. q - 1 < t - s /\ t - s < q + 2
    BY <2>9, ProductOrder
  <2>11. t - s = q \/ t - s = q + 1
    BY <2>10
  <2>. QED  BY <2>11, <2>1, <2>2, <1>1, <1>2, <1>6
<1>. QED  BY <1>5, <1>6

\* Samples follow each other.
LEMMA Ahead ==
  ASSUME NEW a \in Nat \ {0}, NEW b \in Nat \ {0}, b <= a,
         NEW i \in Nat, NEW j \in Nat, i < j
  PROVE  Round(i * a, b) < Round(j * a, b) /\ Round((i + 1) * a, b) <= Round(j * a, b)
<1>1. i * a \in Nat /\ j * a \in Nat /\ (i + 1) * a \in Nat
  BY Product
<1>2. Round(i * a, b) \in Nat /\ Round(j * a, b) \in Nat /\ Round((i + 1) * a, b) \in Nat
  BY <1>1, NearestFrame
<1>3. Round(i * a, b) < Round((i + 1) * a, b)
  <2>1. a \div b \in Nat \ {0}
    <3>1. PICK q \in Nat : q = a \div b
      BY Division
    <3>2. PICK r \in Nat : r = a % b
      BY Division
    <3>3. a = b * q + r /\ r < b
      BY <3>1, <3>2, Division
    <3>4. q # 0
      BY <3>3
    <3>. QED  BY <3>1, <3>4
  <2>2. PICK s \in Nat : s = Round(i * a, b)
    BY <1>2
  <2>3. PICK t \in Nat : t = Round((i + 1) * a, b)
    BY <1>2
  <2>4. t - s = a \div b \/ t - s = (a \div b) + 1
    BY <2>2, <2>3, Gap
  <2>. QED  BY <2>1, <2>2, <2>3, <2>4
<1>4. CASE j = i + 1
  BY <1>2, <1>3, <1>4
<1>5. CASE j > i + 1
  <2>1. PICK s \in Nat : s = Round((i + 1) * a, b)
    BY <1>2
  <2>2. PICK t \in Nat : t = Round(j * a, b)
    BY <1>2
  <2>3. PICK x \in Nat : x = (i + 1) * a
    BY <1>1
  <2>4. j * a >= x + a
    <3>1. (i + 2) * a = x + a
      BY <2>3
    <3>2. a * (i + 2) <= a * j
      BY <1>5, ProductOrder
    <3>3. a * (i + 2) = (i + 2) * a /\ a * j = j * a
      BY Product
    <3>. QED  BY <3>1, <3>2, <3>3, <1>1
  <2>5. 2 * (b * s) <= 2 * x + b /\ 2 * (j * a) <= 2 * (b * t) + b
    BY <2>1, <2>2, <2>3, <1>1, NearestFrame
  <2>6. b * s \in Nat /\ b * t \in Nat
    BY Product
  <2>7. b * s < b * (t + 1)
    <3>1. b * (t + 1) = b * t + b
      BY Distributes
    <3>. QED  BY <2>4, <2>5, <2>6, <1>1, <3>1
  <2>8. s < t + 1
    BY <2>7, ProductOrder
  <2>. QED  BY <2>8, <2>1, <2>2, <1>2, <1>3
<1>. QED  BY <1>4, <1>5

\* What GifFrames gives.
LEMMA Spread ==
  ASSUME NEW n \in Nat, NEW k \in Nat, 2 <= k, k <= n,
         NEW S, S = GifFrames(n, k)
  PROVE  /\ S \subseteq 0 .. n - 1 /\ Cardinality(S) = k /\ {0, n - 1} \subseteq S
         /\ \A f \in S \ {n - 1} :
              (CHOOSE g \in S : g > f /\ \A h \in S : h > f => g <= h) - f
                \in {(n - 1) \div (k - 1),
                     IF (n - 1) % (k - 1) = 0 THEN (n - 1) \div (k - 1)
                     ELSE (n - 1) \div (k - 1) + 1}
<1>1. PICK a \in Nat \ {0} : a = n - 1
  BY n - 1 \in Nat \ {0}
<1>2. PICK b \in Nat \ {0} : b = k - 1
  BY k - 1 \in Nat \ {0}
<1>3. b <= a /\ 0 .. k - 1 = 0 .. b /\ n # 1
  BY <1>1, <1>2
<1>. DEFINE F(i) == Round(i * a, b)
<1>4. S = {F(i) : i \in 0 .. b}
  BY <1>1, <1>2, <1>3 DEF GifFrames
<1>5. ASSUME NEW i \in 0 .. b PROVE F(i) \in Nat
  BY Product, NearestFrame
<1>6. ASSUME NEW i \in 0 .. b, NEW j \in 0 .. b, i < j
      PROVE  F(i) < F(j) /\ F(i + 1) <= F(j)
  <2>1. i \in Nat /\ j \in Nat
    OBVIOUS
  <2>. QED  BY <2>1, <1>3, <1>6, Ahead, Zenon
<1>7. F(0) = 0 /\ F(b) = a
  <2>1. (b * 0 + 0) \div b = 0 /\ (b * 0 + 0) % b = 0
    BY 0 < b, DivisionIsUnique
  <2>2. (b * a + 0) \div b = a /\ (b * a + 0) % b = 0
    BY 0 < b, DivisionIsUnique
  <2>3. 0 * a = b * 0 + 0
    OBVIOUS
  <2>4. b * a + 0 = b * a
    BY Product
  <2>5. F(0) = 0
    BY <2>1, <2>3 DEF Round
  <2>6. F(b) = a
    BY <2>2, <2>4 DEF Round
  <2>. QED  BY <2>5, <2>6
<1>. HIDE DEF F
<1>8. {0, n - 1} \subseteq S
  <2>1. 0 \in 0 .. b /\ b \in 0 .. b
    OBVIOUS
  <2>. QED  BY <2>1, <1>1, <1>4, <1>7
<1>9. S \subseteq 0 .. n - 1
  <2>. SUFFICES ASSUME NEW i \in 0 .. b PROVE F(i) \in 0 .. a
    BY <1>1, <1>4
  <2>1. i = b \/ (i < b /\ b \in 0 .. b)
    OBVIOUS
  <2>. QED  BY <2>1, <1>5, <1>6, <1>7
<1>10. Cardinality(S) = k
  <2>. DEFINE f == [i \in 0 .. b |-> F(i)]
  <2>1. f \in [0 .. b -> S] /\ \A s \in S : \E i \in 0 .. b : f[i] = s
    BY <1>4
  <2>2. ASSUME NEW i \in 0 .. b, NEW j \in 0 .. b, f[i] = f[j] PROVE i = j
    <3>1. CASE i < j
      BY <2>2, <3>1, <1>5, <1>6
    <3>2. CASE j < i
      BY <2>2, <3>2, <1>5, <1>6
    <3>. QED  BY <3>1, <3>2
  <2>. HIDE DEF f
  <2>3. f \in Bijection(0 .. b, S)
    BY <2>1, <2>2 DEF Bijection, Injection, Surjection, IsInjective
  <2>4. ExistsBijection(0 .. b, S)
    BY <2>3 DEF ExistsBijection
  <2>5. 0 \in Int /\ b \in Int /\ ~(0 > b)
    OBVIOUS
  <2>6. IsFiniteSet(0 .. b) /\ Cardinality(0 .. b) = b - 0 + 1
    BY <2>5, FS_Interval
  <2>7. Cardinality(S) = Cardinality(0 .. b)
    BY <2>4, <2>6, FS_Bijection
  <2>. QED  BY <2>6, <2>7, <1>2
<1>11. ASSUME NEW f \in S \ {n - 1}
       PROVE  (CHOOSE g \in S : g > f /\ \A h \in S : h > f => g <= h) - f
                \in {a \div b, IF a % b = 0 THEN a \div b ELSE (a \div b) + 1}
  <2>1. PICK i \in 0 .. b : f = F(i)
    BY <1>4
  <2>2. i # b
    BY <2>1, <1>1, <1>7
  <2>3. i + 1 \in 0 .. b /\ i \in Nat
    BY <2>2
  <2>. DEFINE Next1(g) == g > f /\ \A h \in S : h > f => g <= h
  <2>4. F(i + 1) \in S /\ F(i + 1) > f
    BY <2>1, <2>3, <1>4, <1>6, <1>5
  <2>5. ASSUME NEW h \in S, h > f PROVE F(i + 1) <= h
    <3>1. PICK j \in 0 .. b : h = F(j)
      BY <1>4
    <3>2. ~(j < i) /\ j # i
      BY <3>1, <2>1, <2>5, <1>5, <1>6
    <3>. QED  BY <3>1, <3>2, <1>6
  <2>6. Next1(F(i + 1))
    BY <2>4, <2>5
  <2>7. ASSUME NEW g \in S, Next1(g) PROVE g = F(i + 1)
    <3>1. g <= F(i + 1) /\ F(i + 1) <= g
      BY <2>4, <2>5, <2>7
    <3>. QED  BY <3>1, <2>4, <1>9
  <2>8. (CHOOSE g \in S : Next1(g)) = F(i + 1)
    BY <2>4, <2>6, <2>7
  <2>9. F(i + 1) - F(i) \in {a \div b, IF a % b = 0 THEN a \div b ELSE (a \div b) + 1}
    BY <2>3, <1>3, Gap DEF F
  <2>. QED  BY <2>1, <2>8, <2>9
<1>. QED  BY <1>1, <1>2, <1>8, <1>9, <1>10, <1>11

\* The frames sampled are those GifFrames gives for the animation.
FileInv ==
  /\ FileTypeOK
  /\ sampled # {} => animation >= 2 /\ sampled = GifFrames(animation, Frames(animation))
  /\ DOMAIN extract = {"text", "chunks", "image", "errors"}

LEMMA FileInitInv == FileInit => FileInv
  BY FileAssumption DEF FileInit, FileInv, FileTypeOK

LEMMA FileNextInv == FileInv /\ [FileNext]_fileVars => FileInv'
<1>. SUFFICES ASSUME FileInv, [FileNext]_fileVars PROVE FileInv'
  OBVIOUS
<1>. USE DEF FileInv, FileTypeOK
<1>1. CASE OpenFile
  BY <1>1 DEF OpenFile
<1>2. CASE SampleGif
  <2>1. CASE sampled' = {}
    BY <1>2, <2>1 DEF SampleGif
  <2>2. CASE sampled' # {}
    <3>1. PICK n \in Nat : n = animation
      BY FileAssumption
    <3>2. PICK k \in Nat : k = Frames(n)
      BY <3>1, FileAssumption DEF Frames
    <3>3. sampled' = GifFrames(n, k) /\ n >= 2
      BY <1>2, <2>2, <3>1, <3>2, FileAssumption DEF SampleGif, GifFrames
    <3>4. 2 <= k /\ k <= n
      BY <3>2, <3>3, FileAssumption DEF Frames
    <3>5. sampled' \subseteq 0 .. n - 1
      BY <3>3, <3>4, Spread
    <3>6. animation' = n /\ UNCHANGED extract /\ fileAt' \in {"image", "gif"}
      BY <1>2, <3>1 DEF SampleGif
    <3>. QED  BY <3>1, <3>2, <3>3, <3>5, <3>6
  <2>. QED  BY <2>1, <2>2
<1>3. ASSUME fileAt \in {"image", "gif"}, Described PROVE FileInv'
  <2>1. PICK t \in {"text", "empty", "caption"} :
          extract' = [extract EXCEPT !.text = t, !.image = TRUE]
    BY <1>3 DEF Described
  <2>2. /\ DOMAIN extract' = {"text", "chunks", "image", "errors"}
        /\ extract'.text \in {"none", "text", "empty", "caption", "raised"}
    BY <2>1
  <2>3. fileAt' = "document" /\ sampled' = sampled /\ animation' = animation
    BY <1>3 DEF Described
  <2>. QED  BY <2>2, <2>3
<1>4. CASE FinishFile
  BY <1>4 DEF FinishFile
<1>5. CASE UNCHANGED fileVars
  BY <1>5 DEF fileVars
<1>. QED  BY <1>1, <1>2, <1>3, <1>4, <1>5 DEF FileNext, DescribeImage, DescribeGif

\* _sample_gif_frames: the frames looked at are as many as asked for, the first
\* and the last among them, with gaps that differ by one at most, for
\* animations of any length.
THEOREM FramesAreSpread == FileSpec => []FramesSpread
<1>1. FileInv => FramesSpread
  <2>. SUFFICES ASSUME FileInv, sampled # {} PROVE FramesSpread
    BY DEF FramesSpread
  <2>1. PICK n \in Nat : n = animation
    BY FileAssumption DEF FileInv, FileTypeOK
  <2>2. PICK k \in Nat : k = Frames(n)
    BY <2>1, FileAssumption DEF Frames
  <2>3. 2 <= k /\ k <= n
    BY <2>1, <2>2, FileAssumption DEF Frames, FileInv
  <2>4. sampled = GifFrames(n, k)
    BY <2>1, <2>2 DEF FileInv
  <2>. QED  BY <2>1, <2>2, <2>3, <2>4, Spread DEF FramesSpread
<1>. QED  BY <1>1, FileInitInv, FileNextInv, PTL DEF FileSpec
===============================================================================
