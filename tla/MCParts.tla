------------------------------- MODULE MCParts --------------------------------
(***************************************************************************)
(* The components that share no state with the others, for TLC: a          *)
(* behaviour picks one of them and runs it, and the others stay in an      *)
(* initial state.  The state graph is the sum of the graphs of the parts.  *)
(***************************************************************************)
EXTENDS CpuBudget, PdfStream, PageWorker, Telemetry, Retrieval, PromptBudget,
        BookDescribe, Ask, Access, ConversationStream, ImageStream, Uploads,
        Answering, Ocr, StandaloneFile, Ralph

VARIABLE part

\* The initial state in which a part that does not run stays.
Resting ==
  /\ part # "cpu" => delegating = FALSE
  /\ part # "pdf" => layer = [p \in Page |-> "full"]
  /\ part # "page" => drawn = [l \in Leaf |-> {}]
  /\ part # "retrieval" => sizes = <<>>
  /\ part # "prompt" => text = <<0>>
  /\ part # "book" => book = [starts |-> <<>>, headers |-> {}, pages |-> {}, tokens |-> 0,
                              long |-> FALSE, single |-> FALSE]
  /\ part # "ask" => status = "processing"
  /\ part # "stream" => indexed = "ready"
  /\ part # "image" => references = FALSE
  /\ part # "uploads" => record = "none"
  /\ part # "answering" => unit = TRUE /\ limit = HalfTurn
  /\ part # "ocr" => localOcr = FALSE
  /\ part # "file" => animation = 1
  /\ part # "ralph" => head = [a \in Area |-> CHOOSE v \in Version : TRUE]

PartsInit ==
  /\ part \in {"cpu", "pdf", "page", "telemetry", "retrieval", "prompt", "book",
               "ask", "access", "stream", "image", "uploads",
               "answering", "ocr", "file", "ralph"}
  /\ Resting
  /\ Init /\ PdfInit /\ PageInit /\ TelemetryInit /\ RetrievalInit /\ PromptInit
  /\ BookInit /\ AskInit /\ AccessInit /\ StreamInit /\ ImageInit /\ UploadInit
  /\ AnsweringInit /\ OcrInit /\ FileInit /\ RalphInit

\* All parts rest but p.
Still(p, q, partVars) == IF p = q THEN TRUE ELSE UNCHANGED partVars

Rest(p) ==
  /\ part = p /\ UNCHANGED part
  /\ Still(p, "cpu", vars)
  /\ Still(p, "pdf", pdfVars)
  /\ Still(p, "page", pageVars)
  /\ Still(p, "telemetry", telemetryVars)
  /\ Still(p, "retrieval", retrievalVars)
  /\ Still(p, "prompt", promptVars)
  /\ Still(p, "book", bookVars)
  /\ Still(p, "ask", askVars)
  /\ Still(p, "access", accessVars)
  /\ Still(p, "stream", streamVars)
  /\ Still(p, "image", imageVars)
  /\ Still(p, "uploads", uploadVars)
  /\ Still(p, "answering", answeringVars)
  /\ Still(p, "ocr", ocrVars)
  /\ Still(p, "file", fileVars)
  /\ Still(p, "ralph", ralphVars)

PartsNext ==
  \/ part = "cpu" /\ Next /\ Rest("cpu")
  \/ part = "pdf" /\ PdfNext /\ Rest("pdf")
  \/ part = "page" /\ PageNext /\ Rest("page")
  \/ part = "telemetry" /\ TelemetryNext /\ Rest("telemetry")
  \/ part = "retrieval" /\ RetrievalNext /\ Rest("retrieval")
  \/ part = "prompt" /\ PromptNext /\ Rest("prompt")
  \/ part = "book" /\ BookNext /\ Rest("book")
  \/ part = "ask" /\ AskNext /\ Rest("ask")
  \/ part = "access" /\ AccessNext /\ Rest("access")
  \/ part = "stream" /\ StreamNext /\ Rest("stream")
  \/ part = "image" /\ ImageNext /\ Rest("image")
  \/ part = "uploads" /\ UploadNext /\ Rest("uploads")
  \/ part = "answering" /\ AnsweringNext /\ Rest("answering")
  \/ part = "ocr" /\ OcrNext /\ Rest("ocr")
  \/ part = "file" /\ FileNext /\ Rest("file")
  \/ part = "ralph" /\ RalphNext /\ Rest("ralph")

PartsSpec ==
  PartsInit /\ [][PartsNext]_<<part, vars, pdfVars, pageVars, telemetryVars,
    retrievalVars, promptVars, bookVars, askVars, accessVars, streamVars,
    imageVars, uploadVars, answeringVars, ocrVars, fileVars, ralphVars>>

\* Questions are alike, and so are chunks.
PartsSymmetry == Permutations(Asker) \cup Permutations(Chunk)

\* The type invariants of the parts.
PartsTypeOK ==
  /\ TypeOK /\ PdfTypeOK /\ PageTypeOK /\ TelemetryTypeOK /\ RetrievalTypeOK
  /\ PromptTypeOK /\ BookTypeOK /\ AskTypeOK /\ AccessTypeOK /\ StreamTypeOK
  /\ ImageTypeOK /\ UploadTypeOK /\ AnsweringTypeOK /\ OcrTypeOK
  /\ FileTypeOK /\ RalphTypeOK
===============================================================================
