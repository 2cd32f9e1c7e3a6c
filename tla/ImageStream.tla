------------------------------ MODULE ImageStream ------------------------------
(***************************************************************************)
(* One streamed image: generate_image_streaming with its retries           *)
(* (python/src/shared/image_gen.py) in a thread of the Python server, the  *)
(* generator of POST /generate-image-stream (python/src/server.py), and    *)
(* the backend that relays its events to the browser and stores the image  *)
(* (backend/src/routes/image-gen.ts, python/image-gen.ts).                 *)
(*                                                                         *)
(* Left out: the prompt, the images, telemetry, the copy to GCS and the    *)
(* library's row, whose failures are logged and change nothing here.       *)
(***************************************************************************)
EXTENDS Naturals, Sequences, SequencesExt

CONSTANT MaxFrames   \* bound: partial frames of one attempt

ASSUME ImageAssumption == MaxFrames \in Nat

VARIABLES
  references, \* reference images were given and exist
  run,        \* _run: "prompt", "edit", "blocking", "first", "second", "done", "failed"
  frames,     \* partial frames of this attempt
  fellBack,   \* the blocking edit has saved an image
  saved,      \* images in the storage directory
  events,     \* event_queue of the Python server
  serving,    \* its generator: "on", "ended", or "cut" with its connection
  pipe,       \* NDJSON lines on their way to the backend
  relay,      \* the route: "reading", "final", "framed", "stored", "ended"
  browser,    \* "open" or "closed"
  sent,       \* what the browser was sent
  answered    \* the assistant message is stored

threadVars == <<references, run, frames, fellBack, saved>>
serverVars == <<events, serving>>
routeVars == <<relay, browser, sent, answered>>
imageVars == <<threadVars, serverVars, pipe, routeVars>>

Terminal == {"complete", "error"}

\* The question is stored, the headers and user_message are written.
ImageInit ==
  /\ references \in BOOLEAN
  /\ run = "prompt" /\ frames = 0 /\ fellBack = FALSE /\ saved = 0
  /\ events = <<>> /\ serving = "on" /\ pipe = <<>>
  /\ relay = "reading" /\ browser = "open" /\ sent = <<>> /\ answered = FALSE

-------------------------------------------------------------------------------
(* The thread *)

BuildPrompt ==
  /\ run = "prompt"
  /\ \/ /\ run' = IF references THEN "edit" ELSE "first"
        /\ events' = Append(events, "prompt_ready")
     \/ run' = "failed" /\ UNCHANGED events
  /\ UNCHANGED <<references, frames, fellBack, saved, serving, pipe, routeVars>>

Frame ==
  /\ run \in {"edit", "first", "second"} /\ frames < MaxFrames
  /\ frames' = frames + 1
  /\ events' = Append(events, "partial")
  /\ UNCHANGED <<references, run, fellBack, saved, serving, pipe, routeVars>>

FinalFrame ==
  /\ run \in {"edit", "first", "second"}
  /\ run' = "done" /\ saved' = saved + 1
  /\ UNCHANGED <<references, frames, fellBack, serverVars, pipe, routeVars>>

\* Streaming fails, before or after some frames: edit falls back to the
\* blocking generate_image, generate is tried once more.
AttemptFails ==
  /\ run' = CASE run = "edit" -> "blocking" [] run = "first" -> "second"
              [] run = "second" -> "failed" [] OTHER -> "none"
  /\ run' # "none" /\ frames' = 0
  /\ UNCHANGED <<references, fellBack, saved, serverVars, pipe, routeVars>>

\* generate_image tries edit, edit with the emphasised prompt and, when that
\* was blocked by moderation, generate.  It returns the file name only: the
\* caller's result["revised_prompt"] raises KeyError.
BlockingEdit ==
  /\ run = "blocking" /\ run' = "failed"
  /\ \/ saved' = saved + 1 /\ fellBack' = TRUE
     \/ UNCHANGED <<saved, fellBack>>
  /\ UNCHANGED <<references, frames, serverVars, pipe, routeVars>>

-------------------------------------------------------------------------------
(* The generator: queued events first, then the outcome of the thread *)

ServeEvent ==
  /\ serving = "on" /\ events # <<>>
  /\ pipe' = Append(pipe, Head(events)) /\ events' = Tail(events)
  /\ UNCHANGED <<threadVars, serving, routeVars>>

ServeOutcome ==
  /\ serving = "on" /\ events = <<>> /\ run \in {"done", "failed"}
  /\ pipe' = Append(pipe, IF run = "done" THEN "complete" ELSE "error")
  /\ serving' = "ended"
  /\ UNCHANGED <<threadVars, events, routeVars>>

\* The response breaks off, with the server or without.
ResponseBreaksOff ==
  /\ serving = "on" /\ serving' = "cut"
  /\ UNCHANGED <<threadVars, events, pipe, routeVars>>

-------------------------------------------------------------------------------
(* The route *)

Sends(event) == sent' = IF browser = "open" THEN Append(sent, event) ELSE sent

Relay ==
  /\ relay = "reading" /\ browser = "open" /\ pipe # <<>>
  /\ pipe' = Tail(pipe)
  /\ CASE Head(pipe) = "complete" -> relay' = "final" /\ UNCHANGED sent
       [] Head(pipe) = "error" -> relay' = "ended" /\ Sends("error")
       [] OTHER -> Sends(Head(pipe)) /\ UNCHANGED relay
  /\ UNCHANGED <<threadVars, serverVars, browser, answered>>

\* Mutant: a stream that broke off ends as one that was closed.
RelayLosesQuietly ==
  /\ relay = "reading" /\ browser = "open" /\ pipe = <<>> /\ serving = "cut"
  /\ relay' = "ended"
  /\ UNCHANGED <<threadVars, serverVars, pipe, browser, sent, answered>>

\* The response breaks off before its outcome: a read that raises, or an end
\* of the stream without a final result.
RelayLoses ==
  /\ relay = "reading" /\ browser = "open" /\ pipe = <<>> /\ serving = "cut"
  /\ relay' = "ended" /\ Sends("error")
  /\ UNCHANGED <<threadVars, serverVars, pipe, browser, answered>>

\* Without partial frames the final image, if it can be read, is sent as one.
SyntheticFrame ==
  /\ relay = "final" /\ relay' = "framed"
  /\ \/ "partial" \notin ToSet(sent) /\ Sends("partial")
     \/ UNCHANGED sent
  /\ UNCHANGED <<threadVars, serverVars, pipe, browser, answered>>

\* finalizeGeneratedImage stores the message; when that raises, an error is
\* sent, unless the browser has gone.
StoreImage ==
  /\ relay = "framed"
  /\ \/ relay' = "stored" /\ answered' = TRUE /\ UNCHANGED sent
     \/ relay' = "ended" /\ Sends("error") /\ UNCHANGED answered
  /\ UNCHANGED <<threadVars, serverVars, pipe, browser>>

TellComplete ==
  /\ relay = "stored" /\ relay' = "ended"
  /\ Sends("complete")
  /\ UNCHANGED <<threadVars, serverVars, pipe, browser, answered>>

\* The teardown aborts the request to the Python server: its generator is
\* cancelled, its thread goes on, and a route that is reading returns.
BrowserLeaves ==
  /\ browser = "open" /\ relay # "ended"
  /\ browser' = "closed"
  /\ serving' = IF serving = "on" THEN "cut" ELSE serving
  /\ relay' = IF relay = "reading" THEN "ended" ELSE relay
  /\ UNCHANGED <<threadVars, events, pipe, sent, answered>>

ImageNext ==
  \/ BuildPrompt \/ Frame \/ FinalFrame \/ AttemptFails \/ BlockingEdit
  \/ ServeEvent \/ ServeOutcome \/ ResponseBreaksOff
  \/ Relay \/ RelayLoses \/ SyntheticFrame \/ StoreImage \/ TellComplete
  \/ BrowserLeaves

ImageSpec == ImageInit /\ [][ImageNext]_imageVars

-------------------------------------------------------------------------------
(* Properties *)

Sendable == {"prompt_ready", "partial", "complete", "error"}

ImageTypeOK ==
  /\ references \in BOOLEAN /\ fellBack \in BOOLEAN /\ answered \in BOOLEAN
  /\ run \in {"prompt", "edit", "blocking", "first", "second", "done", "failed"}
  /\ frames \in 0 .. MaxFrames /\ saved \in Nat
  /\ events \in Seq({"prompt_ready", "partial"}) /\ pipe \in Seq(Sendable)
  /\ serving \in {"on", "ended", "cut"}
  /\ relay \in {"reading", "final", "framed", "stored", "ended"}
  /\ browser \in {"open", "closed"} /\ sent \in Seq(Sendable)

\* Where a sequence of events has its outcomes.
Outcomes(s) == {k \in DOMAIN s : s[k] \in Terminal}

\* "the final 'complete' or 'error' event carries the outcome the caller
\* needs": a browser that stays is told one outcome, last, whatever attempts
\* failed and wherever the response broke off; complete means that the message
\* is stored and its image exists.
OneOutcome ==
  /\ \A k \in Outcomes(sent) : k = Len(sent)
  /\ relay = "ended" /\ browser = "open" => Outcomes(sent) # {}
  /\ \A k \in Outcomes(sent) : sent[k] = "complete" => answered /\ saved > 0

\* image_gen.py:396: "If the runtime/account does not support edit streaming,
\* we gracefully fall back to the blocking edit path": the image the fallback
\* made is delivered.
FallbackDelivers == fellBack => run # "failed"
===============================================================================
