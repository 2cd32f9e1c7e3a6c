----------------------------- MODULE MCEventRelay -----------------------------
(***************************************************************************)
(* The row sequences a worker writes for one conversation, cut to a model  *)
(* TLC can enumerate.                                                      *)
(***************************************************************************)
EXTENDS EventRelay

Row(type, text) == [type |-> type, text |-> text]

MCEventId == 1 .. 4

\* Native-text document: one welcome, the wiki, complete repeats the welcome.
Native == <<Row("welcome_message", "early"), Row("wiki_message", "wiki"),
            Row("complete", "early")>>
\* Heavy OCR: a second welcome, and complete carries the regenerated text.
HeavyOcr == <<Row("welcome_message", "early"), Row("welcome_message", "full"),
              Row("complete", "full")>>
\* No welcome could be generated.
Undescribed == <<Row("page_progress", ""), Row("complete", "")>>
\* The job fails after its welcome, is nacked, redelivered and completes.
Redelivered == <<Row("welcome_message", "early"), Row("error", "boom"),
                 Row("welcome_message", "full"), Row("complete", "full")>>
\* Hits the worker's timeout; the abandoned thread completes all the same.
TimedOut == <<Row("welcome_message", "early"), Row("error", "timeout"),
              Row("complete", "early")>>
\* The INSERT of the welcome row failed, those of the rows after it did not.
WelcomeLost == <<Row("wiki_message", "wiki"), Row("complete", "early")>>

MCScripts == {Native, HeavyOcr, Undescribed, Redelivered, TimedOut, WelcomeLost}
===============================================================================
