# ChatRAG in TLA+

ChatRAG is a "chat with your files" application: a browser uploads files, a
Node backend (`backend/src`) stores them and has them indexed, a Python engine
(`python/src`) extracts, describes, embeds and answers, PostgreSQL holds
conversations, messages and the `indexing_events` table, Chroma holds the
chunks. In `WORKER_MODE=cloud_run` an indexing job is a Pub/Sub message that a
`chatrag-worker` process takes; the worker talks back through rows of
`indexing_events`, whose INSERT trigger NOTIFYs every backend replica; one
replica claims each row, updates the conversation, and relays it to the
browser over SSE.

This directory models that path and the parts around it (the routes that start
jobs, questions, access, event streams and images in the backend; the PDF
pipelines, OCR, embedding, answers, budgets, book compaction and error telemetry
in the engine; the loop that runs a coding agent on the repository), checks them
with TLC and proves their safety properties with TLAPS. These are the places
where processes, threads and callbacks meet, messages are redelivered,
connections drop and processes die; a unit test of any one function sees none
of it.

```
 publishIndexingJob        Pub/Sub            chatrag-worker
 (backend/routes) ------> message ------> _process_message, index_documents
                                              |      |         |
                          IndexingWorker      |      |         +--> CPU slots   CpuBudget
                                              |      +------------> Chroma
                                              v
                                   indexing_events (INSERT, NOTIFY)             EventLog
                                              |
                          replicas: LISTEN, drain, claim                        IndexingListener
                                              |
                          handleIndexingEvent: messages, status, metadata       EventRelay
                                              |
                                              v  SSE (same process only)
                                           browser                              ConversationStream

 routes of the backend                        the engine's pipelines
   uploads, inline jobs    Uploads              pages of a PDF       PdfStream, PageWorker
   questions, re-indexing  Ask                  chunks to vectors    Retrieval
   access requests         Access               token budgets        PromptBudget
   streamed images         ImageStream          welcome of a book    BookDescribe
                                                scans, other files   Ocr, StandaloneFile
 ralph/ (a coding agent    Ralph                one answer           Answering
   on this repository)                          error rows           Telemetry -> ErrorLog
```

## Modules

| Module | Models | Proofs |
|---|---|---|
| `EventLog` | what the `indexing_events` table promises: inserted once, claimed at most once, never unclaimed | (the abstract specification of the next two) |
| `IndexingListener` | `indexing-events-listener.ts`, `claimIndexingEvent`, the NOTIFY trigger | `IndexingListenerProofs` |
| `EventRelay` | `indexing-handler.ts`, over one conversation, on several replicas | `EventRelayProofs` |
| `CpuBudget` | `cpu_budget.py` and the reserve, delegate and release code of `indexing.py` | `PartProofs` |
| `IndexingWorker` | `worker_pubsub.py` and the job of `indexing.py`, over all deliveries of one message | `IndexingWorkerProofs` |
| `PdfStream` | `streaming_pdf.py` with `_on_page_ready` of `indexing.py`, over the deliveries of a job | `PipelineProofs` |
| `PageWorker` | `process_pdf_parallel` and its page threads (`page_worker.py`) | `PipelineProofs` |
| `Retrieval` | `upsert_chunks`: batching, parallel embedding, adding (`vector_store.py`) | `TextProofs` |
| `PromptBudget` | the loops that trim a prompt (`rag.py`) and cut a text (`describe.py`) | `TextProofs` |
| `BookDescribe` | `describe_documents` with chapters, sections and groups (`describe.py`, `chapters.py`) | `TextProofs` |
| `ErrorLog` | what the error telemetry promises: a lossy first-in first-out log | (the abstract specification of the next) |
| `Telemetry` | the queue, writer thread and flush of `telemetry.py` | `PartProofs` |
| `Ask` | `POST /ask`, `ensureCollectionIndexed`, numbering of citations | `RouteProofs` |
| `Access` | conversations, access requests, approvals, tokens | `RouteProofs` |
| `ConversationStream` | the SSE routes from their read to their teardown | `RouteProofs` |
| `Uploads` | the routes that add documents, with their in-process jobs | `RouteProofs` |
| `ImageStream` | a streamed image from its thread to the browser | `RouteProofs` |
| `Answering` | `POST /answer`: routing, retrieval, prompt, citations (`server.py`, `rag.py`, `vector_store.py`) | `TextProofs` |
| `Ocr` | `ocr_pdf_page` with the local program and its cache (`extractors.py`) | `PipelineProofs` |
| `StandaloneFile` | one file that is not a PDF (`page_worker.py`, `extractors.py`) | `PipelineProofs` |
| `Ralph` | `loop()` of `agent_ralph_loop.py` with its agents and feedback loops | `PartProofs` |
| `MCParts` | the components that share no state, as one specification | `PartProofs` |
| `MC*` | constants and symmetry for TLC | |
| `NumberFacts` | nothing of the program: least and greatest numbers, induction, recursive functions and quotients, for the proofs | (all lemmas) |

The modules meet at the event log. `IndexingListener` refines `EventLog` through
`INSTANCE`; `EventRelay` extends `EventLog`, takes its rows and claims from it and
adds what a handler does between the claim and the end. `IndexingWorker` is the producer of the rows: the scripts
of `MCEventRelay` are row sequences it writes. `CpuBudget` is the resource its
job takes and returns, and the failure its `Release` action can inject (the
`ValueError` of an over-release) is the one `CpuBudget` exhibits. `Telemetry`
refines `ErrorLog` through `INSTANCE ... WITH`: the abstract backlog is the queue
with the row in the writer's hands put before it.

The other modules meet through what one leaves to the next, and each takes the
other side as any value it can have: `PdfStream` and `PageWorker` are what
happens inside the job of `IndexingWorker`, which sees their pages as an upsert;
`BookDescribe` is its early description; the jobs of `Uploads` deliver the
events of such a job in every order; `Ocr` is what `PdfStream` calls for a page
without text, and `StandaloneFile` what stands beside the PDF pipelines;
`Answering` is the inside of the call that `Ask` makes; `Ask` sees indexing as the chunks and the
welcome it delivers; `ConversationStream` sees it as the status it leaves.

### IndexingListener

State: for each row its life (`evt`), the replica that claimed it (`owner`) and
the drain loop that did (`via`); for each replica whether it runs, the sessions
that LISTEN (`sock`), the module-level variable `client`, the reconnect timer,
where each `connect()` call is (`loop`), the rows a drain loop has still to do
(`batch`), NOTIFYs in flight (`wire`) and `processEvent` calls about to claim
(`notif`).

A replica has a *set* of sessions on purpose: `connect()` assigns `client` and
then drains, and when the drain's query rejects, its `catch` schedules a
reconnect without closing the session it has. Each `await` of the code ends an
action: `Listening` (LISTEN is in force), `DrainPick` (the SELECT), `DrainClaim`
(the UPDATE ... WHERE processed_at IS NULL), `NotifyClaim` (the same UPDATE from
a fire-and-forget handler call). `ClientError` ends the module-level client,
whichever session the error came from, as `handleClientError` does.

### EventRelay

State: the rows the worker writes (`script`, numbered from 1 as the table's ids
order them), for each running handler the
await it is at (`pc`) and what it read (`draft`), the conversation
(`messages`, `status`, `described`), what reached the browser (`shown`), and which
rows were begun before all earlier ones were handled (`ahead`, for the properties).
There is one action per awaited query: find the welcome, insert it, write the
metadata, read and write the welcome for a merge, set the status, insert the
wiki, emit. `SwallowedFailure` is a query that fails inside one of the
handler's own `try` blocks, `HandlerThrows` one outside them, `Crash` takes
every handler of a replica at once. A message is the set of texts merged into
it; citations, suggestions and the page counts of the footer are left out.

### CpuBudget

State: `_in_use`, the value of the `BoundedSemaphore`, each job's phase and the
slots it asked for. `Reserve` and the refusal are `try_reserve` (one step, under
`_budget_lock`), `Delegate` and `RunOver` the two ways on after a refusal,
`Finish` the `finally` of `index_documents` with `release`, which raises at the
semaphore's bound before `_in_use` is decremented.

### IndexingWorker

State: the message, and for each delivery (an *attempt*) the worker it went to
and four threads of control: the callback (`cb`), the job in the executor
(`job`), the early description of a PDF and its done-callback (`early`), and
the upsert submitted to the pool (`upsert`); the rows each attempt wrote or
lost, the closure variable `welcome_emitted`, and whether Chroma holds chunks.

Points where the code is subtler than it looks, all kept in the model:

- the timeout of `_process_message` ends the callback only; the job's thread,
  its pool and the early description go on;
- on Python 3.11 `futures.TimeoutError` *is* the builtin `TimeoutError`, so one
  raised inside the job takes the timeout branch (error row, **ack**), not the
  transient-failure branch (error row, **nack**): two outcomes in `JobDone`;
- `_emit_event_to_db` swallows a failed INSERT, but `pool.getconn()` is outside
  its `try`: a row can be lost with the caller going on, or with an exception
  in the caller (`EmitEventToDb` against the `LoseRow` branches);
- `welcome_emitted` is tested and set in two steps by two threads, and set only
  after the row was written;
- moderation runs after the early description and the streamed upserts; on a
  rejection the collection is deleted, and a deletion that fails is swallowed;
- the pool is joined on the way out of the job, whatever the outcome.

### PdfStream

State: the text layer of each page, the position of the scan, each page's OCR
job, the futures still to be yielded, the outcome being emitted, and the two
stores: `row` (table `pdf_pages`) and `stored` (chunks in Chroma). `Scan` emits a
page with enough text and queues the others, `OcrEnds` is a pool thread, `Drain`
one turn of `as_completed`, `Save` and `Index` the two halves of the callback
`_on_page_ready`, whose failures `_emit` swallows. `Redeliver` starts again from
page 1 with both stores as they are: `save_page` overwrites, `collection.add`
does not (`Added`). A text is what it came from: the text layer gives the same in
every delivery, an OCR text bears the delivery it was made in, because the model
that reads the page words it anew.

### PageWorker

State: where each call `process_pdf_page` is, the listed images it has still to
look at, those that passed the unlocked test, the shared set `seen`, and the
main thread's results, early texts and retries. The double-checked claim is two
actions, `LookAtImage` (test, then `get_image_rects`) and `ClaimImage` (test
again under the lock, claim, extract); a page that fails keeps its claims.

### Retrieval, PromptBudget, BookDescribe

`Retrieval` has `_build_token_aware_batches` as a recursive function (`Batched`,
the batches and the open one after each text) and the threads of `embed_texts` as
`EmbedBatch`, each writing its slice of one list. `PromptBudget` holds two loops,
one action per pass: `Search` and `Shrink` of the text's cut, where a text is the
number of tokens of each of its prefixes, and `Trim` of the prompt's sections.
`BookDescribe` computes chapters, sections and groups (`Packed`, recursive over the
sections) as functions of the table of contents, the pages with a `# Page N` header
and those of them with text, and runs through the strategies `compact`, `split` and
`ask` with one action per request; retries after 429 are `Refused429`. `TextOf` is
the text of a group, `Sent` what the limit of a request leaves of it.

### Telemetry and ErrorLog

State: the bounded queue, the writer thread and the row it holds, what was
written, refused or failed, and the flush. `LogError` starts a writer when there
is none; `TakeRow` and `WriteRow` are the two halves of the loop; `EndFlush` polls
`empty()`, which says nothing about the row the writer holds.

### Ask

State: the conversation as its indexing leaves it (`status`, `welcomed`,
`collection`), the messages, and per request where it is and what it read when it
began: whether it was ready (`wasReady`), the number of each chunk (`numbers`) and
where the answers are (`answersSeen`). The citations of a message are a function
from chunks to numbers. Between any two actions of a request other
requests, the indexing, an added file's job, a delegated job or the loss of Chroma's
collection may act, and a rejected job or re-index deletes the collection whoever
filled it (`Empty`). `reindexed` is what a request's own `POST /index` has added. `Answer` renumbers citations from the snapshot of the request
(`Renumber`), and `StoreAnswer` appends them to the conversation as it is by then.

### Access, ConversationStream, Uploads, ImageStream

`Access`: tokens by the role they are derived for (all editors of a conversation
share one), requests, and each approval call with one step per statement.
`ConversationStream`: `Connect`, `ReadStatus` (the last await), `Open` (catch-up,
subscription and `bindStreamLifecycle` in one synchronous step), against
`WriteOutcome` and `EmitOutcome` of the handlers, which are separated by an await.
`Uploads`: status, jobs and welcomes of one conversation; `Begin` sets
`processing`; `Prepare` (the owner's token, the files), `Complete`, `Fails`,
`Rejected`, `EndIsSkipped` (the last line of the stream is malformed and dropped)
and `Delegated` are the ways a request or a job goes on, `WorkerEnds` the end of a
delegated one.
`ImageStream`: the thread with its three attempts, the generator of the Python
server, the pipe, the route and the browser; every one of them can stop first.

### Answering

State: where one request is, the collection (each chunk's distance and cosine,
nearest first), the retrieved rows as places in it (`Ranked` sorts places by a
score and keeps ties in order), what is put into the prompt, and the numbers in
the answer with the chunks they are cited for. `AnswerExif`, `AnswerRecognized` and
`OrdinaryQuestion` are the routing of `/answer`. `Retrieve` takes `L2Rows` or
`HybridRows`: nearest, distance cap, re-ranking, cut, in the order of the code;
`LimitImages` drops images beyond the cap; `Compose` chooses style, pages and
chapter, `Remember` the messages of the history that fit; `CallModel` may fail;
`Number` renumbers. Each step's data are chosen in that step and forgotten when
nothing later reads them, so the steps add up and do not multiply.

### Ocr, StandaloneFile

`Ocr`: per call of `ocr_pdf_page` (one per page and caller: the prefetch of the
welcome, the pipeline) where it is and what it got; the cache, the lock and the
welcome the prefetch ends with. `LookLocked` is the lock and the look into the
cache, `LocalOcrWrites` and `LocalOcrFails` the program run under the lock; only a
success is cached. `StandaloneFile`: the branches of `extract_text`, the frames
sampled from a GIF (`GifFrames`, with Python's rounding), descriptions that fail
into a caption, chunks.

### Ralph

State: where `loop()` is, its configuration, the description file, and the
repository as the version each area is at, in HEAD, in the working tree and at
`start_sha`. The agent is any change: of the tree (`AgentEdits`), with commits of
its own (`AgentCommits`), elsewhere (`RemoteAgent`), none (`NoAgent`), an exception.
`Ran` is the set of areas whose feedback loops run, `Commit` needs them to pass,
`Frozen` is the comparison of diff digests, `LoopDies` the end at any point; the
next run begins with what it left.

## Runs

| Run | Question | Bounds | Distinct states |
|---|---|---|---|
| `listener` | Do replicas with dropped connections, crashes and failed queries handle every row at most once, never go deaf, never orphan a row? | 2 replicas, 2 rows, 2 sessions, LIMIT 1, 1 fault | 1.24 M |
| `listener_live` | Is every row claimed in the end? | 1 replica, 2 rows, 3 sessions, LIMIT 1, 2 faults | 277 k |
| `relay` | Do interleaved handlers keep status, messages and the browser consistent? | 2 replicas, up to 4 rows, 6 scripts, 1 fault | 274 k |
| `worker` | Does the worker keep the promises the backend relies on? | 1 worker, 2 deliveries, PDF or not, 1 fault | 2.4 M |
| `worker_live` | Is the message always settled? | 2 workers, 2 deliveries, no PDF, 1 fault | 442 k |
| `parts` | Do the components that share no state keep their promises? | see below | 367 k |

Why these bounds are enough for the cases of interest. `listener`: a LIMIT of 1
makes every batch a full one, so the "pick again" branch is always taken, and
two rows force a second pick; two sessions are needed for a leaked session next
to a new one. `listener_live` needs two faults to break the same replica twice
and a third session for the reconnect after that. `relay`: the scripts are the
shapes of row sequences the worker writes (native PDF, heavy OCR with a
regenerated welcome, no welcome, a redelivered job, a timed-out one, one whose
welcome row could not be inserted), and two replicas separate the claimer from the one that holds the browser. `worker`: two deliveries are a retry after any
failure (and, with a lost lease, a second attempt beside the first); one fault
covers each single failure in each place. With one worker a lost lease cannot
be delivered elsewhere while the callback blocks, so `worker_live` has two.
The question of `worker_live` is about the callback, which the early
description of a PDF does not touch, so it leaves PDFs out. Every run ends when
its rows, jobs or deliveries are used up, so deadlock is not checked.
The theorems below hold for every value of these constants.

`parts` checks sixteen specifications at once. They have no variable in common,
so their conjunction would only multiply their state graphs; instead a behaviour
of `MCParts` picks one part in its initial state and runs it while the others
stay in one initial state each. The graph is the sum of the parts' graphs, and an
invariant or an action property of a part holds of the sum exactly when it holds
of the part. Its bounds, part by part:

- CPU budget: demands of 1 and 2 on a budget of 3 (six CPUs) leave room for one
  of each, and four jobs over-run it more than once.
- `PdfStream`: 2 pages of every kind of text layer, 2 deliveries, 1 fault: a page
  in OCR while the other is emitted or still to come, one failure on two pages, and
  a second run over what a first left in both stores.
- `PageWorker`: 3 pages drawing or not drawing 1 image on 2 threads, 2 faults:
  two threads race for the claim while a third page waits; a failure of a page
  and one of its retry.
- `Telemetry`: 4 rows on a queue of 2: the queue is full while the writer holds a
  third row and a fourth is refused.
- `Retrieval`: up to 5 texts of 1, 2 or 5 tokens, a budget of 4, batches of 3 and
  adds of 2: both limits of a batch are met, one text alone is over the budget,
  and the two batch sizes fall out of step.
- `PromptBudget`: every text of up to 5 characters, its prefixes of 0 to 4 tokens,
  against a budget of 2; sections of 0 to 40,000 characters against the real constants of
  the prompt (255,000 tokens, floor 500, mark 35, 12 passes).
- `BookDescribe`: 3 pages, any set of them with a header and any set of those with
  text, any sorted table of contents of up to 3 entries with invalid ones among
  them, 2 or 3 groups, requests that take 2 pages, so that some groups are cut.
- `Ask`: 2 questions or image requests and 2 chunks (alike, hence the symmetry), 1
  fault. `Access`: 2 requests, 3
  approval calls, 2 faults: both requests approved, and one of them twice.
- `ConversationStream`: a stream of each of the two routes, 3 connects, one
  re-indexing. `ImageStream`: up to 2 frames per attempt.
- `Uploads`: one job of each kind (stream, files, URL), any two or all three at
  once, one restart.
- `Answering`: up to 4 chunks at distances 1 to 3 around the one of cosine 0, a
  `top_k` of 2 and a fetch of 4: the cut, the cap and ties each decide an order.
  Histories of 3 messages of 1, 2 or 5 tokens against 4, answers of 2 tags on
  sources in and out of range, with and without letters.
- `Ocr`: one document of 2 pages asked for by prefetch and pipeline: 4 calls meet
  at the lock; one failed run. `StandaloneFile`: GIFs of 1 to 60 frames, 6 sent.
- `Ralph`: 2 areas of 2 versions each, one of them broken, 2 iterations, 2 runs of
  the loop: a broken area can be committed, left, and met by the next run.

### What the properties say

`listener`, `listener_live`
- `NoOrphan`: while a row is unprocessed, every running replica has a NOTIFY of
  it, a drain that will read the table again, a reconnect pending, or a claim
  query for it that failed. It is why LISTEN comes before the drain.
- `ListenerComesBack`: a replica whose `client` is null has a timer set or a
  `connect()` under way, and a client it believes in does LISTEN.
- `ImplementsLog`: the listener is an at-most-once log; that the claim is final
  (`NeverHandledTwice`) follows and is proved only.
- `EventuallyClaimed`: every row is claimed unless a claim query failed on it.

`relay`
- `ReadyHasWelcome`: a ready conversation has a welcome the user can see, whichever
  of its rows were lost, raced or handled out of order. The exception (`WikiAhead`)
  is a hidden wiki message that got ahead of the welcome: it is then taken for one.
- `ShownIsStored`: the browser is never told of a welcome or an end that is not
  stored yet, with the same exception.
- `SerialIsReplay`: handled one at a time and unharmed, the await-by-await
  handlers compute the sequential program `Replay` (a recursive function over the rows).
- `CompleteSettles`: a claimed terminal row leads to a terminal status unless that
  row's handler died. That it is claimed is `EventuallyClaimed`.

`worker`, `worker_live`
- `AckedHasVerdict`: a message is acknowledged only when a complete or error
  row was written (or its INSERT failed): the conversation is not silently
  left processing by an ack.
- `WelcomeBeforeComplete`: the welcome a complete row carries was emitted
  before it, although two threads race for the flag.
- `RejectedLeavesNoChunks`: once rejected content was deleted, no attempt that
  was over by then left chunks that come back.
- `MessageSettles`: the message is acknowledged or dead-lettered although the
  job may hang.

`parts`, by module
- `CpuBudget`. `SemaphoreCoversFree`: the semaphore has at least the slots the
  counter calls free, so the "shouldn't happen" branch of `try_reserve` does not.
  `BooksBalance`, `ReleaseIsHarmless`: the counter is exactly what is held, and no
  release raises, until a job runs over budget.
- `PdfStream`. `EveryPageOnce`: a finished run has one outcome for every page, in
  whatever order OCR ended, and errors exactly for the pages that could not be
  opened and OCR gave no text for. `FaultCostsOnePage`: over any deliveries the two
  stores disagree on no more pages than calls failed, not counting the pages that
  OCR read again in a later delivery: of those the row has the later text and the
  chunks are of the earlier.
- `PageWorker`. `ImageHasOneHome`: the unlocked test never leads to a duplicate
  claim. `MissingImageIsBlamed`: an image is missing only by a failure.
- `Telemetry`. `NoRowForgotten`; `ImplementsErrorLog`, the refinement.
- `Retrieval`. `OwnVectors`: each chunk in Chroma has the vector of its own text.
- `PromptBudget`. `CutTextFits`, `OneSectionIsEnough`: the loops end within their
  budgets, the latter for prompts that cutting one section can save.
- `BookDescribe`. `PagesInOneGroup`: every page with text from the first chapter on
  is in one section, and its group was asked for, with it unless the group is
  longer than a request may be.
  `GivesUpOnlyWhenAllLost`: a failed group costs its summary only.
- `Ask`. `NumbersAgree`: a source keeps its number and a number its source, as
  long as no other answer came in between. `NoBlindAnswer`: a question about a
  ready conversation finds chunks, but for named failures and a collection that is
  emptied, by a restart or a rejection, after the request counted or filled it.
- `Access`. `PasswordOpens`: a password that was handed out has its token.
- `ConversationStream`. `NothingMissed`: an open stream knows how the indexing
  ended, except for an end in the gap between read and subscription, and the end
  of `POST .../files`, which nobody announces. `NoHandlerLeak`: handlers are those
  of open streams.
- `ImageStream`. `OneOutcome`: one outcome, last, and true.
- `Uploads`. `StatusFollowsJobs`: nobody waits for a job that is gone, but for the
  named ways to leave a conversation behind.
- `Answering`. `RerankIsIdle`: for unit vectors the hybrid path returns what the
  plain one does, row by row. `TagsResolve`: every number left in an answer is that
  of exactly one citation, and every citation has a tag.
- `Ocr`. `OcrRunsOnce`: the program writes a document once, whoever asks when.
- `StandaloneFile`. `FramesSpread`: as many frames as may be sent, first and last
  among them, spread as evenly as the numbers allow.
- `Ralph`. `RedIsFixedNext`: a commit is tested only in the areas committed before
  it, so a red area can get in; it is never still red after the commit that
  follows, whatever was reverted, restarted or left uncommitted in between.

Several of these name exceptions. Each is a place where the code does not keep
the promise (a hidden wiki message taken for the welcome, an event in the gap of the
SSE route, a finalize that returns early after setting `processing`, overlapping
jobs, files settled before a delegated worker has read them, a collection that
another job's rejection deletes); the property says that there are no others.

### Disagreements between the code and what it says of itself

Six runs check a statement of the source and find it violated:

- `relay_OneWelcome`. `indexing-handler.ts` says the claim is a single-writer
  guarantee "so no further dedup is needed here". The claim is per row: the handlers
  of the two `welcome_message` rows of a heavy-OCR file (early and full description)
  can both find no welcome and both insert one.
- `relay_BrowserSeesHandled`. The same comment says of the replica with the
  browser's socket that it relays. Only the replica that won the claim runs the
  handler, and it emits in-process; if the browser is elsewhere it gets nothing.
- `cpu_granted`. `cpu_budget.py` promises at most half of the CPUs. A job run
  over budget releases slots it never took, after which more is granted than
  the budget.
- `worker_AbandonedIsSilent`. `JOB_TIMEOUT_SEC` is how long a job runs "before
  it is abandoned". The message is acknowledged and an error row written, but
  the thread goes on and may write `complete` later.
- `access_EditorsCanBeApproved`. The owner "can approve editor requests"
  (`ARCHITECTURE.md`). All editors of a conversation get the same token, which is
  the primary key of its table: the second approval always fails on the INSERT
  and its request stays pending.
- `image_FallbackDelivers`. "We gracefully fall back to the blocking edit path"
  (`image_gen.py`). The fallback reads `revised_prompt` from a result that has
  only `file_name`: the image is made, paid for and saved, and the browser is
  sent an error.

Smaller observations without a run, each visible in the definition named:

- `findExistingWelcomeMessageId` says "first assistant message, that's the welcome";
  a wiki message, which is hidden, is an assistant message too. Handled before the
  welcome row, or when the INSERT of that row failed, it is taken for the welcome:
  nothing visible is ever inserted and the conversation becomes ready (`WikiAhead`).
- Two updates of the welcome that run together read the same content, and the
  second overwrites the first (`ReadWelcome`, `WriteWelcome`).
- After one redelivery the rows and the chunks of all OCR pages come from different
  readings of the page images, since one store overwrites and the other does not
  (`Added`).
- Of a group longer than a request may be, the pages behind the cut are never sent,
  and no summary says so (`Sent`).
- A failed INSERT of the owner's token leaves the conversation `processing` with no
  job (`Prepare`), and so does a stream whose last line is malformed: it is skipped,
  and the loop ends without `complete` or `error` (`EndIsSkipped`).
- A rejected file deletes the whole collection, also the chunks of earlier files and
  those another request is about to answer from (`Empty`).
- `describe_documents` says that a book that fits is described in one call, yet
  one of more than `_SPLIT_THRESHOLD` characters is split (`AfterCompaction`).
- In cloud mode a page that yields no text but its `# Page N` header is not
  reported as failed: the header counts as native text (`OcrOutcome`).
- `_normalize_source_tags` says that `[source:3a]` is normalised so that it is
  "picked up"; the scan that gives numbers runs before it, so a source cited only
  with a letter loses its tag (`CitedSources`).
- The cache of local OCR is there so that the program is not "re-run"; a failed
  run is not cached, and every page runs it again under the lock of all documents
  (`LocalOcrFails`).
- A picture whose description fails is indexed as text "Image file: name"
  (`Described`).
- `run_all` speaks of the areas "that the last commit touched"; it is given those
  that differ between `start_sha` and HEAD, before this iteration's commit (`Ran`).
- The digest of a diff repeats only after HEAD was moved back, so freeze detection
  does not stop an agent that stops making progress (`Frozen`).
- The COMPLETE marker is in the issue a remote agent is given, and the polled
  output repeats the issue (`RemoteAgent`).
- `ralph/README.md` says of the progress file that it is "committed with each diff"
  (line 98) and that its directory is gitignored (line 30).

## Fairness

- `IndexingListener`: weak fairness of each `connect()` call's next step, of
  timers, of received notifications and of handlers: Node runs every callback it
  has. Processes that stopped are started again (Cloud Run replaces instances).
  Faults and INSERTs are not fair, and at most `MaxFaults` faults happen.
- `EventRelay`: weak fairness of running handlers, whose queries return or fail.
  Neither the worker's writes nor the claims are fair: the worker may stop
  anywhere, and a claim query that fails leaves its row to the next drain.
- `IndexingWorker`: weak fairness of delivery, dead-lettering and each
  callback's next step. A callback is straight-line code around one wait with a
  timeout. **Nothing is assumed of the job**, which may hang for ever.
- `MCParts` states no fairness: its properties are about safety, and its parts'
  threads and clients may stop anywhere.
- Time is not modelled: a timer that is set may fire, a timeout may expire at
  any moment while it is awaited.

## Proofs

TLAPS proves, for every value of the constants, every safety invariant and action
property that a passing run checks. It assumes only what each module states of its constants
(`ListenerAssumption`, `RelayAssumption`, `CpuAssumption`, `WorkerAssumption`,
`PdfAssumption`, `PageAssumption`, `TelemetryAssumption`, `RetrievalAssumption`,
`PromptAssumption`, `BookAssumption`, `AskAssumption`, `AccessAssumption`,
`StreamAssumption`, `ImageAssumption`, `UploadAssumption`, `AnsweringAssumption`,
`OcrAssumption`, `FileAssumption`, `RalphAssumption`): bounds, sizes and limits are
naturals, and positive where the code divides by them or would do nothing at zero;
the rows of a conversation are numbered from 1 and of known types; the chunks are
finite; an animation may send two frames or more; watched areas are areas. The one
further hypothesis is that of `OneSectionCanBeEnough`, see below.

- `IndexingListenerProofs`: `TypeCorrect`, `AtMostOnce`, `ListenerImplementsLog`,
  `ComesBack`, `NothingOrphaned`. The inductive invariant is
  `TypeOK /\ DownIsClean /\ ListenerComesBack /\ NoOrphan`. `NoOrphan` alone is not
  inductive: after an INSERT the NOTIFY must reach a replica, which takes a
  live client (`ListenerComesBack`), and that takes knowing that a process
  starts with nothing left of its last life (`DownIsClean`). The refinement
  needs only the types.
- `EventRelayProofs`: `TypeCorrect`, `ReadyWithWelcome`, `BrowserBehindStore`,
  `SerialHandlersReplay`. For the first ones the strengthening is `InHandler`: where a
  handler is says what it has stored. It is stable under the other handlers because
  messages are only ever added and a status never returns to processing. That the
  message is a welcome, but for the exception, is `FirstIsWelcome`: a row that did
  not get ahead found the earlier rows handled (`InTurn`) and what they store stored
  (`DoneHeld`), so the first message is hidden only behind a wiki row that got ahead.
  For `SerialIsReplay` it is `SerialInv`: the first n rows are handled,
  at most the next one is being handled, and at each of its awaits the conversation
  is `Replay[n]` with part of that row done (`Partway`).
- `IndexingWorkerProofs`: `TypeCorrect`, `AckMeansVerdict`, `WelcomeComesFirst`,
  `RejectedIsGone`. The inductive invariant says of each thread what it has
  written by the place it is at: `VerdictInv` (a callback about to ack, and a
  job that succeeded, have a verdict), `WelcomeInv` (past the emission the
  current description was emitted), `ChunkInv` (a running upsert belongs to a
  job that will join it; what was over when the collection was deleted stays
  over), `DeliveryInv` (no job before its callback). The lemmas `RowWritten`,
  `RowsGrow` and `RowKeepsOrder` say once what every INSERT does to the rows.
- `PipelineProofs`.
  - `OneClaimPerImage`, `OnlyFaultsLoseImages`: an image that is claimed is with the
    one call that claimed it or was lost by a call that failed (`Claims`, `Losses`);
    a page that has gone past an image leaves it claimed (`GonePast`).
  - `PagesAreEmittedOnce`, `FaultsPayForPages`: a page is ahead of the scan, with
    the OCR pool or emitted (`OnceSoFar`, `ErrorsSoFar`). For the two stores the
    invariant is existential (`FaultsPay`): there is a set of pages, no larger than
    the number of faults, outside of which every page holds in both stores what it
    should, was read again, or is on its way there (`Clean`).
  - `WrittenOnce`: the program runs only in the hands of the one call in the lock,
    for a document without an entry, and an entry stands for one run (`OneRunner`).
  - `FramesAreSpread`: arithmetic of Python's rounding. `Gap` bounds what rounding
    does to the distance of neighbours, `Ahead` keeps the frames apart.
- `TextProofs`.
  - `WhatIsSentFits`: the invariant of the binary search (`CutInv`).
  - `OneSectionCanBeEnough`: `TrimInv(bound)`, where `bound[k]` is the most
    characters the first section has after k passes, under the hypothesis that
    such a bound ends at the floor (`EnoughPasses`). `TwelvePassesAreEnough` gives
    that bound for the constants of the code and sections of up to 206,274
    characters; the loop stops after twelve passes, and longer sections may not be
    at the floor by then.
  - `EveryPageIsAskedFor`, `CompactionIsKept`: sections are apart (`SectionsAreApart`),
    a page from the first chapter on has one (`PageHasSection`), packing gives
    each section one group, in order (`GroupsInOrder`), and when the requests are
    over every group with text was asked for.
  - `EveryChunkHasItsVector`: a batch is an interval of the texts (`BatchIsInterval`),
    so the place at which a slice is written is that of its own text (`PlaceIsOwn`),
    whatever order the answers come in.
  - `RerankChangesNothing`: for unit vectors the score falls where the distance
    grows, and sorting what is in order changes nothing (`PathsAgree`).
  - `EveryTagResolves`: new numbers start above the known ones and count the
    sources by their first tag (`EarlierNumbers`, `OwnNumbers`).
  - `RetrievalTypes`, `PromptTypes`, `BookTypes`, `AnsweringTypes`: most of a type
    is in the invariants above, and what is left is joined to them. The last says
    of a sort that it exists (`LastPlace`, `RankedPlaces`: finitely many places can
    be put in order, so `Ranked` chooses a sequence and not just anything), that
    both retrieval paths give at most `TopK` rows of the collection
    (`RetrievedRows`), and that the best chapter is one of the rows' (`BestIsAChapter`).
- `RouteProofs`: `PasswordsOpen` (an approval past its INSERT has the token, and no
  token is deleted), `AnswersSee` (a request that goes on to answer is excused or
  the collection is not empty, and so is one whose re-index has added chunks), `HandlersAreOpen` and `EndsAreTold` (inductive
  together with the types), `StatusIsFollowed` (without overlap at most one job is
  at work, here or with a worker, and while nothing was abandoned a delegated job
  is over here: `OneAtWork`),
  `ChunksKeepNumbers` (what a request knows is what some prefix of the messages
  says, and its answer only adds to it: `HasRead`, `RowsExtend`; the renumbering
  keeps numbers apart: `RenumberExtends`), `AskTypes` (what a request has read are
  messages and chunks there are), `OneOutcomeIsTold` (on the pipe and on
  the response an outcome is last, and `complete` means that the image is saved and
  the message stored: `ImageInv`).
- `PartProofs`: `CountersInRange`, `SemaphoreCovers`, `RefusalMeansFull`,
  `PolicyLeavesRoom` (`BudgetInv`: a release that raises fills the semaphore and
  leaves the counter, the safe direction); `BooksAreExact`, `NoResultLost`
  (`BooksInv`: while no job ran over budget the counter is the number of the slots
  held, counted as a set of pairs of a job and a slot); `QueueTypeCorrect`,
  `NothingForgotten`, `TelemetryImplementsLog` (`QueueInv`: a row logged so far is
  settled, with the writer, or at one position of the queue, which is what the
  refinement needs: the abstract `Seen` is `logged`, `TakeRow` is a stutter,
  `WriteRow` is `Settle`); `CommitsFix` (`RedIsNew`: while the agent has not moved
  HEAD, what is red there differs from `start_sha`, so the next feedback covers it).
  `PartsAreTheirParts` and `PartsTypes` are about `MCParts`: a step of the composed
  run is for each part a step of its own or a stutter (`PartSteps`), so that a part
  behaves there as it does alone and every theorem above holds of the run.
- `NumberFacts`: what the proofs above need of numbers, from the library's theorems
  on finite sets. A non-empty set of naturals has a least member (`Least`); from
  this follow induction over a set of naturals (`Induction`), that a function
  defined by recursion on its argument exists and unfolds (`Recursion`), greatest
  members, and laws of quotients that the solvers do not find. This is how
  `Batched`, `Packed` and `Replay` are reasoned about without the theorems of the
  library that take an operator as parameter, which no installed prover can
  instantiate.

Only model-checked: the liveness properties (`EventuallyClaimed`, `CompleteSettles`,
`MessageSettles`), which need fairness and ENABLED, out of the prover's reach. No
module declares a RECURSIVE operator, behind which the prover loses its SMT backend:
recursion is written as a function.

## Inventory

For each part: state; operations; interactions; what is hard; what makes it
correct. The hazards, line by line, are in `PROJECT.json`.

**Indexing events table** (`indexing-jobs.ts`, `sql/schema.sql`). Rows with
`processed_at`; insert, claim, pick a batch. The meeting point of worker and
replicas. Correct if a claim is exclusive and final. *Modelled.*

**Events listener** (`indexing-events-listener.ts`). `client`, `reconnectTimer`,
the reconnect delay; connect, drain, notification, error. Hard: reconnects,
leaked sessions, LISTEN against the drain. Correct if every row is claimed once.
*Modelled, except the growing delay and `stopIndexingEventsListener`, which has
no caller.*

**Event handlers** (`indexing-handler.ts`, `events.ts`). No state of their own;
read and write messages, status and file metadata with awaits between. Hard:
several run for one conversation. Correct if the conversation ends as the rows
in order would leave it. *Modelled for one conversation.*

**CPU budget** (`cpu_budget.py`). Two counters of one resource. Correct if they
agree and the budget holds. *Modelled; the context manager `reserve()` has no
caller.*

**Indexing worker** (`worker_pubsub.py`, `indexing.py`). Callback, executor,
pool, the single-thread early-describe pool; per-job closure state. Hard:
timeouts of jobs that go on, redelivery, crashes, best-effort steps. Correct if
the outcome is always reported and what is reported is true. *Modelled for one
message; pages, `page_progress` rows and malformed payloads left out.*

**PDF page pipelines** (`streaming_pdf.py`, `page_worker.py`, `pdf_pages_db.py`).
Page threads, a shared set of claimed image xrefs, a snapshot for the early
text, per-page retries. Hard: a page that fails after its claim retries without
the images; a failed `on_page_ready` is swallowed and its chunks are missing.
Correct if every page is counted once and its content stored. *Modelled
(`PdfStream`, `PageWorker`) without rendering, layout and chapters.*

**Conversation streams** (`routes/conversations.ts`, `stream-lifecycle.ts`).
Open SSE responses; catch-up from a snapshot, then the subscription, keepalive,
teardown. Hard: an event between snapshot and subscription reaches neither.
Correct if a client that stays connected learns of every end. *Modelled
(`ConversationStream`) for terminal events; welcomes, progress and keepalives left out.*

**Uploads and inline indexing** (`routes/upload.ts`, `/conversations/:id/files`).
Conversation status, stored files, the in-process stream loop that duplicates
the handlers of the event path. Hard: finalize sets `processing` before it
validates, two requests on one conversation, a delegated `/index-stream` that
ends with neither complete nor error. Correct if a conversation ends ready or
failed. *Modelled (`Uploads`) without file storage and metadata.*

**Access requests** (`routes/conversations.ts`, `security.ts`). Requests and
tokens; the editor token is derived from the conversation alone and is a primary
key. Correct if every approval grants. *Modelled (`Access`).*

**Ask and re-indexing** (`routes/ask.ts`, `python/reindex.ts`, `rag.py`). Check the
collection, index if it is empty, answer, number citations. Hard: two questions
at once re-index twice and number from the same snapshot. Correct if a ready
conversation is never answered without sources and a source keeps its number.
*Modelled (`Ask`); EXIF and recognition answers, automatic image requests and the
master wiki are left out.*

**Error telemetry** (`telemetry.py`). Bounded queue, writer thread, flush before
exit. Hard: the flush returns while the last row is in flight. Correct if a row
is lost only to a full queue, a failed INSERT or the exit. *Modelled
(`Telemetry`); `trace_step` is left out.*

**Embedding batches, retrieval** (`vector_store.py`, `rag.py`, `chunkers.py`).
Two batch sizes, parallel requests into one list, prompts cut to a budget.
Correct if every chunk has its own vector and every prompt fits. *Modelled
(`Retrieval`, `PromptBudget`; ranking in `Answering`).*

**Description of documents** (`describe.py`, `chapters.py`). Strategies that fall
through to each other, groups of chapters, parallel requests that may fail.
Correct if every page is asked for in one group, within the limit of a request,
and a lost group costs itself only.
*Modelled (`BookDescribe`, `PromptBudget`) without prompts and languages.*

**Image generation** (`image_gen.py`, `server.py`, `routes/image-gen.ts`). A thread
with three attempts, a generator, a relay, a browser. Hard: each may end first.
Correct if the browser gets one outcome and it is true. *Modelled (`ImageStream`,
the blocking route in `Ask`).*

**Answering a question** (`server.py`, `rag.py`, `vector_store.py`, `metadata.py`,
`image_search.py`, `llm_instrument.py`). No state but the request's. Hard: two
retrieval paths that should agree, texts of a model that cite what they like.
Correct if the rows are the nearest and every tag leads to its source. *Modelled
(`Answering`) for one request; prompts, the record of calls and the master wiki
left out.*

**OCR and standalone files** (`extractors.py`, `page_worker.py`). A process-wide cache
and its lock; GIF frames. Hard: prefetch and pipeline ask for the same document.
Correct if the program runs once and every file is completed. *Modelled (`Ocr`,
`StandaloneFile`); the readers of document formats are not.*

**Ralph loop** (`ralph/`). A branch, a description file, progress files; an agent, the
feedback loops, a commit, a pull request per iteration. Hard: what is tested is
chosen by what is committed already; the agent may commit, hang or fail; a run
starts on what the last one left. Correct if what is committed is tested. *Modelled
(`Ralph`) without prompts, `file_describer.py` and the sandbox.*

### Not modelled

- Wiki, suggested questions, language detection, moderation, music and video
  helpers: straight-line text processing around calls to models; their answers are
  inputs of `IndexingWorker` and `BookDescribe`, and nothing outlives a call.
- Most of the Python HTTP server: it passes a request to a helper and its result
  back; the generators with a life of their own are in `ImageStream` and `Uploads`.
- Storage, translation, synthesis, donation, debug and health routes: request and
  response I/O.
- The browser clients (Vue frontend, extension, Electron, Tauri): user interface;
  they appear as the subscribers of `EventRelay`, `ConversationStream` and
  `ImageStream`.
- Infrastructure scripts, `ralph/file_describer.py` and its sandbox; the
  subscription's delivery limit is `MaxDeliveries` of `IndexingWorker`.
- The delay of one conversation's early description by another's
  (`_describe_pool` has one thread): `IndexingWorker` lets the description start
  at any time, which covers the delay but not its cause.

## Plan

What would add most next, in this order:

1. An abstract specification of a job (pending, told, settled) that
   `IndexingWorker` and the jobs of `Uploads` both implement.
2. Two conversations in `IndexingWorker`, to share the one early-description
   thread; welcome and progress events in `ConversationStream`.
