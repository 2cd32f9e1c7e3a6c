----------------------------- MODULE BookDescribe -----------------------------
(***************************************************************************)
(* The welcome message of a text: describe_documents of                    *)
(* python/src/shared/describe.py with the chapters that                    *)
(* detect_chapters_from_toc (chapters.py) found.  A text goes to the model *)
(* in one request, as summaries of groups of chapters or page ranges, as   *)
(* summaries of equal parts, or cut short; a failed strategy falls through *)
(* to the next.                                                            *)
(*                                                                         *)
(* A book is its pages, the start pages its table of contents names and an *)
(* estimate of its tokens.  Pages with text are taken to be equally long,  *)
(* and no text to hold a line like a page header.  The requests of a       *)
(* strategy run in parallel or in turn, but are collected in their order,  *)
(* and a result depends on no other: they are modelled in that order.      *)
(***************************************************************************)
EXTENDS Integers, Sequences, FiniteSets

CONSTANTS
  BookPages,                 \* pages of the file
  MaxChapters,               \* bound: entries of the table of contents
  BookTokens,                \* estimates a text may have
  WholeTokens,               \* _WHOLE_BOOK_MAX_ESTIMATED_TOKENS
  MinGroups, MaxGroups,      \* _BOOK_COMPACTION_MIN_GROUPS, _MAX_GROUPS
  TokensPerGroup,            \* _BOOK_COMPACTION_TOKENS_PER_GROUP
  Parts,                     \* parts a long text is split into
  RequestPages,              \* pages that _MAX_CONTENT_TOKENS lets through
  LlmRetries                 \* _LLM_MAX_RETRIES

ASSUME BookAssumption ==
  /\ {BookPages, MinGroups, MaxGroups, TokensPerGroup, Parts} \subseteq Nat \ {0}
  /\ {MaxChapters, WholeTokens, RequestPages, LlmRetries} \subseteq Nat
  /\ BookTokens \subseteq Nat /\ MinGroups <= MaxGroups

VARIABLES
  book,      \* starts: start pages of the chapters, sorted, -1 for an invalid
             \* link; headers: pages with a header "# Page N"; pages: those
             \* of them with text; tokens: estimated_tokens; long: more than
             \* _SPLIT_THRESHOLD characters; single: one document
  strategy,  \* "none", "compact", "split", "ask"
  step,      \* "choose", "request", "synthesize", "done"
  call,      \* the request being made
  tries,     \* times it was refused with 429
  summaries, \* requests that gave a summary
  lost,      \* requests that raised or gave a blank one
  welcome    \* "none", "whole", "cut", "synthesis", "part", "fallback",
             \* "raised"

calls == <<call, tries, summaries, lost>>
bookVars == <<book, strategy, step, calls, welcome>>

StartPages ==
  {s \in UNION {[1 .. n -> {-1} \cup 1 .. BookPages] : n \in 0 .. MaxChapters} :
     \A i, j \in 1 .. Len(s) : i < j => s[i] <= s[j]}

Book == [starts : StartPages, headers : SUBSET (1 .. BookPages),
         pages : SUBSET (1 .. BookPages), tokens : BookTokens, long : BOOLEAN,
         single : BOOLEAN]

\* A blank page has a header, a page that could not be read has none; a text
\* without headers is all on page 1.  Chapters and pages are looked at in
\* compaction only.
BookInit ==
  /\ book \in {b \in Book :
                /\ b.pages \subseteq b.headers
                /\ b.pages = {} => b.tokens = 0 /\ ~b.long
                /\ b.tokens <= WholeTokens \/ ~b.single
                     => b.starts = <<>> /\ b.headers = b.pages /\ Cardinality(b.pages) <= 1}
  /\ strategy = "none" /\ step = "choose"
  /\ call = 1 /\ tries = 0 /\ summaries = {} /\ lost = {}
  /\ welcome = "none"

-------------------------------------------------------------------------------
Smallest(a, b) == IF a < b THEN a ELSE b
Largest(a, b) == IF a > b THEN a ELSE b
Ceiling(a, b) == (a + b - 1) \div b

\* Mutant: a chapter ends where the next one starts.
EndPageShared(b, i) == IF i < Len(b.starts) THEN b.starts[i + 1] ELSE BookPages

\* detect_chapters_from_toc: a chapter ends before the next one starts.
EndPage(b, i) == IF i < Len(b.starts) THEN b.starts[i + 1] - 1 ELSE BookPages

LastHeader(b) == CHOOSE p \in b.headers : \A q \in b.headers : q <= p

TargetGroups(b, n) ==
  Largest(1, Smallest(n, Largest(MinGroups,
    Smallest(MaxGroups, Ceiling(b.tokens, TokensPerGroup)))))

\* _build_book_sections: chapters with a start and at least one page, or else
\* ranges of pages, by their numbers.
Chapters(b) == {i \in 1 .. Len(b.starts) : b.starts[i] > 0 /\ EndPage(b, i) >= b.starts[i]}
RangePages(b) == Largest(1, Ceiling(BookPages, TargetGroups(b, Cardinality(b.headers))))
Sections(b) ==
  IF Chapters(b) # {} THEN Chapters(b) ELSE 1 .. Ceiling(LastHeader(b), RangePages(b))

SectionStart(b, k) == IF Chapters(b) # {} THEN b.starts[k] ELSE (k - 1) * RangePages(b) + 1
SectionEnd(b, k) ==
  Smallest(LastHeader(b), IF Chapters(b) # {} THEN EndPage(b, k) ELSE k * RangePages(b))

LastSection(b) == CHOOSE k \in Sections(b) : \A j \in Sections(b) : j <= k
Target(b) == TargetGroups(b, Cardinality(Sections(b)))
GroupPages(b) == Largest(1, Ceiling(BookPages, Target(b)))

\* A section of n pages joins the open group, or opens the next one.
Join(b, open, n) ==
  IF open.size > 0 /\ open.size + n > GroupPages(b) /\ open.group < Target(b)
  THEN [group |-> open.group + 1, size |-> n]
  ELSE [group |-> open.group, size |-> open.size + n]

\* _pack_book_sections: adjacent sections share a group until it has the pages
\* of one and another group may still be opened; the open group and its pages
\* after each section.
Packed(b) ==
  LET open[k \in 0 .. LastSection(b)] ==
        IF k = 0 THEN [group |-> 1, size |-> 0]
        ELSE IF k \in Sections(b)
        THEN Join(b, open[k - 1], Largest(1, SectionEnd(b, k) - SectionStart(b, k) + 1))
        ELSE open[k - 1]
  IN  open

Groups(b) == Packed(b)[LastSection(b)].group
SectionsOf(b, g) == {k \in Sections(b) : Packed(b)[k].group = g}

\* _build_group_text: the pages of a group, section by section.
InSection(b, p, k) == p \in b.pages /\ SectionStart(b, k) <= p /\ p <= SectionEnd(b, k)
TextOf(b, g) ==
  {p \in b.pages : \E k \in Sections(b) : InSection(b, p, k) /\ k \in SectionsOf(b, g)}
HasText(b, g) == TextOf(b, g) # {}

\* _truncate_text_to_token_budget: what a request takes of the text of a group.
Sent(b, g) ==
  {p \in TextOf(b, g) : Cardinality({q \in TextOf(b, g) : q <= p}) <= RequestPages}

-------------------------------------------------------------------------------
\* The strategies in their order.  A text that fits one request but is long is
\* split all the same.
AfterCompaction == IF book.long THEN "split" ELSE "ask"

Choose ==
  /\ step = "choose"
  /\ step' = "request"
  /\ strategy' = IF book.pages # {} /\ book.tokens > WholeTokens /\ book.single
                 THEN "compact" ELSE AfterCompaction
  /\ UNCHANGED <<book, calls, welcome>>

\* Requests of the strategy, which are over when call is past them.
Requests ==
  CASE strategy = "compact" -> Groups(book) [] strategy = "split" -> Parts [] OTHER -> 1
Over == step = "request" /\ call > Requests

\* _invoke_with_retry: a request refused with 429 is made again.
Refused429 ==
  /\ step \in {"request", "synthesize"} /\ ~Over
  /\ strategy = "compact" /\ step = "request" => HasText(book, call)
  /\ tries < LlmRetries
  /\ tries' = tries + 1
  /\ UNCHANGED <<book, strategy, step, call, summaries, lost, welcome>>

\* A request for the summary of a group or a part: a group without text is not
\* asked for, and of a longer text only Sent is looked at, which no summary
\* tells; one that raises, or is blank in the end, is left out.
Summarize ==
  /\ step = "request" /\ strategy \in {"compact", "split"} /\ ~Over
  /\ IF strategy = "compact" /\ ~HasText(book, call)
     THEN UNCHANGED <<summaries, lost>>
     ELSE \/ summaries' = summaries \cup {call} /\ UNCHANGED lost
          \/ lost' = lost \cup {call} /\ UNCHANGED summaries
  /\ call' = call + 1
  /\ tries' = 0
  /\ UNCHANGED <<book, strategy, step, welcome>>

GiveUp ==
  /\ strategy' = AfterCompaction
  /\ call' = 1 /\ lost' = {} /\ summaries' = {}
  /\ UNCHANGED <<tries, step>>

\* Mutant: one lost group is enough to give compaction up.
CompactEndsAllOrNothing ==
  /\ strategy = "compact" /\ Over
  /\ IF lost = {} THEN step' = "synthesize" /\ UNCHANGED <<strategy, calls>> ELSE GiveUp
  /\ UNCHANGED <<book, welcome>>

\* Any summary is enough to go on; without one the next strategy is tried.
CompactEnds ==
  /\ strategy = "compact" /\ Over
  /\ IF summaries # {} THEN step' = "synthesize" /\ UNCHANGED <<strategy, calls>> ELSE GiveUp
  /\ UNCHANGED <<book, welcome>>

\* No summary: a message from the metadata; one: it is the message; more: a
\* synthesis of them.
SplitEnds ==
  /\ strategy = "split" /\ Over
  /\ \/ Cardinality(summaries) > 1 /\ step' = "synthesize" /\ UNCHANGED welcome
     \/ /\ Cardinality(summaries) <= 1
        /\ step' = "done"
        /\ welcome' = IF summaries = {} THEN "fallback" ELSE "part"
  /\ UNCHANGED <<book, strategy, calls>>

\* _synthesize_welcome_messages.  Nothing catches what this request raises, nor
\* what the two that shorten summaries over the budget do.
Synthesize ==
  /\ step = "synthesize"
  /\ step' = "done"
  /\ welcome' \in {"synthesis", "raised"}
  /\ UNCHANGED <<book, strategy, calls>>

\* The one request of the other strategies: with the whole text, or with what
\* _DESCRIBE_MAX_CONTENT_CHARS leaves of it, neither longer than a request may
\* be.  Without text and metadata, or for an empty file, there is none.
Ask ==
  /\ step = "request" /\ strategy = "ask"
  /\ step' = "done"
  /\ \/ welcome' = IF book.tokens <= WholeTokens THEN "whole" ELSE "cut"
     \/ welcome' = "raised"
     \/ book.pages = {} /\ welcome' = "fallback"
  /\ UNCHANGED <<book, strategy, calls>>

BookNext ==
  \/ Choose \/ Refused429 \/ Summarize \/ CompactEnds \/ SplitEnds
  \/ Synthesize \/ Ask

BookSpec == BookInit /\ [][BookNext]_bookVars

-------------------------------------------------------------------------------
(* Properties *)

BookTypeOK ==
  /\ book \in Book
  /\ strategy \in {"none", "compact", "split", "ask"}
  /\ step \in {"choose", "request", "synthesize", "done"}
  /\ call \in 1 .. Largest(Parts, MaxGroups) + 1 /\ tries \in 0 .. LlmRetries
  /\ summaries \cap lost = {} /\ summaries \cup lost \subseteq 1 .. call - 1
  /\ welcome \in {"none", "whole", "cut", "synthesis", "part", "fallback", "raised"}

\* Large books are compacted "chapter-by-chapter or page-range-by-page-range":
\* whatever the table of contents says (entries at one page, entries without a
\* page, chapters behind the last page), when the requests of a compaction are
\* over every page with text from the first chapter on was in one section, and
\* its group was asked for.  Its text was looked at unless the group is longer
\* than a request may be.  There were no more requests than
\* _BOOK_COMPACTION_MAX_GROUPS.
Covered ==
  IF Chapters(book) = {} THEN book.pages
  ELSE {p \in book.pages : \E k \in Chapters(book) : book.starts[k] <= p}

PagesInOneGroup ==
  strategy = "compact" /\ Over =>
    /\ Groups(book) <= MaxGroups
    /\ \A p \in Covered : Cardinality({k \in Sections(book) : InSection(book, p, k)}) = 1
    /\ \A p \in Covered : \E g \in summaries \cup lost :
         /\ p \in TextOf(book, g)
         /\ p \in Sent(book, g) \/ Cardinality(TextOf(book, g)) > RequestPages

\* A failed group costs its own summary only: compaction is given up, and the
\* message then made from a cut or split text, only when every group with text
\* was lost, each after its retries.
GivesUpOnlyWhenAllLost ==
  [][strategy = "compact" /\ strategy' # "compact" =>
       lost = {g \in 1 .. Groups(book) : HasText(book, g)}]_bookVars
===============================================================================
