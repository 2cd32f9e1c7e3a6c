----------------------------- MODULE PromptBudget -----------------------------
(***************************************************************************)
(* The two loops that keep a prompt within the tokens a request may have:  *)
(* _truncate_text_to_token_budget of python/src/shared/describe.py cuts a  *)
(* text to a prefix, _trim_prompt_to_budget of python/src/shared/rag.py    *)
(* cuts three sections of the answer prompt.                               *)
(*                                                                         *)
(* For truncation a text is the sequence of the token counts of its        *)
(* prefixes, in any order: one more character may merge two tokens.  For   *)
(* trimming it is the number of its characters, of which CharsPerToken     *)
(* make a token.                                                           *)
(***************************************************************************)
EXTENDS Integers, Sequences

CONSTANTS
  MaxText, MaxTokens,  \* truncation: characters of a text (a bound), its budget
  PromptTokens,        \* _MAX_PROMPT_TOKENS
  CharsPerToken,
  FixedTokens,         \* tokens the untrimmed parts may have
  SectionSizes,        \* characters a trimmed section may have
  TrimFloor, Suffix,   \* the 500, and the length of the "[... trimmed" mark
  TrimAttempts         \* the 12

ASSUME PromptAssumption ==
  /\ MaxText \in Nat /\ MaxTokens \in Nat /\ PromptTokens \in Nat /\ Suffix \in Nat
  /\ CharsPerToken \in Nat \ {0} /\ TrimFloor \in Nat \ {0} /\ TrimAttempts \in Nat \ {0}
  /\ FixedTokens \subseteq Nat /\ SectionSizes \subseteq Nat

VARIABLES
  text,     \* text[k]: tokens of its first k characters
  low, high, best, \* of the search; best is what is kept
  cutting,  \* "new", "search", "shrink", "cut"
  fixed,    \* tokens of the untrimmed parts
  given,    \* characters of chapter_context, matched_pages and context
  section,  \* the same, so far
  attempt,  \* passes of the loop made
  trimming  \* "loop", "returned"

cutVars == <<text, low, high, best, cutting>>
trimVars == <<fixed, given, section, attempt, trimming>>
promptVars == <<cutVars, trimVars>>

\* A call of one of the two; what the other did is of no interest to it.
PromptInit ==
  /\ \/ /\ text \in UNION {[1 .. n -> 0 .. 2 * MaxTokens] : n \in 1 .. MaxText}
        /\ cutting = "new"
        /\ fixed = 0 /\ given = <<0, 0, 0>> /\ trimming = "returned"
     \/ /\ text = <<>> /\ cutting = "cut"
        /\ fixed \in FixedTokens /\ given \in [1 .. 3 -> SectionSizes]
        /\ trimming = "loop"
  /\ low = 0 /\ high = Len(text) /\ best = Len(text)
  /\ section = given
  /\ attempt = 0

Larger(a, b) == IF a > b THEN a ELSE b
Smaller(a, b) == IF a < b THEN a ELSE b

-------------------------------------------------------------------------------
(* _truncate_text_to_token_budget *)

CountTokens(k) == IF k = 0 THEN 0 ELSE text[k]

\* A text within the budget is returned as it is; otherwise the search starts
\* from the ratio of the two, less 5 %.
StartCut ==
  /\ cutting = "new"
  /\ IF CountTokens(Len(text)) <= MaxTokens
     THEN cutting' = "cut" /\ UNCHANGED best
     ELSE /\ cutting' = "search"
          /\ best' = (Len(text) * MaxTokens * 95) \div (CountTokens(Len(text)) * 100)
  /\ UNCHANGED <<text, low, high, trimVars>>

\* One pass of the search, which ends by its break or when the ends meet.
Search ==
  /\ cutting = "search"
  /\ IF CountTokens(best) <= MaxTokens
     THEN /\ low' = best + 1
          /\ best' = Smaller(high, best + Larger(1, (high - best) \div 2))
          /\ UNCHANGED high
     ELSE /\ high' = best
          /\ best' = Larger(low, best - Larger(1, (best - low) \div 2))
          /\ UNCHANGED low
  /\ cutting' = IF best' \in {low', high'} \/ low' >= high' THEN "shrink" ELSE "search"
  /\ UNCHANGED <<text, trimVars>>

\* Mutant: no last check: the search is taken to end on a prefix that fits.
KeepBest ==
  /\ cutting = "shrink"
  /\ cutting' = "cut"
  /\ UNCHANGED <<text, low, high, best, trimVars>>

\* The last check: a tenth less until it fits.
Shrink ==
  /\ cutting = "shrink"
  /\ IF best > 0 /\ CountTokens(best) > MaxTokens
     THEN best' = (best * 9) \div 10 /\ UNCHANGED cutting
     ELSE cutting' = "cut" /\ UNCHANGED best
  /\ UNCHANGED <<text, low, high, trimVars>>

-------------------------------------------------------------------------------
(* _trim_prompt_to_budget *)

PromptSize == fixed + (section[1] + section[2] + section[3]) \div CharsPerToken

\* Mutant: a pass cuts a section to nine tenths.
CutLessTo(n) == Larger(TrimFloor, (n * 9) \div 10)

\* What a pass cuts a section of n characters to, without the mark.
CutTo(n) == Larger(TrimFloor, (n * 6) \div 10)

CanCut(i) == CutTo(section[i]) < section[i]

\* A pass cuts the first section that can be cut and puts the mark behind it.
Trim(i) ==
  /\ trimming = "loop" /\ attempt < TrimAttempts
  /\ PromptSize > PromptTokens
  /\ CanCut(i) /\ \A j \in 1 .. i - 1 : ~CanCut(j)
  /\ section' = [section EXCEPT ![i] = CutTo(@) + Suffix]
  /\ attempt' = attempt + 1
  /\ UNCHANGED <<cutVars, fixed, given, trimming>>

\* Within the budget, nothing to cut, or the passes are used up.
Trimmed ==
  /\ trimming = "loop"
  /\ \/ PromptSize <= PromptTokens
     \/ \A i \in 1 .. 3 : ~CanCut(i)
     \/ attempt = TrimAttempts
  /\ trimming' = "returned"
  /\ UNCHANGED <<cutVars, fixed, given, section, attempt>>

PromptNext ==
  \/ StartCut \/ Search \/ Shrink
  \/ (\E i \in 1 .. 3 : Trim(i)) \/ Trimmed

PromptSpec == PromptInit /\ [][PromptNext]_promptVars

-------------------------------------------------------------------------------
(* Properties *)

PromptTypeOK ==
  /\ \A k \in DOMAIN text : text[k] \in 0 .. 2 * MaxTokens
  /\ low \in 0 .. Len(text) + 1 /\ high \in 0 .. Len(text) /\ best \in 0 .. Len(text)
  /\ cutting \in {"new", "search", "shrink", "cut"}
  /\ fixed \in FixedTokens \cup {0}
  /\ given \in [1 .. 3 -> SectionSizes \cup {0}] /\ section \in [1 .. 3 -> Nat]
  /\ attempt \in 0 .. TrimAttempts
  /\ trimming \in {"loop", "returned"}

\* "Truncate text so its tiktoken count is <= max_tokens": the prefix that is
\* sent is within the budget wherever the search stopped, and a text within it
\* is sent whole.
CutTextFits ==
  cutting = "cut" =>
    /\ CountTokens(best) <= MaxTokens
    /\ CountTokens(Len(text)) <= MaxTokens => best = Len(text)

\* Twelve passes are enough for one section: when cutting chapter_context as
\* far as it goes would meet the budget, the trimmed prompt meets it and
\* matched_pages and context are as they were.
OneSectionIsEnough ==
  trimming = "returned"
    /\ fixed + (Smaller(given[1], TrimFloor + Suffix) + given[2] + given[3])
         \div CharsPerToken <= PromptTokens
  => PromptSize <= PromptTokens /\ section[2] = given[2] /\ section[3] = given[3]
===============================================================================
