------------------------------ MODULE TextProofs ------------------------------
(***************************************************************************)
(* For texts of any length: what is sent to the models fits and is complete, *)
(* and what they cite is numbered.  PromptBudget, BookDescribe, Retrieval and *)
(* Answering have no variable in common; each has its inductive invariant   *)
(* here.  The functions that pack sections into groups and texts into       *)
(* batches are recursive: that they are defined, and what they give, is     *)
(* proved by the lemmas of NumberFacts.                                     *)
(***************************************************************************)
EXTENDS PromptBudget, BookDescribe, Retrieval, Answering, NumberFacts

-------------------------------------------------------------------------------
(* PromptBudget: the binary search of the cut.                              *)

\* While it searches, the longest prefix known to fit is shorter than the
\* shortest known not to: one best is between them, and the text as a whole does
\* not fit.
CutInv ==
  /\ text \in Seq(Nat)
  /\ low \in Nat /\ high \in Nat /\ best \in Nat
  /\ cutting \in {"new", "search", "shrink", "cut"}
  /\ best <= Len(text) /\ high <= Len(text) /\ low <= Len(text) + 1
  /\ cutting = "new" => low = 0 /\ high = Len(text) /\ best = Len(text)
  /\ cutting = "search" => low <= best /\ best < high
  /\ cutting \in {"search", "shrink"} => CountTokens(Len(text)) > MaxTokens
  /\ CutTextFits

LEMMA CountIsNat ==
  ASSUME text \in Seq(Nat), NEW k \in 0 .. Len(text)
  PROVE  CountTokens(k) \in Nat
  BY DEF CountTokens

\* The length the cut begins at, 95 % of the share that should fit, is less
\* than that of the text.
LEMMA StartWithin ==
  ASSUME NEW l \in Nat, NEW m \in Nat, NEW c \in Nat, c > m, l > 0
  PROVE  (l * m * 95) \div (c * 100) \in Nat /\ (l * m * 95) \div (c * 100) < l
<1>1. PICK p \in Nat : p = l * m
  BY Product
<1>2. PICK q \in Nat \ {0} : q = l * c
  <2>1. l * 0 < l * c
    BY ProductOrder
  <2>. QED  BY <2>1
<1>3. p <= q
  BY <1>1, <1>2, ProductOrder
<1>4. PICK d \in Nat \ {0} : d = c * 100
  BY c * 100 \in Nat \ {0}
<1>5. PICK n \in Nat : n = l * m * 95
  BY <1>1
<1>6. d * l = 100 * q /\ n = 95 * p
  BY <1>1, <1>2, <1>4, <1>5
<1>7. n < d * l
  BY <1>3, <1>6
<1>. QED  BY <1>4, <1>5, <1>7, QuotientBelow, Division

LEMMA CutInitInv == PromptInit => CutInv
<1>. SUFFICES ASSUME PromptInit PROVE CutInv
  OBVIOUS
<1>1. CASE /\ text \in UNION {[1 .. n -> 0 .. 2 * MaxTokens] : n \in 1 .. MaxText}
           /\ cutting = "new"
  <2>1. PICK n \in 1 .. MaxText : text \in [1 .. n -> 0 .. 2 * MaxTokens]
    BY <1>1
  <2>2. text \in [1 .. n -> Nat] /\ n \in Nat
    BY <2>1, PromptAssumption
  <2>3. text \in Seq(Nat) /\ Len(text) = n
    BY <2>2
  <2>. QED  BY <2>3, <1>1 DEF PromptInit, CutInv, CutTextFits
<1>2. CASE text = <<>> /\ cutting = "cut"
  BY <1>2, PromptAssumption DEF PromptInit, CutInv, CutTextFits, CountTokens
<1>. QED  BY <1>1, <1>2 DEF PromptInit

LEMMA CutNextInv == CutInv /\ [PromptNext]_promptVars => CutInv'
<1>. SUFFICES ASSUME CutInv, [PromptNext]_promptVars PROVE CutInv'
  OBVIOUS
<1>. USE PromptAssumption
<1>1. CASE StartCut
  <2>1. PICK l \in Nat : l = Len(text)
    BY DEF CutInv
  <2>2. PICK c \in Nat : c = CountTokens(l)
    BY <2>1, CountIsNat DEF CutInv
  <2>3. CASE c <= MaxTokens
    BY <1>1, <2>1, <2>2, <2>3 DEF StartCut, CutInv, CutTextFits, CountTokens
  <2>4. CASE c > MaxTokens
    <3>1. l > 0
      BY <2>2, <2>4 DEF CountTokens
    <3>2. PICK b \in Nat : b = (l * MaxTokens * 95) \div (c * 100)
      BY <2>4, <3>1, StartWithin
    <3>3. b < l
      BY <2>4, <3>1, <3>2, StartWithin
    <3>4. /\ best' = b /\ cutting' = "search"
          /\ text' = text /\ low' = 0 /\ high' = l
      BY <1>1, <2>1, <2>2, <2>4, <3>2 DEF StartCut, CutInv
    <3>5. CountTokens(l)' = c
      BY <2>2, <3>4 DEF CountTokens
    <3>. QED  BY <2>1, <2>4, <3>3, <3>4, <3>5 DEF CutInv, CutTextFits
  <2>. QED  BY <2>3, <2>4
<1>2. CASE Search
  <2>1. /\ low' \in Nat /\ high' \in Nat /\ best' \in Nat
        /\ best' <= Len(text) /\ high' <= Len(text) /\ low' <= Len(text) + 1
        /\ low' <= best' /\ best' <= high'
    <3>1. CASE CountTokens(best) <= MaxTokens
      <4>1. PICK h \in Nat : h = (high - best) \div 2
        BY <1>2, high - best \in Nat DEF Search, CutInv
      <4>. QED  BY <1>2, <3>1, <4>1 DEF Search, CutInv, Smaller, Larger
    <3>2. CASE ~(CountTokens(best) <= MaxTokens)
      <4>1. PICK h \in Nat : h = (best - low) \div 2
        BY <1>2, best - low \in Nat DEF Search, CutInv
      <4>2. h <= best - low
        BY <1>2, <4>1 DEF Search, CutInv
      <4>. QED  BY <1>2, <3>2, <4>1, <4>2 DEF Search, CutInv, Smaller, Larger
    <3>. QED  BY <3>1, <3>2
  <2>2. CountTokens(Len(text))' = CountTokens(Len(text)) /\ text' = text
    BY <1>2 DEF Search, CountTokens
  <2>3. cutting' \in {"search", "shrink"} /\ (cutting' = "search" => best' # high')
    BY <1>2 DEF Search
  <2>. QED  BY <1>2, <2>1, <2>2, <2>3 DEF CutInv, CutTextFits, Search
<1>3. CASE Shrink
  <2>1. CASE best > 0 /\ CountTokens(best) > MaxTokens
    <3>1. best' \in Nat /\ best' <= best
      BY <1>3, <2>1 DEF Shrink, CutInv
    <3>2. CountTokens(Len(text))' = CountTokens(Len(text)) /\ text' = text
      BY <1>3 DEF Shrink, CountTokens
    <3>. QED  BY <1>3, <2>1, <3>1, <3>2 DEF Shrink, CutInv, CutTextFits
  <2>2. CASE ~(best > 0 /\ CountTokens(best) > MaxTokens)
    <3>1. CountTokens(best) <= MaxTokens
      <4>1. CountTokens(best) \in Nat
        BY CountIsNat DEF CutInv
      <4>. QED  BY <2>2, <4>1 DEF CutInv, CountTokens
    <3>. QED  BY <1>3, <2>2, <3>1 DEF Shrink, CutInv, CutTextFits, CountTokens
  <2>. QED  BY <2>1, <2>2
<1>4. CASE UNCHANGED cutVars
  BY <1>4 DEF cutVars, CutInv, CutTextFits, CountTokens
<1>. QED  BY <1>1, <1>2, <1>3, <1>4 DEF PromptNext, Trim, Trimmed, promptVars

\* _truncate_text_to_token_budget: what it returns is within the budget, for any
\* text, whatever its prefixes cost, and any budget.
THEOREM WhatIsSentFits == PromptSpec => []CutTextFits
<1>1. CutInv => CutTextFits
  BY DEF CutInv
<1>. QED  BY <1>1, CutInitInv, CutNextInv, PTL DEF PromptSpec

-------------------------------------------------------------------------------
(* PromptBudget: the passes of the trim.                                    *)

\* The characters the first section has at most after so many passes: bound[k]
\* after k, the floor with the suffix after the last.
Passed(bound) ==
  /\ bound \in [0 .. TrimAttempts -> Nat]
  /\ \A n \in SectionSizes \cup {0} : n <= bound[0]
  /\ \A k \in 0 .. TrimAttempts - 1 : CutTo(bound[k]) + Suffix <= bound[k + 1]
  /\ bound[TrimAttempts] = TrimFloor + Suffix

\* There are passes enough for the longest section to get down to the floor.
EnoughPasses == \E bound \in [0 .. TrimAttempts -> Nat] : Passed(bound)

\* Bounds for the twelve passes of the code: 206274 characters are the most.
Longest(k) ==
  IF k = 0 THEN 206274
  ELSE IF k = 1 THEN 123799
  ELSE IF k = 2 THEN 74314
  ELSE IF k = 3 THEN 44623
  ELSE IF k = 4 THEN 26808
  ELSE IF k = 5 THEN 16119
  ELSE IF k = 6 THEN 9706
  ELSE IF k = 7 THEN 5858
  ELSE IF k = 8 THEN 3549
  ELSE IF k = 9 THEN 2164
  ELSE IF k = 10 THEN 1333
  ELSE IF k = 11 THEN 834
  ELSE 535

\* One pass, with the floor and the suffix of the code.
LEMMA CutShorter ==
  ASSUME TrimFloor = 500, Suffix = 35,
         NEW n \in Nat, NEW m \in Nat, n * 6 < (m - 34) * 10, 535 <= m
  PROVE  CutTo(n) + Suffix <= m
  BY DEF CutTo, Larger

\* Twelve passes are enough for sections of up to 206274 characters.
LEMMA TwelvePasses ==
  ASSUME TrimFloor = 500, Suffix = 35, TrimAttempts = 12, \A n \in SectionSizes : n <= 206274
  PROVE  EnoughPasses
<1>. DEFINE bound == [k \in 0 .. TrimAttempts |-> Longest(k)]
<1>1. /\ Longest(0) = 206274
     /\ Longest(1) = 123799
     /\ Longest(2) = 74314
     /\ Longest(3) = 44623
     /\ Longest(4) = 26808
     /\ Longest(5) = 16119
     /\ Longest(6) = 9706
     /\ Longest(7) = 5858
     /\ Longest(8) = 3549
     /\ Longest(9) = 2164
     /\ Longest(10) = 1333
     /\ Longest(11) = 834
     /\ Longest(12) = 535
  BY DEF Longest
<1>2. ASSUME NEW k \in 0 .. TrimAttempts
      PROVE  \/ k = 0 \/ k = 1 \/ k = 2 \/ k = 3 \/ k = 4 \/ k = 5 \/ k = 6 \/ k = 7
             \/ k = 8 \/ k = 9 \/ k = 10 \/ k = 11 \/ k = 12
  OBVIOUS
<1>3. \A k \in 0 .. TrimAttempts : Longest(k) \in Nat
  BY <1>1, <1>2
<1>4. /\ CutTo(206274) + Suffix <= 123799
     /\ CutTo(123799) + Suffix <= 74314
     /\ CutTo(74314) + Suffix <= 44623
     /\ CutTo(44623) + Suffix <= 26808
     /\ CutTo(26808) + Suffix <= 16119
     /\ CutTo(16119) + Suffix <= 9706
     /\ CutTo(9706) + Suffix <= 5858
     /\ CutTo(5858) + Suffix <= 3549
     /\ CutTo(3549) + Suffix <= 2164
     /\ CutTo(2164) + Suffix <= 1333
     /\ CutTo(1333) + Suffix <= 834
     /\ CutTo(834) + Suffix <= 535
  BY CutShorter
<1>5. ASSUME NEW k \in 0 .. TrimAttempts - 1 PROVE CutTo(Longest(k)) + Suffix <= Longest(k + 1)
  <2>1. k \in 0 .. TrimAttempts /\ k # 12
    OBVIOUS
  <2>. QED  BY <1>1, <1>2, <1>4, <2>1
<1>6. bound \in [0 .. TrimAttempts -> Nat] /\ \A k \in 0 .. TrimAttempts : bound[k] = Longest(k)
  BY <1>3
<1>. HIDE DEF bound
<1>7. Passed(bound)
  BY <1>1, <1>5, <1>6 DEF Passed
<1>. QED  BY <1>6, <1>7 DEF EnoughPasses

SizeWith(n) == fixed + (n + given[2] + given[3]) \div CharsPerToken

\* The prompt would fit with the first section cut to the floor.
FitsCut == SizeWith(Smaller(given[1], TrimFloor + Suffix)) <= PromptTokens

TrimTypeOK ==
  /\ fixed \in Nat /\ attempt \in 0 .. TrimAttempts
  /\ given \in [1 .. 3 -> SectionSizes \cup {0}] /\ section \in [1 .. 3 -> Nat]
  /\ trimming \in {"loop", "returned"}

\* As long as it does, no other section is cut, the first is within its bound,
\* and what is returned fits.
TrimInv(bound) ==
  /\ TrimTypeOK
  /\ FitsCut =>
       /\ section[2] = given[2] /\ section[3] = given[3]
       /\ section[1] <= bound[attempt]
       /\ section[1] # given[1] => given[1] > TrimFloor + Suffix
       /\ trimming = "returned" => PromptSize <= PromptTokens

LEMMA GivenIsNat ==
  ASSUME TrimTypeOK
  PROVE  given[1] \in Nat /\ given[2] \in Nat /\ given[3] \in Nat
<1>1. SectionSizes \cup {0} \subseteq Nat
  BY PromptAssumption
<1>. HIDE DEF TrimTypeOK
<1>2. given \in [1 .. 3 -> SectionSizes \cup {0}]
  BY DEF TrimTypeOK
<1>3. \A i \in 1 .. 3 : given[i] \in SectionSizes \cup {0}
  BY <1>2
<1>. QED  BY <1>1, <1>3

\* A shorter section makes no longer prompt.
LEMMA SizeOrder ==
  ASSUME TrimTypeOK, NEW m \in Nat, NEW n \in Nat, m <= n
  PROVE  /\ SizeWith(m) \in Nat /\ SizeWith(n) \in Nat /\ SizeWith(m) <= SizeWith(n)
<1>0. given[2] \in Nat /\ given[3] \in Nat
  BY GivenIsNat
<1>1. PICK x \in Nat : x = m + given[2] + given[3]
  BY <1>0
<1>2. PICK y \in Nat : y = n + given[2] + given[3]
  BY <1>0
<1>3. x <= y
  BY <1>0, <1>1, <1>2
<1>4. x \div CharsPerToken \in Nat /\ y \div CharsPerToken \in Nat
  BY Division, PromptAssumption
<1>5. x \div CharsPerToken <= y \div CharsPerToken
  BY <1>3, QuotientOrder, PromptAssumption
<1>. QED  BY <1>1, <1>2, <1>4, <1>5 DEF SizeWith, TrimTypeOK

\* A first section that cannot be cut, or is at the floor, is small enough.
LEMMA SmallEnough ==
  ASSUME NEW bound, TrimInv(bound), FitsCut, section[1] <= TrimFloor + Suffix
  PROVE  PromptSize <= PromptTokens
<1>1. PICK s \in Nat : s = section[1]
  BY DEF TrimInv, TrimTypeOK
<1>2. PICK n \in Nat : n = Smaller(given[1], TrimFloor + Suffix)
  BY PromptAssumption, GivenIsNat DEF TrimInv, Smaller
<1>3. s <= n
  BY <1>1, <1>2, PromptAssumption, GivenIsNat DEF TrimInv, Smaller
<1>4. SizeWith(s) <= SizeWith(n) /\ SizeWith(s) \in Nat /\ SizeWith(n) \in Nat
  BY <1>3, SizeOrder DEF TrimInv
<1>5. PromptSize = SizeWith(s)
  BY <1>1 DEF PromptSize, SizeWith, TrimInv
<1>6. SizeWith(n) <= PromptTokens
  BY <1>2 DEF FitsCut
<1>. QED  BY <1>4, <1>5, <1>6, PromptAssumption

\* A cut keeps the order, and spares only what is not above the floor.
LEMMA CutFacts ==
  ASSUME NEW n \in Nat
  PROVE  /\ CutTo(n) \in Nat /\ (~(CutTo(n) < n) => n <= TrimFloor)
         /\ \A m \in Nat : m <= n => CutTo(m) <= CutTo(n)
  BY PromptAssumption DEF CutTo, Larger

LEMMA TrimInitInv ==
  ASSUME NEW bound, Passed(bound), PromptInit
  PROVE  TrimInv(bound)
<1>. USE PromptAssumption
<1>1. TrimTypeOK
  <2>1. CASE fixed = 0 /\ given = <<0, 0, 0>> /\ trimming = "returned"
    BY <2>1 DEF PromptInit, TrimTypeOK
  <2>2. CASE fixed \in FixedTokens /\ given \in [1 .. 3 -> SectionSizes] /\ trimming = "loop"
    <3>1. given \in [1 .. 3 -> Nat] /\ given \in [1 .. 3 -> SectionSizes \cup {0}]
      BY <2>2
    <3>. QED  BY <2>2, <3>1 DEF PromptInit, TrimTypeOK
  <2>. QED  BY <2>1, <2>2 DEF PromptInit
<1>2. section = given /\ attempt = 0 /\ given[1] \in SectionSizes \cup {0}
  BY <1>1 DEF PromptInit, TrimTypeOK
<1>3. trimming = "returned" => PromptSize <= PromptTokens
  BY DEF PromptInit, PromptSize
<1>. QED  BY <1>1, <1>2, <1>3 DEF TrimInv, Passed

LEMMA TrimNextInv ==
  ASSUME NEW bound, Passed(bound), TrimInv(bound), [PromptNext]_promptVars
  PROVE  TrimInv(bound)'
<1>. USE PromptAssumption
<1>1. ASSUME NEW i \in 1 .. 3, Trim(i) PROVE TrimInv(bound)'
  <2>1. PICK c \in Nat : c = CutTo(section[i]) + Suffix
    BY CutFacts DEF TrimInv, TrimTypeOK
  <2>2. /\ section' = [section EXCEPT ![i] = c] /\ attempt' = attempt + 1
        /\ UNCHANGED <<fixed, given, trimming>> /\ trimming = "loop"
        /\ attempt < TrimAttempts
    BY <1>1, <2>1 DEF Trim
  <2>3. TrimTypeOK'
    BY <2>2 DEF TrimInv, TrimTypeOK
  <2>4. ASSUME FitsCut' 
        PROVE  /\ section'[2] = given[2] /\ section'[3] = given[3]
               /\ section'[1] <= bound[attempt']
               /\ given[1] > TrimFloor + Suffix
    <3>1. FitsCut
      BY <2>4, <2>2 DEF FitsCut, SizeWith
    <3>2. PICK s \in Nat : s = section[1]
      BY DEF TrimInv, TrimTypeOK
    <3>3. ~(PromptSize <= PromptTokens)
      <4>1. PromptSize \in Nat
        <5>1. PromptSize = SizeWith(s)
          BY <3>1, <3>2 DEF PromptSize, SizeWith, TrimInv
        <5>. QED  BY <5>1, SizeOrder DEF TrimInv
      <4>. QED  BY <1>1, <4>1 DEF Trim
    <3>4. s > TrimFloor + Suffix
      BY <3>1, <3>2, <3>3, SmallEnough
    <3>5. CanCut(1)
      BY <3>2, <3>4, CutFacts DEF CanCut
    <3>6. i = 1
      BY <1>1, <3>5 DEF Trim
    <3>7. PICK b \in Nat : b = bound[attempt]
      BY DEF TrimInv, TrimTypeOK, Passed
    <3>8. s <= b /\ CutTo(s) <= CutTo(b) /\ CutTo(s) \in Nat /\ CutTo(b) \in Nat
      BY <3>1, <3>2, <3>7, CutFacts DEF TrimInv
    <3>9. CutTo(b) + Suffix <= bound[attempt + 1] /\ bound[attempt + 1] \in Nat
      BY <2>2, <3>7 DEF TrimInv, TrimTypeOK, Passed
    <3>10. c <= bound[attempt + 1]
      BY <2>1, <3>2, <3>6, <3>8, <3>9
    <3>11. section'[1] = c /\ section'[2] = section[2] /\ section'[3] = section[3]
      BY <2>2, <3>6 DEF TrimInv, TrimTypeOK
    <3>12. given[1] > TrimFloor + Suffix
      BY <3>1, <3>2, <3>4 DEF TrimInv
    <3>. QED  BY <2>2, <3>1, <3>10, <3>11, <3>12 DEF TrimInv
  <2>. QED  BY <2>2, <2>3, <2>4 DEF TrimInv
<1>2. CASE Trimmed
  <2>1. TrimTypeOK'
    BY <1>2 DEF Trimmed, TrimInv, TrimTypeOK
  <2>2. /\ section' = section /\ attempt' = attempt /\ given' = given /\ fixed' = fixed
        /\ PromptSize' = PromptSize /\ FitsCut' = FitsCut
    BY <1>2 DEF Trimmed, PromptSize, FitsCut, SizeWith
  <2>3. ASSUME FitsCut PROVE PromptSize <= PromptTokens
    <3>1. CASE \A i \in 1 .. 3 : ~CanCut(i)
      <4>1. section[1] <= TrimFloor + Suffix
        BY <3>1, CutFacts DEF CanCut, TrimInv, TrimTypeOK
      <4>. QED  BY <4>1, <2>3, SmallEnough
    <3>2. CASE attempt = TrimAttempts
      <4>1. section[1] <= TrimFloor + Suffix
        BY <3>2, <2>3 DEF TrimInv, Passed
      <4>. QED  BY <4>1, <2>3, SmallEnough
    <3>. QED  BY <3>1, <3>2, <1>2 DEF Trimmed
  <2>. QED  BY <2>1, <2>2, <2>3 DEF TrimInv
<1>3. CASE UNCHANGED trimVars
  BY <1>3 DEF trimVars, TrimInv, TrimTypeOK, FitsCut, SizeWith, PromptSize
<1>. QED  BY <1>1, <1>2, <1>3 DEF PromptNext, StartCut, Search, Shrink, promptVars

\* _trim_prompt_to_budget: when cutting the first section to the floor would be
\* enough, it is the only one cut, and the prompt returned fits, for any
\* sections the passes are enough for.
THEOREM OneSectionCanBeEnough ==
  ASSUME EnoughPasses
  PROVE  PromptSpec => []OneSectionIsEnough
<1>1. PICK bound \in [0 .. TrimAttempts -> Nat] : Passed(bound)
  BY DEF EnoughPasses
<1>2. PromptInit => TrimInv(bound)
  BY <1>1, TrimInitInv
<1>3. TrimInv(bound) /\ [PromptNext]_promptVars => TrimInv(bound)'
  BY <1>1, TrimNextInv
<1>4. TrimInv(bound) => OneSectionIsEnough
  <2>1. ASSUME NEW a, NEW b, NEW c, a + (b + given[2] + given[3]) \div CharsPerToken <= c 
        PROVE a + (b + given[2] + given[3]) \div CharsPerToken <= c
    BY <2>1
  <2>. QED  BY DEF TrimInv, OneSectionIsEnough, FitsCut, SizeWith
<1>. QED  BY <1>2, <1>3, <1>4, PTL DEF PromptSpec

\* With the floor of 500 characters, the suffix of 35 and the twelve passes of
\* the code that is so for sections of up to 206274 characters.
THEOREM TwelvePassesAreEnough ==
  ASSUME TrimFloor = 500, Suffix = 35, TrimAttempts = 12, \A n \in SectionSizes : n <= 206274
  PROVE  PromptSpec => []OneSectionIsEnough
<1>1. EnoughPasses
  BY TwelvePasses
<1>. QED  BY <1>1, OneSectionCanBeEnough

-------------------------------------------------------------------------------
(* BookDescribe: sections do not overlap, cover the pages, and are packed in *)
(* their order.                                                             *)

\* The books there are.
Books == {b \in Book : b.pages \subseteq b.headers /\ b.pages # {}}

LEMMA PagesOfBook ==
  ASSUME NEW b \in Books
  PROVE  /\ b.headers \subseteq 1 .. BookPages /\ b.headers # {} /\ IsFiniteSet(b.headers)
         /\ b.pages \subseteq b.headers /\ IsFiniteSet(b.pages)
         /\ b.tokens \in Nat
         /\ b.starts \in Seq({-1} \cup 1 .. BookPages) /\ Len(b.starts) \in Nat
         /\ \A i, j \in 1 .. Len(b.starts) : i < j => b.starts[i] <= b.starts[j]
<1>1. /\ b.headers \subseteq 1 .. BookPages /\ b.headers # {} /\ b.pages \subseteq b.headers
      /\ b.tokens \in BookTokens /\ b.starts \in StartPages
  BY DEF Books, Book
<1>2. IsFiniteSet(b.headers) /\ IsFiniteSet(b.pages)
  <2>1. 1 \in Int /\ BookPages \in Int
    BY BookAssumption
  <2>2. IsFiniteSet(1 .. BookPages)
    BY <2>1, FS_Interval
  <2>. QED  BY <1>1, <2>2, FS_Subset
<1>3. PICK n \in 0 .. MaxChapters : b.starts \in [1 .. n -> {-1} \cup 1 .. BookPages]
  BY <1>1 DEF StartPages
<1>4. b.starts \in Seq({-1} \cup 1 .. BookPages)
  BY <1>3
<1>5. \A i, j \in 1 .. Len(b.starts) : i < j => b.starts[i] <= b.starts[j]
  BY <1>1 DEF StartPages
<1>6. Len(b.starts) \in Nat
  BY <1>4
<1>7. b.tokens \in Nat
  BY <1>1, BookAssumption
<1>. QED  BY <1>1, <1>2, <1>4, <1>5, <1>6, <1>7, Zenon

\* The bounds a book gives are those of a set that is not empty.
LEMMA LastPageIsLast ==
  ASSUME NEW b \in Books
  PROVE  /\ LastHeader(b) \in b.headers /\ LastHeader(b) \in 1 .. BookPages
         /\ \A q \in b.headers : q <= LastHeader(b)
<1>1. b.headers \in SUBSET Nat /\ \A n \in b.headers : n <= BookPages
  BY PagesOfBook, BookAssumption
<1>2. \E p \in b.headers : \A q \in b.headers : q <= p
  BY <1>1, PagesOfBook, Greatest, BookAssumption
<1>. QED  BY <1>2, PagesOfBook DEF LastHeader

LEMMA CeilingIsNat ==
  ASSUME NEW x \in Nat, NEW y \in Nat \ {0}
  PROVE  Ceiling(x, y) \in Nat /\ (x > 0 => Ceiling(x, y) > 0)
<1>1. PICK n \in Nat : n = x + y - 1
  OBVIOUS
<1>2. n \div y \in Nat
  BY Division
<1>3. ASSUME x > 0, n \div y = 0 PROVE FALSE
  <2>1. PICK r \in Nat : r = n % y
    BY Division
  <2>2. n = y * 0 + r /\ r < y
    BY <1>3, <2>1, Division
  <2>. QED  BY <1>1, <1>3, <2>2
<1>. QED  BY <1>1, <1>2, <1>3 DEF Ceiling

\* Any number of sections is packed into 1 to MaxGroups groups.
LEMMA TargetIsBounded ==
  ASSUME NEW b \in Books, NEW n \in Nat
  PROVE  TargetGroups(b, n) \in 1 .. MaxGroups
<1>1. PICK c \in Nat : c = Ceiling(b.tokens, TokensPerGroup)
  BY CeilingIsNat, PagesOfBook, BookAssumption
<1>2. MinGroups \in Nat \ {0} /\ MaxGroups \in Nat \ {0} /\ MinGroups <= MaxGroups
  BY BookAssumption
<1>3. PICK s \in Nat : s = Smallest(MaxGroups, c) /\ s <= MaxGroups
  BY <1>2 DEF Smallest
<1>4. PICK t \in Nat : t = Largest(MinGroups, s) /\ t <= MaxGroups
  BY <1>2, <1>3 DEF Largest
<1>5. PICK u \in Nat : u = Smallest(n, t) /\ u <= MaxGroups
  BY <1>2, <1>4 DEF Smallest
<1>6. Largest(1, u) \in 1 .. MaxGroups
  BY <1>2, <1>5 DEF Largest
<1>. QED  BY <1>1, <1>3, <1>4, <1>5, <1>6 DEF TargetGroups

\* Sections of a book without chapters have pages.
LEMMA RangeIsPositive ==
  ASSUME NEW b \in Books
  PROVE  RangePages(b) \in Nat \ {0}
<1>1. PICK n \in Nat : n = Cardinality(b.headers)
  BY PagesOfBook, FS_CardinalityType
<1>2. TargetGroups(b, n) \in Nat \ {0}
  BY TargetIsBounded, BookAssumption
<1>3. PICK c \in Nat : c = Ceiling(BookPages, TargetGroups(b, n))
  BY <1>2, CeilingIsNat, BookAssumption
<1>4. Largest(1, c) \in Nat \ {0}
  BY DEF Largest
<1>. QED  BY <1>1, <1>3, <1>4 DEF RangePages

LEMMA SectionsAreNumbered ==
  ASSUME NEW b \in Books
  PROVE  \E n \in Nat : Sections(b) \subseteq 1 .. n /\ Sections(b) # {}
<1>1. CASE Chapters(b) # {}
  <2>1. Sections(b) \subseteq 1 .. Len(b.starts) /\ Sections(b) # {}
    BY <1>1 DEF Sections, Chapters
  <2>. QED  BY <2>1, PagesOfBook
<1>2. CASE Chapters(b) = {}
  <2>1. LastHeader(b) \in Nat \ {0}
    BY LastPageIsLast
  <2>2. PICK c \in Nat \ {0} : c = Ceiling(LastHeader(b), RangePages(b))
    BY <2>1, CeilingIsNat, RangeIsPositive
  <2>3. Sections(b) = 1 .. c
    BY <1>2, <2>2 DEF Sections
  <2>4. 1 \in 1 .. c
    OBVIOUS
  <2>. QED  BY <2>3, <2>4
<1>. QED  BY <1>1, <1>2

\* The sections of a book are numbered, with or without gaps, to the last.
LEMMA LastSectionIsLast ==
  ASSUME NEW b \in Books
  PROVE  /\ LastSection(b) \in Sections(b) /\ LastSection(b) \in Nat \ {0}
         /\ Sections(b) \subseteq 1 .. LastSection(b)
<1>1. PICK n \in Nat : Sections(b) \subseteq 1 .. n /\ Sections(b) # {}
  BY SectionsAreNumbered
<1>2. Sections(b) \in SUBSET Nat /\ \A k \in Sections(b) : k <= n
  BY <1>1
<1>3. \E k \in Sections(b) : \A j \in Sections(b) : j <= k
  BY <1>1, <1>2, Greatest
<1>4. LastSection(b) \in Sections(b) /\ \A j \in Sections(b) : j <= LastSection(b)
  BY <1>3 DEF LastSection
<1>. QED  BY <1>1, <1>4

LEMMA EndIsInt ==
  ASSUME NEW b \in Books, NEW i \in 1 .. Len(b.starts)
  PROVE  EndPage(b, i) \in Int /\ b.starts[i] \in Int
<1>1. {-1} \cup 1 .. BookPages \subseteq Int
  BY BookAssumption
<1>2. \A j \in 1 .. Len(b.starts) : b.starts[j] \in Int
  BY <1>1, PagesOfBook
<1>3. CASE i < Len(b.starts)
  <2>1. i + 1 \in 1 .. Len(b.starts)
    BY <1>3, PagesOfBook
  <2>. QED  BY <1>2, <1>3, <2>1 DEF EndPage
<1>4. CASE ~(i < Len(b.starts))
  BY <1>2, <1>4, BookAssumption DEF EndPage
<1>. QED  BY <1>3, <1>4

LEMMA SectionHasPages ==
  ASSUME NEW b \in Books, NEW k \in Sections(b)
  PROVE  SectionStart(b, k) \in Int /\ SectionEnd(b, k) \in Int
<1>1. LastHeader(b) \in Int
  BY LastPageIsLast, BookAssumption
<1>2. CASE Chapters(b) # {}
  <2>1. k \in 1 .. Len(b.starts)
    BY <1>2 DEF Sections, Chapters
  <2>2. EndPage(b, k) \in Int /\ b.starts[k] \in Int
    BY <2>1, EndIsInt
  <2>. QED  BY <1>1, <1>2, <2>2 DEF SectionStart, SectionEnd, Smallest
<1>3. CASE Chapters(b) = {}
  <2>1. k \in Nat \ {0}
    BY SectionsAreNumbered
  <2>2. PICK r \in Nat : r = RangePages(b)
    BY RangeIsPositive
  <2>3. k * r \in Int /\ (k - 1) * r \in Int
    BY <2>1, <2>2
  <2>. QED  BY <1>1, <1>3, <2>2, <2>3 DEF SectionStart, SectionEnd, Smallest
<1>. QED  BY <1>2, <1>3

\* The group being filled.
Filling(b) == [group : 1 .. Target(b), size : Nat]

LEMMA TargetIsPositive ==
  ASSUME NEW b \in Books
  PROVE  Target(b) \in Nat \ {0} /\ Target(b) <= MaxGroups
<1>1. PICK n \in Nat : Sections(b) \subseteq 1 .. n
  BY SectionsAreNumbered
<1>2. IsFiniteSet(1 .. n)
  BY 1 \in Int, n \in Int, FS_Interval
<1>3. PICK c \in Nat : c = Cardinality(Sections(b))
  BY <1>1, <1>2, FS_Subset, FS_CardinalityType
<1>4. TargetGroups(b, c) \in 1 .. MaxGroups
  BY TargetIsBounded
<1>. QED  BY <1>3, <1>4, BookAssumption DEF Target

\* A section joins the group being filled or opens the next one.
LEMMA JoinIsOpen ==
  ASSUME NEW b \in Books, NEW open \in Filling(b), NEW n \in Nat
  PROVE  /\ Join(b, open, n) \in Filling(b)
         /\ open.group <= Join(b, open, n).group
<1>1. Target(b) \in Nat \ {0} /\ open.group \in 1 .. Target(b) /\ open.size \in Nat
  BY TargetIsPositive DEF Filling
<1>2. CASE Join(b, open, n) = [group |-> open.group + 1, size |-> n] /\ open.group < Target(b)
  BY <1>1, <1>2 DEF Filling
<1>3. CASE Join(b, open, n) = [group |-> open.group, size |-> open.size + n]
  BY <1>1, <1>3 DEF Filling
<1>. QED  BY <1>2, <1>3 DEF Join

\* Packed is a function, although its definition chooses one: there is one
\* that unfolds as it says, and any two agree by induction.
LEMMA PackedIsDefined ==
  ASSUME NEW b \in Books
  PROVE  /\ Packed(b) \in [0 .. LastSection(b) -> Filling(b)]
         /\ \A k \in 1 .. LastSection(b) : Packed(b)[k - 1].group <= Packed(b)[k].group
<1>. DEFINE n == LastSection(b)
            size(k) == Largest(1, SectionEnd(b, k) - SectionStart(b, k) + 1)
            base == [group |-> 1, size |-> 0]
            Next1(k, o) == IF k \in Sections(b) THEN Join(b, o, size(k)) ELSE o
            joining == [k \in Nat |-> [o \in Filling(b) |-> Next1(k, o)]]
            Body(f) == [k \in 0 .. n |-> IF k = 0 THEN base
                                        ELSE IF k \in Sections(b) THEN Join(b, f[k - 1], size(k))
                                        ELSE f[k - 1]]
<1>1. n \in Nat
  BY LastSectionIsLast
<1>2. base \in Filling(b)
  BY TargetIsPositive DEF Filling
<1>3. ASSUME NEW k \in Sections(b) PROVE size(k) \in Nat
  BY SectionHasPages DEF Largest
<1>. HIDE DEF size
<1>4. ASSUME NEW k \in Nat, NEW o \in Filling(b)
      PROVE  Next1(k, o) \in Filling(b) /\ o.group <= Next1(k, o).group
  <2>1. CASE k \in Sections(b)
    BY <2>1, <1>3, JoinIsOpen
  <2>2. CASE k \notin Sections(b)
    <3>1. o.group \in 1 .. Target(b)
      BY DEF Filling
    <3>. QED  BY <2>2, <3>1, TargetIsPositive
  <2>. QED  BY <2>1, <2>2
<1>5. joining \in [Nat -> [Filling(b) -> Filling(b)]]
  BY <1>4
<1>6. PICK f \in [0 .. n -> Filling(b)] : f[0] = base /\ \A k \in 1 .. n : f[k] = joining[k][f[k - 1]]
  <2>. HIDE DEF joining, n, base
  <2>1. \E f \in [0 .. n -> Filling(b)] : Unfolds(f, n, base, joining)
    BY <1>1, <1>2, <1>5, Recursion
  <2>. QED  BY <2>1 DEF Unfolds
<1>7. ASSUME NEW k \in 1 .. n PROVE f[k - 1] \in Filling(b) /\ f[k] = Next1(k, f[k - 1])
  <2>1. k \in Nat /\ k - 1 \in 0 .. n
    BY <1>1
  <2>2. f[k - 1] \in Filling(b)
    BY <2>1, <1>6
  <2>3. joining[k][f[k - 1]] = Next1(k, f[k - 1])
    BY <2>1, <2>2
  <2>. QED  BY <2>2, <2>3, <1>6
<1>8. f = Body(f)
  <2>1. ASSUME NEW k \in 0 .. n PROVE f[k] = Body(f)[k]
    <3>1. CASE k = 0
      BY <3>1, <1>6
    <3>2. CASE k \in 1 .. n
      BY <3>2, <1>1, <1>7
    <3>. QED  BY <3>1, <3>2, <1>1
  <2>. QED  BY <2>1, <1>6
<1>9. ASSUME NEW g, g = Body(g) PROVE g = f
  <2>. DEFINE Agree == {m \in Nat : m <= n => g[m] = f[m]}
  <2>1. 0 \in Agree
    <3>1. 0 \in 0 .. n
      BY <1>1
    <3>2. g[0] = base
      BY <3>1, <1>9
    <3>. QED  BY <3>2, <1>6
  <2>2. ASSUME NEW m \in Nat, m \in Agree PROVE m + 1 \in Agree
    <3>. SUFFICES ASSUME m + 1 <= n PROVE g[m + 1] = f[m + 1]
      BY m + 1 \in Nat
    <3>1. m + 1 \in 1 .. n /\ m + 1 \in 0 .. n /\ m + 1 # 0 /\ m + 1 - 1 = m /\ g[m] = f[m]
      BY <2>2, <1>1
    <3>2. g[m + 1] = Next1(m + 1, g[m])
      <4>1. g[m + 1] = Body(g)[m + 1]
        BY <1>9, Zenon
      <4>2. PICK k \in 1 .. n : k = m + 1
        BY <3>1
      <4>3. Body(g)[k] = IF k \in Sections(b) THEN Join(b, g[k - 1], size(k)) ELSE g[k - 1]
        BY <1>1
      <4>. QED  BY <4>1, <4>2, <4>3
    <3>3. f[m + 1] = Next1(m + 1, f[m])
      BY <3>1, <1>7
    <3>. QED  BY <3>1, <3>2, <3>3
  <2>3. Nat \subseteq Agree
    <3>. HIDE DEF Agree
    <3>. QED  BY <2>1, <2>2, Induction
  <2>4. \A k \in 0 .. n : g[k] = f[k]
    BY <2>3, <1>1
  <2>5. g = [k \in 0 .. n |-> g[k]]
    BY <1>9
  <2>. QED  BY <2>4, <2>5, <1>6
<1>10. Packed(b) = CHOOSE g : g = Body(g)
  BY DEF Packed, size
<1>11. Packed(b) = f
  <2>. HIDE DEF Body
  <2>. QED  BY <1>8, <1>9, <1>10
<1>12. ASSUME NEW k \in 1 .. n PROVE f[k - 1].group <= f[k].group
  BY <1>1, <1>4, <1>7
<1>. QED  BY <1>6, <1>11, <1>12

\* Groups are filled in the order of the sections, and the last section is
\* in the last of them.
LEMMA GroupsInOrder ==
  ASSUME NEW b \in Books
  PROVE  /\ Groups(b) \in 1 .. MaxGroups
         /\ \A k \in Sections(b) : Packed(b)[k].group \in 1 .. Groups(b)
<1>. DEFINE n == LastSection(b)
<1>1. n \in Nat \ {0} /\ Sections(b) \subseteq 1 .. n
  BY LastSectionIsLast
<1>2. PICK P \in [0 .. n -> Filling(b)] : P = Packed(b)
  BY PackedIsDefined
<1>3. \A k \in 1 .. n : P[k - 1].group <= P[k].group
  BY <1>2, PackedIsDefined
<1>4. \A k \in 0 .. n : P[k].group \in 1 .. Target(b)
  BY DEF Filling
<1>5. Target(b) \in Nat \ {0} /\ Target(b) <= MaxGroups /\ MaxGroups \in Nat
  BY TargetIsPositive, BookAssumption
<1>. HIDE DEF n
<1>. DEFINE T == {d \in Nat : d <= n => P[n - d].group <= P[n].group}
<1>6. 0 \in T
  BY <1>1, <1>4, <1>5
<1>7. ASSUME NEW d \in Nat, d \in T PROVE d + 1 \in T
  <2>. SUFFICES ASSUME d + 1 <= n PROVE P[n - (d + 1)].group <= P[n].group
    OBVIOUS
  <2>1. n - d \in 1 .. n /\ n - (d + 1) = n - d - 1 /\ n - (d + 1) \in 0 .. n /\ n \in 0 .. n
    BY <1>1
  <2>2. P[n - (d + 1)].group <= P[n - d].group
    BY <2>1, <1>3
  <2>3. P[n - d].group <= P[n].group
    BY <2>1, <1>7, <1>1
  <2>. QED  BY <2>1, <2>2, <2>3, <1>1, <1>4, <1>5
<1>8. Nat \subseteq T
  <2>. HIDE DEF T
  <2>. QED  BY <1>6, <1>7, Induction
<1>9. ASSUME NEW k \in Sections(b) PROVE P[k].group <= P[n].group
  <2>1. n - k \in Nat /\ n - k <= n /\ n - (n - k) = k
    BY <1>1
  <2>2. n - k \in T
    BY <2>1, <1>8
  <2>. QED  BY <2>1, <2>2
<1>10. Groups(b) = P[n].group
  BY <1>2 DEF Groups, n
<1>11. ASSUME NEW k \in Sections(b) PROVE P[k].group \in 1 .. P[n].group
  BY <1>1, <1>4, <1>5, <1>9
<1>12. P[n].group \in 1 .. MaxGroups
  BY <1>1, <1>4, <1>5
<1>. QED  BY <1>2, <1>10, <1>11, <1>12

\* Sections of a book do not share a page.
LEMMA SectionsAreApart ==
  ASSUME NEW b \in Books, NEW p, NEW j \in Sections(b), NEW k \in Sections(b),
         InSection(b, p, j), InSection(b, p, k), j < k
  PROVE  FALSE
<1>1. p \in Nat
  BY PagesOfBook DEF InSection
<1>2. /\ SectionStart(b, k) <= p /\ p <= SectionEnd(b, j)
      /\ SectionStart(b, k) \in Int /\ SectionEnd(b, j) \in Int
  BY SectionHasPages DEF InSection
<1>3. LastHeader(b) \in Int
  BY LastPageIsLast, BookAssumption
<1>4. CASE Chapters(b) # {}
  <2>1. j \in 1 .. Len(b.starts) /\ k \in 1 .. Len(b.starts) /\ Len(b.starts) \in Nat
    BY <1>4, PagesOfBook DEF Sections, Chapters
  <2>2. j + 1 \in 1 .. Len(b.starts) /\ (j + 1 < k \/ j + 1 = k)
    BY <2>1
  <2>3. b.starts[j + 1] \in Int /\ b.starts[k] \in Int
    BY <2>1, <2>2, EndIsInt
  <2>4. b.starts[j + 1] <= b.starts[k]
    BY <2>1, <2>2, <2>3, PagesOfBook
  <2>5. SectionEnd(b, j) <= b.starts[j + 1] - 1
    BY <1>3, <1>4, <2>1, <2>3 DEF SectionEnd, Smallest, EndPage
  <2>6. SectionStart(b, k) = b.starts[k]
    BY <1>4 DEF SectionStart
  <2>. QED  BY <1>1, <1>2, <2>3, <2>4, <2>5, <2>6
<1>5. CASE Chapters(b) = {}
  <2>1. j \in Nat /\ k \in Nat
    BY SectionsAreNumbered
  <2>2. PICK r \in Nat \ {0} : r = RangePages(b)
    BY RangeIsPositive
  <2>3. r * j <= r * (k - 1)
    BY <2>1, ProductOrder
  <2>4. r * j \in Nat /\ r * (k - 1) \in Nat /\ r * j = j * r /\ r * (k - 1) = (k - 1) * r
    BY <2>1, Product, k - 1 \in Nat
  <2>5. SectionEnd(b, j) <= j * r
    BY <1>3, <1>5, <2>2, <2>4 DEF SectionEnd, Smallest
  <2>6. SectionStart(b, k) = (k - 1) * r + 1
    BY <1>5, <2>2 DEF SectionStart
  <2>. QED  BY <1>1, <1>2, <2>3, <2>4, <2>5, <2>6
<1>. QED  BY <1>4, <1>5

\* Every page with text from the first chapter on is in a section: that of the
\* last chapter that begins on or before it, or of its range.
LEMMA PageHasSection ==
  ASSUME NEW b \in Books, NEW p \in b.pages,
         Chapters(b) # {} => \E k \in Chapters(b) : b.starts[k] <= p
  PROVE  \E k \in Sections(b) : InSection(b, p, k)
<1>1. p \in 1 .. BookPages /\ BookPages \in Nat /\ p <= LastHeader(b)
  BY PagesOfBook, LastPageIsLast, BookAssumption
<1>2. LastHeader(b) \in Nat
  BY LastPageIsLast, BookAssumption
<1>3. CASE Chapters(b) # {}
  <2>1. PICK c \in Chapters(b) : b.starts[c] <= p
    BY <1>3
  <2>. DEFINE Before == {i \in 1 .. Len(b.starts) : b.starts[i] <= p}
  <2>2. Before \in SUBSET Nat /\ c \in Before /\ \A i \in Before : i <= Len(b.starts)
    BY <2>1, PagesOfBook DEF Chapters
  <2>3. PICK m \in Before : \A i \in Before : i <= m
    BY <2>2, PagesOfBook, Greatest
  <2>4. m \in 1 .. Len(b.starts) /\ c \in 1 .. Len(b.starts) /\ Len(b.starts) \in Nat
    BY <2>2, PagesOfBook
  <2>5. b.starts[m] \in Int /\ b.starts[c] \in Int /\ EndPage(b, m) \in Int
    BY <2>4, EndIsInt
  <2>6. b.starts[c] > 0 /\ (c < m \/ c = m)
    BY <2>1, <2>2, <2>3, <2>4 DEF Chapters
  <2>7. b.starts[m] > 0
    BY <2>4, <2>5, <2>6, PagesOfBook
  <2>8. EndPage(b, m) >= p
    <3>1. CASE m < Len(b.starts)
      <4>1. m + 1 \in 1 .. Len(b.starts) /\ m + 1 \notin Before
        BY <3>1, <2>3, <2>4
      <4>2. b.starts[m + 1] \in Int
        BY <4>1, EndIsInt
      <4>. QED  BY <1>1, <3>1, <4>1, <4>2 DEF EndPage
    <3>2. CASE ~(m < Len(b.starts))
      BY <1>1, <3>2 DEF EndPage
    <3>. QED  BY <3>1, <3>2
  <2>9. b.starts[m] <= p
    OBVIOUS
  <2>10. m \in Chapters(b)
    BY <1>1, <2>4, <2>5, <2>7, <2>8, <2>9 DEF Chapters
  <2>11. SectionStart(b, m) <= p /\ p <= SectionEnd(b, m)
    BY <1>1, <1>2, <1>3, <2>5, <2>8, <2>9 DEF SectionStart, SectionEnd, Smallest
  <2>. QED  BY <1>3, <2>10, <2>11 DEF Sections, InSection
<1>4. CASE Chapters(b) = {}
  <2>1. PICK r \in Nat \ {0} : r = RangePages(b)
    BY RangeIsPositive
  <2>2. PICK l \in Nat : l = LastHeader(b)
    BY <1>2
  <2>3. PICK q \in Nat : q = (p - 1) \div r
    BY Division, <1>1, p - 1 \in Nat
  <2>4. PICK d \in Nat : d = (p - 1) % r
    BY Division, <1>1, p - 1 \in Nat
  <2>5. p - 1 = r * q + d /\ d < r
    BY Division, <1>1, p - 1 \in Nat, <2>3, <2>4
  <2>6. r * q \in Nat /\ r * q = q * r /\ (q + 1) * r = r * q + r
    <3>1. (q + 1) * r = q * r + r
      OBVIOUS
    <3>. QED  BY <3>1, Product
  <2>7. SectionStart(b, q + 1) = q * r + 1
    BY <1>4, <2>1 DEF SectionStart
  <2>8. SectionStart(b, q + 1) <= p /\ p <= SectionEnd(b, q + 1)
    BY <1>1, <1>4, <2>1, <2>2, <2>5, <2>6, <2>7 DEF SectionEnd, Smallest
  <2>9. q + 1 \in Sections(b)
    <3>1. PICK n \in Nat : n = l + r - 1
      BY <1>1, <2>2
    <3>2. PICK z \in Nat : z = n \div r
      BY Division
    <3>3. PICK e \in Nat : e = n % r
      BY Division
    <3>4. n = r * z + e /\ e < r
      BY Division, <3>2, <3>3
    <3>5. r * z \in Nat /\ r * (z + 1) = r * z + r /\ r * (q + 1) = r * q + r
      BY Product, Distributes
    <3>6. r * (q + 1) < r * (z + 1)
      BY <1>1, <2>2, <2>5, <2>6, <3>1, <3>4, <3>5
    <3>7. q + 1 < z + 1
      BY <3>6, ProductOrder
    <3>8. Sections(b) = 1 .. z
      BY <1>4, <2>1, <2>2, <3>1, <3>2 DEF Sections, Ceiling
    <3>. QED  BY <3>7, <3>8
  <2>. QED  BY <2>8, <2>9 DEF InSection
<1>. QED  BY <1>3, <1>4

\* Hence in one section ...
LEMMA OneSection ==
  ASSUME NEW b \in Books, NEW p \in b.pages,
         Chapters(b) # {} => \E k \in Chapters(b) : b.starts[k] <= p
  PROVE  Cardinality({k \in Sections(b) : InSection(b, p, k)}) = 1
<1>. DEFINE Found == {k \in Sections(b) : InSection(b, p, k)}
<1>1. PICK k \in Sections(b) : InSection(b, p, k)
  BY PageHasSection
<1>2. ASSUME NEW j \in Found PROVE j = k
  <2>1. j \in Nat /\ k \in Nat
    BY SectionsAreNumbered
  <2>. QED  BY <1>1, <2>1, SectionsAreApart
<1>3. Found = {k}
  BY <1>1, <1>2
<1>. QED  BY <1>3, FS_Singleton

\* ... of one group, whose text is looked at unless it is too long.
LEMMA PageIsInAGroup ==
  ASSUME NEW b \in Books, NEW p \in b.pages,
         Chapters(b) # {} => \E k \in Chapters(b) : b.starts[k] <= p
  PROVE  \E g \in 1 .. Groups(b) :
           /\ p \in TextOf(b, g)
           /\ p \in Sent(b, g) \/ Cardinality(TextOf(b, g)) > RequestPages
<1>1. PICK k \in Sections(b) : InSection(b, p, k)
  BY PageHasSection
<1>2. PICK g \in 1 .. Groups(b) : g = Packed(b)[k].group
  BY GroupsInOrder
<1>. DEFINE T == TextOf(b, g)  U == {q \in T : q <= p}
<1>3. p \in T
  BY <1>1, <1>2 DEF TextOf, SectionsOf
<1>4. IsFiniteSet(T)
  BY PagesOfBook, FS_Subset, T \subseteq b.pages DEF TextOf
<1>5. Cardinality(U) \in Nat /\ Cardinality(T) \in Nat /\ Cardinality(U) <= Cardinality(T)
  BY <1>4, FS_Subset, FS_CardinalityType, U \subseteq T
<1>6. p \in Sent(b, g) \/ Cardinality(T) > RequestPages
  <2>1. CASE Cardinality(U) <= RequestPages
    BY <1>3, <2>1 DEF Sent
  <2>2. CASE ~(Cardinality(U) <= RequestPages)
    BY <1>5, <2>2, BookAssumption
  <2>. QED  BY <2>1, <2>2
<1>. QED  BY <1>2, <1>3, <1>6

\* What a compaction has asked for so far.
BookInv ==
  /\ book.pages # {} => book \in Books
  /\ strategy = "none" => step = "choose" /\ call = 1 /\ summaries = {} /\ lost = {}
  /\ step = "choose" => strategy = "none"
  /\ strategy = "compact" =>
       /\ book.pages # {}
       /\ call \in 1 .. Groups(book) + 1
       /\ summaries \cup lost = {g \in 1 .. call - 1 : HasText(book, g)}

LEMMA GroupsIsNat == book \in Books => Groups(book) \in Nat \ {0}
  BY GroupsInOrder, BookAssumption

LEMMA BookInitInv == BookInit => BookInv
<1>. SUFFICES ASSUME BookInit PROVE BookInv
  OBVIOUS
<1>1. book \in Book /\ book.pages \subseteq book.headers
  BY DEF BookInit
<1>. QED  BY <1>1 DEF BookInit, BookInv, Books

LEMMA BookNextInv == BookInv /\ [BookNext]_bookVars => BookInv'
<1>. SUFFICES ASSUME BookInv, [BookNext]_bookVars PROVE BookInv'
  OBVIOUS
<1>. USE DEF BookInv
<1>1. CASE Choose
  <2>1. /\ strategy' = "compact" => book \in Books
        /\ strategy' \in {"compact", "split", "ask"} /\ step' = "request" /\ book' = book
        /\ call' = 1 /\ summaries' = {} /\ lost' = {}
    BY <1>1 DEF Choose, AfterCompaction, calls
  <2>2. book \in Books => 1 \in 1 .. Groups(book) + 1
    BY GroupsIsNat
  <2>3. {g \in 1 .. 1 - 1 : HasText(book, g)} = {}
    OBVIOUS
  <2>4. strategy' = "compact" => book'.pages # {}
    BY <2>1 DEF Books
  <2>. QED  BY <2>1, <2>2, <2>3, <2>4
<1>2. CASE Refused429
  BY <1>2 DEF Refused429
<1>3. CASE Summarize
  <2>1. book' = book /\ strategy' = strategy /\ step' = step /\ call' = call + 1
        /\ step = "request" /\ strategy \in {"compact", "split"}
    BY <1>3 DEF Summarize
  <2>2. ASSUME strategy = "compact"
        PROVE  /\ call + 1 \in 1 .. Groups(book) + 1
               /\ summaries' \cup lost' = {g \in 1 .. call : HasText(book, g)}
    <3>1. Groups(book) \in Nat /\ call \in Nat \ {0}
      BY <2>2, GroupsIsNat
    <3>2. ~(call > Groups(book))
      BY <1>3, <2>1, <2>2 DEF Summarize, Over, Requests
    <3>3. 1 .. call = (1 .. call - 1) \cup {call}
      BY <3>1
    <3>4. CASE HasText(book, call)
      <4>1. summaries' \cup lost' = (summaries \cup lost) \cup {call}
        BY <1>3, <2>2, <3>4 DEF Summarize
      <4>. QED  BY <2>2, <3>1, <3>2, <3>3, <3>4, <4>1
    <3>5. CASE ~HasText(book, call)
      <4>1. summaries' = summaries /\ lost' = lost
        BY <1>3, <2>2, <3>5 DEF Summarize
      <4>. QED  BY <2>2, <3>1, <3>2, <3>3, <3>5, <4>1
    <3>. QED  BY <3>4, <3>5
  <2>3. strategy = "compact" => call + 1 - 1 = call
    BY <2>2, GroupsIsNat
  <2>. QED  BY <2>1, <2>2, <2>3
<1>4. CASE CompactEnds
  BY <1>4 DEF CompactEnds, Over, GiveUp, AfterCompaction, calls
<1>5. CASE SplitEnds \/ Synthesize \/ Ask
  BY <1>5 DEF SplitEnds, Synthesize, Ask, Over, calls
<1>6. CASE UNCHANGED bookVars
  BY <1>6 DEF bookVars, calls
<1>. QED  BY <1>1, <1>2, <1>3, <1>4, <1>5, <1>6 DEF BookNext

\* _build_book_sections, _pack_book_sections and _build_group_text: when the
\* requests of a compaction are over, every page with text from the first
\* chapter on was in one section and in the text of a group asked for, which the
\* request looked at unless it was too long, in never more than MaxGroups
\* requests, for any chapters, pages, blank pages and sizes.
THEOREM EveryPageIsAskedFor == BookSpec => []PagesInOneGroup
<1>1. BookInv => PagesInOneGroup
  <2>. SUFFICES ASSUME BookInv, strategy = "compact", Over PROVE PagesInOneGroup
    BY DEF PagesInOneGroup
  <2>1. book \in Books
    BY DEF BookInv
  <2>2. Groups(book) <= MaxGroups /\ Groups(book) \in Nat
    BY <2>1, GroupsInOrder, BookAssumption
  <2>3. call - 1 = Groups(book)
    BY <2>2 DEF BookInv, Over, Requests
  <2>4. summaries \cup lost = {g \in 1 .. Groups(book) : HasText(book, g)}
    BY <2>3 DEF BookInv
  <2>5. ASSUME NEW p \in Covered
        PROVE  /\ p \in book.pages
               /\ Chapters(book) # {} => \E k \in Chapters(book) : book.starts[k] <= p
    BY DEF Covered
  <2>6. ASSUME NEW p \in Covered
        PROVE  Cardinality({k \in Sections(book) : InSection(book, p, k)}) = 1
    BY <2>1, <2>5, OneSection
  <2>7. ASSUME NEW p \in Covered
        PROVE  \E g \in summaries \cup lost :
                 /\ p \in TextOf(book, g)
                 /\ p \in Sent(book, g) \/ Cardinality(TextOf(book, g)) > RequestPages
    <3>1. PICK g \in 1 .. Groups(book) :
            /\ p \in TextOf(book, g)
            /\ p \in Sent(book, g) \/ Cardinality(TextOf(book, g)) > RequestPages
      BY <2>1, <2>5, PageIsInAGroup
    <3>2. g \in summaries \cup lost
      BY <2>4, <3>1, Zenon DEF HasText
    <3>. QED  BY <3>1, <3>2
  <2>. QED  BY <2>2, <2>6, <2>7 DEF PagesInOneGroup
<1>. QED  BY <1>1, BookInitInv, BookNextInv, PTL DEF BookSpec

\* compact_book_with_llm: the compaction is given up only after every group with
\* text was lost, however many groups there are.
THEOREM CompactionIsKept == BookSpec => GivesUpOnlyWhenAllLost
<1>1. BookInv /\ [BookNext]_bookVars =>
        (strategy = "compact" /\ strategy' # "compact" =>
           lost = {g \in 1 .. Groups(book) : HasText(book, g)})
  <2>. SUFFICES ASSUME BookInv, [BookNext]_bookVars, strategy = "compact", strategy' # "compact"
                PROVE  lost = {g \in 1 .. Groups(book) : HasText(book, g)}
    OBVIOUS
  <2>1. CompactEnds /\ summaries = {} /\ call > Groups(book)
    BY DEF BookNext, bookVars, calls, Choose, Refused429, Summarize, CompactEnds,
           SplitEnds, Synthesize, Ask, Over, Requests, BookInv
  <2>2. Groups(book) \in Nat /\ call \in 1 .. Groups(book) + 1
    BY GroupsIsNat DEF BookInv
  <2>3. call - 1 = Groups(book)
    BY <2>1, <2>2
  <2>. QED  BY <2>1, <2>3 DEF BookInv
<1>. QED  BY <1>1, BookInitInv, BookNextInv, PTL DEF BookSpec, GivesUpOnlyWhenAllLost

-------------------------------------------------------------------------------
(* Retrieval: a batch is an interval of texts, and its request has as many   *)
(* vectors as texts, so a vector is put at the place of its text.           *)

\* A batch being filled.
OpenBatch == [batch : Nat, from : Nat, tokens : Nat]

\* A text joins it or opens the next one.
LEMMA PutIsOpen ==
  ASSUME NEW o \in OpenBatch, NEW k \in Nat, NEW n \in Nat
  PROVE  /\ Put(o, k, n) \in OpenBatch
         /\ \/ Put(o, k, n).batch = o.batch /\ Put(o, k, n).from = o.from
            \/ Put(o, k, n).batch = o.batch + 1 /\ Put(o, k, n).from = k
<1>1. CASE Put(o, k, n) = [batch |-> o.batch + 1, from |-> k, tokens |-> n]
  BY <1>1 DEF OpenBatch
<1>2. CASE Put(o, k, n) = [o EXCEPT !.tokens = o.tokens + n]
  BY <1>2 DEF OpenBatch
<1>. QED  BY <1>1, <1>2 DEF Put

\* Batched unfolds as its definition says, by recursion and induction.
LEMMA BatchedIsDefined ==
  ASSUME NEW s \in Seq(Nat)
  PROVE  /\ Batched(s) \in [0 .. Len(s) -> OpenBatch]
         /\ Batched(s)[0] = [batch |-> 1, from |-> 1, tokens |-> 0]
         /\ \A k \in 1 .. Len(s) : Batched(s)[k] = Put(Batched(s)[k - 1], k, s[k])
<1>. DEFINE n == Len(s)
            base == [batch |-> 1, from |-> 1, tokens |-> 0]
            size(k) == IF k \in DOMAIN s THEN s[k] ELSE 0
            putting == [k \in Nat |-> [o \in OpenBatch |-> Put(o, k, size(k))]]
            Body(f) == [k \in 0 .. n |-> IF k = 0 THEN base ELSE Put(f[k - 1], k, s[k])]
<1>1. n \in Nat /\ base \in OpenBatch
  BY DEF OpenBatch
<1>2. \A k \in Nat : size(k) \in Nat
  OBVIOUS
<1>3. putting \in [Nat -> [OpenBatch -> OpenBatch]]
  BY <1>2, PutIsOpen
<1>4. PICK f \in [0 .. n -> OpenBatch] : f[0] = base /\ \A k \in 1 .. n : f[k] = putting[k][f[k - 1]]
  <2>. HIDE DEF putting, n, base
  <2>1. \E f \in [0 .. n -> OpenBatch] : Unfolds(f, n, base, putting)
    BY <1>1, <1>3, Recursion
  <2>. QED  BY <2>1 DEF Unfolds
<1>5. ASSUME NEW k \in 1 .. n PROVE f[k] = Put(f[k - 1], k, s[k])
  <2>1. k \in Nat /\ k - 1 \in 0 .. n /\ size(k) = s[k]
    BY <1>1
  <2>2. f[k - 1] \in OpenBatch
    BY <2>1, <1>4
  <2>. QED  BY <2>1, <2>2, <1>4
<1>6. f = Body(f)
  <2>1. ASSUME NEW k \in 0 .. n PROVE f[k] = Body(f)[k]
    <3>1. k = 0 \/ k \in 1 .. n
      BY <1>1
    <3>. QED  BY <3>1, <1>4, <1>5
  <2>. QED  BY <2>1, <1>4
<1>7. Batched(s) = CHOOSE g : g = Body(g)
  BY DEF Batched
<1>8. PICK g : g = Batched(s) /\ g = Body(g)
  <2>. HIDE DEF Body
  <2>. QED  BY <1>6, <1>7
<1>9. g[0] = base /\ \A k \in 1 .. n : g[k] = Put(g[k - 1], k, s[k])
  <2>1. g[0] = base
    BY <1>1, <1>8
  <2>2. ASSUME NEW k \in 1 .. n PROVE g[k] = Put(g[k - 1], k, s[k])
    BY <1>1, <1>8
  <2>. QED  BY <2>1, <2>2
<1>. DEFINE Good == {m \in Nat : m <= n => g[m] \in OpenBatch}
<1>10. 0 \in Good
  BY <1>1, <1>9
<1>11. ASSUME NEW m \in Nat, m \in Good PROVE m + 1 \in Good
  <2>. SUFFICES ASSUME m + 1 <= n PROVE g[m + 1] \in OpenBatch
    OBVIOUS
  <2>1. m + 1 \in 1 .. n /\ m + 1 - 1 = m /\ m <= n
    BY <1>1
  <2>2. g[m + 1] = Put(g[m], m + 1, s[m + 1]) /\ s[m + 1] \in Nat
    BY <2>1, <1>9
  <2>3. g[m] \in OpenBatch /\ m + 1 \in Nat
    BY <2>1, <1>11
  <2>4. Put(g[m], m + 1, s[m + 1]) \in OpenBatch
    BY <2>2, <2>3, PutIsOpen
  <2>. QED  BY <2>2, <2>4
<1>12. Nat \subseteq Good
  <2>. HIDE DEF Good
  <2>. QED  BY <1>10, <1>11, Induction
<1>13. g \in [0 .. n -> OpenBatch]
  <2>1. \A k \in 0 .. n : g[k] \in OpenBatch
    BY <1>12, <1>1
  <2>2. g = [k \in 0 .. n |-> g[k]]
    BY <1>8
  <2>. QED  BY <2>1, <2>2
<1>. QED  BY <1>8, <1>9, <1>13

\* A batch is an interval of texts, which the first of them opened.
Interval(B, k) ==
  /\ B[k].from \in 1 .. k
  /\ \A i \in 1 .. k : /\ B[i].batch = B[k].batch <=> B[k].from <= i
                       /\ B[k].from <= i => B[i].from = B[k].from
                       /\ B[i].batch <= B[k].batch

\* By induction on the texts.
LEMMA BatchIsInterval ==
  ASSUME NEW s \in Seq(Nat), NEW B, B = Batched(s)
  PROVE  \A k \in 1 .. Len(s) : Interval(B, k)
<1>. DEFINE T == {m \in Nat : m + 1 <= Len(s) => Interval(B, m + 1)}
<1>1. /\ B \in [0 .. Len(s) -> OpenBatch] /\ Len(s) \in Nat
      /\ B[0] = [batch |-> 1, from |-> 1, tokens |-> 0]
  BY BatchedIsDefined
<1>2. ASSUME NEW k \in 1 .. Len(s)
      PROVE  /\ B[k].batch \in Nat /\ B[k].from \in Nat
             /\ \/ B[k].batch = B[k - 1].batch /\ B[k].from = B[k - 1].from
                \/ B[k].batch = B[k - 1].batch + 1 /\ B[k].from = k
  <2>1. k \in Nat /\ k - 1 \in 0 .. Len(s) /\ k \in 0 .. Len(s) /\ s[k] \in Nat
    BY <1>1
  <2>2. B[k] = Put(B[k - 1], k, s[k]) /\ B[k - 1] \in OpenBatch /\ B[k] \in OpenBatch
    BY <1>1, <2>1, BatchedIsDefined
  <2>3. B[k].batch \in Nat /\ B[k].from \in Nat
    BY <2>2 DEF OpenBatch
  <2>4. PICK o \in OpenBatch : o = B[k - 1]
    BY <2>2
  <2>5. PICK q \in OpenBatch : q = B[k]
    BY <2>2
  <2>6. q = Put(o, k, s[k])
    BY <2>2, <2>4, <2>5
  <2>7. \/ q.batch = o.batch /\ q.from = o.from
        \/ q.batch = o.batch + 1 /\ q.from = k
    BY <2>1, <2>6, PutIsOpen
  <2>. QED  BY <2>3, <2>4, <2>5, <2>7
<1>3. 0 \in T
  <2>. SUFFICES ASSUME 1 <= Len(s) PROVE Interval(B, 1)
    OBVIOUS
  <2>1. 1 \in 1 .. Len(s) /\ 1 - 1 = 0
    BY <1>1
  <2>2. B[1].from = 1 /\ B[1].batch \in Nat
    BY <2>1, <1>1, <1>2
  <2>. QED  BY <2>2 DEF Interval
<1>4. ASSUME NEW m \in Nat, m \in T PROVE m + 1 \in T
  <2>. SUFFICES ASSUME m + 1 + 1 <= Len(s) PROVE Interval(B, m + 1 + 1)
    OBVIOUS
  <2>1. PICK k \in 1 .. Len(s) : k = m + 1 + 1 /\ k - 1 = m + 1 /\ k - 1 \in 1 .. Len(s)
    BY <1>1
  <2>2. Interval(B, k - 1)
    BY <1>4, <2>1
  <2>3. B[k].batch \in Nat /\ B[k].from \in Nat /\ B[k - 1].batch \in Nat /\ B[k - 1].from \in Nat
    BY <2>1, <1>2
  <2>4. 1 .. k = (1 .. k - 1) \cup {k}
    BY <2>1
  <2>5. \A i \in 1 .. k : B[i].batch \in Nat
    BY <2>1, <1>2
  <2>6. CASE B[k].batch = B[k - 1].batch /\ B[k].from = B[k - 1].from
    <3>1. B[k].from \in 1 .. k
      BY <2>1, <2>2, <2>6 DEF Interval
    <3>2. ASSUME NEW i \in 1 .. k
          PROVE  /\ B[i].batch = B[k].batch <=> B[k].from <= i
                 /\ B[k].from <= i => B[i].from = B[k].from
                 /\ B[i].batch <= B[k].batch
      <4>1. CASE i = k
        BY <4>1, <3>1, <2>3
      <4>2. CASE i \in 1 .. k - 1
        BY <4>2, <2>2, <2>6 DEF Interval
      <4>. QED  BY <4>1, <4>2, <2>4
    <3>. QED  BY <2>1, <3>1, <3>2 DEF Interval
  <2>7. CASE B[k].batch = B[k - 1].batch + 1 /\ B[k].from = k
    <3>1. ASSUME NEW i \in 1 .. k
          PROVE  /\ B[i].batch = B[k].batch <=> k <= i
                 /\ k <= i => B[i].from = k
                 /\ B[i].batch <= B[k].batch
      <4>1. CASE i = k
        BY <4>1, <2>3, <2>7
      <4>2. CASE i \in 1 .. k - 1
        <5>1. B[i].batch <= B[k - 1].batch /\ B[i].batch \in Nat
          BY <4>2, <2>2, <2>5 DEF Interval
        <5>2. B[i].batch # B[k].batch /\ B[i].batch <= B[k].batch
          BY <5>1, <2>3, <2>7
        <5>3. ~(k <= i)
          BY <4>2, <2>1
        <5>. QED  BY <5>2, <5>3
      <4>. QED  BY <4>1, <4>2, <2>4
    <3>. QED  BY <2>1, <2>7, <3>1 DEF Interval
  <2>. QED  BY <2>1, <2>6, <2>7, <1>2
<1>5. Nat \subseteq T
  <2>. HIDE DEF T
  <2>. QED  BY <1>3, <1>4, Induction
<1>6. ASSUME NEW k \in 1 .. Len(s) PROVE Interval(B, k)
  <2>1. k - 1 \in Nat /\ k - 1 + 1 = k /\ k <= Len(s)
    BY <1>1
  <2>2. k - 1 \in T
    BY <2>1, <1>5
  <2>. QED  BY <2>1, <2>2
<1>. QED  BY <1>6

LEMMA PlaceIsOwn ==
  ASSUME NEW s \in Seq(Nat), NEW b, NEW t \in TextsOf(s, b)
  PROVE  Place(s, b, t) = t
<1>. DEFINE B == Batched(s)
<1>1. t \in 1 .. Len(s) /\ Len(s) \in Nat /\ B[t].batch = b
  BY DEF TextsOf
<1>. HIDE DEF B
<1>2. \A k \in 1 .. Len(s) : Interval(B, k)
  BY BatchIsInterval DEF B
<1>3. ASSUME NEW k \in 1 .. Len(s), B[k].batch = b PROVE B[k].from = B[t].from
  <2>1. k \in 1 .. t \/ t \in 1 .. k
    BY <1>1
  <2>2. Interval(B, k) /\ Interval(B, t)
    BY <1>1, <1>2
  <2>. QED  BY <2>1, <2>2, <1>1, <1>3 DEF Interval
<1>5. PICK f \in 1 .. t : f = B[t].from
  BY <1>1, <1>2 DEF Interval
<1>6. (CHOOSE o \in {B[k] : k \in DOMAIN s} : o.batch = b).from = f
  <2>. DEFINE Opens == {B[k] : k \in DOMAIN s}
  <2>1. \E o \in Opens : o.batch = b
    BY <1>1
  <2>2. PICK o : o = CHOOSE w \in Opens : w.batch = b
    OBVIOUS
  <2>3. o \in Opens /\ o.batch = b
    BY <2>1, <2>2
  <2>4. o.from = f
    BY <2>3, <1>3, <1>5
  <2>. QED  BY <2>2, <2>4
<1>7. Start(s, b) = f - 1
  BY <1>6 DEF Start, B
<1>8. {k \in TextsOf(s, b) : k < t} = f .. t - 1
  <2>1. ASSUME NEW k \in 1 .. Len(s), k < t PROVE B[k].batch = b <=> f <= k
    BY <1>1, <1>2, <1>5, <2>1 DEF Interval
  <2>. QED  BY <1>1, <2>1 DEF TextsOf, B
<1>9. Cardinality(f .. t - 1) = t - f
  <2>1. f \in Int /\ t - 1 \in Int
    BY <1>1
  <2>2. Cardinality(f .. t - 1) = IF f > t - 1 THEN 0 ELSE t - 1 - f + 1
    BY <2>1, FS_Interval
  <2>. QED  BY <2>2, <1>1
<1>10. PICK c \in Nat : c = Cardinality({k \in TextsOf(s, b) : k < t}) /\ c = t - f
  <2>1. t - f \in Nat
    BY <1>1
  <2>. QED  BY <2>1, <1>8, <1>9, Zenon
<1>. QED  BY <1>1, <1>7, <1>10 DEF Place

\* Every embedded text has its own vector at its own place.
RetrievalInv ==
  /\ sizes \in Seq(Nat)
  /\ embedded \subseteq Batches(sizes)
  /\ \A k \in DOMAIN sizes : Batched(sizes)[k].batch \in embedded => vectors[k] = k
  /\ DOMAIN vectors = DOMAIN sizes
  /\ added \in Seq([chunk : Nat, vector : Nat]) /\ Len(added) <= Len(sizes)
  /\ upsert = "embed" => added = <<>>
  /\ upsert = "add" => embedded = Batches(sizes)
  /\ OwnVectors

LEMMA RetrievalInitInv == RetrievalInit => RetrievalInv
<1>. SUFFICES ASSUME RetrievalInit PROVE RetrievalInv
  OBVIOUS
<1>1. PICK n \in 0 .. MaxTexts : sizes \in [1 .. n -> Tokens]
  BY DEF RetrievalInit
<1>2. sizes \in Seq(Nat) /\ Len(sizes) = n /\ n \in Nat
  <2>1. n \in Nat /\ Tokens \subseteq Nat
    BY RetrievalAssumption
  <2>2. sizes \in [1 .. n -> Nat]
    BY <1>1, <2>1
  <2>. QED  BY <2>1, <2>2
<1>. QED  BY <1>2 DEF RetrievalInit, RetrievalInv, OwnVectors

LEMMA RetrievalNextInv == RetrievalInv /\ [RetrievalNext]_retrievalVars => RetrievalInv'
<1>. SUFFICES ASSUME RetrievalInv, [RetrievalNext]_retrievalVars PROVE RetrievalInv'
  OBVIOUS
<1>. PICK n \in Nat : n = Len(sizes) /\ DOMAIN sizes = 1 .. n
  BY DEF RetrievalInv
<1>1. ASSUME NEW b \in 1 .. MaxTexts, EmbedBatch(b) PROVE RetrievalInv'
  <2>1. /\ embedded' = embedded \cup {b} /\ b \in Batches(sizes)
        /\ UNCHANGED <<sizes, added, upsert>> /\ upsert = "embed"
    BY <1>1 DEF EmbedBatch
  <2>2. ASSUME NEW k \in 1 .. n, Batched(sizes)[k].batch \in embedded \cup {b}
        PROVE  vectors'[k] = k
    <3>1. \A t \in TextsOf(sizes, b) : Place(sizes, b, t) = t
      BY PlaceIsOwn DEF RetrievalInv
    <3>2. CASE k \in TextsOf(sizes, b)
      <4>1. vectors'[k] = CHOOSE t \in TextsOf(sizes, b) : Place(sizes, b, t) = k
        BY <1>1, <3>1, <3>2 DEF EmbedBatch
      <4>2. \A t \in TextsOf(sizes, b) : Place(sizes, b, t) = k <=> t = k
        BY <3>1
      <4>. QED  BY <3>2, <4>1, <4>2
    <3>3. CASE k \notin TextsOf(sizes, b)
      <4>1. vectors'[k] = vectors[k]
        BY <1>1, <3>1, <3>3 DEF EmbedBatch
      <4>2. Batched(sizes)[k].batch \in embedded
        BY <2>2, <3>3 DEF TextsOf
      <4>. QED  BY <4>1, <4>2 DEF RetrievalInv
    <3>. QED  BY <3>2, <3>3
  <2>3. DOMAIN vectors' = DOMAIN sizes
    BY <1>1 DEF EmbedBatch
  <2>. QED  BY <2>1, <2>2, <2>3 DEF RetrievalInv, OwnVectors
<1>2. CASE EmbedFails \/ EmbedEnds
  BY <1>2 DEF EmbedFails, EmbedEnds, RetrievalInv, OwnVectors
<1>3. CASE AddBatch
  <2>1. PICK end \in Nat : end = IF Len(added) + AddBatchSize < n THEN Len(added) + AddBatchSize ELSE n
    BY RetrievalAssumption DEF RetrievalInv
  <2>2. Len(added) \in Nat /\ Len(added) <= end /\ end <= n /\ DOMAIN added = 1 .. Len(added)
    BY <2>1, RetrievalAssumption DEF RetrievalInv
  <2>3. CASE /\ added' = [k \in 1 .. end |-> IF k \in DOMAIN added THEN added[k]
                                          ELSE [chunk |-> k, vector |-> vectors[k]]]
             /\ upsert' = IF end = n THEN "ok" ELSE "add"
    <3>1. \A k \in 1 .. n : vectors[k] = k
      <4>1. \A k \in 1 .. n : Batched(sizes)[k].batch \in Batches(sizes)
        BY DEF Batches
      <4>2. embedded = Batches(sizes)
        BY <1>3 DEF AddBatch, RetrievalInv
      <4>. QED  BY <4>1, <4>2 DEF RetrievalInv
    <3>2. \A k \in 1 .. end : added'[k] = [chunk |-> k, vector |-> k]
      <4>. SUFFICES ASSUME NEW k \in 1 .. end PROVE added'[k] = [chunk |-> k, vector |-> k]
        OBVIOUS
      <4>1. CASE k \in DOMAIN added
        BY <2>3, <4>1 DEF RetrievalInv, OwnVectors
      <4>2. CASE k \notin DOMAIN added
        <5>1. k \in 1 .. n
          BY <2>2
        <5>. QED  BY <2>3, <4>2, <5>1, <3>1
      <4>. QED  BY <4>1, <4>2
    <3>3. added' \in [1 .. end -> [chunk : Nat, vector : Nat]]
      <4>1. ASSUME NEW k \in 1 .. end PROVE added'[k] \in [chunk : Nat, vector : Nat]
        <5>1. k \in Nat
          OBVIOUS
        <5>2. [chunk |-> k, vector |-> k] \in [chunk : Nat, vector : Nat]
          BY <5>1
        <5>3. added'[k] = [chunk |-> k, vector |-> k]
          BY <3>2
        <5>. QED  BY <5>2, <5>3
      <4>2. added' = [k \in 1 .. end |-> added'[k]]
        BY <2>3
      <4>. QED  BY <4>1, <4>2
    <3>4. added' \in Seq([chunk : Nat, vector : Nat]) /\ Len(added') = end /\ DOMAIN added' = 1 .. end
      <4>1. PICK S : S = [chunk : Nat, vector : Nat]
        OBVIOUS
      <4>2. added' \in [1 .. end -> S]
        BY <3>3, <4>1
      <4>3. added' \in Seq(S) /\ Len(added') = end /\ DOMAIN added' = 1 .. end
        BY <4>2
      <4>. QED  BY <4>1, <4>3
    <3>5. UNCHANGED <<sizes, vectors, embedded>> /\ embedded = Batches(sizes)
      BY <1>3 DEF AddBatch, RetrievalInv
    <3>6. upsert' \in {"ok", "add"} /\ (upsert' = "ok" => end = n)
      BY <2>3
    <3>7. OwnVectors'
      BY <3>2, <3>4, <3>5, <3>6 DEF OwnVectors
    <3>8. Len(added') <= Len(sizes')
      BY <2>2, <3>4, <3>5
    <3>. QED  BY <3>4, <3>5, <3>6, <3>7, <3>8 DEF RetrievalInv
  <2>4. CASE upsert' = "raised" /\ UNCHANGED added
    BY <1>3, <2>4 DEF AddBatch, RetrievalInv, OwnVectors
  <2>. QED  BY <1>3, <2>1, <2>3, <2>4 DEF AddBatch
<1>4. CASE UNCHANGED retrievalVars
  BY <1>4 DEF retrievalVars, RetrievalInv, OwnVectors
<1>. QED  BY <1>1, <1>2, <1>3, <1>4 DEF RetrievalNext

THEOREM EveryChunkHasItsVector == RetrievalSpec => []OwnVectors
<1>1. RetrievalInv => OwnVectors
  BY DEF RetrievalInv
<1>. QED  BY <1>1, RetrievalInitInv, RetrievalNextInv, PTL DEF RetrievalSpec

-------------------------------------------------------------------------------
(* Answering: the two ways to retrieve, and the numbers of the sources.     *)

\* A function that grows along 1 .. p within 1 .. p is the identity.
LEMMA GrowingIsIdentity ==
  ASSUME NEW p \in Nat, NEW s \in [1 .. p -> 1 .. p],
         \A i, j \in 1 .. p : i < j => s[i] < s[j]
  PROVE  s = [k \in 1 .. p |-> k]
<1>. DEFINE AtLeast == {k \in Nat : k \in 1 .. p => s[k] >= k}
            AtMost == {k \in Nat : k < p => s[p - k] <= p - k}
<1>1. \A k \in 1 .. p : s[k] \in Nat /\ 1 <= s[k] /\ s[k] <= p
  OBVIOUS
<1>2. Nat \subseteq AtLeast
  <2>1. 0 \in AtLeast
    OBVIOUS
  <2>2. ASSUME NEW k \in Nat, k \in AtLeast PROVE k + 1 \in AtLeast
    <3>1. CASE k = 0
      BY <1>1, <3>1
    <3>2. CASE k + 1 \in 1 .. p /\ k # 0
      <4>1. k \in 1 .. p /\ k < k + 1
        BY <3>2
      <4>2. s[k] >= k /\ s[k] < s[k + 1]
        BY <2>2, <3>2, <4>1
      <4>. QED  BY <1>1, <3>2, <4>1, <4>2
    <3>. QED  BY <3>1, <3>2
  <2>. QED  BY <2>1, <2>2, Induction
<1>3. Nat \subseteq AtMost
  <2>1. 0 \in AtMost
    BY <1>1
  <2>2. ASSUME NEW k \in Nat, k \in AtMost PROVE k + 1 \in AtMost
    <3>. SUFFICES ASSUME k + 1 < p PROVE s[p - (k + 1)] <= p - (k + 1)
      OBVIOUS
    <3>1. p - k \in 1 .. p /\ p - (k + 1) \in 1 .. p /\ p - (k + 1) < p - k
      OBVIOUS
    <3>2. s[p - k] <= p - k /\ s[p - (k + 1)] < s[p - k]
      BY <2>2, <3>1
    <3>. QED  BY <1>1, <3>1, <3>2
  <2>. QED  BY <2>1, <2>2, Induction
<1>4. ASSUME NEW k \in 1 .. p PROVE s[k] = k
  <2>1. s[k] >= k
    BY <1>2
  <2>2. p - k \in AtMost /\ p - k \in Nat
    BY <1>3
  <2>3. s[p - (p - k)] <= p - (p - k)
    BY <2>2
  <2>4. p - (p - k) = k
    OBVIOUS
  <2>. QED  BY <1>1, <2>1, <2>3, <2>4
<1>. QED  BY <1>4

\* Places whose scores do not rise are ranked as they are.
LEMMA InOrderAlready ==
  ASSUME NEW p \in Nat, NEW score \in [1 .. p -> Int],
         \A k, l \in 1 .. p : k < l => score[k] >= score[l]
  PROVE  Ranked(1 .. p, score) = [k \in 1 .. p |-> k]
<1>. DEFINE ahead(k, l) == score[k] > score[l] \/ (score[k] = score[l] /\ k < l)
            Sorted(s) == \A i, j \in DOMAIN s : i < j => ahead(s[i], s[j])
            id == [k \in 1 .. p |-> k]
            s == Ranked(1 .. p, score)
<1>1. Cardinality(1 .. p) = p
  <2>1. 1 \in Int /\ p \in Int
    OBVIOUS
  <2>2. Cardinality(1 .. p) = IF 1 > p THEN 0 ELSE p - 1 + 1
    BY <2>1, FS_Interval
  <2>. QED  BY <2>2
<1>2. id \in [1 .. p -> 1 .. p] /\ Sorted(id)
  OBVIOUS
<1>3. s = CHOOSE t \in [1 .. p -> 1 .. p] : Sorted(t)
  BY <1>1 DEF Ranked
<1>. HIDE DEF s, Sorted, id
<1>4. s \in [1 .. p -> 1 .. p] /\ Sorted(s)
  BY <1>2, <1>3
<1>5. ASSUME NEW i \in 1 .. p, NEW j \in 1 .. p, i < j PROVE s[i] < s[j]
  <2>1. s[i] \in 1 .. p /\ s[j] \in 1 .. p /\ ahead(s[i], s[j])
    BY <1>4, <1>5 DEF Sorted
  <2>. SUFFICES ASSUME s[j] < s[i] \/ s[i] = s[j] PROVE FALSE
    BY <2>1
  <2>2. score[s[j]] >= score[s[i]]
    BY <2>1
  <2>. QED  BY <2>1, <2>2
<1>6. s = id
  BY <1>4, <1>5, GrowingIsIdentity DEF id
<1>. QED  BY <1>6 DEF s, id

\* With unit vectors the score falls as the distance grows: the candidates of the
\* wider fetch are a prefix of the index in the order of the index, and the later
\* cut leaves the prefix that the narrow fetch gives.
LEMMA PathsAgree ==
  ASSUME unit = TRUE, limit \in Nat, NEW chunks \in Collections
  PROVE  HybridRows(chunks) = L2Rows(chunks)
<1>. DEFINE n == Len(chunks)
            near == {k \in 1 .. n : chunks[k].distance <= limit}
<1>1. /\ n \in Nat /\ DOMAIN chunks = 1 .. n
      /\ \A k \in 1 .. n : /\ chunks[k].distance \in Nat
                           /\ chunks[k].cosine = HalfTurn - chunks[k].distance
      /\ \A k, l \in 1 .. n : k < l => chunks[k].distance <= chunks[l].distance
  <2>. DEFINE Chunks == UNION {[distance : {d}, cosine : {HalfTurn - d}] : d \in Distance}
  <2>1. /\ chunks \in BoundedSeq(Chunks, MaxStored)
        /\ \A k, l \in DOMAIN chunks : k < l => chunks[k].distance <= chunks[l].distance
    BY DEF Collections
  <2>2. PICK m \in 0 .. MaxStored : chunks \in [1 .. m -> Chunks]
    BY <2>1 DEF BoundedSeq, SeqOf
  <2>3. \A e \in Chunks : e.distance \in Nat /\ e.cosine = HalfTurn - e.distance
    BY AnsweringAssumption
  <2>. HIDE DEF Chunks
  <2>4. m \in Nat /\ chunks \in Seq(Chunks) /\ Len(chunks) = m
    BY <2>2, AnsweringAssumption
  <2>. QED  BY <2>1, <2>2, <2>3, <2>4
<1>2. PICK r \in Nat : r <= n /\ near = 1 .. r
  <2>1. CASE near = {}
    <3>1. near = 1 .. 0
      BY <2>1
    <3>. QED  BY <1>1, <3>1
  <2>2. CASE near # {}
    <3>1. PICK g \in near : \A k \in near : k <= g
      <4>1. near \in SUBSET Nat /\ \A k \in near : k <= n
        BY <1>1
      <4>. HIDE DEF near
      <4>. QED  BY <1>1, <2>2, <4>1, Greatest
    <3>2. \A k \in 1 .. g : chunks[k].distance <= chunks[g].distance
      BY <1>1, <3>1
    <3>3. near = 1 .. g
      BY <1>1, <3>1, <3>2
    <3>. QED  BY <1>1, <3>1, <3>3
  <2>. QED  BY <2>1, <2>2
<1>. DEFINE Least2(a) == IF a <= r THEN a ELSE r
<1>3. ASSUME NEW m \in Nat PROVE Within(chunks, Nearest(chunks, m)) = 1 .. Least2(m)
  <2>1. Nearest(chunks, m) = 1 .. (IF m <= n THEN m ELSE n)
    BY <1>1, LeastOfTwo DEF Nearest
  <2>2. Within(chunks, Nearest(chunks, m)) = {k \in near : k <= m}
    BY <1>1, <2>1 DEF Within
  <2>. QED  BY <1>2, <2>2
<1>4. TopK \in Nat /\ TopK * FetchMultiplier \in Nat /\ TopK <= TopK * FetchMultiplier
  BY AnsweringAssumption
<1>5. L2Rows(chunks) = [k \in 1 .. Least2(TopK) |-> k]
  <2>. DEFINE p == Least2(TopK)
  <2>1. p \in Nat
    BY <1>4
  <2>2. L2Rows(chunks) = Ranked(1 .. p, [k \in 1 .. p |-> 0])
    BY <1>3, <1>4 DEF L2Rows, InOrder
  <2>. HIDE DEF p
  <2>. QED  BY <2>1, <2>2, InOrderAlready DEF p
<1>6. HybridRows(chunks) = [k \in 1 .. Least2(TopK) |-> k]
  <2>. DEFINE p == Least2(TopK * FetchMultiplier)
              score == [k \in 1 .. p |-> HybridScore(chunks[k])]
  <2>1. p \in Nat /\ p <= n /\ Cardinality(1 .. p) = p
    <3>1. p \in Nat /\ p <= n
      BY <1>1, <1>2, <1>4
    <3>2. 1 \in Int /\ p \in Int
      BY <3>1
    <3>3. Cardinality(1 .. p) = IF 1 > p THEN 0 ELSE p - 1 + 1
      BY <3>2, FS_Interval
    <3>. QED  BY <3>1, <3>3
  <2>2. Within(chunks, Nearest(chunks, TopK * FetchMultiplier)) = 1 .. p
    BY <1>3, <1>4
  <2>3. HybridRows(chunks) = SubSeq(Ranked(1 .. p, score), 1, Min({TopK, p}))
    BY <2>1, <2>2 DEF HybridRows
  <2>4. score \in [1 .. p -> Int] /\ \A k, l \in 1 .. p : k < l => score[k] >= score[l]
    <3>. HIDE DEF p
    <3>1. HalfTurn \in Nat /\ \A k \in 1 .. p : k \in 1 .. n
      BY <1>1, <2>1, AnsweringAssumption
    <3>2. ASSUME NEW k \in 1 .. p
          PROVE  score[k] = HalfTurn - chunks[k].distance + (HalfTurn - chunks[k].distance)
      BY <1>1, <3>1 DEF HybridScore
    <3>. HIDE DEF score
    <3>3. \A k \in 1 .. p : score[k] \in Int
      BY <1>1, <3>1, <3>2
    <3>4. \A k, l \in 1 .. p : k < l => score[k] >= score[l]
      BY <1>1, <3>1, <3>2
    <3>5. score = [k \in 1 .. p |-> score[k]]
      BY DEF score
    <3>. QED  BY <3>3, <3>4, <3>5
  <2>. HIDE DEF score, p
  <2>5. Ranked(1 .. p, score) = [k \in 1 .. p |-> k]
    BY <2>1, <2>4, InOrderAlready
  <2>6. Min({TopK, p}) = Least2(TopK) /\ Least2(TopK) \in Nat /\ Least2(TopK) <= p
    BY <1>4, <2>1, LeastOfTwo DEF p
  <2>7. SubSeq([k \in 1 .. p |-> k], 1, Least2(TopK)) = [k \in 1 .. Least2(TopK) |-> k]
    BY <2>1, <2>6
  <2>. QED  BY <2>3, <2>5, <2>6, <2>7
<1>. QED  BY <1>5, <1>6

\* The answers Number looks at, and what it is told of earlier numbers.
TagLists == BoundedSeq([source : 0 .. TopK + 1, lettered : BOOLEAN], MaxTags)
Numbered(known) ==
  /\ IsFiniteSet(Range(known)) /\ Range(known) \in SUBSET Nat
  /\ \A c, d \in DOMAIN known : known[c] = known[d] => c = d

LEMMA EarlierNumbers ==
  ASSUME NEW before \in SUBSET (1 .. MaxStored), NEW gap \in Nat,
         NEW known, known = [c \in before |-> Cardinality(before \cap (1 .. c)) + gap]
  PROVE  Numbered(known)
<1>. DEFINE upTo(c) == before \cap (1 .. c)
<1>1. MaxStored \in Nat /\ \A c \in before : c \in Nat /\ c >= 1
  BY AnsweringAssumption
<1>2. IsFiniteSet(before)
  <2>1. 1 \in Int /\ MaxStored \in Int
    BY <1>1
  <2>2. IsFiniteSet(1 .. MaxStored)
    BY <2>1, FS_Interval
  <2>. QED  BY <2>2, FS_Subset
<1>3. \A c \in before : IsFiniteSet(upTo(c)) /\ Cardinality(upTo(c)) \in Nat
  BY <1>2, FS_Subset, FS_CardinalityType
<1>4. \A c \in before : known[c] \in Nat
  BY <1>3
<1>5. ASSUME NEW c \in before, NEW d \in before, c < d PROVE known[c] # known[d]
  <2>1. upTo(c) \subseteq upTo(d) /\ d \in upTo(d) /\ d \notin upTo(c)
    BY <1>1, <1>5
  <2>. HIDE DEF upTo
  <2>2. Cardinality(upTo(c)) < Cardinality(upTo(d))
    BY <1>3, <2>1, FS_Subset
  <2>3. known[c] = Cardinality(upTo(c)) + gap /\ known[d] = Cardinality(upTo(d)) + gap
    BY DEF upTo
  <2>. QED  BY <1>3, <2>2, <2>3
<1>6. DOMAIN known = before
  OBVIOUS
<1>7. IsFiniteSet(Range(known)) /\ Range(known) \in SUBSET Nat
  <2>1. known \in Surjection(before, Range(known))
    BY <1>6 DEF Surjection, Range
  <2>2. IsFiniteSet(Range(known))
    BY <1>2, <2>1, FS_Surjection
  <2>3. Range(known) \in SUBSET Nat
    BY <1>4, <1>6 DEF Range
  <2>. QED  BY <2>2, <2>3
<1>8. \A c, d \in before : c # d => c < d \/ d < c
  BY <1>1
<1>. QED  BY <1>5, <1>6, <1>7, <1>8 DEF Numbered

\* Two sources have one number only if they are one known chunk.
LEMMA OwnNumbers ==
  ASSUME NEW tags \in TagLists, NEW known, Numbered(known),
         NEW s \in CitedSources(tags), NEW t \in CitedSources(tags),
         GlobalNumbers(tags, known)[s] = GlobalNumbers(tags, known)[t]
  PROVE  found[s] = found[t]
<1>. DEFINE highest == Max({0} \cup Range(known))
            new == {u \in CitedSources(tags) : found[u] \notin DOMAIN known}
            first(u) == Min(PlainTags(tags, u))
            upTo(u) == {v \in new : first(v) <= first(u)}
            number == GlobalNumbers(tags, known)
<1>1. PICK m \in Nat : tags \in [1 .. m -> [source : 0 .. TopK + 1, lettered : BOOLEAN]]
  <2>1. tags \in UNION {[1 .. m -> [source : 0 .. TopK + 1, lettered : BOOLEAN]] : m \in 0 .. MaxTags}
    BY DEF TagLists, BoundedSeq, SeqOf
  <2>2. \A m \in 0 .. MaxTags : m \in Nat
    BY AnsweringAssumption
  <2>. QED  BY <2>1, <2>2
<1>2. ASSUME NEW u \in CitedSources(tags)
      PROVE  first(u) \in Nat /\ first(u) \in 1 .. m /\ tags[first(u)].source = u
  <2>1. PlainTags(tags, u) \in SUBSET Nat /\ PlainTags(tags, u) # {}
    BY <1>1 DEF PlainTags, CitedSources
  <2>2. first(u) \in PlainTags(tags, u)
    BY <2>1, MinOfNumbers
  <2>. QED  BY <1>1, <2>1, <2>2 DEF PlainTags
<1>3. CitedSources(tags) \subseteq 0 .. TopK + 1
  BY <1>1, <1>2
<1>4. IsFiniteSet(new)
  <2>1. 0 \in Int /\ TopK + 1 \in Int
    BY AnsweringAssumption
  <2>2. IsFiniteSet(0 .. TopK + 1)
    BY <2>1, FS_Interval
  <2>. QED  BY <1>3, <2>2, FS_Subset
<1>5. \A u \in new : IsFiniteSet(upTo(u)) /\ Cardinality(upTo(u)) \in Nat
  BY <1>4, FS_Subset, FS_CardinalityType
<1>6. ASSUME NEW u \in new PROVE Cardinality(upTo(u)) > 0
  <2>1. u \in upTo(u)
    BY <1>2
  <2>. HIDE DEF upTo, new
  <2>. QED  BY <1>5, <2>1, FS_EmptySet
<1>7. ASSUME NEW u \in new, NEW v \in new, first(u) < first(v)
      PROVE  Cardinality(upTo(u)) # Cardinality(upTo(v))
  <2>1. first(u) \in Nat /\ first(v) \in Nat /\ \A w \in new : first(w) \in Nat
    BY <1>2
  <2>2. upTo(u) \subseteq upTo(v) /\ v \in upTo(v) /\ v \notin upTo(u)
    BY <1>7, <2>1
  <2>. HIDE DEF upTo, new
  <2>. QED  BY <1>5, <2>2, FS_Subset
<1>8. highest \in Nat /\ \A c \in DOMAIN known : known[c] <= highest /\ known[c] \in Nat
  <2>0. IsFiniteSet({0})
    BY FS_Singleton
  <2>1. IsFiniteSet({0} \cup Range(known))
    BY <2>0, FS_Union, Zenon DEF Numbered
  <2>3. {0} \cup Range(known) \in SUBSET Nat
    BY DEF Numbered
  <2>2. highest \in {0} \cup Range(known) /\ \A k \in {0} \cup Range(known) : k <= highest
    BY <2>1, <2>3, MaxOfFinite
  <2>. QED  BY <2>2, <2>3 DEF Range
<1>9. number = [u \in CitedSources(tags) |->
                  IF u \notin new THEN known[found[u]] ELSE highest + Cardinality(upTo(u))]
  BY DEF GlobalNumbers
<1>. HIDE DEF highest, first, upTo, number
<1>10. \A u \in CitedSources(tags) \ new : found[u] \in DOMAIN known /\ number[u] = known[found[u]]
  BY <1>9
<1>. HIDE DEF new
<1>11. \A u \in new : number[u] = highest + Cardinality(upTo(u)) /\ u \in CitedSources(tags)
  BY <1>9 DEF new
<1>12. number[s] = number[t]
  BY DEF number
<1>13. CASE s \notin new /\ t \notin new
  BY <1>10, <1>12, <1>13 DEF Numbered
<1>14. CASE s \in new /\ t \notin new
  BY <1>5, <1>6, <1>8, <1>10, <1>11, <1>12, <1>14
<1>15. CASE s \notin new /\ t \in new
  BY <1>5, <1>6, <1>8, <1>10, <1>11, <1>12, <1>15
<1>16. CASE s \in new /\ t \in new
  <2>1. Cardinality(upTo(s)) = Cardinality(upTo(t))
    BY <1>5, <1>8, <1>11, <1>12, <1>16
  <2>2. ~(first(s) < first(t)) /\ ~(first(t) < first(s))
    BY <1>7, <1>16, <2>1
  <2>3. s = t
    BY <1>2, <2>2
  <2>. QED  BY <2>3
<1>. QED  BY <1>13, <1>14, <1>15, <1>16

AnsweringInv ==
  /\ limit \in Nat /\ unit \in BOOLEAN
  /\ RerankIsIdle
  /\ TagsResolve

LEMMA AnsweringInitInv == AnsweringInit => AnsweringInv
  BY AnsweringAssumption DEF AnsweringInit, AnsweringInv, RerankIsIdle, TagsResolve, NoReply

LEMMA AnsweringNextInv == AnsweringInv /\ [AnsweringNext]_answeringVars => AnsweringInv'
<1> SUFFICES ASSUME AnsweringInv, [AnsweringNext]_answeringVars PROVE AnsweringInv'
  OBVIOUS
<1>1. ASSUME UNCHANGED <<limit, unit, reply>>, answering' # "limiting" PROVE AnsweringInv'
  BY <1>1 DEF AnsweringInv, RerankIsIdle, TagsResolve
<1>2. CASE AnswerExif \/ OrdinaryQuestion
  BY <1>1, <1>2 DEF AnswerExif, OrdinaryQuestion, Goes
<1>3. CASE AnswerRecognized
  BY <1>1, <1>3 DEF AnswerRecognized, Goes
<1>4. CASE Retrieve
  <2>1. /\ index' \in Collections /\ found' \in {L2Rows(index'), HybridRows(index')}
        /\ UNCHANGED <<limit, unit, reply>>
    BY <1>4 DEF Retrieve
  <2>2. L2Rows(index)' = L2Rows(index')
    BY <2>1 DEF L2Rows, Within
  <2>3. unit => found' = L2Rows(index')
    BY <2>1, PathsAgree DEF AnsweringInv
  <2>4. RerankIsIdle'
    BY <2>1, <2>2, <2>3 DEF RerankIsIdle
  <2>. QED  BY <2>1, <2>4 DEF AnsweringInv, TagsResolve
<1>5. CASE LimitImages
  BY <1>1, <1>5 DEF LimitImages, Goes
<1>6. CASE Compose
  BY <1>1, <1>6 DEF Compose, Goes
<1>7. CASE Remember
  BY <1>1, <1>7 DEF Remember, Goes
<1>8. CASE NoModel \/ RaiseEarly
  BY <1>1, <1>8 DEF NoModel, RaiseEarly, Goes
<1>9. CASE CallModel
  BY <1>1, <1>9 DEF CallModel, Goes
<1>10. CASE Number
  <2>1. PICK tags \in BoundedSeq([source : 0 .. TopK + 1, lettered : BOOLEAN], MaxTags),
             before \in SUBSET (1 .. MaxStored), gap \in {0, 1} :
          LET known == [c \in before |-> Cardinality(before \cap (1 .. c)) + gap]
              number == GlobalNumbers(tags, known)
          IN  reply' = [tags |-> ReplaceTags(tags, number),
                        cites |-> {<<found[s], number[s]>> : s \in DOMAIN number}]
    BY <1>10, Zenon DEF Number
  <2>. DEFINE known == [c \in before |-> Cardinality(before \cap (1 .. c)) + gap]
              number == GlobalNumbers(tags, known)
  <2>2. /\ reply'.tags = ReplaceTags(tags, number)
        /\ reply'.cites = {<<found[s], number[s]>> : s \in DOMAIN number}
    BY <2>1
  <2>3. DOMAIN number = CitedSources(tags)
    BY DEF GlobalNumbers
  <2>4. Numbered(known) /\ tags \in TagLists
    <3>1. gap \in Nat
      OBVIOUS
    <3>. QED  BY <3>1, EarlierNumbers DEF TagLists
  <2>. HIDE DEF known
  <2>5. ASSUME NEW s \in DOMAIN number, NEW t \in DOMAIN number, number[s] = number[t]
        PROVE  found[s] = found[t]
    <3>1. s \in CitedSources(tags) /\ t \in CitedSources(tags)
      BY <2>3
    <3>2. GlobalNumbers(tags, known)[s] = GlobalNumbers(tags, known)[t]
      BY <2>5
    <3>. HIDE DEF number
    <3>. QED  BY <2>4, <3>1, <3>2, OwnNumbers, Zenon
  <2>6. DOMAIN number \subseteq {tags[k].source : k \in DOMAIN tags}
    BY <2>3 DEF CitedSources, PlainTags
  <2>. HIDE DEF number
  <2>7. ReplaceTags(tags, number) = {number[s] : s \in DOMAIN number}
    BY <2>6 DEF ReplaceTags
  <2>8. TagsResolve'
    <3>1. {c[2] : c \in reply'.cites} = {number[s] : s \in DOMAIN number}
      <4>1. ASSUME NEW s \in DOMAIN number PROVE number[s] \in {c[2] : c \in reply'.cites}
        <5>1. <<found[s], number[s]>> \in reply'.cites
          BY <2>2
        <5>2. <<found[s], number[s]>>[2] = number[s]
          OBVIOUS
        <5>. QED  BY <5>1, <5>2
      <4>2. ASSUME NEW c \in reply'.cites PROVE c[2] \in {number[s] : s \in DOMAIN number}
        <5>1. PICK s \in DOMAIN number : c = <<found[s], number[s]>>
          BY <2>2
        <5>. QED  BY <5>1
      <4>. QED  BY <4>1, <4>2
    <3>2. \A c, d \in reply'.cites : c[2] = d[2] => c = d
      BY <2>2, <2>5
    <3>. QED  BY <2>2, <2>7, <3>1, <3>2 DEF TagsResolve
  <2>9. answering' = "answered" /\ UNCHANGED <<limit, unit>>
    BY <1>10 DEF Number, Goes
  <2>. QED  BY <2>8, <2>9 DEF AnsweringInv, RerankIsIdle
<1>11. CASE UNCHANGED answeringVars
  BY <1>11 DEF answeringVars, AnsweringInv, RerankIsIdle, TagsResolve, L2Rows, Within
<1>. QED
  BY <1>2, <1>3, <1>4, <1>5, <1>6, <1>7, <1>8, <1>9, <1>10, <1>11 DEF AnsweringNext

\* query_chunks, for any index, question and TopK: with embeddings of unit length
\* both paths retrieve the same rows in the same order.
THEOREM RerankChangesNothing == AnsweringSpec => []RerankIsIdle
<1>1. AnsweringInv => RerankIsIdle
  BY DEF AnsweringInv
<1>. QED  BY <1>1, AnsweringInitInv, AnsweringNextInv, PTL DEF AnsweringSpec

\* _renumber_citations_globally, whatever the model cites and however many
\* sources it was given: the numbers left in the answer are the numbers of its
\* citations, and no two citations share one.
THEOREM EveryTagResolves == AnsweringSpec => []TagsResolve
<1>1. AnsweringInv => TagsResolve
  BY DEF AnsweringInv
<1>. QED  BY <1>1, AnsweringInitInv, AnsweringNextInv, PTL DEF AnsweringSpec

-------------------------------------------------------------------------------
\* No text is beyond the bound, and places and vectors are texts of the call.
TextsInv ==
  /\ sizes \in Seq(Tokens) /\ Len(sizes) <= MaxTexts
  /\ \A k \in DOMAIN sizes : vectors[k] \in 0 .. MaxTexts
  /\ embedded \subseteq 1 .. MaxTexts
  /\ upsert \in {"embed", "add", "ok", "raised"}

LEMMA TextsInitInv == RetrievalInit => TextsInv
<1>. SUFFICES ASSUME RetrievalInit PROVE TextsInv
  OBVIOUS
<1>1. PICK n \in 0 .. MaxTexts : sizes \in [1 .. n -> Tokens]
  BY DEF RetrievalInit
<1>2. sizes \in Seq(Tokens) /\ Len(sizes) = n /\ n \in Nat
  <2>1. n \in Nat
    BY RetrievalAssumption
  <2>. QED  BY <1>1, <2>1
<1>. QED  BY <1>2, RetrievalAssumption DEF RetrievalInit, TextsInv

LEMMA TextsNextInv == TextsInv /\ [RetrievalNext]_retrievalVars => TextsInv'
<1>. SUFFICES ASSUME TextsInv, [RetrievalNext]_retrievalVars PROVE TextsInv'
  OBVIOUS
<1>1. ASSUME NEW b \in 1 .. MaxTexts, EmbedBatch(b) PROVE TextsInv'
  <2>1. /\ embedded' = embedded \cup {b} /\ UNCHANGED <<sizes, upsert>>
        /\ DOMAIN sizes \subseteq 0 .. MaxTexts
    BY <1>1, RetrievalAssumption DEF EmbedBatch, TextsInv
  <2>2. ASSUME NEW k \in DOMAIN sizes PROVE vectors'[k] \in 0 .. MaxTexts
    <3>1. CASE \E t \in TextsOf(sizes, b) : Place(sizes, b, t) = k
      <4>1. vectors'[k] \in TextsOf(sizes, b)
        BY <1>1, <3>1 DEF EmbedBatch
      <4>. QED  BY <2>1, <4>1 DEF TextsOf
    <3>2. CASE ~\E t \in TextsOf(sizes, b) : Place(sizes, b, t) = k
      BY <1>1, <3>2 DEF EmbedBatch, TextsInv
    <3>. QED  BY <3>1, <3>2
  <2>. QED  BY <2>1, <2>2 DEF TextsInv
<1>2. CASE EmbedFails \/ EmbedEnds \/ AddBatch
  BY <1>2 DEF EmbedFails, EmbedEnds, AddBatch, TextsInv
<1>3. CASE UNCHANGED retrievalVars
  BY <1>3 DEF retrievalVars, TextsInv
<1>. QED  BY <1>1, <1>2, <1>3 DEF RetrievalNext

\* The variables of an upsert keep their types, for any texts and batches.
THEOREM RetrievalTypes == RetrievalSpec => []RetrievalTypeOK
<1>1. RetrievalInv /\ TextsInv => RetrievalTypeOK
  <2>. SUFFICES ASSUME RetrievalInv, TextsInv PROVE RetrievalTypeOK
    OBVIOUS
  <2>. DEFINE S == [chunk : 1 .. MaxTexts, vector : 0 .. MaxTexts]
  <2>1. PICK n \in Nat : n = Len(added) /\ DOMAIN added = 1 .. n /\ n <= MaxTexts
    BY RetrievalAssumption DEF RetrievalInv, TextsInv
  <2>2. ASSUME NEW k \in 1 .. n PROVE added[k] \in S
    <3>1. k \in 1 .. MaxTexts /\ k \in 0 .. MaxTexts /\ added[k] = [chunk |-> k, vector |-> k]
      BY <2>1, RetrievalAssumption DEF RetrievalInv, OwnVectors
    <3>. QED  BY <3>1
  <2>3. added = [k \in 1 .. n |-> added[k]]
    BY <2>1 DEF RetrievalInv
  <2>. HIDE DEF S
  <2>4. added \in Seq(S)
    BY <2>2, <2>3
  <2>. QED  BY <2>4 DEF S, RetrievalTypeOK, RetrievalInv, TextsInv
<1>. QED
  BY <1>1, RetrievalInitInv, RetrievalNextInv, TextsInitInv, TextsNextInv, PTL DEF RetrievalSpec

-------------------------------------------------------------------------------
LEMMA TrimTypeInit == PromptInit => TrimTypeOK
<1>. SUFFICES ASSUME PromptInit PROVE TrimTypeOK
  OBVIOUS
<1>. USE PromptAssumption
<1>1. CASE fixed = 0 /\ given = <<0, 0, 0>> /\ trimming = "returned"
  BY <1>1 DEF PromptInit, TrimTypeOK
<1>2. CASE fixed \in FixedTokens /\ given \in [1 .. 3 -> SectionSizes] /\ trimming = "loop"
  <2>1. given \in [1 .. 3 -> Nat] /\ given \in [1 .. 3 -> SectionSizes \cup {0}]
    BY <1>2
  <2>. QED  BY <1>2, <2>1 DEF PromptInit, TrimTypeOK
<1>. QED  BY <1>1, <1>2 DEF PromptInit

LEMMA TrimTypeNext == TrimTypeOK /\ [PromptNext]_promptVars => TrimTypeOK'
<1>. SUFFICES ASSUME TrimTypeOK, [PromptNext]_promptVars PROVE TrimTypeOK'
  OBVIOUS
<1>1. ASSUME NEW i \in 1 .. 3, Trim(i) PROVE TrimTypeOK'
  <2>1. PICK c \in Nat : c = CutTo(section[i]) + Suffix
    BY CutFacts, PromptAssumption DEF TrimTypeOK
  <2>2. /\ section' = [section EXCEPT ![i] = c] /\ attempt' = attempt + 1
        /\ UNCHANGED <<fixed, given, trimming>> /\ attempt < TrimAttempts
    BY <1>1, <2>1 DEF Trim
  <2>. QED  BY <2>2, PromptAssumption DEF TrimTypeOK
<1>2. CASE Trimmed \/ UNCHANGED trimVars
  BY <1>2 DEF Trimmed, trimVars, TrimTypeOK
<1>. QED  BY <1>1, <1>2 DEF PromptNext, StartCut, Search, Shrink, promptVars

\* What a call was given is what it was given.
GivenOK ==
  /\ \A k \in DOMAIN text : text[k] \in 0 .. 2 * MaxTokens
  /\ fixed \in FixedTokens \cup {0}

\* The variables of the two loops keep their types, for any text and sections.
THEOREM PromptTypes == PromptSpec => []PromptTypeOK
<1>1. PromptInit => GivenOK
  <2>. SUFFICES ASSUME PromptInit PROVE GivenOK
    OBVIOUS
  <2>1. CASE text = <<>>
    <3>1. DOMAIN text = {}
      BY <2>1
    <3>. QED  BY <3>1 DEF PromptInit, GivenOK
  <2>2. CASE text # <<>>
    <3>1. PICK n \in 1 .. MaxText : text \in [1 .. n -> 0 .. 2 * MaxTokens]
      BY <2>2 DEF PromptInit
    <3>. QED  BY <3>1 DEF PromptInit, GivenOK
  <2>. QED  BY <2>1, <2>2
<1>2. GivenOK /\ [PromptNext]_promptVars => GivenOK'
  BY DEF GivenOK, PromptNext, StartCut, Search, Shrink, Trim, Trimmed, promptVars, cutVars, trimVars
<1>3. GivenOK /\ CutInv /\ TrimTypeOK => PromptTypeOK
  BY DEF GivenOK, CutInv, TrimTypeOK, PromptTypeOK
<1>. QED
  BY <1>1, <1>2, <1>3, CutInitInv, CutNextInv, TrimTypeInit, TrimTypeNext, PTL DEF PromptSpec

-------------------------------------------------------------------------------
\* The variables of a description keep their types, for any book.
THEOREM BookTypes == BookSpec => []BookTypeOK
<1>. DEFINE most == Largest(Parts, MaxGroups)
<1>0. most \in Nat \ {0} /\ Parts <= most /\ MaxGroups <= most /\ LlmRetries \in Nat
      /\ Parts \in Nat /\ MaxGroups \in Nat
  BY BookAssumption DEF Largest
<1>. HIDE DEF most
<1>1. BookInit => BookTypeOK
  BY <1>0 DEF BookInit, BookTypeOK, most
<1>2. BookInv /\ BookTypeOK /\ [BookNext]_bookVars => BookTypeOK'
  <2>. SUFFICES ASSUME BookInv, BookTypeOK, [BookNext]_bookVars PROVE BookTypeOK'
    OBVIOUS
  <2>. USE <1>0 DEF BookTypeOK
  <2>0. call \in Nat \ {0} /\ call <= most + 1
    BY DEF most
  <2>1. CASE Choose
    BY <2>1 DEF Choose, AfterCompaction, calls
  <2>2. CASE Refused429
    BY <2>2 DEF Refused429
  <2>3. CASE Summarize
    <3>1. /\ UNCHANGED <<book, strategy, step, welcome>> /\ call' = call + 1 /\ tries' = 0
          /\ strategy \in {"compact", "split"} /\ ~Over /\ step = "request"
      BY <2>3 DEF Summarize
    <3>2. call <= most
      <4>1. CASE strategy = "compact"
        <5>1. Groups(book) \in Nat /\ Groups(book) <= MaxGroups
          BY <4>1, GroupsInOrder DEF BookInv
        <5>. QED  BY <2>0, <3>1, <4>1, <5>1 DEF Over, Requests
      <4>2. CASE strategy = "split"
        BY <2>0, <3>1, <4>2 DEF Over, Requests
      <4>. QED  BY <3>1, <4>1, <4>2
    <3>3. call' \in 1 .. most + 1 /\ call \notin summaries \cup lost
          /\ summaries \cup lost \subseteq 1 .. call /\ call \in 1 .. call /\ call' - 1 = call
      BY <2>0, <3>1, <3>2
    <3>4. \/ summaries' = summaries \cup {call} /\ lost' = lost
          \/ lost' = lost \cup {call} /\ summaries' = summaries
          \/ lost' = lost /\ summaries' = summaries
      BY <2>3 DEF Summarize
    <3>5. summaries' \cap lost' = {} /\ summaries' \cup lost' \subseteq 1 .. call' - 1
      BY <3>3, <3>4
    <3>. QED  BY <3>1, <3>3, <3>5 DEF most
  <2>4. CASE CompactEnds
    <3>1. CASE UNCHANGED <<strategy, calls>>
      BY <2>4, <3>1 DEF CompactEnds, GiveUp, calls
    <3>2. CASE GiveUp
      BY <2>4, <3>2 DEF CompactEnds, GiveUp, AfterCompaction, most
    <3>. QED  BY <2>4, <3>1, <3>2 DEF CompactEnds
  <2>5. CASE SplitEnds \/ Synthesize \/ Ask
    BY <2>5 DEF SplitEnds, Synthesize, Ask, calls
  <2>6. CASE UNCHANGED bookVars
    BY <2>6 DEF bookVars, calls
  <2>. QED  BY <2>1, <2>2, <2>3, <2>4, <2>5, <2>6 DEF BookNext
<1>. QED  BY <1>1, <1>2, BookInitInv, BookNextInv, PTL DEF BookSpec

-------------------------------------------------------------------------------
\* The order of Ranked.
Leads(score, k, l) == score[k] > score[l] \/ (score[k] = score[l] /\ k < l)

\* Of finitely many places one is behind all others.
LEMMA LastPlace ==
  ASSUME NEW P \in SUBSET Nat, NEW score \in [P -> Int],
         NEW Q \in SUBSET P, IsFiniteSet(Q), Q # {}
  PROVE  \E l \in Q : \A k \in Q \ {l} : Leads(score, k, l)
<1>. DEFINE HasLast(R) == \E l \in R : \A k \in R \ {l} : Leads(score, k, l)
            T == {n \in Nat : \A R \in SUBSET P :
                    IsFiniteSet(R) /\ Cardinality(R) = n /\ R # {} => HasLast(R)}
<1>1. 0 \in T
  BY FS_EmptySet
<1>2. ASSUME NEW n \in Nat, n \in T PROVE n + 1 \in T
  <2>. SUFFICES ASSUME NEW R \in SUBSET P, IsFiniteSet(R), Cardinality(R) = n + 1, R # {}
                PROVE  HasLast(R)
    OBVIOUS
  <2>1. PICK x \in R : TRUE
    OBVIOUS
  <2>2. IsFiniteSet(R \ {x}) /\ Cardinality(R \ {x}) = n
    <3>1. IsFiniteSet(R \ {x}) /\ Cardinality(R \ {x}) = Cardinality(R) - 1
      BY FS_RemoveElement
    <3>. QED  BY <3>1
  <2>3. CASE R \ {x} = {}
    BY <2>3
  <2>4. CASE R \ {x} # {}
    <3>1. PICK l \in R \ {x} : \A k \in (R \ {x}) \ {l} : Leads(score, k, l)
      BY <2>2, <2>4, <1>2
    <3>2. /\ \A k \in R : k \in Nat /\ score[k] \in Int
          /\ x # l
      OBVIOUS
    <3>3. CASE Leads(score, x, l)
      BY <3>1, <3>3
    <3>4. CASE ~Leads(score, x, l)
      <4>1. Leads(score, l, x)
        BY <3>2, <3>4 DEF Leads
      <4>2. ASSUME NEW k \in R \ {x} PROVE Leads(score, k, x)
        BY <3>1, <3>2, <4>1 DEF Leads
      <4>. QED  BY <4>2
    <3>. QED  BY <3>3, <3>4
  <2>. QED  BY <2>3, <2>4
<1>3. Nat \subseteq T
  <2>. HIDE DEF T
  <2>. QED  BY <1>1, <1>2, Induction
<1>. QED  BY <1>3, FS_CardinalityType

\* Places can be sorted: Ranked gives a sequence of all of them.
LEMMA RankedPlaces ==
  ASSUME NEW P \in SUBSET Nat, IsFiniteSet(P), NEW score \in [P -> Int]
  PROVE  Ranked(P, score) \in [1 .. Cardinality(P) -> P]
<1>. DEFINE Sorted(s) == \A i, j \in DOMAIN s : i < j => Leads(score, s[i], s[j])
            T == {n \in Nat : \A Q \in SUBSET P :
                    Cardinality(Q) = n => \E s \in [1 .. n -> Q] : Sorted(s)}
<1>1. 0 \in T
  <2>. SUFFICES ASSUME NEW Q \in SUBSET P, Cardinality(Q) = 0
                PROVE  \E s \in [1 .. 0 -> Q] : Sorted(s)
    OBVIOUS
  <2>1. [k \in 1 .. 0 |-> k] \in [1 .. 0 -> Q] /\ Sorted([k \in 1 .. 0 |-> k])
    OBVIOUS
  <2>. QED  BY <2>1
<1>2. ASSUME NEW n \in Nat, n \in T PROVE n + 1 \in T
  <2>. SUFFICES ASSUME NEW Q \in SUBSET P, Cardinality(Q) = n + 1
                PROVE  \E s \in [1 .. n + 1 -> Q] : Sorted(s)
    OBVIOUS
  <2>1. IsFiniteSet(Q) /\ Q # {}
    <3>1. IsFiniteSet(Q)
      BY FS_Subset
    <3>2. Cardinality({}) = 0 /\ n + 1 # 0
      BY FS_EmptySet
    <3>. QED  BY <3>1, <3>2
  <2>2. PICK l \in Q : \A k \in Q \ {l} : Leads(score, k, l)
    <3>. HIDE DEF T
    <3>. QED  BY <2>1, LastPlace
  <2>3. Cardinality(Q \ {l}) = n
    <3>1. Cardinality(Q \ {l}) = Cardinality(Q) - 1
      BY <2>1, FS_RemoveElement
    <3>. QED  BY <3>1
  <2>4. PICK s \in [1 .. n -> Q \ {l}] : Sorted(s)
    BY <1>2, <2>3
  <2>. DEFINE t == [i \in 1 .. n + 1 |-> IF i = n + 1 THEN l ELSE s[i]]
  <2>5. t \in [1 .. n + 1 -> Q]
    OBVIOUS
  <2>6. ASSUME NEW i \in 1 .. n + 1, NEW j \in 1 .. n + 1, i < j
        PROVE  Leads(score, t[i], t[j])
    <3>1. i \in 1 .. n /\ t[i] = s[i] /\ s[i] \in Q \ {l}
      BY <2>6
    <3>2. CASE j = n + 1
      BY <2>2, <3>1, <3>2
    <3>3. CASE j # n + 1
      <4>1. j \in 1 .. n /\ t[j] = s[j]
        BY <3>3
      <4>. QED  BY <2>4, <2>6, <3>1, <4>1
    <3>. QED  BY <3>2, <3>3
  <2>7. Sorted(t)
    BY <2>6
  <2>. QED  BY <2>5, <2>7
<1>3. Nat \subseteq T
  <2>. HIDE DEF T
  <2>. QED  BY <1>1, <1>2, Induction
<1>4. \E s \in [1 .. Cardinality(P) -> P] : Sorted(s)
  BY <1>3, FS_CardinalityType
<1>5. Ranked(P, score) = CHOOSE s \in [1 .. Cardinality(P) -> P] : Sorted(s)
  BY DEF Ranked, Leads
<1>. HIDE DEF Sorted
<1>. QED  BY <1>4, <1>5

\* A chapter's score is a number after each row.
LEMMA ScoreIsNat ==
  ASSUME NEW n \in Nat, NEW chapter \in [1 .. n -> Nat], NEW c
  PROVE  Score(chapter, c) \in Nat
<1>. DEFINE adds(k) == IF k \in 1 .. n /\ chapter[k] = c THEN 60 \div k ELSE 0
            advance == [k \in Nat |-> [x \in Nat |-> x + adds(k)]]
            Body(f) == [k \in 0 .. n |->
              IF k = 0 THEN 0 ELSE f[k - 1] + (IF chapter[k] = c THEN 60 \div k ELSE 0)]
<1>1. chapter \in Seq(Nat) /\ Len(chapter) = n
  OBVIOUS
<1>2. \A k \in 1 .. n : 60 \div k \in Nat
  BY Division
<1>3. \A k \in Nat : adds(k) \in Nat
  BY <1>2
<1>3a. \A k \in 1 .. n : adds(k) = IF chapter[k] = c THEN 60 \div k ELSE 0
  OBVIOUS
<1>4. /\ advance \in [Nat -> [Nat -> Nat]]
      /\ \A k, x \in Nat : advance[k][x] = x + adds(k)
  <2>. HIDE DEF adds
  <2>. QED  BY <1>3
<1>. HIDE DEF adds, advance
<1>5. PICK f \in [0 .. n -> Nat] : f[0] = 0 /\ \A k \in 1 .. n : f[k] = advance[k][f[k - 1]]
  <2>1. \E f \in [0 .. n -> Nat] : Unfolds(f, n, 0, advance)
    BY <1>4, Recursion
  <2>. QED  BY <2>1 DEF Unfolds
<1>6. f = Body(f)
  <2>1. ASSUME NEW k \in 0 .. n PROVE f[k] = Body(f)[k]
    <3>1. CASE k = 0
      BY <3>1, <1>5
    <3>2. CASE k \in 1 .. n
      <4>1. k - 1 \in 0 .. n /\ f[k - 1] \in Nat /\ k \in Nat
        BY <3>2
      <4>2. f[k] = f[k - 1] + adds(k)
        BY <1>4, <1>5, <3>2, <4>1
      <4>3. adds(k) = IF chapter[k] = c THEN 60 \div k ELSE 0
        BY <1>3a, <3>2
      <4>4. Body(f)[k] = f[k - 1] + (IF chapter[k] = c THEN 60 \div k ELSE 0)
        BY <3>2
      <4>. QED  BY <4>2, <4>3, <4>4
    <3>. QED  BY <3>1, <3>2
  <2>. QED  BY <2>1, <1>5
<1>7. Scores(chapter, c) = CHOOSE g : g = Body(g)
  BY <1>1 DEF Scores
<1>8. PICK g : g = Scores(chapter, c) /\ g = Body(g)
  <2>. HIDE DEF Body
  <2>. QED  BY <1>6, <1>7
<1>9. /\ g[0] = 0
      /\ \A k \in 1 .. n : g[k] = g[k - 1] + adds(k)
  <2>1. ASSUME NEW k \in 0 .. n PROVE g[k] = Body(g)[k]
    <3>. HIDE DEF Body
    <3>. QED  BY <1>8
  <2>2. g[0] = 0
    BY <2>1
  <2>3. ASSUME NEW k \in 1 .. n PROVE g[k] = g[k - 1] + adds(k)
    <3>1. k \in 0 .. n /\ k # 0
      OBVIOUS
    <3>2. g[k] = g[k - 1] + (IF chapter[k] = c THEN 60 \div k ELSE 0)
      BY <2>1, <3>1
    <3>3. adds(k) = IF chapter[k] = c THEN 60 \div k ELSE 0
      BY <1>3a
    <3>. QED  BY <3>2, <3>3
  <2>. QED  BY <2>2, <2>3
<1>. HIDE DEF Body
<1>. DEFINE Good == {m \in Nat : m <= n => g[m] \in Nat}
<1>10. 0 \in Good
  BY <1>9
<1>11. ASSUME NEW m \in Nat, m \in Good PROVE m + 1 \in Good
  <2>. SUFFICES ASSUME m + 1 <= n PROVE g[m + 1] \in Nat
    OBVIOUS
  <2>1. m + 1 \in 1 .. n /\ m + 1 - 1 = m /\ g[m] \in Nat
    BY <1>11
  <2>2. g[m + 1] = g[m] + adds(m + 1)
    BY <1>9, <2>1
  <2>3. PICK k \in Nat : k = m + 1
    OBVIOUS
  <2>4. adds(k) \in Nat
    BY <1>3, Zenon
  <2>5. adds(m + 1) \in Nat
    BY <2>3, <2>4, Zenon
  <2>. QED  BY <2>1, <2>2, <2>5
<1>12. Nat \subseteq Good
  <2>. HIDE DEF Good
  <2>. QED  BY <1>10, <1>11, Induction
<1>13. g[n] \in Nat
  BY <1>12
<1>. QED  BY <1>1, <1>8, <1>13 DEF Score

\* The best chapter is one of a row, and none without any.
LEMMA BestIsAChapter ==
  ASSUME NEW n \in Nat, NEW chapter \in [1 .. n -> 0 .. Pages]
  PROVE  BestChapter(chapter) \in 0 .. Pages
<1>. DEFINE ranked == {k \in DOMAIN chapter : chapter[k] # 0}
            topRows == {k \in ranked : \A l \in ranked :
                       Score(chapter, chapter[l]) <= Score(chapter, chapter[k])}
            below == [k \in ranked |-> 0 - Score(chapter, chapter[k])]
<1>0. 0 \in 0 .. Pages
  BY AnsweringAssumption
<1>1. CASE ranked = {}
  BY <1>0, <1>1 DEF BestChapter
<1>2. CASE ranked # {}
  <2>1. \A k \in ranked : Score(chapter, chapter[k]) \in Nat
    BY ScoreIsNat
  <2>2. ranked \in SUBSET Nat /\ IsFiniteSet(ranked) /\ ranked \in SUBSET (1 .. n)
    <3>1. IsFiniteSet(1 .. n) /\ ranked \in SUBSET (1 .. n)
      BY FS_Interval
    <3>. QED  BY <3>1, FS_Subset
  <2>. HIDE DEF ranked
  <2>3. below \in [ranked -> Int]
    BY <2>1
  <2>4. PICK l \in ranked : \A k \in ranked \ {l} : Leads(below, k, l)
    <3>. HIDE DEF below
    <3>. QED  BY <1>2, <2>2, <2>3, LastPlace
  <2>5. \A k \in ranked : Score(chapter, chapter[k]) <= Score(chapter, chapter[l])
    BY <2>1, <2>4 DEF Leads
  <2>6. topRows \in SUBSET Nat /\ topRows # {} /\ topRows \subseteq 1 .. n
    BY <2>2, <2>5
  <2>. HIDE DEF topRows
  <2>7. Min(topRows) \in topRows
    BY <2>6, MinOfNumbers
  <2>8. BestChapter(chapter) = chapter[Min(topRows)]
    BY <1>2 DEF BestChapter, ranked, topRows
  <2>. QED  BY <2>6, <2>7, <2>8
<1>. QED  BY <1>1, <1>2

LEMMA StyleIsKnown ==
  ASSUME NEW matched
  PROVE  Style(matched) \in {"quiz", "key_facts", "professor", "answer"}
<1>. DEFINE order == <<"quiz", "key_facts", "professor", "answer">>
            at == {k \in DOMAIN order : order[k] \in matched \cup {"answer"}}
<1>1. at \subseteq 1 .. 4 /\ 4 \in at
  OBVIOUS
<1>2. Min(at) \in 1 .. 4
  <2>1. at \in SUBSET Nat /\ at # {}
    BY <1>1
  <2>. HIDE DEF at
  <2>. QED  BY <1>1, <2>1, MinOfNumbers
<1>3. \A k \in 1 .. 4 : order[k] \in {"quiz", "key_facts", "professor", "answer"}
  OBVIOUS
<1>. QED  BY <1>2, <1>3 DEF Style

\* Every number given is one.
LEMMA HighestIsNat ==
  ASSUME NEW known, Numbered(known)
  PROVE  /\ Max({0} \cup Range(known)) \in Nat
         /\ \A c \in DOMAIN known : known[c] <= Max({0} \cup Range(known)) /\ known[c] \in Nat
<1>0. IsFiniteSet({0})
  BY FS_Singleton
<1>1. IsFiniteSet({0} \cup Range(known))
  BY <1>0, FS_Union, Zenon DEF Numbered
<1>2. {0} \cup Range(known) \in SUBSET Nat
  BY DEF Numbered
<1>3. /\ Max({0} \cup Range(known)) \in {0} \cup Range(known)
      /\ \A k \in {0} \cup Range(known) : k <= Max({0} \cup Range(known))
  BY <1>1, <1>2, MaxOfFinite
<1>. QED  BY <1>2, <1>3 DEF Range

LEMMA SourcesAreFew ==
  ASSUME NEW tags \in TagLists
  PROVE  CitedSources(tags) \subseteq 0 .. TopK + 1 /\ IsFiniteSet(CitedSources(tags))
<1>1. CitedSources(tags) \subseteq 0 .. TopK + 1
  BY DEF TagLists, BoundedSeq, SeqOf, CitedSources, PlainTags
<1>2. 0 \in Int /\ TopK + 1 \in Int
  BY AnsweringAssumption
<1>3. IsFiniteSet(0 .. TopK + 1)
  BY <1>2, FS_Interval
<1>. QED  BY <1>1, <1>3, FS_Subset

LEMMA NumbersAreNat ==
  ASSUME NEW tags \in TagLists, NEW known, Numbered(known), NEW s \in CitedSources(tags)
  PROVE  GlobalNumbers(tags, known)[s] \in Nat
<1>. DEFINE new == {u \in CitedSources(tags) : found[u] \notin DOMAIN known}
            upTo == {t \in new : Min(PlainTags(tags, t)) <= Min(PlainTags(tags, s))}
<1>1. IsFiniteSet(upTo)
  BY SourcesAreFew, FS_Subset
<1>2. Cardinality(upTo) \in Nat
  BY <1>1, FS_CardinalityType
<1>3. GlobalNumbers(tags, known)[s] =
        IF s \notin new THEN known[found[s]] ELSE Max({0} \cup Range(known)) + Cardinality(upTo)
  BY DEF GlobalNumbers
<1>4. s \notin new => found[s] \in DOMAIN known
  OBVIOUS
<1>. HIDE DEF new, upTo
<1>. QED  BY <1>2, <1>3, <1>4, HighestIsNat

\* What rows may be: at most top_k places of the collection.
Rows == UNION {[1 .. r -> 1 .. MaxStored] : r \in 0 .. TopK}

LEMMA CollectionsAreTyped ==
  ASSUME NEW chunks \in Collections
  PROVE  /\ Len(chunks) \in 0 .. MaxStored /\ DOMAIN chunks = 1 .. Len(chunks)
         /\ \A k \in DOMAIN chunks : chunks[k].distance \in Int /\ chunks[k].cosine \in Int
<1>. DEFINE cosines(d) == IF unit THEN {HalfTurn - d} ELSE Cosine
            Chunks == UNION {[distance : {d}, cosine : cosines(d)] : d \in Distance}
<1>1. chunks \in BoundedSeq(Chunks, MaxStored)
  BY DEF Collections
<1>2. PICK m \in 0 .. MaxStored : chunks \in [1 .. m -> Chunks]
  BY <1>1 DEF BoundedSeq, SeqOf
<1>3. ASSUME NEW e \in Chunks PROVE e.distance \in Int /\ e.cosine \in Int
  <2>1. PICK d \in Distance : e \in [distance : {d}, cosine : cosines(d)]
    OBVIOUS
  <2>2. d \in Nat /\ \A x \in cosines(d) : x \in Int
    BY AnsweringAssumption
  <2>. HIDE DEF cosines
  <2>. QED  BY <2>1, <2>2
<1>. HIDE DEF Chunks
<1>4. m \in Nat /\ chunks \in Seq(Chunks) /\ Len(chunks) = m
  BY <1>2, AnsweringAssumption
<1>. QED  BY <1>2, <1>3, <1>4

LEMMA FewPlaces ==
  ASSUME NEW n \in Nat, NEW P \in SUBSET (1 .. n)
  PROVE  P \in SUBSET Nat /\ IsFiniteSet(P) /\ Cardinality(P) \in 0 .. n
<1>1. IsFiniteSet(1 .. n) /\ Cardinality(1 .. n) = n
  <2>1. 1 \in Int /\ n \in Int
    OBVIOUS
  <2>2. IsFiniteSet(1 .. n) /\ Cardinality(1 .. n) = IF 1 > n THEN 0 ELSE n - 1 + 1
    BY <2>1, FS_Interval
  <2>. QED  BY <2>2
<1>2. IsFiniteSet(P) /\ Cardinality(P) <= n
  BY <1>1, FS_Subset
<1>3. Cardinality(P) \in Nat
  BY <1>2, FS_CardinalityType
<1>. QED  BY <1>2, <1>3

\* query_chunks returns at most top_k rows, on both paths.
LEMMA RetrievedRows ==
  ASSUME NEW chunks \in Collections
  PROVE  L2Rows(chunks) \in Rows /\ HybridRows(chunks) \in Rows
<1>. DEFINE n == Len(chunks)
            near(m) == Within(chunks, Nearest(chunks, m))
<1>0. /\ n \in Nat /\ n <= MaxStored /\ MaxStored \in Nat
      /\ TopK \in Nat /\ TopK * FetchMultiplier \in Nat
  BY CollectionsAreTyped, AnsweringAssumption
<1>1. ASSUME NEW m \in Nat
      PROVE  near(m) \in SUBSET (1 .. n) /\ near(m) \in SUBSET (1 .. m)
  <2>1. Nearest(chunks, m) = 1 .. (IF m <= n THEN m ELSE n)
    BY <1>0, LeastOfTwo DEF Nearest
  <2>. QED  BY <1>0, <2>1 DEF Within
<1>2. L2Rows(chunks) \in Rows
  <2>. DEFINE P == near(TopK)
              r == Cardinality(P)
  <2>1. P \in SUBSET (1 .. n) /\ P \in SUBSET (1 .. TopK)
    BY <1>0, <1>1
  <2>2. L2Rows(chunks) = Ranked(P, [k \in P |-> 0])
    BY DEF L2Rows, InOrder
  <2>. HIDE DEF P
  <2>3. P \in SUBSET Nat /\ IsFiniteSet(P) /\ r \in 0 .. TopK
    BY <1>0, <2>1, FewPlaces
  <2>4. [k \in P |-> 0] \in [P -> Int]
    OBVIOUS
  <2>5. L2Rows(chunks) \in [1 .. r -> P]
    BY <2>2, <2>3, <2>4, RankedPlaces
  <2>6. P \subseteq 1 .. MaxStored
    BY <1>0, <2>1
  <2>. HIDE DEF r
  <2>7. L2Rows(chunks) \in [1 .. r -> 1 .. MaxStored]
    BY <2>5, <2>6
  <2>. QED  BY <2>3, <2>7 DEF Rows
<1>3. HybridRows(chunks) \in Rows
  <2>. DEFINE P == near(TopK * FetchMultiplier)
              score == [k \in P |-> HybridScore(chunks[k])]
              s == Ranked(P, score)
              c == Cardinality(P)
              r == Min({TopK, c})
  <2>1. P \in SUBSET (1 .. n)
    BY <1>0, <1>1
  <2>2. HybridRows(chunks) = SubSeq(s, 1, r)
    BY DEF HybridRows
  <2>. HIDE DEF P
  <2>3. P \in SUBSET Nat /\ IsFiniteSet(P) /\ c \in Nat
    BY <1>0, <2>1, FewPlaces
  <2>4. score \in [P -> Int]
    <3>1. ASSUME NEW k \in P PROVE HybridScore(chunks[k]) \in Int
      <4>1. k \in DOMAIN chunks
        BY <2>1, CollectionsAreTyped
      <4>2. chunks[k].distance \in Int /\ chunks[k].cosine \in Int
        BY <4>1, CollectionsAreTyped
      <4>. QED  BY <4>2, AnsweringAssumption DEF HybridScore
    <3>. QED  BY <3>1
  <2>. HIDE DEF score
  <2>5. s \in [1 .. c -> P]
    BY <2>3, <2>4, RankedPlaces
  <2>6. r = IF TopK <= c THEN TopK ELSE c
    BY <1>0, <2>3, LeastOfTwo
  <2>7. P \subseteq 1 .. MaxStored
    BY <1>0, <2>1
  <2>. HIDE DEF s, c
  <2>8. SubSeq(s, 1, r) \in [1 .. r -> 1 .. MaxStored] /\ r \in 0 .. TopK
    <3>1. r \in Nat /\ r <= c /\ r \in 0 .. TopK
      BY <1>0, <2>3, <2>6
    <3>. HIDE DEF r
    <3>2. SubSeq(s, 1, r) = [i \in 1 .. r |-> s[i]]
      BY <2>3, <2>5, <3>1
    <3>3. ASSUME NEW i \in 1 .. r PROVE s[i] \in 1 .. MaxStored
      <4>1. i \in 1 .. c
        BY <2>3, <3>1
      <4>. QED  BY <2>5, <2>7, <4>1
    <3>. QED  BY <3>1, <3>2, <3>3
  <2>. QED  BY <2>2, <2>8 DEF Rows
<1>. QED  BY <1>2, <1>3

\* _limit_image_rows: rows in the order they had, fewer or as many.
LEMMA FewerRows ==
  ASSUME NEW rows \in Rows, NEW Q \in SUBSET (DOMAIN rows)
  PROVE  [k \in DOMAIN InOrder(Q) |-> rows[InOrder(Q)[k]]] \in Rows
<1>. DEFINE order == InOrder(Q)
            c == Cardinality(Q)
<1>1. PICK r \in 0 .. TopK : rows \in [1 .. r -> 1 .. MaxStored]
  BY DEF Rows
<1>2. r \in Nat /\ Q \in SUBSET (1 .. r) /\ TopK \in Nat
  BY <1>1, AnsweringAssumption
<1>3. Q \in SUBSET Nat /\ IsFiniteSet(Q) /\ c \in 0 .. r
  BY <1>2, FewPlaces
<1>4. [k \in Q |-> 0] \in [Q -> Int]
  OBVIOUS
<1>5. order \in [1 .. c -> Q]
  BY <1>3, <1>4, RankedPlaces DEF InOrder
<1>. HIDE DEF order, c
<1>6. [k \in DOMAIN order |-> rows[order[k]]] \in [1 .. c -> 1 .. MaxStored]
  BY <1>1, <1>2, <1>5
<1>7. c \in 0 .. TopK
  BY <1>1, <1>2, <1>3
<1>. QED  BY <1>6, <1>7 DEF Rows, order

AnsweringTyped ==
  /\ answering \in {"received", "retrieving", "limiting", "composing", "remembering",
                    "calling", "numbering", "answered", "failed"}
  /\ limit \in MaxDistance /\ unit \in BOOLEAN /\ Len(index) <= MaxStored
  /\ found \in Rows
  /\ prompt \in [style : {"quiz", "key_facts", "professor", "answer"},
                 pages : SUBSET (1 .. Pages), chapter : 0 .. Pages,
                 kept : 0 .. MaxMessages, omitted : 0 .. MaxMessages]
  /\ reply.tags \subseteq Nat

LEMMA NoPromptTyped ==
  NoPrompt \in [style : {"quiz", "key_facts", "professor", "answer"},
               pages : SUBSET (1 .. Pages), chapter : 0 .. Pages,
               kept : 0 .. MaxMessages, omitted : 0 .. MaxMessages]
  BY AnsweringAssumption DEF NoPrompt

LEMMA AnsweringInitTyped == AnsweringInit => AnsweringTyped
<1>. SUFFICES ASSUME AnsweringInit PROVE AnsweringTyped
  OBVIOUS
<1>1. <<>> \in Rows
  <2>1. <<>> \in [1 .. 0 -> 1 .. MaxStored] /\ 0 \in 0 .. TopK
    BY AnsweringAssumption
  <2>. QED  BY <2>1 DEF Rows
<1>2. Len(<<>>) <= MaxStored
  BY AnsweringAssumption
<1>. QED  BY <1>1, <1>2, NoPromptTyped DEF AnsweringInit, AnsweringTyped, NoReply

LEMMA AnsweringNextTyped == AnsweringTyped /\ [AnsweringNext]_answeringVars => AnsweringTyped'
<1>. SUFFICES ASSUME AnsweringTyped, [AnsweringNext]_answeringVars PROVE AnsweringTyped'
  OBVIOUS
<1>. USE DEF Goes
<1>1. CASE AnswerExif \/ OrdinaryQuestion \/ NoModel \/ RaiseEarly
  BY <1>1 DEF AnswerExif, OrdinaryQuestion, NoModel, RaiseEarly, AnsweringTyped
<1>2. CASE AnswerRecognized
  <2>1. answering' \in {"answered", "retrieving"}
        /\ UNCHANGED <<limit, index, unit, found, prompt, reply>>
    BY <1>2 DEF AnswerRecognized
  <2>. QED  BY <2>1 DEF AnsweringTyped
<1>3. CASE Retrieve
  <2>1. /\ index' \in Collections /\ found' \in {L2Rows(index'), HybridRows(index')}
        /\ answering' = "limiting" /\ UNCHANGED <<limit, unit, prompt, reply>>
    BY <1>3 DEF Retrieve
  <2>2. found' \in Rows
    BY <2>1, RetrievedRows
  <2>3. Len(index') <= MaxStored
    BY <2>1, CollectionsAreTyped, AnsweringAssumption
  <2>. QED  BY <2>1, <2>2, <2>3 DEF AnsweringTyped
<1>4. CASE LimitImages
  <2>1. PICK Q \in SUBSET (DOMAIN found) :
          found' = [k \in DOMAIN InOrder(Q) |-> found[InOrder(Q)[k]]]
    BY <1>4, Zenon DEF LimitImages
  <2>2. found' \in Rows
    BY <2>1, FewerRows DEF AnsweringTyped
  <2>3. index' = <<>> /\ answering' = "composing" /\ UNCHANGED <<limit, unit, prompt, reply>>
    BY <1>4 DEF LimitImages
  <2>4. Len(<<>>) <= MaxStored
    BY AnsweringAssumption
  <2>. QED  BY <2>2, <2>3, <2>4 DEF AnsweringTyped
<1>5. CASE Compose
  <2>1. PICK page \in [DOMAIN found -> 0 .. Pages], chapter \in [DOMAIN found -> 0 .. Pages],
             files \in BOOLEAN, matched \in SUBSET {"quiz", "key_facts", "professor"} :
          prompt' = [NoPrompt EXCEPT
            !.style = Style(matched),
            !.pages = IF Style(matched) = "quiz" THEN {} ELSE IF files THEN MatchedPages(page) ELSE {},
            !.chapter = IF Style(matched) = "quiz" \/ ~files THEN 0 ELSE BestChapter(chapter)]
    BY <1>5, Zenon DEF Compose
  <2>2. PICK r \in Nat : DOMAIN found = 1 .. r
    <3>1. PICK r \in 0 .. TopK : found \in [1 .. r -> 1 .. MaxStored]
      BY DEF AnsweringTyped, Rows
    <3>. QED  BY <3>1, AnsweringAssumption
  <2>3. MatchedPages(page) \subseteq 1 .. Pages
    BY <2>2, AnsweringAssumption DEF MatchedPages
  <2>4. BestChapter(chapter) \in 0 .. Pages /\ 0 \in 0 .. Pages
    <3>1. chapter \in [1 .. r -> 0 .. Pages]
      BY <2>2
    <3>2. BestChapter(chapter) \in 0 .. Pages
      BY <3>1, BestIsAChapter, Zenon
    <3>. QED  BY <3>2, AnsweringAssumption
  <2>5. prompt' \in [style : {"quiz", "key_facts", "professor", "answer"},
                    pages : SUBSET (1 .. Pages), chapter : 0 .. Pages,
                    kept : 0 .. MaxMessages, omitted : 0 .. MaxMessages]
    BY <2>1, <2>3, <2>4, StyleIsKnown, NoPromptTyped
  <2>6. answering' = "remembering" /\ UNCHANGED <<limit, index, unit, found, reply>>
    BY <1>5 DEF Compose
  <2>. QED  BY <2>5, <2>6 DEF AnsweringTyped
<1>6. CASE Remember
  <2>1. PICK lengths \in BoundedSeq(MessageTokens, MaxMessages) :
          LET n == Len(lengths)
              tokensOf(m) == MapThenSumSet(LAMBDA k : lengths[k] + SeparatorTokens, n - m + 1 .. n)
              fits == {0} \cup {m \in 1 .. n : tokensOf(m) <= HistoryTokens}
              newest == IF n = 0 \/ tokensOf(n) - SeparatorTokens <= HistoryTokens THEN n
                        ELSE Max(fits)
          IN  prompt' = [prompt EXCEPT !.kept = newest, !.omitted = n - newest]
    BY <1>6, Zenon DEF Remember
  <2>. DEFINE n == Len(lengths)
              tokensOf(m) == MapThenSumSet(LAMBDA k : lengths[k] + SeparatorTokens, n - m + 1 .. n)
              fits == {0} \cup {m \in 1 .. n : tokensOf(m) <= HistoryTokens}
              newest == IF n = 0 \/ tokensOf(n) - SeparatorTokens <= HistoryTokens THEN n
                        ELSE Max(fits)
  <2>2. n \in 0 .. MaxMessages /\ n \in Nat
    <3>1. PICK m \in 0 .. MaxMessages : lengths \in [1 .. m -> MessageTokens]
      BY <2>1 DEF BoundedSeq, SeqOf
    <3>2. m \in Nat /\ lengths \in Seq(MessageTokens) /\ Len(lengths) = m
      BY <3>1, AnsweringAssumption
    <3>. QED  BY <3>1, <3>2
  <2>3. prompt' = [prompt EXCEPT !.kept = newest, !.omitted = n - newest]
    BY <2>1
  <2>. HIDE DEF n, tokensOf
  <2>4. Max(fits) \in 0 .. n
    <3>0. fits \in SUBSET (0 .. n) /\ fits # {}
      BY <2>2
    <3>. HIDE DEF fits
    <3>1. fits \in SUBSET Nat /\ IsFiniteSet(fits)
      <4>1. 0 \in Int /\ n \in Int
        BY <2>2
      <4>2. IsFiniteSet(0 .. n)
        BY <4>1, FS_Interval
      <4>3. fits \in SUBSET Nat
        BY <2>2, <3>0
      <4>4. IsFiniteSet(fits)
        BY <3>0, <4>2, FS_Subset, Zenon
      <4>. QED  BY <4>3, <4>4
    <3>. QED  BY <3>0, <3>1, MaxOfFinite
  <2>. HIDE DEF fits
  <2>5. newest \in 0 .. n
    BY <2>2, <2>4
  <2>. HIDE DEF newest
  <2>6. newest \in 0 .. MaxMessages /\ n - newest \in 0 .. MaxMessages
    BY <2>2, <2>5, AnsweringAssumption
  <2>7. answering' = "calling" /\ UNCHANGED <<limit, index, unit, found, reply>>
    BY <1>6 DEF Remember
  <2>. QED  BY <2>3, <2>6, <2>7 DEF AnsweringTyped
<1>7. CASE CallModel
  BY <1>7, NoPromptTyped DEF CallModel, AnsweringTyped
<1>8. CASE Number
  <2>1. PICK tags \in BoundedSeq([source : 0 .. TopK + 1, lettered : BOOLEAN], MaxTags),
             before \in SUBSET (1 .. MaxStored), gap \in {0, 1} :
          LET known == [c \in before |-> Cardinality(before \cap (1 .. c)) + gap]
              number == GlobalNumbers(tags, known)
          IN  reply' = [tags |-> ReplaceTags(tags, number),
                        cites |-> {<<found[s], number[s]>> : s \in DOMAIN number}]
    BY <1>8, Zenon DEF Number
  <2>. DEFINE known == [c \in before |-> Cardinality(before \cap (1 .. c)) + gap]
              number == GlobalNumbers(tags, known)
  <2>2. reply'.tags = ReplaceTags(tags, number)
    BY <2>1
  <2>3. DOMAIN number = CitedSources(tags)
    BY DEF GlobalNumbers
  <2>4. Numbered(known) /\ tags \in TagLists
    <3>1. gap \in Nat
      OBVIOUS
    <3>. QED  BY <3>1, EarlierNumbers DEF TagLists
  <2>. HIDE DEF known
  <2>5. ASSUME NEW s \in DOMAIN number PROVE number[s] \in Nat
    <3>1. s \in CitedSources(tags)
      BY <2>3
    <3>. QED  BY <2>4, <3>1, NumbersAreNat
  <2>. HIDE DEF number
  <2>6. reply'.tags \subseteq Nat
    BY <2>2, <2>5 DEF ReplaceTags
  <2>7. answering' = "answered" /\ UNCHANGED <<limit, index, unit, found, prompt>>
    BY <1>8 DEF Number
  <2>. QED  BY <2>6, <2>7 DEF AnsweringTyped
<1>9. CASE UNCHANGED answeringVars
  BY <1>9 DEF answeringVars, AnsweringTyped
<1>. QED
  BY <1>1, <1>2, <1>3, <1>4, <1>5, <1>6, <1>7, <1>8, <1>9 DEF AnsweringNext

\* query_chunks, _limit_image_rows, the context of the prompt, the history and
\* the numbering, for any collection and history: at most top_k rows, each a
\* chunk of the collection, pages and a chapter of the file, no more messages
\* than there are, and numbers in the answer.
THEOREM AnsweringTypes == AnsweringSpec => []AnsweringTypeOK
<1>1. AnsweringTyped => AnsweringTypeOK
  <2>. SUFFICES ASSUME AnsweringTyped PROVE AnsweringTypeOK
    OBVIOUS
  <2>1. PICK r \in 0 .. TopK : found \in [1 .. r -> 1 .. MaxStored]
    BY DEF AnsweringTyped, Rows
  <2>2. r \in Nat /\ found \in Seq(1 .. MaxStored) /\ Len(found) = r
    BY <2>1, AnsweringAssumption
  <2>3. Len(found) <= TopK /\ ToSet(found) \subseteq 1 .. MaxStored
    BY <2>1, <2>2, AnsweringAssumption DEF ToSet
  <2>. QED  BY <2>3 DEF AnsweringTyped, AnsweringTypeOK
<1>. QED  BY <1>1, AnsweringInitTyped, AnsweringNextTyped, PTL DEF AnsweringSpec

===============================================================================
