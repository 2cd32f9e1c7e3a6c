-------------------------------- MODULE Ralph ---------------------------------
(***************************************************************************)
(* The Ralph loop (ralph/agent_ralph_loop.py): a coding agent is run on    *)
(* the repository again and again; after each run the feedback loops       *)
(* (feedback_loops.py) test the areas that differ from the commit the run  *)
(* of the loop began at, and what they pass is committed.                  *)
(*                                                                         *)
(* The repository is one branch: per area, the version it is at.  Left     *)
(* out: the prompts, the progress and commits files, which nothing but the *)
(* agent reads, and the Docker sandbox the whole loop may run in.          *)
(***************************************************************************)
EXTENDS Naturals

CONSTANTS
  Area,           \* the areas changed_areas_since knows
  Watched,        \* those that blocking feedback loops run for
  Version,        \* versions of the files of an area
  Broken,         \* the versions its feedback loops fail on
  MaxIterations,  \* LoopConfig.max_iterations
  MaxLoops        \* bound: runs of the loop

ASSUME RalphAssumption ==
  /\ Watched \subseteq Area /\ Broken \subseteq Version
  /\ MaxIterations \in Nat \ {0} /\ MaxLoops \in Nat

VARIABLES
  loopAt,     \* where loop() is: "idle", "describe", "agent", "feedback",
              \* "check", "pr"
  config,     \* LoopConfig: "auto", "hitl" or "dry"
  prd,        \* the description file: "none", "written", "partial"
  origin,     \* start_sha
  head, tree, \* HEAD and the working tree
  iteration,
  claims,     \* agent_says_done
  lastDiff,   \* last_diff_digest: a diff, or NoDiff
  advanced,   \* rev-list start_sha..HEAD is not empty
  byAgent,    \* history: the agent has moved HEAD in this run
  pull,       \* the branch has a pull request
  code,       \* what loop() returned: "0", "1", "2", "raised" or "none"
  loops       \* runs of the loop so far

repoVars == <<head, tree, advanced, byAgent>>
runVars == <<config, origin, loops>>
ralphVars == <<loopAt, prd, iteration, claims, lastDiff, pull, code, repoVars, runVars>>

Content == [Area -> Version]
NoDiff == [a \in {} |-> a]

Differing(old, new) == {a \in Area : old[a] # new[a]}
\* diff_digest: the changed areas, each with what it was and what it is.
Diff(old, new) == [a \in Differing(old, new) |-> <<old[a], new[a]>>]
Red(content) == {a \in Watched : content[a] \in Broken}

RalphInit ==
  /\ loopAt = "idle" /\ config = "auto" /\ prd = "none"
  /\ head \in Content /\ tree = head /\ origin = head
  /\ iteration = 0 /\ claims = FALSE /\ lastDiff = NoDiff
  /\ advanced = FALSE /\ byAgent = FALSE /\ pull = FALSE /\ code = "none" /\ loops = 0

Returns(c) == loopAt' = "idle" /\ code' = c

\* loop() up to build_description: the branch is checked out, or kept.
BeginLoop ==
  /\ loopAt = "idle" /\ loops < MaxLoops /\ loops' = loops + 1
  /\ config' \in {"auto", "hitl", "dry"}
  /\ loopAt' = "describe" /\ code' = "none"
  /\ UNCHANGED <<prd, origin, iteration, claims, lastDiff, pull, repoVars>>

\* build_description: an existing file is used again, whatever is in it.
Describe ==
  /\ loopAt = "describe" /\ loopAt' = "agent"
  /\ prd' = IF prd = "none" THEN "written" ELSE prd
  /\ origin' = head /\ advanced' = FALSE /\ byAgent' = FALSE
  /\ iteration' = 1 /\ lastDiff' = NoDiff
  /\ UNCHANGED <<config, loops, head, tree, claims, pull, code>>

\* _build_prd_via_llm falls back when there is no client or no text, and raises
\* when the call does; nothing is written then.
DescribeFails ==
  /\ loopAt = "describe" /\ prd = "none" /\ Returns("raised")
  /\ UNCHANGED <<prd, iteration, claims, lastDiff, pull, repoVars, runVars>>

-------------------------------------------------------------------------------
(* CodingAgent.run *)

AgentReturns ==
  /\ loopAt = "agent" /\ loopAt' = "feedback"
  /\ UNCHANGED <<prd, iteration, pull, code, runVars, lastDiff>>

\* A local CLI edits the working tree; the output of one that exits with an
\* error is used like that of one that succeeds, one that times out claims nothing.
AgentEdits ==
  /\ AgentReturns
  /\ tree' \in Content /\ claims' \in BOOLEAN
  /\ UNCHANGED <<head, advanced, byAgent>>

\* It may commit by itself: it runs with all tools allowed.
AgentCommits ==
  /\ AgentReturns
  /\ head' \in Content /\ tree' \in Content /\ claims' \in BOOLEAN
  /\ advanced' = TRUE /\ byAgent' = TRUE

\* _run_remote_agent: the agent works elsewhere.  The output repeats the body
\* of the issue, which holds the prompt and with it the COMPLETE marker, unless
\* no poll was answered.
RemoteAgent == AgentReturns /\ claims' \in BOOLEAN /\ UNCHANGED repoVars

\* Neither CLI nor token: nothing happens.
NoAgent == AgentReturns /\ claims' = FALSE /\ UNCHANGED repoVars

\* An HTTP error of _create_issue.
AgentRaises ==
  /\ loopAt = "agent" /\ Returns("raised")
  /\ UNCHANGED <<prd, iteration, claims, lastDiff, pull, repoVars, runVars>>

-------------------------------------------------------------------------------
(* Feedback and commit *)

ChangedAreas == Differing(origin, head)

\* Mutant: without a change nothing has to be tested.
RanChangedOnly == Watched \cap ChangedAreas

\* only_changed_areas=changed or None: without a change every loop runs.
Ran == IF ChangedAreas = {} THEN Watched ELSE Watched \cap ChangedAreas

\* run_all and all_blocking_passed: a loop may also time out or crash.
MayPass == Red(tree) \cap Ran = {}

\* The digest of the commit is that of the last one: the same hunks apply twice
\* only when HEAD was moved back in between.
Frozen == lastDiff = Diff(head, tree)

Commit ==
  /\ loopAt = "feedback" /\ MayPass /\ config = "auto" /\ tree # head
  /\ head' = tree /\ advanced' = TRUE
  /\ IF Frozen THEN Returns("2") /\ UNCHANGED lastDiff
     ELSE lastDiff' = Diff(head, tree) /\ loopAt' = "check" /\ UNCHANGED code
  /\ UNCHANGED <<prd, iteration, claims, pull, tree, byAgent, runVars>>

\* The feedback is red, it is a trial, or nothing changed.
NoCommit ==
  /\ loopAt = "feedback" /\ loopAt' = "check"
  /\ UNCHANGED <<prd, iteration, claims, lastDiff, pull, code, repoVars, runVars>>

-------------------------------------------------------------------------------
(* The end of an iteration *)

\* is_prd_complete says yes, whatever the feedback was.
Verified ==
  /\ loopAt = "check" /\ (claims \/ iteration = MaxIterations)
  /\ loopAt' = "pr" /\ code' = "0"
  /\ UNCHANGED <<prd, iteration, claims, lastDiff, pull, repoVars, runVars>>

\* It says no, fails or was not asked.
NextIteration ==
  /\ loopAt = "check" /\ config # "hitl" /\ iteration < MaxIterations
  /\ iteration' = iteration + 1 /\ loopAt' = "agent"
  /\ UNCHANGED <<prd, claims, lastDiff, pull, code, repoVars, runVars>>

LastIteration ==
  /\ loopAt = "check"
  /\ \/ config = "hitl" /\ Returns("0")
     \/ /\ config # "hitl" /\ iteration = MaxIterations
        /\ code' = "1" /\ loopAt' = IF advanced THEN "pr" ELSE "idle"
  /\ UNCHANGED <<prd, iteration, claims, lastDiff, pull, repoVars, runVars>>

\* _maybe_open_pr_flow: not asked for, a trial, or no token.
NoPullRequest ==
  /\ loopAt = "pr" /\ loopAt' = "idle"
  /\ UNCHANGED <<prd, iteration, claims, lastDiff, pull, code, repoVars, runVars>>

\* Push, open or find, mark ready, wait and comment: each may raise.
PullRequest ==
  /\ loopAt = "pr" /\ loopAt' = "idle" /\ config # "dry"
  /\ pull' \in {pull, TRUE} /\ code' \in {code, "raised"}
  /\ UNCHANGED <<prd, iteration, claims, lastDiff, repoVars, runVars>>

\* The process is killed, or git raises; build_description may leave half a file.
LoopDies ==
  /\ loopAt # "idle" /\ Returns("raised")
  /\ prd' = IF loopAt = "describe" /\ prd = "none" THEN "partial" ELSE prd
  /\ UNCHANGED <<iteration, claims, lastDiff, pull, repoVars, runVars>>

RalphNext ==
  \/ BeginLoop \/ Describe \/ DescribeFails
  \/ AgentEdits \/ AgentCommits \/ RemoteAgent \/ NoAgent \/ AgentRaises
  \/ Commit \/ NoCommit
  \/ Verified \/ NextIteration \/ LastIteration
  \/ NoPullRequest \/ PullRequest \/ LoopDies

RalphSpec == RalphInit /\ [][RalphNext]_ralphVars

-------------------------------------------------------------------------------
RalphTypeOK ==
  /\ loopAt \in {"idle", "describe", "agent", "feedback", "check", "pr"}
  /\ config \in {"auto", "hitl", "dry"} /\ prd \in {"none", "written", "partial"}
  /\ {origin, head, tree} \subseteq Content
  /\ iteration \in 0..MaxIterations /\ loops \in 0..MaxLoops
  /\ {claims, advanced, byAgent, pull} \subseteq BOOLEAN
  /\ DOMAIN lastDiff \subseteq Area
  /\ \A a \in DOMAIN lastDiff : lastDiff[a] \in Version \X Version
  /\ code \in {"none", "0", "1", "2", "raised"}

\* A commit is tested only in the areas committed before it, so one that breaks
\* another area gets through.  It is caught: while the agent leaves HEAD to the
\* loop, an area that is red at HEAD is green after the next commit, whatever
\* was reverted, restarted or left uncommitted in between.
RedIsFixedNext ==
  [][head' # head /\ ~byAgent' => Red(head) \cap Red(head') = {}]_ralphVars
===============================================================================
