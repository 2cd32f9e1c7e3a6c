------------------------------ MODULE CpuBudget -------------------------------
(***************************************************************************)
(* The CPU budget of one Python process (python/src/shared/cpu_budget.py)  *)
(* and the jobs that take slots from it: index_documents and               *)
(* _reserve_cpu_or_delegate of python/src/shared/indexing.py.  Each job    *)
(* runs on a thread of its own; reserve and release hold _budget_lock, so  *)
(* each is one step.                                                       *)
(*                                                                         *)
(* The budget is counted twice, by _in_use and by a BoundedSemaphore whose *)
(* release() raises once its value is back at MAIN_MAX_CPU.  A job that    *)
(* could not reserve and could not be delegated runs all the same and      *)
(* releases the slots it never had.                                        *)
(*                                                                         *)
(* Left out: what the job does (_index_documents_inline), the size and     *)
(* page heuristic (a file needs 1 or 2 slots), reserve(), the context      *)
(* manager, which nothing in the program calls.                            *)
(***************************************************************************)
EXTENDS Integers, FiniteSets

CONSTANTS
  Job,                 \* calls of index_documents in this process
  CpuCount,            \* os.cpu_count()
  ReservedForBackend,  \* CPU_RESERVED_FOR_BACKEND
  CpuMainMax           \* CPU_MAIN_MAX, by default half of CpuCount

ASSUME CpuAssumption ==
  /\ CpuCount \in Nat \ {0}
  /\ ReservedForBackend \in Nat
  /\ CpuMainMax \in Int

AtMost(a, b) == IF a < b THEN a ELSE b
AtLeast(a, b) == IF a > b THEN a ELSE b

DefaultMainMax == AtLeast(1, CpuCount \div 2)
MainMaxCpu == AtLeast(1, AtMost(CpuCount - ReservedForBackend, CpuMainMax))

VARIABLES
  inUse,       \* _in_use
  semaphore,   \* value of the BoundedSemaphore
  job,         \* job[j]: see JobState
  slots,       \* slots[j]: what _reserve_cpu_or_delegate asked for
  delegating,  \* allow_delegation: FALSE in the worker process
  ranOver      \* history: jobs that ran without a reservation

vars == <<inUse, semaphore, job, slots, delegating, ranOver>>

JobState == {"new", "reserved", "over", "delegated", "ok", "failed"}

Init ==
  /\ inUse = 0
  /\ semaphore = MainMaxCpu
  /\ job = [j \in Job |-> "new"]
  /\ slots = [j \in Job |-> 0]
  /\ delegating \in BOOLEAN
  /\ ranOver = {}

-------------------------------------------------------------------------------
\* estimate_slots_for_file gives 1 or 2, then min(slots, MAIN_MAX_CPU).
Demand == {AtMost(n, MainMaxCpu) : n \in {1, 2}}

Fits(n) == inUse + n <= MainMaxCpu

\* Mutant: the acquire loop succeeds and _in_use is not updated.
ReserveUncounted(j, n) ==
  /\ job[j] = "new"
  /\ Fits(n) /\ semaphore >= n
  /\ semaphore' = semaphore - n
  /\ job' = [job EXCEPT ![j] = "reserved"]
  /\ slots' = [slots EXCEPT ![j] = n]
  /\ UNCHANGED <<inUse, delegating, ranOver>>

\* Mutant: the semaphore is never acquired.
ReserveUnacquired(j, n) ==
  /\ job[j] = "new"
  /\ Fits(n) /\ semaphore >= n
  /\ inUse' = inUse + n
  /\ job' = [job EXCEPT ![j] = "reserved"]
  /\ slots' = [slots EXCEPT ![j] = n]
  /\ UNCHANGED <<semaphore, delegating, ranOver>>

\* try_reserve returned True.
Reserve(j, n) ==
  /\ job[j] = "new"
  /\ Fits(n) /\ semaphore >= n
  /\ inUse' = inUse + n
  /\ semaphore' = semaphore - n
  /\ job' = [job EXCEPT ![j] = "reserved"]
  /\ slots' = [slots EXCEPT ![j] = n]
  /\ UNCHANGED <<delegating, ranOver>>

\* try_reserve returned False: the budget check, or the defensive acquire
\* loop, which gives back what it took.
Refused(n) == ~Fits(n) \/ semaphore < n

\* The job was published to Pub/Sub: index_documents returns "delegated".
Delegate(j, n) ==
  /\ job[j] = "new"
  /\ Refused(n)
  /\ delegating
  /\ job' = [job EXCEPT ![j] = "delegated"]
  /\ UNCHANGED <<inUse, semaphore, slots, delegating, ranOver>>

\* Delegation is off, or publishing failed: run inline anyway.  The slot
\* count is returned as if it had been reserved.
RunOver(j, n) ==
  /\ job[j] = "new"
  /\ Refused(n)
  /\ job' = [job EXCEPT ![j] = "over"]
  /\ slots' = [slots EXCEPT ![j] = n]
  /\ ranOver' = ranOver \cup {j}
  /\ UNCHANGED <<inUse, semaphore, delegating>>

Running(j) == job[j] \in {"reserved", "over"}

\* release(): the semaphore goes up slot by slot and raises ValueError at its
\* bound, before _in_use is decremented.
Overflows(n) == semaphore + n > MainMaxCpu
\* Mutant: _in_use is decremented first, whatever the semaphore does.
ReleaseCountFirst(n) ==
  /\ semaphore' = AtMost(semaphore + n, MainMaxCpu)
  /\ inUse' = inUse - n

\* Mutant: one slot is given back whatever the job took.
ReleaseOne(n) ==
  /\ semaphore' = AtMost(semaphore + 1, MainMaxCpu)
  /\ inUse' = IF Overflows(1) THEN inUse ELSE inUse - 1

Release(n) ==
  /\ semaphore' = AtMost(semaphore + n, MainMaxCpu)
  /\ inUse' = IF Overflows(n) THEN inUse ELSE inUse - n

\* The job's body ends, by returning or raising, and the finally releases;
\* the ValueError of an over-release takes the place of the job's result.
Finish(j) ==
  /\ Running(j)
  /\ Release(slots[j])
  /\ \/ ~Overflows(slots[j]) /\ job' = [job EXCEPT ![j] = "ok"]
     \/ job' = [job EXCEPT ![j] = "failed"]
  /\ UNCHANGED <<slots, delegating, ranOver>>

Next ==
  \E j \in Job :
    \/ \E n \in Demand : Reserve(j, n) \/ Delegate(j, n) \/ RunOver(j, n)
    \/ Finish(j)

Spec == Init /\ [][Next]_vars

-------------------------------------------------------------------------------
(* Properties *)

TypeOK ==
  /\ inUse \in 0 .. MainMaxCpu
  /\ semaphore \in 0 .. MainMaxCpu
  /\ job \in [Job -> JobState]
  /\ slots \in [Job -> 0 .. 2]
  /\ delegating \in BOOLEAN
  /\ ranOver \in SUBSET Job

\* The two counters never disagree the dangerous way: after any sequence of
\* reserves, over-releases and half-done releases, the semaphore holds at
\* least the slots _in_use calls free, so the acquire loop of try_reserve
\* cannot fail once the check on _in_use passed ("Shouldn't happen since we
\* hold _budget_lock").
SemaphoreCoversFree == semaphore >= MainMaxCpu - inUse

Holding == {j \in Job : job[j] = "reserved"}
Held == {h \in Holding \X (1 .. 2) : h[2] <= slots[h[1]]}
SlotsHeld == Cardinality(Held)

\* The books are exact as long as no job ran without a reservation: _in_use is
\* what the running jobs hold, and an idle process has its whole budget.
BooksBalance == ranOver = {} => inUse = SlotsHeld

\* No job loses its result to the accounting unless some job over-ran: a
\* release that raises needs a slot given back that was never taken.
ReleaseIsHarmless ==
  \A j \in Job : Running(j) /\ Overflows(slots[j]) => ranOver # {}

\* cpu_budget.py: "Main instance uses at most 50% of system CPUs for
\* indexing": the jobs the main instance granted slots to fit in its budget.
GrantedWithinBudget == delegating => SlotsHeld <= MainMaxCpu
===============================================================================
