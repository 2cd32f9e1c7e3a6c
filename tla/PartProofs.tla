------------------------------ MODULE PartProofs ------------------------------
(***************************************************************************)
(* The budget of CPUs, the queue of error rows and the Ralph loop, which   *)
(* have no variable in common; each has its inductive invariant here.      *)
(* Then all the parts together, as MCParts runs them.                      *)
(***************************************************************************)
EXTENDS MCParts, RouteProofs, TextProofs, PipelineProofs, FiniteSetTheorems,
        SequenceTheorems, TLAPS

-------------------------------------------------------------------------------
(***************************************************************************)
(* CpuBudget, for every number of jobs and CPUs: the two counters stay in  *)
(* range and the semaphore always covers what _in_use calls free, whatever *)
(* jobs over-release.  The inductive invariant is TypeOK together with     *)
(* SemaphoreCoversFree: that _in_use never goes below zero needs the second, *)
(* because release() decrements it only after the semaphore took every slot *)
(* back.  BooksInv adds that the books are exact as long as no job ran over: *)
(* the semaphore is then the complement of _in_use, and _in_use counts the *)
(* slots the running jobs hold.                                            *)
(***************************************************************************)

BudgetInv == TypeOK /\ SemaphoreCoversFree

LEMMA MainMaxType == MainMaxCpu \in Nat \ {0}
  BY CpuAssumption DEF MainMaxCpu, AtLeast, AtMost

\* A demand is a positive number of slots that fits in an empty budget.
LEMMA DemandType ==
  ASSUME NEW n \in Demand
  PROVE  n \in 1 .. 2 /\ n <= MainMaxCpu
  BY MainMaxType DEF Demand, AtMost

LEMMA BudgetInitInv == Init => BudgetInv
  BY MainMaxType DEF Init, BudgetInv, TypeOK, SemaphoreCoversFree, JobState

LEMMA BudgetReserve ==
  ASSUME BudgetInv, NEW j \in Job, NEW n \in Demand, Reserve(j, n)
  PROVE  BudgetInv'
  BY MainMaxType, DemandType
     DEF BudgetInv, TypeOK, SemaphoreCoversFree, JobState, Reserve, Fits

LEMMA BudgetDelegate ==
  ASSUME BudgetInv, NEW j \in Job, NEW n \in Demand, Delegate(j, n)
  PROVE  BudgetInv'
  BY MainMaxType DEF BudgetInv, TypeOK, SemaphoreCoversFree, JobState, Delegate

LEMMA BudgetRunOver ==
  ASSUME BudgetInv, NEW j \in Job, NEW n \in Demand, RunOver(j, n)
  PROVE  BudgetInv'
  BY MainMaxType, DemandType
     DEF BudgetInv, TypeOK, SemaphoreCoversFree, JobState, RunOver

\* Releasing n slots keeps the counters in range: n fits in _in_use whenever
\* the semaphore could take all n slots back.
LEMMA BudgetRelease ==
  ASSUME NEW n \in 0 .. 2, Release(n),
         inUse \in 0 .. MainMaxCpu, semaphore \in 0 .. MainMaxCpu,
         SemaphoreCoversFree
  PROVE  /\ inUse' \in 0 .. MainMaxCpu
         /\ semaphore' \in 0 .. MainMaxCpu
         /\ SemaphoreCoversFree'
<1>1. CASE Overflows(n)
  BY <1>1, MainMaxType DEF Release, Overflows, AtMost, SemaphoreCoversFree
<1>2. CASE ~Overflows(n)
  BY <1>2, MainMaxType DEF Release, Overflows, AtMost, SemaphoreCoversFree
<1>. QED  BY <1>1, <1>2

LEMMA BudgetFinish ==
  ASSUME BudgetInv, NEW j \in Job, Finish(j)
  PROVE  BudgetInv'
<1>1. slots[j] \in 0 .. 2
  BY DEF BudgetInv, TypeOK
<1>2. /\ inUse' \in 0 .. MainMaxCpu
      /\ semaphore' \in 0 .. MainMaxCpu
      /\ SemaphoreCoversFree'
  BY <1>1, BudgetRelease DEF Finish, BudgetInv, TypeOK
<1>3. job' \in [Job -> JobState]
  BY DEF Finish, BudgetInv, TypeOK, JobState
<1>. QED  BY <1>2, <1>3 DEF Finish, BudgetInv, TypeOK

LEMMA BudgetNextInv == BudgetInv /\ [Next]_vars => BudgetInv'
<1> SUFFICES ASSUME BudgetInv, [Next]_vars PROVE BudgetInv'
  OBVIOUS
<1>1. ASSUME NEW j \in Job, NEW n \in Demand, Reserve(j, n) PROVE BudgetInv'
  BY <1>1, BudgetReserve
<1>2. ASSUME NEW j \in Job, NEW n \in Demand, Delegate(j, n) PROVE BudgetInv'
  BY <1>2, BudgetDelegate
<1>3. ASSUME NEW j \in Job, NEW n \in Demand, RunOver(j, n) PROVE BudgetInv'
  BY <1>3, BudgetRunOver
<1>4. ASSUME NEW j \in Job, Finish(j) PROVE BudgetInv'
  BY <1>4, BudgetFinish
<1>5. CASE UNCHANGED vars
  BY <1>5 DEF vars, BudgetInv, TypeOK, SemaphoreCoversFree
<1>. QED  BY <1>1, <1>2, <1>3, <1>4, <1>5 DEF Next

\* Both counters of the budget stay between 0 and MAIN_MAX_CPU, even after
\* jobs released slots they never reserved (cpu_budget.release).
THEOREM CountersInRange == Spec => []TypeOK
<1>1. BudgetInv => TypeOK
  BY DEF BudgetInv
<1>. QED  BY <1>1, BudgetInitInv, BudgetNextInv, PTL DEF Spec

\* The semaphore always holds the slots _in_use calls free.
THEOREM SemaphoreCovers == Spec => []SemaphoreCoversFree
<1>1. BudgetInv => SemaphoreCoversFree
  BY DEF BudgetInv
<1>. QED  BY <1>1, BudgetInitInv, BudgetNextInv, PTL DEF Spec

\* The acquire loop of try_reserve never fails once the check on _in_use has
\* passed: a refusal always means the budget is full ("Shouldn't happen since
\* we hold _budget_lock").
THEOREM RefusalMeansFull ==
  Spec => [](\A n \in Demand : Refused(n) => inUse + n > MainMaxCpu)
<1>1. BudgetInv => \A n \in Demand : Refused(n) => inUse + n > MainMaxCpu
  BY MainMaxType, DemandType
     DEF BudgetInv, TypeOK, SemaphoreCoversFree, Refused, Fits
<1>. QED  BY <1>1, BudgetInitInv, BudgetNextInv, PTL DEF Spec

\* The policy itself (cpu_budget.py lines 29 to 42): on two CPUs or more, with
\* one reserved for the backend and CPU_MAIN_MAX left at its default, indexing
\* gets at most half of the CPUs and leaves one free.
THEOREM PolicyLeavesRoom ==
  ASSUME CpuCount >= 2, ReservedForBackend = 1, CpuMainMax = DefaultMainMax
  PROVE  MainMaxCpu <= CpuCount - 1 /\ 2 * MainMaxCpu <= CpuCount
<1>1. CpuCount \div 2 \in Nat /\ 2 * (CpuCount \div 2) <= CpuCount
      /\ CpuCount \div 2 >= 1
  BY CpuAssumption
<1>. QED  BY <1>1, CpuAssumption DEF MainMaxCpu, DefaultMainMax, AtLeast, AtMost
-------------------------------------------------------------------------------
(* The slots that jobs hold, as pairs of a job and the number of its slot.  *)

SlotsOf(j, n) == {j} \X (1 .. n)

LEMMA SlotsOfCardinality ==
  ASSUME NEW j, NEW n \in Nat
  PROVE  IsFiniteSet(SlotsOf(j, n)) /\ Cardinality(SlotsOf(j, n)) = n
<1>1. IsFiniteSet({j}) /\ Cardinality({j}) = 1
  BY FS_Singleton
<1>2. IsFiniteSet(1 .. n) /\ Cardinality(1 .. n) = n
  <2>1. 1 \in Int /\ n \in Int
    OBVIOUS
  <2>. QED  BY <2>1, FS_Interval
<1>3. IsFiniteSet(SlotsOf(j, n)) /\ Cardinality(SlotsOf(j, n)) = 1 * n
  <2>1. /\ IsFiniteSet({j} \X (1 .. n))
        /\ Cardinality({j} \X (1 .. n)) = Cardinality({j}) * Cardinality(1 .. n)
    BY <1>1, <1>2, FS_Product
  <2>. QED  BY <1>1, <1>2, <2>1 DEF SlotsOf
<1>. QED  BY <1>3

LEMMA SlotsTaken ==
  ASSUME NEW S, IsFiniteSet(S), NEW j, NEW n \in Nat, S \cap SlotsOf(j, n) = {}
  PROVE  /\ IsFiniteSet(S \cup SlotsOf(j, n))
         /\ Cardinality(S \cup SlotsOf(j, n)) = Cardinality(S) + n
<1>1. Cardinality(S) \in Nat
  BY FS_CardinalityType
<1>. QED  BY <1>1, SlotsOfCardinality, FS_Union, FS_EmptySet

LEMMA SlotsGivenBack ==
  ASSUME NEW S, IsFiniteSet(S), NEW j, NEW n \in Nat, SlotsOf(j, n) \subseteq S
  PROVE  /\ IsFiniteSet(S \ SlotsOf(j, n))
         /\ Cardinality(S \ SlotsOf(j, n)) = Cardinality(S) - n
         /\ n <= Cardinality(S)
<1>1. S \cap SlotsOf(j, n) = SlotsOf(j, n)
  OBVIOUS
<1>2. n <= Cardinality(S)
  BY SlotsOfCardinality, FS_Subset
<1>3. /\ IsFiniteSet(S \ SlotsOf(j, n))
      /\ Cardinality(S \ SlotsOf(j, n)) = Cardinality(S) - Cardinality(S \cap SlotsOf(j, n))
  BY FS_Difference
<1>. QED  BY <1>1, <1>2, <1>3, SlotsOfCardinality

BooksInv ==
  /\ BudgetInv
  /\ IsFiniteSet(Held)
  /\ \A j \in Job : job[j] = "over" => j \in ranOver
  /\ \A j \in Job : job[j] = "reserved" => slots[j] \in 1 .. 2
  /\ ranOver = {} => inUse = SlotsHeld /\ semaphore = MainMaxCpu - inUse

\* A job that runs holds what it asked for, and gives no more back.
LEMMA RunningHolds ==
  ASSUME BooksInv, NEW j \in Job, job[j] = "reserved"
  PROVE  SlotsOf(j, slots[j]) \subseteq Held /\ slots[j] <= SlotsHeld
<1>1. slots[j] \in 1 .. 2
  BY DEF BooksInv
<1>2. SlotsOf(j, slots[j]) \subseteq Held
  BY <1>1 DEF SlotsOf, Held, Holding
<1>3. slots[j] \in Nat /\ IsFiniteSet(Held)
  BY <1>1 DEF BooksInv
<1>4. slots[j] <= Cardinality(Held)
  BY <1>2, <1>3, SlotsGivenBack
<1>. QED  BY <1>2, <1>4 DEF SlotsHeld

\* Steps that change no reservation.
LEMMA HeldUnchanged ==
  ASSUME \A j \in Job : job'[j] = "reserved" <=> job[j] = "reserved",
         \A j \in Job : job[j] = "reserved" => slots'[j] = slots[j]
  PROVE  Held' = Held
<1>1. Holding' = Holding
  BY DEF Holding
<1>2. \A h \in Holding \X (1 .. 2) : slots'[h[1]] = slots[h[1]]
  BY DEF Holding
<1>. QED  BY <1>1, <1>2 DEF Held

LEMMA BooksInitInv == Init => BooksInv
<1> SUFFICES ASSUME Init PROVE BooksInv
  OBVIOUS
<1>1. Held = {}
  BY DEF Init, Held, Holding
<1>. QED  BY <1>1, BudgetInitInv, FS_EmptySet, MainMaxType DEF Init, BooksInv, SlotsHeld

LEMMA BooksNextInv == BooksInv /\ [Next]_vars => BooksInv'
<1> SUFFICES ASSUME BooksInv, [Next]_vars PROVE BooksInv'
  OBVIOUS
<1>. USE DEF BooksInv, BudgetInv, TypeOK, JobState
<1>1. BudgetInv'
  BY BudgetNextInv
<1>2. ASSUME NEW j \in Job, NEW n \in Demand, Reserve(j, n) PROVE BooksInv'
  <2>1. n \in 1 .. 2
    BY DemandType
  <2>2. Held' = Held \cup SlotsOf(j, n) /\ Held \cap SlotsOf(j, n) = {}
    BY <1>2, <2>1 DEF Reserve, Held, Holding, SlotsOf
  <2>3. IsFiniteSet(Held') /\ SlotsHeld' = SlotsHeld + n
    BY <2>1, <2>2, SlotsTaken DEF SlotsHeld
  <2>. QED  BY <1>1, <1>2, <2>1, <2>3, MainMaxType DEF Reserve
<1>3. ASSUME NEW j \in Job, NEW n \in Demand, Delegate(j, n) PROVE BooksInv'
  <2>1. Held' = Held
    BY <1>3, HeldUnchanged DEF Delegate
  <2>. QED  BY <1>1, <1>3, <2>1 DEF Delegate, SlotsHeld
<1>4. ASSUME NEW j \in Job, NEW n \in Demand, RunOver(j, n) PROVE BooksInv'
  <2>1. Held' = Held
    <3>1. job[j] = "new" /\ job'[j] = "over" /\ \A i \in Job \ {j} : job'[i] = job[i] /\ slots'[i] = slots[i]
      BY <1>4 DEF RunOver
    <3>. QED  BY <3>1, HeldUnchanged
  <2>. QED  BY <1>1, <1>4, <2>1 DEF RunOver
<1>5. ASSUME NEW j \in Job, Finish(j) PROVE BooksInv'
  <2>1. CASE job[j] = "over"
    \* Some job has run over, and has been for good.
    <3>1. Held' = Held
      BY <1>5, <2>1, HeldUnchanged DEF Finish
    <3>. QED  BY <1>1, <1>5, <2>1, <3>1 DEF Finish
  <2>2. CASE job[j] = "reserved"
    <3>. DEFINE n == slots[j]
    <3>1. n \in 1 .. 2 /\ n <= SlotsHeld /\ SlotsOf(j, n) \subseteq Held
      BY <2>2, RunningHolds
    <3>2. job'[j] \in {"ok", "failed"} /\ \A i \in Job \ {j} : job'[i] = job[i]
      BY <1>5 DEF Finish
    <3>3. Held' = Held \ SlotsOf(j, n)
      BY <1>5, <3>1, <3>2 DEF Finish, Held, Holding, SlotsOf
    <3>4. IsFiniteSet(Held') /\ SlotsHeld' = SlotsHeld - n
      BY <3>1, <3>3, SlotsGivenBack DEF SlotsHeld
    <3>5. ASSUME ranOver = {} PROVE inUse' = SlotsHeld' /\ semaphore' = MainMaxCpu - inUse'
      <4>1. ~Overflows(n) /\ Release(n)
        BY <1>5, <3>1, <3>5, MainMaxType DEF Overflows, Finish
      <4>2. inUse' = inUse - n /\ semaphore' = semaphore + n
        BY <3>1, <4>1, MainMaxType DEF Release, Overflows, AtMost
      <4>. QED  BY <3>1, <3>4, <3>5, <4>2, MainMaxType
    <3>. QED  BY <1>1, <1>5, <3>2, <3>4, <3>5 DEF Finish
  <2>. QED  BY <1>5, <2>1, <2>2 DEF Finish, Running
<1>6. CASE UNCHANGED vars
  BY <1>1, <1>6 DEF vars, Held, Holding, SlotsHeld
<1>. QED  BY <1>2, <1>3, <1>4, <1>5, <1>6 DEF Next

\* As long as no job ran without a reservation, _in_use is the sum of what
\* the running jobs hold (cpu_budget.try_reserve and release).
THEOREM BooksAreExact == Spec => []BooksBalance
<1>1. BooksInv => BooksBalance
  BY DEF BooksInv, BooksBalance
<1>. QED  BY <1>1, BooksInitInv, BooksNextInv, PTL DEF Spec

\* The ValueError of a release past the bound, which takes the place of the
\* job's result, needs a job that ran over.
THEOREM NoResultLost == Spec => []ReleaseIsHarmless
<1>1. BooksInv => ReleaseIsHarmless
  <2> SUFFICES ASSUME BooksInv, NEW j \in Job, Running(j), Overflows(slots[j]), ranOver = {}
               PROVE  FALSE
    BY DEF ReleaseIsHarmless
  <2>1. job[j] = "reserved"
    BY DEF BooksInv, Running
  <2>2. slots[j] \in 1 .. 2 /\ slots[j] <= inUse /\ semaphore = MainMaxCpu - inUse
    BY <2>1, RunningHolds DEF BooksInv
  <2>. QED  BY <2>2, MainMaxType DEF Overflows, BooksInv, BudgetInv, TypeOK
<1>. QED  BY <1>1, BooksInitInv, BooksNextInv, PTL DEF Spec

-------------------------------------------------------------------------------
(***************************************************************************)
(* Telemetry, for any number of rows and any queue size: no row is forgotten, *)
(* and the queue with its writer thread implements ErrorLog under the mapping *)
(* of Telemetry, whose backlog is the queue with the row in the writer's   *)
(* hands put before it.  The inductive invariant says of every row logged so *)
(* far that it has exactly one place: settled, with the writer, or at one  *)
(* position of the queue.                                                  *)
(***************************************************************************)

\* No row is on the queue twice, or there and with the writer.
Apart ==
  /\ \A i, j \in DOMAIN errorQueue : i # j => errorQueue[i] # errorQueue[j]
  /\ \A i \in DOMAIN errorQueue : errorQueue[i] # writer

\* What is on its way was logged and has no outcome; what has one was logged.
OnTheWay ==
  /\ Settled \subseteq logged
  /\ \A i \in DOMAIN errorQueue : errorQueue[i] \in logged \ Settled
  /\ writer \in ErrorRow => writer \in logged \ Settled

QueueInv == TelemetryTypeOK /\ Apart /\ OnTheWay /\ NoRowForgotten

LEMMA QueueInitInv == TelemetryInit => QueueInv
  BY TelemetryAssumption
     DEF TelemetryInit, QueueInv, TelemetryTypeOK, Apart, OnTheWay, NoRowForgotten, Settled

\* Appending a row.
LEMMA AppendFacts ==
  ASSUME NEW s \in Seq(ErrorRow), NEW r \in ErrorRow
  PROVE  /\ Append(s, r) \in Seq(ErrorRow)
         /\ Len(Append(s, r)) = Len(s) + 1
         /\ DOMAIN Append(s, r) = 1 .. Len(s) + 1
         /\ \A i \in DOMAIN s : i \in DOMAIN Append(s, r) /\ Append(s, r)[i] = s[i]
         /\ Append(s, r)[Len(s) + 1] = r
  OBVIOUS

\* Taking the head off.
LEMMA TailFacts ==
  ASSUME NEW s \in Seq(ErrorRow), s # <<>>
  PROVE  /\ Tail(s) \in Seq(ErrorRow)
         /\ Len(Tail(s)) = Len(s) - 1
         /\ Head(s) = s[1] /\ 1 \in DOMAIN s
         /\ \A i \in DOMAIN Tail(s) : i + 1 \in DOMAIN s /\ Tail(s)[i] = s[i + 1]
         /\ \A i \in DOMAIN s : i # 1 => i - 1 \in DOMAIN Tail(s) /\ Tail(s)[i - 1] = s[i]
  OBVIOUS

LEMMA LogErrorInv ==
  ASSUME QueueInv, NEW r \in ErrorRow, LogError(r)
  PROVE  QueueInv'
<1>. USE DEF QueueInv, TelemetryTypeOK
<1>1. CASE Len(errorQueue) < QueueMax
  <2>1. errorQueue' = Append(errorQueue, r) /\ refused' = refused
    BY <1>1 DEF LogError
  <2>2. TelemetryTypeOK'
    BY <1>1, <2>1, AppendFacts, TelemetryAssumption DEF LogError
  <2>3. Apart'
    BY <2>1, AppendFacts, TelemetryAssumption DEF LogError, Apart, OnTheWay
  <2>4. OnTheWay'
    BY <2>1, AppendFacts, TelemetryAssumption DEF LogError, OnTheWay, Settled
  <2>5. NoRowForgotten'
    BY <2>1, AppendFacts DEF LogError, NoRowForgotten, Settled, ToSet
  <2>. QED  BY <2>2, <2>3, <2>4, <2>5
<1>2. CASE ~(Len(errorQueue) < QueueMax)
  <2>1. errorQueue' = errorQueue /\ refused' = refused \cup {r}
    BY <1>2 DEF LogError
  <2>2. TelemetryTypeOK'
    BY <2>1 DEF LogError
  <2>3. Apart'
    BY <2>1, TelemetryAssumption DEF LogError, Apart
  <2>4. OnTheWay'
    BY <2>1, TelemetryAssumption DEF LogError, OnTheWay, Settled
  <2>5. NoRowForgotten'
    BY <2>1 DEF LogError, NoRowForgotten, Settled, ToSet
  <2>. QED  BY <2>2, <2>3, <2>4, <2>5
<1>. QED  BY <1>1, <1>2

LEMMA TakeRowInv ==
  ASSUME QueueInv, TakeRow
  PROVE  QueueInv'
<1>. USE DEF QueueInv, TelemetryTypeOK
<1>1. TelemetryTypeOK'
  BY TailFacts, TelemetryAssumption DEF TakeRow
<1>2. Apart'
  BY TailFacts, TelemetryAssumption DEF TakeRow, Apart
<1>3. OnTheWay'
  BY TailFacts DEF TakeRow, OnTheWay, Settled
<1>4. NoRowForgotten'
  <2> SUFFICES ASSUME NEW r \in logged', r \notin Settled'
               PROVE  writer' # "none" /\ (writer' = r \/ r \in ToSet(errorQueue)')
    BY DEF NoRowForgotten
  <2>1. r \in logged /\ r \notin Settled /\ writer = "idle" /\ errorQueue # <<>>
    BY DEF TakeRow, Settled
  <2>2. PICK i \in DOMAIN errorQueue : errorQueue[i] = r
    BY <2>1, TelemetryAssumption DEF NoRowForgotten, ToSet
  <2>3. writer' = errorQueue[1] /\ writer' \in ErrorRow /\ errorQueue' = Tail(errorQueue)
    BY <2>1, TailFacts DEF TakeRow
  <2>4. CASE i = 1
    BY <2>2, <2>3, <2>4, TelemetryAssumption
  <2>5. CASE i # 1
    <3>1. i - 1 \in DOMAIN errorQueue' /\ errorQueue'[i - 1] = r
      BY <2>1, <2>2, <2>3, <2>5, TailFacts
    <3>. QED  BY <2>3, <3>1, TelemetryAssumption DEF ToSet
  <2>. QED  BY <2>4, <2>5
<1>. QED  BY <1>1, <1>2, <1>3, <1>4

LEMMA WriteRowInv ==
  ASSUME QueueInv, WriteRow
  PROVE  QueueInv'
<1>. USE DEF QueueInv, TelemetryTypeOK
<1>1. TelemetryTypeOK'
  BY DEF WriteRow
<1>2. Apart'
  BY TelemetryAssumption DEF WriteRow, Apart
<1>3. OnTheWay'
  BY TelemetryAssumption DEF WriteRow, OnTheWay, Settled, Apart
<1>4. NoRowForgotten'
  BY DEF WriteRow, NoRowForgotten, Settled, ToSet
<1>. QED  BY <1>1, <1>2, <1>3, <1>4

LEMMA FlushInv ==
  ASSUME QueueInv, BeginFlush \/ EndFlush \/ UNCHANGED telemetryVars
  PROVE  QueueInv'
  BY DEF QueueInv, TelemetryTypeOK, Apart, OnTheWay, NoRowForgotten, Settled, ToSet,
         BeginFlush, EndFlush, telemetryVars, queueVars

LEMMA QueueNextInv == QueueInv /\ [TelemetryNext]_telemetryVars => QueueInv'
  BY LogErrorInv, TakeRowInv, WriteRowInv, FlushInv DEF TelemetryNext

THEOREM QueueInvHolds == TelemetrySpec => []QueueInv
  BY QueueInitInv, QueueNextInv, PTL DEF TelemetrySpec

\* The variables keep their types, and the queue its bound, whatever calls of
\* log_processing_error, writes and flushes interleave.
THEOREM QueueTypeCorrect == TelemetrySpec => []TelemetryTypeOK
<1>1. QueueInv => TelemetryTypeOK
  BY DEF QueueInv
<1>. QED  BY <1>1, QueueInvHolds, PTL

\* A logged row without an outcome is on the queue or with a live writer
\* (_error_writer_loop, "Survives individual failures").
THEOREM NothingForgotten == TelemetrySpec => []NoRowForgotten
<1>1. QueueInv => NoRowForgotten
  BY DEF QueueInv
<1>. QED  BY <1>1, QueueInvHolds, PTL

-------------------------------------------------------------------------------
(* The refinement *)

\* The backlog has the rows of the queue and the writer's, in that order.
LEMMA BacklogFacts ==
  ASSUME QueueInv
  PROVE  /\ Backlog \in Seq(ErrorRow)
         /\ writer \in ErrorRow =>
              /\ Len(Backlog) = Len(errorQueue) + 1
              /\ Backlog # <<>> /\ Head(Backlog) = writer /\ Tail(Backlog) = errorQueue
              /\ AsLog!Pending = {writer} \cup ToSet(errorQueue)
         /\ writer \notin ErrorRow =>
              Backlog = errorQueue /\ AsLog!Pending = ToSet(errorQueue)
<1>. USE DEF QueueInv, TelemetryTypeOK
<1>1. CASE writer \in ErrorRow
  <2>1. Backlog = <<writer>> \o errorQueue
    BY <1>1 DEF Backlog
  <2>2. /\ Backlog \in Seq(ErrorRow) /\ Len(Backlog) = Len(errorQueue) + 1
        /\ Backlog # <<>> /\ Head(Backlog) = writer
        /\ Backlog[1] = writer /\ \A i \in DOMAIN errorQueue : Backlog[i + 1] = errorQueue[i]
        /\ DOMAIN Backlog = 1 .. Len(errorQueue) + 1
    BY <1>1, <2>1
  <2>3. Tail(Backlog) = errorQueue
    BY <2>2, SeqEqual, TailFacts
  <2>4. AsLog!Pending = {writer} \cup ToSet(errorQueue)
    <3>1. ASSUME NEW i \in DOMAIN Backlog PROVE Backlog[i] \in {writer} \cup ToSet(errorQueue)
      <4>1. CASE i = 1
        BY <2>2, <4>1
      <4>2. CASE i # 1
        <5>1. i - 1 \in DOMAIN errorQueue /\ Backlog[(i - 1) + 1] = errorQueue[i - 1]
              /\ (i - 1) + 1 = i
          BY <2>2, <4>2
        <5>. QED  BY <5>1 DEF ToSet
      <4>. QED  BY <4>1, <4>2
    <3>2. ASSUME NEW i \in DOMAIN errorQueue PROVE errorQueue[i] \in AsLog!Pending
      BY <2>2 DEF AsLog!Pending
    <3>3. writer \in AsLog!Pending
      BY <2>2 DEF AsLog!Pending
    <3>. QED  BY <3>1, <3>2, <3>3 DEF AsLog!Pending, ToSet
  <2>. QED  BY <1>1, <2>2, <2>3, <2>4
<1>2. CASE writer \notin ErrorRow
  BY <1>2 DEF Backlog, AsLog!Pending, ToSet
<1>. QED  BY <1>1, <1>2

\* What the log has seen is what log_processing_error was called with.
LEMMA SeenIsLogged ==
  ASSUME QueueInv
  PROVE  AsLog!Seen = logged
<1>1. \A r \in ErrorRow : Outcome[r] # "none" <=> r \in Settled
  BY DEF Outcome, Settled
<1>2. AsLog!Seen = Settled \cup AsLog!Pending
  BY <1>1 DEF AsLog!Seen, QueueInv, TelemetryTypeOK, Settled
<1>3. AsLog!Pending \subseteq logged
  BY BacklogFacts DEF QueueInv, OnTheWay, ToSet
<1>4. logged \ Settled \subseteq AsLog!Pending
  BY BacklogFacts DEF QueueInv, TelemetryTypeOK, NoRowForgotten
<1>. QED  BY <1>2, <1>3, <1>4 DEF QueueInv, OnTheWay

LEMMA InitMaps == TelemetryInit => AsLog!Init
  BY TelemetryAssumption DEF TelemetryInit, AsLog!Init, Backlog, Outcome

LEMMA LogErrorMaps ==
  ASSUME QueueInv, NEW r \in ErrorRow, LogError(r)
  PROVE  AsLog!Log(r)
<1>. USE DEF QueueInv, TelemetryTypeOK
<1>1. r \notin AsLog!Seen
  BY SeenIsLogged DEF LogError
<1>2. UNCHANGED <<flushing, asked>>
  BY DEF LogError
<1>3. CASE Len(errorQueue) < QueueMax
  <2>1. Backlog' = Append(Backlog, r)
    <3>1. CASE writer \in ErrorRow
      <4>1. Backlog = <<writer>> \o errorQueue
            /\ Backlog' = <<writer>> \o Append(errorQueue, r)
        BY <1>3, <3>1, TelemetryAssumption DEF LogError, Backlog
      <4>. QED  BY <3>1, <4>1
    <3>2. CASE writer \notin ErrorRow
      BY <1>3, <3>2, TelemetryAssumption DEF LogError, Backlog
    <3>. QED  BY <3>1, <3>2
  <2>2. Outcome' = Outcome
    BY <1>3 DEF LogError, Outcome
  <2>. QED  BY <1>1, <1>2, <2>1, <2>2 DEF AsLog!Log
<1>4. CASE ~(Len(errorQueue) < QueueMax)
  <2>1. Backlog' = Backlog
    BY <1>4, TelemetryAssumption DEF LogError, Backlog
  <2>2. Len(Backlog) >= QueueMax
    BY <1>4, BacklogFacts, TelemetryAssumption
  <2>3. r \notin Settled
    BY DEF LogError, OnTheWay
  <2>4. Outcome' = [Outcome EXCEPT ![r] = "lost"]
    BY <1>4, <2>3 DEF LogError, Outcome, Settled
  <2>. QED  BY <1>1, <1>2, <2>1, <2>2, <2>4 DEF AsLog!Log
<1>. QED  BY <1>3, <1>4

\* Taking a row off the queue does not show: it stays in the backlog.
LEMMA TakeRowMaps ==
  ASSUME QueueInv, TakeRow
  PROVE  UNCHANGED <<Backlog, Outcome, flushing, asked>>
<1>. USE DEF QueueInv, TelemetryTypeOK
<1>1. errorQueue # <<>> /\ writer' = Head(errorQueue) /\ errorQueue' = Tail(errorQueue)
      /\ writer' \in ErrorRow
  BY TailFacts DEF TakeRow
<1>2. Backlog = errorQueue
  BY TelemetryAssumption DEF TakeRow, Backlog
<1>3. Backlog' = <<Head(errorQueue)>> \o Tail(errorQueue)
  BY <1>1 DEF Backlog
<1>4. <<Head(errorQueue)>> \o Tail(errorQueue) = errorQueue
  BY <1>1
<1>. QED  BY <1>2, <1>3, <1>4 DEF TakeRow, Outcome

LEMMA WriteRowMaps ==
  ASSUME QueueInv, WriteRow
  PROVE  AsLog!Settle
<1>. USE DEF QueueInv, TelemetryTypeOK
<1>1. writer \in ErrorRow /\ writer \notin Settled
  BY DEF WriteRow, OnTheWay
<1>2. Backlog # <<>> /\ Head(Backlog) = writer /\ Tail(Backlog) = errorQueue
  BY <1>1, BacklogFacts
<1>3. Backlog' = errorQueue
  BY TelemetryAssumption DEF WriteRow, Backlog
<1>4. \E r \in {"kept", "lost"} : Outcome' = [Outcome EXCEPT ![writer] = r]
  <2>1. CASE written' = written \cup {writer} /\ unwritten' = unwritten
    <3>1. Outcome' = [Outcome EXCEPT ![writer] = "kept"]
      BY <1>1, <2>1 DEF WriteRow, Outcome, Settled
    <3>. QED  BY <3>1
  <2>2. CASE unwritten' = unwritten \cup {writer} /\ written' = written
    <3>1. Outcome' = [Outcome EXCEPT ![writer] = "lost"]
      BY <1>1, <2>2 DEF WriteRow, Outcome, Settled
    <3>. QED  BY <3>1
  <2>. QED  BY <2>1, <2>2 DEF WriteRow
<1>. QED  BY <1>2, <1>3, <1>4 DEF WriteRow, AsLog!Settle

LEMMA BeginFlushMaps ==
  ASSUME QueueInv, BeginFlush
  PROVE  AsLog!BeginFlush
  BY SeenIsLogged DEF BeginFlush, AsLog!BeginFlush, queueVars, Backlog, Outcome

\* An empty queue leaves the writer's row only.
LEMMA EndFlushMaps ==
  ASSUME QueueInv, EndFlush
  PROVE  AsLog!EndFlush
<1>1. UNCHANGED <<Backlog, Outcome, asked>>
  BY DEF EndFlush, queueVars, Backlog, Outcome
<1>2. ASSUME errorQueue = <<>> PROVE \A r, s \in asked \cap AsLog!Pending : r = s
  <2>1. ToSet(errorQueue) = {}
    BY <1>2 DEF ToSet
  <2>2. AsLog!Pending \subseteq {writer}
    BY <2>1, BacklogFacts
  <2>. QED  BY <2>2
<1>. QED  BY <1>1, <1>2 DEF EndFlush, AsLog!EndFlush

\* Every step of the queue and its writer is a step of the log or none.
LEMMA StepMaps ==
  QueueInv /\ [TelemetryNext]_telemetryVars => [AsLog!Next]_(AsLog!logVars)
<1> SUFFICES ASSUME QueueInv, [TelemetryNext]_telemetryVars
             PROVE  [AsLog!Next]_(AsLog!logVars)
  OBVIOUS
<1>1. ASSUME NEW r \in ErrorRow, LogError(r) PROVE AsLog!Next
  BY <1>1, LogErrorMaps DEF AsLog!Next
<1>2. CASE TakeRow
  BY <1>2, TakeRowMaps DEF AsLog!logVars
<1>3. CASE WriteRow
  BY <1>3, WriteRowMaps DEF AsLog!Next
<1>4. CASE BeginFlush
  BY <1>4, BeginFlushMaps DEF AsLog!Next
<1>5. CASE EndFlush
  BY <1>5, EndFlushMaps DEF AsLog!Next
<1>6. CASE UNCHANGED telemetryVars
  BY <1>6 DEF telemetryVars, queueVars, AsLog!logVars, Backlog, Outcome
<1>. QED  BY <1>1, <1>2, <1>3, <1>4, <1>5, <1>6 DEF TelemetryNext

\* The bounded queue, its writer thread and the flush are one lossy first-in
\* first-out log.
THEOREM TelemetryImplementsLog == TelemetrySpec => ImplementsErrorLog
  BY QueueInvHolds, InitMaps, StepMaps, PTL
     DEF TelemetrySpec, ImplementsErrorLog, AsLog!Spec

-------------------------------------------------------------------------------
(* Ralph: what is red at HEAD differs from the commit the loop began at.    *)

\* The first commit of a run is tested in every area; a later one in those
\* that differ already, so only an area it is the first to touch gets in red.
RedIsNew ==
  ~byAgent /\ head # origin => \A a \in Red(head) : head[a] # origin[a]

RalphInv == RalphTypeOK /\ RedIsNew

LEMMA NoDiffIsEmpty == DOMAIN NoDiff = {}
  BY DEF NoDiff

LEMMA RalphInitInv == RalphInit => RalphInv
<1> SUFFICES ASSUME RalphInit PROVE RalphInv
  OBVIOUS
<1>1. DOMAIN lastDiff = {}
  BY NoDiffIsEmpty DEF RalphInit
<1>2. RalphTypeOK
  <2>1. iteration \in 0 .. MaxIterations /\ loops \in 0 .. MaxLoops
    BY RalphAssumption DEF RalphInit
  <2>. QED  BY <1>1, <2>1 DEF RalphInit, RalphTypeOK
<1>3. RedIsNew
  BY DEF RalphInit, RedIsNew
<1>. QED  BY <1>2, <1>3 DEF RalphInv

\* What a commit that passed its feedback leaves red was not red before it,
\* and is not what it was at the start.
LEMMA CommitTested ==
  ASSUME RalphInv, ~byAgent, MayPass, NEW a \in Red(tree)
  PROVE  a \notin Red(head) /\ tree[a] # origin[a]
<1>1. a \in Area /\ a \in Watched /\ tree[a] \in Broken
  BY RalphAssumption DEF Red
<1>2. a \notin Ran
  BY DEF MayPass
<1>3. ChangedAreas # {} /\ a \notin ChangedAreas
  BY <1>1, <1>2 DEF Ran
<1>4. head # origin /\ head[a] = origin[a]
  BY <1>1, <1>3 DEF ChangedAreas, Differing
<1>5. a \notin Red(head)
  BY <1>4 DEF RalphInv, RedIsNew
<1>6. tree[a] # head[a]
  BY <1>1, <1>5 DEF Red
<1>. QED  BY <1>4, <1>5, <1>6

LEMMA RalphNextInv == RalphInv /\ [RalphNext]_ralphVars => RalphInv'
<1> SUFFICES ASSUME RalphInv, [RalphNext]_ralphVars PROVE RalphInv'
  OBVIOUS
<1>. USE RalphAssumption DEF RalphInv, RalphTypeOK, RedIsNew, Red, repoVars, runVars, Returns
<1>1. CASE BeginLoop
  BY <1>1 DEF BeginLoop
<1>2. CASE Describe
  <2>1. DOMAIN lastDiff' = {}
    BY <1>2, NoDiffIsEmpty DEF Describe
  <2>2. RedIsNew'
    BY <1>2 DEF Describe
  <2>3. iteration' \in 0 .. MaxIterations /\ loops' \in 0 .. MaxLoops
    BY <1>2 DEF Describe
  <2>4. RalphTypeOK'
    BY <1>2, <2>1, <2>3 DEF Describe
  <2>. QED  BY <2>2, <2>4
<1>3. CASE DescribeFails
  BY <1>3 DEF DescribeFails
<1>4. CASE AgentEdits
  BY <1>4 DEF AgentEdits, AgentReturns
<1>5. CASE AgentCommits
  BY <1>5 DEF AgentCommits, AgentReturns
<1>6. CASE RemoteAgent
  BY <1>6 DEF RemoteAgent, AgentReturns
<1>7. CASE NoAgent
  BY <1>7 DEF NoAgent, AgentReturns
<1>8. CASE AgentRaises
  BY <1>8 DEF AgentRaises
<1>9. CASE Commit
  <2>1. RedIsNew'
    BY <1>9, CommitTested DEF Commit
  <2>2. DOMAIN Diff(head, tree) \subseteq Area
    BY DEF Diff, Differing
  <2>3. \A a \in DOMAIN Diff(head, tree) : Diff(head, tree)[a] \in Version \X Version
    BY DEF Diff, Differing, Content
  <2>4. RalphTypeOK'
    BY <1>9, <2>2, <2>3 DEF Commit
  <2>. QED  BY <2>1, <2>4
<1>10. CASE NoCommit
  BY <1>10 DEF NoCommit
<1>11. CASE Verified
  BY <1>11 DEF Verified
<1>12. CASE NextIteration
  BY <1>12 DEF NextIteration
<1>13. CASE LastIteration
  BY <1>13 DEF LastIteration
<1>14. CASE NoPullRequest
  BY <1>14 DEF NoPullRequest
<1>15. CASE PullRequest
  BY <1>15 DEF PullRequest
<1>16. CASE LoopDies
  BY <1>16 DEF LoopDies
<1>17. CASE UNCHANGED ralphVars
  BY <1>17 DEF ralphVars
<1>. QED
  BY <1>1, <1>2, <1>3, <1>4, <1>5, <1>6, <1>7, <1>8, <1>9, <1>10, <1>11, <1>12,
     <1>13, <1>14, <1>15, <1>16, <1>17 DEF RalphNext

\* Only a commit of the loop or of the agent moves HEAD, and one of the loop
\* leaves nothing red that was red before it.
LEMMA RalphStepFixes ==
  RalphInv /\ [RalphNext]_ralphVars =>
    [head' # head /\ ~byAgent' => Red(head) \cap Red(head') = {}]_ralphVars
<1> SUFFICES ASSUME RalphInv, RalphNext, head' # head, ~byAgent'
             PROVE  Red(head) \cap Red(head') = {}
  BY DEF ralphVars, repoVars
<1>1. Commit
  BY DEF RalphNext, BeginLoop, Describe, DescribeFails, AgentEdits, AgentCommits,
         RemoteAgent, NoAgent, AgentRaises, NoCommit, Verified, NextIteration,
         LastIteration, NoPullRequest, PullRequest, LoopDies, repoVars
<1>2. head' = tree /\ MayPass /\ ~byAgent
  BY <1>1 DEF Commit
<1>. QED  BY <1>2, CommitTested

\* For any areas, versions and agents: while the agent leaves HEAD to the
\* loop, an area that is red at HEAD is green after the next commit.
THEOREM CommitsFix == RalphSpec => RedIsFixedNext
<1>. QED  BY RalphInitInv, RalphNextInv, RalphStepFixes, PTL DEF RalphSpec, RedIsFixedNext

-------------------------------------------------------------------------------
(***************************************************************************)
(* MCParts: the parts side by side.  What is proved of a part is proved of *)
(* the run that checks it.                                                 *)
(***************************************************************************)

PartVars ==
  <<part, vars, pdfVars, pageVars, telemetryVars, retrievalVars, promptVars,
    bookVars, askVars, accessVars, streamVars, imageVars, uploadVars, answeringVars,
    ocrVars, fileVars, ralphVars>>

\* Each part takes a step of its own or rests.
LEMMA PartSteps ==
  [PartsNext]_PartVars =>
    /\ [Next]_vars
    /\ [PdfNext]_pdfVars
    /\ [PageNext]_pageVars
    /\ [TelemetryNext]_telemetryVars
    /\ [RetrievalNext]_retrievalVars
    /\ [PromptNext]_promptVars
    /\ [BookNext]_bookVars
    /\ [AskNext]_askVars
    /\ [AccessNext]_accessVars
    /\ [StreamNext]_streamVars
    /\ [ImageNext]_imageVars
    /\ [UploadNext]_uploadVars
    /\ [AnsweringNext]_answeringVars
    /\ [OcrNext]_ocrVars
    /\ [FileNext]_fileVars
    /\ [RalphNext]_ralphVars
<1>. DEFINE Each ==
  /\ [Next]_vars
  /\ [PdfNext]_pdfVars
  /\ [PageNext]_pageVars
  /\ [TelemetryNext]_telemetryVars
  /\ [RetrievalNext]_retrievalVars
  /\ [PromptNext]_promptVars
  /\ [BookNext]_bookVars
  /\ [AskNext]_askVars
  /\ [AccessNext]_accessVars
  /\ [StreamNext]_streamVars
  /\ [ImageNext]_imageVars
  /\ [UploadNext]_uploadVars
  /\ [AnsweringNext]_answeringVars
  /\ [OcrNext]_ocrVars
  /\ [FileNext]_fileVars
  /\ [RalphNext]_ralphVars
<1>. SUFFICES ASSUME [PartsNext]_PartVars PROVE Each
  OBVIOUS
<1>1. CASE part = "cpu" /\ Next /\ Rest("cpu")
  BY <1>1 DEF Rest, Still
<1>2. CASE part = "pdf" /\ PdfNext /\ Rest("pdf")
  BY <1>2 DEF Rest, Still
<1>3. CASE part = "page" /\ PageNext /\ Rest("page")
  BY <1>3 DEF Rest, Still
<1>4. CASE part = "telemetry" /\ TelemetryNext /\ Rest("telemetry")
  BY <1>4 DEF Rest, Still
<1>5. CASE part = "retrieval" /\ RetrievalNext /\ Rest("retrieval")
  BY <1>5 DEF Rest, Still
<1>6. CASE part = "prompt" /\ PromptNext /\ Rest("prompt")
  BY <1>6 DEF Rest, Still
<1>7. CASE part = "book" /\ BookNext /\ Rest("book")
  BY <1>7 DEF Rest, Still
<1>8. CASE part = "ask" /\ AskNext /\ Rest("ask")
  BY <1>8 DEF Rest, Still
<1>9. CASE part = "access" /\ AccessNext /\ Rest("access")
  BY <1>9 DEF Rest, Still
<1>10. CASE part = "stream" /\ StreamNext /\ Rest("stream")
  BY <1>10 DEF Rest, Still
<1>11. CASE part = "image" /\ ImageNext /\ Rest("image")
  BY <1>11 DEF Rest, Still
<1>12. CASE part = "uploads" /\ UploadNext /\ Rest("uploads")
  BY <1>12 DEF Rest, Still
<1>13. CASE part = "answering" /\ AnsweringNext /\ Rest("answering")
  BY <1>13 DEF Rest, Still
<1>14. CASE part = "ocr" /\ OcrNext /\ Rest("ocr")
  BY <1>14 DEF Rest, Still
<1>15. CASE part = "file" /\ FileNext /\ Rest("file")
  BY <1>15 DEF Rest, Still
<1>16. CASE part = "ralph" /\ RalphNext /\ Rest("ralph")
  BY <1>16 DEF Rest, Still
<1>17. CASE UNCHANGED PartVars
  BY <1>17 DEF PartVars
<1>. HIDE DEF Each
<1>. QED  BY <1>1, <1>2, <1>3, <1>4, <1>5, <1>6, <1>7, <1>8, <1>9, <1>10, <1>11,
             <1>12, <1>13, <1>14, <1>15, <1>16, <1>17 DEF PartsNext

\* The run of MCParts, whichever part it picks: each part behaves as it does
\* alone, from an initial state of its own, so that what is proved of a part
\* holds of the run.
THEOREM PartsAreTheirParts ==
  PartsSpec =>
    /\ Spec
    /\ PdfSpec
    /\ PageSpec
    /\ TelemetrySpec
    /\ RetrievalSpec
    /\ PromptSpec
    /\ BookSpec
    /\ AskSpec
    /\ AccessSpec
    /\ StreamSpec
    /\ ImageSpec
    /\ UploadSpec
    /\ AnsweringSpec
    /\ OcrSpec
    /\ FileSpec
    /\ RalphSpec
<1>1. PartsInit =>
        /\ Init
        /\ PdfInit
        /\ PageInit
        /\ TelemetryInit
        /\ RetrievalInit
        /\ PromptInit
        /\ BookInit
        /\ AskInit
        /\ AccessInit
        /\ StreamInit
        /\ ImageInit
        /\ UploadInit
        /\ AnsweringInit
        /\ OcrInit
        /\ FileInit
        /\ RalphInit
  BY DEF PartsInit
<1>2. PartsSpec => PartsInit /\ [][PartsNext]_PartVars
  BY DEF PartsSpec, PartVars
<1>. QED  BY <1>1, <1>2, PartSteps, PTL DEF Spec, PdfSpec, PageSpec, TelemetrySpec,
  RetrievalSpec, PromptSpec, BookSpec, AskSpec, AccessSpec, StreamSpec, ImageSpec,
  UploadSpec, AnsweringSpec, OcrSpec, FileSpec, RalphSpec

\* Every part keeps the types of its variables, for any constants.
THEOREM PartsTypes == PartsSpec => []PartsTypeOK
<1>1. PdfSpec => []PdfTypeOK
  <2>1. PdfInv => PdfTypeOK
    BY DEF PdfInv
  <2>. QED  BY <2>1, PdfInitInv, PdfNextInv, PTL DEF PdfSpec
<1>2. PageSpec => []PageTypeOK
  <2>1. PageInv => PageTypeOK
    BY DEF PageInv
  <2>. QED  BY <2>1, PageInitInv, PageNextInv, PTL DEF PageSpec
<1>3. OcrSpec => []OcrTypeOK
  <2>1. OcrInv => OcrTypeOK
    BY DEF OcrInv
  <2>. QED  BY <2>1, OcrInitInv, OcrNextInv, PTL DEF OcrSpec
<1>4. FileSpec => []FileTypeOK
  <2>1. FileInv => FileTypeOK
    BY DEF FileInv
  <2>. QED  BY <2>1, FileInitInv, FileNextInv, PTL DEF FileSpec
<1>5. AccessSpec => []AccessTypeOK
  <2>1. AccessInv => AccessTypeOK
    BY DEF AccessInv
  <2>. QED  BY <2>1, AccessInitInv, AccessNextInv, PTL DEF AccessSpec
<1>6. StreamSpec => []StreamTypeOK
  <2>1. StreamInv => StreamTypeOK
    BY DEF StreamInv
  <2>. QED  BY <2>1, StreamInitInv, StreamNextInv, PTL DEF StreamSpec
<1>7. ImageSpec => []ImageTypeOK
  <2>1. ImageInv => ImageTypeOK
    BY DEF ImageInv
  <2>. QED  BY <2>1, ImageInitInv, ImageNextInv, PTL DEF ImageSpec
<1>8. UploadSpec => []UploadTypeOK
  <2>1. UploadInv => UploadTypeOK
    BY DEF UploadInv
  <2>. QED  BY <2>1, UploadInitInv, UploadNextInv, PTL DEF UploadSpec
<1>9. RalphSpec => []RalphTypeOK
  <2>1. RalphInv => RalphTypeOK
    BY DEF RalphInv
  <2>. QED  BY <2>1, RalphInitInv, RalphNextInv, PTL DEF RalphSpec
<1>10. TypeOK /\ PdfTypeOK /\ PageTypeOK /\ TelemetryTypeOK /\ RetrievalTypeOK /\ PromptTypeOK
         /\ BookTypeOK /\ AskTypeOK /\ AccessTypeOK /\ StreamTypeOK /\ ImageTypeOK
         /\ UploadTypeOK /\ AnsweringTypeOK /\ OcrTypeOK /\ FileTypeOK /\ RalphTypeOK
         => PartsTypeOK
  BY DEF PartsTypeOK
<1>. QED
  BY <1>1, <1>2, <1>3, <1>4, <1>5, <1>6, <1>7, <1>8, <1>9, <1>10, CountersInRange,
     QueueTypeCorrect, RetrievalTypes, PromptTypes, BookTypes, AskTypes, AnsweringTypes,
     PartsAreTheirParts, PTL

===============================================================================
