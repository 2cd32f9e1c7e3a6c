------------------------- MODULE IndexingWorkerProofs -------------------------
(***************************************************************************)
(* Proofs about IndexingWorker: its type invariant and its three safety    *)
(* invariants, for any number of workers, deliveries and faults.           *)
(***************************************************************************)
EXTENDS IndexingWorker, TLAPS

USE WorkerAssumption DEF Attempt

-------------------------------------------------------------------------------
(* Rows *)

\* Writing a row, or losing it, keeps what the attempt wrote before.
LEMMA RowWritten ==
  ASSUME TypeOK, NEW a \in Attempt, NEW row \in RowSet, EmitEventToDb(a, row)
  PROVE  /\ rows' \in [Attempt -> Seq(RowSet)]
         /\ dropped' \in [Attempt -> SUBSET RowSet]
         /\ faults' \in 0 .. MaxFaults
         /\ \A b \in Attempt : Written(b) \subseteq Written(b)'
         /\ row \in Written(a)'
  <1>1. CASE rows' = [rows EXCEPT ![a] = Append(@, row)] /\ UNCHANGED <<dropped, faults>>
    <2>1. \A b \in Attempt : b # a => rows'[b] = rows[b]
      BY <1>1 DEF TypeOK
    <2>2. rows'[a] = Append(rows[a], row) /\ rows[a] \in Seq(RowSet)
      BY <1>1 DEF TypeOK
    <2>3. ToSet(rows[a]) \subseteq ToSet(rows'[a]) /\ row \in ToSet(rows'[a])
      <3>1. \A i \in DOMAIN rows[a] : i \in DOMAIN rows'[a] /\ rows'[a][i] = rows[a][i]
        BY <2>2
      <3>2. Len(rows[a]) + 1 \in DOMAIN rows'[a] /\ rows'[a][Len(rows[a]) + 1] = row
        BY <2>2
      <3>. QED  BY <3>1, <3>2 DEF ToSet
    <2>. QED  BY <1>1, <2>1, <2>2, <2>3 DEF Written, TypeOK
  <1>2. CASE LoseRow(a, row)
    BY <1>2 DEF LoseRow, Fault, Written, TypeOK
  <1>. QED  BY <1>1, <1>2 DEF EmitEventToDb

LEMMA RowLost ==
  ASSUME TypeOK, NEW a \in Attempt, NEW row \in RowSet, LoseRow(a, row)
  PROVE  EmitEventToDb(a, row)
  BY DEF EmitEventToDb

\* A row keeps the order of welcome and complete unless it is a complete row
\* whose welcome was not written.
LEMMA RowKeepsOrder ==
  ASSUME TypeOK, NEW a \in Attempt, NEW row \in RowSet, EmitEventToDb(a, row),
         \A b \in Attempt : WelcomeFirst(rows[b], dropped[b]),
         \/ row.type # "complete"
         \/ row.text = "empty"
         \/ Welcomed(a, row.text)
  PROVE  \A b \in Attempt : WelcomeFirst(rows'[b], dropped'[b])
  <1>1. CASE rows' = [rows EXCEPT ![a] = Append(@, row)] /\ UNCHANGED <<dropped, faults>>
    <2>1. \A b \in Attempt : b # a => rows'[b] = rows[b] /\ dropped'[b] = dropped[b]
      BY <1>1 DEF TypeOK
    <2>2. rows'[a] = Append(rows[a], row) /\ rows[a] \in Seq(RowSet) /\ dropped'[a] = dropped[a]
      BY <1>1 DEF TypeOK
    <2>3. WelcomeFirst(rows'[a], dropped'[a])
      <3>. SUFFICES ASSUME NEW i \in DOMAIN rows'[a], rows'[a][i].type = "complete",
                           rows'[a][i].text # "empty",
                           Row("welcome_message", rows'[a][i].text) \notin dropped'[a]
                    PROVE  \E j \in 1 .. i - 1 :
                             rows'[a][j] = Row("welcome_message", rows'[a][i].text)
        BY DEF WelcomeFirst
      <3>. DEFINE s == rows[a]
                  w == Row("welcome_message", rows'[a][i].text)
      <3>0. DOMAIN s = 1 .. Len(s) /\ Len(s) \in Nat /\ i \in 1 .. Len(s) + 1
        BY <2>2
      <3>1. \A j \in 1 .. Len(s) : rows'[a][j] = s[j]
        BY <2>2
      <3>2. CASE i \in 1 .. Len(s)
        <4>1. s[i].type = "complete" /\ s[i].text # "empty"
              /\ Row("welcome_message", s[i].text) \notin dropped[a]
          BY <3>1, <3>2, <2>2
        <4>2. \E j \in 1 .. i - 1 : s[j] = Row("welcome_message", s[i].text)
          BY <4>1, <3>0, <3>2 DEF WelcomeFirst
        <4>. QED  BY <4>2, <3>0, <3>1, <3>2
      <3>3. CASE i = Len(s) + 1
        <4>1. rows'[a][i] = row
          BY <3>3, <2>2
        <4>2. w \in ToSet(s)
          BY <4>1, <2>2 DEF Welcomed, Written
        <4>3. \E j \in DOMAIN s : s[j] = w
          BY <4>2 DEF ToSet
        <4>. QED  BY <4>3, <3>0, <3>1, <3>3
      <3>. QED  BY <3>0, <3>2, <3>3
    <2>. QED  BY <2>1, <2>3
  <1>2. CASE LoseRow(a, row)
    <2>1. \A b \in Attempt : rows'[b] = rows[b] /\ dropped[b] \subseteq dropped'[b]
      BY <1>2 DEF LoseRow, TypeOK
    <2>. QED  BY <2>1 DEF WelcomeFirst
  <1>. QED  BY <1>1, <1>2 DEF EmitEventToDb

-------------------------------------------------------------------------------
(* Types *)

LEMMA TypeInit == Init => TypeOK
  <1>. SUFFICES ASSUME Init PROVE TypeOK
    OBVIOUS
  <1>1. 0 \in 0 .. MaxDeliveries /\ 0 \in 0 .. MaxFaults
    OBVIOUS
  <1>2. rows \in [Attempt -> Seq(RowSet)] /\ dropped \in [Attempt -> SUBSET RowSet]
    BY DEF Init
  <1>3. /\ pdf \in HasPdf
        /\ chunks \in BOOLEAN
        /\ cleared \in SUBSET Attempt
        /\ welcomed \in [Attempt -> BOOLEAN]
        /\ host \in [Attempt -> Worker \cup {Nobody}]
    BY DEF Init
  <1>. QED  BY <1>1, <1>2, <1>3 DEF Init, TypeOK, JobOver, Label

LEMMA TypeCallback ==
  ASSUME TypeOK, NEW a \in Attempt, CallbackStep(a)
  PROVE  TypeOK'
  <1>. USE DEF TypeOK, attemptVars, jobVars, storeVars, JobOver
  <1>1. CASE FilesResolved(a)
    BY <1>1 DEF FilesResolved, GotoJob, GotoCb
  <1>2. CASE FilesMissing(a)
    BY <1>2 DEF FilesMissing, GotoCb
  <1>3. CASE JobDone(a)
    BY <1>3 DEF JobDone, GotoCb
  <1>4. CASE JobTimesOut(a)
    BY <1>4 DEF JobTimesOut, GotoCb
  <1>5. CASE Ack(a)
    BY <1>5 DEF Ack, GotoCb
  <1>6. CASE Nack(a)
    BY <1>6 DEF Nack, GotoCb
  <1>7. Row("error", "none") \in RowSet
    BY DEF Row, RowSet, RowType, Label
  <1>8. CASE Verdict(a)
    BY <1>7, <1>8, RowWritten DEF Verdict, GotoCb
  <1>9. CASE VerdictRaises(a)
    BY <1>7, <1>9, RowWritten, RowLost DEF VerdictRaises, GotoCb
  <1>. QED  BY <1>1, <1>2, <1>3, <1>4, <1>5, <1>6, <1>7, <1>8, <1>9 DEF CallbackStep

\* Every row the job's threads write is typed.
LEMMA JobRows ==
  ASSUME TypeOK, NEW a \in Attempt
  PROVE  /\ Row("welcome_message", result[a]) \in RowSet
         /\ Row("welcome_message", "text") \in RowSet
         /\ Row("welcome_message", "regenerated") \in RowSet
         /\ Row("wiki_message", "none") \in RowSet
         /\ Row("complete", result[a]) \in RowSet
  BY DEF TypeOK, Row, RowSet, RowType, Label

LEMMA TypeJob ==
  ASSUME TypeOK, NEW a \in Attempt, JobStep(a)
  PROVE  TypeOK'
  <1>. USE DEF TypeOK, attemptVars, jobVars, storeVars, JobOver
  <1>1. CASE Start(a)
    BY <1>1 DEF Start, GotoJob
  <1>2. CASE StreamPage(a)
    BY <1>2 DEF StreamPage
  <1>3. CASE Extract(a)
    BY <1>3 DEF Extract, GotoJob
  <1>4. CASE Pass(a)
    BY <1>4 DEF Pass, GotoJob
  <1>5. CASE CheckWelcome(a)
    BY <1>5 DEF CheckWelcome, GotoJob
  <1>6. CASE JoinUpsert(a)
    BY <1>6 DEF JoinUpsert, GotoJob
  <1>7. CASE JobRaises(a)
    BY <1>7 DEF JobRaises, GotoJob
  <1>8. CASE Describe(a)
    BY <1>8 DEF Describe, GotoJob, Label
  <1>9. CASE EarlyCheck(a)
    BY <1>9 DEF EarlyCheck, GotoEarly
  <1>10. CASE EarlyEnds(a)
    BY <1>10 DEF EarlyEnds, GotoEarly
  <1>11. CASE UpsertEnds(a)
    <2>1. chunks' \in BOOLEAN
      <3>1. chunks \in BOOLEAN /\ chunks' \in {chunks, TRUE}
        BY <1>11 DEF UpsertEnds
      <3>. QED  BY <3>1
    <2>2. upsert' \in [Attempt -> {"none", "running", "over", "failed"}]
      BY <1>11 DEF UpsertEnds
    <2>. QED  BY <1>11, <2>1, <2>2 DEF UpsertEnds
  <1>12. CASE Reject(a)
    <2>1. chunks' \in BOOLEAN /\ faults' \in 0 .. MaxFaults
      <3>1. (chunks' = FALSE /\ faults' = faults) \/ (Fault /\ chunks' = chunks)
        BY <1>12 DEF Reject
      <3>2. CASE chunks' = FALSE /\ faults' = faults
        BY <3>2
      <3>3. CASE Fault /\ chunks' = chunks
        BY <3>3 DEF Fault
      <3>. QED  BY <3>1, <3>2, <3>3
    <2>2. cleared' \in SUBSET Attempt
      BY <1>12 DEF Reject
    <2>3. job' \in [Attempt -> JobOver \cup
                {"none", "start", "extract", "moderate", "describe", "check",
                 "emit", "join", "regen", "wiki", "complete", "succeeding",
                 "rejecting", "failing"}]
      BY <1>12 DEF Reject, GotoJob
    <2>. QED  BY <1>12, <2>1, <2>2, <2>3 DEF Reject
  <1>13. CASE Release(a)
    <2>1. faults' \in 0 .. MaxFaults
      BY <1>13 DEF Release, Fault
    <2>2. \E end \in JobOver : job' = [job EXCEPT ![a] = end]
      BY <1>13 DEF Release, GotoJob
    <2>3. early' \in [Attempt -> {"none", "running", "check", "emit", "empty", "failed",
                            "over"}]
      BY <1>13 DEF Release
    <2>4. upsert' \in [Attempt -> {"none", "running", "over", "failed"}]
          /\ result' \in [Attempt -> Label]
      BY <1>13 DEF Release, Label
    <2>. QED  BY <1>13, <2>1, <2>2, <2>3, <2>4 DEF Release
  <1>. DEFINE RowTypes == /\ rows' \in [Attempt -> Seq(RowSet)]
                          /\ dropped' \in [Attempt -> SUBSET RowSet]
                          /\ faults' \in 0 .. MaxFaults
  <1>14. CASE EmitWelcome(a)
    <2>1. EmitEventToDb(a, Row("welcome_message", result[a]))
      BY <1>14, JobRows, RowLost DEF EmitWelcome
    <2>2. RowTypes
      BY <2>1, JobRows, RowWritten
    <2>. QED  BY <1>14, <2>2 DEF EmitWelcome, GotoJob
  <1>15. CASE Regenerate(a)
    <2>1. EmitEventToDb(a, Row("welcome_message", "regenerated")) \/ UNCHANGED <<rows, dropped, faults>>
      BY <1>15, JobRows, RowLost DEF Regenerate
    <2>2. RowTypes
      BY <2>1, JobRows, RowWritten
    <2>. QED  BY <1>15, <2>2 DEF Regenerate, GotoJob, Label
  <1>16. CASE Wiki(a)
    <2>1. EmitEventToDb(a, Row("wiki_message", "none")) \/ UNCHANGED <<rows, dropped, faults>>
      BY <1>16, JobRows, RowLost DEF Wiki
    <2>2. RowTypes
      BY <2>1, JobRows, RowWritten
    <2>. QED  BY <1>16, <2>2 DEF Wiki, GotoJob
  <1>17. CASE Complete(a)
    <2>1. EmitEventToDb(a, Row("complete", result[a]))
      BY <1>17, JobRows, RowLost DEF Complete
    <2>2. RowTypes
      BY <2>1, JobRows, RowWritten
    <2>. QED  BY <1>17, <2>2 DEF Complete, GotoJob
  <1>18. CASE EarlyEmit(a)
    <2>1. EmitEventToDb(a, Row("welcome_message", "text"))
      BY <1>18, JobRows, RowLost DEF EarlyEmit
    <2>2. RowTypes
      BY <2>1, JobRows, RowWritten
    <2>. QED  BY <1>18, <2>2 DEF EarlyEmit, GotoEarly
  <1>. QED  BY <1>1, <1>2, <1>3, <1>4, <1>5, <1>6, <1>7, <1>8, <1>9, <1>10, <1>11, <1>12, <1>13, <1>14, <1>15, <1>16, <1>17, <1>18 DEF JobStep

LEMMA TypeNext == TypeOK /\ [Next]_vars => TypeOK'
  <1>. SUFFICES ASSUME TypeOK, [Next]_vars PROVE TypeOK'
    OBVIOUS
  <1>1. ASSUME NEW w \in Worker, NEW a \in Attempt, Deliver(w, a) PROVE TypeOK'
    BY <1>1 DEF Deliver, GotoCb, Fault, TypeOK, jobVars, storeVars
  <1>2. ASSUME NEW w \in Worker, Crash(w) PROVE TypeOK'
    BY <1>2 DEF Crash, Fault, TypeOK, storeVars, JobOver, Label
  <1>3. CASE DeadLetter
    BY <1>3 DEF DeadLetter, TypeOK, jobVars, storeVars
  <1>4. CASE UNCHANGED vars
    BY <1>4 DEF vars, TypeOK, attemptVars, jobVars, storeVars
  <1>. QED  BY <1>1, <1>2, <1>3, <1>4, TypeCallback, TypeJob DEF Next

\* The variables of the worker keep their types, whatever the number of
\* workers, deliveries and faults.
THEOREM TypeCorrect == Spec => []TypeOK
  BY TypeInit, TypeNext, PTL DEF Spec

-------------------------------------------------------------------------------
(* Rows are only added *)

\* What a step does to the rows: nothing, or one more of an attempt.
RowStep ==
  \/ UNCHANGED <<rows, dropped>>
  \/ \E a \in Attempt, row \in RowSet :
       /\ EmitEventToDb(a, row)
       /\ \/ row.type # "complete"
          \/ row.text = "empty"
          \/ Welcomed(a, row.text)

LEMMA Steps ==
  ASSUME IInv, [Next]_vars
  PROVE  RowStep
  <1>. USE DEF storeVars, RowStep
  <1>0. TypeOK
    BY DEF IInv
  <1>1. ASSUME NEW a \in Attempt, CallbackStep(a) PROVE RowStep
    <2>1. Row("error", "none") \in RowSet /\ Row("error", "none").type # "complete"
      BY DEF Row, RowSet, RowType, Label
    <2>2. CASE Verdict(a) \/ VerdictRaises(a)
      BY <2>1, <2>2, <1>0, RowLost DEF Verdict, VerdictRaises
    <2>3. CASE ~(Verdict(a) \/ VerdictRaises(a))
      BY <1>1, <2>3 DEF CallbackStep, FilesResolved, FilesMissing, JobDone, JobTimesOut, Ack, Nack
    <2>. QED  BY <2>2, <2>3
  <1>2. ASSUME NEW a \in Attempt, JobStep(a) PROVE RowStep
    <2>0. /\ Row("welcome_message", result[a]).type # "complete"
          /\ Row("welcome_message", "text").type # "complete"
          /\ Row("welcome_message", "regenerated").type # "complete"
          /\ Row("wiki_message", "none").type # "complete"
          /\ Row("complete", result[a]).text = result[a]
      BY DEF Row
    <2>1. CASE EmitWelcome(a) \/ EarlyEmit(a)
      BY <1>0, <2>0, <2>1, JobRows, RowLost DEF EmitWelcome, EarlyEmit
    <2>2. CASE Regenerate(a) \/ Wiki(a)
      BY <1>0, <2>0, <2>2, JobRows DEF Regenerate, Wiki
    <2>3. CASE Complete(a)
      <3>1. EmitEventToDb(a, Row("complete", result[a]))
        BY <1>0, <2>3, JobRows, RowLost DEF Complete
      <3>2. result[a] = "empty" \/ Welcomed(a, result[a])
        BY <2>3 DEF Complete, IInv, WelcomeInv
      <3>. QED  BY <1>0, <2>0, <3>1, <3>2, JobRows
    <2>4. CASE \/ Start(a) \/ StreamPage(a) \/ Extract(a) \/ Pass(a) \/ Reject(a)
               \/ Describe(a) \/ CheckWelcome(a)
      BY <2>4 DEF Start, StreamPage, Extract, Pass, Reject, Describe, CheckWelcome
    <2>5. CASE \/ UpsertEnds(a) \/ JoinUpsert(a) \/ JobRaises(a) \/ Release(a)
               \/ EarlyEnds(a) \/ EarlyCheck(a)
      BY <2>5 DEF UpsertEnds, JoinUpsert, JobRaises, Release, EarlyEnds, EarlyCheck
    <2>. QED  BY <1>2, <2>1, <2>2, <2>3, <2>4, <2>5 DEF JobStep
  <1>3. ASSUME NEW w \in Worker, NEW a \in Attempt, Deliver(w, a) PROVE RowStep
    BY <1>3 DEF Deliver
  <1>4. ASSUME NEW w \in Worker, Crash(w) PROVE RowStep
    BY <1>4 DEF Crash
  <1>5. CASE DeadLetter \/ UNCHANGED vars
    BY <1>5 DEF DeadLetter, vars
  <1>. QED  BY <1>1, <1>2, <1>3, <1>4, <1>5 DEF Next

\* Nothing that was written is taken back, and welcomes stay before complete.
LEMMA RowsGrow ==
  ASSUME IInv, [Next]_vars
  PROVE  /\ \A b \in Attempt : HasVerdict(b) => HasVerdict(b)'
         /\ \A b \in Attempt, t \in Label : Welcomed(b, t) => Welcomed(b, t)'
         /\ \A b \in Attempt : WelcomeFirst(rows[b], dropped[b])'
  <1>1. TypeOK /\ \A b \in Attempt : WelcomeFirst(rows[b], dropped[b])
    BY DEF IInv, WelcomeInv
  <1>2. CASE UNCHANGED <<rows, dropped>>
    BY <1>1, <1>2 DEF HasVerdict, Welcomed, Written, WelcomeFirst
  <1>3. CASE \E a \in Attempt, row \in RowSet :
                 /\ EmitEventToDb(a, row)
                 /\ \/ row.type # "complete"
                    \/ row.text = "empty"
                    \/ Welcomed(a, row.text)
    <2>1. \A b \in Attempt : Written(b) \subseteq Written(b)'
      BY <1>1, <1>3, RowWritten
    <2>2. \A b \in Attempt : WelcomeFirst(rows'[b], dropped'[b])
      BY <1>1, <1>3, RowKeepsOrder
    <2>. QED  BY <2>1, <2>2 DEF HasVerdict, Welcomed, Row, WelcomeFirst
  <1>. QED  BY <1>2, <1>3, Steps DEF RowStep


-------------------------------------------------------------------------------
(* Verdicts *)

LEMMA VerdictNext ==
  ASSUME IInv, [Next]_vars
  PROVE  VerdictInv'
  <1>0. /\ TypeOK /\ VerdictInv
        /\ \A b \in Attempt : HasVerdict(b) => HasVerdict(b)'
    BY RowsGrow DEF IInv
  <1>. USE <1>0 DEF VerdictInv, AckedHasVerdict
  <1>1. ASSUME NEW a \in Attempt, Verdict(a) \/ VerdictRaises(a) PROVE VerdictInv'
    <2>1. Row("error", "none") \in RowSet /\ Row("error", "none").type = "error"
      BY DEF Row, RowSet, RowType, Label
    <2>2. EmitEventToDb(a, Row("error", "none"))
      BY <1>1, <2>1, RowLost DEF Verdict, VerdictRaises
    <2>3. HasVerdict(a)'
      BY <2>1, <2>2, RowWritten DEF HasVerdict
    <2>4. /\ message' = message /\ job' = job
          /\ \A b \in Attempt : b # a => cb'[b] = cb[b]
      BY <1>1 DEF Verdict, VerdictRaises, GotoCb, jobVars, TypeOK
    <2>. QED  BY <2>3, <2>4
  <1>2. ASSUME NEW a \in Attempt, JobDone(a) PROVE VerdictInv'
    BY <1>2 DEF JobDone, GotoCb, jobVars, TypeOK
  <1>3. ASSUME NEW a \in Attempt, Ack(a) PROVE VerdictInv'
    BY <1>3 DEF Ack, GotoCb, jobVars, TypeOK
  <1>4. ASSUME NEW a \in Attempt, FilesMissing(a) \/ JobTimesOut(a) \/ Nack(a)
        PROVE  VerdictInv'
    BY <1>4 DEF FilesMissing, JobTimesOut, Nack, GotoCb, jobVars, TypeOK
  <1>5. ASSUME NEW a \in Attempt, FilesResolved(a) PROVE VerdictInv'
    BY <1>5 DEF FilesResolved, GotoCb, GotoJob, TypeOK
  <1>6. ASSUME NEW a \in Attempt, Complete(a) PROVE VerdictInv'
    <2>1. /\ Row("complete", result[a]) \in RowSet
          /\ Row("complete", result[a]).type = "complete"
      BY JobRows DEF Row
    <2>2. EmitEventToDb(a, Row("complete", result[a]))
      BY <1>6, <2>1, RowLost DEF Complete
    <2>3. HasVerdict(a)'
      BY <2>1, <2>2, RowWritten DEF HasVerdict
    <2>4. /\ message' = message /\ cb' = cb
          /\ \A b \in Attempt : b # a => job'[b] = job[b]
      BY <1>6 DEF Complete, GotoJob, attemptVars, TypeOK
    <2>. QED  BY <2>3, <2>4
  <1>7. ASSUME NEW a \in Attempt, Release(a) PROVE VerdictInv'
    BY <1>7 DEF Release, GotoJob, attemptVars, TypeOK
  <1>8. ASSUME NEW a \in Attempt,
               \/ Start(a) \/ Extract(a) \/ Pass(a) \/ Reject(a) \/ Describe(a)
               \/ CheckWelcome(a) \/ JoinUpsert(a) \/ JobRaises(a)
        PROVE  VerdictInv'
    BY <1>8 DEF Start, Extract, Pass, Reject, Describe, CheckWelcome, JoinUpsert,
                JobRaises, GotoJob, attemptVars, TypeOK
  <1>9. ASSUME NEW a \in Attempt, EmitWelcome(a) \/ Regenerate(a) \/ Wiki(a)
        PROVE  VerdictInv'
    BY <1>9 DEF EmitWelcome, Regenerate, Wiki, GotoJob, attemptVars, TypeOK
  <1>10. ASSUME NEW a \in Attempt,
                StreamPage(a) \/ UpsertEnds(a) \/ EarlyEnds(a) \/ EarlyCheck(a) \/ EarlyEmit(a)
         PROVE  VerdictInv'
    BY <1>10 DEF StreamPage, UpsertEnds, EarlyEnds, EarlyCheck, EarlyEmit,
                 attemptVars, jobVars
  <1>11. ASSUME NEW w \in Worker, NEW a \in Attempt, Deliver(w, a) PROVE VerdictInv'
    BY <1>11 DEF Deliver, GotoCb, jobVars, TypeOK
  <1>12. ASSUME NEW w \in Worker, Crash(w) PROVE VerdictInv'
    BY <1>12 DEF Crash
  <1>13. CASE DeadLetter \/ UNCHANGED vars
    BY <1>13 DEF DeadLetter, vars, attemptVars, jobVars
  <1>. QED  BY <1>1, <1>2, <1>3, <1>4, <1>5, <1>6, <1>7, <1>8, <1>9, <1>10, <1>11,
               <1>12, <1>13 DEF Next, CallbackStep, JobStep

-------------------------------------------------------------------------------
(* Welcomes *)

\* A step that leaves the flag, the place and the description of an attempt
\* alone keeps what is known of its welcome.
LEMMA WelcomeKept ==
  ASSUME IInv, [Next]_vars, NEW b \in Attempt,
         welcomed'[b] = welcomed[b], job'[b] = job[b], result'[b] = result[b]
  PROVE  WelcomeInv(b)'
  <1>1. WelcomeInv(b) /\ result[b] \in Label
    BY DEF IInv, TypeOK
  <1>2. /\ \A t \in Label : Welcomed(b, t) => Welcomed(b, t)'
        /\ WelcomeFirst(rows[b], dropped[b])'
    BY RowsGrow
  <1>3. "text" \in Label
    BY DEF Label
  <1>. QED  BY <1>1, <1>2, <1>3 DEF WelcomeInv

\* Nothing is claimed of the description in the other places.
LEMMA WelcomeLeft ==
  ASSUME IInv, [Next]_vars, NEW b \in Attempt, welcomed'[b] = welcomed[b],
         job'[b] \notin {"check", "emit", "join", "regen", "wiki", "complete"}
  PROVE  WelcomeInv(b)'
  <1>1. welcomed[b] => Welcomed(b, "text")
    BY DEF IInv, WelcomeInv
  <1>2. /\ Welcomed(b, "text") => Welcomed(b, "text")'
        /\ WelcomeFirst(rows[b], dropped[b])'
    BY RowsGrow DEF Label
  <1>. QED  BY <1>1, <1>2 DEF WelcomeInv

LEMMA WelcomeJob ==
  ASSUME IInv, [Next]_vars, NEW a \in Attempt, JobStep(a), NEW b \in Attempt
  PROVE  WelcomeInv(b)'
  <1>0. /\ TypeOK /\ WelcomeInv(a) /\ result[a] \in Label
        /\ \A t \in Label : Welcomed(a, t) => Welcomed(a, t)'
        /\ WelcomeFirst(rows[a], dropped[a])'
    BY RowsGrow DEF IInv, TypeOK
  <1>1. CASE b # a
    <2>1. welcomed'[b] = welcomed[b] /\ job'[b] = job[b] /\ result'[b] = result[b]
      <3>. USE <1>0, <1>1 DEF TypeOK, GotoJob, jobVars
      <3>1. CASE \/ Start(a) \/ StreamPage(a) \/ Extract(a) \/ Pass(a) \/ Reject(a)
                 \/ Describe(a) \/ CheckWelcome(a)
        BY <3>1 DEF Start, StreamPage, Extract, Pass, Reject, Describe, CheckWelcome
      <3>2. CASE EmitWelcome(a) \/ Regenerate(a) \/ Wiki(a) \/ Complete(a) \/ EarlyEmit(a)
        BY <3>2 DEF EmitWelcome, Regenerate, Wiki, Complete, EarlyEmit
      <3>3. CASE \/ UpsertEnds(a) \/ JoinUpsert(a) \/ JobRaises(a) \/ Release(a)
                 \/ EarlyEnds(a) \/ EarlyCheck(a)
        BY <3>3 DEF UpsertEnds, JoinUpsert, JobRaises, Release, EarlyEnds, EarlyCheck
      <3>. QED  BY <3>1, <3>2, <3>3 DEF JobStep
    <2>. QED  BY <2>1, WelcomeKept
  <1>2. CASE b = a
    <2>. USE <1>0, <1>2
    <2>1. CASE StreamPage(a) \/ UpsertEnds(a) \/ EarlyEnds(a) \/ EarlyCheck(a)
      BY <2>1, WelcomeKept DEF StreamPage, UpsertEnds, EarlyEnds, EarlyCheck, jobVars
    <2>2. CASE Start(a) \/ Extract(a) \/ Pass(a) \/ Reject(a)
      BY <2>2, WelcomeLeft DEF Start, Extract, Pass, Reject, GotoJob, TypeOK
    <2>3. CASE JobRaises(a) \/ Release(a) \/ Complete(a)
      BY <2>3, WelcomeLeft DEF JobRaises, Release, Complete, GotoJob, TypeOK
    <2>4. CASE Describe(a)
      BY <2>4 DEF Describe, GotoJob, TypeOK, WelcomeInv, Label
    <2>5. CASE CheckWelcome(a)
      BY <2>5 DEF CheckWelcome, GotoJob, TypeOK, WelcomeInv, Label
    <2>6. CASE EmitWelcome(a)
      <3>1. EmitEventToDb(a, Row("welcome_message", "text")) /\ result[a] = "text"
        BY <2>6, RowLost, JobRows DEF EmitWelcome, WelcomeInv
      <3>2. Welcomed(a, "text")'
        BY <3>1, RowWritten, JobRows DEF Welcomed, Row
      <3>. QED  BY <2>6, <3>1, <3>2 DEF EmitWelcome, GotoJob, TypeOK, WelcomeInv
    <2>7. CASE JoinUpsert(a) \/ Wiki(a)
      BY <2>7 DEF JoinUpsert, Wiki, GotoJob, TypeOK, WelcomeInv, Label
    <2>8. CASE Regenerate(a)
      <3>1. CASE UNCHANGED result
        BY <2>8, <3>1 DEF Regenerate, GotoJob, TypeOK, WelcomeInv, Label
      <3>2. CASE ~UNCHANGED result
        <4>1. EmitEventToDb(a, Row("welcome_message", "regenerated"))
          BY <2>8, <3>2 DEF Regenerate
        <4>2. Welcomed(a, "regenerated")'
          BY <4>1, RowWritten, JobRows DEF Welcomed, Row
        <4>3. result'[a] = "regenerated" /\ job'[a] = "wiki" /\ welcomed' = welcomed
          BY <2>8, <3>2 DEF Regenerate, GotoJob, TypeOK
        <4>. QED  BY <4>2, <4>3 DEF WelcomeInv, Label
      <3>. QED  BY <3>1, <3>2
    <2>9. CASE EarlyEmit(a)
      <3>1. EmitEventToDb(a, Row("welcome_message", "text"))
        BY <2>9, RowLost, JobRows DEF EarlyEmit
      <3>2. Welcomed(a, "text")'
        BY <3>1, RowWritten, JobRows DEF Welcomed, Row
      <3>3. job' = job /\ result' = result
        BY <2>9 DEF EarlyEmit
      <3>. QED  BY <3>2, <3>3 DEF WelcomeInv, Label
    <2>. QED  BY <2>1, <2>2, <2>3, <2>4, <2>5, <2>6, <2>7, <2>8, <2>9 DEF JobStep
  <1>. QED  BY <1>1, <1>2

LEMMA WelcomeNext ==
  ASSUME IInv, [Next]_vars, NEW b \in Attempt
  PROVE  WelcomeInv(b)'
  <1>0. TypeOK
    BY DEF IInv
  <1>1. ASSUME NEW a \in Attempt, FilesResolved(a) PROVE WelcomeInv(b)'
    <2>1. welcomed' = welcomed /\ result' = result
      BY <1>1 DEF FilesResolved
    <2>2. job'[b] = job[b] \/ job'[b] = "start"
      BY <1>0, <1>1 DEF FilesResolved, GotoJob, TypeOK
    <2>. QED  BY <2>1, <2>2, WelcomeKept, WelcomeLeft
  <1>2. ASSUME NEW a \in Attempt,
               \/ FilesMissing(a) \/ JobDone(a) \/ JobTimesOut(a) \/ Verdict(a)
               \/ VerdictRaises(a) \/ Ack(a) \/ Nack(a)
        PROVE  WelcomeInv(b)'
    BY <1>2, WelcomeKept DEF FilesMissing, JobDone, JobTimesOut, Verdict,
                             VerdictRaises, Ack, Nack, jobVars
  <1>3. ASSUME NEW w \in Worker, NEW a \in Attempt, Deliver(w, a) PROVE WelcomeInv(b)'
    BY <1>3, WelcomeKept DEF Deliver, jobVars
  <1>4. ASSUME NEW w \in Worker, Crash(w) PROVE WelcomeInv(b)'
    <2>1. welcomed' = welcomed
      BY <1>4 DEF Crash
    <2>2. CASE host[b] = w
      <3>1. job'[b] \in JobOver \cup {"none"}
        BY <1>4, <2>2 DEF Crash, JobOver
      <3>. QED  BY <2>1, <3>1, WelcomeLeft DEF JobOver
    <2>3. CASE host[b] # w
      BY <1>4, <2>1, <2>3, WelcomeKept DEF Crash
    <2>. QED  BY <2>2, <2>3
  <1>5. CASE DeadLetter \/ UNCHANGED vars
    BY <1>5, WelcomeKept DEF DeadLetter, vars, jobVars
  <1>. QED  BY <1>1, <1>2, <1>3, <1>4, <1>5, WelcomeJob DEF Next, CallbackStep

-------------------------------------------------------------------------------
(* Deliveries and chunks *)

LEMMA DeliveryNext ==
  ASSUME IInv, [Next]_vars
  PROVE  DeliveryInv'
  <1>. USE DEF IInv, TypeOK, DeliveryInv, GotoCb, GotoJob, JobOver
  <1>0. Attempt \subseteq Nat /\ deliveries \in Nat /\ Nobody \notin Worker
    BY WorkerAssumption DEF Attempt
  <1>1. ASSUME NEW a \in Attempt, CallbackStep(a) PROVE DeliveryInv'
    <2>1. CASE FilesResolved(a)
      BY <1>0, <2>1 DEF FilesResolved
    <2>2. CASE \/ FilesMissing(a) \/ JobDone(a) \/ JobTimesOut(a) \/ Verdict(a)
               \/ VerdictRaises(a) \/ Ack(a) \/ Nack(a)
      BY <1>0, <2>2 DEF FilesMissing, JobDone, JobTimesOut, Verdict, VerdictRaises,
                        Ack, Nack, jobVars
    <2>. QED  BY <1>1, <2>1, <2>2 DEF CallbackStep
  <1>2. ASSUME NEW a \in Attempt, JobStep(a) PROVE DeliveryInv'
    <2>1. deliveries' = deliveries /\ host' = host /\ cb' = cb
      BY <1>2 DEF JobStep, Start, StreamPage, Extract, Pass, Reject, Describe,
                  CheckWelcome, EmitWelcome, UpsertEnds, JoinUpsert, Regenerate, Wiki,
                  Complete, JobRaises, Release, EarlyEnds, EarlyCheck, EarlyEmit,
                  attemptVars
    <2>2. \A b \in Attempt : job[b] = "none" => job'[b] = "none"
      <3>1. CASE \/ Start(a) \/ StreamPage(a) \/ Extract(a) \/ Pass(a) \/ Reject(a)
                 \/ Describe(a) \/ CheckWelcome(a) \/ EmitWelcome(a) \/ JoinUpsert(a)
        BY <3>1 DEF Start, StreamPage, Extract, Pass, Reject, Describe, CheckWelcome,
                    EmitWelcome, JoinUpsert, jobVars
      <3>2. CASE \/ Regenerate(a) \/ Wiki(a) \/ Complete(a) \/ JobRaises(a) \/ Release(a)
                 \/ UpsertEnds(a) \/ EarlyEnds(a) \/ EarlyCheck(a) \/ EarlyEmit(a)
        BY <3>2 DEF Regenerate, Wiki, Complete, JobRaises, Release, UpsertEnds,
                    EarlyEnds, EarlyCheck, EarlyEmit
      <3>. QED  BY <1>2, <3>1, <3>2 DEF JobStep
    <2>. QED  BY <2>1, <2>2
  <1>3. ASSUME NEW w \in Worker, NEW a \in Attempt, Deliver(w, a) PROVE DeliveryInv'
    BY <1>0, <1>3 DEF Deliver, jobVars
  <1>4. ASSUME NEW w \in Worker, Crash(w) PROVE DeliveryInv'
    BY <1>0, <1>4 DEF Crash
  <1>5. CASE DeadLetter \/ UNCHANGED vars
    BY <1>5 DEF DeadLetter, vars, attemptVars, jobVars
  <1>. QED  BY <1>1, <1>2, <1>3, <1>4, <1>5 DEF Next

\* Where nothing is stored and nothing is deleted, it is enough that jobs go
\* on: one that has started stays started, one that is over stays over, and a
\* running upsert belongs to a job that will join it.
LEMMA ChunksKept ==
  ASSUME IInv, UNCHANGED <<chunks, cleared>>,
         \A b \in Attempt :
           /\ job[b] # "none" => job'[b] # "none"
           /\ job[b] \in JobOver \cup {"rejecting"} =>
                job'[b] \in JobOver \cup {"rejecting"}
           /\ upsert'[b] = "running" =>
                job'[b] \in {"describe", "check", "emit", "join", "failing"}
  PROVE  ChunkInv'
  BY DEF IInv, TypeOK, ChunkInv, RejectedLeavesNoChunks

LEMMA ChunkJob ==
  ASSUME IInv, NEW a \in Attempt, JobStep(a)
  PROVE  ChunkInv'
  <1>. USE DEF IInv, TypeOK, GotoJob, JobOver, jobVars, storeVars
  <1>0. \A b \in Attempt : upsert[b] = "running" =>
          job[b] \in {"describe", "check", "emit", "join", "failing"}
    BY DEF ChunkInv
  <1>1. CASE Start(a) \/ Extract(a) \/ Pass(a) \/ Describe(a) \/ CheckWelcome(a)
    <2>. USE <1>0, <1>1, ChunksKept
    <2>1. CASE Start(a)
      BY <2>1 DEF Start
    <2>2. CASE Extract(a)
      BY <2>2 DEF Extract
    <2>3. CASE Pass(a)
      BY <2>3 DEF Pass
    <2>4. CASE Describe(a)
      BY <2>4 DEF Describe
    <2>5. CASE CheckWelcome(a)
      BY <2>5 DEF CheckWelcome
    <2>. QED  BY <1>1, <2>1, <2>2, <2>3, <2>4, <2>5
  <1>2. CASE EmitWelcome(a) \/ Regenerate(a) \/ Wiki(a) \/ Complete(a)
    <2>. USE <1>0, ChunksKept
    <2>1. CASE EmitWelcome(a)
      BY <2>1 DEF EmitWelcome
    <2>2. CASE Regenerate(a)
      BY <2>2 DEF Regenerate
    <2>3. CASE Wiki(a)
      BY <2>3 DEF Wiki
    <2>4. CASE Complete(a)
      BY <2>4 DEF Complete
    <2>. QED  BY <1>2, <2>1, <2>2, <2>3, <2>4
  <1>3. CASE JoinUpsert(a) \/ JobRaises(a) \/ Release(a)
    <2>. USE <1>0, ChunksKept
    <2>1. CASE JoinUpsert(a)
      BY <2>1 DEF JoinUpsert
    <2>2. CASE JobRaises(a)
      BY <2>2 DEF JobRaises
    <2>3. CASE Release(a)
      BY <2>3 DEF Release
    <2>. QED  BY <1>3, <2>1, <2>2, <2>3
  <1>4. CASE EarlyEnds(a) \/ EarlyCheck(a) \/ EarlyEmit(a)
    BY <1>0, <1>4, ChunksKept DEF EarlyEnds, EarlyCheck, EarlyEmit
  <1>5. CASE StreamPage(a)
    <2>1. a \notin cleared /\ job[a] # "none"
      BY <1>5 DEF StreamPage, ChunkInv
    <2>. QED  BY <1>5, <2>1 DEF StreamPage, ChunkInv, RejectedLeavesNoChunks
  <1>6. CASE UpsertEnds(a)
    <2>1. a \notin cleared /\ job[a] # "none"
      BY <1>0, <1>6 DEF UpsertEnds, ChunkInv
    <2>2. /\ job' = job /\ cleared' = cleared
          /\ \A b \in Attempt : upsert'[b] = "running" => upsert[b] = "running"
      BY <1>6 DEF UpsertEnds
    <2>. QED  BY <2>1, <2>2 DEF ChunkInv, RejectedLeavesNoChunks
  <1>7. CASE Reject(a)
    <2>1. CASE chunks' = FALSE /\ cleared' = {b \in Attempt : job[b] \in JobOver} \cup {a}
      BY <1>0, <1>7, <2>1 DEF Reject, ChunkInv, RejectedLeavesNoChunks
    <2>2. CASE UNCHANGED <<chunks, cleared>>
      BY <1>0, <1>7, <2>2, ChunksKept DEF Reject
    <2>. QED  BY <1>7, <2>1, <2>2 DEF Reject
  <1>. QED  BY <1>1, <1>2, <1>3, <1>4, <1>5, <1>6, <1>7 DEF JobStep

LEMMA ChunkNext ==
  ASSUME IInv, [Next]_vars
  PROVE  ChunkInv'
  <1>. USE DEF IInv, TypeOK, jobVars, storeVars
  <1>0. \A b \in Attempt : upsert[b] = "running" =>
          job[b] \in {"describe", "check", "emit", "join", "failing"}
    BY DEF ChunkInv
  <1>1. ASSUME NEW a \in Attempt, FilesResolved(a) PROVE ChunkInv'
    BY <1>0, <1>1, ChunksKept DEF FilesResolved, GotoJob, DeliveryInv, JobOver
  <1>2. ASSUME NEW a \in Attempt,
               \/ FilesMissing(a) \/ JobDone(a) \/ JobTimesOut(a) \/ Verdict(a)
               \/ VerdictRaises(a) \/ Ack(a) \/ Nack(a)
        PROVE  ChunkInv'
    BY <1>0, <1>2, ChunksKept DEF FilesMissing, JobDone, JobTimesOut, Verdict,
                                  VerdictRaises, Ack, Nack
  <1>3. ASSUME NEW w \in Worker, NEW a \in Attempt, Deliver(w, a) PROVE ChunkInv'
    BY <1>0, <1>3, ChunksKept DEF Deliver
  <1>4. ASSUME NEW w \in Worker, Crash(w) PROVE ChunkInv'
    BY <1>0, <1>4, ChunksKept DEF Crash, JobOver
  <1>5. CASE DeadLetter \/ UNCHANGED vars
    BY <1>0, <1>5, ChunksKept DEF DeadLetter, vars
  <1>. QED  BY <1>1, <1>2, <1>3, <1>4, <1>5, ChunkJob DEF Next, CallbackStep

-------------------------------------------------------------------------------
(* The invariant *)

LEMMA IInvInit == Init => IInv
  <1>. SUFFICES ASSUME Init PROVE IInv
    OBVIOUS
  <1>1. TypeOK
    BY TypeInit
  <1>2. VerdictInv /\ DeliveryInv /\ ChunkInv
    BY DEF Init, VerdictInv, AckedHasVerdict, DeliveryInv, ChunkInv,
           RejectedLeavesNoChunks
  <1>3. ASSUME NEW a \in Attempt PROVE WelcomeInv(a)
    BY DEF Init, WelcomeInv, WelcomeFirst
  <1>. QED  BY <1>1, <1>2, <1>3 DEF IInv

LEMMA IInvNext == IInv /\ [Next]_vars => IInv'
  BY TypeNext, VerdictNext, WelcomeNext, DeliveryNext, ChunkNext DEF IInv

LEMMA IInvHolds == Spec => []IInv
  BY IInvInit, IInvNext, PTL DEF Spec

\* A message is acknowledged only after a complete or an error row of it was
\* written or lost, for any number of workers, deliveries and faults: the ack
\* of _process_message comes after its error row, and after the row the job
\* writes before it returns.
THEOREM AckMeansVerdict == Spec => []AckedHasVerdict
  <1>1. IInv => AckedHasVerdict
    BY DEF IInv, VerdictInv
  <1>. QED  BY <1>1, IInvHolds, PTL

\* The welcome a complete row carries was written before it, whichever of the
\* two threads that share welcome_emitted wrote it.
THEOREM WelcomeComesFirst == Spec => []WelcomeBeforeComplete
  <1>1. IInv => WelcomeBeforeComplete
    BY DEF IInv, WelcomeInv, WelcomeBeforeComplete
  <1>. QED  BY <1>1, IInvHolds, PTL

\* Once the collection of rejected files is deleted, no attempt that was over
\* by then, nor its upsert in the pool, brings chunks of them back.
THEOREM RejectedIsGone == Spec => []RejectedLeavesNoChunks
  <1>1. IInv => RejectedLeavesNoChunks
    BY DEF IInv, ChunkInv
  <1>. QED  BY <1>1, IInvHolds, PTL
===============================================================================
