------------------------ MODULE IndexingListenerProofs ------------------------
(***************************************************************************)
(* The listener, for any number of replicas, sessions, rows and faults:    *)
(* types, the at-most-once log it implements, and the two invariants that  *)
(* keep events from being orphaned.                                        *)
(***************************************************************************)
EXTENDS IndexingListener, TLAPS

LEMMA InitType == Init => TypeOK
  BY ListenerAssumption
     DEF Init, TypeOK, EventState, LoopState, Session, EventId, NoClient, ByNotify

\* One lemma step per action: the types survive it.
LEMMA StepType == TypeOK /\ [Next]_vars => TypeOK'
<1> SUFFICES ASSUME TypeOK, [Next]_vars PROVE TypeOK'
  OBVIOUS
<1> USE ListenerAssumption
    DEF TypeOK, EventState, LoopState, NoClient, ByNotify, Fault, Unprocessed,
        logVars, netVars, ClaimIndexingEvent, DropRow, AtRow
<1>1. ASSUME NEW e \in EventId, Emit(e) PROVE TypeOK'
  BY <1>1 DEF Emit
<1>2. ASSUME NEW r \in Replica, NEW s \in Session, Start(r, s) PROVE TypeOK'
  BY <1>2 DEF Start
<1>3. ASSUME NEW r \in Replica, NEW s \in Session, TimerFires(r, s) PROVE TypeOK'
  BY <1>3 DEF TimerFires
<1>4. ASSUME NEW r \in Replica, NEW s \in Session, Listening(r, s) PROVE TypeOK'
  BY <1>4 DEF Listening
<1>5. ASSUME NEW r \in Replica, NEW s \in Session, ConnectFails(r, s) PROVE TypeOK'
  BY <1>5 DEF ConnectFails
<1>6. ASSUME NEW r \in Replica, NEW s \in Session, ClientError(r, s) PROVE TypeOK'
  BY <1>6 DEF ClientError
<1>7. ASSUME NEW r \in Replica, NEW s \in Session, DrainPick(r, s) PROVE TypeOK'
  <2>1. CASE client[r] = NoClient
    <3>1. loop' = [loop EXCEPT ![r][s] = "idle"] /\ batch' = batch
      BY <1>7, <2>1 DEF DrainPick
    <3>. QED  BY <1>7, <3>1 DEF DrainPick
  <2>2. CASE client[r] # NoClient
    <3>1. PICK B \in SUBSET EventId, l \in LoopState :
            /\ batch' = [batch EXCEPT ![r][s] = B]
            /\ loop' = [loop EXCEPT ![r][s] = l]
      <4>1. CASE /\ batch' = [batch EXCEPT ![r][s] = Unprocessed]
                 /\ loop' = [loop EXCEPT ![r][s] = "drain"]
        BY <4>1
      <4>2. CASE /\ \E B \in SUBSET Unprocessed :
                      batch' = [batch EXCEPT ![r][s] = B]
                 /\ loop' = [loop EXCEPT ![r][s] = "drainFull"]
        BY <4>2
      <4>. QED  BY <1>7, <2>2, <4>1, <4>2 DEF DrainPick
    <3>. QED  BY <1>7, <3>1 DEF DrainPick
  <2>. QED  BY <2>1, <2>2
<1>8. ASSUME NEW r \in Replica, NEW s \in Session, DrainPickFails(r, s) PROVE TypeOK'
  BY <1>8 DEF DrainPickFails
<1>9. ASSUME NEW r \in Replica, NEW s \in Session, DrainEnd(r, s) PROVE TypeOK'
  BY <1>9 DEF DrainEnd
<1>10. ASSUME NEW r \in Replica, NEW s \in Session, NEW e \in EventId,
              DrainClaim(r, s, e)
       PROVE  TypeOK'
  BY <1>10 DEF DrainClaim
<1>11. ASSUME NEW r \in Replica, NEW s \in Session, NEW e \in EventId,
              DrainNextRow(r, s, e)
       PROVE  TypeOK'
  BY <1>11 DEF DrainNextRow
<1>12. ASSUME NEW r \in Replica, NEW s \in Session, NEW e \in EventId,
              DrainClaimFails(r, s, e)
       PROVE  TypeOK'
  BY <1>12 DEF DrainClaimFails
<1>13. ASSUME NEW r \in Replica, NEW s \in Session, NEW e \in EventId,
              Receive(r, s, e)
       PROVE  TypeOK'
  BY <1>13 DEF Receive
<1>14. ASSUME NEW r \in Replica, NEW e \in EventId, NotifyClaim(r, e) PROVE TypeOK'
  <2>1. /\ evt' \in [EventId -> EventState]
        /\ owner' \in [EventId -> Replica \cup {Nobody}]
        /\ via' \in [EventId -> Session \cup {ByNotify}]
    <3>1. CASE ClaimIndexingEvent(r, ByNotify, e)
      BY <3>1
    <3>2. CASE UNCHANGED logVars
      BY <3>2
    <3>. QED  BY <1>14, <3>1, <3>2 DEF NotifyClaim
  <2>2. notif' \in [Replica -> SUBSET EventId]
    BY <1>14 DEF NotifyClaim
  <2>. QED  BY <1>14, <2>1, <2>2 DEF NotifyClaim
<1>15. ASSUME NEW r \in Replica, NEW e \in EventId, NotifyClaimFails(r, e)
       PROVE  TypeOK'
  BY <1>15 DEF NotifyClaimFails
<1>16. ASSUME NEW e \in EventId, HandlerReturns(e) PROVE TypeOK'
  BY <1>16 DEF HandlerReturns
<1>17. ASSUME NEW e \in EventId, HandlerThrows(e) PROVE TypeOK'
  BY <1>17 DEF HandlerThrows
<1>18. ASSUME NEW r \in Replica, Crash(r) PROVE TypeOK'
  BY <1>18 DEF Crash
<1>19. CASE UNCHANGED vars
  BY <1>19 DEF vars
<1>. QED
  BY <1>1, <1>2, <1>3, <1>4, <1>5, <1>6, <1>7, <1>8, <1>9, <1>10, <1>11,
     <1>12, <1>13, <1>14, <1>15, <1>16, <1>17, <1>18, <1>19
     DEF Next, ListenerNext, SessionStep, RowStep

\* Type correctness of the listener.
THEOREM TypeCorrect == Spec => []TypeOK
  BY InitType, StepType, PTL DEF Spec
-------------------------------------------------------------------------------
(* The at-most-once log *)

LEMMA LogInitRefined == Init => Log!LogInit
  BY DEF Init, Log!LogInit

LEMMA LogStepRefined ==
  TypeOK /\ TypeOK' /\ [Next]_vars => [Log!LogNext]_<<evt, owner>>
<1> SUFFICES ASSUME TypeOK, TypeOK', [Next]_vars
             PROVE  Log!LogNext \/ UNCHANGED <<evt, owner>>
  BY DEF Log!logVars
<1>1. ASSUME NEW r \in Replica, NEW s, NEW e \in EventId,
             ClaimIndexingEvent(r, s, e)
      PROVE  Log!LogNext
  BY <1>1 DEF ClaimIndexingEvent, Log!LogNext, Log!Claim
<1>2. ASSUME NEW e \in EventId, Emit(e) PROVE Log!LogNext
  BY <1>2 DEF Emit, Log!LogNext, Log!Insert
<1>3. ASSUME NEW S \in SUBSET EventId,
             \A e \in S : evt[e] = "running",
             \A e \in S : evt'[e] \in {"done", "lost"},
             \A e \in EventId \ S : evt'[e] = evt[e],
             UNCHANGED owner
      PROVE  Log!LogNext
  BY <1>3 DEF TypeOK, EventState, Log!LogNext, Log!Settle, Log!EventState
<1>4. ASSUME NEW e \in EventId, HandlerReturns(e) \/ HandlerThrows(e)
      PROVE  Log!LogNext
  <2>1. PICK v \in {"done", "lost"} :
          /\ evt[e] = "running"
          /\ evt' = [evt EXCEPT ![e] = v]
          /\ UNCHANGED owner
    BY <1>4 DEF HandlerReturns, HandlerThrows
  <2>. QED  BY <2>1 DEF TypeOK, EventState, Log!LogNext, Log!Settle, Log!EventState
<1>5. ASSUME NEW r \in Replica, Crash(r) PROVE Log!LogNext
  <2>1. {e \in EventId : evt[e] = "running" /\ owner[e] = r} \in SUBSET EventId
    OBVIOUS
  <2>. QED  BY <1>5, <1>3, <2>1 DEF Crash
<1>6. ASSUME NEW r \in Replica, NEW s \in Session, SessionStep(r, s)
      PROVE  UNCHANGED <<evt, owner>>
  BY <1>6 DEF SessionStep, Start, TimerFires, Listening, ConnectFails,
              ClientError, DrainPick, DrainPickFails, DrainEnd, logVars
<1>7. ASSUME NEW r \in Replica, NEW s \in Session, NEW e \in EventId,
             RowStep(r, s, e)
      PROVE  Log!LogNext \/ UNCHANGED <<evt, owner>>
  BY <1>7, <1>1 DEF RowStep, DrainClaim, DrainNextRow, DrainClaimFails, Receive,
                    logVars
<1>8. ASSUME NEW r \in Replica, NEW e \in EventId,
             NotifyClaim(r, e) \/ NotifyClaimFails(r, e)
      PROVE  Log!LogNext \/ UNCHANGED <<evt, owner>>
  BY <1>8, <1>1 DEF NotifyClaim, NotifyClaimFails, logVars
<1>9. CASE UNCHANGED vars
  BY <1>9 DEF vars
<1>. QED  BY <1>2, <1>4, <1>5, <1>6, <1>7, <1>8, <1>9 DEF Next, ListenerNext

\* The listener, with its races, leaked sessions and crashes, implements the
\* log of EventLog: a row is claimed at most once and never taken up again.
THEOREM ListenerImplementsLog == Spec => ImplementsLog
  BY LogInitRefined, LogStepRefined, TypeCorrect, PTL
     DEF Spec, ImplementsLog, Log!LogSpec, Log!logVars

\* No event has two handlers, one after the other or at once: the processed_at
\* flip of claimIndexingEvent is final.
THEOREM AtMostOnce == Spec => NeverHandledTwice
<1>1. TypeOK /\ TypeOK' /\ [Next]_vars => [ClaimIsFinal]_vars
  <2> SUFFICES ASSUME TypeOK, TypeOK', [Next]_vars, NEW e \in EventId, Claimed(e)
               PROVE  /\ owner'[e] = owner[e]
                      /\ \/ evt'[e] = evt[e]
                         \/ evt[e] = "running" /\ evt'[e] \in {"done", "lost"}
    BY DEF ClaimIsFinal
  <2>1. CASE Log!LogNext
    BY <2>1 DEF Log!LogNext, Log!Insert, Log!Claim, Log!Settle, TypeOK, Claimed
  <2>2. CASE UNCHANGED <<evt, owner>>
    BY <2>2
  <2>. QED  BY <2>1, <2>2, LogStepRefined
<1>. QED  BY <1>1, TypeCorrect, PTL DEF Spec, NeverHandledTwice
-------------------------------------------------------------------------------
(* The inductive invariant IInv *)

LEMMA InitInv == Init => DownIsClean /\ ListenerComesBack /\ NoOrphan
  BY DEF Init, DownIsClean, ListenerComesBack, NoOrphan, NoClient

\* A process that is down has nothing running, and only Start brings it up.
LEMMA StepDown == TypeOK /\ DownIsClean /\ [Next]_vars => DownIsClean'
<1> SUFFICES ASSUME TypeOK, DownIsClean, [Next]_vars PROVE DownIsClean'
  OBVIOUS
<1> USE ListenerAssumption
    DEF TypeOK, DownIsClean, NoClient, ByNotify, Fault, logVars, netVars,
        ClaimIndexingEvent, DropRow, AtRow, LoopState
<1>1. ASSUME NEW e \in EventId,
             Emit(e)
      PROVE  DownIsClean'
  BY <1>1 DEF Emit
<1>2. ASSUME NEW r \in Replica, NEW s \in Session,
             Start(r, s)
      PROVE  DownIsClean'
  BY <1>2 DEF Start
<1>3. ASSUME NEW r \in Replica, NEW s \in Session,
             TimerFires(r, s)
      PROVE  DownIsClean'
  BY <1>3 DEF TimerFires
<1>4. ASSUME NEW r \in Replica, NEW s \in Session,
             Listening(r, s)
      PROVE  DownIsClean'
  BY <1>4 DEF Listening
<1>5. ASSUME NEW r \in Replica, NEW s \in Session,
             ConnectFails(r, s)
      PROVE  DownIsClean'
  BY <1>5 DEF ConnectFails
<1>6. ASSUME NEW r \in Replica, NEW s \in Session,
             ClientError(r, s)
      PROVE  DownIsClean'
  BY <1>6 DEF ClientError
<1>7. ASSUME NEW r \in Replica, NEW s \in Session,
             DrainPick(r, s)
      PROVE  DownIsClean'
  BY <1>7 DEF DrainPick
<1>8. ASSUME NEW r \in Replica, NEW s \in Session,
             DrainPickFails(r, s)
      PROVE  DownIsClean'
  BY <1>8 DEF DrainPickFails
<1>9. ASSUME NEW r \in Replica, NEW s \in Session,
             DrainEnd(r, s)
      PROVE  DownIsClean'
  BY <1>9 DEF DrainEnd
<1>10. ASSUME NEW r \in Replica, NEW s \in Session, NEW e \in EventId,
             DrainClaim(r, s, e)
      PROVE  DownIsClean'
  BY <1>10 DEF DrainClaim
<1>11. ASSUME NEW r \in Replica, NEW s \in Session, NEW e \in EventId,
             DrainNextRow(r, s, e)
      PROVE  DownIsClean'
  BY <1>11 DEF DrainNextRow
<1>12. ASSUME NEW r \in Replica, NEW s \in Session, NEW e \in EventId,
             DrainClaimFails(r, s, e)
      PROVE  DownIsClean'
  BY <1>12 DEF DrainClaimFails
<1>13. ASSUME NEW r \in Replica, NEW s \in Session, NEW e \in EventId,
             Receive(r, s, e)
      PROVE  DownIsClean'
  BY <1>13 DEF Receive
<1>14. ASSUME NEW r \in Replica, NEW e \in EventId,
             NotifyClaim(r, e)
      PROVE  DownIsClean'
  BY <1>14 DEF NotifyClaim
<1>15. ASSUME NEW r \in Replica, NEW e \in EventId,
             NotifyClaimFails(r, e)
      PROVE  DownIsClean'
  BY <1>15 DEF NotifyClaimFails
<1>16. ASSUME NEW e \in EventId,
             HandlerReturns(e)
      PROVE  DownIsClean'
  BY <1>16 DEF HandlerReturns
<1>17. ASSUME NEW e \in EventId,
             HandlerThrows(e)
      PROVE  DownIsClean'
  BY <1>17 DEF HandlerThrows
<1>18. ASSUME NEW r \in Replica,
             Crash(r)
      PROVE  DownIsClean'
  BY <1>18 DEF Crash
<1>19. CASE UNCHANGED vars
  BY <1>19 DEF vars
<1>. QED
  BY <1>1, <1>2, <1>3, <1>4, <1>5, <1>6, <1>7, <1>8, <1>9, <1>10, <1>11, <1>12,
     <1>13, <1>14, <1>15, <1>16, <1>17, <1>18, <1>19
     DEF Next, ListenerNext, SessionStep, RowStep

\* A replica with no client has a timer or a connect() under way.
LEMMA StepComesBack ==
  TypeOK /\ DownIsClean /\ ListenerComesBack /\ [Next]_vars => ListenerComesBack'
<1> SUFFICES ASSUME TypeOK, DownIsClean, ListenerComesBack, [Next]_vars
             PROVE  ListenerComesBack'
  OBVIOUS
<1> USE ListenerAssumption
    DEF TypeOK, DownIsClean, ListenerComesBack, NoClient, ByNotify, Fault,
        logVars, netVars, ClaimIndexingEvent, DropRow, AtRow, LoopState, Session
<1>1. ASSUME NEW e \in EventId,
             Emit(e)
      PROVE  ListenerComesBack'
  BY <1>1 DEF Emit
<1>2. ASSUME NEW r \in Replica, NEW s \in Session,
             Start(r, s)
      PROVE  ListenerComesBack'
  BY <1>2 DEF Start
<1>3. ASSUME NEW r \in Replica, NEW s \in Session,
             TimerFires(r, s)
      PROVE  ListenerComesBack'
  BY <1>3 DEF TimerFires
<1>4. ASSUME NEW r \in Replica, NEW s \in Session,
             Listening(r, s)
      PROVE  ListenerComesBack'
  BY <1>4 DEF Listening
<1>5. ASSUME NEW r \in Replica, NEW s \in Session,
             ConnectFails(r, s)
      PROVE  ListenerComesBack'
  BY <1>5 DEF ConnectFails
<1>6. ASSUME NEW r \in Replica, NEW s \in Session,
             ClientError(r, s)
      PROVE  ListenerComesBack'
  BY <1>6 DEF ClientError
<1>7. ASSUME NEW r \in Replica, NEW s \in Session,
             DrainPick(r, s)
      PROVE  ListenerComesBack'
  <2>1. /\ loop[r][s] = "pick"
        /\ \E l \in LoopState : loop' = [loop EXCEPT ![r][s] = l]
        /\ UNCHANGED <<up, sock, client, timer>>
    BY <1>7 DEF DrainPick
  <2>2. \A q \in Replica, t \in Session :
          loop[q][t] = "connecting" => loop'[q][t] = "connecting"
    BY <2>1
  <2>. QED  BY <2>1, <2>2
<1>8. ASSUME NEW r \in Replica, NEW s \in Session,
             DrainPickFails(r, s)
      PROVE  ListenerComesBack'
  BY <1>8 DEF DrainPickFails
<1>9. ASSUME NEW r \in Replica, NEW s \in Session,
             DrainEnd(r, s)
      PROVE  ListenerComesBack'
  BY <1>9 DEF DrainEnd
<1>10. ASSUME NEW r \in Replica, NEW s \in Session, NEW e \in EventId,
             DrainClaim(r, s, e)
      PROVE  ListenerComesBack'
  BY <1>10 DEF DrainClaim
<1>11. ASSUME NEW r \in Replica, NEW s \in Session, NEW e \in EventId,
             DrainNextRow(r, s, e)
      PROVE  ListenerComesBack'
  BY <1>11 DEF DrainNextRow
<1>12. ASSUME NEW r \in Replica, NEW s \in Session, NEW e \in EventId,
             DrainClaimFails(r, s, e)
      PROVE  ListenerComesBack'
  BY <1>12 DEF DrainClaimFails
<1>13. ASSUME NEW r \in Replica, NEW s \in Session, NEW e \in EventId,
             Receive(r, s, e)
      PROVE  ListenerComesBack'
  BY <1>13 DEF Receive
<1>14. ASSUME NEW r \in Replica, NEW e \in EventId,
             NotifyClaim(r, e)
      PROVE  ListenerComesBack'
  BY <1>14 DEF NotifyClaim
<1>15. ASSUME NEW r \in Replica, NEW e \in EventId,
             NotifyClaimFails(r, e)
      PROVE  ListenerComesBack'
  BY <1>15 DEF NotifyClaimFails
<1>16. ASSUME NEW e \in EventId,
             HandlerReturns(e)
      PROVE  ListenerComesBack'
  BY <1>16 DEF HandlerReturns
<1>17. ASSUME NEW e \in EventId,
             HandlerThrows(e)
      PROVE  ListenerComesBack'
  BY <1>17 DEF HandlerThrows
<1>18. ASSUME NEW r \in Replica,
             Crash(r)
      PROVE  ListenerComesBack'
  BY <1>18 DEF Crash
<1>19. CASE UNCHANGED vars
  BY <1>19 DEF vars
<1>. QED
  BY <1>1, <1>2, <1>3, <1>4, <1>5, <1>6, <1>7, <1>8, <1>9, <1>10, <1>11, <1>12,
     <1>13, <1>14, <1>15, <1>16, <1>17, <1>18, <1>19
     DEF Next, ListenerNext, SessionStep, RowStep

\* LISTEN before the drain, NOTIFY for what the drain was too early for.
LEMMA StepNoOrphan ==
  TypeOK /\ DownIsClean /\ ListenerComesBack /\ NoOrphan /\ [Next]_vars => NoOrphan'
<1> SUFFICES ASSUME TypeOK, DownIsClean, ListenerComesBack, NoOrphan, [Next]_vars,
                    NEW q \in up', NEW f \in EventId, evt'[f] = "unprocessed"
             PROVE  timer'[q] \/ Covers(q, f)'
  BY DEF NoOrphan
<1>a. q \in up /\ evt[f] = "unprocessed" => timer[q] \/ Covers(q, f)
  BY DEF NoOrphan
<1> q \in Replica
  <2>1. up' \in SUBSET Replica
    BY StepType DEF TypeOK
  <2>. QED  BY <2>1
<1> USE <1>a, ListenerAssumption
    DEF TypeOK, Covers, NoClient, Fault, logVars, netVars, ClaimIndexingEvent,
        DropRow, AtRow
<1>1. ASSUME NEW e \in EventId,
             Emit(e)
      PROVE  timer'[q] \/ Covers(q, f)'
  <2>1. q \in up /\ (evt[f] = "unprocessed" \/ f = e)
    BY <1>1 DEF Emit
  <2>2. CASE f # e
    BY <1>1, <2>1, <2>2 DEF Emit
  <2>3. CASE f = e /\ client[q] = NoClient
    BY <1>1, <2>1, <2>3 DEF Emit, ListenerComesBack
  <2>4. CASE f = e /\ client[q] # NoClient
    <3>1. client[q] \in Session /\ client[q] \in sock[q]
      BY <2>1, <2>4 DEF ListenerComesBack
    <3>2. f \in wire'[q][client[q]]
      BY <1>1, <2>4, <3>1 DEF Emit
    <3>. QED  BY <3>1, <3>2
  <2>. QED  BY <2>2, <2>3, <2>4
<1>2. ASSUME NEW r \in Replica, NEW s \in Session,
             Start(r, s)
      PROVE  timer'[q] \/ Covers(q, f)'
  BY <1>2 DEF Start
<1>3. ASSUME NEW r \in Replica, NEW s \in Session,
             TimerFires(r, s)
      PROVE  timer'[q] \/ Covers(q, f)'
  BY <1>3 DEF TimerFires
<1>4. ASSUME NEW r \in Replica, NEW s \in Session,
             Listening(r, s)
      PROVE  timer'[q] \/ Covers(q, f)'
  BY <1>4 DEF Listening
<1>5. ASSUME NEW r \in Replica, NEW s \in Session,
             ConnectFails(r, s)
      PROVE  timer'[q] \/ Covers(q, f)'
  BY <1>5 DEF ConnectFails
<1>6. ASSUME NEW r \in Replica, NEW s \in Session,
             ClientError(r, s)
      PROVE  timer'[q] \/ Covers(q, f)'
  BY <1>6 DEF ClientError
<1>7. ASSUME NEW r \in Replica, NEW s \in Session,
             DrainPick(r, s)
      PROVE  timer'[q] \/ Covers(q, f)'
  <2>1. CASE client[r] = NoClient
    <3>1. loop[r][s] = "pick" /\ loop' = [loop EXCEPT ![r][s] = "idle"] /\ batch' = batch
      BY <1>7, <2>1 DEF DrainPick
    <3>2. CASE q = r
      <4>1. timer[r] \/ \E t \in Session : loop[r][t] = "connecting"
        BY <1>7, <2>1, <3>2 DEF ListenerComesBack, DrainPick
      <4>. QED  BY <1>7, <3>1, <3>2, <4>1 DEF DrainPick
    <3>3. CASE q # r
      BY <1>7, <3>1, <3>3 DEF DrainPick
    <3>. QED  BY <3>2, <3>3
  <2>2. CASE /\ batch' = [batch EXCEPT ![r][s] = Unprocessed]
             /\ loop' = [loop EXCEPT ![r][s] = "drain"]
    <3>1. f \in Unprocessed
      BY <1>7 DEF DrainPick, Unprocessed
    <3>. QED  BY <1>7, <2>2, <3>1 DEF DrainPick
  <2>3. CASE /\ \E B \in SUBSET Unprocessed : batch' = [batch EXCEPT ![r][s] = B]
             /\ loop' = [loop EXCEPT ![r][s] = "drainFull"]
    <3>1. PICK B \in SUBSET Unprocessed : batch' = [batch EXCEPT ![r][s] = B]
      BY <2>3
    <3>2. CASE q = r
      BY <1>7, <2>3, <3>2 DEF DrainPick
    <3>3. CASE q # r
      BY <1>7, <2>3, <3>1, <3>3 DEF DrainPick
    <3>. QED  BY <3>2, <3>3
  <2>. QED  BY <1>7, <2>1, <2>2, <2>3 DEF DrainPick
<1>8. ASSUME NEW r \in Replica, NEW s \in Session,
             DrainPickFails(r, s)
      PROVE  timer'[q] \/ Covers(q, f)'
  BY <1>8 DEF DrainPickFails
<1>9. ASSUME NEW r \in Replica, NEW s \in Session,
             DrainEnd(r, s)
      PROVE  timer'[q] \/ Covers(q, f)'
  BY <1>9 DEF DrainEnd
<1>10. ASSUME NEW r \in Replica, NEW s \in Session, NEW e \in EventId,
             DrainClaim(r, s, e)
      PROVE  timer'[q] \/ Covers(q, f)'
  BY <1>10 DEF DrainClaim
<1>11. ASSUME NEW r \in Replica, NEW s \in Session, NEW e \in EventId,
             DrainNextRow(r, s, e)
      PROVE  timer'[q] \/ Covers(q, f)'
  BY <1>11 DEF DrainNextRow
<1>12. ASSUME NEW r \in Replica, NEW s \in Session, NEW e \in EventId,
             DrainClaimFails(r, s, e)
      PROVE  timer'[q] \/ Covers(q, f)'
  BY <1>12 DEF DrainClaimFails
<1>13. ASSUME NEW r \in Replica, NEW s \in Session, NEW e \in EventId,
             Receive(r, s, e)
      PROVE  timer'[q] \/ Covers(q, f)'
  BY <1>13 DEF Receive
<1>14. ASSUME NEW r \in Replica, NEW e \in EventId,
             NotifyClaim(r, e)
      PROVE  timer'[q] \/ Covers(q, f)'
  BY <1>14 DEF NotifyClaim
<1>15. ASSUME NEW r \in Replica, NEW e \in EventId,
             NotifyClaimFails(r, e)
      PROVE  timer'[q] \/ Covers(q, f)'
  BY <1>15 DEF NotifyClaimFails
<1>16. ASSUME NEW e \in EventId,
             HandlerReturns(e)
      PROVE  timer'[q] \/ Covers(q, f)'
  BY <1>16 DEF HandlerReturns
<1>17. ASSUME NEW e \in EventId,
             HandlerThrows(e)
      PROVE  timer'[q] \/ Covers(q, f)'
  BY <1>17 DEF HandlerThrows
<1>18. ASSUME NEW r \in Replica,
             Crash(r)
      PROVE  timer'[q] \/ Covers(q, f)'
  BY <1>18 DEF Crash
<1>19. CASE UNCHANGED vars
  BY <1>19 DEF vars
<1>. QED
  BY <1>1, <1>2, <1>3, <1>4, <1>5, <1>6, <1>7, <1>8, <1>9, <1>10, <1>11, <1>12,
     <1>13, <1>14, <1>15, <1>16, <1>17, <1>18, <1>19
     DEF Next, ListenerNext, SessionStep, RowStep

LEMMA StepInv == IInv /\ [Next]_vars => IInv'
  BY StepType, StepDown, StepComesBack, StepNoOrphan DEF IInv

LEMMA Invariance == Spec => []IInv
<1>1. Init => IInv
  BY InitType, InitInv DEF IInv
<1>. QED  BY <1>1, StepInv, PTL DEF Spec

\* A listener that lost its client always has a reconnect coming.
THEOREM ComesBack == Spec => []ListenerComesBack
  BY Invariance, PTL DEF IInv

\* No running replica ever forgets a row nobody has claimed.
THEOREM NothingOrphaned == Spec => []NoOrphan
  BY Invariance, PTL DEF IInv
===============================================================================
