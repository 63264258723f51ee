------------------------ MODULE AccountErasureProofs ------------------------
(***************************************************************************)
(* Proofs about AccountErasure, for any number of members, workers,        *)
(* providers, targets and faults: types, the completeness of a completed   *)
(* deletion, the harmlessness of a cancelled one, the life of the handoff, *)
(* the action properties of evidence, file queue and operator takeover,    *)
(* and that the whole keeps the contract of DeletionContract.              *)
(***************************************************************************)
EXTENDS AccountErasure, TLAPS

\* What a worker that is at one of these steps knows of the request: a request
\* it fetched exists, one past the recheck is started for good, the processor
\* was asked for all that is left, and evidence follows verified targets.
Fetched(w) ==
    /\ \A m \in queue[w] : status[m] # "none"
    /\ pc[w] \notin {"idle", "next"} => status[cur[w]] # "none"
Committed(w) ==
    /\ pc[w] = "recheck" => status[cur[w]] # "pending"
    /\ pc[w] \in {"prepare", "preserve", "handoff", "erase", "files", "external", "begin", "calling", "evidence",
                  "finish"}
         => status[cur[w]] \in {"processing", "completed"}
AskedForAll(w) ==
    /\ pc[w] = "calling" => Unverified(cur[w]) \subseteq asked[w]
    /\ pc[w] = "evidence" => AllVerified(cur[w])

\* What the tables say of a request, whoever works on it.
ProofIsReal == \A k \in Links : outbox[k] \in Outbox!Proof => revoked[k]

UntouchedBeforeStart ==
    \A m \in Members : status[m] \in {"none", "pending", "cancelled"} =>
        /\ member[m] # "erased" /\ ~evidence[m]
        /\ \A p \in Providers : outbox[<<m, p>>] = "ABSENT" /\ ~revoked[<<m, p>>]

ErasedOwesNothing ==
    \A m \in Members : member[m] = "erased" => \A p \in required[m] : revoked[<<m, p>>]

(***************************************************************************)
(* The inductive invariant.  None of the safety properties is inductive:   *)
(* what a worker does at a step is only right because of what it knew when *)
(* it got there (the lock may be lost in between), and what a completed    *)
(* request proves rests on what the outbox and the erased account do.      *)
(***************************************************************************)
IInv ==
    /\ TypeOK
    /\ \A w \in Workers : Fetched(w) /\ Committed(w) /\ AskedForAll(w)
    /\ ProofIsReal
    /\ UntouchedBeforeStart
    /\ ErasedOwesNothing
    /\ CompletedMeansErased
    /\ CancelledMeansUntouched
    /\ HandoffSurvivesErasure
-----------------------------------------------------------------------------
USE DEF Set, GoTo
USE ConstantsAssumption

\* There is an account.
LEMMA NoMemberType == NoMember \in Members
  BY DEF NoMember

\* The initial tables and workers are well typed.
LEMMA TypeInit == Init => TypeOK
<1> SUFFICES ASSUME Init PROVE TypeOK
  OBVIOUS
<1>2. AccountType /\ RequestType /\ JobType /\ HandoffType
  BY DEF Init, AccountType, RequestType, JobType, HandoffType, TargetStates
<1>3. LinkType
  BY DEF Init, LinkType, Outbox!Init, Outbox!Statuses
<1>4. WorkerType /\ faults \in 0..MaxFaults
  BY NoMemberType DEF Init, WorkerType, Steps
<1> QED
  BY <1>2, <1>3, <1>4 DEF TypeOK

\* Every operator control keeps the types.
LEMMA OperatorType ==
    ASSUME TypeOK, NEW m \in Members, OperatorStep(m) PROVE TypeOK'
<1> USE DEF TypeOK, AccountType, RequestType, JobType, HandoffType, LinkType, WorkerType,
            account, request, job, handoff, links, batch
<1>1. ASSUME Cancel(m) PROVE TypeOK'
  BY <1>1 DEF Cancel
<1>2. ASSUME StartManually(m) PROVE TypeOK'
  BY <1>2 DEF StartManually, Start, Outbox!Enqueue, Outbox!Statuses
<1>3. ASSUME CompleteManually(m) PROVE TypeOK'
  BY <1>3 DEF CompleteManually, Close, Outbox!Forget, Outbox!Statuses, ReceiptFinished, TargetStates
<1>4. ASSUME NEW new \in {"automatic", "manual"}, SetErasureMode(m, new) PROVE TypeOK'
  BY <1>4 DEF SetErasureMode, Requeued
<1>5. ASSUME NEW action \in {"expedite", "schedule", "retry_social"}, ControlSchedule(m, action) PROVE TypeOK'
  BY <1>5 DEF ControlSchedule, Requeued, Retried, Retriable, Outbox!Statuses
<1>6. ASSUME NEW t \in Targets, NEW result \in {"manual", "complete"},
             ReviewErasureTarget(m, t, result)
      PROVE  TypeOK'
  BY <1>6 DEF ReviewErasureTarget, Requeued, Recorded, TargetStates
<1>7. ASSUME NEW new \in {"not_required", "active", "completed"}, ResolveReceiptWork(m, new) PROVE TypeOK'
  BY <1>7 DEF ResolveReceiptWork, Requeued
<1>8. ASSUME ReviewHold(m) PROVE TypeOK'
  BY <1>8 DEF ReviewHold
<1>9. ASSUME QueueHistoricalFiles(m) PROVE TypeOK'
  <2>1. target' \in [Members -> [Targets -> TargetStates]]
    BY <1>9 DEF QueueHistoricalFiles, TargetStates
  <2>2. faults' \in 0..MaxFaults
    BY <1>9 DEF QueueHistoricalFiles, Fault
  <2> QED
    BY <1>9, <2>1, <2>2 DEF QueueHistoricalFiles, Requeued
<1>10. ASSUME EraseByHand(m) PROVE TypeOK'
  BY <1>10 DEF EraseByHand
<1>11. ASSUME UpdateMemberStatus(m) PROVE TypeOK'
  BY <1>11 DEF UpdateMemberStatus, Fault
<1> HIDE DEF TypeOK
<1> QED
  BY <1>1, <1>2, <1>3, <1>4, <1>5, <1>6, <1>7, <1>8, <1>9, <1>10, <1>11 DEF OperatorStep

\* Recording results keeps every target in a known state.
LEMMA RecordedType ==
    ASSUME HandoffType, NEW m \in Members, NEW result, \A t \in DOMAIN result : result[t] \in TargetStates
    PROVE  Recorded(m, result) \in [Targets -> TargetStates]
  BY DEF HandoffType, Recorded

\* A group of variables that a step leaves alone keeps its types.
LEMMA TypeFrames ==
    /\ AccountType /\ UNCHANGED account => AccountType'
    /\ RequestType /\ UNCHANGED request => RequestType'
    /\ JobType /\ UNCHANGED job => JobType'
    /\ HandoffType /\ UNCHANGED handoff => HandoffType'
    /\ LinkType /\ UNCHANGED links => LinkType'
    /\ WorkerType /\ UNCHANGED <<lock, pc, batch>> => WorkerType'
  BY DEF AccountType, RequestType, JobType, HandoffType, LinkType, WorkerType,
         account, request, job, handoff, links, batch

\* Every step of a worker keeps the types.
LEMMA WorkerStepType ==
    ASSUME TypeOK, NEW w \in Workers, WorkerStep(w) PROVE TypeOK'
<1>0. /\ AccountType /\ RequestType /\ JobType /\ HandoffType /\ LinkType /\ WorkerType
      /\ faults \in 0..MaxFaults /\ cur[w] \in Members
  BY DEF TypeOK, WorkerType
<1>1. ASSUME RunOnce(w) PROVE TypeOK'
  <2>1. WorkerType'
    BY <1>0, <1>1 DEF RunOnce, WorkerType, batch, Steps
  <2> QED
    BY <1>0, <1>1, <2>1, TypeFrames DEF RunOnce, TypeOK
<1>2. ASSUME NextRequest(w) PROVE TypeOK'
  <2>1. WorkerType'
    BY <1>0, <1>2 DEF NextRequest, WorkerType, batch, Steps
  <2> QED
    BY <1>0, <1>2, <2>1, TypeFrames DEF NextRequest, TypeOK
<1>3. ASSUME EndBatch(w) PROVE TypeOK'
  <2>1. WorkerType'
    BY <1>0, <1>3, NoMemberType DEF EndBatch, DropBatch, WorkerType, batch, Steps
  <2> QED
    BY <1>0, <1>3, <2>1, TypeFrames DEF EndBatch, TypeOK
<1>4. ASSUME CheckActive(w) PROVE TypeOK'
  <2>1. WorkerType'
    BY <1>0, <1>4 DEF CheckActive, Decide, WorkerType, batch, Steps
  <2> QED
    BY <1>0, <1>4, <2>1, TypeFrames DEF CheckActive, Decide, TypeOK
<1>5. ASSUME StartAutomatically(w) PROVE TypeOK'
  <2>1. RequestType'
    BY <1>0, <1>5 DEF StartAutomatically, Start, RequestType, request
  <2>2. LinkType'
    BY <1>0, <1>5 DEF StartAutomatically, Start, LinkType, links, Outbox!Enqueue, Outbox!Statuses
  <2>3. WorkerType'
    BY <1>0, <1>5 DEF StartAutomatically, Start, WorkerType, batch, Steps
  <2> QED
    BY <1>0, <1>5, <2>1, <2>2, <2>3, TypeFrames DEF StartAutomatically, TypeOK
<1>6. ASSUME Recheck(w) PROVE TypeOK'
  <2>1. WorkerType'
    BY <1>0, <1>6 DEF Recheck, Decide, WorkerType, batch, Steps
  <2> QED
    BY <1>0, <1>6, <2>1, TypeFrames DEF Recheck, Decide, TypeOK
<1>7. ASSUME PrepareErasure(w) PROVE TypeOK'
  <2>1. AccountType'
    BY <1>0, <1>7 DEF PrepareErasure, AccountType, account
  <2>2. HandoffType'
    BY <1>0, <1>7 DEF PrepareErasure, HandoffType, handoff
  <2>3. WorkerType'
    BY <1>0, <1>7 DEF PrepareErasure, WorkerType, batch, Steps
  <2> QED
    BY <1>0, <1>7, <2>1, <2>2, <2>3, TypeFrames DEF PrepareErasure, TypeOK
<1>8. ASSUME PreserveContext(w) PROVE TypeOK'
  <2>1. HandoffType'
    BY <1>0, <1>8 DEF PreserveContext, HandoffType, handoff
  <2>2. WorkerType'
    BY <1>0, <1>8 DEF PreserveContext, WorkerType, batch, Steps
  <2> QED
    BY <1>0, <1>8, <2>1, <2>2, TypeFrames DEF PreserveContext, TypeOK
<1>9. ASSUME ExternalReady(w) PROVE TypeOK'
  <2>1. WorkerType'
    BY <1>0, <1>9 DEF ExternalReady, Decide, WorkerType, batch, Steps
  <2> QED
    BY <1>0, <1>9, <2>1, TypeFrames DEF ExternalReady, Decide, TypeOK
<1>10. ASSUME EraseDatabase(w) PROVE TypeOK'
  <2>1. AccountType'
    BY <1>0, <1>10
         DEF EraseDatabase, QueueErasureFiles, EraseDonations, EraseAccountReferences, AccountType, account
  <2>2. JobType'
    BY <1>0, <1>10 DEF EraseDatabase, QueueErasureFiles, EraseDonations, EraseAccountReferences, JobType, job
  <2>3. HandoffType'
    BY <1>0, <1>10
         DEF EraseDatabase, QueueErasureFiles, EraseDonations, EraseAccountReferences, HandoffType, handoff
  <2>4. WorkerType'
    BY <1>0, <1>10
         DEF EraseDatabase, QueueErasureFiles, EraseDonations, EraseAccountReferences, WorkerType, batch, Steps
  <2> QED
    BY <1>0, <1>10, <2>1, <2>2, <2>3, <2>4, TypeFrames DEF EraseDatabase, TypeOK
<1>11. ASSUME EraseFiles(w) PROVE TypeOK'
  <2>1. HandoffType'
    BY <1>0, <1>11 DEF EraseFiles, HandoffType, handoff
  <2>2. WorkerType'
    BY <1>0, <1>11 DEF EraseFiles, WorkerType, batch, Steps
  <2> QED
    BY <1>0, <1>11, <2>1, <2>2, TypeFrames DEF EraseFiles, TypeOK
<1>12. ASSUME ProcessExternal(w) PROVE TypeOK'
  <2>1. WorkerType'
    BY <1>0, <1>12 DEF ProcessExternal, Decide, WorkerType, batch, Steps
  <2> QED
    BY <1>0, <1>12, <2>1, TypeFrames DEF ProcessExternal, Decide, TypeOK
<1>13. ASSUME BeginErasureTargets(w) PROVE TypeOK'
  <2>1. HandoffType'
    <3>1. Recorded(cur[w], [t \in Unverified(cur[w]) |-> "running"]) \in [Targets -> TargetStates]
      BY <1>0, RecordedType DEF TargetStates
    <3> QED
      BY <1>0, <1>13, <3>1 DEF BeginErasureTargets, HandoffType
  <2>2. WorkerType'
    BY <1>0, <1>13 DEF BeginErasureTargets, Unverified, WorkerType, batch, Steps
  <2> QED
    BY <1>0, <1>13, <2>1, <2>2, TypeFrames DEF BeginErasureTargets, TypeOK
<1>14. ASSUME RecordTargets(w) PROVE TypeOK'
  <2>1. HandoffType'
    <3>1. PICK result \in [asked[w] -> {"failed", "pending", "manual", "complete"}] :
            \/ target' = Set(target, cur[w], Recorded(cur[w], result))
            \/ UNCHANGED target
      BY <1>14 DEF RecordTargets
    <3>2. Recorded(cur[w], result) \in [Targets -> TargetStates]
      BY <1>0, RecordedType DEF TargetStates
    <3> QED
      BY <1>0, <1>14, <3>1, <3>2 DEF RecordTargets, HandoffType
  <2>2. WorkerType'
    BY <1>0, <1>14 DEF RecordTargets, WorkerType, batch, Steps
  <2> QED
    BY <1>0, <1>14, <2>1, <2>2, TypeFrames DEF RecordTargets, TypeOK
<1>15. ASSUME RecordExternalErasure(w) PROVE TypeOK'
  <2>1. JobType'
    BY <1>0, <1>15 DEF RecordExternalErasure, JobType, job
  <2>2. HandoffType'
    <3>1. [t \in Targets |-> "complete"] \in [Targets -> TargetStates]
      BY DEF TargetStates
    <3> QED
      BY <1>0, <1>15, <3>1 DEF RecordExternalErasure, HandoffType, handoff
  <2>3. WorkerType'
    BY <1>0, <1>15 DEF RecordExternalErasure, WorkerType, batch, Steps
  <2> QED
    BY <1>0, <1>15, <2>1, <2>2, <2>3, TypeFrames DEF RecordExternalErasure, TypeOK
<1>16. ASSUME FinishAutomaticErasure(w) PROVE TypeOK'
  <2>1. RequestType'
    BY <1>0, <1>16 DEF FinishAutomaticErasure, Close, RequestType, request
  <2>2. JobType'
    BY <1>0, <1>16 DEF FinishAutomaticErasure, Close, JobType, job
  <2>3. HandoffType'
    BY <1>0, <1>16 DEF FinishAutomaticErasure, Close, HandoffType, handoff
  <2>4. LinkType'
    BY <1>0, <1>16 DEF FinishAutomaticErasure, Close, LinkType, links, Outbox!Forget, Outbox!Statuses
  <2>5. WorkerType'
    BY <1>0, <1>16 DEF FinishAutomaticErasure, Close, WorkerType, batch, Steps
  <2> QED
    BY <1>0, <1>16, <2>1, <2>2, <2>3, <2>4, <2>5, TypeFrames DEF FinishAutomaticErasure, TypeOK
<1>17. ASSUME ErasureRetry(w) PROVE TypeOK'
  <2>1. JobType'
    BY <1>0, <1>17 DEF ErasureRetry, JobType, job
  <2>2. WorkerType'
    BY <1>0, <1>17 DEF ErasureRetry, WorkerType, batch, Steps
  <2> QED
    BY <1>0, <1>17, <2>1, <2>2, TypeFrames DEF ErasureRetry, TypeOK
<1> QED
  BY <1>1, <1>2, <1>3, <1>4, <1>5, <1>6, <1>7, <1>8, <1>9, <1>10, <1>11, <1>12, <1>13, <1>14, <1>15, <1>16, <1>17
       DEF WorkerStep

\* Every step keeps the types.
LEMMA TypeStep == TypeOK /\ [Next]_vars => TypeOK'
<1> SUFFICES ASSUME TypeOK, [Next]_vars PROVE TypeOK'
  OBVIOUS
<1>0. /\ AccountType /\ RequestType /\ JobType /\ HandoffType /\ LinkType /\ WorkerType
      /\ faults \in 0..MaxFaults
  BY DEF TypeOK
<1>1. ASSUME NEW w \in Workers, WorkerStep(w) PROVE TypeOK'
  BY <1>1, WorkerStepType
<1>2. ASSUME NEW w \in Workers, StatementFails(w) \/ Crash(w) \/ LoseLock(w) PROVE TypeOK'
  <2>1. WorkerType'
    BY <1>0, <1>2, NoMemberType DEF StatementFails, Crash, LoseLock, DropBatch, WorkerType, batch, Steps
  <2>2. faults' \in 0..MaxFaults
    BY <1>0, <1>2 DEF StatementFails, Crash, LoseLock, Fault
  <2> QED
    BY <1>0, <1>2, <2>1, <2>2, TypeFrames DEF StatementFails, Crash, LoseLock, TypeOK
<1>3. ASSUME NEW m \in Members, OperatorStep(m) PROVE TypeOK'
  BY <1>3, OperatorType
<1>4. ASSUME NEW m \in Members, CreateReceipt(m) PROVE TypeOK'
  BY <1>0, <1>4, TypeFrames DEF CreateReceipt, TypeOK, AccountType, RequestType, JobType, HandoffType, TargetStates
<1>5. ASSUME NEW m \in Members, NEW p \in Providers, Unlink(m, p) PROVE TypeOK'
  BY <1>0, <1>5, TypeFrames DEF Unlink, TypeOK, AccountType, Fault
<1>6. ASSUME NEW m \in Members, DonationChanges(m) \/ LateWrite(m) PROVE TypeOK'
  <2>1. CASE DonationChanges(m)
    <3>1. PICK linked \in BOOLEAN : donor' = Set(donor, m, donor[m] \/ linked)
      BY <2>1 DEF DonationChanges
    <3>2. donor[m] \/ linked \in BOOLEAN
      OBVIOUS
    <3> QED
      BY <1>0, <2>1, <3>1, <3>2, TypeFrames DEF DonationChanges, AccountType, Fault, TypeOK
  <2>2. CASE LateWrite(m)
    BY <1>0, <2>2, TypeFrames DEF LateWrite, AccountType, Fault, TypeOK
  <2> QED
    BY <1>6, <2>1, <2>2
<1>7. ASSUME NEW m \in Members, ScheduleComes(m) \/ ContextExpires(m) \/ PurgeContext(m) PROVE TypeOK'
  <2>1. JobType'
    BY <1>0, <1>7, TypeFrames DEF ScheduleComes, ContextExpires, PurgeContext, JobType
  <2>2. HandoffType'
    BY <1>0, <1>7, TypeFrames DEF ScheduleComes, ContextExpires, PurgeContext, HandoffType
  <2> QED
    BY <1>0, <1>7, <2>1, <2>2, TypeFrames DEF ScheduleComes, ContextExpires, PurgeContext, TypeOK
<1>8. ASSUME NEW k \in Links, RevocationStep(k) PROVE TypeOK'
  <2>1. LinkType'
    BY <1>0, <1>8 DEF RevocationStep, Outbox!Revoke, Outbox!Report, LinkType
  <2> QED
    BY <1>0, <1>8, <2>1, TypeFrames DEF RevocationStep, TypeOK
<1>9. ASSUME UNCHANGED vars PROVE TypeOK'
  BY <1>0, <1>9, TypeFrames DEF vars, TypeOK
<1> QED
  BY <1>1, <1>2, <1>3, <1>4, <1>5, <1>6, <1>7, <1>8, <1>9 DEF Next

-----------------------------------------------------------------------------
\* What the tables say of the accounts and their deletions, without the
\* schedule and without what the workers remember.
tables == <<account, request, stage, evidence, handoff, links>>

\* The steps that write one of these tables.
WorkerWrite(w) ==
    \/ StartAutomatically(w) \/ PrepareErasure(w) \/ PreserveContext(w) \/ EraseDatabase(w) \/ EraseFiles(w)
    \/ BeginErasureTargets(w) \/ RecordTargets(w) \/ RecordExternalErasure(w) \/ FinishAutomaticErasure(w)

OperatorWrite(m) ==
    \/ Cancel(m) \/ StartManually(m) \/ CompleteManually(m)
    \/ \E action \in {"expedite", "schedule", "retry_social"} : ControlSchedule(m, action)
    \/ \E t \in Targets, result \in {"manual", "complete"} : ReviewErasureTarget(m, t, result)
    \/ \E new \in {"not_required", "active", "completed"} : ResolveReceiptWork(m, new)
    \/ ReviewHold(m) \/ QueueHistoricalFiles(m) \/ EraseByHand(m) \/ UpdateMemberStatus(m)

AccountWrite(m) ==
    \/ CreateReceipt(m) \/ (\E p \in Providers : Unlink(m, p)) \/ DonationChanges(m) \/ LateWrite(m)
    \/ ContextExpires(m) \/ PurgeContext(m)

\* Every other step leaves the tables alone.
LEMMA WritesOrKeeps ==
    ASSUME [Next]_vars
    PROVE  \/ UNCHANGED tables
           \/ \E w \in Workers : WorkerWrite(w)
           \/ \E m \in Members : OperatorWrite(m) \/ AccountWrite(m)
           \/ \E k \in Links : RevocationStep(k)
<1>1. ASSUME NEW w \in Workers,
             \/ RunOnce(w) \/ NextRequest(w) \/ EndBatch(w) \/ CheckActive(w) \/ Recheck(w)
             \/ ExternalReady(w) \/ ProcessExternal(w) \/ ErasureRetry(w)
             \/ StatementFails(w) \/ Crash(w) \/ LoseLock(w)
      PROVE  UNCHANGED tables
  BY <1>1 DEF RunOnce, NextRequest, EndBatch, CheckActive, Recheck, ExternalReady, ProcessExternal, ErasureRetry,
              StatementFails, Crash, LoseLock, Decide, tables, job
<1>2. ASSUME NEW m \in Members,
             ScheduleComes(m) \/ \E new \in {"automatic", "manual"} : SetErasureMode(m, new)
      PROVE  UNCHANGED tables
  BY <1>2 DEF ScheduleComes, SetErasureMode, tables
<1>3. ASSUME UNCHANGED vars PROVE UNCHANGED tables
  BY <1>3 DEF vars, tables, job
<1> QED
  BY <1>1, <1>2, <1>3 DEF Next, WorkerStep, OperatorStep, WorkerWrite, OperatorWrite, AccountWrite

\* The types a step needs.
LEMMA Typed ==
    ASSUME IInv
    PROVE  /\ AccountType /\ RequestType /\ JobType /\ HandoffType /\ LinkType /\ WorkerType
           /\ \A w \in Workers : cur[w] \in Members
           /\ \A m \in Members, p \in Providers : <<m, p>> \in Links
  BY DEF IInv, TypeOK, WorkerType, Links

\* A request only moves forward.
LEMMA StatusMoves ==
    ASSUME IInv, [Next]_vars, NEW x \in Members
    PROVE  \/ status'[x] = status[x]
           \/ status[x] = "none" /\ status'[x] = "pending"
           \/ status[x] = "pending" /\ status'[x] \in {"cancelled", "processing"}
           \/ status[x] = "processing" /\ status'[x] = "completed"
<1> DEFINE Moves == \/ status'[x] = status[x]
                    \/ status[x] = "none" /\ status'[x] = "pending"
                    \/ status[x] = "pending" /\ status'[x] \in {"cancelled", "processing"}
                    \/ status[x] = "processing" /\ status'[x] = "completed"
<1>0. RequestType /\ \A w \in Workers : cur[w] \in Members
  BY Typed
<1>f. ASSUME UNCHANGED <<status>> PROVE Moves
  BY <1>0, <1>f
<1>1. ASSUME NEW w \in Workers, StartAutomatically(w) PROVE Moves
  BY <1>0, <1>1 DEF StartAutomatically, Start, RequestType
<1>2. ASSUME NEW w \in Workers, FinishAutomaticErasure(w) PROVE Moves
  BY <1>0, <1>2 DEF FinishAutomaticErasure, Completable, Close, RequestType
<1>3. ASSUME NEW m \in Members, Cancel(m) PROVE Moves
  BY <1>0, <1>3 DEF Cancel, RequestType
<1>4. ASSUME NEW m \in Members, StartManually(m) PROVE Moves
  BY <1>0, <1>4 DEF StartManually, Start, RequestType
<1>5. ASSUME NEW m \in Members, CompleteManually(m) PROVE Moves
  BY <1>0, <1>5 DEF CompleteManually, Close, RequestType
<1>6. ASSUME NEW m \in Members, CreateReceipt(m) PROVE Moves
  BY <1>0, <1>6 DEF CreateReceipt, RequestType
<1>7. ASSUME NEW w \in Workers,
             \/ PrepareErasure(w) \/ PreserveContext(w) \/ EraseDatabase(w) \/ EraseFiles(w)
             \/ BeginErasureTargets(w) \/ RecordTargets(w) \/ RecordExternalErasure(w)
      PROVE  Moves
  BY <1>f, <1>7
     DEF PrepareErasure, PreserveContext, EraseDatabase, EraseFiles, BeginErasureTargets, RecordTargets,
         RecordExternalErasure, account, request
<1>8. ASSUME NEW m \in Members,
             \/ (\E action \in {"expedite", "schedule", "retry_social"} : ControlSchedule(m, action))
             \/ (\E t \in Targets, result \in {"manual", "complete"} : ReviewErasureTarget(m, t, result))
             \/ (\E new \in {"not_required", "active", "completed"} : ResolveReceiptWork(m, new))
             \/ ReviewHold(m) \/ QueueHistoricalFiles(m) \/ EraseByHand(m) \/ UpdateMemberStatus(m)
      PROVE  Moves
  BY <1>f, <1>8
     DEF ControlSchedule, ReviewErasureTarget, ResolveReceiptWork, ReviewHold, QueueHistoricalFiles, EraseByHand,
         UpdateMemberStatus, account, request
<1>9. ASSUME NEW m \in Members,
             \/ (\E p \in Providers : Unlink(m, p)) \/ DonationChanges(m) \/ LateWrite(m) \/ ContextExpires(m)
             \/ PurgeContext(m)
      PROVE  Moves
  BY <1>f, <1>9
     DEF Unlink, DonationChanges, LateWrite, ContextExpires, PurgeContext, account, request
<1>10. ASSUME NEW k \in Links, RevocationStep(k) PROVE Moves
  BY <1>f, <1>10 DEF RevocationStep, account, request, job, handoff
<1>11. ASSUME UNCHANGED tables PROVE Moves
  BY <1>f, <1>11 DEF tables, account, request
<1> QED
  BY <1>1, <1>2, <1>3, <1>4, <1>5, <1>6, <1>7, <1>8, <1>9, <1>10, <1>11, WritesOrKeeps
     DEF WorkerWrite, OperatorWrite, AccountWrite

\* A target that is verified stays so, once the request is made.
LEMMA VerifiedStays ==
    ASSUME IInv, [Next]_vars, NEW x \in Members, status[x] # "none"
    PROVE  \A u \in Targets : target[x][u] = "complete" => target'[x][u] = "complete"
<1> DEFINE Kept == \A u \in Targets : target[x][u] = "complete" => target'[x][u] = "complete"
<1>0. HandoffType /\ \A w \in Workers : cur[w] \in Members
  BY Typed
<1>f. ASSUME UNCHANGED <<target>> PROVE Kept
  BY <1>0, <1>f
<1>1. ASSUME NEW w \in Workers, BeginErasureTargets(w) PROVE Kept
  BY <1>0, <1>1 DEF BeginErasureTargets, Recorded, HandoffType
<1>2. ASSUME NEW w \in Workers, RecordTargets(w) PROVE Kept
  <2>1. PICK result \in [asked[w] -> {"failed", "pending", "manual", "complete"}] :
          target' = Set(target, cur[w], Recorded(cur[w], result)) \/ UNCHANGED target
    BY <1>2 DEF RecordTargets
  <2> QED
    BY <1>0, <1>f, <2>1 DEF Recorded, HandoffType
<1>3. ASSUME NEW w \in Workers, RecordExternalErasure(w) PROVE Kept
  BY <1>0, <1>3 DEF RecordExternalErasure, HandoffType
<1>4. ASSUME NEW m \in Members, CompleteManually(m) PROVE Kept
  BY <1>0, <1>4 DEF CompleteManually, HandoffType
<1>5. ASSUME NEW m \in Members, NEW t \in Targets, NEW result \in {"manual", "complete"},
             ReviewErasureTarget(m, t, result)
      PROVE  Kept
  BY <1>0, <1>5 DEF ReviewErasureTarget, Recorded, HandoffType
<1>6. ASSUME NEW m \in Members, QueueHistoricalFiles(m) PROVE Kept
  BY <1>0, <1>6 DEF QueueHistoricalFiles, HandoffType
<1>7. ASSUME NEW m \in Members, CreateReceipt(m) PROVE Kept
  BY <1>0, <1>7 DEF CreateReceipt, HandoffType
<1>8. ASSUME NEW w \in Workers,
             \/ StartAutomatically(w) \/ PrepareErasure(w) \/ PreserveContext(w) \/ EraseDatabase(w)
             \/ EraseFiles(w) \/ FinishAutomaticErasure(w)
      PROVE  Kept
  BY <1>f, <1>8
     DEF StartAutomatically, PrepareErasure, PreserveContext, EraseDatabase, EraseFiles, FinishAutomaticErasure,
         account, handoff
<1>9. ASSUME NEW m \in Members,
             \/ Cancel(m) \/ StartManually(m)
             \/ (\E action \in {"expedite", "schedule", "retry_social"} : ControlSchedule(m, action))
             \/ (\E new \in {"not_required", "active", "completed"} : ResolveReceiptWork(m, new))
             \/ ReviewHold(m) \/ EraseByHand(m) \/ UpdateMemberStatus(m)
      PROVE  Kept
  BY <1>f, <1>9
     DEF Cancel, StartManually, ControlSchedule, ResolveReceiptWork, ReviewHold, EraseByHand, UpdateMemberStatus,
         account, handoff
<1>10. ASSUME NEW m \in Members,
             \/ (\E p \in Providers : Unlink(m, p)) \/ DonationChanges(m) \/ LateWrite(m) \/ ContextExpires(m)
             \/ PurgeContext(m)
      PROVE  Kept
  BY <1>f, <1>10
     DEF Unlink, DonationChanges, LateWrite, ContextExpires, PurgeContext, account, handoff
<1>11. ASSUME NEW k \in Links, RevocationStep(k) PROVE Kept
  BY <1>f, <1>11 DEF RevocationStep, account, request, job, handoff
<1>12. ASSUME UNCHANGED tables PROVE Kept
  BY <1>f, <1>12 DEF tables, account, handoff
<1> QED
  BY <1>1, <1>2, <1>3, <1>4, <1>5, <1>6, <1>7, <1>8, <1>9, <1>10, <1>11, <1>12, WritesOrKeeps
     DEF WorkerWrite, OperatorWrite, AccountWrite

\* What a worker knows of its request stays true, whatever the others do.
LEMMA KnowledgeStep ==
    ASSUME IInv, [Next]_vars, NEW v \in Workers
    PROVE  (Fetched(v) /\ Committed(v) /\ AskedForAll(v))'
<1> DEFINE Knows == Fetched(v) /\ Committed(v) /\ AskedForAll(v)
<1>0. /\ RequestType /\ HandoffType /\ WorkerType /\ cur[v] \in Members /\ queue[v] \subseteq Members
      /\ Fetched(v) /\ Committed(v) /\ AskedForAll(v)
  BY Typed DEF IInv, WorkerType
<1>1. /\ \A m \in queue[v] : status'[m] # "none"
      /\ pc[v] \notin {"idle", "next"} => status'[cur[v]] # "none"
  BY <1>0, StatusMoves DEF Fetched
<1>2. status[cur[v]] \in {"processing", "completed"} => status'[cur[v]] \in {"processing", "completed"}
  BY <1>0, StatusMoves
<1>3. pc[v] = "recheck" => status'[cur[v]] # "pending"
  BY <1>0, StatusMoves DEF Fetched, Committed
<1>4. pc[v] \notin {"idle", "next"} =>
        \A u \in Targets : target[cur[v]][u] = "complete" => target'[cur[v]][u] = "complete"
  BY <1>0, VerifiedStays DEF Fetched
<1>5. ASSUME pc'[v] = pc[v], cur'[v] = cur[v], queue'[v] = queue[v], asked'[v] = asked[v] PROVE Knows'
  BY <1>0, <1>1, <1>2, <1>3, <1>4, <1>5 DEF Fetched, Committed, AskedForAll, Unverified, AllVerified
<1>6. ASSUME NEW w \in Workers, w # v, WorkerStep(w) \/ StatementFails(w) \/ Crash(w) \/ LoseLock(w) PROVE Knows'
  <2>1. pc'[v] = pc[v] /\ cur'[v] = cur[v] /\ queue'[v] = queue[v] /\ asked'[v] = asked[v]
    BY <1>0, <1>6
         DEF WorkerType, WorkerStep, StatementFails, Crash, LoseLock, DropBatch, RunOnce, NextRequest, EndBatch,
          CheckActive, StartAutomatically, Recheck, PrepareErasure, PreserveContext, ExternalReady,
          EraseDatabase, EraseFiles,
          ProcessExternal, BeginErasureTargets, RecordTargets, RecordExternalErasure, FinishAutomaticErasure,
          ErasureRetry, Decide, batch
  <2> QED
    BY <1>5, <2>1
<1>7. ASSUME NEW m \in Members, OperatorStep(m) \/ AccountWrite(m) \/ ScheduleComes(m) PROVE Knows'
  <2>1. UNCHANGED <<pc, batch>>
    BY <1>7 DEF OperatorStep, AccountWrite, ScheduleComes, Cancel, StartManually, CompleteManually, SetErasureMode,
          ControlSchedule, ReviewErasureTarget, ResolveReceiptWork, ReviewHold, QueueHistoricalFiles, EraseByHand,
          UpdateMemberStatus, CreateReceipt, Unlink, DonationChanges, LateWrite, ContextExpires, PurgeContext
  <2> QED
    BY <1>5, <2>1 DEF batch
<1>8. ASSUME NEW k \in Links, RevocationStep(k) PROVE Knows'
  BY <1>5, <1>8 DEF RevocationStep, batch
<1>9. ASSUME UNCHANGED vars PROVE Knows'
  BY <1>5, <1>9 DEF vars, batch
<1>10. ASSUME RunOnce(v) PROVE Knows'
  BY <1>0, <1>1, <1>2, <1>3, <1>4, <1>10
     DEF RunOnce, Due, Open, WorkerType, Fetched, Committed, AskedForAll, batch, AllVerified, request
<1>11. ASSUME NextRequest(v) PROVE Knows'
  BY <1>0, <1>1, <1>2, <1>3, <1>4, <1>11
     DEF NextRequest, WorkerType, Fetched, Committed, AskedForAll, batch, AllVerified, request
<1>12. ASSUME EndBatch(v) PROVE Knows'
  BY <1>0, <1>1, <1>2, <1>3, <1>4, <1>12, NoMemberType
     DEF EndBatch, DropBatch, WorkerType, Fetched, Committed, AskedForAll, batch, AllVerified, request
<1>13. ASSUME CheckActive(v) PROVE Knows'
  BY <1>0, <1>1, <1>2, <1>3, <1>4, <1>13
     DEF CheckActive, Decide, WorkerType, Fetched, Committed, AskedForAll, batch, AllVerified, request
<1>14. ASSUME StartAutomatically(v) PROVE Knows'
  BY <1>0, <1>1, <1>2, <1>3, <1>4, <1>14
     DEF StartAutomatically, Start, RequestType, WorkerType, Fetched, Committed, AskedForAll, batch, AllVerified
<1>15. ASSUME Recheck(v) PROVE Knows'
  BY <1>0, <1>1, <1>2, <1>3, <1>4, <1>15
     DEF Recheck, Decide, ErasureActive, Open, WorkerType, Fetched, Committed, AskedForAll, batch, AllVerified,
     request
<1>16. ASSUME PrepareErasure(v) PROVE Knows'
  BY <1>0, <1>1, <1>2, <1>3, <1>4, <1>16
     DEF PrepareErasure, WorkerType, Fetched, Committed, AskedForAll, batch, AllVerified, request
<1>17. ASSUME PreserveContext(v) PROVE Knows'
  BY <1>0, <1>1, <1>2, <1>3, <1>4, <1>17
     DEF PreserveContext, WorkerType, Fetched, Committed, AskedForAll, batch, AllVerified, request
<1>18. ASSUME ExternalReady(v) PROVE Knows'
  BY <1>0, <1>1, <1>2, <1>3, <1>4, <1>18
     DEF ExternalReady, Decide, WorkerType, Fetched, Committed, AskedForAll, batch, AllVerified, request
<1>19. ASSUME EraseDatabase(v) PROVE Knows'
  BY <1>0, <1>1, <1>2, <1>3, <1>4, <1>19
     DEF EraseDatabase, WorkerType, Fetched, Committed, AskedForAll, batch, AllVerified, request
<1>20. ASSUME EraseFiles(v) PROVE Knows'
  BY <1>0, <1>1, <1>2, <1>3, <1>4, <1>20
     DEF EraseFiles, WorkerType, Fetched, Committed, AskedForAll, batch, AllVerified, request
<1>21. ASSUME ProcessExternal(v) PROVE Knows'
  BY <1>0, <1>1, <1>2, <1>3, <1>4, <1>21
     DEF ProcessExternal, Decide, ErasureActive, Open, WorkerType, Fetched, Committed, AskedForAll, batch,
     AllVerified, request
<1>22. ASSUME BeginErasureTargets(v) PROVE Knows'
  <2>1. CASE pc'[v] = "calling"
    <3>1. asked'[v] = Unverified(cur[v]) /\ queue'[v] = queue[v] /\ cur'[v] = cur[v]
      BY <1>0, <1>22, <2>1 DEF BeginErasureTargets, WorkerType
    <3>2. Unverified(cur[v])' \subseteq Unverified(cur[v])
      BY <1>0, <1>4, <1>22, <3>1 DEF BeginErasureTargets, Unverified
    <3> QED
      BY <1>0, <1>1, <1>2, <1>22, <2>1, <3>1, <3>2
           DEF BeginErasureTargets, Fetched, Committed, AskedForAll, Unverified
  <2>2. CASE pc'[v] # "calling"
    BY <1>0, <1>1, <1>2, <1>22, <2>2
         DEF BeginErasureTargets, WorkerType, Fetched, Committed, AskedForAll, batch, AllVerified
  <2> QED
    BY <2>1, <2>2
<1>23. ASSUME RecordTargets(v) PROVE Knows'
  <2>1. cur'[v] = cur[v] /\ queue'[v] = queue[v] /\ pc'[v] \in {"evidence", "retry"} /\ pc[v] = "calling"
    BY <1>0, <1>23 DEF RecordTargets, WorkerType
  <2>2. ASSUME pc'[v] = "evidence" PROVE AllVerified(cur[v])'
    <3>1. PICK result \in [asked[v] -> {"failed", "pending", "manual", "complete"}] :
            /\ target' = Set(target, cur[v], Recorded(cur[v], result))
            /\ \A t \in asked[v] : result[t] = "complete"
      BY <1>0, <1>23, <2>2 DEF RecordTargets, WorkerType
    <3>2. \A t \in Targets : t \in asked[v] \/ target[cur[v]][t] = "complete"
      BY <1>0, <2>1 DEF AskedForAll, Unverified
    <3> QED
      BY <1>0, <2>1, <3>1, <3>2 DEF Recorded, AllVerified, HandoffType
  <2> QED
    BY <1>0, <1>1, <1>2, <2>1, <2>2 DEF Fetched, Committed, AskedForAll, AllVerified
<1>24. ASSUME RecordExternalErasure(v) PROVE Knows'
  BY <1>0, <1>1, <1>2, <1>3, <1>4, <1>24
     DEF RecordExternalErasure, HandoffType, AllVerified, Unverified, WorkerType, Fetched, Committed,
     AskedForAll, batch, request
<1>25. ASSUME FinishAutomaticErasure(v) PROVE Knows'
  BY <1>0, <1>1, <1>2, <1>3, <1>4, <1>25
     DEF FinishAutomaticErasure, Completable, Close, RequestType, WorkerType, Fetched, Committed, AskedForAll,
     batch, AllVerified
<1>26. ASSUME ErasureRetry(v) PROVE Knows'
  BY <1>0, <1>1, <1>2, <1>3, <1>4, <1>26
     DEF ErasureRetry, WorkerType, Fetched, Committed, AskedForAll, batch, AllVerified, request
<1>27. ASSUME StatementFails(v) PROVE Knows'
  BY <1>0, <1>1, <1>2, <1>3, <1>4, <1>27, NoMemberType
     DEF StatementFails, DropBatch, WorkerType, Fetched, Committed, AskedForAll, batch, AllVerified, request
<1>28. ASSUME Crash(v) PROVE Knows'
  BY <1>0, <1>1, <1>2, <1>3, <1>4, <1>28, NoMemberType
     DEF Crash, DropBatch, WorkerType, Fetched, Committed, AskedForAll, batch, AllVerified, request
<1>29. ASSUME LoseLock(v) PROVE Knows'
  BY <1>5, <1>29 DEF LoseLock, batch
<1>30. ASSUME WorkerStep(v) \/ StatementFails(v) \/ Crash(v) \/ LoseLock(v) PROVE Knows'
  BY <1>30, <1>10, <1>11, <1>12, <1>13, <1>14, <1>15, <1>16, <1>17, <1>18, <1>19, <1>20, <1>21, <1>22, <1>23,
     <1>24, <1>25, <1>26, <1>27, <1>28, <1>29 DEF WorkerStep
<1> QED
  BY <1>6, <1>7, <1>8, <1>9, <1>30 DEF Next, AccountWrite

\* A row that says the provider has revoked a link is right about it, and a
\* revoked link stays revoked.
LEMMA ProofStep ==
    ASSUME IInv, [Next]_vars, NEW x \in Links
    PROVE  /\ outbox'[x] \in Outbox!Proof => revoked'[x]
           /\ revoked[x] => revoked'[x]
<1> DEFINE Real == (outbox'[x] \in Outbox!Proof => revoked'[x]) /\ (revoked[x] => revoked'[x])
<1>0. LinkType /\ (outbox[x] \in Outbox!Proof => revoked[x])
  BY Typed DEF IInv, ProofIsReal
<1> USE DEF Outbox!Proof
<1>f. ASSUME UNCHANGED <<outbox, revoked>> PROVE Real
  BY <1>0, <1>f
<1>1. ASSUME NEW w \in Workers, StartAutomatically(w) PROVE Real
  BY <1>0, <1>1 DEF StartAutomatically, Start, Outbox!Enqueue, links
<1>2. ASSUME NEW w \in Workers, FinishAutomaticErasure(w) PROVE Real
  BY <1>0, <1>2 DEF FinishAutomaticErasure, Close, Outbox!Forget, links
<1>3. ASSUME NEW m \in Members, StartManually(m) PROVE Real
  BY <1>0, <1>3 DEF StartManually, Start, Outbox!Enqueue
<1>4. ASSUME NEW m \in Members, CompleteManually(m) PROVE Real
  BY <1>0, <1>4 DEF CompleteManually, Close, Outbox!Forget
<1>5. ASSUME NEW m \in Members, NEW action \in {"expedite", "schedule", "retry_social"}, ControlSchedule(m, action)
      PROVE  Real
  BY <1>0, <1>5 DEF ControlSchedule, Retried, Retriable
<1>6. ASSUME NEW w \in Workers,
             \/ PrepareErasure(w) \/ PreserveContext(w) \/ EraseDatabase(w) \/ EraseFiles(w)
             \/ BeginErasureTargets(w) \/ RecordTargets(w) \/ RecordExternalErasure(w)
      PROVE  Real
  BY <1>f, <1>6
     DEF PrepareErasure, PreserveContext, EraseDatabase, EraseFiles, BeginErasureTargets, RecordTargets,
         RecordExternalErasure, links
<1>7. ASSUME NEW m \in Members,
             \/ Cancel(m)
             \/ (\E t \in Targets, result \in {"manual", "complete"} : ReviewErasureTarget(m, t, result))
             \/ (\E new \in {"not_required", "active", "completed"} : ResolveReceiptWork(m, new))
             \/ ReviewHold(m) \/ QueueHistoricalFiles(m) \/ EraseByHand(m) \/ UpdateMemberStatus(m)
      PROVE  Real
  BY <1>f, <1>7
     DEF Cancel, ReviewErasureTarget, ResolveReceiptWork, ReviewHold, QueueHistoricalFiles, EraseByHand,
         UpdateMemberStatus, links
<1>8. ASSUME NEW m \in Members,
             \/ CreateReceipt(m) \/ (\E p \in Providers : Unlink(m, p)) \/ DonationChanges(m) \/ LateWrite(m)
             \/ ContextExpires(m) \/ PurgeContext(m)
      PROVE  Real
  BY <1>f, <1>8
     DEF CreateReceipt, Unlink, DonationChanges, LateWrite, ContextExpires, PurgeContext, links
<1>9. ASSUME NEW k \in Links, RevocationStep(k) PROVE Real
  BY <1>0, <1>9 DEF RevocationStep, Outbox!Revoke, Outbox!Report, LinkType
<1>10. ASSUME UNCHANGED tables PROVE Real
  BY <1>f, <1>10 DEF tables, links
<1> QED
  BY <1>1, <1>2, <1>3, <1>4, <1>5, <1>6, <1>7, <1>8, <1>9, <1>10, WritesOrKeeps
     DEF WorkerWrite, OperatorWrite, AccountWrite

\* Nothing that cannot be undone happens before a deletion is started.
LEMMA UntouchedStep ==
    ASSUME IInv, [Next]_vars PROVE UntouchedBeforeStart'
<1> SUFFICES ASSUME NEW x \in Members, status'[x] \in {"none", "pending", "cancelled"}
    PROVE  /\ member'[x] # "erased" /\ ~evidence'[x]
           /\ \A p \in Providers : outbox'[<<x, p>>] = "ABSENT" /\ ~revoked'[<<x, p>>]
  BY DEF UntouchedBeforeStart
<1> DEFINE Untouched == /\ member'[x] # "erased" /\ ~evidence'[x]
                        /\ \A p \in Providers : outbox'[<<x, p>>] = "ABSENT" /\ ~revoked'[<<x, p>>]
<1>0. /\ AccountType /\ RequestType /\ JobType /\ HandoffType /\ LinkType
      /\ \A w \in Workers : cur[w] \in Members /\ Committed(w)
      /\ \A m \in Members, p \in Providers : <<m, p>> \in Links
      /\ status[x] \in {"none", "pending", "cancelled"}
      /\ member[x] # "erased" /\ ~evidence[x]
      /\ \A p \in Providers : outbox[<<x, p>>] = "ABSENT" /\ ~revoked[<<x, p>>]
  BY Typed, StatusMoves DEF IInv, UntouchedBeforeStart
<1>f. ASSUME UNCHANGED <<member, evidence, outbox, revoked>> PROVE Untouched
  BY <1>0, <1>f
<1>1. ASSUME NEW w \in Workers, StartAutomatically(w) PROVE Untouched
  BY <1>0, <1>1 DEF StartAutomatically, Start, Outbox!Enqueue, RequestType, account, job, links
<1>2. ASSUME NEW w \in Workers, EraseDatabase(w) PROVE Untouched
  BY <1>0, <1>2 DEF EraseDatabase, EraseAccountReferences, Committed, AccountType, request, links
<1>3. ASSUME NEW w \in Workers, RecordExternalErasure(w) PROVE Untouched
  BY <1>0, <1>3 DEF RecordExternalErasure, Committed, JobType, account, links
<1>4. ASSUME NEW w \in Workers, FinishAutomaticErasure(w) PROVE Untouched
  BY <1>0, <1>4 DEF FinishAutomaticErasure, Completable, Close, Outbox!Forget, JobType, account, links
<1>5. ASSUME NEW m \in Members, Cancel(m) PROVE Untouched
  BY <1>0, <1>5 DEF Cancel, AccountType, links
<1>6. ASSUME NEW m \in Members, StartManually(m) PROVE Untouched
  BY <1>0, <1>6 DEF StartManually, Start, Outbox!Enqueue, RequestType, account
<1>7. ASSUME NEW m \in Members, CompleteManually(m) PROVE Untouched
  BY <1>0, <1>7 DEF CompleteManually, Close, Outbox!Forget, JobType, account
<1>8. ASSUME NEW m \in Members, NEW action \in {"expedite", "schedule", "retry_social"}, ControlSchedule(m, action)
      PROVE  Untouched
  BY <1>0, <1>8 DEF ControlSchedule, Retriable, account
<1>9. ASSUME NEW m \in Members, EraseByHand(m) PROVE Untouched
  BY <1>0, <1>9 DEF EraseByHand, AccountType, request, job, links
<1>10. ASSUME NEW m \in Members, UpdateMemberStatus(m) PROVE Untouched
  BY <1>0, <1>10 DEF UpdateMemberStatus, AccountType, job, links
<1>11. ASSUME NEW m \in Members, CreateReceipt(m) PROVE Untouched
  BY <1>0, <1>11 DEF CreateReceipt, AccountType, links
<1>12. ASSUME NEW w \in Workers,
             \/ PrepareErasure(w) \/ PreserveContext(w) \/ EraseFiles(w) \/ BeginErasureTargets(w)
             \/ RecordTargets(w)
      PROVE  Untouched
  BY <1>f, <1>12
     DEF PrepareErasure, PreserveContext, EraseFiles, BeginErasureTargets, RecordTargets, account, request, job,
         handoff, links
<1>13. ASSUME NEW m \in Members,
             \/ (\E t \in Targets, result \in {"manual", "complete"} : ReviewErasureTarget(m, t, result))
             \/ (\E new \in {"not_required", "active", "completed"} : ResolveReceiptWork(m, new))
             \/ ReviewHold(m) \/ QueueHistoricalFiles(m)
      PROVE  Untouched
  BY <1>f, <1>13
     DEF ReviewErasureTarget, ResolveReceiptWork, ReviewHold, QueueHistoricalFiles, account, request, job,
         handoff, links
<1>14. ASSUME NEW m \in Members,
             \/ (\E p \in Providers : Unlink(m, p)) \/ DonationChanges(m) \/ LateWrite(m) \/ ContextExpires(m)
             \/ PurgeContext(m)
      PROVE  Untouched
  BY <1>f, <1>14
     DEF Unlink, DonationChanges, LateWrite, ContextExpires, PurgeContext, account, request, job, handoff, links
<1>15. ASSUME NEW k \in Links, RevocationStep(k) PROVE Untouched
  BY <1>0, <1>15 DEF RevocationStep, Outbox!Revoke, Outbox!Report, LinkType, account, job
<1>16. ASSUME UNCHANGED tables PROVE Untouched
  BY <1>f, <1>16 DEF tables, account, request, handoff, links
<1> QED
  BY <1>1, <1>2, <1>3, <1>4, <1>5, <1>6, <1>7, <1>8, <1>9, <1>10, <1>11, <1>12, <1>13, <1>14, <1>15, <1>16,
     WritesOrKeeps
     DEF WorkerWrite, OperatorWrite, AccountWrite

\* An account is erased only when every provider that had to be asked has
\* revoked its authorization.
LEMMA ErasedOwesStep ==
    ASSUME IInv, [Next]_vars PROVE ErasedOwesNothing'
<1> SUFFICES ASSUME NEW x \in Members, member'[x] = "erased" PROVE \A p \in required'[x] : revoked'[<<x, p>>]
  BY DEF ErasedOwesNothing
<1> DEFINE Revoked == \A p \in required'[x] : revoked'[<<x, p>>]
<1>0. /\ AccountType /\ RequestType /\ JobType /\ HandoffType /\ LinkType
      /\ \A w \in Workers : cur[w] \in Members /\ Committed(w)
      /\ \A m \in Members, p \in Providers : <<m, p>> \in Links
      /\ required[x] \subseteq Providers
      /\ member[x] = "erased" => \A p \in required[x] : revoked[<<x, p>>]
      /\ \A m \in Members : ProvidersProved(m) => \A p \in required[m] : revoked[<<m, p>>]
      /\ \A k \in Links : revoked[k] => revoked'[k]
  BY Typed, ProofStep DEF IInv, ErasedOwesNothing, ProofIsReal, ProvidersProved, Outbox!Proof, RequestType
<1>f. ASSUME UNCHANGED <<member, required>> PROVE Revoked
  BY <1>0, <1>f
<1>1. ASSUME NEW w \in Workers, EraseDatabase(w) PROVE Revoked
  BY <1>0, <1>1 DEF EraseDatabase, Erasable, EraseAccountReferences, AccountType, request
<1>2. ASSUME NEW m \in Members, Cancel(m) PROVE Revoked
  BY <1>0, <1>2 DEF Cancel, AccountType
<1>3. ASSUME NEW m \in Members, EraseByHand(m) PROVE Revoked
  BY <1>0, <1>3 DEF EraseByHand, AccountType, request
<1>4. ASSUME NEW m \in Members, UpdateMemberStatus(m) PROVE Revoked
  BY <1>0, <1>4 DEF UpdateMemberStatus, AccountType
<1>5. ASSUME NEW m \in Members, CreateReceipt(m) PROVE Revoked
  BY <1>0, <1>5 DEF CreateReceipt, AccountType, RequestType
<1>6. ASSUME NEW w \in Workers,
             \/ StartAutomatically(w) \/ PrepareErasure(w) \/ PreserveContext(w) \/ EraseFiles(w)
             \/ BeginErasureTargets(w) \/ RecordTargets(w) \/ RecordExternalErasure(w)
             \/ FinishAutomaticErasure(w)
      PROVE  Revoked
  BY <1>f, <1>6
     DEF StartAutomatically, PrepareErasure, PreserveContext, EraseFiles, BeginErasureTargets, RecordTargets,
         RecordExternalErasure, FinishAutomaticErasure, account, request
<1>7. ASSUME NEW m \in Members,
             \/ StartManually(m) \/ CompleteManually(m)
             \/ (\E action \in {"expedite", "schedule", "retry_social"} : ControlSchedule(m, action))
             \/ (\E t \in Targets, result \in {"manual", "complete"} : ReviewErasureTarget(m, t, result))
             \/ (\E new \in {"not_required", "active", "completed"} : ResolveReceiptWork(m, new))
             \/ ReviewHold(m) \/ QueueHistoricalFiles(m)
      PROVE  Revoked
  BY <1>f, <1>7
     DEF StartManually, CompleteManually, ControlSchedule, ReviewErasureTarget, ResolveReceiptWork, ReviewHold,
         QueueHistoricalFiles, account, request
<1>8. ASSUME NEW m \in Members,
             \/ (\E p \in Providers : Unlink(m, p)) \/ DonationChanges(m) \/ LateWrite(m) \/ ContextExpires(m)
             \/ PurgeContext(m)
      PROVE  Revoked
  BY <1>f, <1>8
     DEF Unlink, DonationChanges, LateWrite, ContextExpires, PurgeContext, account, request
<1>9. ASSUME NEW k \in Links, RevocationStep(k) PROVE Revoked
  BY <1>f, <1>9 DEF RevocationStep, account, request, job, handoff
<1>10. ASSUME UNCHANGED tables PROVE Revoked
  BY <1>f, <1>10 DEF tables, account, request
<1> QED
  BY <1>1, <1>2, <1>3, <1>4, <1>5, <1>6, <1>7, <1>8, <1>9, <1>10, WritesOrKeeps
     DEF WorkerWrite, OperatorWrite, AccountWrite

\* Nothing comes back after a request is completed, and the two ways to
\* complete one look at everything that must be gone.
LEMMA CompletedStep ==
    ASSUME IInv, [Next]_vars PROVE CompletedMeansErased'
<1> SUFFICES ASSUME NEW x \in Members, status'[x] = "completed"
    PROVE  /\ member'[x] = "erased" /\ social'[x] = {}
           /\ \A p \in required'[x] : revoked'[<<x, p>>]
           /\ \A t \in Targets : target'[x][t] = "complete"
           /\ receipt'[x] \in {"not_required", "completed"}
           /\ context'[x] = "none" /\ ~files'[x]
           /\ \A p \in Providers : outbox'[<<x, p>>] = "ABSENT"
  BY DEF CompletedMeansErased, AllVerified, ReceiptFinished
<1> DEFINE Erased == /\ member'[x] = "erased" /\ social'[x] = {}
                     /\ \A p \in required'[x] : revoked'[<<x, p>>]
                     /\ \A t \in Targets : target'[x][t] = "complete"
                     /\ receipt'[x] \in {"not_required", "completed"}
                     /\ context'[x] = "none" /\ ~files'[x]
                     /\ \A p \in Providers : outbox'[<<x, p>>] = "ABSENT"
<1>0. /\ AccountType /\ RequestType /\ JobType /\ HandoffType /\ LinkType
      /\ \A w \in Workers : cur[w] \in Members
      /\ \A m \in Members, p \in Providers : <<m, p>> \in Links
      /\ status[x] \in {"processing", "completed"}
      /\ status[x] = "completed" =>
           /\ member[x] = "erased" /\ social[x] = {}
           /\ \A p \in required[x] : revoked[<<x, p>>]
           /\ \A t \in Targets : target[x][t] = "complete"
           /\ receipt[x] \in {"not_required", "completed"}
           /\ context[x] = "none" /\ ~files[x]
           /\ \A p \in Providers : outbox[<<x, p>>] = "ABSENT"
      /\ required[x] \subseteq Providers
      /\ \A p \in Providers : outbox[<<x, p>>] = "DELIVERED" => revoked[<<x, p>>]
      /\ \A k \in Links : revoked[k] => revoked'[k]
      /\ \A t \in Targets : target[x][t] = "complete" => target'[x][t] = "complete"
  BY Typed, StatusMoves, ProofStep, VerifiedStays
     DEF IInv, CompletedMeansErased, AllVerified, ReceiptFinished, ProofIsReal, Outbox!Proof, RequestType
<1>f. ASSUME UNCHANGED <<status, member, social, required, receipt, context, files, outbox>> PROVE Erased
  BY <1>0, <1>f
<1>1. ASSUME NEW w \in Workers, StartAutomatically(w) PROVE Erased
  <2>1. status[x] = "completed"
    BY <1>0, <1>1 DEF StartAutomatically, Start, RequestType
  <2>2. \A k \in Links : outbox[k] = "ABSENT" => outbox'[k] = "ABSENT" \/ k \in {cur[w]} \X social[cur[w]]
    BY <1>0, <1>1 DEF StartAutomatically, Start, Outbox!Enqueue, links
  <2>3. status'[x] = status[x] /\ (cur[w] # x \/ UNCHANGED links)
    BY <1>0, <1>1, <2>1 DEF StartAutomatically, Start, RequestType
  <2>4. \A p \in Providers : outbox'[<<x, p>>] = "ABSENT"
    BY <1>0, <2>1, <2>2, <2>3 DEF links
  <2> QED
    BY <1>0, <1>1, <2>1, <2>4 DEF StartAutomatically, account, handoff
<1>2. ASSUME NEW w \in Workers, PrepareErasure(w) PROVE Erased
  BY <1>0, <1>2 DEF PrepareErasure, request, links, HandoffType
<1>3. ASSUME NEW w \in Workers, PreserveContext(w) PROVE Erased
  BY <1>0, <1>3 DEF PreserveContext, Refreshable, Savable, Open, HandoffType, account, request, links
<1>4. ASSUME NEW w \in Workers, EraseDatabase(w) PROVE Erased
  BY <1>0, <1>4
       DEF EraseDatabase, Erasable, QueueErasureFiles, EraseAccountReferences, AccountType, HandoffType,
       request, links
<1>5. ASSUME NEW w \in Workers, EraseFiles(w) PROVE Erased
  BY <1>0, <1>5 DEF EraseFiles, account, request, links, HandoffType
<1>6. ASSUME NEW w \in Workers, RecordExternalErasure(w) PROVE Erased
  BY <1>0, <1>6 DEF RecordExternalErasure, Open, HandoffType, account, request, links
<1>7. ASSUME NEW w \in Workers, FinishAutomaticErasure(w) PROVE Erased
  <2>1. CASE Completable(cur[w])
    <3>1. Close(cur[w]) /\ UNCHANGED <<account, required, target, receipt>>
      BY <1>7, <2>1 DEF FinishAutomaticErasure
    <3>2. CASE x = cur[w]
      BY <1>0, <2>1, <3>1, <3>2 DEF Completable, NoFootprint, ProvidersProved, AllVerified, ReceiptFinished, Close,
          Outbox!Forget, HandoffType, account
    <3>3. CASE x # cur[w]
      BY <1>0, <3>1, <3>3 DEF Close, Outbox!Forget, RequestType, HandoffType, account
    <3> QED
      BY <3>2, <3>3
  <2>2. CASE ~Completable(cur[w])
    BY <1>0, <1>f, <1>7, <2>2 DEF FinishAutomaticErasure, account, links
  <2> QED
    BY <2>1, <2>2
<1>8. ASSUME NEW m \in Members, Cancel(m) PROVE Erased
  BY <1>0, <1>8 DEF Cancel, AccountType, RequestType, handoff, links
<1>9. ASSUME NEW m \in Members, StartManually(m) PROVE Erased
  BY <1>0, <1>9 DEF StartManually, Start, Outbox!Enqueue, RequestType, account, handoff
<1>10. ASSUME NEW m \in Members, CompleteManually(m) PROVE Erased
  BY <1>0, <1>10
       DEF CompleteManually, NoFootprint, ProvidersProved, ReceiptFinished, Close, Outbox!Forget, RequestType,
       HandoffType, account
<1>11. ASSUME NEW m \in Members, NEW action \in {"expedite", "schedule", "retry_social"}, ControlSchedule(m, action)
      PROVE  Erased
  BY <1>0, <1>11 DEF ControlSchedule, Retriable, account, request, handoff
<1>12. ASSUME NEW m \in Members, NEW new \in {"not_required", "active", "completed"}, ResolveReceiptWork(m, new)
      PROVE  Erased
  BY <1>0, <1>12 DEF ResolveReceiptWork, Open, HandoffType, account, request, links
<1>13. ASSUME NEW m \in Members, QueueHistoricalFiles(m) PROVE Erased
  BY <1>0, <1>13 DEF QueueHistoricalFiles, HandoffType, account, request, links
<1>14. ASSUME NEW m \in Members, EraseByHand(m) PROVE Erased
  BY <1>0, <1>14 DEF EraseByHand, AccountType, request, handoff, links
<1>15. ASSUME NEW m \in Members, UpdateMemberStatus(m) PROVE Erased
  BY <1>0, <1>15 DEF UpdateMemberStatus, Open, AccountType, handoff, links
<1>16. ASSUME NEW m \in Members, CreateReceipt(m) PROVE Erased
  BY <1>0, <1>16 DEF CreateReceipt, AccountType, RequestType, HandoffType, links
<1>17. ASSUME NEW m \in Members, NEW p \in Providers, Unlink(m, p) PROVE Erased
  BY <1>0, <1>17 DEF Unlink, AccountType, request, handoff, links
<1>18. ASSUME NEW m \in Members, ContextExpires(m) PROVE Erased
  BY <1>0, <1>18 DEF ContextExpires, HandoffType, account, request, links
<1>19. ASSUME NEW m \in Members, PurgeContext(m) PROVE Erased
  BY <1>0, <1>19 DEF PurgeContext, HandoffType, account, request, links
<1>20. ASSUME NEW w \in Workers,
             \/ BeginErasureTargets(w) \/ RecordTargets(w)
      PROVE  Erased
  BY <1>f, <1>20
     DEF BeginErasureTargets, RecordTargets, account, request, job, handoff, links
<1>21. ASSUME NEW m \in Members,
             \/ (\E t \in Targets, result \in {"manual", "complete"} : ReviewErasureTarget(m, t, result))
             \/ ReviewHold(m)
      PROVE  Erased
  BY <1>f, <1>21
     DEF ReviewErasureTarget, ReviewHold, account, request, job, handoff, links
<1>22. ASSUME NEW m \in Members,
             \/ DonationChanges(m) \/ LateWrite(m)
      PROVE  Erased
  BY <1>f, <1>22
     DEF DonationChanges, LateWrite, account, request, job, handoff, links
<1>23. ASSUME NEW k \in Links, RevocationStep(k) PROVE Erased
  BY <1>0, <1>23 DEF RevocationStep, Outbox!Revoke, Outbox!Report, LinkType, account, request, handoff
<1>24. ASSUME UNCHANGED tables PROVE Erased
  BY <1>f, <1>24 DEF tables, account, request, handoff, links
<1> QED
  BY <1>1, <1>2, <1>3, <1>4, <1>5, <1>6, <1>7, <1>8, <1>9, <1>10, <1>11, <1>12, <1>13, <1>14, <1>15, <1>16, <1>17,
     <1>18, <1>19, <1>20, <1>21, <1>22, <1>23, <1>24, WritesOrKeeps
     DEF WorkerWrite, OperatorWrite, AccountWrite

\* No target of a cancelled request is ever handed to the processor.
LEMMA CancelledStep ==
    ASSUME IInv, [Next]_vars PROVE CancelledMeansUntouched'
<1> SUFFICES ASSUME NEW x \in Members, status'[x] = "cancelled"
    PROVE  \A t \in Targets : target'[x][t] \in {"pending", "manual"}
  BY UntouchedStep DEF CancelledMeansUntouched, UntouchedBeforeStart
<1> DEFINE Unasked == \A u \in Targets : target'[x][u] \in {"pending", "manual"}
<1>0. /\ AccountType /\ RequestType /\ HandoffType
      /\ \A w \in Workers : cur[w] \in Members /\ Committed(w)
      /\ status[x] \in {"pending", "cancelled"}
      /\ status[x] = "cancelled" => \A u \in Targets : target[x][u] \in {"pending", "manual"}
  BY Typed, StatusMoves DEF IInv, CancelledMeansUntouched
<1>f. ASSUME UNCHANGED <<status, target>> PROVE Unasked
  BY <1>0, <1>f
<1>1. ASSUME NEW w \in Workers, StartAutomatically(w) PROVE Unasked
  BY <1>0, <1>1 DEF StartAutomatically, Start, RequestType, handoff
<1>2. ASSUME NEW w \in Workers, BeginErasureTargets(w) PROVE Unasked
  BY <1>0, <1>2 DEF BeginErasureTargets, Committed, HandoffType, request
<1>3. ASSUME NEW w \in Workers, RecordTargets(w) PROVE Unasked
  <2>1. cur[w] # x /\ UNCHANGED status
    BY <1>0, <1>3 DEF RecordTargets, Committed, request
  <2>2. target'[x] = target[x]
    BY <1>0, <1>3, <2>1 DEF RecordTargets, HandoffType
  <2> QED
    BY <1>0, <2>1, <2>2
<1>4. ASSUME NEW w \in Workers, RecordExternalErasure(w) PROVE Unasked
  BY SMTT(30), <1>0, <1>4 DEF RecordExternalErasure, Committed, HandoffType, request
<1>5. ASSUME NEW w \in Workers, FinishAutomaticErasure(w) PROVE Unasked
  BY <1>0, <1>5 DEF FinishAutomaticErasure, Completable, Close, RequestType
<1>6. ASSUME NEW m \in Members, Cancel(m) PROVE Unasked
  BY <1>0, <1>6 DEF Cancel, RequestType, handoff
<1>7. ASSUME NEW m \in Members, StartManually(m) PROVE Unasked
  BY <1>0, <1>7 DEF StartManually, Start, RequestType, handoff
<1>8. ASSUME NEW m \in Members, CompleteManually(m) PROVE Unasked
  BY <1>0, <1>8 DEF CompleteManually, Close, RequestType
<1>9. ASSUME NEW m \in Members, NEW t \in Targets, NEW result \in {"manual", "complete"},
ReviewErasureTarget(m, t, result)
      PROVE  Unasked
  BY <1>0, <1>9 DEF ReviewErasureTarget, Open, HandoffType, request
<1>10. ASSUME NEW m \in Members, QueueHistoricalFiles(m) PROVE Unasked
  BY <1>0, <1>10 DEF QueueHistoricalFiles, HandoffType, request
<1>11. ASSUME NEW m \in Members, CreateReceipt(m) PROVE Unasked
  BY <1>0, <1>11 DEF CreateReceipt, RequestType
<1>12. ASSUME NEW w \in Workers,
             \/ PrepareErasure(w) \/ PreserveContext(w) \/ EraseDatabase(w) \/ EraseFiles(w)
      PROVE  Unasked
  BY <1>f, <1>12
     DEF PrepareErasure, PreserveContext, EraseDatabase, EraseFiles, account, request, job, handoff, links
<1>13. ASSUME NEW m \in Members,
             \/ (\E action \in {"expedite", "schedule", "retry_social"} : ControlSchedule(m, action))
             \/ (\E new \in {"not_required", "active", "completed"} : ResolveReceiptWork(m, new))
             \/ ReviewHold(m) \/ EraseByHand(m) \/ UpdateMemberStatus(m)
      PROVE  Unasked
  BY <1>f, <1>13
     DEF ControlSchedule, ResolveReceiptWork, ReviewHold, EraseByHand, UpdateMemberStatus, account, request, job,
         handoff, links
<1>14. ASSUME NEW m \in Members,
             \/ (\E p \in Providers : Unlink(m, p)) \/ DonationChanges(m) \/ LateWrite(m) \/ ContextExpires(m)
             \/ PurgeContext(m)
      PROVE  Unasked
  BY <1>f, <1>14
     DEF Unlink, DonationChanges, LateWrite, ContextExpires, PurgeContext, account, request, job, handoff, links
<1>15. ASSUME NEW k \in Links, RevocationStep(k) PROVE Unasked
  BY <1>f, <1>15 DEF RevocationStep, account, request, job, handoff
<1>16. ASSUME UNCHANGED tables PROVE Unasked
  BY <1>f, <1>16 DEF tables, account, request, handoff, links
<1> QED
  BY <1>1, <1>2, <1>3, <1>4, <1>5, <1>6, <1>7, <1>8, <1>9, <1>10, <1>11, <1>12, <1>13, <1>14, <1>15, <1>16,
     WritesOrKeeps
     DEF WorkerWrite, OperatorWrite, AccountWrite

\* Between the erasure of the database and the evidence the handoff stays.
LEMMA HandoffStep ==
    ASSUME IInv, [Next]_vars PROVE HandoffSurvivesErasure'
<1> SUFFICES ASSUME NEW x \in Members, stage'[x] = "database_erased", ~evidence'[x]
    PROVE  context'[x] = "live" \/ lapsed'[x] = "after"
  BY DEF HandoffSurvivesErasure
<1> DEFINE Handoff == context'[x] = "live" \/ lapsed'[x] = "after"
<1>0. /\ JobType /\ HandoffType
      /\ \A w \in Workers : cur[w] \in Members
      /\ stage[x] = "database_erased" /\ ~evidence[x] => context[x] = "live" \/ lapsed[x] = "after"
  BY Typed DEF IInv, HandoffSurvivesErasure
<1>f. ASSUME UNCHANGED <<stage, evidence, context, lapsed>> PROVE Handoff
  BY <1>0, <1>f
<1>1. ASSUME NEW w \in Workers, PreserveContext(w) PROVE Handoff
  BY <1>0, <1>1 DEF PreserveContext, HandoffType, job
<1>2. ASSUME NEW w \in Workers, EraseDatabase(w) PROVE Handoff
  BY <1>0, <1>2 DEF EraseDatabase, Handed, JobType
<1>3. ASSUME NEW w \in Workers, RecordExternalErasure(w) PROVE Handoff
  BY SMTT(30), <1>0, <1>3 DEF RecordExternalErasure, JobType, HandoffType
<1>4. ASSUME NEW w \in Workers, FinishAutomaticErasure(w) PROVE Handoff
  BY <1>0, <1>4 DEF FinishAutomaticErasure, Close, JobType, HandoffType
<1>5. ASSUME NEW m \in Members, Cancel(m) PROVE Handoff
  BY <1>0, <1>5 DEF Cancel, JobType, handoff
<1>6. ASSUME NEW m \in Members, CompleteManually(m) PROVE Handoff
  BY <1>0, <1>6 DEF CompleteManually, Close, JobType, HandoffType
<1>7. ASSUME NEW m \in Members, CreateReceipt(m) PROVE Handoff
  BY <1>0, <1>7 DEF CreateReceipt, JobType, HandoffType
<1>8. ASSUME NEW m \in Members, ContextExpires(m) PROVE Handoff
  BY <1>0, <1>8 DEF ContextExpires, HandoffType, job
<1>9. ASSUME NEW m \in Members, PurgeContext(m) PROVE Handoff
  BY <1>0, <1>9 DEF PurgeContext, HandoffType, job
<1>10. ASSUME NEW w \in Workers,
             \/ StartAutomatically(w) \/ PrepareErasure(w) \/ EraseFiles(w) \/ BeginErasureTargets(w)
             \/ RecordTargets(w)
      PROVE  Handoff
  BY <1>f, <1>10
     DEF StartAutomatically, PrepareErasure, EraseFiles, BeginErasureTargets, RecordTargets, job, handoff
<1>11. ASSUME NEW m \in Members,
             \/ StartManually(m)
             \/ (\E action \in {"expedite", "schedule", "retry_social"} : ControlSchedule(m, action))
             \/ (\E t \in Targets, result \in {"manual", "complete"} : ReviewErasureTarget(m, t, result))
             \/ (\E new \in {"not_required", "active", "completed"} : ResolveReceiptWork(m, new))
             \/ ReviewHold(m) \/ QueueHistoricalFiles(m) \/ EraseByHand(m) \/ UpdateMemberStatus(m)
      PROVE  Handoff
  BY <1>f, <1>11
     DEF StartManually, ControlSchedule, ReviewErasureTarget, ResolveReceiptWork, ReviewHold,
         QueueHistoricalFiles, EraseByHand, UpdateMemberStatus, job, handoff
<1>12. ASSUME NEW m \in Members,
             \/ (\E p \in Providers : Unlink(m, p)) \/ DonationChanges(m) \/ LateWrite(m)
      PROVE  Handoff
  BY <1>f, <1>12
     DEF Unlink, DonationChanges, LateWrite, job, handoff
<1>13. ASSUME NEW k \in Links, RevocationStep(k) PROVE Handoff
  BY <1>f, <1>13 DEF RevocationStep, account, request, job, handoff
<1>14. ASSUME UNCHANGED tables PROVE Handoff
  BY <1>f, <1>14 DEF tables, handoff
<1> QED
  BY <1>1, <1>2, <1>3, <1>4, <1>5, <1>6, <1>7, <1>8, <1>9, <1>10, <1>11, <1>12, <1>13, <1>14, WritesOrKeeps
     DEF WorkerWrite, OperatorWrite, AccountWrite

\* The invariant holds at first and every step keeps it.
LEMMA Inductive == (Init => IInv) /\ (IInv /\ [Next]_vars => IInv')
<1>1. ASSUME Init PROVE IInv
  <2>1. \A m \in Members, p \in Providers : <<m, p>> \in Links
    BY DEF Links
  <2>2. \A w \in Workers : Fetched(w) /\ Committed(w) /\ AskedForAll(w)
    BY <1>1 DEF Init, Fetched, Committed, AskedForAll
  <2>3. ProofIsReal /\ UntouchedBeforeStart
    BY <1>1, <2>1 DEF Init, Outbox!Init, Outbox!Proof, ProofIsReal, UntouchedBeforeStart
  <2>4. ErasedOwesNothing /\ CompletedMeansErased /\ CancelledMeansUntouched /\ HandoffSurvivesErasure
    BY <1>1 DEF Init, ErasedOwesNothing, CompletedMeansErased, CancelledMeansUntouched, HandoffSurvivesErasure
  <2> QED
    BY <1>1, <2>2, <2>3, <2>4, TypeInit DEF IInv
<1>2. ASSUME IInv, [Next]_vars PROVE IInv'
  <2>1. TypeOK'
    BY <1>2, TypeStep DEF IInv
  <2>2. \A w \in Workers : (Fetched(w) /\ Committed(w) /\ AskedForAll(w))'
    BY <1>2, KnowledgeStep
  <2>3. ProofIsReal'
    BY <1>2, ProofStep DEF ProofIsReal
  <2> QED
    BY <1>2, <2>1, <2>2, <2>3, UntouchedStep, ErasedOwesStep, CompletedStep, CancelledStep, HandoffStep DEF IInv
<1> QED
  BY <1>1, <1>2

(***************************************************************************)
(* IInv holds always, for any number of members, workers, providers and    *)
(* targets and any number of faults.                                       *)
(***************************************************************************)
THEOREM Invariance == Spec => []IInv
  BY Inductive, PTL DEF Spec

(***************************************************************************)
(* Accounts, requests, jobs, handoffs, links and workers are always in the *)
(* states their code knows.                                                *)
(***************************************************************************)
THEOREM TypeCorrect == Spec => []TypeOK
  BY Invariance, PTL DEF IInv

(***************************************************************************)
(* Whoever completes a deletion, FinishAutomaticErasure or an operator:    *)
(* nothing of the account is left, and every provider has revoked its      *)
(* authorization.                                                          *)
(***************************************************************************)
THEOREM CompletedIsErased == Spec => []CompletedMeansErased
  BY Invariance, PTL DEF IInv

(***************************************************************************)
(* A cancelled deletion has done nothing that cannot be undone, although   *)
(* workers may be in the middle of the request with their lock lost.       *)
(***************************************************************************)
THEOREM CancelledIsUntouched == Spec => []CancelledMeansUntouched
  BY Invariance, PTL DEF IInv

(***************************************************************************)
(* What the external targets need to be asked outlives the account, until  *)
(* the evidence is there or the handoff runs out.                          *)
(***************************************************************************)
THEOREM HandoffSurvives == Spec => []HandoffSurvivesErasure
  BY Invariance, PTL DEF IInv

-----------------------------------------------------------------------------
\* Only RecordExternalErasure sets the evidence, at a step a worker reaches
\* with every target verified.
LEMMA EvidenceStep ==
    ASSUME IInv, [Next]_vars, NEW x \in Members, ~evidence[x], evidence'[x] PROVE AllVerified(x)
<1>0. /\ JobType /\ ~evidence[x] /\ evidence'[x]
      /\ \A w \in Workers : cur[w] \in Members /\ AskedForAll(w)
  BY Typed DEF IInv
<1>f. ASSUME UNCHANGED <<evidence>> PROVE AllVerified(x)
  BY <1>0, <1>f
<1>1. ASSUME NEW w \in Workers, RecordExternalErasure(w) PROVE AllVerified(x)
  BY <1>0, <1>1 DEF RecordExternalErasure, AskedForAll, JobType
<1>2. ASSUME NEW w \in Workers, FinishAutomaticErasure(w) PROVE AllVerified(x)
  BY <1>0, <1>2 DEF FinishAutomaticErasure, Close, JobType, job
<1>3. ASSUME NEW m \in Members, CompleteManually(m) PROVE AllVerified(x)
  BY <1>0, <1>3 DEF CompleteManually, Close, JobType
<1>4. ASSUME NEW w \in Workers,
             \/ StartAutomatically(w) \/ PrepareErasure(w) \/ PreserveContext(w) \/ EraseDatabase(w)
             \/ EraseFiles(w) \/ BeginErasureTargets(w) \/ RecordTargets(w)
      PROVE  AllVerified(x)
  BY <1>f, <1>4
     DEF StartAutomatically, PrepareErasure, PreserveContext, EraseDatabase, EraseFiles, BeginErasureTargets,
         RecordTargets, job
<1>5. ASSUME NEW m \in Members,
             \/ Cancel(m) \/ StartManually(m)
             \/ (\E action \in {"expedite", "schedule", "retry_social"} : ControlSchedule(m, action))
             \/ (\E t \in Targets, result \in {"manual", "complete"} : ReviewErasureTarget(m, t, result))
             \/ (\E new \in {"not_required", "active", "completed"} : ResolveReceiptWork(m, new))
             \/ ReviewHold(m) \/ QueueHistoricalFiles(m) \/ EraseByHand(m) \/ UpdateMemberStatus(m)
      PROVE  AllVerified(x)
  BY <1>f, <1>5
     DEF Cancel, StartManually, ControlSchedule, ReviewErasureTarget, ResolveReceiptWork, ReviewHold,
         QueueHistoricalFiles, EraseByHand, UpdateMemberStatus, job
<1>6. ASSUME NEW m \in Members,
             \/ CreateReceipt(m) \/ (\E p \in Providers : Unlink(m, p)) \/ DonationChanges(m) \/ LateWrite(m)
             \/ ContextExpires(m) \/ PurgeContext(m)
      PROVE  AllVerified(x)
  BY <1>f, <1>6
     DEF CreateReceipt, Unlink, DonationChanges, LateWrite, ContextExpires, PurgeContext, job
<1>7. ASSUME NEW k \in Links, RevocationStep(k) PROVE AllVerified(x)
  BY <1>f, <1>7 DEF RevocationStep, account, request, job, handoff
<1>8. ASSUME UNCHANGED tables PROVE AllVerified(x)
  BY <1>f, <1>8 DEF tables
<1> QED
  BY <1>1, <1>2, <1>3, <1>4, <1>5, <1>6, <1>7, <1>8, WritesOrKeeps
     DEF WorkerWrite, OperatorWrite, AccountWrite

(***************************************************************************)
(* RecordExternalErasure marks every target complete, and never before each*)
(* of them was verified: by the processor, asked for all that was left, or *)
(* by an operator.                                                         *)
(***************************************************************************)
THEOREM EvidenceBacked == Spec => EvidenceIsBacked
<1>1. IInv /\ [Next]_vars => [\A m \in Members : ~evidence[m] /\ evidence'[m] => AllVerified(m)]_vars
  BY EvidenceStep
<1> QED
  BY <1>1, Invariance, PTL DEF Spec, EvidenceIsBacked

\* A worker completes a request only with an empty file queue; an operator
\* only one in manual mode.
LEMMA FilesStep ==
    ASSUME IInv, [Next]_vars, NEW x \in Members, mode[x] = "automatic", files[x] PROVE status'[x] # "completed"
<1>0. /\ RequestType /\ mode[x] = "automatic" /\ files[x] /\ status[x] # "completed"
      /\ \A w \in Workers : cur[w] \in Members
  BY Typed DEF IInv, CompletedMeansErased
<1>f. ASSUME UNCHANGED <<status>> PROVE status'[x] # "completed"
  BY <1>0, <1>f
<1>1. ASSUME NEW w \in Workers, StartAutomatically(w) PROVE status'[x] # "completed"
  BY <1>0, <1>1 DEF StartAutomatically, Start, RequestType
<1>2. ASSUME NEW w \in Workers, FinishAutomaticErasure(w) PROVE status'[x] # "completed"
  BY <1>0, <1>2 DEF FinishAutomaticErasure, Completable, Close, RequestType
<1>3. ASSUME NEW m \in Members, Cancel(m) PROVE status'[x] # "completed"
  BY <1>0, <1>3 DEF Cancel, RequestType
<1>4. ASSUME NEW m \in Members, StartManually(m) PROVE status'[x] # "completed"
  BY <1>0, <1>4 DEF StartManually, Start, RequestType
<1>5. ASSUME NEW m \in Members, CompleteManually(m) PROVE status'[x] # "completed"
  BY <1>0, <1>5 DEF CompleteManually, Close, RequestType
<1>6. ASSUME NEW m \in Members, CreateReceipt(m) PROVE status'[x] # "completed"
  BY <1>0, <1>6 DEF CreateReceipt, RequestType
<1>7. ASSUME NEW w \in Workers,
             \/ PrepareErasure(w) \/ PreserveContext(w) \/ EraseDatabase(w) \/ EraseFiles(w)
             \/ BeginErasureTargets(w) \/ RecordTargets(w) \/ RecordExternalErasure(w)
      PROVE  status'[x] # "completed"
  BY <1>f, <1>7
     DEF PrepareErasure, PreserveContext, EraseDatabase, EraseFiles, BeginErasureTargets, RecordTargets,
         RecordExternalErasure, account, request
<1>8. ASSUME NEW m \in Members,
             \/ (\E action \in {"expedite", "schedule", "retry_social"} : ControlSchedule(m, action))
             \/ (\E t \in Targets, result \in {"manual", "complete"} : ReviewErasureTarget(m, t, result))
             \/ (\E new \in {"not_required", "active", "completed"} : ResolveReceiptWork(m, new))
             \/ ReviewHold(m) \/ QueueHistoricalFiles(m) \/ EraseByHand(m) \/ UpdateMemberStatus(m)
      PROVE  status'[x] # "completed"
  BY <1>f, <1>8
     DEF ControlSchedule, ReviewErasureTarget, ResolveReceiptWork, ReviewHold, QueueHistoricalFiles, EraseByHand,
         UpdateMemberStatus, account, request
<1>9. ASSUME NEW m \in Members,
             \/ (\E p \in Providers : Unlink(m, p)) \/ DonationChanges(m) \/ LateWrite(m) \/ ContextExpires(m)
             \/ PurgeContext(m)
      PROVE  status'[x] # "completed"
  BY <1>f, <1>9
     DEF Unlink, DonationChanges, LateWrite, ContextExpires, PurgeContext, account, request
<1>10. ASSUME NEW k \in Links, RevocationStep(k) PROVE status'[x] # "completed"
  BY <1>f, <1>10 DEF RevocationStep, account, request, job, handoff
<1>11. ASSUME UNCHANGED tables PROVE status'[x] # "completed"
  BY <1>f, <1>11 DEF tables, account, request
<1> QED
  BY <1>1, <1>2, <1>3, <1>4, <1>5, <1>6, <1>7, <1>8, <1>9, <1>10, <1>11, WritesOrKeeps
     DEF WorkerWrite, OperatorWrite, AccountWrite

(***************************************************************************)
(* Files that are queued when a worker completes the request, by the worker*)
(* itself or by the review command in between, are never dropped.          *)
(***************************************************************************)
THEOREM QueuedFilesDeleted == Spec => QueuedFilesAreDeleted
<1>1. IInv /\ [Next]_vars => [\A m \in Members : mode[m] = "automatic" /\ files[m] => status'[m] # "completed"]_vars
  BY FilesStep
<1> QED
  BY <1>1, Invariance, PTL DEF Spec, QueuedFilesAreDeleted

\* Every write of a worker looks at the mode in the same transaction; only
\* Start does not, and it leaves a request that is processing alone.
LEMMA ManualStep ==
    ASSUME IInv, [Next]_vars, NEW x \in Members, mode[x] = "manual", pc' # pc
    PROVE  /\ member'[x] = member[x] /\ stage'[x] = stage[x]
           /\ files'[x] = files[x] /\ target'[x] = target[x]
           /\ evidence'[x] = evidence[x] /\ context'[x] = context[x]
           /\ status[x] = "processing" => status'[x] = "processing"
<1> DEFINE Kept == /\ member'[x] = member[x] /\ stage'[x] = stage[x]
                   /\ files'[x] = files[x] /\ target'[x] = target[x]
                   /\ evidence'[x] = evidence[x] /\ context'[x] = context[x]
                   /\ status[x] = "processing" => status'[x] = "processing"
<1>0. /\ RequestType /\ JobType /\ HandoffType /\ AccountType /\ WorkerType /\ mode[x] = "manual"
      /\ \A w \in Workers : cur[w] \in Members
  BY Typed
<1>f. ASSUME UNCHANGED <<member, stage, files, target, evidence, context, status>> PROVE Kept
  BY <1>f
<1>1. ASSUME NEW w \in Workers, StartAutomatically(w) PROVE Kept
  BY <1>0, <1>f, <1>1
     DEF StartAutomatically, Start, RequestType, account, job, handoff
<1>2. ASSUME NEW w \in Workers, PreserveContext(w) PROVE Kept
  BY <1>0, <1>f, <1>2
     DEF PreserveContext, Refreshable, Savable, HandoffType, account, request, job
<1>3. ASSUME NEW w \in Workers, EraseDatabase(w) PROVE Kept
  <2>0. UNCHANGED <<request, evidence, context, target>>
    BY <1>3 DEF EraseDatabase
  <2>1. CASE UNCHANGED <<member, files, stage>>
    BY <2>0, <2>1 DEF request
  <2>2. CASE ~UNCHANGED <<member, files, stage>>
    <3>1. x # cur[w]
      BY <1>0, <1>3, <2>2 DEF EraseDatabase, Handed
    <3>2. PICK queued \in BOOLEAN : files' = Set(files, cur[w], files[cur[w]] \/ queued)
      BY <1>3, <2>2 DEF EraseDatabase, QueueErasureFiles
    <3>3. member'[x] = member[x] /\ stage'[x] = stage[x] /\ files'[x] = files[x]
      BY <1>0, <1>3, <2>2, <3>1, <3>2 DEF EraseDatabase, EraseAccountReferences, AccountType, JobType, HandoffType
    <3> QED
      BY <2>0, <3>3 DEF request
  <2> QED
    BY <2>1, <2>2
<1>4. ASSUME NEW w \in Workers, EraseFiles(w) PROVE Kept
  BY <1>0, <1>f, <1>4
     DEF EraseFiles, ErasureActive, HandoffType, account, request, job
<1>5. ASSUME NEW w \in Workers, BeginErasureTargets(w) PROVE Kept
  BY <1>0, <1>f, <1>5
     DEF BeginErasureTargets, HandoffType, account, request, job
<1>6. ASSUME NEW w \in Workers, RecordTargets(w) PROVE Kept
  <2>1. UNCHANGED <<account, request, job, context, files>>
    BY <1>6 DEF RecordTargets
  <2>2. target'[x] = target[x]
    BY <1>0, <1>6 DEF RecordTargets, HandoffType
  <2> QED
    BY <2>1, <2>2 DEF account, request, job
<1>7. ASSUME NEW w \in Workers, RecordExternalErasure(w) PROVE Kept
  BY <1>0, <1>f, <1>7
     DEF RecordExternalErasure, JobType, HandoffType, account, request
<1>8. ASSUME NEW w \in Workers, FinishAutomaticErasure(w) PROVE Kept
  BY <1>0, <1>f, <1>8
     DEF FinishAutomaticErasure, Completable, ErasureActive, Close, RequestType, JobType, HandoffType, account
<1>9. ASSUME NEW w \in Workers, PrepareErasure(w) PROVE Kept
  BY <1>f, <1>9 DEF PrepareErasure, request, job
<1>10. ASSUME NEW m \in Members, OperatorWrite(m) \/ AccountWrite(m) PROVE FALSE
  BY <1>10
       DEF OperatorWrite, AccountWrite, Cancel, StartManually, CompleteManually, ControlSchedule,
       ReviewErasureTarget,
       ResolveReceiptWork, ReviewHold, QueueHistoricalFiles, EraseByHand, UpdateMemberStatus, CreateReceipt, Unlink,
       DonationChanges, LateWrite, ContextExpires, PurgeContext
<1>11. ASSUME NEW k \in Links, RevocationStep(k) PROVE FALSE
  BY <1>11 DEF RevocationStep
<1>12. ASSUME UNCHANGED tables PROVE Kept
  BY <1>f, <1>12 DEF tables, account, request, handoff
<1> QED
  BY <1>1, <1>2, <1>3, <1>4, <1>5, <1>6, <1>7, <1>8, <1>9, <1>10, <1>11, <1>12, WritesOrKeeps DEF WorkerWrite

(***************************************************************************)
(* Operator takeover holds against workers that do not know of it: one that*)
(* lost the lock finds the mode in every transaction (ERASURE_MODE) and    *)
(* writes nothing.                                                         *)
(***************************************************************************)
THEOREM ManualKeepsOut == Spec => ManualKeepsWorkersOut
<1>1. IInv /\ [Next]_vars =>
        [\A m \in Members : mode[m] = "manual" /\ mode'[m] = "manual" /\ pc' # pc =>
           /\ member'[m] = member[m] /\ stage'[m] = stage[m]
           /\ files'[m] = files[m] /\ target'[m] = target[m]
           /\ evidence'[m] = evidence[m] /\ context'[m] = context[m]
           /\ status[m] = "processing" => status'[m] = "processing"]_vars
  BY ManualStep
<1> QED
  BY <1>1, Invariance, PTL DEF Spec, ManualKeepsWorkersOut

-----------------------------------------------------------------------------
\* Refinement of DeletionContract.  The phases and the debts as the contract
\* sees them.
PhaseOf == [m \in Members |-> Phase(m)]
OwedOf == [m \in Members |-> Owed(m)]

\* A step that moves one member from phase to phase and keeps what is owed.
LEMMA PhaseMoves ==
    ASSUME NEW x \in Members, NEW from, NEW to, Phase(x) = from, Phase(x)' = to,
           \A m \in Members : m # x => Phase(m)' = Phase(m),
           \A m \in Members : Owed(m)' = Owed(m)
    PROVE  Contract!Move(x, from, to) /\ UNCHANGED OwedOf
  BY DEF Contract!Move, OwedOf

\* A member whose request, account and revocations stay as they are has not moved.
LEMMA MemberStays ==
    ASSUME NEW m \in Members, status'[m] = status[m], (member'[m] = "erased") <=> (member[m] = "erased"),
           required'[m] = required[m], \A p \in required[m] : revoked'[<<m, p>>] = revoked[<<m, p>>]
    PROVE  Phase(m)' = Phase(m) /\ Owed(m)' = Owed(m)
  BY DEF Phase, Owed

\* When no member has moved, the contract sees no step.
LEMMA NobodyMoves ==
    ASSUME \A m \in Members : Phase(m)' = Phase(m) /\ Owed(m)' = Owed(m)
    PROVE  [Contract!Next]_<<PhaseOf, OwedOf>>
  BY DEF PhaseOf, OwedOf

\* The three moves two actions make each: a worker and an operator.
LEMMA StartMoves ==
    ASSUME RequestType, AccountType, NEW x \in Members, Start(x), member[x] # "erased",
           UNCHANGED <<member, required, revoked>>
    PROVE  [Contract!Next]_<<PhaseOf, OwedOf>>
<1>1. Phase(x) = "open" /\ Phase(x)' = "started" /\ Owed(x)' = Owed(x)
  BY DEF Start, Phase, Owed, RequestType
<1>2. \A m \in Members : m # x => Phase(m)' = Phase(m) /\ Owed(m)' = Owed(m)
  BY MemberStays DEF Start, RequestType
<1>3. Contract!Move(x, "open", "started") /\ UNCHANGED OwedOf
  BY <1>1, <1>2, PhaseMoves
<1> QED
  BY <1>3 DEF Contract!Next, Contract!Start, OwedOf

\* The account is erased, by the worker or by hand.
LEMMA EraseMoves ==
    ASSUME RequestType, AccountType, NEW x \in Members, status[x] = "processing", member[x] # "erased",
           Owed(x) = {}, member' = Set(member, x, "erased"), UNCHANGED <<status, required, revoked>>
    PROVE  [Contract!Next]_<<PhaseOf, OwedOf>>
<1>1. Phase(x) = "started" /\ Phase(x)' = "erased" /\ Owed(x)' = Owed(x)
  BY DEF Phase, Owed, AccountType
<1>2. \A m \in Members : m # x => Phase(m)' = Phase(m) /\ Owed(m)' = Owed(m)
  BY MemberStays DEF AccountType
<1>3. Contract!Move(x, "started", "erased") /\ UNCHANGED OwedOf
  BY <1>1, <1>2, PhaseMoves
<1> QED
  BY <1>3 DEF Contract!Next, Contract!Erase, OwedOf

\* The request is completed, by the worker or by an operator.
LEMMA CloseMoves ==
    ASSUME RequestType, ErasedOwesNothing, NEW x \in Members, status[x] = "processing", member[x] = "erased",
           status' = Set(status, x, "completed"), UNCHANGED <<member, required, revoked>>
    PROVE  [Contract!Next]_<<PhaseOf, OwedOf>>
<1>1. Phase(x) = "erased" /\ Phase(x)' = "closed" /\ Owed(x)' = Owed(x) /\ Owed(x) = {}
  BY DEF Phase, Owed, RequestType, ErasedOwesNothing
<1>2. \A m \in Members : m # x => Phase(m)' = Phase(m) /\ Owed(m)' = Owed(m)
  BY MemberStays DEF RequestType
<1>3. Contract!Move(x, "erased", "closed") /\ UNCHANGED OwedOf
  BY <1>1, <1>2, PhaseMoves
<1> QED
  BY <1>1, <1>3 DEF Contract!Next, Contract!Close, OwedOf

\* Each step of the program is one of the contract or leaves its view alone.
LEMMA ContractStep ==
    ASSUME IInv, [Next]_vars PROVE [Contract!Next]_<<PhaseOf, OwedOf>>
<1> DEFINE Step == [Contract!Next]_<<PhaseOf, OwedOf>>
<1>0. /\ AccountType /\ RequestType /\ LinkType
      /\ \A w \in Workers : cur[w] \in Members /\ Committed(w)
      /\ \A m \in Members : required[m] \subseteq Providers
      /\ \A m \in Members, p \in Providers : <<m, p>> \in Links
      /\ ProofIsReal /\ UntouchedBeforeStart /\ ErasedOwesNothing /\ CompletedMeansErased
      /\ \A m \in Members : ProvidersProved(m) => Owed(m) = {}
      /\ \A m \in Members : member[m] = "erased" => Owed(m) = {}
  BY Typed DEF IInv, RequestType, ProofIsReal, ProvidersProved, Owed, Outbox!Proof, ErasedOwesNothing
<1>f. ASSUME UNCHANGED <<status, member, required, revoked>> PROVE Step
  BY <1>f, MemberStays, NobodyMoves
<1>1. ASSUME NEW w \in Workers, StartAutomatically(w) PROVE Step
  <2>1. CASE UNCHANGED <<status, links>>
    BY <1>f, <1>1, <2>1 DEF StartAutomatically, account, links
  <2>2. CASE Start(cur[w])
    <3>1. status[cur[w]] = "pending" /\ member[cur[w]] # "erased" /\ UNCHANGED <<member, required, revoked>>
      BY <1>0, <1>1, <2>2 DEF StartAutomatically, Start, Outbox!Enqueue, account, UntouchedBeforeStart
    <3> QED
      BY <1>0, <2>2, <3>1, StartMoves
  <2> QED
    BY <1>1, <2>1, <2>2 DEF StartAutomatically
<1>2. ASSUME NEW w \in Workers, EraseDatabase(w) PROVE Step
  <2>1. CASE UNCHANGED member
    BY <1>f, <1>2, <2>1 DEF EraseDatabase, request, links
  <2>2. CASE ~UNCHANGED member
    <3>1. /\ Erasable(cur[w]) /\ member' = Set(member, cur[w], "erased")
          /\ UNCHANGED <<status, required, revoked>>
      BY <1>2, <2>2 DEF EraseDatabase, EraseAccountReferences, request, links
    <3>2. status[cur[w]] = "processing" /\ member[cur[w]] # "erased" /\ Owed(cur[w]) = {}
      BY <1>0, <1>2, <3>1 DEF EraseDatabase, Committed, Erasable, CompletedMeansErased
    <3> QED
      BY <1>0, <3>1, <3>2, EraseMoves
  <2> QED
    BY <2>1, <2>2
<1>3. ASSUME NEW w \in Workers, FinishAutomaticErasure(w) PROVE Step
  <2>1. CASE Completable(cur[w])
    <3>1. /\ status[cur[w]] = "processing" /\ member[cur[w]] = "erased"
          /\ status' = Set(status, cur[w], "completed") /\ UNCHANGED <<member, required, revoked>>
      BY <1>3, <2>1 DEF FinishAutomaticErasure, Completable, NoFootprint, Close, Outbox!Forget, account
    <3> QED
      BY <1>0, <3>1, CloseMoves
  <2>2. CASE ~Completable(cur[w])
    BY <1>f, <1>3, <2>2 DEF FinishAutomaticErasure, account, links
  <2> QED
    BY <2>1, <2>2
<1>4. ASSUME NEW m \in Members, Cancel(m) PROVE Step
  <2>1. status[m] = "pending" /\ status' = Set(status, m, "cancelled") /\ UNCHANGED <<required, revoked>>
    BY <1>4 DEF Cancel, links
  <2>2. \A x \in Members : (member'[x] = "erased") <=> (member[x] = "erased")
    BY <1>0, <1>4 DEF Cancel, AccountType
  <2>3. Phase(m) = "open" /\ Phase(m)' = "cancelled" /\ Owed(m)' = Owed(m)
    BY <1>0, <2>1 DEF Phase, Owed, RequestType
  <2>4. \A x \in Members : x # m => Phase(x)' = Phase(x) /\ Owed(x)' = Owed(x)
    BY <1>0, <2>1, <2>2, MemberStays DEF RequestType
  <2>5. Contract!Move(m, "open", "cancelled") /\ UNCHANGED OwedOf
    BY <2>3, <2>4, PhaseMoves
  <2> QED
    BY <2>5 DEF Contract!Next, Contract!Cancel, OwedOf
<1>5. ASSUME NEW m \in Members, StartManually(m) PROVE Step
  <2>1. Start(m) /\ member[m] # "erased" /\ UNCHANGED <<member, required, revoked>>
    BY <1>0, <1>5 DEF StartManually, Start, Outbox!Enqueue, account, UntouchedBeforeStart
  <2> QED
    BY <1>0, <2>1, StartMoves
<1>6. ASSUME NEW m \in Members, CompleteManually(m) PROVE Step
  <2>1. /\ status[m] = "processing" /\ member[m] = "erased"
        /\ status' = Set(status, m, "completed") /\ UNCHANGED <<member, required, revoked>>
    BY <1>6 DEF CompleteManually, NoFootprint, Close, Outbox!Forget, account
  <2> QED
    BY <1>0, <2>1, CloseMoves
<1>7. ASSUME NEW m \in Members, EraseByHand(m) PROVE Step
  <2>1. /\ status[m] = "processing" /\ Owed(m) = {}
        /\ member' = Set(member, m, "erased") /\ UNCHANGED <<status, required, revoked>>
    BY <1>0, <1>7 DEF EraseByHand, request, links
  <2>2. CASE member[m] = "erased"
    BY <1>0, <2>1, <2>2, MemberStays, NobodyMoves DEF AccountType
  <2>3. CASE member[m] # "erased"
    BY <1>0, <2>1, <2>3, EraseMoves
  <2> QED
    BY <2>2, <2>3
<1>8. ASSUME NEW m \in Members, UpdateMemberStatus(m) PROVE Step
  <2>1. \A x \in Members : (member'[x] = "erased") <=> (member[x] = "erased")
    BY <1>0, <1>8 DEF UpdateMemberStatus, AccountType
  <2> QED
    BY <1>0, <1>8, <2>1, MemberStays, NobodyMoves DEF UpdateMemberStatus, links
<1>9. ASSUME NEW m \in Members, CreateReceipt(m) PROVE Step
  <2>1. /\ status[m] = "none" /\ status' = Set(status, m, "pending")
        /\ required' = Set(required, m, social[m]) /\ UNCHANGED revoked
    BY <1>9 DEF CreateReceipt, links
  <2>2. \A x \in Members : (member'[x] = "erased") <=> (member[x] = "erased")
    BY <1>0, <1>9 DEF CreateReceipt, AccountType
  <2>3. \A x \in Members : x # m => Phase(x)' = Phase(x) /\ Owed(x)' = Owed(x)
    BY <1>0, <2>1, <2>2, MemberStays DEF RequestType
  <2>4. Phase(m) = "none" /\ Phase(m)' = "open" /\ Owed(m)' \in SUBSET Providers
    BY <1>0, <2>1 DEF Phase, Owed, RequestType, AccountType
  <2>5. PhaseOf' = [PhaseOf EXCEPT ![m] = "open"] /\ OwedOf' = [OwedOf EXCEPT ![m] = Owed(m)']
    BY <2>3, <2>4 DEF PhaseOf, OwedOf
  <2>6. Contract!Request(m)
    BY <2>4, <2>5 DEF Contract!Request, Contract!Move, PhaseOf, OwedOf
  <2> QED
    BY <2>6 DEF Contract!Next
<1>10. ASSUME NEW w \in Workers,
             \/ PrepareErasure(w) \/ PreserveContext(w) \/ EraseFiles(w) \/ BeginErasureTargets(w)
             \/ RecordTargets(w) \/ RecordExternalErasure(w)
      PROVE  Step
  BY <1>f, <1>10
     DEF PrepareErasure, PreserveContext, EraseFiles, BeginErasureTargets, RecordTargets, RecordExternalErasure,
         account, request, links
<1>11. ASSUME NEW m \in Members,
             \/ (\E action \in {"expedite", "schedule", "retry_social"} : ControlSchedule(m, action))
             \/ (\E t \in Targets, result \in {"manual", "complete"} : ReviewErasureTarget(m, t, result))
             \/ (\E new \in {"not_required", "active", "completed"} : ResolveReceiptWork(m, new))
             \/ ReviewHold(m) \/ QueueHistoricalFiles(m)
      PROVE  Step
  BY <1>f, <1>11
     DEF ControlSchedule, ReviewErasureTarget, ResolveReceiptWork, ReviewHold, QueueHistoricalFiles, account,
         request, links
<1>12. ASSUME NEW m \in Members,
             \/ (\E p \in Providers : Unlink(m, p)) \/ DonationChanges(m) \/ LateWrite(m) \/ ContextExpires(m)
             \/ PurgeContext(m)
      PROVE  Step
  BY <1>f, <1>12
     DEF Unlink, DonationChanges, LateWrite, ContextExpires, PurgeContext, account, request, links
<1>13. ASSUME NEW k \in Links, RevocationStep(k) PROVE Step
  <2>1. CASE UNCHANGED revoked
    BY <1>f, <1>13, <2>1 DEF RevocationStep, account, request
  <2>2. CASE ~UNCHANGED revoked
    <3>1. outbox[k] # "ABSENT" /\ revoked' = [revoked EXCEPT ![k] = TRUE] /\ UNCHANGED <<status, member, required>>
      BY <1>13, <2>2 DEF RevocationStep, Outbox!Revoke, Outbox!Report, account, request
    <3>2. PICK m \in Members, p \in Providers : k = <<m, p>>
      BY DEF Links
    <3>3. \A x \in Members : x # m => Phase(x)' = Phase(x) /\ Owed(x)' = Owed(x)
      BY <1>0, <3>1, <3>2, MemberStays DEF LinkType
    <3>4. status[m] = "processing"
      BY <1>0, <3>1, <3>2 DEF UntouchedBeforeStart, CompletedMeansErased, RequestType
    <3>5. Phase(m)' = Phase(m) /\ Owed(m)' = Owed(m) \ {p}
      BY <1>0, <3>1, <3>2 DEF Phase, Owed, LinkType
    <3>6. CASE member[m] = "erased"
      BY <1>0, <3>3, <3>5, <3>6, NobodyMoves
    <3>7. CASE member[m] # "erased"
      <4>1. Phase(m) = "started"
        BY <3>4, <3>7 DEF Phase
      <4>2. UNCHANGED PhaseOf /\ OwedOf' = [OwedOf EXCEPT ![m] = @ \ {p}]
        BY <3>3, <3>5 DEF PhaseOf, OwedOf
      <4>3. Contract!Revoke(m)
        BY <4>1, <4>2 DEF Contract!Revoke, PhaseOf, OwedOf
      <4> QED
        BY <4>3 DEF Contract!Next
    <3> QED
      BY <3>6, <3>7
  <2> QED
    BY <2>1, <2>2
<1>14. ASSUME UNCHANGED tables PROVE Step
  BY <1>f, <1>14 DEF tables, account, request, links
<1> QED
  BY <1>1, <1>2, <1>3, <1>4, <1>5, <1>6, <1>7, <1>8, <1>9, <1>10, <1>11, <1>12, <1>13, <1>14, WritesOrKeeps
     DEF WorkerWrite, OperatorWrite, AccountWrite

\* No request is made yet.
LEMMA ContractInit == Init => Contract!Init
  BY DEF Init, Contract!Init, Phase, Owed, Outbox!Init

(***************************************************************************)
(* The erasure workers, the operators, the revocation outbox and whatever  *)
(* else writes these tables keep the contract of a deletion: cancelled only*)
(* before it is started, revoked only after, erased when nothing is owed,  *)
(* completed when erased.                                                  *)
(***************************************************************************)
THEOREM Refinement == Spec => ImplementsContract
<1>1. Contract!Spec <=> Contract!Init /\ [][Contract!Next]_<<PhaseOf, OwedOf>>
  BY DEF Contract!Spec, PhaseOf, OwedOf
<1> QED
  BY <1>1, ContractInit, ContractStep, Invariance, PTL DEF Spec, ImplementsContract
=============================================================================
