----------------------- MODULE SocialRevocationProofs -----------------------
(***************************************************************************)
(* Proofs about SocialRevocation, for any set of workers and rows: types,  *)
(* the reality of recorded revocation proof, the safety of relinking, the  *)
(* powerlessness of a stolen lease, and that the outbox implements the     *)
(* contract RevocationOutbox.                                              *)
(***************************************************************************)
EXTENDS SocialRevocation, TLAPS

\* What a worker has established by the time it reaches a step.
\* Inside the transaction nothing else writes the two locked rows.
InTx(w) == pc[w] \in {"callTx", "markTx"}

StepInv(w) ==
    /\ pc[w] \in {"lock", "callTx", "markTx"} => cur[w] \in Disconnects
    /\ pc[w] \in {"call", "mark"} => cur[w] \in Deletes
    /\ InTx(w) => status[cur[w]] = "PENDING" /\ connection[cur[w]] = "DISCONNECTING" /\ claim[cur[w]] = w
    /\ pc[w] \in {"mark", "markTx"} => provider[cur[w]] # "linked"
    /\ pc[w] = "finalize" /\ cur[w] \in Deletes => provider[cur[w]] # "linked"
    /\ pc[w] = "fail" /\ retry[w] = "REVOKED"
         => provider[cur[w]] # "linked" \/ (cur[w] \in Disconnects /\ status[cur[w]] = "DELIVERED")
    /\ \A r \in Deletes : snap[w][r] = "REVOKED" => provider[r] # "linked"

OneTransaction ==
    \A v, w \in Workers : InTx(v) /\ InTx(w) /\ cur[v] = cur[w] => v = w

(***************************************************************************)
(* The inductive invariant.  ProofIsReal alone is not inductive: what a    *)
(* later write makes of a row depends on the snapshot and the step of a    *)
(* worker, which StepInv ties to what the provider has seen.               *)
(***************************************************************************)
IInv ==
    /\ TypeOK
    /\ ProofIsReal
    /\ RelinkIsSafe
    /\ OneTransaction
    /\ \A w \in Workers : StepInv(w)
-----------------------------------------------------------------------------
\* The three ways a step changes the types: a worker moves on, enters
\* recordFailure, or a row is written.
LEMMA GoToType ==
    ASSUME WorkerType, NEW w \in Workers, NEW step \in Steps, GoTo(w, step), UNCHANGED <<cur, batch, retry>>
    PROVE  WorkerType'
  BY DEF WorkerType, GoTo, batch

\* recordFailure, entered with either retry status, keeps the types of the worker.
LEMMA RecordFailureType ==
    ASSUME WorkerType, NEW w \in Workers, NEW s \in Due, RecordFailure(w, s), UNCHANGED <<cur, batch>>
    PROVE  WorkerType'
  BY DEF WorkerType, RecordFailure, GoTo, batch, Steps

\* Writing a known status to a row keeps the types of the row.
LEMMA SetStatusType ==
    ASSUME OutboxType, NEW r \in Rows, NEW s \in Statuses, SetStatus(r, s)
    PROVE  OutboxType'
  BY DEF OutboxType, SetStatus, Touch

\* The failure write of a row (status, attempts, claim) keeps the types of the row.
LEMMA WriteFailureType ==
    ASSUME OutboxType, WorkerType, NEW w \in Workers, NEW r \in Rows, WriteFailure(w, r)
    PROVE  OutboxType'
  <1> DEFINE n == snapCount[w][r] + 1
  <1>1. /\ retry[w] \in Statuses
        /\ n >= MaxAttempts \/ n \in 0..MaxAttempts
    BY ConstantsAssumption DEF WorkerType, Due, Statuses
  <1> QED
    BY <1>1, ConstantsAssumption DEF OutboxType, WriteFailure, Touch, Statuses

\* Every step of a worker or of the environment keeps the types.
LEMMA TypeStep == TypeOK /\ [Next]_vars => TypeOK'
<1> SUFFICES ASSUME TypeOK, [Next]_vars PROVE TypeOK'
  OBVIOUS
<1> USE ConstantsAssumption DEF Statuses, Steps, Connections, link, worker, batch, outbox, Due
<1>1. ASSUME NEW w \in Workers, ClaimDueSocialRevocations(w) PROVE TypeOK'
  BY <1>1 DEF TypeOK, OutboxType, LinkType, WorkerType, ClaimDueSocialRevocations, GoTo
<1>2. ASSUME NEW w \in Workers, FetchClaimed(w) PROVE TypeOK'
  BY <1>2 DEF TypeOK, OutboxType, LinkType, WorkerType, FetchClaimed, GoTo, Statuses
<1>3. ASSUME NEW w \in Workers, ProcessEntry(w) PROVE TypeOK'
  BY <1>3 DEF TypeOK, OutboxType, LinkType, WorkerType, ProcessEntry, GoTo
<1>4. ASSUME NEW w \in Workers, BatchDone(w) PROVE TypeOK'
  BY <1>4 DEF TypeOK, OutboxType, LinkType, WorkerType, BatchDone, GoTo, DropBatch, NoEntry
<1>5. ASSUME NEW w \in Workers, BeginDisconnect(w) PROVE TypeOK'
  <2>1. OutboxType'
    BY <1>5 DEF TypeOK, OutboxType, LinkType, WorkerType, BeginDisconnect, BeginFails, RecordFailure, GoTo, Fault, NoFault
  <2>2. LinkType'
    BY <1>5 DEF TypeOK, OutboxType, LinkType, WorkerType, BeginDisconnect, BeginFails, RecordFailure, GoTo, Fault, NoFault
  <2>3. WorkerType'
    BY <1>5, GoToType, RecordFailureType DEF TypeOK, BeginDisconnect, BeginFails
  <2>4. faults' \in 0..MaxFaults
    BY <1>5 DEF TypeOK, OutboxType, LinkType, WorkerType, BeginDisconnect, BeginFails, RecordFailure, GoTo, Fault, NoFault
  <2> QED
    BY <2>1, <2>2, <2>3, <2>4 DEF TypeOK
<1>6. ASSUME NEW w \in Workers, CallInTransaction(w) PROVE TypeOK'
  <2>1. OutboxType'
    BY <1>6 DEF TypeOK, OutboxType, LinkType, WorkerType, CallInTransaction, ProviderAccepts, ProviderFails, RecordFailure, Called, Fault, NoFault, GoTo
  <2>2. LinkType'
    BY ZenonT(60), <1>6 DEF TypeOK, OutboxType, LinkType, WorkerType, CallInTransaction, ProviderAccepts, ProviderFails, RecordFailure, Called, Fault, NoFault, GoTo
  <2>3. WorkerType'
    BY <1>6 DEF TypeOK, OutboxType, LinkType, WorkerType, CallInTransaction, ProviderAccepts, ProviderFails, RecordFailure, Called, Fault, NoFault, GoTo
  <2>4. faults' \in 0..MaxFaults
    BY <1>6 DEF TypeOK, OutboxType, LinkType, WorkerType, CallInTransaction, ProviderAccepts, ProviderFails, RecordFailure, Called, Fault, NoFault, GoTo
  <2> QED
    BY <2>1, <2>2, <2>3, <2>4 DEF TypeOK
<1>7. ASSUME NEW w \in Workers, CommitCheckpoint(w) PROVE TypeOK'
  <2>1. OutboxType'
    BY <1>7, SetStatusType DEF TypeOK, WorkerType, OutboxType, CommitCheckpoint
  <2>2. LinkType'
    BY <1>7 DEF TypeOK, OutboxType, LinkType, WorkerType, CommitCheckpoint, SetStatus, Touch, RecordFailure, Fault, NoFault, GoTo
  <2>3. WorkerType'
    BY <1>7, GoToType, RecordFailureType DEF TypeOK, CommitCheckpoint
  <2>4. faults' \in 0..MaxFaults
    BY <1>7 DEF TypeOK, OutboxType, LinkType, WorkerType, CommitCheckpoint, SetStatus, Touch, RecordFailure, Fault, NoFault, GoTo
  <2> QED
    BY <2>1, <2>2, <2>3, <2>4 DEF TypeOK
<1>8. ASSUME NEW w \in Workers, FinalizeDisconnect(w) PROVE TypeOK'
  <2>1. OutboxType'
    BY <1>8, SetStatusType DEF TypeOK, WorkerType, FinalizeDisconnect, DeleteConnection, OutboxType
  <2>2. LinkType'
    BY ZenonT(60), <1>8 DEF TypeOK, OutboxType, LinkType, WorkerType, FinalizeDisconnect, DeleteConnection, SetStatus, Touch, RecordFailure, Fault, NoFault, GoTo
  <2>3. WorkerType'
    BY <1>8, GoToType, RecordFailureType DEF TypeOK, FinalizeDisconnect
  <2>4. faults' \in 0..MaxFaults
    BY <1>8 DEF TypeOK, OutboxType, LinkType, WorkerType, FinalizeDisconnect, DeleteConnection, SetStatus, Touch, RecordFailure, Fault, NoFault, GoTo
  <2> QED
    BY <2>1, <2>2, <2>3, <2>4 DEF TypeOK
<1>9. ASSUME NEW w \in Workers, CallProvider(w) PROVE TypeOK'
  <2>1. OutboxType'
    BY <1>9 DEF TypeOK, OutboxType, LinkType, WorkerType, CallProvider, ProviderAccepts, ProviderFails, RecordFailure, Called, Fault, NoFault, GoTo
  <2>2. LinkType'
    BY <1>9 DEF TypeOK, OutboxType, LinkType, WorkerType, CallProvider, ProviderAccepts, ProviderFails, RecordFailure, Called, Fault, NoFault, GoTo
  <2>3. WorkerType'
    BY <1>9 DEF TypeOK, OutboxType, LinkType, WorkerType, CallProvider, ProviderAccepts, ProviderFails, RecordFailure, Called, Fault, NoFault, GoTo
  <2>4. faults' \in 0..MaxFaults
    BY <1>9 DEF TypeOK, OutboxType, LinkType, WorkerType, CallProvider, ProviderAccepts, ProviderFails, RecordFailure, Called, Fault, NoFault, GoTo
  <2> QED
    BY <2>1, <2>2, <2>3, <2>4 DEF TypeOK
<1>10. ASSUME NEW w \in Workers, MarkRevoked(w) PROVE TypeOK'
  <2>1. OutboxType'
    BY <1>10, SetStatusType DEF TypeOK, WorkerType, OutboxType, MarkRevoked
  <2>2. LinkType'
    BY <1>10 DEF TypeOK, OutboxType, LinkType, WorkerType, MarkRevoked, SetStatus, Touch, RecordFailure, Fault, NoFault, GoTo
  <2>3. WorkerType'
    BY <1>10, GoToType, RecordFailureType DEF TypeOK, MarkRevoked
  <2>4. faults' \in 0..MaxFaults
    BY <1>10 DEF TypeOK, OutboxType, LinkType, WorkerType, MarkRevoked, SetStatus, Touch, RecordFailure, Fault, NoFault, GoTo
  <2> QED
    BY <2>1, <2>2, <2>3, <2>4 DEF TypeOK
<1>11. ASSUME NEW w \in Workers, CompleteAccountDeletion(w) PROVE TypeOK'
  <2>1. OutboxType'
    BY <1>11, SetStatusType DEF TypeOK, WorkerType, OutboxType, CompleteAccountDeletion
  <2>2. LinkType'
    BY <1>11 DEF TypeOK, OutboxType, LinkType, WorkerType, CompleteAccountDeletion, SetStatus, Touch, RecordFailure, Fault, NoFault, GoTo
  <2>3. WorkerType'
    BY <1>11, GoToType, RecordFailureType DEF TypeOK, CompleteAccountDeletion
  <2>4. faults' \in 0..MaxFaults
    BY <1>11 DEF TypeOK, OutboxType, LinkType, WorkerType, CompleteAccountDeletion, SetStatus, Touch, RecordFailure, Fault, NoFault, GoTo
  <2> QED
    BY <2>1, <2>2, <2>3, <2>4 DEF TypeOK
<1>12. ASSUME NEW w \in Workers, MarkSucceeded(w) PROVE TypeOK'
  <2>1. OutboxType'
    BY <1>12 DEF TypeOK, OutboxType, LinkType, WorkerType, MarkSucceeded, SetStatus, Touch, Fault, NoFault, GoTo
  <2>2. LinkType'
    BY <1>12 DEF TypeOK, OutboxType, LinkType, WorkerType, MarkSucceeded, SetStatus, Touch, Fault, NoFault, GoTo
  <2>3. WorkerType'
    BY <1>12 DEF TypeOK, OutboxType, LinkType, WorkerType, MarkSucceeded, SetStatus, Touch, Fault, NoFault, GoTo
  <2>4. faults' \in 0..MaxFaults
    BY <1>12 DEF TypeOK, OutboxType, LinkType, WorkerType, MarkSucceeded, SetStatus, Touch, Fault, NoFault, GoTo
  <2> QED
    BY <2>1, <2>2, <2>3, <2>4 DEF TypeOK
<1>13. ASSUME NEW w \in Workers, MarkFailed(w) PROVE TypeOK'
  <2>1. OutboxType'
    BY <1>13, WriteFailureType DEF TypeOK, WorkerType, MarkFailed, OutboxType
  <2>2. LinkType'
    BY <1>13 DEF TypeOK, OutboxType, LinkType, WorkerType, MarkFailed, SetStatus, Touch, WriteFailure, Fault, NoFault, GoTo
  <2>3. WorkerType'
    BY <1>13 DEF TypeOK, OutboxType, LinkType, WorkerType, MarkFailed, SetStatus, Touch, WriteFailure, Fault, NoFault, GoTo
  <2>4. faults' \in 0..MaxFaults
    BY <1>13 DEF TypeOK, OutboxType, LinkType, WorkerType, MarkFailed, SetStatus, Touch, WriteFailure, Fault, NoFault, GoTo
  <2> QED
    BY <2>1, <2>2, <2>3, <2>4 DEF TypeOK
<1>14. ASSUME NEW w \in Workers, FetchFails(w) PROVE TypeOK'
  BY <1>14 DEF TypeOK, OutboxType, LinkType, WorkerType, FetchFails, Fault, GoTo
<1>15. ASSUME NEW w \in Workers, Crash(w) PROVE TypeOK'
  BY <1>15 DEF TypeOK, OutboxType, LinkType, WorkerType, Crash, Fault, GoTo, DropBatch, NoEntry
<1>16. ASSUME NEW r \in Rows, LeaseExpires(r) PROVE TypeOK'
  BY <1>16 DEF TypeOK, OutboxType, LinkType, WorkerType, LeaseExpires, Fault, NoFault
<1>17. ASSUME NEW r \in Rows, BackoffElapses(r) PROVE TypeOK'
  BY <1>17 DEF TypeOK, OutboxType, LinkType, WorkerType, BackoffElapses
<1>18. ASSUME NEW r \in Rows, QueueAccountDelete(r) PROVE TypeOK'
  BY <1>18 DEF TypeOK, OutboxType, LinkType, WorkerType, QueueAccountDelete, SetStatus, Touch
<1>19. ASSUME NEW r \in Rows, RetrySocial(r) PROVE TypeOK'
  BY <1>19 DEF TypeOK, OutboxType, LinkType, WorkerType, RetrySocial, Requeue, SetStatus, Touch, Fault
<1>20. ASSUME NEW r \in Rows, LinkSocialIdentity(r) PROVE TypeOK'
  BY <1>20 DEF TypeOK, OutboxType, LinkType, WorkerType, LinkSocialIdentity
<1>21. ASSUME NEW r \in Rows, DeleteActiveConnection(r) PROVE TypeOK'
  BY <1>21 DEF TypeOK, OutboxType, LinkType, WorkerType, DeleteActiveConnection, DeleteConnection, SetStatus, Touch
<1>22. CASE UNCHANGED vars
  BY <1>22 DEF TypeOK, OutboxType, LinkType, WorkerType, vars
<1> QED
  BY <1>1, <1>2, <1>3, <1>4, <1>5, <1>6, <1>7, <1>8, <1>9, <1>10, <1>11, <1>12, <1>13, <1>14, <1>15, <1>16, <1>17, <1>18, <1>19, <1>20, <1>21, <1>22 DEF Next, WorkerStep

-----------------------------------------------------------------------------
\* A step after which no further worker is inside a transaction.
LEMMA NoNewTransaction ==
    ASSUME OneTransaction, UNCHANGED cur, \A v \in Workers : InTx(v)' => InTx(v)
    PROVE  OneTransaction'
  BY DEF OneTransaction

\* Every step keeps the inductive invariant.
LEMMA InvStep == IInv /\ [Next]_vars => IInv'
<1> SUFFICES ASSUME IInv, [Next]_vars PROVE IInv'
  OBVIOUS
<1> DEFINE Safe == ProofIsReal /\ RelinkIsSafe /\ OneTransaction /\ \A w \in Workers : StepInv(w)
<1>t. TypeOK /\ TypeOK'
  BY TypeStep DEF IInv
<1>d. Disconnects \intersect Deletes = {} /\ Rows = Disconnects \union Deletes
  BY ConstantsAssumption DEF Rows
<1> USE <1>t, <1>d DEF IInv, TypeOK, OutboxType, LinkType, WorkerType, Due, link, worker, batch, outbox
<1>1. ASSUME NEW w \in Workers, ClaimDueSocialRevocations(w) PROVE Safe'
  <2>1. ProofIsReal'
    BY <1>1 DEF ClaimDueSocialRevocations, GoTo, ProofIsReal, StepInv
  <2>2. RelinkIsSafe'
    BY <1>1 DEF ClaimDueSocialRevocations, GoTo, RelinkIsSafe, StepInv, InTx
  <2>3. OneTransaction'
    BY <1>1 DEF ClaimDueSocialRevocations, GoTo, OneTransaction, InTx
  <2>4. ASSUME NEW v \in Workers PROVE StepInv(v)'
    <3>1. ASSUME InTx(v) PROVE claim'[cur[v]] = claim[cur[v]]
      <4>1. ~Claimable(cur[v])
        BY <1>1, <3>1 DEF ClaimDueSocialRevocations, Locked, InTx
      <4> QED
        BY <1>1, <4>1 DEF ClaimDueSocialRevocations
    <3>2. pc'[v] \in {pc[v], "fetch"} /\ UNCHANGED <<cur, snap, retry, status, connection, provider>>
      BY <1>1 DEF ClaimDueSocialRevocations, GoTo
    <3> QED
      BY <3>1, <3>2 DEF StepInv, InTx
  <2> QED
    BY <2>1, <2>2, <2>3, <2>4
<1>2. ASSUME NEW w \in Workers, FetchClaimed(w) PROVE Safe'
  <2>1. ProofIsReal'
    BY <1>2 DEF FetchClaimed, GoTo, ProofIsReal, StepInv
  <2>2. RelinkIsSafe'
    BY <1>2 DEF FetchClaimed, GoTo, RelinkIsSafe, StepInv, InTx
  <2>3. OneTransaction'
    BY <1>2 DEF FetchClaimed, GoTo, OneTransaction, InTx
  <2>4. \A v \in Workers : StepInv(v)'
    BY <1>2 DEF FetchClaimed, GoTo, StepInv, InTx, OneTransaction, ProofIsReal, RelinkIsSafe
  <2> QED
    BY <2>1, <2>2, <2>3, <2>4
<1>3. ASSUME NEW w \in Workers, ProcessEntry(w) PROVE Safe'
  <2>1. ProofIsReal'
    BY <1>3 DEF ProcessEntry, GoTo, ProofIsReal, StepInv
  <2>2. RelinkIsSafe'
    BY <1>3 DEF ProcessEntry, GoTo, RelinkIsSafe, StepInv, InTx
  <2>3. OneTransaction'
    BY <1>3 DEF ProcessEntry, GoTo, OneTransaction, InTx
  <2>4. \A v \in Workers : StepInv(v)'
    BY <1>3 DEF ProcessEntry, GoTo, StepInv, InTx, OneTransaction, ProofIsReal, RelinkIsSafe
  <2> QED
    BY <2>1, <2>2, <2>3, <2>4
<1>4. ASSUME NEW w \in Workers, BatchDone(w) PROVE Safe'
  <2>1. ProofIsReal'
    BY <1>4 DEF BatchDone, GoTo, DropBatch, ProofIsReal, StepInv
  <2>2. RelinkIsSafe'
    BY <1>4 DEF BatchDone, GoTo, DropBatch, RelinkIsSafe, StepInv, InTx
  <2>3. OneTransaction'
    BY <1>4 DEF BatchDone, GoTo, DropBatch, OneTransaction, InTx
  <2>4. \A v \in Workers : StepInv(v)'
    BY <1>4 DEF BatchDone, GoTo, DropBatch, StepInv, InTx, OneTransaction, ProofIsReal, RelinkIsSafe
  <2> QED
    BY <2>1, <2>2, <2>3, <2>4
<1>5. ASSUME NEW w \in Workers, BeginDisconnect(w) PROVE Safe'
  <2>1. ProofIsReal'
    BY <1>5 DEF BeginDisconnect, BeginFails, RecordFailure, GoTo, Fault, NoFault, ClaimCurrent, Locked, ProofIsReal, StepInv
  <2>2. RelinkIsSafe'
    BY <1>5 DEF BeginDisconnect, BeginFails, RecordFailure, GoTo, Fault, NoFault, ClaimCurrent, Locked, RelinkIsSafe, StepInv, InTx
  <2>3. OneTransaction'
    BY <1>5 DEF BeginDisconnect, BeginFails, RecordFailure, GoTo, Fault, NoFault, ClaimCurrent, Locked, OneTransaction, InTx
  <2>4. \A v \in Workers : StepInv(v)'
    BY <1>5 DEF BeginDisconnect, BeginFails, RecordFailure, GoTo, Fault, NoFault, ClaimCurrent, Locked, StepInv, InTx, OneTransaction, ProofIsReal, RelinkIsSafe
  <2> QED
    BY <2>1, <2>2, <2>3, <2>4
<1>6. ASSUME NEW w \in Workers, CallInTransaction(w) PROVE Safe'
  <2>1. ProofIsReal'
    BY <1>6 DEF CallInTransaction, ProviderAccepts, ProviderFails, RecordFailure, Called, GoTo, ProofIsReal, StepInv
  <2>2. RelinkIsSafe'
    BY <1>6 DEF CallInTransaction, ProviderAccepts, ProviderFails, RecordFailure, Called, GoTo, RelinkIsSafe, StepInv, InTx
  <2>3. OneTransaction'
    <3>1. UNCHANGED cur
      BY <1>6 DEF CallInTransaction
    <3>2. \A v \in Workers : InTx(v)' => InTx(v)
      BY <1>6 DEF CallInTransaction, ProviderAccepts, ProviderFails, RecordFailure, GoTo, InTx
    <3> QED
      BY <3>1, <3>2, NoNewTransaction
  <2>4. \A v \in Workers : StepInv(v)'
    BY <1>6 DEF CallInTransaction, ProviderAccepts, ProviderFails, RecordFailure, Called, GoTo, StepInv, InTx, OneTransaction, ProofIsReal, RelinkIsSafe
  <2> QED
    BY <2>1, <2>2, <2>3, <2>4
<1>7. ASSUME NEW w \in Workers, CommitCheckpoint(w) PROVE Safe'
  <2>1. ProofIsReal'
    BY <1>7 DEF CommitCheckpoint, SetStatus, RecordFailure, GoTo, ProofIsReal, StepInv
  <2>2. RelinkIsSafe'
    BY <1>7 DEF CommitCheckpoint, SetStatus, RecordFailure, GoTo, RelinkIsSafe, StepInv, InTx
  <2>3. OneTransaction'
    <3>1. UNCHANGED cur
      BY <1>7 DEF CommitCheckpoint
    <3>2. \A v \in Workers : InTx(v)' => InTx(v)
      BY <1>7 DEF CommitCheckpoint, RecordFailure, GoTo, InTx
    <3> QED
      BY <3>1, <3>2, NoNewTransaction
  <2>4. \A v \in Workers : StepInv(v)'
    BY <1>7 DEF CommitCheckpoint, SetStatus, RecordFailure, GoTo, StepInv, InTx, OneTransaction, ProofIsReal, RelinkIsSafe
  <2> QED
    BY <2>1, <2>2, <2>3, <2>4
<1>8. ASSUME NEW w \in Workers, FinalizeDisconnect(w) PROVE Safe'
  <2>1. ProofIsReal'
    BY <1>8 DEF FinalizeDisconnect, DeleteConnection, SetStatus, RecordFailure, GoTo, ClaimCurrent, Locked, ProofIsReal, StepInv
  <2>2. RelinkIsSafe'
    BY <1>8 DEF FinalizeDisconnect, DeleteConnection, SetStatus, RecordFailure, GoTo, ClaimCurrent, Locked, RelinkIsSafe, StepInv, InTx
  <2>3. OneTransaction'
    <3>1. UNCHANGED cur
      BY <1>8 DEF FinalizeDisconnect
    <3>2. \A v \in Workers : InTx(v)' => InTx(v)
      BY <1>8 DEF FinalizeDisconnect, RecordFailure, GoTo, InTx
    <3> QED
      BY <3>1, <3>2, NoNewTransaction
  <2>4. \A v \in Workers : StepInv(v)'
    BY <1>8 DEF FinalizeDisconnect, DeleteConnection, SetStatus, RecordFailure, GoTo, ClaimCurrent, Locked, StepInv, InTx, OneTransaction, ProofIsReal, RelinkIsSafe
  <2> QED
    BY <2>1, <2>2, <2>3, <2>4
<1>9. ASSUME NEW w \in Workers, CallProvider(w) PROVE Safe'
  <2>1. ProofIsReal'
    BY <1>9 DEF CallProvider, ProviderAccepts, ProviderFails, RecordFailure, Called, GoTo, ProofIsReal, StepInv
  <2>2. RelinkIsSafe'
    BY <1>9 DEF CallProvider, ProviderAccepts, ProviderFails, RecordFailure, Called, GoTo, RelinkIsSafe, StepInv, InTx
  <2>3. OneTransaction'
    <3>1. UNCHANGED cur
      BY <1>9 DEF CallProvider
    <3>2. \A v \in Workers : InTx(v)' => InTx(v)
      BY <1>9 DEF CallProvider, ProviderAccepts, ProviderFails, RecordFailure, GoTo, InTx
    <3> QED
      BY <3>1, <3>2, NoNewTransaction
  <2>4. ASSUME NEW v \in Workers PROVE StepInv(v)'
    <3>1. \A r \in Rows : provider[r] # "linked" => provider'[r] # "linked"
      BY <1>9 DEF CallProvider, ProviderAccepts, ProviderFails, Called
    <3>2. CASE v # w
      <4>1. pc'[v] = pc[v] /\ cur'[v] = cur[v] /\ snap'[v] = snap[v] /\ retry'[v] = retry[v] /\ UNCHANGED <<status, connection, claim>>
        BY <1>9, <3>2 DEF CallProvider, ProviderAccepts, ProviderFails, RecordFailure, GoTo
      <4> QED
        BY <3>1, <4>1 DEF StepInv, InTx
    <3>3. CASE v = w
      <4>1. cur'[v] = cur[v] /\ snap'[v] = snap[v] /\ cur[v] \in Deletes
        BY <1>9, <3>3 DEF CallProvider, StepInv
      <4>2. \/ pc'[v] = "mark" /\ provider'[cur[v]] # "linked"
            \/ pc'[v] = "fail" /\ retry'[v] = "PENDING"
        BY <1>9, <3>3 DEF CallProvider, ProviderAccepts, ProviderFails, RecordFailure, Called, GoTo
      <4> QED
        BY <3>1, <4>1, <4>2 DEF StepInv, InTx
    <3> QED
      BY <3>2, <3>3
  <2> QED
    BY <2>1, <2>2, <2>3, <2>4
<1>10. ASSUME NEW w \in Workers, MarkRevoked(w) PROVE Safe'
  <2>1. ProofIsReal'
    BY <1>10 DEF MarkRevoked, SetStatus, RecordFailure, GoTo, ProofIsReal, StepInv
  <2>2. RelinkIsSafe'
    BY <1>10 DEF MarkRevoked, SetStatus, RecordFailure, GoTo, RelinkIsSafe, StepInv, InTx
  <2>3. OneTransaction'
    BY <1>10 DEF MarkRevoked, SetStatus, RecordFailure, GoTo, OneTransaction, InTx
  <2>4. \A v \in Workers : StepInv(v)'
    BY <1>10 DEF MarkRevoked, SetStatus, RecordFailure, GoTo, StepInv, InTx, OneTransaction, ProofIsReal, RelinkIsSafe
  <2> QED
    BY <2>1, <2>2, <2>3, <2>4
<1>11. ASSUME NEW w \in Workers, CompleteAccountDeletion(w) PROVE Safe'
  <2>1. ProofIsReal'
    BY <1>11 DEF CompleteAccountDeletion, SetStatus, RecordFailure, GoTo, ProofIsReal, StepInv
  <2>2. RelinkIsSafe'
    BY <1>11 DEF CompleteAccountDeletion, SetStatus, RecordFailure, GoTo, RelinkIsSafe, StepInv, InTx
  <2>3. OneTransaction'
    <3>1. UNCHANGED cur
      BY <1>11 DEF CompleteAccountDeletion
    <3>2. \A v \in Workers : InTx(v)' => InTx(v)
      BY <1>11 DEF CompleteAccountDeletion, RecordFailure, GoTo, InTx
    <3> QED
      BY <3>1, <3>2, NoNewTransaction
  <2>4. \A v \in Workers : StepInv(v)'
    BY <1>11 DEF CompleteAccountDeletion, SetStatus, RecordFailure, GoTo, StepInv, InTx, OneTransaction, ProofIsReal, RelinkIsSafe
  <2> QED
    BY <2>1, <2>2, <2>3, <2>4
<1>12. ASSUME NEW w \in Workers, MarkSucceeded(w) PROVE Safe'
  <2>1. ProofIsReal'
    BY <1>12 DEF MarkSucceeded, GoTo, ProofIsReal, StepInv
  <2>2. RelinkIsSafe'
    BY <1>12 DEF MarkSucceeded, GoTo, RelinkIsSafe, StepInv, InTx
  <2>3. OneTransaction'
    BY <1>12 DEF MarkSucceeded, GoTo, OneTransaction, InTx
  <2>4. \A v \in Workers : StepInv(v)'
    BY <1>12 DEF MarkSucceeded, GoTo, StepInv, InTx, OneTransaction, ProofIsReal, RelinkIsSafe
  <2> QED
    BY <2>1, <2>2, <2>3, <2>4
<1>13. ASSUME NEW w \in Workers, MarkFailed(w) PROVE Safe'
  <2>1. ProofIsReal'
    BY <1>13 DEF MarkFailed, WriteFailure, GoTo, Locked, ProofIsReal, StepInv
  <2>2. RelinkIsSafe'
    BY <1>13 DEF MarkFailed, WriteFailure, GoTo, Locked, RelinkIsSafe, StepInv, InTx
  <2>3. OneTransaction'
    BY <1>13 DEF MarkFailed, WriteFailure, GoTo, Locked, OneTransaction, InTx
  <2>4. \A v \in Workers : StepInv(v)'
    BY <1>13 DEF MarkFailed, WriteFailure, GoTo, Locked, StepInv, InTx, OneTransaction, ProofIsReal, RelinkIsSafe
  <2> QED
    BY <2>1, <2>2, <2>3, <2>4
<1>14. ASSUME NEW w \in Workers, FetchFails(w) PROVE Safe'
  <2>1. ProofIsReal'
    BY <1>14 DEF FetchFails, GoTo, ProofIsReal, StepInv
  <2>2. RelinkIsSafe'
    BY <1>14 DEF FetchFails, GoTo, RelinkIsSafe, StepInv, InTx
  <2>3. OneTransaction'
    BY <1>14 DEF FetchFails, GoTo, OneTransaction, InTx
  <2>4. \A v \in Workers : StepInv(v)'
    BY <1>14 DEF FetchFails, GoTo, StepInv, InTx, OneTransaction, ProofIsReal, RelinkIsSafe
  <2> QED
    BY <2>1, <2>2, <2>3, <2>4
<1>15. ASSUME NEW w \in Workers, Crash(w) PROVE Safe'
  <2>1. ProofIsReal'
    BY <1>15 DEF Crash, GoTo, DropBatch, ProofIsReal, StepInv
  <2>2. RelinkIsSafe'
    BY <1>15 DEF Crash, GoTo, DropBatch, RelinkIsSafe, StepInv, InTx
  <2>3. OneTransaction'
    BY <1>15 DEF Crash, GoTo, DropBatch, OneTransaction, InTx
  <2>4. \A v \in Workers : StepInv(v)'
    BY <1>15 DEF Crash, GoTo, DropBatch, StepInv, InTx, OneTransaction, ProofIsReal, RelinkIsSafe
  <2> QED
    BY <2>1, <2>2, <2>3, <2>4
<1>16. ASSUME NEW r \in Rows, LeaseExpires(r) PROVE Safe'
  <2>1. ProofIsReal'
    BY <1>16 DEF LeaseExpires, ProofIsReal, StepInv
  <2>2. RelinkIsSafe'
    BY <1>16 DEF LeaseExpires, RelinkIsSafe, StepInv, InTx
  <2>3. OneTransaction'
    BY <1>16 DEF LeaseExpires, OneTransaction, InTx
  <2>4. \A v \in Workers : StepInv(v)'
    BY <1>16 DEF LeaseExpires, StepInv, InTx, OneTransaction, ProofIsReal, RelinkIsSafe
  <2> QED
    BY <2>1, <2>2, <2>3, <2>4
<1>17. ASSUME NEW r \in Rows, BackoffElapses(r) PROVE Safe'
  <2>1. ProofIsReal'
    BY <1>17 DEF BackoffElapses, ProofIsReal, StepInv
  <2>2. RelinkIsSafe'
    BY <1>17 DEF BackoffElapses, RelinkIsSafe, StepInv, InTx
  <2>3. OneTransaction'
    BY <1>17 DEF BackoffElapses, OneTransaction, InTx
  <2>4. \A v \in Workers : StepInv(v)'
    BY <1>17 DEF BackoffElapses, StepInv, InTx, OneTransaction, ProofIsReal, RelinkIsSafe
  <2> QED
    BY <2>1, <2>2, <2>3, <2>4
<1>18. ASSUME NEW r \in Rows, QueueAccountDelete(r) PROVE Safe'
  <2>1. ProofIsReal'
    BY <1>18 DEF QueueAccountDelete, SetStatus, ProofIsReal, StepInv
  <2>2. RelinkIsSafe'
    BY <1>18 DEF QueueAccountDelete, SetStatus, RelinkIsSafe, StepInv, InTx
  <2>3. OneTransaction'
    BY <1>18 DEF QueueAccountDelete, SetStatus, OneTransaction, InTx
  <2>4. \A v \in Workers : StepInv(v)'
    BY <1>18 DEF QueueAccountDelete, SetStatus, StepInv, InTx, OneTransaction, ProofIsReal, RelinkIsSafe
  <2> QED
    BY <2>1, <2>2, <2>3, <2>4
<1>19. ASSUME NEW r \in Rows, RetrySocial(r) PROVE Safe'
  <2>1. ProofIsReal'
    BY <1>19 DEF RetrySocial, Requeue, ProofIsReal, StepInv
  <2>2. RelinkIsSafe'
    BY <1>19 DEF RetrySocial, Requeue, RelinkIsSafe, StepInv, InTx
  <2>3. OneTransaction'
    BY <1>19 DEF RetrySocial, Requeue, OneTransaction, InTx
  <2>4. \A v \in Workers : StepInv(v)'
    BY <1>19 DEF RetrySocial, Requeue, StepInv, InTx, OneTransaction, ProofIsReal, RelinkIsSafe
  <2> QED
    BY <2>1, <2>2, <2>3, <2>4
<1>20. ASSUME NEW r \in Rows, LinkSocialIdentity(r) PROVE Safe'
  <2>1. ProofIsReal'
    BY <1>20 DEF LinkSocialIdentity, Locked, ProofIsReal, StepInv
  <2>2. RelinkIsSafe'
    BY <1>20 DEF LinkSocialIdentity, Locked, RelinkIsSafe, StepInv, InTx
  <2>3. OneTransaction'
    BY <1>20 DEF LinkSocialIdentity, Locked, OneTransaction, InTx
  <2>4. \A v \in Workers : StepInv(v)'
    BY <1>20 DEF LinkSocialIdentity, Locked, StepInv, InTx, OneTransaction, ProofIsReal, RelinkIsSafe
  <2> QED
    BY <2>1, <2>2, <2>3, <2>4
<1>21. ASSUME NEW r \in Rows, DeleteActiveConnection(r) PROVE Safe'
  <2>1. ProofIsReal'
    BY <1>21 DEF DeleteActiveConnection, DeleteConnection, SetStatus, Locked, ProofIsReal, StepInv
  <2>2. RelinkIsSafe'
    BY <1>21 DEF DeleteActiveConnection, DeleteConnection, SetStatus, Locked, RelinkIsSafe, StepInv, InTx
  <2>3. OneTransaction'
    BY <1>21 DEF DeleteActiveConnection, DeleteConnection, SetStatus, Locked, OneTransaction, InTx
  <2>4. \A v \in Workers : StepInv(v)'
    BY <1>21 DEF DeleteActiveConnection, DeleteConnection, SetStatus, Locked, StepInv, InTx, OneTransaction, ProofIsReal, RelinkIsSafe
  <2> QED
    BY <2>1, <2>2, <2>3, <2>4
<1>22. ASSUME UNCHANGED vars PROVE Safe'
  <2>1. ProofIsReal' /\ RelinkIsSafe'
    BY <1>22 DEF vars, ProofIsReal, RelinkIsSafe
  <2>2. OneTransaction'
    BY <1>22 DEF vars, OneTransaction, InTx
  <2>3. \A v \in Workers : StepInv(v)'
    BY <1>22 DEF vars, StepInv, InTx
  <2> QED
    BY <2>1, <2>2, <2>3
<1> QED
  BY <1>1, <1>2, <1>3, <1>4, <1>5, <1>6, <1>7, <1>8, <1>9, <1>10, <1>11, <1>12, <1>13, <1>14, <1>15, <1>16, <1>17, <1>18, <1>19, <1>20, <1>21, <1>22 DEF Next, WorkerStep

-----------------------------------------------------------------------------
\* The initial states satisfy the inductive invariant.
LEMMA InitInv == Init => IInv
<1> SUFFICES ASSUME Init PROVE IInv
  OBVIOUS
<1>d. Rows # {} /\ Disconnects \intersect Deletes = {} /\ Rows = Disconnects \union Deletes
  BY ConstantsAssumption DEF Rows
<1>c. NoEntry \in Rows
  BY <1>d DEF NoEntry
<1>1. OutboxType
  BY ConstantsAssumption DEF Init, OutboxType, Statuses
<1>2. LinkType
  BY DEF Init, LinkType, Connections
<1>3. WorkerType
  BY <1>c, ConstantsAssumption DEF Init, WorkerType, Statuses, Steps, Due
<1>4. faults \in 0..MaxFaults
  BY ConstantsAssumption DEF Init
<1>5. ProofIsReal
  BY <1>d DEF Init, ProofIsReal
<1>6. RelinkIsSafe
  BY <1>d DEF Init, RelinkIsSafe
<1>7. OneTransaction
  BY DEF Init, OneTransaction, InTx
<1>8. \A w \in Workers : StepInv(w)
  BY <1>d DEF Init, StepInv, InTx
<1> QED
  BY <1>1, <1>2, <1>3, <1>4, <1>5, <1>6, <1>7, <1>8 DEF IInv, TypeOK

(***************************************************************************)
(* The invariant holds of every behaviour.                                 *)
(***************************************************************************)
THEOREM Invariance == Spec => []IInv
  BY InitInv, InvStep, PTL DEF Spec

(***************************************************************************)
(* Rows, links and workers keep their types, whatever crashes and lost     *)
(* writes the outbox and its workers go through.                           *)
(***************************************************************************)
THEOREM TypeCorrect == Spec => []TypeOK
<1>1. IInv => TypeOK
  BY DEF IInv
<1> QED
  BY <1>1, Invariance, PTL

(***************************************************************************)
(* For any number of workers, rows, attempts and faults: a status that     *)
(* counts as proof of revocation (MarkSocialRevocationRevoked,             *)
(* MarkSocialRevocationFailed, CompleteAccountDeletionRevocation and the   *)
(* operator's retry_social all write one) means that the provider carried  *)
(* a revocation out.                                                       *)
(***************************************************************************)
THEOREM ProofReal == Spec => []ProofIsReal
<1>1. IInv => ProofIsReal
  BY DEF IInv
<1> QED
  BY <1>1, Invariance, PTL

(***************************************************************************)
(* A link made again after a DISCONNECT (LinkSocialIdentity) is never      *)
(* revoked by a worker that was still busy with that DISCONNECT.           *)
(***************************************************************************)
THEOREM RelinkSafe == Spec => []RelinkIsSafe
<1>1. IInv => RelinkIsSafe
  BY DEF IInv
<1> QED
  BY <1>1, Invariance, PTL

-----------------------------------------------------------------------------
\* A step that changes neither the row nor its link.
LEMMA UntouchedRespected ==
    ASSUME NEW r \in Rows, status'[r] = status[r], connection'[r] = connection[r]
    PROVE  LeaseRespected(r)
  BY DEF LeaseRespected

\* The step form of StolenLeaseChangesNothing.
LEMMA LeaseStep == IInv /\ [Next]_vars => \A r \in Disconnects : LeaseRespected(r)
<1> SUFFICES ASSUME IInv, [Next]_vars, NEW r \in Disconnects PROVE LeaseRespected(r)
  OBVIOUS
<1>d. r \in Rows /\ r \notin Deletes /\ Disconnects \intersect Deletes = {}
  BY ConstantsAssumption DEF Rows
<1> USE <1>d DEF IInv, TypeOK, OutboxType, LinkType, WorkerType, link, worker, batch, outbox
<1>1. ASSUME NEW w \in Workers, CommitCheckpoint(w) PROVE LeaseRespected(r)
  <2>1. CASE cur[w] # r
    BY <1>1, <2>1, UntouchedRespected DEF CommitCheckpoint, SetStatus
  <2>2. CASE cur[w] = r
    BY <1>1, <2>2 DEF CommitCheckpoint, SetStatus, RecordFailure, GoTo, StepInv, InTx, LeaseRespected
  <2> QED
    BY <2>1, <2>2
<1>2. ASSUME NEW w \in Workers, FinalizeDisconnect(w) PROVE LeaseRespected(r)
  <2>1. CASE cur[w] # r
    BY <1>2, <2>1, UntouchedRespected DEF FinalizeDisconnect, DeleteConnection, SetStatus
  <2>2. CASE cur[w] = r
    <3>1. pc'[w] # pc[w]
      BY <1>2 DEF FinalizeDisconnect, RecordFailure, GoTo
    <3>2. UNCHANGED <<status, connection>> \/ (ClaimCurrent(w, r) /\ status[r] = "REVOKED")
      BY <1>2, <2>2 DEF FinalizeDisconnect
    <3>3. CASE UNCHANGED <<status, connection>>
      BY <3>3, UntouchedRespected
    <3> QED
      BY <2>2, <3>1, <3>2, <3>3 DEF ClaimCurrent, LeaseRespected
  <2> QED
    BY <2>1, <2>2
<1>3. ASSUME NEW w \in Workers, MarkRevoked(w) \/ CompleteAccountDeletion(w) PROVE LeaseRespected(r)
  <2>1. cur[w] \in Deletes
    BY <1>3 DEF MarkRevoked, CompleteAccountDeletion, StepInv
  <2>2. status'[r] = status[r]
    BY <1>3, <2>1 DEF MarkRevoked, CompleteAccountDeletion, SetStatus
  <2>3. UNCHANGED connection
    BY <1>3 DEF MarkRevoked, CompleteAccountDeletion
  <2> QED
    BY <2>2, <2>3, UntouchedRespected
<1>4. ASSUME NEW w \in Workers, MarkFailed(w) PROVE LeaseRespected(r)
  <2>1. UNCHANGED connection /\ pc'[w] # pc[w]
    BY <1>4 DEF MarkFailed, GoTo
  <2>2. status'[r] = status[r] \/ (cur[w] = r /\ claim[r] = w /\ status[r] # "DELIVERED")
    BY <1>4 DEF MarkFailed, WriteFailure
  <2> QED
    BY <2>1, <2>2 DEF LeaseRespected
<1>5. ASSUME NEW x \in Rows, QueueAccountDelete(x) \/ RetrySocial(x) PROVE LeaseRespected(r)
  BY <1>5, UntouchedRespected DEF QueueAccountDelete, RetrySocial, SetStatus
<1>6. ASSUME NEW x \in Rows, LinkSocialIdentity(x) PROVE LeaseRespected(r)
  BY <1>6 DEF LinkSocialIdentity, LeaseRespected
<1>7. ASSUME NEW x \in Rows, DeleteActiveConnection(x) PROVE LeaseRespected(r)
  <2>1. CASE x # r
    BY <1>7, <2>1, UntouchedRespected DEF DeleteActiveConnection, DeleteConnection, SetStatus
  <2>2. CASE x = r
    BY <1>7, <2>2 DEF DeleteActiveConnection, DeleteConnection, RelinkIsSafe, LeaseRespected, Due
  <2> QED
    BY <2>1, <2>2
<1>8. ASSUME NEW w \in Workers,
             \/ ClaimDueSocialRevocations(w) \/ FetchClaimed(w) \/ ProcessEntry(w) \/ BatchDone(w)
             \/ BeginDisconnect(w) \/ CallInTransaction(w) \/ CallProvider(w) \/ MarkSucceeded(w)
             \/ FetchFails(w) \/ Crash(w)
      PROVE  LeaseRespected(r)
  <2>1. UNCHANGED <<status, connection>>
    BY <1>8 DEF ClaimDueSocialRevocations, FetchClaimed, ProcessEntry, BatchDone, BeginDisconnect,
                CallInTransaction, CallProvider, MarkSucceeded, FetchFails, Crash
  <2> QED
    BY <2>1, UntouchedRespected
<1>9. ASSUME NEW x \in Rows, LeaseExpires(x) \/ BackoffElapses(x) PROVE LeaseRespected(r)
  BY <1>9, UntouchedRespected DEF LeaseExpires, BackoffElapses
<1>10. ASSUME UNCHANGED vars PROVE LeaseRespected(r)
  BY <1>10, UntouchedRespected DEF vars
<1> QED
  BY <1>1, <1>2, <1>3, <1>4, <1>5, <1>6, <1>7, <1>8, <1>9, <1>10 DEF Next, WorkerStep

(***************************************************************************)
(* Whatever leases go stale under a slow worker: a row that another        *)
(* process has taken over, or that is finished, is not written by the      *)
(* first one (lockClaimedDisconnect, MarkSocialRevocationFailed).          *)
(***************************************************************************)
THEOREM StolenLease == Spec => StolenLeaseChangesNothing
  BY LeaseStep, Invariance, PTL DEF Spec, StolenLeaseChangesNothing

-----------------------------------------------------------------------------
\* Refinement of RevocationOutbox.  The rows and the providers as the
\* contract sees them.
Row == [r \in Deletes |-> status[r]]
Done == [r \in Deletes |-> provider[r] # "linked"]

\* An entry a worker holds is a row: rows are queued once and never deleted.
Present ==
    /\ \A w \in Workers : \A r \in queue[w] : status[r] # "ABSENT"
    /\ \A w \in Workers : pc[w] \notin {"idle", "fetch", "next"} => status[cur[w]] # "ABSENT"

\* An entry that a worker holds stays a row of the outbox.
LEMMA PresentStep == IInv /\ Present /\ [Next]_vars => Present'
<1> SUFFICES ASSUME IInv, Present, [Next]_vars PROVE Present'
  OBVIOUS
<1> USE ConstantsAssumption DEF IInv, TypeOK, OutboxType, LinkType, WorkerType, Present, Steps,
        link, worker, batch, outbox, GoTo, Fault, NoFault, RecordFailure
<1>k. ASSUME \A r \in Rows : status[r] # "ABSENT" => status'[r] # "ABSENT",
             UNCHANGED <<cur, queue>>,
             \A v \in Workers : pc'[v] \notin {"idle", "fetch", "next"} => pc[v] \notin {"idle", "fetch", "next"}
      PROVE  Present'
  BY <1>k
<1>1. ASSUME NEW w \in Workers, ClaimDueSocialRevocations(w) \/ FetchFails(w) PROVE Present'
  BY <1>1, <1>k DEF ClaimDueSocialRevocations, FetchFails
<1>2. ASSUME NEW w \in Workers, FetchClaimed(w) PROVE Present'
  BY <1>2 DEF FetchClaimed
<1>3. ASSUME NEW w \in Workers, ProcessEntry(w) PROVE Present'
  <2>1. PICK r \in queue[w] : cur' = [cur EXCEPT ![w] = r] /\ queue' = [queue EXCEPT ![w] = @ \ {r}]
    BY <1>3 DEF ProcessEntry
  <2>2. UNCHANGED status /\ \A v \in Workers : v # w => pc'[v] = pc[v]
    BY <1>3 DEF ProcessEntry
  <2> QED
    BY <2>1, <2>2
<1>4. ASSUME NEW w \in Workers, BatchDone(w) \/ Crash(w) PROVE Present'
  <2>1. UNCHANGED status /\ \A v \in Workers : v # w => pc'[v] = pc[v] /\ cur'[v] = cur[v] /\ queue'[v] = queue[v]
    BY <1>4 DEF BatchDone, Crash, DropBatch
  <2>2. pc'[w] = "idle" /\ queue'[w] = {}
    BY <1>4 DEF BatchDone, Crash, DropBatch
  <2> QED
    BY <2>1, <2>2
<1>5. ASSUME NEW w \in Workers, BeginDisconnect(w) \/ CallInTransaction(w) \/ CallProvider(w) \/ MarkSucceeded(w)
      PROVE  Present'
  <2>1. UNCHANGED <<cur, queue, status>> /\ pc[w] \notin {"idle", "fetch", "next"}
    BY <1>5 DEF BeginDisconnect, CallInTransaction, CallProvider, MarkSucceeded
  <2>2. \A v \in Workers : v # w => pc'[v] = pc[v]
    BY <1>5 DEF BeginDisconnect, BeginFails, CallInTransaction, CallProvider, MarkSucceeded, ProviderAccepts, ProviderFails
  <2> QED
    BY <2>1, <2>2, <1>k
<1>6. ASSUME NEW w \in Workers,
             CommitCheckpoint(w) \/ FinalizeDisconnect(w) \/ MarkRevoked(w) \/ CompleteAccountDeletion(w)
      PROVE  Present'
  <2>1. UNCHANGED <<cur, queue>> /\ pc[w] \notin {"idle", "fetch", "next"}
    BY <1>6 DEF CommitCheckpoint, FinalizeDisconnect, MarkRevoked, CompleteAccountDeletion
  <2>2. \A v \in Workers : v # w => pc'[v] = pc[v]
    BY <1>6 DEF CommitCheckpoint, FinalizeDisconnect, MarkRevoked, CompleteAccountDeletion
  <2>3. \A r \in Rows : status[r] # "ABSENT" => status'[r] # "ABSENT"
    BY <1>6 DEF CommitCheckpoint, FinalizeDisconnect, MarkRevoked, CompleteAccountDeletion, DeleteConnection, SetStatus
  <2> QED
    BY <2>1, <2>2, <2>3, <1>k
<1>7. ASSUME NEW w \in Workers, MarkFailed(w) PROVE Present'
  <2>1. UNCHANGED <<cur, queue>> /\ pc[w] \notin {"idle", "fetch", "next"}
    BY <1>7 DEF MarkFailed
  <2>2. \A v \in Workers : v # w => pc'[v] = pc[v]
    BY <1>7 DEF MarkFailed
  <2>3. \A r \in Rows : status[r] # "ABSENT" => status'[r] # "ABSENT"
    BY <1>7 DEF MarkFailed, WriteFailure, Due
  <2> QED
    BY <2>1, <2>2, <2>3, <1>k
<1>8. ASSUME NEW x \in Rows,
             \/ LeaseExpires(x) \/ BackoffElapses(x) \/ QueueAccountDelete(x)
             \/ RetrySocial(x) \/ LinkSocialIdentity(x) \/ DeleteActiveConnection(x)
      PROVE  Present'
  <2>1. UNCHANGED <<cur, queue, pc>>
    BY <1>8 DEF LeaseExpires, BackoffElapses, QueueAccountDelete, RetrySocial, LinkSocialIdentity, DeleteActiveConnection
  <2>2. \A r \in Rows : status[r] # "ABSENT" => status'[r] # "ABSENT"
    BY <1>8 DEF LeaseExpires, BackoffElapses, QueueAccountDelete, RetrySocial, LinkSocialIdentity,
                DeleteActiveConnection, DeleteConnection, SetStatus
  <2> QED
    BY <2>1, <2>2, <1>k
<1>9. ASSUME UNCHANGED vars PROVE Present'
  BY <1>9 DEF vars
<1> QED
  BY <1>1, <1>2, <1>3, <1>4, <1>5, <1>6, <1>7, <1>8, <1>9 DEF Next, WorkerStep

\* The steps of the contract a step can be.
LEMMA StutterStep ==
    ASSUME \A x \in Deletes : status'[x] = status[x] /\ (provider'[x] # "linked" <=> provider[x] # "linked")
    PROVE  UNCHANGED <<Row, Done>>
  BY DEF Row, Done

\* A status write that its proof backs is a Report of the contract.
LEMMA ReportStep ==
    ASSUME NEW r \in Deletes, NEW s \in Statuses \ {"ABSENT"}, status[r] # "ABSENT", UNCHANGED provider,
           \A x \in Deletes : x # r => status'[x] = status[x],
           status'[r] = s,
           s \in {"REVOKED", "FINALIZE_FAILED", "DELIVERED"} => provider[r] # "linked",
           status[r] = "DELIVERED" => s \in {"DELIVERED", "REVOKED"}
    PROVE  Contract!Next
<1>1. Contract!Report(r, s)
  BY DEF Contract!Report, Contract!Proof
<1>2. s \in Contract!Statuses
  BY DEF Contract!Statuses, Statuses
<1> QED
  BY <1>1, <1>2 DEF Contract!Next

\* A provider that lets go of the link of a row is a Revoke of the contract.
LEMMA RevokeStep ==
    ASSUME NEW r \in Deletes, status[r] # "ABSENT", UNCHANGED status,
           \A x \in Deletes : x # r => provider'[x] = provider[x],
           provider'[r] # "linked"
    PROVE  Contract!Next
<1>1. Contract!Revoke(r)
  BY DEF Contract!Revoke
<1> QED
  BY <1>1 DEF Contract!Next

\* Every step of the worker, the operators and the members is a step of RevocationOutbox.
LEMMA ContractStep == IInv /\ Present /\ [Next]_vars => [Contract!Next]_<<Row, Done>>
<1> SUFFICES ASSUME IInv, Present, [Next]_vars PROVE Contract!Next \/ UNCHANGED <<Row, Done>>
  OBVIOUS
<1> USE ConstantsAssumption DEF IInv, TypeOK, OutboxType, LinkType, WorkerType, Steps, Rows,
        link, worker, batch, outbox, GoTo, Fault, NoFault, RecordFailure
<1>1. ASSUME NEW w \in Workers,
             \/ ClaimDueSocialRevocations(w) \/ FetchClaimed(w) \/ ProcessEntry(w) \/ BatchDone(w)
             \/ BeginDisconnect(w) \/ MarkSucceeded(w) \/ FetchFails(w) \/ Crash(w)
      PROVE  UNCHANGED <<Row, Done>>
  <2>1. UNCHANGED <<status, provider>>
    BY <1>1 DEF ClaimDueSocialRevocations, FetchClaimed, ProcessEntry, BatchDone, BeginDisconnect,
                MarkSucceeded, FetchFails, Crash
  <2> QED
    BY <2>1, StutterStep
<1>2. ASSUME NEW w \in Workers, CallInTransaction(w) PROVE UNCHANGED <<Row, Done>>
  <2>1. cur[w] \in Disconnects /\ UNCHANGED status
    BY <1>2 DEF CallInTransaction, StepInv
  <2>2. \A x \in Rows : x # cur[w] => provider'[x] = provider[x]
    BY <1>2 DEF CallInTransaction, ProviderAccepts, ProviderFails, Called
  <2> QED
    BY <2>1, <2>2, StutterStep
<1>3. ASSUME NEW w \in Workers, CommitCheckpoint(w) \/ FinalizeDisconnect(w) PROVE UNCHANGED <<Row, Done>>
  <2>1. cur[w] \in Disconnects /\ UNCHANGED provider
    BY <1>3 DEF CommitCheckpoint, FinalizeDisconnect, StepInv
  <2>2. \A x \in Rows : x # cur[w] => status'[x] = status[x]
    BY <1>3 DEF CommitCheckpoint, FinalizeDisconnect, DeleteConnection, SetStatus
  <2> QED
    BY <2>1, <2>2, StutterStep
<1>4. ASSUME NEW w \in Workers, CallProvider(w) PROVE Contract!Next \/ UNCHANGED <<Row, Done>>
  <2>1. cur[w] \in Deletes /\ status[cur[w]] # "ABSENT" /\ UNCHANGED status
    BY <1>4 DEF CallProvider, StepInv, Present
  <2>2. \A x \in Rows : x # cur[w] => provider'[x] = provider[x]
    BY <1>4 DEF CallProvider, ProviderAccepts, ProviderFails, Called
  <2>3. provider[cur[w]] # "linked" => provider'[cur[w]] # "linked"
    BY <1>4 DEF CallProvider, ProviderAccepts, ProviderFails, Called
  <2>4. CASE provider'[cur[w]] # "linked"
    BY <2>1, <2>2, <2>4, RevokeStep
  <2>5. CASE provider'[cur[w]] = "linked"
    BY <2>1, <2>2, <2>3, <2>5, StutterStep
  <2> QED
    BY <2>4, <2>5
<1>5. ASSUME NEW w \in Workers, MarkRevoked(w) PROVE Contract!Next \/ UNCHANGED <<Row, Done>>
  <2>1. /\ cur[w] \in Deletes /\ status[cur[w]] # "ABSENT" /\ provider[cur[w]] # "linked"
        /\ UNCHANGED provider
    BY <1>5 DEF MarkRevoked, StepInv, Present
  <2>2. CASE SetStatus(cur[w], "REVOKED")
    <3>1. status'[cur[w]] = "REVOKED" /\ \A x \in Rows : x # cur[w] => status'[x] = status[x]
      BY <2>2 DEF SetStatus
    <3> QED
      BY <2>1, <3>1, ReportStep DEF Statuses
  <2>3. CASE UNCHANGED outbox
    BY <2>1, <2>3, StutterStep
  <2> QED
    BY <1>5, <2>2, <2>3 DEF MarkRevoked
<1>6. ASSUME NEW w \in Workers, CompleteAccountDeletion(w) PROVE Contract!Next \/ UNCHANGED <<Row, Done>>
  <2>1. /\ cur[w] \in Deletes /\ status[cur[w]] # "ABSENT" /\ provider[cur[w]] # "linked"
        /\ UNCHANGED provider
    BY <1>6 DEF CompleteAccountDeletion, StepInv, Present
  <2>2. CASE SetStatus(cur[w], "DELIVERED")
    <3>1. status'[cur[w]] = "DELIVERED" /\ \A x \in Rows : x # cur[w] => status'[x] = status[x]
      BY <2>2 DEF SetStatus
    <3> QED
      BY <2>1, <3>1, ReportStep DEF Statuses
  <2>3. CASE UNCHANGED outbox
    BY <2>1, <2>3, StutterStep
  <2> QED
    BY <1>6, <2>2, <2>3 DEF CompleteAccountDeletion
<1>7. ASSUME NEW w \in Workers, MarkFailed(w) PROVE Contract!Next \/ UNCHANGED <<Row, Done>>
  <2>1. UNCHANGED provider /\ cur[w] \in Rows /\ status[cur[w]] # "ABSENT"
    BY <1>7 DEF MarkFailed, Present
  <2>2. CASE UNCHANGED outbox
    BY <2>1, <2>2, StutterStep
  <2>3. CASE status[cur[w]] # "DELIVERED" /\ WriteFailure(w, cur[w])
    <3>1. \A x \in Rows : x # cur[w] => status'[x] = status[x]
      BY <2>1, <2>3 DEF WriteFailure
    <3>2. status'[cur[w]] \in {retry[w], "FAILED", "FINALIZE_FAILED"} /\ retry[w] \in Due
      BY <2>1, <2>3 DEF WriteFailure
    <3>3. status'[cur[w]] \in {"REVOKED", "FINALIZE_FAILED"} => retry[w] = "REVOKED"
      BY <2>1, <2>3 DEF WriteFailure, Due
    <3>4. CASE cur[w] \in Disconnects
      BY <2>1, <3>1, <3>4, StutterStep
    <3>5. CASE cur[w] \in Deletes
      <4>1. retry[w] = "REVOKED" => provider[cur[w]] # "linked"
        BY <1>7, <3>5 DEF MarkFailed, StepInv
      <4> QED
        BY <2>1, <2>3, <3>1, <3>2, <3>3, <3>5, <4>1, ReportStep DEF Statuses, Due
    <3> QED
      BY <2>1, <3>4, <3>5
  <2> QED
    BY <1>7, <2>2, <2>3 DEF MarkFailed
<1>8. ASSUME NEW x \in Rows, RetrySocial(x) PROVE Contract!Next
  <2>1. /\ x \in Deletes /\ status[x] \notin {"ABSENT", "DELIVERED"} /\ UNCHANGED provider
        /\ status'[x] \in {"PENDING", "REVOKED"}
        /\ status'[x] = "REVOKED" => status[x] \in {"FINALIZE_FAILED", "REVOKED"}
        /\ \A r \in Rows : r # x => status'[r] = status[r]
    BY <1>8 DEF RetrySocial
  <2>2. status'[x] = "REVOKED" => provider[x] # "linked"
    BY <2>1 DEF ProofIsReal
  <2> QED
    BY <2>1, <2>2, ReportStep DEF Statuses
<1>9. ASSUME NEW x \in Rows, QueueAccountDelete(x) PROVE Contract!Next
  <2>1. /\ x \in Deletes /\ status[x] = "ABSENT" /\ UNCHANGED provider
        /\ status' = [status EXCEPT ![x] = "PENDING"]
    BY <1>9 DEF QueueAccountDelete, SetStatus
  <2>2. {x} \in SUBSET Deletes /\ Contract!Enqueue({x})
    BY <2>1 DEF Contract!Enqueue
  <2> QED
    BY <2>2 DEF Contract!Next
<1>10. ASSUME NEW x \in Rows,
              LeaseExpires(x) \/ BackoffElapses(x) \/ LinkSocialIdentity(x) \/ DeleteActiveConnection(x)
       PROVE  UNCHANGED <<Row, Done>>
  <2>1. \A r \in Deletes : status'[r] = status[r] /\ provider'[r] = provider[r]
    BY <1>10 DEF LeaseExpires, BackoffElapses, LinkSocialIdentity, DeleteActiveConnection, DeleteConnection, SetStatus
  <2> QED
    BY <2>1, StutterStep
<1>11. ASSUME UNCHANGED vars PROVE UNCHANGED <<Row, Done>>
  BY <1>11, StutterStep DEF vars
<1> QED
  BY <1>1, <1>2, <1>3, <1>4, <1>5, <1>6, <1>7, <1>8, <1>9, <1>10, <1>11 DEF Next, WorkerStep

\* The initial outbox is an initial state of RevocationOutbox.
LEMMA ContractInit == Init => Present /\ Contract!Init
<1> SUFFICES ASSUME Init PROVE Present /\ Contract!Init
  OBVIOUS
<1>1. Present
  BY DEF Init, Present
<1>2. \A r \in Deletes : status[r] = "ABSENT" /\ provider[r] = "linked"
  BY DEF Init, Rows
<1> QED
  BY <1>1, <1>2 DEF Contract!Init

(***************************************************************************)
(* For any number of workers and rows, and whatever crashes, lost writes,  *)
(* stale leases and operator retries happen: the account-deletion rows     *)
(* keep the contract verifyDeletionProviders and the erasure saga rely on. *)
(***************************************************************************)
THEOREM Refinement == Spec => ImplementsContract
<1>1. Spec => []Present
  BY ContractInit, PresentStep, Invariance, PTL DEF Spec
<1>2. Contract!Spec <=> Contract!Init /\ [][Contract!Next]_<<Row, Done>>
  BY DEF Contract!Spec, Row, Done
<1> QED
  BY <1>1, <1>2, ContractInit, ContractStep, Invariance, PTL DEF Spec, ImplementsContract
=============================================================================
