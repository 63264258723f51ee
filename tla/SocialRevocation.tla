-------------------------- MODULE SocialRevocation --------------------------
(***************************************************************************)
(* The social revocation outbox (ALUMNI_SOCIAL_REVOCATION_OUTBOX) and the  *)
(* background workers that drain it.  A row asks for one (member,          *)
(* provider) link to be revoked upstream (Kakao unlink, Apple revoke) and  *)
(* then to be finalized locally.  Several server processes may run a       *)
(* worker at once (an overlapping deploy); each one owns the rows that     *)
(* carry its claim token, until the lease on the claim goes stale.         *)
(*                                                                         *)
(* Abstractions.                                                           *)
(*   - A row is identified with its (member, provider) link: every row has *)
(*     its own connection, credential and provider-side authorization.     *)
(*   - Clocks are two bits per row.  fresh is UPDATED_AT > NOW - 5 min,    *)
(*     due is NEXT_ATTEMPT_AT <= NOW; every write of the column sets the   *)
(*     bit, LeaseExpires and BackoffElapses let the time pass.             *)
(*   - A token is generated once per process and never reused, so a token  *)
(*     of a live process is the process, and every token of a process that *)
(*     is gone is the one value Orphan.                                    *)
(*   - faults counts what the environment does to the workers: crashes,    *)
(*     database writes that fail, answers of the provider that are lost,   *)
(*     leases that expire under a working owner, operators that retry.     *)
(***************************************************************************)
EXTENDS Naturals, FiniteSets

CONSTANTS
    Workers,      \* server processes that run the drain worker
    Disconnects,  \* rows with ACTION = DISCONNECT
    KakaoDeletes, \* rows with ACTION = ACCOUNT_DELETE, PROVIDER = KT
    AppleDeletes, \* rows with ACTION = ACCOUNT_DELETE, PROVIDER = AP
    BatchLimit,   \* socialRevocationBatchSize
    MaxAttempts,  \* socialRevocationMaxAttempt
    MaxFaults,    \* bound on the faults of a behaviour
    NoClaim,      \* CLAIM_TOKEN IS NULL
    Orphan        \* the token of a process that no longer exists

Deletes == KakaoDeletes \union AppleDeletes
Rows == Disconnects \union Deletes

ASSUME ConstantsAssumption ==
    /\ Rows # {}
    /\ Disconnects \intersect Deletes = {}
    /\ KakaoDeletes \intersect AppleDeletes = {}
    /\ BatchLimit \in Nat \ {0}
    /\ MaxAttempts \in Nat \ {0}
    /\ MaxFaults \in Nat
    /\ NoClaim \notin Workers
    /\ Orphan \notin Workers
    /\ Orphan # NoClaim

VARIABLES
    status,     \* status[r]: STATUS of the outbox row, "ABSENT" if no row
    claim,      \* claim[r]: CLAIM_TOKEN
    attempts,   \* attempts[r]: ATTEMPT_COUNT, capped at MaxAttempts
    due,        \* due[r]: NEXT_ATTEMPT_AT <= NOW
    fresh,      \* fresh[r]: UPDATED_AT is younger than the lease
    connection, \* connection[r]: NMS_STATUS of the link, "ABSENT" if no row
    credential, \* credential[r]: an encrypted credential is stored
    provider,   \* provider[r]: what the provider has seen, external
    pc,         \* pc[w]: the step the worker is at
    cur,        \* cur[w]: the entry being processed
    queue,      \* queue[w]: entries of the fetched batch still to process
    snap,       \* snap[w][r]: STATUS as it was fetched
    snapCount,  \* snapCount[w][r]: ATTEMPT_COUNT as it was fetched
    retry,      \* retry[w]: the retryStatus recordFailure is called with
    faults

vars == <<status, claim, attempts, due, fresh, connection, credential, provider,
          pc, cur, queue, snap, snapCount, retry, faults>>
outbox == <<status, claim, attempts, due, fresh>>
batch == <<queue, snap, snapCount>>
worker == <<pc, cur, batch, retry>>
link == <<connection, credential, provider>>

Statuses == {"ABSENT", "PENDING", "REVOKED", "DELIVERED", "FAILED", "FINALIZE_FAILED"}
Due == {"PENDING", "REVOKED"}
Connections == {"ABSENT", "ACTIVE", "DISCONNECTING", "FINALIZE_PENDING"}
Steps == {"idle", "fetch", "next", "lock", "callTx", "markTx", "call", "mark", "finalize", "release", "fail"}

OutboxType ==
    /\ status \in [Rows -> Statuses]
    /\ claim \in [Rows -> Workers \union {NoClaim, Orphan}]
    /\ attempts \in [Rows -> 0..MaxAttempts]
    /\ due \in [Rows -> BOOLEAN]
    /\ fresh \in [Rows -> BOOLEAN]

LinkType ==
    /\ connection \in [Rows -> Connections]
    /\ credential \in [Rows -> BOOLEAN]
    /\ provider \in [Rows -> {"linked", "unanswered", "confirmed", "repeated"}]

WorkerType ==
    /\ pc \in [Workers -> Steps]
    /\ cur \in [Workers -> Rows]
    /\ queue \in [Workers -> SUBSET Rows]
    /\ snap \in [Workers -> [Rows -> Statuses]]
    /\ snapCount \in [Workers -> [Rows -> 0..MaxAttempts]]
    /\ retry \in [Workers -> Due]

(***************************************************************************)
(* Every row, link and worker is in one of the states its code knows.      *)
(***************************************************************************)
TypeOK == OutboxType /\ LinkType /\ WorkerType /\ faults \in 0..MaxFaults

NoEntry == CHOOSE r \in Rows : TRUE

\* DISCONNECT rows are what the removed synchronous disconnect left behind:
\* reserved (link DISCONNECTING), or revoked and waiting for finalization.
\* ACCOUNT_DELETE rows are queued later; their link is active, and an Apple
\* link may or may not have a stored credential (a Kakao account deletion
\* unlinks with the admin key, so its stored credential is left out).
Init ==
    /\ \E revoked \in [Disconnects -> BOOLEAN] :
         /\ status = [r \in Rows |-> IF r \in Deletes THEN "ABSENT" ELSE IF revoked[r] THEN "REVOKED" ELSE "PENDING"]
         /\ connection = [r \in Rows |-> IF r \in Deletes THEN "ACTIVE" ELSE IF revoked[r] THEN "FINALIZE_PENDING" ELSE "DISCONNECTING"]
         /\ provider = [r \in Rows |-> IF r \in Deletes THEN "linked" ELSE IF revoked[r] THEN "confirmed" ELSE "linked"]
    /\ credential \in {c \in [Rows -> BOOLEAN] : \A r \in KakaoDeletes : ~c[r]}
    /\ claim = [r \in Rows |-> NoClaim]
    /\ attempts = [r \in Rows |-> 0]
    /\ due = [r \in Rows |-> TRUE]
    /\ fresh = [r \in Rows |-> FALSE]
    /\ pc = [w \in Workers |-> "idle"]
    /\ cur = [w \in Workers |-> NoEntry]
    /\ queue = [w \in Workers |-> {}]
    /\ snap = [w \in Workers |-> [r \in Rows |-> "ABSENT"]]
    /\ snapCount = [w \in Workers |-> [r \in Rows |-> 0]]
    /\ retry = [w \in Workers |-> "PENDING"]
    /\ faults = 0

-----------------------------------------------------------------------------
\* The transaction of RevokeClaimedSocialDisconnect keeps the connection row
\* and the outbox row locked while the provider is called.
Locked(r) == \E w \in Workers : pc[w] \in {"callTx", "markTx"} /\ cur[w] = r

Fault == faults < MaxFaults /\ faults' = faults + 1
NoFault == UNCHANGED faults

GoTo(w, step) == pc' = [pc EXCEPT ![w] = step]

\* Every UPDATE of a row in these queries also sets UPDATED_AT = NOW().
Touch(r) == fresh' = [fresh EXCEPT ![r] = TRUE]

SetStatus(r, new) ==
    /\ status' = [status EXCEPT ![r] = new]
    /\ Touch(r)
    /\ UNCHANGED <<claim, attempts, due>>

\* What a worker holds is gone with the end of a poll or a process.
DropBatch(w) ==
    /\ queue' = [queue EXCEPT ![w] = {}]
    /\ snap' = [snap EXCEPT ![w] = [r \in Rows |-> "ABSENT"]]
    /\ snapCount' = [snapCount EXCEPT ![w] = [r \in Rows |-> 0]]
    /\ cur' = [cur EXCEPT ![w] = NoEntry]
    /\ retry' = [retry EXCEPT ![w] = "PENDING"]

-----------------------------------------------------------------------------
\* Mutant: a claim never goes stale.
Claimable_NeverStale(r) ==
    /\ status[r] \in Due
    /\ due[r]
    /\ claim[r] = NoClaim

\* The claiming UPDATE of ClaimDueSocialRevocations.
Claimable(r) ==
    /\ status[r] \in Due
    /\ due[r]
    /\ claim[r] = NoClaim \/ ~fresh[r]

ClaimDueSocialRevocations(w) ==
    /\ pc[w] = "idle"
    /\ \A r \in Rows : Claimable(r) => ~Locked(r)
    /\ \E rows \in SUBSET {r \in Rows : Claimable(r)} :
         /\ \/ rows = {r \in Rows : Claimable(r)} /\ Cardinality(rows) <= BatchLimit
            \/ Cardinality(rows) = BatchLimit
         /\ claim' = [r \in Rows |-> IF r \in rows THEN w ELSE claim[r]]
         /\ fresh' = [r \in Rows |-> r \in rows \/ fresh[r]]
    /\ GoTo(w, "fetch")
    /\ UNCHANGED <<status, attempts, due, link, cur, batch, retry, faults>>

\* Its second statement: every row that carries the token, whatever its
\* status, including rows an earlier poll of this process failed to release.
FetchClaimed(w) ==
    LET mine == {r \in Rows : claim[r] = w /\ status[r] # "ABSENT"} IN
    /\ pc[w] = "fetch"
    /\ queue' = [queue EXCEPT ![w] = mine]
    /\ snap' = [snap EXCEPT ![w] = [r \in Rows |-> IF r \in mine THEN status[r] ELSE "ABSENT"]]
    /\ snapCount' = [snapCount EXCEPT ![w] = [r \in Rows |-> IF r \in mine THEN attempts[r] ELSE 0]]
    /\ GoTo(w, "next")
    /\ UNCHANGED <<outbox, link, cur, retry, faults>>

\* The SELECT fails: the poll ends and the claims stay until they are stale.
FetchFails(w) ==
    /\ pc[w] = "fetch"
    /\ Fault
    /\ GoTo(w, "idle")
    /\ UNCHANGED <<outbox, link, cur, batch, retry>>

-----------------------------------------------------------------------------
\* processEntry picks the path of the entry from what was fetched.
ProcessEntry(w) ==
    /\ pc[w] = "next"
    /\ \E r \in queue[w] :
         /\ cur' = [cur EXCEPT ![w] = r]
         /\ queue' = [queue EXCEPT ![w] = @ \ {r}]
         /\ GoTo(w, IF r \in Disconnects THEN "lock"
                    ELSE IF snap[w][r] = "REVOKED" THEN "finalize" ELSE "call")
    /\ UNCHANGED <<outbox, link, snap, snapCount, retry, faults>>

BatchDone(w) ==
    /\ pc[w] = "next"
    /\ queue[w] = {}
    /\ GoTo(w, "idle")
    /\ DropBatch(w)
    /\ UNCHANGED <<outbox, link, faults>>

\* recordFailure is entered with the status the retry starts from.
RecordFailure(w, retryStatus) ==
    /\ GoTo(w, "fail")
    /\ retry' = [retry EXCEPT ![w] = retryStatus]

-----------------------------------------------------------------------------
\* DISCONNECT entries: lockClaimedDisconnect.
ClaimCurrent(w, r) ==
    /\ claim[r] = w
    /\ status[r] \in Due
    /\ connection[r] \in {"ABSENT", "DISCONNECTING", "FINALIZE_PENDING"}

\* Mutant: ownership is rechecked, the state of the link and the row is not.
BeginDisconnect_OnlyClaim(w) ==
    LET r == cur[w] IN
    /\ pc[w] = "lock"
    /\ ~Locked(r)
    /\ GoTo(w, IF claim[r] # w THEN "next" ELSE IF status[r] = "REVOKED" THEN "finalize" ELSE "callTx")
    /\ UNCHANGED <<outbox, link, cur, batch, retry, faults>>

\* A statement before the provider call fails: begin, the two locking selects
\* (also on a lock held by another), or the credential.  The answer is (false,
\* err), so the retry starts over, although the row may have been REVOKED.
BeginFails(w) ==
    /\ Fault
    /\ RecordFailure(w, "PENDING")

\* RevokeClaimedSocialDisconnect up to the provider call.  A claim that is no
\* longer current ends the entry and leaves the row alone.
BeginDisconnect(w) ==
    LET r == cur[w] IN
    /\ pc[w] = "lock"
    /\ \/ /\ ~Locked(r) /\ NoFault
          /\ ~ClaimCurrent(w, r) \/ (status[r] = "PENDING" /\ connection[r] # "DISCONNECTING")
          /\ GoTo(w, "next")
          /\ UNCHANGED retry
       \/ /\ ~Locked(r) /\ ClaimCurrent(w, r) /\ status[r] = "REVOKED"
          /\ \/ NoFault /\ GoTo(w, "finalize") /\ UNCHANGED retry
             \/ Fault /\ RecordFailure(w, "REVOKED")   \* the commit fails
       \/ /\ ~Locked(r) /\ NoFault
          /\ ClaimCurrent(w, r) /\ status[r] = "PENDING" /\ connection[r] = "DISCONNECTING"
          /\ IF credential[r] THEN GoTo(w, "callTx") /\ UNCHANGED retry ELSE RecordFailure(w, "PENDING")
       \/ BeginFails(w)
    /\ UNCHANGED <<outbox, link, cur, batch>>

\* What the provider does with a revocation request (external): it confirms
\* it, carries it out while the answer is lost, or fails.  A request for a
\* link whose revocation a worker has already seen confirmed is "repeated".
Called(r, outcome) ==
    provider' = [provider EXCEPT ![r] = IF @ \in {"confirmed", "repeated"} THEN "repeated"
                                        ELSE IF outcome = "failed" THEN @ ELSE outcome]

ProviderAccepts(w, r, then) ==
    /\ Called(r, "confirmed")
    /\ GoTo(w, then)
    /\ UNCHANGED <<retry, faults>>

ProviderFails(w, r) ==
    /\ \/ Called(r, "failed") /\ NoFault
       \/ Called(r, "unanswered") /\ Fault
    /\ RecordFailure(w, "PENDING")

\* The provider call inside the transaction; an error rolls it back.
CallInTransaction(w) ==
    /\ pc[w] = "callTx"
    /\ ProviderAccepts(w, cur[w], "markTx") \/ ProviderFails(w, cur[w])
    /\ UNCHANGED <<outbox, connection, credential, cur, batch>>

\* The checkpoint of the transaction and its commit; either may fail.
CommitCheckpoint(w) ==
    /\ pc[w] = "markTx"
    /\ \/ SetStatus(cur[w], "REVOKED") /\ GoTo(w, "finalize") /\ NoFault /\ UNCHANGED retry
       \/ UNCHANGED outbox /\ RecordFailure(w, "REVOKED") /\ Fault
    /\ UNCHANGED <<link, cur, batch>>

\* deleteSocialConnectionTx on link r: what it does to the tables.
DeleteConnection(r) ==
    /\ connection' = [connection EXCEPT ![r] = "ABSENT"]
    /\ credential' = [credential EXCEPT ![r] = FALSE]
    /\ IF r \in Disconnects /\ status[r] \in Due
       THEN SetStatus(r, "DELIVERED")
       ELSE UNCHANGED outbox

\* FinalizeClaimedSocialDisconnect.
FinalizeDisconnect(w) ==
    LET r == cur[w] IN
    /\ pc[w] = "finalize" /\ r \in Disconnects
    /\ ~Locked(r)
    /\ IF ClaimCurrent(w, r) /\ status[r] = "REVOKED"
       THEN \/ DeleteConnection(r) /\ GoTo(w, "release") /\ NoFault /\ UNCHANGED retry
            \/ RecordFailure(w, "REVOKED") /\ Fault /\ UNCHANGED <<outbox, connection, credential>>
       ELSE GoTo(w, "next") /\ NoFault /\ UNCHANGED <<outbox, connection, credential, retry>>
    /\ UNCHANGED <<provider, cur, batch>>

-----------------------------------------------------------------------------
\* ACCOUNT_DELETE entries: revoke.  Kakao needs the link row (the subject),
\* Apple needs the stored credential.
Resolvable(r) == IF r \in KakaoDeletes THEN connection[r] # "ABSENT" ELSE credential[r]

CallProvider(w) ==
    /\ pc[w] = "call"
    /\ \/ Resolvable(cur[w]) /\ ProviderAccepts(w, cur[w], "mark")
       \/ Resolvable(cur[w]) /\ ProviderFails(w, cur[w])
       \/ ~Resolvable(cur[w]) /\ RecordFailure(w, "PENDING") /\ UNCHANGED <<provider, faults>>
    /\ UNCHANGED <<outbox, connection, credential, cur, batch>>

\* MarkSocialRevocationRevoked: the checkpoint, guarded by neither the claim
\* nor the status of the row.
MarkRevoked(w) ==
    /\ pc[w] = "mark"
    /\ \/ SetStatus(cur[w], "REVOKED") /\ GoTo(w, "finalize") /\ NoFault /\ UNCHANGED retry
       \/ UNCHANGED outbox /\ RecordFailure(w, "REVOKED") /\ Fault
    /\ UNCHANGED <<link, cur, batch>>

\* CompleteAccountDeletionRevocation.
CompleteAccountDeletion(w) ==
    LET r == cur[w] IN
    /\ pc[w] = "finalize" /\ r \in Deletes
    /\ \/ /\ credential' = [credential EXCEPT ![r] = FALSE]
          /\ IF status[r] \in Due
             THEN SetStatus(r, "DELIVERED")
             ELSE UNCHANGED outbox
          /\ GoTo(w, "release") /\ NoFault /\ UNCHANGED retry
       \/ RecordFailure(w, "REVOKED") /\ Fault /\ UNCHANGED <<outbox, credential>>
    /\ UNCHANGED <<connection, provider, cur, batch>>

-----------------------------------------------------------------------------
\* MarkSocialRevocationSucceeded releases the claim if it is still ours.
MarkSucceeded(w) ==
    LET r == cur[w] IN
    /\ pc[w] = "release"
    /\ ~Locked(r)
    /\ \/ /\ NoFault
          /\ IF claim[r] = w
             THEN claim' = [claim EXCEPT ![r] = NoClaim] /\ Touch(r) /\ UNCHANGED <<status, attempts, due>>
             ELSE UNCHANGED outbox
       \/ Fault /\ UNCHANGED outbox
    /\ GoTo(w, "next")
    /\ UNCHANGED <<link, cur, batch, retry>>

\* MarkSocialRevocationFailed: what recordFailure writes to the row.
WriteFailure(w, r) ==
    LET n == snapCount[w][r] + 1
        last == n >= MaxAttempts
    IN /\ status' = [status EXCEPT ![r] =
            IF ~last THEN retry[w] ELSE IF retry[w] = "REVOKED" THEN "FINALIZE_FAILED" ELSE "FAILED"]
       /\ claim' = [claim EXCEPT ![r] = NoClaim]
       /\ attempts' = [attempts EXCEPT ![r] = IF last THEN MaxAttempts ELSE n]
       /\ due' = [due EXCEPT ![r] = FALSE]
       /\ Touch(r)

\* Mutant: the failure is written whoever owns the row now.
MarkFailed_AnyClaim(w) ==
    LET r == cur[w] IN
    /\ pc[w] = "fail"
    /\ ~Locked(r)
    /\ \/ /\ NoFault
          /\ IF status[r] # "DELIVERED" THEN WriteFailure(w, r) ELSE UNCHANGED outbox
       \/ Fault /\ UNCHANGED outbox
    /\ GoTo(w, "next")
    /\ UNCHANGED <<link, cur, batch, retry>>

\* Mutant: a delivered row is not protected from a late failure.
MarkFailed_Delivered(w) ==
    LET r == cur[w] IN
    /\ pc[w] = "fail"
    /\ ~Locked(r)
    /\ \/ /\ NoFault
          /\ IF claim[r] = w THEN WriteFailure(w, r) ELSE UNCHANGED outbox
       \/ Fault /\ UNCHANGED outbox
    /\ GoTo(w, "next")
    /\ UNCHANGED <<link, cur, batch, retry>>

\* MarkSocialRevocationFailed, called by recordFailure.
MarkFailed(w) ==
    LET r == cur[w] IN
    /\ pc[w] = "fail"
    /\ ~Locked(r)
    /\ \/ /\ NoFault
          /\ IF status[r] # "DELIVERED" /\ claim[r] = w THEN WriteFailure(w, r) ELSE UNCHANGED outbox
       \/ Fault /\ UNCHANGED outbox
    /\ GoTo(w, "next")
    /\ UNCHANGED <<link, cur, batch, retry>>

-----------------------------------------------------------------------------
\* A process dies and a new one takes its place with a new token; an open
\* transaction is rolled back.
Crash(w) ==
    /\ Fault
    /\ GoTo(w, "idle")
    /\ claim' = [r \in Rows |-> IF claim[r] = w THEN Orphan ELSE claim[r]]
    /\ DropBatch(w)
    /\ UNCHANGED <<status, attempts, due, fresh, link>>

\* Five minutes pass without a write to the row.  That is a fault when the
\* owner is still working on it (a batch that takes longer than the lease).
LeaseExpires(r) ==
    /\ claim[r] # NoClaim /\ fresh[r]
    /\ fresh' = [fresh EXCEPT ![r] = FALSE]
    /\ IF claim[r] \in Workers /\ pc[claim[r]] # "idle" THEN Fault ELSE NoFault
    /\ UNCHANGED <<status, claim, attempts, due, link, worker>>

BackoffElapses(r) ==
    /\ ~due[r]
    /\ due' = [due EXCEPT ![r] = TRUE]
    /\ UNCHANGED <<status, claim, attempts, fresh, link, worker, faults>>

\* Mutant: the row starts in a status the worker does not know.
QueueAccountDelete_Processing(r) ==
    /\ r \in Deletes /\ status[r] = "ABSENT" /\ connection[r] = "ACTIVE"
    /\ SetStatus(r, "PROCESSING")
    /\ UNCHANGED <<link, worker, faults>>

\* AccountDeletionRequestRepository.Start queues the row of a linked provider.
QueueAccountDelete(r) ==
    /\ r \in Deletes /\ status[r] = "ABSENT" /\ connection[r] = "ACTIVE"
    /\ SetStatus(r, "PENDING")
    /\ UNCHANGED <<link, worker, faults>>

Requeue(r) ==
    /\ attempts' = [attempts EXCEPT ![r] = IF status[r] \in {"FAILED", "FINALIZE_FAILED"} THEN 0 ELSE @]
    /\ claim' = [claim EXCEPT ![r] = NoClaim]
    /\ due' = [due EXCEPT ![r] = TRUE]
    /\ Touch(r)

\* Mutant: a retry of a failed row skips the provider.
RetrySocial_SkipsProvider(r) ==
    /\ r \in Deletes /\ status[r] \in {"FAILED", "FINALIZE_FAILED", "PENDING", "REVOKED"}
    /\ Fault
    /\ status' = [status EXCEPT ![r] = IF @ = "PENDING" THEN @ ELSE "REVOKED"]
    /\ Requeue(r)
    /\ UNCHANGED <<link, worker>>

\* controlSchedule(retry_social): the operator requeues the row.
RetrySocial(r) ==
    /\ r \in Deletes /\ status[r] \in {"FAILED", "FINALIZE_FAILED", "PENDING", "REVOKED"}
    /\ Fault
    /\ status' = [status EXCEPT ![r] = IF @ \in {"FINALIZE_FAILED", "REVOKED"} THEN "REVOKED" ELSE "PENDING"]
    /\ Requeue(r)
    /\ UNCHANGED <<link, worker>>

\* LinkSocialIdentity: the member links the provider again, with a new
\* authorization and perhaps a credential, once no DISCONNECT is unfinished.
LinkSocialIdentity(r) ==
    /\ r \in Disconnects /\ connection[r] = "ABSENT" /\ ~Locked(r)
    /\ status[r] = "DELIVERED"
    /\ connection' = [connection EXCEPT ![r] = "ACTIVE"]
    /\ \E stored \in BOOLEAN : credential' = [credential EXCEPT ![r] = stored]
    /\ provider' = [provider EXCEPT ![r] = "linked"]
    /\ UNCHANGED <<outbox, worker, faults>>

\* Disconnect and ApplyAppleNotification(consent-revoked) delete an active
\* link locally (for Disconnect: when another login method is left).
DeleteActiveConnection(r) ==
    /\ connection[r] = "ACTIVE" /\ ~Locked(r)
    /\ r \in KakaoDeletes => status[r] = "ABSENT"
    /\ DeleteConnection(r)
    /\ UNCHANGED <<provider, worker, faults>>

-----------------------------------------------------------------------------
WorkerStep(w) ==
    \/ ClaimDueSocialRevocations(w)
    \/ FetchClaimed(w)
    \/ ProcessEntry(w)
    \/ BatchDone(w)
    \/ BeginDisconnect(w)
    \/ CallInTransaction(w)
    \/ CommitCheckpoint(w)
    \/ FinalizeDisconnect(w)
    \/ CallProvider(w)
    \/ MarkRevoked(w)
    \/ CompleteAccountDeletion(w)
    \/ MarkSucceeded(w)
    \/ MarkFailed(w)

Next ==
    \/ \E w \in Workers : WorkerStep(w) \/ FetchFails(w) \/ Crash(w)
    \/ \E r \in Rows :
         \/ LeaseExpires(r)
         \/ BackoffElapses(r)
         \/ QueueAccountDelete(r)
         \/ RetrySocial(r)
         \/ LinkSocialIdentity(r)
         \/ DeleteActiveConnection(r)

\* A worker polls on a ticker, a lease and a backoff are lengths of time.
Fairness ==
    /\ \A w \in Workers : WF_vars(WorkerStep(w))
    /\ \A r \in Rows : WF_vars(LeaseExpires(r)) /\ WF_vars(BackoffElapses(r))

Spec == Init /\ [][Next]_vars
FairSpec == Spec /\ Fairness

-----------------------------------------------------------------------------
(***************************************************************************)
(* A row that counts as proof of an upstream revocation (REVOKED,          *)
(* FINALIZE_FAILED, and for an account deletion DELIVERED, which           *)
(* verifyDeletionProviders accepts as evidence) is only ever in that       *)
(* status after the provider really carried one out, whatever crashes,     *)
(* lost writes, stale leases and operator retries came before.             *)
(***************************************************************************)
ProofIsReal ==
    \A r \in Rows :
        \/ status[r] \in {"REVOKED", "FINALIZE_FAILED"}
        \/ status[r] = "DELIVERED" /\ r \in Deletes
        => provider[r] # "linked"

(***************************************************************************)
(* "A slow worker cannot read a replacement credential or revoke while     *)
(* relinking commits": the provider authorization of an active link that   *)
(* a DISCONNECT row once asked to revoke is never revoked by a worker, and *)
(* the row about it stays finished.                                        *)
(***************************************************************************)
RelinkIsSafe ==
    \A r \in Disconnects :
        connection[r] = "ACTIVE" => provider[r] = "linked" /\ status[r] = "DELIVERED"

\* A step and a row: a finished row stays finished, a worker never deletes an
\* active link, and only the owner's step changes the status of a dead one.
LeaseRespected(r) ==
    /\ status[r] = "DELIVERED" => status'[r] = "DELIVERED"
    /\ connection[r] = "ACTIVE" /\ connection'[r] # "ACTIVE" => UNCHANGED pc
    /\ status'[r] # status[r] /\ connection[r] # "ACTIVE"
         => \E w \in Workers : claim[r] = w /\ cur[w] = r /\ pc'[w] # pc[w]

(***************************************************************************)
(* A DISCONNECT row leaves DELIVERED never, and an unfinished one is only  *)
(* finished by the worker that owns it or by a local deletion of the link: *)
(* an entry whose lease was stolen changes nothing.  A worker never        *)
(* deletes an active link.                                                 *)
(***************************************************************************)
StolenLeaseChangesNothing == [][\A r \in Disconnects : LeaseRespected(r)]_vars

\* The account-deletion rows as the rest of the system sees them.
Contract == INSTANCE RevocationOutbox WITH
    Rows <- Deletes,
    row <- [r \in Deletes |-> status[r]],
    done <- [r \in Deletes |-> provider[r] # "linked"]

(***************************************************************************)
(* The workers implement what AccountErasure relies on (RevocationOutbox): *)
(* revocations are only reported when they happened, and a delivered row   *)
(* is only ever taken back to REVOKED, by a late checkpoint.               *)
(***************************************************************************)
ImplementsContract == Contract!Spec

(***************************************************************************)
(* "A crash never strands a row forever": every queued account-deletion    *)
(* row ends DELIVERED or in one of the two terminal failure states an      *)
(* operator sees.                                                          *)
(***************************************************************************)
RowsSettle ==
    \A r \in Deletes : status[r] \in Due ~> status[r] \in {"DELIVERED", "FAILED", "FINALIZE_FAILED"}
=============================================================================
