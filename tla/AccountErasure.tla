--------------------------- MODULE AccountErasure ---------------------------
(***************************************************************************)
(* Account deletion: the request of a member, the operators who review it, *)
(* and the automatic erasure workers.  One server at a time owns the batch *)
(* through a MySQL named lock; most operator controls take the same lock.  *)
(* The lock lives on a connection of its own, so it can be lost while its  *)
(* owner keeps working.                                                    *)
(*                                                                         *)
(* Abstractions.                                                           *)
(*   - A member makes at most one request: after a cancellation the next   *)
(*     request is a new row and behaves as that of another member.         *)
(*   - Every database transaction is one step.  So is preserveContext,     *)
(*     whose writes carry their own guards, and every operator control,    *)
(*     from taking the named lock to releasing it.                         *)
(*   - hold[m] is any order without a matching retention decision, any     *)
(*     subscription without a matching review, any billing profile.        *)
(*   - "complete" also stands for the target status not_applicable.        *)
(*   - Time is a bit per deadline: due (SCHEDULED_AT passed or expedited), *)
(*     ready (NEXT_ATTEMPT_AT passed), context "live" or "expired".        *)
(*   - The revocation outbox and its workers are the RevocationOutbox      *)
(*     contract, which SocialRevocation implements.                        *)
(*   - faults counts what disturbs the regular course: crashes, lost locks *)
(*     and failing statements, but also an account that changes or files   *)
(*     that are found while the deletion is under way.                     *)
(***************************************************************************)
EXTENDS Naturals, FiniteSets

CONSTANTS
    Members,          \* accounts
    Workers,          \* server processes that run AccountErasureJob
    Providers,        \* social login providers
    Targets,          \* ErasureTargetNames
    HistoricalFiles,  \* the target "historical_files"
    HasProcessor,     \* an external erasure processor is configured
    MaxFaults,        \* bound on the faults of a behaviour
    Free              \* nobody holds the named lock

ASSUME ConstantsAssumption ==
    /\ Members # {}
    /\ HistoricalFiles \in Targets
    /\ HasProcessor \in BOOLEAN
    /\ MaxFaults \in Nat
    /\ Free \notin Workers

VARIABLES
    member,    \* member[m]: USR_STATUS, "erased" once the row is gone
    social,    \* social[m]: providers with a WEO_MEMBER_SOCIAL row
    donor,     \* donor[m]: donations are linked to the account
    hold,      \* hold[m]: a retention or billing review is outstanding
    residue,   \* residue[m]: a row was written for the erased account
    status,    \* status[m]: STATUS of the deletion request
    required,  \* required[m]: APPLE_REQUIRED, KAKAO_REQUIRED
    barred,    \* barred[m]: RESTORE_BLOCKED
    mode,      \* mode[m]: MODE of the erasure job
    stage,     \* stage[m]: STAGE
    evidence,  \* evidence[m]: EXTERNAL_EVIDENCE is set
    code,      \* code[m]: LAST_CODE is set, an operator sees a blocker
    ready,     \* ready[m]: NEXT_ATTEMPT_AT has passed
    due,       \* due[m]: the schedule has come or the request is expedited
    context,   \* context[m]: the encrypted handoff for external targets
    lapsed,    \* lapsed[m]: whether a handoff expired, before or after the erasure
    receipt,   \* receipt[m]: STATUS of the donation-receipt work
    files,     \* files[m]: files are queued for deletion
    target,    \* target[m][t]: STATUS of the external target
    outbox,    \* outbox[k]: status of the ACCOUNT_DELETE row of a link
    revoked,   \* revoked[k]: the provider has revoked the link, external
    lock,      \* owner of the named lock
    pc,        \* pc[w]: the step the worker is at
    cur,       \* cur[w]: the member whose request is processed
    queue,     \* queue[w]: requests of the batch still to process
    snapErased,    \* snapErased[w]: fetched with STAGE database_erased
    snapEvidence,  \* snapEvidence[w]: fetched with external evidence
    asked,     \* asked[w]: targets the processor was asked to erase
    faults

account == <<member, social, donor, hold, residue>>
request == <<status, required, barred>>
job == <<mode, stage, evidence, code, ready, due>>
handoff == <<context, lapsed, receipt, files, target>>
links == <<outbox, revoked>>
batch == <<cur, queue, snapErased, snapEvidence, asked>>
vars == <<account, request, job, handoff, links, lock, pc, batch, faults>>

Links == Members \X Providers
Outbox == INSTANCE RevocationOutbox WITH Rows <- Links, row <- outbox, done <- revoked

TargetStates == {"pending", "running", "failed", "manual", "complete"}
Open(m) == status[m] \in {"pending", "processing"}
AllVerified(m) == \A t \in Targets : target[m][t] = "complete"
Unverified(m) == {t \in Targets : target[m][t] # "complete"}
Steps == {"idle", "next", "active", "start", "recheck", "prepare", "preserve", "handoff", "erase",
          "files", "external", "begin", "calling", "evidence", "finish", "retry"}

AccountType ==
    /\ member \in [Members -> {"active", "disabled", "erased"}]
    /\ social \in [Members -> SUBSET Providers]
    /\ donor \in [Members -> BOOLEAN]
    /\ hold \in [Members -> BOOLEAN]
    /\ residue \in [Members -> BOOLEAN]

RequestType ==
    /\ status \in [Members -> {"none", "pending", "processing", "completed", "cancelled"}]
    /\ required \in [Members -> SUBSET Providers]
    /\ barred \in [Members -> BOOLEAN]

JobType ==
    /\ mode \in [Members -> {"automatic", "manual"}]
    /\ stage \in [Members -> {"queued", "database_erased", "completed", "cancelled"}]
    /\ evidence \in [Members -> BOOLEAN]
    /\ code \in [Members -> BOOLEAN]
    /\ ready \in [Members -> BOOLEAN]
    /\ due \in [Members -> BOOLEAN]

HandoffType ==
    /\ context \in [Members -> {"none", "live", "expired"}]
    /\ lapsed \in [Members -> {"no", "before", "after"}]
    /\ receipt \in [Members -> {"unreviewed", "not_required", "active", "completed"}]
    /\ files \in [Members -> BOOLEAN]
    /\ target \in [Members -> [Targets -> TargetStates]]

LinkType ==
    /\ outbox \in [Links -> Outbox!Statuses]
    /\ revoked \in [Links -> BOOLEAN]

WorkerType ==
    /\ lock \in Workers \union {Free}
    /\ pc \in [Workers -> Steps]
    /\ cur \in [Workers -> Members]
    /\ queue \in [Workers -> SUBSET Members]
    /\ snapErased \in [Workers -> SUBSET Members]
    /\ snapEvidence \in [Workers -> SUBSET Members]
    /\ asked \in [Workers -> SUBSET Targets]

(***************************************************************************)
(* Accounts, requests, jobs, handoffs, links and workers are in states     *)
(* their code knows.                                                       *)
(***************************************************************************)
TypeOK ==
    /\ AccountType /\ RequestType /\ JobType /\ HandoffType
    /\ LinkType /\ WorkerType
    /\ faults \in 0..MaxFaults

NoMember == CHOOSE m \in Members : TRUE

\* Accounts are active and linked to some providers; no deletion is requested.
Init ==
    /\ member = [m \in Members |-> "active"]
    /\ social \in [Members -> SUBSET Providers]
    /\ donor \in [Members -> BOOLEAN]
    /\ hold \in [Members -> BOOLEAN]
    /\ residue = [m \in Members |-> FALSE]
    /\ status = [m \in Members |-> "none"]
    /\ required = [m \in Members |-> {}]
    /\ barred = [m \in Members |-> FALSE]
    /\ mode = [m \in Members |-> "automatic"]
    /\ stage = [m \in Members |-> "queued"]
    /\ evidence = [m \in Members |-> FALSE]
    /\ code = [m \in Members |-> FALSE]
    /\ ready = [m \in Members |-> FALSE]
    /\ due = [m \in Members |-> FALSE]
    /\ context = [m \in Members |-> "none"]
    /\ lapsed = [m \in Members |-> "no"]
    /\ receipt = [m \in Members |-> "unreviewed"]
    /\ files = [m \in Members |-> FALSE]
    /\ target = [m \in Members |-> [t \in Targets |-> "pending"]]
    /\ Outbox!Init
    /\ lock = Free
    /\ pc = [w \in Workers |-> "idle"]
    /\ cur = [w \in Workers |-> NoMember]
    /\ queue = [w \in Workers |-> {}]
    /\ snapErased = [w \in Workers |-> {}]
    /\ snapEvidence = [w \in Workers |-> {}]
    /\ asked = [w \in Workers |-> {}]
    /\ faults = 0

-----------------------------------------------------------------------------
Fault == faults < MaxFaults /\ faults' = faults + 1
NoFault == UNCHANGED faults
GoTo(w, step) == pc' = [pc EXCEPT ![w] = step]
Set(f, m, v) == [f EXCEPT ![m] = v]

\* Every control that changes the schedule clears the blocker and is due now.
Requeued(m) ==
    /\ code' = Set(code, m, FALSE)
    /\ ready' = Set(ready, m, TRUE)

\* Mutant: a link without an outbox row needs no proof.
ProvidersProved_NoRow(m) == \A p \in required[m] : outbox[<<m, p>>] \in {"ABSENT", "DELIVERED"}

\* verifyDeletionProviders: every required link has a delivered row.
ProvidersProved(m) == \A p \in required[m] : outbox[<<m, p>>] = "DELIVERED"

\* deletionFootprint: nothing names the account any more.
NoFootprint(m) ==
    /\ member[m] = "erased" /\ social[m] = {} /\ ~donor[m] /\ ~residue[m]
    /\ \A p \in Providers : outbox[<<m, p>>] \in {"ABSENT", "DELIVERED"}

\* receiptWorkFinished.
ReceiptFinished(m) == receipt[m] \in {"not_required", "completed"}

-----------------------------------------------------------------------------
\* createReceipt: a member (or an operator on behalf of one) asks for deletion.
\* A repeated request returns the existing receipt and changes nothing.
CreateReceipt(m) ==
    /\ status[m] = "none" /\ member[m] # "erased"
    /\ status' = Set(status, m, "pending")
    /\ required' = Set(required, m, social[m])
    /\ member' = Set(member, m, "disabled")
    /\ mode' = Set(mode, m, "automatic")
    /\ stage' = Set(stage, m, "queued")
    /\ target' = Set(target, m, [t \in Targets |-> "pending"])
    /\ receipt' = Set(receipt, m, "unreviewed")
    /\ UNCHANGED <<social, donor, hold, residue, barred, evidence, code, ready, due, context, lapsed, files,
                   links, lock, pc, batch, faults>>

\* Mutant: targets that are under way or done do not matter.
Cancel_AnyTarget(m) ==
    /\ lock = Free
    /\ status[m] = "pending" /\ ~barred[m]
    /\ member[m] = "disabled"
    /\ member' = Set(member, m, "active")
    /\ status' = Set(status, m, "cancelled")
    /\ mode' = Set(mode, m, "manual")
    /\ stage' = Set(stage, m, "cancelled")
    /\ code' = Set(code, m, FALSE)
    /\ UNCHANGED <<social, donor, hold, residue, required, barred, evidence, ready, due, handoff, links,
                   lock, pc, batch, faults>>

\* Cancel, by the member or by an operator for a verified member.
Cancel(m) ==
    /\ lock = Free
    /\ status[m] = "pending" /\ ~barred[m]
    /\ member[m] = "disabled"
    /\ \A t \in Targets : target[m][t] \in {"pending", "manual"}
    /\ member' = Set(member, m, "active")
    /\ status' = Set(status, m, "cancelled")
    /\ mode' = Set(mode, m, "manual")
    /\ stage' = Set(stage, m, "cancelled")
    /\ code' = Set(code, m, FALSE)
    /\ UNCHANGED <<social, donor, hold, residue, required, barred, evidence, ready, due, handoff, links,
                   lock, pc, batch, faults>>

\* Start: no way back, and every linked provider is queued for revocation.
Start(m) ==
    /\ status[m] = "pending"
    /\ status' = Set(status, m, "processing")
    /\ Outbox!Enqueue({m} \X social[m])

StartManually(m) ==
    /\ lock = Free
    /\ Start(m)
    /\ mode' = Set(mode, m, "manual")
    /\ UNCHANGED <<account, required, barred, stage, evidence, code, ready, due, handoff,
                   lock, pc, batch, faults>>

-----------------------------------------------------------------------------
\* Complete: what the request, the job and the handoff look like afterwards.
Close(m) ==
    /\ status' = Set(status, m, "completed")
    /\ Outbox!Forget({m} \X Providers)
    /\ context' = Set(context, m, "none")
    /\ files' = Set(files, m, FALSE)
    /\ stage' = Set(stage, m, "completed")
    /\ evidence' = Set(evidence, m, FALSE)
    /\ code' = Set(code, m, FALSE)

\* Mutant: manual completion does not look at the rows that are left.
CompleteManually_NoFootprint(m) ==
    /\ status[m] = "processing" /\ mode[m] = "manual"
    /\ receipt[m] = "unreviewed" \/ ReceiptFinished(m)
    /\ ProvidersProved(m)
    /\ Close(m)
    /\ receipt' = Set(receipt, m, IF receipt[m] = "unreviewed" THEN "not_required" ELSE receipt[m])
    /\ target' = Set(target, m, [t \in Targets |-> "complete"])
    /\ UNCHANGED <<account, required, barred, mode, ready, due, lapsed, lock, pc, batch, faults>>

\* Complete by an operator who attests the external work; it takes no lock.
CompleteManually(m) ==
    /\ status[m] = "processing" /\ mode[m] = "manual"
    /\ receipt[m] = "unreviewed" \/ ReceiptFinished(m)
    /\ NoFootprint(m) /\ ProvidersProved(m)
    /\ Close(m)
    /\ receipt' = Set(receipt, m, IF receipt[m] = "unreviewed" THEN "not_required" ELSE receipt[m])
    /\ target' = Set(target, m, [t \in Targets |-> "complete"])
    /\ UNCHANGED <<account, required, barred, mode, ready, due, lapsed, lock, pc, batch, faults>>

\* SetErasureMode.
SetErasureMode(m, new) ==
    /\ lock = Free /\ Open(m)
    /\ mode' = Set(mode, m, new)
    /\ Requeued(m)
    /\ UNCHANGED <<account, request, stage, evidence, due, handoff, links, lock, pc, batch, faults>>

\* Mutant: a retried row gets a status the worker does not know.
Retried_Processing(s) == IF s \in {"FINALIZE_FAILED", "REVOKED"} THEN "REVOKED" ELSE "PROCESSING"

\* What retry_social makes of a row that is not delivered.
Retried(s) == IF s \in {"FINALIZE_FAILED", "REVOKED"} THEN "REVOKED" ELSE "PENDING"
Retriable(k) == outbox[k] \notin {"ABSENT", "DELIVERED"}

\* controlSchedule (and ExpediteReviewed): the job is put back on the queue.
ControlSchedule(m, action) ==
    /\ lock = Free /\ Open(m)
    /\ IF action = "retry_social"
       THEN /\ \E p \in Providers : Retriable(<<m, p>>)
            /\ outbox' = [k \in Links |-> IF k[1] = m /\ Retriable(k) THEN Retried(outbox[k]) ELSE outbox[k]]
       ELSE UNCHANGED outbox
    /\ due' = Set(due, m, due[m] \/ action = "expedite")
    /\ mode' = Set(mode, m, "automatic")
    /\ Requeued(m)
    /\ UNCHANGED <<account, request, stage, evidence, handoff, revoked, lock, pc, batch, faults>>

\* RecordErasureTargets: results for unverified targets; verified ones stay.
Recorded(m, result) ==
    [t \in Targets |-> IF t \in DOMAIN result /\ target[m][t] # "complete" THEN result[t] ELSE target[m][t]]

\* ReviewErasureTarget: an operator takes over a target or attests it.
ReviewErasureTarget(m, t, result) ==
    /\ lock = Free /\ Open(m)
    /\ mode[m] = "automatic" /\ stage[m] # "completed"
    /\ target' = Set(target, m, Recorded(m, [x \in {t} |-> result]))
    /\ Requeued(m)
    /\ UNCHANGED <<account, request, mode, stage, evidence, due, context, lapsed, receipt, files,
                   links, lock, pc, batch, faults>>

\* ResolveReceiptWork; it takes no lock.
ResolveReceiptWork(m, new) ==
    /\ Open(m)
    /\ \/ receipt[m] = "unreviewed" /\ new \in {"not_required", "active"}
       \/ receipt[m] = "active" /\ new = "completed"
    /\ receipt' = Set(receipt, m, new)
    /\ Requeued(m)
    /\ UNCHANGED <<account, request, mode, stage, evidence, due, context, lapsed, files, target,
                   links, lock, pc, batch, faults>>

\* ReviewErasureSubscription and SaveDonationRetention clear what holds the
\* erasure back; only the first takes the lock and requeues the job.
ReviewHold(m) ==
    /\ Open(m) /\ hold[m]
    /\ hold' = Set(hold, m, FALSE)
    /\ \/ lock = Free /\ ready' = Set(ready, m, TRUE)
       \/ UNCHANGED ready
    /\ UNCHANGED <<member, social, donor, residue, request, mode, stage, evidence, code, due, handoff,
                   links, lock, pc, batch, faults>>

\* QueueHistoricalErasureFiles: the review CLI queues files under the lock.
QueueHistoricalFiles(m) ==
    /\ lock = Free
    /\ status[m] = "processing"
    /\ mode[m] = "automatic" /\ stage[m] = "database_erased" /\ ~evidence[m]
    /\ target[m][HistoricalFiles] # "complete"
    /\ files' = Set(files, m, TRUE)
    /\ target' = [target EXCEPT ![m][HistoricalFiles] = "pending"]
    /\ Requeued(m)
    /\ Fault
    /\ UNCHANGED <<account, request, mode, stage, evidence, due, context, lapsed, receipt,
                   links, lock, pc, batch>>

-----------------------------------------------------------------------------
\* Everything else that happens to an account.

\* The direct removal of the runbook: an operator deletes the rows by hand.
EraseByHand(m) ==
    /\ status[m] = "processing" /\ mode[m] = "manual" /\ ProvidersProved(m)
    /\ member' = Set(member, m, "erased")
    /\ social' = Set(social, m, {})
    /\ donor' = Set(donor, m, FALSE)
    /\ hold' = Set(hold, m, FALSE)
    /\ residue' = Set(residue, m, FALSE)
    /\ UNCHANGED <<request, job, handoff, links, lock, pc, batch, faults>>

\* updateMemberStatusAndAdminRole: an administrator enables or disables the
\* account; a trigger then closes the way to an automatic restoration.
UpdateMemberStatus(m) ==
    /\ Open(m) /\ member[m] # "erased"
    /\ member' = Set(member, m, IF member[m] = "disabled" THEN "active" ELSE "disabled")
    /\ barred' = Set(barred, m, barred[m] \/ (status[m] = "pending" /\ member[m] = "disabled"))
    /\ Fault
    /\ UNCHANGED <<social, donor, hold, residue, status, required, job, handoff, links, lock, pc, batch>>

\* ApplyAppleNotification(consent-revoked) and the like delete a link.
Unlink(m, p) ==
    /\ p \in social[m]
    /\ social' = Set(social, m, social[m] \ {p})
    /\ Fault
    /\ UNCHANGED <<member, donor, hold, residue, request, job, handoff, links, lock, pc, batch>>

\* A donation, a refund or a billing change outdates the reviews.
DonationChanges(m) ==
    /\ Open(m) /\ member[m] # "erased" /\ ~hold[m]
    /\ \E linked \in BOOLEAN : donor' = Set(donor, m, donor[m] \/ linked)
    /\ hold' = Set(hold, m, TRUE)
    /\ Fault
    /\ UNCHANGED <<member, social, residue, request, job, handoff, links, lock, pc, batch>>

\* A request or a visit beacon that was under way writes a row for the
\* account that has just been erased.
LateWrite(m) ==
    /\ Open(m) /\ member[m] = "erased" /\ ~residue[m]
    /\ Fault
    /\ residue' = Set(residue, m, TRUE)
    /\ UNCHANGED <<member, social, donor, hold, request, job, handoff, links, lock, pc, batch>>

\* The provider and the workers of the outbox.
RevocationStep(k) ==
    /\ Outbox!Revoke(k) \/ \E s \in Outbox!Statuses : Outbox!Report(k, s)
    /\ UNCHANGED <<account, request, job, handoff, lock, pc, batch, faults>>

ScheduleComes(m) ==
    /\ Open(m) /\ ~(due[m] /\ ready[m])
    /\ due' = Set(due, m, TRUE)
    /\ ready' = Set(ready, m, TRUE)
    /\ UNCHANGED <<account, request, mode, stage, evidence, code, handoff, links, lock, pc, batch, faults>>

ContextExpires(m) ==
    /\ context[m] = "live"
    /\ context' = Set(context, m, "expired")
    /\ lapsed' = Set(lapsed, m, IF stage[m] = "database_erased" THEN "after" ELSE "before")
    /\ UNCHANGED <<account, request, job, receipt, files, target, links, lock, pc, batch, faults>>

\* PurgeExpiredPrivacyRecords deletes expired handoffs.
PurgeContext(m) ==
    /\ context[m] = "expired"
    /\ context' = Set(context, m, "none")
    /\ UNCHANGED <<account, request, job, lapsed, receipt, files, target, links, lock, pc, batch, faults>>

-----------------------------------------------------------------------------
\* The worker: RunOnce takes the lock and fetches the batch (ErasureBatch).
Due(m) == mode[m] = "automatic" /\ Open(m) /\ ready[m] /\ due[m]

RunOnce(w) ==
    LET rows == {m \in Members : Due(m)} IN
    /\ pc[w] = "idle" /\ lock = Free
    /\ rows # {}
    /\ lock' = w
    /\ queue' = [queue EXCEPT ![w] = rows]
    /\ snapErased' = [snapErased EXCEPT ![w] = {m \in rows : stage[m] = "database_erased"}]
    /\ snapEvidence' = [snapEvidence EXCEPT ![w] = {m \in rows : evidence[m]}]
    /\ GoTo(w, "next")
    /\ UNCHANGED <<account, request, job, handoff, links, cur, asked, faults>>

\* What a worker knows is gone when the batch or the process ends.
DropBatch(w) ==
    /\ GoTo(w, "idle")
    /\ cur' = [cur EXCEPT ![w] = NoMember]
    /\ queue' = [queue EXCEPT ![w] = {}]
    /\ snapErased' = [snapErased EXCEPT ![w] = {}]
    /\ snapEvidence' = [snapEvidence EXCEPT ![w] = {}]
    /\ asked' = [asked EXCEPT ![w] = {}]
    /\ lock' = IF lock = w THEN Free ELSE lock

NextRequest(w) ==
    /\ pc[w] = "next"
    /\ \E m \in queue[w] :
         /\ cur' = [cur EXCEPT ![w] = m]
         /\ queue' = [queue EXCEPT ![w] = @ \ {m}]
    /\ GoTo(w, "active")
    /\ UNCHANGED <<account, request, job, handoff, links, lock, snapErased, snapEvidence, asked, faults>>

EndBatch(w) ==
    /\ pc[w] = "next" /\ queue[w] = {}
    /\ DropBatch(w)
    /\ UNCHANGED <<account, request, job, handoff, links, faults>>

\* A step of the worker that only decides where to go on.
Decide(w, step) == GoTo(w, step) /\ UNCHANGED <<account, request, job, handoff, links, lock, batch, faults>>

\* ErasureActive.
ErasureActive(m) == mode[m] = "automatic" /\ Open(m) /\ due[m]

CheckActive(w) ==
    /\ pc[w] = "active"
    /\ Decide(w, IF ErasureActive(cur[w]) THEN "start" ELSE "next")

\* Start(id, 0), guarded by the status of the request and not by the mode; a
\* request that is not pending any more is left alone.
StartAutomatically(w) ==
    /\ pc[w] = "start"
    /\ GoTo(w, "recheck")
    /\ Start(cur[w]) \/ (status[cur[w]] # "pending" /\ UNCHANGED <<status, links>>)
    /\ UNCHANGED <<account, required, barred, job, handoff, lock, batch, faults>>

Recheck(w) ==
    /\ pc[w] = "recheck"
    /\ Decide(w, IF ~ErasureActive(cur[w]) THEN "next"
                 ELSE IF cur[w] \in snapErased[w] THEN "files" ELSE "prepare")

\* PrepareErasure.  The retention template may decide what is outstanding.
PrepareErasure(w) ==
    LET m == cur[w] IN
    /\ pc[w] = "prepare"
    /\ \/ /\ ProvidersProved(m)
          /\ receipt[m] = "unreviewed" => ~donor[m]
          /\ hold' = Set(hold, m, FALSE)
          /\ receipt' = Set(receipt, m, IF receipt[m] = "unreviewed" THEN "not_required" ELSE receipt[m])
          /\ GoTo(w, "preserve")
       \/ /\ ~ProvidersProved(m) \/ hold[m] \/ (receipt[m] = "unreviewed" /\ donor[m])
          /\ UNCHANGED <<hold, receipt>>
          /\ GoTo(w, "retry")
    /\ UNCHANGED <<member, social, donor, residue, request, job, context, lapsed, files, target,
                   links, lock, batch, faults>>

\* SaveErasureContext: a new handoff, unless an expired one is still stored.
Savable(m) == context[m] = "none" /\ mode[m] = "automatic" /\ stage[m] # "database_erased" /\ Open(m)

\* RefreshErasureContext, or no write when the handoff is up to date.
Refreshable(m) == context[m] = "live"

\* preserveContext.  The subject is read from the member row.
PreserveContext(w) ==
    LET m == cur[w] IN
    /\ pc[w] = "preserve"
    /\ \/ m \in snapEvidence[w] /\ GoTo(w, "handoff") /\ UNCHANGED context
       \/ /\ m \notin snapEvidence[w] /\ member[m] # "erased"
          /\ Refreshable(m) \/ Savable(m)
          /\ context' = Set(context, m, "live")
          /\ GoTo(w, "handoff")
       \/ /\ m \notin snapEvidence[w]
          /\ member[m] = "erased" \/ ~Savable(m)
          /\ GoTo(w, "retry") /\ UNCHANGED context
    /\ UNCHANGED <<account, request, job, lapsed, receipt, files, target, links, lock, batch, faults>>

\* externalReadyForDeletion.
ExternalReady(w) ==
    LET m == cur[w] IN
    /\ pc[w] = "handoff"
    /\ Decide(w, IF \/ HasProcessor
                    \/ m \in snapEvidence[w]
                    \/ \A t \in Targets : target[m][t] \in {"manual", "complete"}
                 THEN "erase" ELSE "retry")

\* What EraseDatabase checks before it deletes.
Handed(m) == mode[m] = "automatic" /\ (evidence[m] \/ context[m] = "live")
Erasable(m) ==
    /\ receipt[m] # "unreviewed"
    /\ member[m] = "disabled"
    /\ ProvidersProved(m)
    /\ ~hold[m]
    /\ \A p \in Providers : outbox[<<m, p>>] \in {"ABSENT", "DELIVERED"}

\* queueErasureFiles plans the files that only the account uses.
QueueErasureFiles(m) == \E queued \in BOOLEAN : files' = Set(files, m, files[m] \/ queued)

\* eraseDonations separates the donations that must be kept from the account.
EraseDonations(m) == donor' = Set(donor, m, FALSE)

\* eraseAccountReferences and the member row.
EraseAccountReferences(m) ==
    /\ social' = Set(social, m, {})
    /\ member' = Set(member, m, "erased")

\* Mutant: the handoff is not looked at again.
EraseDatabase_NoHandoff(w) ==
    LET m == cur[w] IN
    /\ pc[w] = "erase"
    /\ \/ /\ mode[m] = "automatic" /\ Erasable(m) /\ stage[m] # "database_erased"
          /\ QueueErasureFiles(m) /\ EraseDonations(m) /\ EraseAccountReferences(m)
          /\ stage' = Set(stage, m, "database_erased")
          /\ code' = Set(code, m, FALSE)
          /\ GoTo(w, "files")
       \/ GoTo(w, "retry") /\ UNCHANGED <<member, social, donor, files, stage, code>>
    /\ UNCHANGED <<hold, residue, request, mode, evidence, ready, due, context, lapsed, receipt, target,
                   links, lock, batch, faults>>

\* EraseDatabase.  File ownership, shared files, inline replies or an unknown
\* reference can also hold it back; then the transaction is rolled back.
EraseDatabase(w) ==
    LET m == cur[w] IN
    /\ pc[w] = "erase"
    /\ \/ /\ Handed(m) /\ Erasable(m) /\ stage[m] # "database_erased"
          /\ QueueErasureFiles(m) /\ EraseDonations(m) /\ EraseAccountReferences(m)
          /\ stage' = Set(stage, m, "database_erased")
          /\ code' = Set(code, m, FALSE)
          /\ GoTo(w, "files")
       \/ /\ Handed(m) /\ stage[m] = "database_erased"
          /\ GoTo(w, "files") /\ UNCHANGED <<member, social, donor, files, stage, code>>
       \/ /\ ~Handed(m) \/ stage[m] # "database_erased"
          /\ GoTo(w, "retry") /\ UNCHANGED <<member, social, donor, files, stage, code>>
    /\ UNCHANGED <<hold, residue, request, mode, evidence, ready, due, context, lapsed, receipt, target,
                   links, lock, batch, faults>>

\* The file loop.  EraseFileIfUnreferenced deletes a file and its queue row; a
\* file that is still referenced or not local blocks.
EraseFiles(w) ==
    LET m == cur[w] IN
    /\ pc[w] = "files"
    /\ \/ ~ErasureActive(m) /\ GoTo(w, "next") /\ UNCHANGED files
       \/ ErasureActive(m) /\ ~files[m] /\ GoTo(w, "external") /\ UNCHANGED files
       \/ /\ ErasureActive(m) /\ files[m]
          /\ \/ stage[m] = "database_erased" /\ files' = Set(files, m, FALSE) /\ UNCHANGED pc
             \/ GoTo(w, "retry") /\ UNCHANGED files
    /\ UNCHANGED <<account, request, job, context, lapsed, receipt, target, links, lock, batch, faults>>

\* processExternal.
ProcessExternal(w) ==
    LET m == cur[w] IN
    /\ pc[w] = "external"
    /\ Decide(w, IF m \in snapEvidence[w] THEN "finish"
                 ELSE IF ~ErasureActive(m) \/ ~ReceiptFinished(m) THEN "retry"
                 ELSE IF AllVerified(m) THEN "evidence"
                 ELSE IF HasProcessor /\ context[m] = "live" THEN "begin" ELSE "retry")

\* erasePendingTargets up to the call: BeginErasureTargets marks what is left.
BeginErasureTargets(w) ==
    LET m == cur[w] IN
    /\ pc[w] = "begin"
    /\ IF mode[m] = "automatic" /\ ~AllVerified(m)
       THEN /\ target' = Set(target, m, Recorded(m, [t \in Unverified(m) |-> "running"]))
            /\ asked' = [asked EXCEPT ![w] = Unverified(m)]
            /\ GoTo(w, "calling")
       ELSE /\ UNCHANGED <<target, asked>>
            /\ GoTo(w, IF AllVerified(m) THEN "evidence" ELSE "retry")
    /\ UNCHANGED <<account, request, job, context, lapsed, receipt, files, links, lock, cur, queue,
                   snapErased, snapEvidence, faults>>

\* Mutant: a result for some targets counts for all of them.
RecordTargets_AnyResult(w) ==
    LET m == cur[w] IN
    /\ pc[w] = "calling"
    /\ \E result \in [asked[w] -> {"failed", "pending", "complete"}] :
         /\ target' = Set(target, m, Recorded(m, result))
         /\ GoTo(w, IF \E t \in asked[w] : result[t] = "complete" THEN "evidence" ELSE "retry")
    /\ asked' = [asked EXCEPT ![w] = {}]
    /\ UNCHANGED <<account, request, job, context, lapsed, receipt, files, links, lock, cur, queue,
                   snapErased, snapEvidence, faults>>

\* Mutant: the mode is not looked at when the answer comes.
RecordTargets_AnyMode(w) ==
    LET m == cur[w] IN
    /\ pc[w] = "calling"
    /\ \E result \in [asked[w] -> {"failed", "pending", "manual", "complete"}] :
         /\ target' = Set(target, m, Recorded(m, result))
         /\ GoTo(w, IF \A t \in asked[w] : result[t] = "complete" THEN "evidence" ELSE "retry")
    /\ asked' = [asked EXCEPT ![w] = {}]
    /\ UNCHANGED <<account, request, job, context, lapsed, receipt, files, links, lock, cur, queue,
                   snapErased, snapEvidence, faults>>

\* The answer of the processor, or its error, is recorded per target.
RecordTargets(w) ==
    LET m == cur[w] IN
    /\ pc[w] = "calling"
    /\ \E result \in [asked[w] -> {"failed", "pending", "manual", "complete"}] :
         IF mode[m] = "automatic" /\ stage[m] # "completed"
         THEN /\ target' = Set(target, m, Recorded(m, result))
              /\ GoTo(w, IF \A t \in asked[w] : result[t] = "complete" THEN "evidence" ELSE "retry")
         ELSE GoTo(w, "retry") /\ UNCHANGED target
    /\ asked' = [asked EXCEPT ![w] = {}]
    /\ UNCHANGED <<account, request, job, context, lapsed, receipt, files, links, lock, cur, queue,
                   snapErased, snapEvidence, faults>>

\* RecordExternalErasure: the evidence replaces the handoff.
RecordExternalErasure(w) ==
    LET m == cur[w] IN
    /\ pc[w] = "evidence"
    /\ IF mode[m] = "automatic" /\ Open(m)
       THEN /\ evidence' = Set(evidence, m, TRUE)
            /\ target' = Set(target, m, [t \in Targets |-> "complete"])
            /\ context' = Set(context, m, "none")
            /\ GoTo(w, "finish")
       ELSE GoTo(w, "retry") /\ UNCHANGED <<evidence, target, context>>
    /\ UNCHANGED <<account, request, mode, stage, code, ready, due, lapsed, receipt, files,
                   links, lock, batch, faults>>

\* Mutant: the file queue is not looked at again.
Completable_FilesLeft(m) ==
    /\ ErasureActive(m) /\ status[m] = "processing"
    /\ stage[m] = "database_erased" /\ evidence[m]
    /\ ReceiptFinished(m) /\ AllVerified(m)
    /\ NoFootprint(m) /\ ProvidersProved(m)

\* FinishAutomaticErasure and Complete(id, 0).
Completable(m) ==
    /\ ErasureActive(m) /\ status[m] = "processing"
    /\ stage[m] = "database_erased" /\ evidence[m] /\ ~files[m]
    /\ ReceiptFinished(m) /\ AllVerified(m)
    /\ NoFootprint(m) /\ ProvidersProved(m)

FinishAutomaticErasure(w) ==
    LET m == cur[w] IN
    /\ pc[w] = "finish"
    /\ IF Completable(m)
       THEN Close(m) /\ GoTo(w, "next")
       ELSE GoTo(w, "retry") /\ UNCHANGED <<status, stage, evidence, code, context, files, links>>
    /\ UNCHANGED <<account, required, barred, mode, ready, due, lapsed, receipt, target, lock, batch, faults>>

\* Mutant: the next attempt is set and the blocker is not.
ErasureRetry_NoCode(w) ==
    /\ pc[w] = "retry"
    /\ ready' = Set(ready, cur[w], FALSE)
    /\ GoTo(w, "next")
    /\ UNCHANGED <<account, request, mode, stage, evidence, code, due, handoff, links, lock, batch, faults>>

\* ErasureRetry, whatever the request looks like by now.
ErasureRetry(w) ==
    /\ pc[w] = "retry"
    /\ code' = Set(code, cur[w], TRUE)
    /\ ready' = Set(ready, cur[w], FALSE)
    /\ GoTo(w, "next")
    /\ UNCHANGED <<account, request, mode, stage, evidence, due, handoff, links, lock, batch, faults>>

\* A statement fails and its transaction is rolled back: the request waits for
\* the next attempt; when that cannot be written either, the batch ends.
StatementFails(w) ==
    /\ pc[w] \notin {"idle", "next"}
    /\ Fault
    /\ IF pc[w] = "retry"
       THEN DropBatch(w)
       ELSE GoTo(w, "retry") /\ UNCHANGED <<lock, batch>>
    /\ UNCHANGED <<account, request, job, handoff, links>>

\* The process dies or is stopped; its connection and with it the lock go.
Crash(w) ==
    /\ pc[w] # "idle"
    /\ Fault
    /\ DropBatch(w)
    /\ UNCHANGED <<account, request, job, handoff, links>>

\* The connection of the lock drops while its owner goes on.
LoseLock(w) ==
    /\ lock = w
    /\ Fault
    /\ lock' = Free
    /\ UNCHANGED <<account, request, job, handoff, links, pc, batch>>

-----------------------------------------------------------------------------
WorkerStep(w) ==
    \/ RunOnce(w)
    \/ NextRequest(w)
    \/ EndBatch(w)
    \/ CheckActive(w)
    \/ StartAutomatically(w)
    \/ Recheck(w)
    \/ PrepareErasure(w)
    \/ PreserveContext(w)
    \/ ExternalReady(w)
    \/ EraseDatabase(w)
    \/ EraseFiles(w)
    \/ ProcessExternal(w)
    \/ BeginErasureTargets(w)
    \/ RecordTargets(w)
    \/ RecordExternalErasure(w)
    \/ FinishAutomaticErasure(w)
    \/ ErasureRetry(w)

OperatorStep(m) ==
    \/ Cancel(m)
    \/ StartManually(m)
    \/ CompleteManually(m)
    \/ \E new \in {"automatic", "manual"} : SetErasureMode(m, new)
    \/ \E action \in {"expedite", "schedule", "retry_social"} : ControlSchedule(m, action)
    \/ \E t \in Targets, result \in {"manual", "complete"} : ReviewErasureTarget(m, t, result)
    \/ \E new \in {"not_required", "active", "completed"} : ResolveReceiptWork(m, new)
    \/ ReviewHold(m)
    \/ QueueHistoricalFiles(m)
    \/ EraseByHand(m)
    \/ UpdateMemberStatus(m)

Next ==
    \/ \E w \in Workers : WorkerStep(w) \/ StatementFails(w) \/ Crash(w) \/ LoseLock(w)
    \/ \E m \in Members :
         \/ CreateReceipt(m)
         \/ OperatorStep(m)
         \/ \E p \in Providers : Unlink(m, p)
         \/ DonationChanges(m)
         \/ LateWrite(m)
         \/ ScheduleComes(m)
         \/ ContextExpires(m)
         \/ PurgeContext(m)
    \/ \E k \in Links : RevocationStep(k)

\* The job polls on a ticker and deadlines pass.
Fairness ==
    /\ \A w \in Workers : WF_vars(WorkerStep(w))
    /\ \A m \in Members : WF_vars(ScheduleComes(m))

Spec == Init /\ [][Next]_vars
FairSpec == Spec /\ Fairness

-----------------------------------------------------------------------------
(***************************************************************************)
(* A completed deletion is complete, whoever finished it and whatever the  *)
(* workers, operators and the provider did meanwhile: the account and its  *)
(* links are gone, every provider that had to be asked has revoked its     *)
(* authorization, every external target is verified, no receipt work, no   *)
(* file and no handoff is left, and no outbox row waits.                   *)
(***************************************************************************)
CompletedMeansErased ==
    \A m \in Members : status[m] = "completed" =>
        /\ member[m] = "erased" /\ social[m] = {}
        /\ \A p \in required[m] : revoked[<<m, p>>]
        /\ AllVerified(m)
        /\ ReceiptFinished(m)
        /\ context[m] = "none" /\ ~files[m]
        /\ \A p \in Providers : outbox[<<m, p>>] = "ABSENT"

(***************************************************************************)
(* A cancelled deletion has done nothing that cannot be undone: no data is *)
(* erased, no revocation was queued or carried out, no target was ever     *)
(* handed to the processor, also when a worker that lost the lock was in   *)
(* the middle of the request.                                              *)
(***************************************************************************)
CancelledMeansUntouched ==
    \A m \in Members : status[m] = "cancelled" =>
        /\ member[m] # "erased"
        /\ \A p \in Providers : outbox[<<m, p>>] = "ABSENT" /\ ~revoked[<<m, p>>]
        /\ \A t \in Targets : target[m][t] \in {"pending", "manual"}
        /\ ~evidence[m]

(***************************************************************************)
(* The identifiers the external targets need outlive the account: between  *)
(* the erasure of the database and the evidence that every target is done  *)
(* the handoff is live, unless it ran out after the erasure.               *)
(***************************************************************************)
HandoffSurvivesErasure ==
    \A m \in Members :
        stage[m] = "database_erased" /\ ~evidence[m] => context[m] = "live" \/ lapsed[m] = "after"

(***************************************************************************)
(* RecordExternalErasure marks every target complete.  It only ever runs   *)
(* when each of them is verified already, by the processor or an operator. *)
(***************************************************************************)
EvidenceIsBacked ==
    [][\A m \in Members : ~evidence[m] /\ evidence'[m] => AllVerified(m)]_vars

(***************************************************************************)
(* Complete drops the file queue.  A request that is completed by a worker *)
(* has no file in it, not even one that the review command queued after    *)
(* the worker had emptied it and lost the lock.                            *)
(***************************************************************************)
QueuedFilesAreDeleted ==
    [][\A m \in Members : mode[m] = "automatic" /\ files[m] => status'[m] # "completed"]_vars

(***************************************************************************)
(* Operator takeover: while a request stays in manual mode no worker       *)
(* erases data or files, records results or evidence, writes a handoff or  *)
(* completes the request, even one that lost the lock half way.            *)
(***************************************************************************)
ManualKeepsWorkersOut ==
    [][\A m \in Members : mode[m] = "manual" /\ mode'[m] = "manual" /\ pc' # pc =>
         /\ member'[m] = member[m] /\ stage'[m] = stage[m]
         /\ files'[m] = files[m] /\ target'[m] = target[m]
         /\ evidence'[m] = evidence[m] /\ context'[m] = context[m]
         /\ status[m] = "processing" => status'[m] = "processing"]_vars

\* The promise to the member: phase and owed as the tables show them.
Phase(m) ==
    CASE status[m] = "none" -> "none"
      [] status[m] = "pending" -> "open"
      [] status[m] = "processing" -> IF member[m] = "erased" THEN "erased" ELSE "started"
      [] status[m] = "completed" -> "closed"
      [] status[m] = "cancelled" -> "cancelled"
Owed(m) == {p \in required[m] : ~revoked[<<m, p>>]}

Contract == INSTANCE DeletionContract WITH
    phase <- [m \in Members |-> Phase(m)],
    owed <- [m \in Members |-> Owed(m)]

(***************************************************************************)
(* Workers, operators and revocations together implement the contract of a *)
(* deletion (DeletionContract).                                            *)
(***************************************************************************)
ImplementsContract == Contract!Spec

(***************************************************************************)
(* No request stalls in silence: one that is due for automatic processing  *)
(* ends, is taken over by an operator, or shows a blocker (LAST_CODE).     *)
(***************************************************************************)
NoSilentStall ==
    \A m \in Members :
        Open(m) /\ mode[m] = "automatic" ~>
            \/ status[m] \in {"completed", "cancelled"}
            \/ mode[m] = "manual"
            \/ code[m]
=============================================================================
