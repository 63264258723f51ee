-------------------------------- MODULE Signup --------------------------------
(***************************************************************************)
(* Becoming a member: the in-memory tokens that carry a verified social    *)
(* identity to the signup form, the photos uploaded meanwhile, the account *)
(* transaction of the social and of the password form, and the cleanup of  *)
(* photos nobody claimed (service/social_link_token_store.go,              *)
(* handler/auth_social_link_handler.go, social_link_photo_handler.go,      *)
(* service/upload_orchestrator.go, repository/auth_repo.go).  Grants come  *)
(* from PhoneVerification.                                                 *)
(***************************************************************************)
EXTENDS PhoneVerification

CONSTANTS
    Tokens, Identities,
    Usernames,         \* identifiers a password account may choose
    Forms,             \* signup requests that may be under way together
    Files,             \* photos that may be uploaded
    NoFile,
    DiscardTries,      \* attempts of a discard: 4
    MaxMembers, MaxCommitFaults   \* bounds

ASSUME SignupAssumption ==
    /\ NoFile \notin Files /\ "none" \notin Tokens /\ Usernames \cap Identities = {} /\ DiscardTries \in Nat \ {0}
    /\ MaxMembers \in Nat /\ MaxCommitFaults \in Nat

VARIABLES
    entry,     \* cache entries of the token store
    expired,   \* the time to live of a token is over
    timer,     \* the expiry timer is armed
    results,   \* uploads tracked for a token (shared with its timer)
    file,      \* uploaded photos: WEO_FILES row and file on disk
    discard,   \* background discards: tries left, 0 when there is none
    upload,    \* photo uploads in progress: the token each is for
    form,      \* signup requests in progress
    members,   \* WEO_MEMBER rows with their social identity and phone claim
    abandoned, \* history: photos whose cleanup was given up
    commitFaults

signupVars == <<entry, expired, timer, results, file, discard, upload, form, members,
                abandoned, commitFaults>>
vars == <<phoneVars, signupVars>>

IdleForm == [pc |-> "idle"]
Absent   == [status |-> "absent"]

Init ==
    /\ PhoneInit
    /\ entry = [t \in Tokens |-> Absent]
    /\ expired = [t \in Tokens |-> FALSE] /\ timer = [t \in Tokens |-> FALSE]
    /\ results = [t \in Tokens |-> {}]
    /\ file = [f \in Files |-> "none"] /\ discard = [f \in Files |-> 0]
    /\ upload = [f \in Files |-> "none"]
    /\ form = [s \in Forms |-> IdleForm]
    /\ members = <<>> /\ abandoned = {} /\ commitFaults = 0

-----------------------------------------------------------------------------
(* The token store.  Each operation holds the store's mutex throughout. *)

\* "entry": the token is cached and not expired.
Cached(t) == entry[t].status # "absent" /\ ~expired[t]

\* "Snapshot" and "available": nobody processes it and it is not finished.
Available(t) == Cached(t) /\ entry[t].status = "ready"

\* "leasedEntry": the lease is still the one the entry is processed under.
Leased(t, s) == entry[t].status = "processing" /\ entry[t].lease = s

\* "cleanup": stop the timer, forget the uploads and discard all but one.
Cleanup(t, kept) ==
    /\ timer' = [timer EXCEPT ![t] = FALSE]
    /\ results' = [results EXCEPT ![t] = {}]
    /\ discard' = [f \in Files |-> IF f \in results[t] \ {kept} THEN DiscardTries ELSE discard[f]]

\* "Put": a ready entry and the timer that will clean up after it.
Put(t, i) ==
    /\ entry[t].status = "absent" /\ ~expired[t]
    /\ entry' = [entry EXCEPT ![t] = [status |-> "ready", id |-> i, photo |-> NoFile]]
    /\ timer' = [timer EXCEPT ![t] = TRUE]

\* FindSocialIdentityOwnership and FindMemberBySocialID.
FindMemberBySocialID(i) == \E m \in DOMAIN members : members[m].id = i

\* A sign-in whose identity nobody owns yet is given a fresh token.
Authenticate(t, i) ==
    /\ ~FindMemberBySocialID(i)
    /\ Put(t, i)
    /\ UNCHANGED <<phoneVars, expired, results, file, discard, upload, form, members, abandoned, commitFaults>>

\* "Begin": the data moves to the lease and the entry no longer expires.
Begin(t, s) ==
    /\ Available(t)
    /\ entry' = [entry EXCEPT ![t] = [status |-> "processing", id |-> @.id, photo |-> @.photo, lease |-> s]]

\* A faulty variant of Release: an expired entry is dropped, its photos are not.
ReleaseLeavesUploads(t, s) ==
    /\ UNCHANGED <<timer, results, discard>>
    /\ entry' = [entry EXCEPT ![t] = IF ~Leased(t, s) THEN @
                                     ELSE IF expired[t] THEN Absent
                                     ELSE [status |-> "ready", id |-> @.id, photo |-> @.photo]]

\* "Release": back to ready, or cleaned up when the time to live is over.
Release(t, s) ==
    IF ~Leased(t, s) THEN UNCHANGED <<entry, timer, results, discard>>
    ELSE IF expired[t]
    THEN entry' = [entry EXCEPT ![t] = Absent] /\ Cleanup(t, NoFile)
    ELSE /\ entry' = [entry EXCEPT ![t] = [status |-> "ready", id |-> @.id, photo |-> @.photo]]
         /\ UNCHANGED <<timer, results, discard>>

\* "ConsumeWithPhoto": keep the committed photo, discard the others.
ConsumeWithPhoto(t, s, photo) ==
    IF ~Leased(t, s) THEN UNCHANGED <<entry, timer, results, discard>>
    ELSE /\ entry' = [entry EXCEPT ![t] = IF expired[t] THEN Absent ELSE [status |-> "consumed"]]
         /\ Cleanup(t, photo)

\* "Cancel": only a ready token; a cancelled one stays as it is.
Cancel(t) ==
    /\ Cached(t) /\ entry[t].status = "ready"
    /\ entry' = [entry EXCEPT ![t] = [status |-> "cancelled"]]
    /\ Cleanup(t, NoFile)

SocialLinkCancel(t) ==
    /\ Cancel(t)
    /\ UNCHANGED <<phoneVars, expired, file, upload, form, members, abandoned, commitFaults>>

\* The clock passes the expiry; the cache forgets every entry but a leased one.
TokenExpires(t) ==
    /\ entry[t].status # "absent" /\ ~expired[t]
    /\ expired' = [expired EXCEPT ![t] = TRUE]
    /\ entry' = [entry EXCEPT ![t] = IF @.status = "processing" THEN @ ELSE Absent]
    /\ UNCHANGED <<phoneVars, timer, results, file, discard, upload, form, members, abandoned, commitFaults>>

\* "expire", run by the timer: a leased token is left to its lease.
Expire(t) ==
    /\ timer[t] /\ expired[t]
    /\ IF entry[t].status = "processing"
       THEN timer' = [timer EXCEPT ![t] = FALSE] /\ UNCHANGED <<entry, results, discard>>
       ELSE entry' = [entry EXCEPT ![t] = Absent] /\ Cleanup(t, NoFile)
    /\ UNCHANGED <<phoneVars, expired, file, upload, form, members, abandoned, commitFaults>>

-----------------------------------------------------------------------------
(* Photos of the signup form *)

\* UploadOrchestrator.Upload: the file is saved and recorded in WEO_FILES.
Upload(f) ==
    /\ file[f] = "none"
    /\ file' = [file EXCEPT ![f] = "stored"]

\* The photo handler looks at the token before it stores the file.
UploadPhoto(t, f) ==
    /\ Available(t)
    /\ Upload(f)
    /\ upload' = [upload EXCEPT ![f] = t]
    /\ UNCHANGED <<phoneVars, entry, expired, timer, results, discard, form, members, abandoned, commitFaults>>

\* "AttachUpload": tracked if the token is still free, else discarded.
AttachUpload(t, f) ==
    IF Available(t)
    THEN /\ results' = [results EXCEPT ![t] = @ \union {f}]
         /\ entry' = [entry EXCEPT ![t].photo = f]
         /\ UNCHANGED discard
    ELSE /\ discard' = [discard EXCEPT ![f] = DiscardTries]
         /\ UNCHANGED <<results, entry>>

FinishUpload(f) ==
    /\ upload[f] \in Tokens
    /\ AttachUpload(upload[f], f)
    /\ upload' = [upload EXCEPT ![f] = "none"]
    /\ UNCHANGED <<phoneVars, expired, timer, file, form, members, abandoned, commitFaults>>

Referenced(f) == \E m \in DOMAIN members : members[m].photo = f

\* "RetireSignupProfileUpload": under the file's row lock the row is deleted
\* unless a member refers to it.
RetireSignupProfileUpload(f) == file[f] = "stored" /\ ~Referenced(f)

\* "DiscardUnclaimedProfile": retire, unless an earlier try did, and unlink.
\* outcome: "ok", "storeFails" (no row deleted) or "unlinkFails".
DiscardUnclaimedProfile(f, outcome) ==
    /\ discard[f] > 0
    /\ LET mayUnlink == file[f] = "retired" \/ RetireSignupProfileUpload(f)
           fails     == \/ outcome = "storeFails" /\ file[f] = "stored"
                        \/ outcome = "unlinkFails" /\ mayUnlink
       IN /\ outcome = "ok" \/ fails
          /\ file' = [file EXCEPT ![f] = CASE outcome = "storeFails" -> @
                                          [] outcome = "unlinkFails" -> "retired"
                                          [] OTHER -> IF mayUnlink THEN "gone" ELSE @]
          /\ discard' = [discard EXCEPT ![f] = IF fails THEN @ - 1 ELSE 0]
          /\ abandoned' = IF fails /\ discard[f] = 1 THEN abandoned \union {f} ELSE abandoned
    /\ UNCHANGED <<phoneVars, entry, expired, timer, results, upload, form, members, commitFaults>>

-----------------------------------------------------------------------------
(* The account transaction *)

\* FindMemberByPhone, CheckPhoneExists and PhoneHasPendingDeletion: every member
\* of this module is of a status they count.
FindMemberByPhone(p) == \E m \in DOMAIN members : members[m].phone = p

\* lockManagedUpload: the row of the file, locked, is still there.
LockManagedUpload(f) == file[f] = "stored"

\* lockPrivateSignupPhoto: a managed photo must still have its row.
LockPrivateSignupPhoto(f) == f # NoFile => LockManagedUpload(f)

\* claimPhoneTx: the phone claim is a unique key.
ClaimPhone(p) == \A m \in DOMAIN members : members[m].phone # p

\* insertSocialConnectionTx, insertLocalPasswordIdentityTx: so is the subject.
InsertIdentity(i) == \A m \in DOMAIN members : members[m].id # i

\* "persistSignupEvidenceTx": the conditional update that spends the grant.
PersistSignupEvidence(g, p, m) ==
    /\ UsableGrant(g, p)
    /\ codes' = [codes EXCEPT ![RowOfGrant(g)].owner = m]

\* All or nothing: the member, the claims, the evidence.  "known" records
\* whether the request learns that it committed.
CreateAccount(i, p, g, photo, t, known) ==
    /\ Len(members) < MaxMembers
    /\ LockPrivateSignupPhoto(photo) /\ ClaimPhone(p) /\ InsertIdentity(i)
    /\ PersistSignupEvidence(g, p, Len(members) + 1)
    /\ members' = Append(members, [id |-> i, phone |-> p, photo |-> photo, token |-> t,
                                  grant |-> g, known |-> known])
    /\ UNCHANGED <<asking, checking, issued, guesses, storeFaults>>

-----------------------------------------------------------------------------
(* POST /auth/social/link *)

\* The form names a token, a grant and a phone, and keeps, removes or replaces
\* the photo the token has.
SocialLink(s, t, p, g, choice) ==
    /\ form[s].pc = "idle"
    /\ Begin(t, s)
    /\ form' = [form EXCEPT ![s] =
          [pc |-> "check", token |-> t, id |-> entry[t].id, phone |-> p, grant |-> g,
           photo |-> IF choice = "keep" THEN entry[t].photo ELSE choice, kept |-> choice = "keep"]]
    /\ UNCHANGED <<phoneVars, expired, timer, results, file, discard, upload, members, abandoned, commitFaults>>

\* requirePrivacyConsent and requirePhoneVerification.
EvidenceAccepted(consent, g, p) == consent /\ AssertPhoneVerified(g, p)

\* createNewSocialAccount looks for the owner of the number before it inserts.
MayCreateSocialAccount(p) == ~FindMemberByPhone(p)

CheckForm(s, consent) ==
    /\ form[s].pc = "check"
    /\ form' = [form EXCEPT ![s].pc =
          IF EvidenceAccepted(consent, form[s].grant, form[s].phone) /\ MayCreateSocialAccount(form[s].phone)
          THEN "create" ELSE "release"]
    /\ UNCHANGED <<phoneVars, entry, expired, timer, results, file, discard, upload, members, abandoned, commitFaults>>

\* CreateSocialAccount commits.
CreateSocialAccount(s) ==
    /\ form[s].pc = "create"
    /\ CreateAccount(form[s].id, form[s].phone, form[s].grant, form[s].photo, form[s].token, TRUE)
    /\ form' = [form EXCEPT ![s].pc = "finalize"]
    /\ UNCHANGED <<entry, expired, timer, results, file, discard, upload, abandoned, commitFaults>>

\* It commits, but the answer to the commit is lost and the request fails.
CommitUnknown(s) ==
    /\ form[s].pc = "create" /\ commitFaults < MaxCommitFaults
    /\ CreateAccount(form[s].id, form[s].phone, form[s].grant, form[s].photo, form[s].token, FALSE)
    /\ form' = [form EXCEPT ![s].pc = "release"] /\ commitFaults' = commitFaults + 1
    /\ UNCHANGED <<entry, expired, timer, results, file, discard, upload, abandoned>>

\* A key, the photo or the grant is taken meanwhile, or the store fails.
CreateFails(s) ==
    /\ form[s].pc = "create"
    /\ form' = [form EXCEPT ![s].pc = "release"]
    /\ UNCHANGED <<phoneVars, entry, expired, timer, results, file, discard, upload, members, abandoned, commitFaults>>

\* The deferred release of a request that created nothing it knows of.
ReleaseLease(s) ==
    /\ form[s].pc = "release"
    /\ Release(form[s].token, s)
    /\ form' = [form EXCEPT ![s] = IdleForm]
    /\ UNCHANGED <<phoneVars, expired, file, upload, members, abandoned, commitFaults>>

\* finalizeSocialSignup: right after the commit.
FinalizeSocialSignup(s) ==
    /\ form[s].pc = "finalize"
    /\ ConsumeWithPhoto(form[s].token, s, form[s].photo)
    /\ form' = [form EXCEPT ![s] = IdleForm]
    /\ UNCHANGED <<phoneVars, expired, file, upload, members, abandoned, commitFaults>>

-----------------------------------------------------------------------------
(* POST /auth/register *)

CheckIDExists(i) == \E m \in DOMAIN members : members[m].id = i

\* The checks of RegistrationService.Register: identifier and phone.
MayRegister(i, p) == ~CheckIDExists(i) /\ ~FindMemberByPhone(p)

Register(s, i, p, g) ==
    /\ form[s].pc = "idle"
    /\ EvidenceAccepted(TRUE, g, p) /\ MayRegister(i, p)
    /\ form' = [form EXCEPT ![s] = [pc |-> "insert", id |-> i, phone |-> p, grant |-> g]]
    /\ UNCHANGED <<phoneVars, entry, expired, timer, results, file, discard, upload, members, abandoned, commitFaults>>

\* CreatePasswordAccount, or its failure.
CreatePasswordAccount(s) ==
    /\ form[s].pc = "insert"
    /\ \/ CreateAccount(form[s].id, form[s].phone, form[s].grant, NoFile, "none", TRUE)
       \/ UNCHANGED <<phoneVars, members>>
    /\ form' = [form EXCEPT ![s] = IdleForm]
    /\ UNCHANGED <<entry, expired, timer, results, file, discard, upload, abandoned, commitFaults>>

-----------------------------------------------------------------------------
\* The process ends: tokens, leases, timers and discards live in memory only.
Restart ==
    /\ commitFaults < MaxCommitFaults /\ commitFaults' = commitFaults + 1
    /\ expired' = [t \in Tokens |-> expired[t] \/ entry[t].status # "absent"]
    /\ entry' = [t \in Tokens |-> Absent] /\ timer' = [t \in Tokens |-> FALSE]
    /\ results' = [t \in Tokens |-> {}] /\ discard' = [f \in Files |-> 0]
    /\ upload' = [f \in Files |-> "none"] /\ form' = [s \in Forms |-> IdleForm]
    /\ abandoned' = abandoned \union {f \in Files : file[f] \in {"stored", "retired"} /\ ~Referenced(f)}
    /\ asking' = [q \in Requesters |-> IdleAsk] /\ checking' = [c \in Checkers |-> IdleCheck]
    /\ storeFaults' = storeFaults + Cardinality({c \in Checkers : checking[c].pc \in {"wrong", "right"}})
    /\ UNCHANGED <<codes, issued, guesses, file, members>>

FormNext ==
    \E s \in Forms :
        \/ \E t \in Tokens, p \in Phones, g \in DOMAIN issued, choice \in Files \union {"keep", NoFile} :
              /\ choice \in Files => file[choice] # "none"
              /\ SocialLink(s, t, p, g, choice)
        \/ \E consent \in BOOLEAN : CheckForm(s, consent)
        \/ CreateSocialAccount(s) \/ CommitUnknown(s) \/ CreateFails(s)
        \/ ReleaseLease(s) \/ FinalizeSocialSignup(s)
        \/ \E i \in Usernames, p \in Phones, g \in DOMAIN issued : Register(s, i, p, g)
        \/ CreatePasswordAccount(s)

Next ==
    \/ PhoneNext /\ UNCHANGED signupVars
    \/ FormNext
    \/ \E t \in Tokens :
        \/ \E i \in Identities : Authenticate(t, i)
        \/ SocialLinkCancel(t) \/ TokenExpires(t) \/ Expire(t)
        \/ \E f \in Files : UploadPhoto(t, f)
    \/ \E f \in Files :
        \/ FinishUpload(f)
        \/ \E outcome \in {"ok", "storeFails", "unlinkFails"} : DiscardUnclaimedProfile(f, outcome)
    \/ Restart

Spec == Init /\ [][Next]_vars

-----------------------------------------------------------------------------
(* Properties *)

\* The store's states are the ones its operations know.
TypeOK ==
    /\ \A r \in DOMAIN codes : codes[r] \in Row
    /\ \A t \in Tokens : entry[t].status \in {"absent", "ready", "processing", "consumed", "cancelled"}
    /\ \A t \in Tokens : entry[t].status = "processing" => entry[t].lease \in Forms
    /\ results \in [Tokens -> SUBSET Files] /\ discard \in [Files -> 0..DiscardTries]
    /\ file \in [Files -> {"none", "stored", "retired", "gone"}]

\* "expiry may not delete a photo while the member transaction is committing":
\* whatever timers, cancellations, lost commits and discards do, the photo a
\* committed member refers to stays stored.
CommittedPhotoKept ==
    \A m \in DOMAIN members : members[m].photo # NoFile => file[members[m].photo] = "stored"

\* The photo that a form keeps from its token cannot be discarded while the
\* token is leased: the timer that fires meanwhile leaves it to the lease.
LeasedPhotoKept ==
    \A s \in Forms :
        /\ form[s].pc \in {"check", "create"}
        /\ form[s].kept /\ form[s].photo # NoFile
        => file[form[s].photo] = "stored" /\ discard[form[s].photo] = 0

\* Every stored photo is a member's, tracked by a token that will clean it up,
\* on its way to one, or being discarded; others were given up or lost in a
\* restart.
NoPhotoForgotten ==
    \A f \in Files : file[f] \in {"stored", "retired"} =>
        \/ Referenced(f) \/ f \in abandoned
        \/ upload[f] \in Tokens \/ discard[f] > 0
        \/ \E t \in Tokens : f \in results[t] /\ (timer[t] \/ entry[t].status = "processing")

\* The evidence of every member stays: the verification row its grant came
\* from is for its phone and is consumed by it and by nobody else, also when a
\* second confirmation of the same code ends later.
MemberHasEvidence ==
    \A m \in DOMAIN members :
        LET row == codes[issued[members[m].grant]]
        IN row.phone = members[m].phone /\ row.owner = m

\* SocialLinkCancel answers "cancelled" only when no member comes of the token:
\* a cancelled token has no request that may still create a member, and none
\* that knows it has.
CancelledCreatesNothing ==
    \A t \in Tokens : entry[t].status = "cancelled" =>
        /\ \A m \in DOMAIN members : members[m].known => members[m].token # t
        /\ \A s \in Forms : form[s].pc \in {"check", "create", "finalize"} => form[s].token # t

\* "The account transaction committed. Never release/revive its credentials":
\* a token that is known to have made a member is never free for another form.
CommittedTokenNotRevived ==
    \A m \in DOMAIN members :
        members[m].known /\ members[m].token \in Tokens => entry[members[m].token].status # "ready"

\* The store is well formed and every photo of a signup is accounted for: kept
\* for the member or the lease that uses it, and otherwise somebody's to discard.
PhotosAccountedFor == TypeOK /\ CommittedPhotoKept /\ LeasedPhotoKept /\ NoPhotoForgotten

\* A member comes of one verified phone and one token: the evidence stays hers, a
\* cancelled token makes nobody, and a used one serves no other form.
MembersAreEarned == MemberHasEvidence /\ CancelledCreatesNothing /\ CommittedTokenNotRevived
=============================================================================
