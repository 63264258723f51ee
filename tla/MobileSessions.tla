--------------------------- MODULE MobileSessions ---------------------------
(***************************************************************************)
(* The sessions of a member and what hangs on them: the refresh tokens of  *)
(* the mobile apps (ALUMNI_MOBILE_REFRESH_TOKEN, one family per session    *)
(* id), the push registrations bound to a session                          *)
(* (ALUMNI_MOBILE_DEVICE_TOKEN), the cookies of a browser, the requests in *)
(* flight that read or end them, and a push worker that sends to them.     *)
(*                                                                         *)
(* Abstractions.                                                           *)
(*   - The k-th token of the family s is the pair s, k; a session id is    *)
(*     random, so it is taken at most once.                                *)
(*   - A transaction or a single statement is one step: the row locks of   *)
(*     the family, taken before any other row, order the transactions that *)
(*     touch it.  Every read outside a transaction is a step of its own.   *)
(*   - REVOKED_AT and MRT_REVOKED_AT are one bit: no statement sets the    *)
(*     second without the first.                                           *)
(*   - Time is the set of expired tokens; tokens of a family expire in the *)
(*     order in which they were issued.                                    *)
(*   - A client may present any token it was ever given, at any time and   *)
(*     any number of times; its access token is any one of its session.    *)
(*   - faults counts crashes and statements that fail.                     *)
(***************************************************************************)
EXTENDS Naturals, FiniteSets

CONSTANTS
    Accounts,  \* members
    Sids,      \* session ids that can be drawn
    MaxGen,    \* bound on the tokens of a family
    Devices,   \* push device tokens
    Browsers,  \* browsers that hold the cookies of the web site
    Requests,  \* HTTP requests that can be in flight together
    Workload,  \* the kinds of event that happen, to bound an instance
    MaxFaults, \* bound on the faults of a behaviour
    None       \* no account, no session, SQL NULL

ASSUME ConstantsAssumption ==
    /\ MaxGen \in Nat \ {0}
    /\ MaxFaults \in Nat
    /\ None \notin Accounts /\ None \notin Sids /\ None \notin Browsers
    /\ Sids \intersect Browsers = {}

VARIABLES
    status,   \* status[a]: USR_STATUS, as login eligibility tells it apart
    owner,    \* owner[s]: the account a session id was drawn for
    gen,      \* gen[s]: tokens issued in the family
    rows,     \* rows[s]: tokens of the family that have a row
    consumed, \* consumed[s]: CONSUMED_AT is set
    revoked,  \* revoked[s]: REVOKED_AT is set
    expired,  \* expired[s]: EXPIRES_AT has passed
    device,   \* device[d]: USR_SEQ and SESSION_SID of the registration
    web,      \* web[b]: the account, the JWT and the log row of a browser
    req,      \* req[r]: the request in flight
    push,     \* the item a push worker delivers
    faults,   \* faults so far
    global,   \* global[s]: global logouts that a proof of s has authorized
    swept     \* sessions ended by a logout everywhere that reported success

families == <<owner, gen, rows, consumed, revoked, expired>>
history == <<global, swept>>
vars == <<status, families, device, web, req, push, faults, history>>

NoRow == [acct |-> None, sid |-> None]
NoWeb == [acct |-> None, jwt |-> FALSE, row |-> FALSE]
Request(step, a, p, k, d) ==
    [pc |-> step, acct |-> a, by |-> p, gen |-> k, dev |-> d, sids |-> {}, failed |-> FALSE]
Idle == Request("idle", None, None, 0, None)
Delivery(step, a, T, d, s, n) ==
    [pc |-> step, acct |-> a, targets |-> T, dev |-> d, sid |-> s, attempt |-> n, late |-> 0]
NoPush == Delivery("idle", None, {}, None, None, 0)

MaxSends == 3

Init ==
    /\ status = [a \in Accounts |-> "allowed"]
    /\ owner = [s \in Sids |-> None]
    /\ gen = [s \in Sids |-> 0]
    /\ rows = [s \in Sids |-> {}]
    /\ consumed = [s \in Sids |-> {}]
    /\ revoked = [s \in Sids |-> {}]
    /\ expired = [s \in Sids |-> {}]
    /\ device = [d \in Devices |-> NoRow]
    /\ web = [b \in Browsers |-> NoWeb]
    /\ req = [r \in Requests |-> Idle]
    /\ push = NoPush
    /\ faults = 0
    /\ global = [s \in Sids |-> 0]
    /\ swept = {}

-----------------------------------------------------------------------------
(* The session tables.                                                     *)

EnsureLoginAllowed(a) == status[a] = "allowed"

IsMobileSessionActive(s) == rows[s] \ (revoked[s] \union expired[s]) # {}

\* The unconsumed, unrevoked, unexpired rows that push scoping asks for.
LiveTokens(s) == rows[s] \ (consumed[s] \union revoked[s] \union expired[s])

SidsOf(a) == {s \in Sids : owner[s] = a}

\* Mutant: only the newest row of a family is revoked.
Revoke_Unconsumed(S) ==
    revoked' = [s \in Sids |-> IF s \in S THEN revoked[s] \union (rows[s] \ consumed[s]) ELSE revoked[s]]

\* UPDATE ... SET REVOKED_AT for the rows of the sessions S.
Revoke(S) == revoked' = [s \in Sids |-> IF s \in S THEN revoked[s] \union rows[s] ELSE revoked[s]]

DeleteLegacySessionsByUser(a) ==
    web' = [b \in Browsers |-> IF web[b].acct = a THEN [web[b] EXCEPT !.row = FALSE] ELSE web[b]]

DeletePushDevicesByUser(a) ==
    device' = [d \in Devices |-> IF device[d].acct = a THEN NoRow ELSE device[d]]

\* Mutant: the account alone decides.
UnregisterScoped_AnySession(a, s, d) ==
    device' = [device EXCEPT ![d] = IF @.acct = a THEN NoRow ELSE @]

\* The registration of the device goes if it is the account's and bound to the session or to none.
UnregisterScoped(a, s, d) ==
    device' = [device EXCEPT ![d] = IF @.acct = a /\ @.sid \in {s, None} THEN NoRow ELSE @]

Fault == faults < MaxFaults /\ faults' = faults + 1

Finish(r) == req' = [req EXCEPT ![r] = Idle]

Begin(r, pc, a, p) ==
    /\ req[r].pc = "idle"
    /\ req' = [req EXCEPT ![r] = Request(pc, a, p, 0, None)]

-----------------------------------------------------------------------------
(* Signing in and renewing.                                                *)

\* MobileLogin, social login: the member is read and found eligible.
Authenticate(r, a) ==
    /\ EnsureLoginAllowed(a)
    /\ Begin(r, "issue", a, None)
    /\ UNCHANGED <<status, families, device, web, push, faults, history>>

InsertMobileRefreshToken(r, s) ==
    /\ req[r].pc = "issue"
    /\ owner[s] = None
    /\ owner' = [owner EXCEPT ![s] = req[r].acct]
    /\ gen' = [gen EXCEPT ![s] = 1]
    /\ rows' = [rows EXCEPT ![s] = {1}]
    /\ Finish(r)
    /\ UNCHANGED <<status, consumed, revoked, expired, device, web, push, faults, history>>

\* Rotate: the signed token is valid, the member is read.
RefreshRequest(r, s, k) ==
    /\ k \in 1 .. gen[s] /\ k < MaxGen
    /\ k \notin expired[s]
    /\ req[r].pc = "idle"
    /\ req' = [req EXCEPT ![r] =
                  Request(IF EnsureLoginAllowed(owner[s]) THEN "rotate" ELSE "refuse", owner[s], s, k, None)]
    /\ UNCHANGED <<status, families, device, web, push, faults, history>>

\* The member may not log in: the session is revoked on the way out.
RefuseRefresh(r) ==
    /\ req[r].pc = "refuse"
    /\ \/ Revoke({req[r].by}) /\ UNCHANGED faults
       \/ Fault /\ UNCHANGED revoked
    /\ Finish(r)
    /\ UNCHANGED <<status, owner, gen, rows, consumed, expired, device, web, push, history>>

\* The transaction of a rotation: an unknown token changes nothing, one of the accepted tokens is
\* exchanged, any other is a replay and ends the session.
ExchangeToken(r, accepted) ==
    LET s == req[r].by
        k == req[r].gen
    IN /\ req[r].pc = "rotate"
       /\ \/ /\ k \notin rows[s]
             /\ UNCHANGED <<gen, rows, consumed, revoked>>
          \/ /\ k \in rows[s] \ accepted
             /\ Revoke({s})
             /\ UNCHANGED <<gen, rows, consumed>>
          \/ /\ k \in accepted
             /\ consumed' = [consumed EXCEPT ![s] = @ \union {k}]
             /\ gen' = [gen EXCEPT ![s] = @ + 1]
             /\ rows' = [rows EXCEPT ![s] = @ \union {gen[s] + 1}]
             /\ UNCHANGED revoked
       /\ Finish(r)
       /\ UNCHANGED <<status, owner, expired, device, web, push, faults, history>>

\* Mutant: a consumed token is exchanged again.
RotateMobileRefreshToken_Replay(r) ==
    ExchangeToken(r, rows[req[r].by] \ (revoked[req[r].by] \union expired[req[r].by]))

\* Mutant: a revoked token is exchanged.
RotateMobileRefreshToken_Revoked(r) ==
    ExchangeToken(r, rows[req[r].by] \ (consumed[req[r].by] \union expired[req[r].by]))

RotateMobileRefreshToken(r) == ExchangeToken(r, LiveTokens(req[r].by))

\* LoginWithBridge, after the member was read: the cookies of a web login.
WebLoginRequest(r, a, b) ==
    /\ EnsureLoginAllowed(a)
    /\ Begin(r, "bridge", a, b)
    /\ UNCHANGED <<status, families, device, web, push, faults, history>>

LoginWithBridge(r) ==
    LET b == req[r].by
    IN /\ req[r].pc = "bridge"
       /\ web' = [web EXCEPT ![b] = [acct |-> req[r].acct, jwt |-> TRUE, row |-> TRUE]]
       /\ Finish(r)
       /\ UNCHANGED <<status, families, device, push, faults, history>>

-----------------------------------------------------------------------------
(* Authenticated requests.  The middleware resolves the caller, the        *)
(* handler runs in later steps.                                            *)

Principals == Sids \union Browsers

AccountOf(p) == IF p \in Sids THEN owner[p] ELSE web[p].acct

ResolveAuthUser(p) ==
    /\ AccountOf(p) # None
    /\ EnsureLoginAllowed(AccountOf(p))
    /\ IF p \in Sids THEN IsMobileSessionActive(p) ELSE web[p].jwt \/ web[p].row

AuthenticatedRequest(r, p, op) ==
    /\ ResolveAuthUser(p)
    /\ Begin(r, op, AccountOf(p), p)
    /\ UNCHANGED <<status, families, device, web, push, faults, history>>

DeviceRequest(r, p, op, d) ==
    /\ ResolveAuthUser(p)
    /\ req[r].pc = "idle"
    /\ req' = [req EXCEPT ![r] = Request(op, AccountOf(p), p, 0, d)]
    /\ UNCHANGED <<status, families, device, web, push, faults, history>>

\* LogoutCurrent: the session of the app, or the row and the cookies of the browser.
LogoutCurrent(r) ==
    LET p == req[r].by
    IN /\ req[r].pc = "logout"
       /\ \/ p \in Sids /\ Revoke({p}) /\ UNCHANGED web
          \/ p \in Browsers /\ web' = [web EXCEPT ![p] = NoWeb] /\ UNCHANGED revoked
       /\ Finish(r)
       /\ UNCHANGED <<status, owner, gen, rows, consumed, expired, device, push, faults, history>>

\* RevokeSessions is three statements; one that fails does not stop the next.
RevokeSessionsLegacy(r) ==
    /\ req[r].pc = "logoutall"
    /\ \/ /\ DeleteLegacySessionsByUser(req[r].acct)
          /\ req' = [req EXCEPT ![r].pc = "revoke"]
          /\ UNCHANGED faults
       \/ /\ Fault
          /\ req' = [req EXCEPT ![r].pc = "revoke", ![r].failed = TRUE]
          /\ UNCHANGED web
    /\ UNCHANGED <<status, families, device, push, history>>

RevokeAllMobileSessions(r) ==
    LET S == SidsOf(req[r].acct)
    IN /\ req[r].pc = "revoke"
       /\ \/ /\ Revoke(S)
             /\ req' = [req EXCEPT ![r].pc = "devices", ![r].sids = S]
             /\ UNCHANGED faults
          \/ /\ Fault
             /\ req' = [req EXCEPT ![r].pc = "devices", ![r].failed = TRUE]
             /\ UNCHANGED revoked
       /\ UNCHANGED <<status, owner, gen, rows, consumed, expired, device, web, push, history>>

RevokeSessionsDevices(r) ==
    /\ req[r].pc = "devices"
    /\ \/ /\ DeletePushDevicesByUser(req[r].acct)
          /\ swept' = IF req[r].failed THEN swept ELSE swept \union req[r].sids
          /\ UNCHANGED faults
       \/ Fault /\ UNCHANGED <<device, swept>>
    \* LogoutAll clears the cookies of the browser that asked.
    /\ web' = IF req[r].by \in Browsers THEN [web EXCEPT ![req[r].by] = NoWeb] ELSE web
    /\ Finish(r)
    /\ UNCHANGED <<status, families, push, global>>

-----------------------------------------------------------------------------
(* Ended-session proofs: a retained refresh token, used without a session. *)

\* The row of the proof exists and has not expired.
ProofAccepted(s, k) == k \in rows[s] /\ k \notin expired[s]

\* DeferredLogout, with the device token of the ended session or none.
RevokeMobileSessionByProof(s, k, d) ==
    /\ ProofAccepted(s, k)
    /\ IF k \in revoked[s] THEN UNCHANGED revoked ELSE Revoke({s})
    /\ IF d = None THEN UNCHANGED device ELSE UnregisterScoped(owner[s], s, d)
    /\ UNCHANGED <<status, owner, gen, rows, consumed, expired, web, req, push, faults, history>>

\* One transaction for the whole account of the proof.
EndAccountSessions(s) ==
    /\ Revoke(SidsOf(owner[s]))
    /\ DeleteLegacySessionsByUser(owner[s])
    /\ DeletePushDevicesByUser(owner[s])
    /\ global' = [global EXCEPT ![s] = @ + 1]
    /\ swept' = swept \union SidsOf(owner[s])
    /\ UNCHANGED <<status, owner, gen, rows, consumed, expired, req, push, faults>>

\* Mutant: a proof that was revoked is good enough.
RevokeAllSessionsByProof_Replay(s, k) == ProofAccepted(s, k) /\ EndAccountSessions(s)

\* DeferredLogoutAll: a revoked proof is refused, so that a repeated call cannot end a later login.
RevokeAllSessionsByProof(s, k) ==
    /\ ProofAccepted(s, k)
    /\ k \notin revoked[s]
    /\ EndAccountSessions(s)

-----------------------------------------------------------------------------
(* Push registrations.                                                     *)

\* registerSessionDevice: a live candidate is read without a lock ...
RegisterCandidate(r) ==
    /\ req[r].pc = "register"
    /\ req[r].by \in Sids
    /\ \/ \E k \in LiveTokens(req[r].by) :
             req' = [req EXCEPT ![r].pc = "lock", ![r].gen = k]
       \/ LiveTokens(req[r].by) = {} /\ Finish(r)
    /\ UNCHANGED <<status, families, device, web, push, faults, history>>

BindDevice(r) ==
    [device EXCEPT ![req[r].dev] = [acct |-> req[r].acct, sid |-> req[r].by]]

\* Mutant: the candidate is not read again.
RegisterSessionDevice_Unlocked(r) ==
    /\ req[r].pc = "lock"
    /\ device' = BindDevice(r)
    /\ Finish(r)
    /\ UNCHANGED <<status, families, web, push, faults, history>>

\* ... and must still be live under its lock when the row is written.
RegisterSessionDevice(r) ==
    /\ req[r].pc = "lock"
    /\ device' = IF req[r].gen \in LiveTokens(req[r].by) THEN BindDevice(r) ELSE device
    /\ Finish(r)
    /\ UNCHANGED <<status, families, web, push, faults, history>>

\* A registration from a browser has no session: it never replaces a bound one.
RegisterLegacyDevice(r) ==
    /\ req[r].pc = "register"
    /\ req[r].by \in Browsers
    /\ device' = [device EXCEPT ![req[r].dev] =
                     IF @.sid = None THEN [acct |-> req[r].acct, sid |-> None] ELSE @]
    /\ Finish(r)
    /\ UNCHANGED <<status, families, web, push, faults, history>>

UnregisterDevice(r) ==
    /\ req[r].pc = "unregister"
    /\ UnregisterScoped(req[r].acct, IF req[r].by \in Sids THEN req[r].by ELSE None, req[r].dev)
    /\ Finish(r)
    /\ UNCHANGED <<status, families, web, push, faults, history>>

-----------------------------------------------------------------------------
(* The push worker.                                                        *)

DeliveryTargetStillCurrent(a, d, s) == device[d] = [acct |-> a, sid |-> s] /\ LiveTokens(s) # {}

ListDevices(a) ==
    /\ push.pc = "idle"
    /\ LET T == {t \in Devices \X Sids : DeliveryTargetStillCurrent(a, t[1], t[2])}
       IN push' = Delivery("next", a, T, None, None, 0)
    /\ UNCHANGED <<status, families, device, web, req, faults, history>>

NextTarget ==
    /\ push.pc = "next"
    /\ \/ push.targets = {} /\ push' = NoPush
       \/ \E t \in push.targets :
             push' = Delivery("check", push.acct, push.targets \ {t}, t[1], t[2], 1)
    /\ UNCHANGED <<status, families, device, web, req, faults, history>>

\* Mutant: the target is checked before the first attempt only.
CheckTarget_Once ==
    /\ push.pc = "check"
    /\ push' = [push EXCEPT !.pc = IF \/ push.attempt > 1
                                      \/ DeliveryTargetStillCurrent(push.acct, push.dev, push.sid)
                                   THEN "send" ELSE "next"]
    /\ UNCHANGED <<status, families, device, web, req, faults, history>>

\* Before every attempt: the message is still there, the target is still current.
CheckTarget ==
    /\ push.pc = "check"
    /\ \/ push' = NoPush
       \/ push' = [push EXCEPT !.pc = IF DeliveryTargetStillCurrent(push.acct, push.dev, push.sid)
                                      THEN "send" ELSE "next"]
    /\ UNCHANGED <<status, families, device, web, req, faults, history>>

\* late counts the sends of this target that came after the end of its session.
Sent == push.late + (IF LiveTokens(push.sid) = {} THEN 1 ELSE 0)

SendDone ==
    /\ push.pc = "send"
    /\ push' = [push EXCEPT !.pc = "next", !.late = Sent]
    /\ UNCHANGED <<status, families, device, web, req, faults, history>>

SendTransient ==
    /\ push.pc = "send"
    /\ push' = IF push.attempt < MaxSends
               THEN [push EXCEPT !.pc = "check", !.attempt = @ + 1, !.late = Sent]
               ELSE [push EXCEPT !.pc = "next", !.late = Sent]
    /\ UNCHANGED <<status, families, device, web, req, faults, history>>

SendInvalid ==
    /\ push.pc = "send"
    /\ push' = [push EXCEPT !.pc = "delete", !.late = Sent]
    /\ UNCHANGED <<status, families, device, web, req, faults, history>>

DeleteDeliveryTarget ==
    /\ push.pc = "delete"
    /\ device' = [device EXCEPT ![push.dev] =
                     IF @ = [acct |-> push.acct, sid |-> push.sid] THEN NoRow ELSE @]
    /\ push' = [push EXCEPT !.pc = "next"]
    /\ UNCHANGED <<status, families, web, req, faults, history>>

-----------------------------------------------------------------------------
(* The rest of the system, as the sessions see it.                         *)

\* The deletion request of the member (or of an operator, by = None) disables the account, then logs it out.
OperatorWithdraws(r, a) ==
    /\ Begin(r, "withdraw", a, None)
    /\ UNCHANGED <<status, families, device, web, push, faults, history>>

CreateDeletionRequest(r) ==
    LET a == req[r].acct
    IN /\ req[r].pc = "withdraw"
       /\ \/ /\ status[a] \in {"allowed", "suspended"}
             /\ status' = [status EXCEPT ![a] = IF @ = "allowed" THEN "withdrawn" ELSE "barred"]
             /\ req' = [req EXCEPT ![r].pc = "logoutall"]
          \/ /\ status[a] \notin {"allowed", "suspended"}
             /\ Finish(r)
             /\ UNCHANGED status
          \* The same receipt again: answered like the first time, the logout included.
          \/ /\ status[a] \in {"withdrawn", "barred"} /\ req[r].by # None
             /\ req' = [req EXCEPT ![r].pc = "logoutall"]
             /\ UNCHANGED status
       /\ UNCHANGED <<families, device, web, push, faults, history>>

\* The erasure job: the member and every table that refers to it, in one transaction.
EraseDatabase(a) ==
    /\ status[a] \in {"withdrawn", "barred"}
    /\ status' = [status EXCEPT ![a] = "erased"]
    /\ rows' = [s \in Sids |-> IF owner[s] = a THEN {} ELSE rows[s]]
    /\ consumed' = [s \in Sids |-> IF owner[s] = a THEN {} ELSE consumed[s]]
    /\ revoked' = [s \in Sids |-> IF owner[s] = a THEN {} ELSE revoked[s]]
    /\ DeleteLegacySessionsByUser(a)
    /\ DeletePushDevicesByUser(a)
    /\ UNCHANGED <<owner, gen, expired, req, push, faults, history>>

CancelDeletion(a) ==
    /\ status[a] = "withdrawn"
    /\ status' = [status EXCEPT ![a] = "allowed"]
    /\ UNCHANGED <<families, device, web, req, push, faults, history>>

AdminUpdatesStatus(a) ==
    /\ \/ status[a] = "allowed" /\ status' = [status EXCEPT ![a] = "suspended"]
       \/ status[a] = "suspended" /\ status' = [status EXCEPT ![a] = "allowed"]
    /\ UNCHANGED <<families, device, web, req, push, faults, history>>

ConfirmResetAtomically(a) ==
    /\ Revoke(SidsOf(a))
    /\ UNCHANGED <<status, owner, gen, rows, consumed, expired, device, web, req, push, faults, history>>

\* Apple's consent-revoked notification: two statements, the first one's error ends it.
AppleConsentRevoked(r, a) ==
    /\ Begin(r, "apple", a, None)
    /\ Revoke(SidsOf(a))
    /\ UNCHANGED <<status, owner, gen, rows, consumed, expired, device, web, push, faults, history>>

AppleConsentRevokedLegacy(r) ==
    /\ req[r].pc = "apple"
    /\ DeleteLegacySessionsByUser(req[r].acct)
    /\ Finish(r)
    /\ UNCHANGED <<status, families, device, push, faults, history>>

TokenExpires(s, k) ==
    /\ k \in 1 .. gen[s]
    /\ 1 .. (k - 1) \subseteq expired[s]
    /\ expired' = [expired EXCEPT ![s] = @ \union {k}]
    /\ UNCHANGED <<status, owner, gen, rows, consumed, revoked, device, web, req, push, faults, history>>

DeleteExpiredMobileRefreshTokens(s, k) ==
    /\ k \in rows[s] \intersect (expired[s] \union revoked[s])
    /\ rows' = [rows EXCEPT ![s] = @ \ {k}]
    /\ consumed' = [consumed EXCEPT ![s] = @ \ {k}]
    /\ revoked' = [revoked EXCEPT ![s] = @ \ {k}]
    /\ UNCHANGED <<status, owner, gen, expired, device, web, req, push, faults, history>>

\* The JWT and the row of a web login are both good for a day.
WebSessionExpires(b) ==
    /\ web' = [web EXCEPT ![b] = NoWeb]
    /\ UNCHANGED <<status, families, device, req, push, faults, history>>

Crash ==
    /\ Fault
    /\ req' = [r \in Requests |-> Idle]
    /\ push' = NoPush
    /\ UNCHANGED <<status, families, device, web, history>>

RequestStep(r) ==
    \/ \E s \in Sids : InsertMobileRefreshToken(r, s)
    \/ RefuseRefresh(r) \/ RotateMobileRefreshToken(r) \/ LoginWithBridge(r)
    \/ LogoutCurrent(r)
    \/ RevokeSessionsLegacy(r) \/ RevokeAllMobileSessions(r) \/ RevokeSessionsDevices(r)
    \/ RegisterCandidate(r) \/ RegisterSessionDevice(r) \/ RegisterLegacyDevice(r) \/ UnregisterDevice(r)
    \/ CreateDeletionRequest(r) \/ AppleConsentRevokedLegacy(r)

RequestArrives(r) ==
    \/ \E a \in Accounts :
          \/ Authenticate(r, a)
          \/ "withdraw" \in Workload /\ OperatorWithdraws(r, a)
          \/ "apple" \in Workload /\ AppleConsentRevoked(r, a)
          \/ \E b \in Browsers : WebLoginRequest(r, a, b)
    \/ "refresh" \in Workload /\ \E s \in Sids, k \in 1 .. MaxGen : RefreshRequest(r, s, k)
    \/ \E p \in Principals :
          \/ \E op \in {"logout", "logoutall", "withdraw"} \intersect Workload : AuthenticatedRequest(r, p, op)
          \/ \E op \in {"register", "unregister"}, d \in Devices : DeviceRequest(r, p, op, d)

ProofArrives ==
    /\ "proof" \in Workload
    /\ \E s \in Sids, k \in 1 .. MaxGen :
          \/ \E d \in Devices \union {None} : RevokeMobileSessionByProof(s, k, d)
          \/ RevokeAllSessionsByProof(s, k)

PushStep ==
    \/ "push" \in Workload /\ \E a \in Accounts : ListDevices(a)
    \/ NextTarget \/ CheckTarget \/ SendDone \/ SendTransient \/ SendInvalid \/ DeleteDeliveryTarget

Environment ==
    \/ \E a \in Accounts :
          \/ CancelDeletion(a)
          \/ EraseDatabase(a)
          \/ "suspend" \in Workload /\ AdminUpdatesStatus(a)
          \/ "reset" \in Workload /\ ConfirmResetAtomically(a)
    \/ \E s \in Sids, k \in 1 .. MaxGen :
          \/ "expiry" \in Workload /\ TokenExpires(s, k)
          \/ DeleteExpiredMobileRefreshTokens(s, k)
    \/ \E b \in Browsers : WebSessionExpires(b)
    \/ Crash

Next ==
    \/ \E r \in Requests : RequestStep(r) \/ RequestArrives(r)
    \/ ProofArrives
    \/ PushStep
    \/ Environment

Spec == Init /\ [][Next]_vars

-----------------------------------------------------------------------------
(* Properties.                                                             *)

Steps == {"idle", "issue", "rotate", "refuse", "bridge", "logout", "logoutall", "revoke", "devices",
          "register", "lock", "unregister", "withdraw", "apple"}

\* Every variable has its type.
TypeOK ==
    /\ status \in [Accounts -> {"allowed", "suspended", "withdrawn", "barred", "erased"}]
    /\ owner \in [Sids -> Accounts \union {None}]
    /\ gen \in [Sids -> 0 .. MaxGen]
    /\ rows \in [Sids -> SUBSET (1 .. MaxGen)]
    /\ consumed \in [Sids -> SUBSET (1 .. MaxGen)]
    /\ revoked \in [Sids -> SUBSET (1 .. MaxGen)]
    /\ expired \in [Sids -> SUBSET (1 .. MaxGen)]
    /\ device \in [Devices -> [acct : Accounts \union {None}, sid : Sids \union {None}]]
    /\ web \in [Browsers -> [acct : Accounts \union {None}, jwt : BOOLEAN, row : BOOLEAN]]
    /\ req \in [Requests -> [pc : Steps, acct : Accounts \union {None},
                             by : Principals \union {None}, gen : 0 .. MaxGen,
                             dev : Devices \union {None}, sids : SUBSET Sids, failed : BOOLEAN]]
    /\ push \in [pc : {"idle", "next", "check", "send", "delete"}, acct : Accounts \union {None},
                 targets : SUBSET (Devices \X Sids), dev : Devices \union {None},
                 sid : Sids \union {None}, attempt : 0 .. MaxSends, late : 0 .. MaxSends]
    /\ faults \in 0 .. MaxFaults
    /\ global \in [Sids -> Nat]
    /\ swept \subseteq Sids

\* The refresh chain of a session never forks, whatever refreshes race or repeat: at most one of
\* its tokens can still be exchanged (RotateMobileRefreshToken).
OneLiveToken == \A s \in Sids : \A j, k \in LiveTokens(s) : j = k

\* The middleware accepts an access token only while the session can still be renewed: the consumed
\* rows that IsMobileSessionActive counts never outlive the live one, through rotation, replay,
\* expiry, revocation and the purge of old rows.
ActiveMeansRefreshable == \A s \in Sids : IsMobileSessionActive(s) => LiveTokens(s) # {}

\* A proof ends everything at most once, so that a repeated or late global logout never ends a
\* later login (revokeSessionsByProof: "Global replay is unauthorized").
GlobalLogoutOnce == \A s \in Sids : global[s] <= 1

\* After a logout everywhere that reported success no registration of the sessions it ended is left
\* or comes back, whatever registration was already past the middleware (registerSessionDevice:
\* "an auth-inflight registration cannot resurrect ended SID").
SweptDevicesStayGone == \A d \in Devices : device[d].sid \notin swept

\* A push is sent to an ended session at most once per item: only the attempt that had already
\* passed its check, none of the retries (deliver, DeliveryTargetStillCurrent).
OneLateSend == push.late <= 1

Reachable(d) == device[d].sid # None /\ LiveTokens(device[d].sid) # {}

\* A device bound to a live session stays reachable until its own session ends or unregisters it,
\* the provider disowns that very registration, its account logs out everywhere, or a live session
\* takes it over: delayed work of an older session, a browser or another account cannot remove it.
ReachableUntilReleased ==
    [][\A d \in Devices, s \in Sids : device[d].sid = s /\ Reachable(d) /\ ~Reachable(d)' =>
          \/ LiveTokens(s)' = {}
          \/ \E r \in Requests :
                /\ req[r].acct = device[d].acct
                /\ req[r].pc = "devices" \/ (req[r].pc = "unregister" /\ req[r].by = s)
          \/ push.pc = "delete" /\ push.dev = d /\ push.sid = s]_vars

life == [s \in Sids |->
            IF gen[s] = 0 THEN "none" ELSE IF IsMobileSessionActive(s) THEN "open" ELSE "closed"]

Lifecycle == INSTANCE SessionLifecycle

\* A session that was logged out, replayed, reset, expired or purged is never accepted again: the
\* refresh token table implements SessionLifecycle.
ImplementsLifecycle == Lifecycle!Spec
=============================================================================
