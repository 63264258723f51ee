------------------------ MODULE MobileSessionsProofs ------------------------
(***************************************************************************)
(* Proofs about MobileSessions, for any number of members, sessions,       *)
(* tokens, devices, browsers, requests and faults.                         *)
(*                                                                         *)
(* The inductive invariant is TypeOK and five parts.                       *)
(*   - ChainInv: only the newest token of a family can be unconsumed, a    *)
(*     family is revoked as a whole or not at all, tokens expire in order, *)
(*     and the newest row only goes once it has expired or was revoked.    *)
(*   - EndedInv: a session that a global logout or a sweep has ended is    *)
(*     dead: it was opened and all of its rows are revoked.                *)
(*   - RequestInv: a request of a session acts for the owner of it; what a *)
(*     logout everywhere is about to sweep is dead already.                *)
(*   - DeviceInv: a bound registration belongs to the owner of its session *)
(*     and the session was not swept.                                      *)
(*   - PushInv: the push worker works on sessions that were opened, and a  *)
(*     late send is only on record for a session without live tokens.      *)
(*                                                                         *)
(* Of the many actions only a few kinds of step touch a family             *)
(* (FamilyStep); what every kind preserves is proved once.                 *)
(***************************************************************************)
EXTENDS MobileSessions, TLAPS

Dead(s) == owner[s] # None /\ rows[s] = revoked[s]

ChainOK(s) ==
    /\ consumed[s] \subseteq rows[s]
    /\ revoked[s] \subseteq rows[s]
    /\ rows[s] \subseteq 1 .. gen[s]
    /\ expired[s] \subseteq 1 .. gen[s]
    /\ rows[s] \ consumed[s] \subseteq {gen[s]}
    /\ gen[s] \notin consumed[s]
    /\ revoked[s] = {} \/ revoked[s] = rows[s]
    /\ \A k \in expired[s] : \A j \in 1 .. k : j \in expired[s]
    /\ gen[s] \in rows[s] \/ gen[s] \in expired[s] \/ revoked[s] = rows[s]
    /\ owner[s] = None <=> gen[s] = 0

ChainInv == \A s \in Sids : ChainOK(s)

EndedInv ==
    /\ \A s \in Sids : global[s] = 0 \/ (global[s] = 1 /\ Dead(s))
    /\ \A s \in swept : Dead(s)

DeadSids == {s \in Sids : Dead(s)}

RequestOK(q, o, dead) ==
    /\ q.by \in Sids => o[q.by] # None /\ q.acct = o[q.by]
    /\ q.pc \in {"rotate", "refuse", "lock"} => q.by \in Sids
    /\ q.pc = "rotate" => q.gen < MaxGen
    /\ q.pc # "idle" => q.acct # None
    /\ \A s \in q.sids : s \in dead /\ o[s] = q.acct

RequestInv == \A r \in Requests : RequestOK(req[r], owner, DeadSids)

DeviceInv ==
    \A d \in Devices : device[d].sid # None =>
        /\ owner[device[d].sid] # None
        /\ device[d].acct = owner[device[d].sid]
        /\ device[d].sid \notin swept

PushInv ==
    /\ \A t \in push.targets : owner[t[2]] # None
    /\ push.pc \in {"check", "send", "delete"} => push.sid \in Sids
    /\ push.sid \in Sids => owner[push.sid] # None
    /\ push.late = 0 \/ (push.late = 1 /\ push.sid \in Sids /\ LiveTokens(push.sid) = {} /\ push.pc # "send")

IInv == TypeOK /\ ChainInv /\ EndedInv /\ RequestInv /\ DeviceInv /\ PushInv
-----------------------------------------------------------------------------
(* The families.                                                           *)

FamilyStep ==
    \/ UNCHANGED families
    \/ \E r \in Requests, s \in Sids : InsertMobileRefreshToken(r, s)
    \/ \E S \in SUBSET Sids : Revoke(S) /\ UNCHANGED <<owner, gen, rows, consumed, expired>>
    \/ \E r \in Requests : RotateMobileRefreshToken(r)
    \/ \E s \in Sids, k \in 1 .. MaxGen : TokenExpires(s, k)
    \/ \E s \in Sids, k \in 1 .. MaxGen : DeleteExpiredMobileRefreshTokens(s, k)
    \/ \E a \in Accounts : EraseDatabase(a)

\* Every step is one of the kinds that FamilyStep lists.
LEMMA FamilySteps == TypeOK /\ RequestInv /\ [Next]_vars => FamilyStep
<1> SUFFICES ASSUME TypeOK, RequestInv, [Next]_vars PROVE FamilyStep
  OBVIOUS
<1>1. ASSUME NEW r \in Requests, RequestStep(r) PROVE FamilyStep
  <2>1. ASSUME RefuseRefresh(r) PROVE FamilyStep
    <3>1. {req[r].by} \in SUBSET Sids
      BY <2>1 DEF RefuseRefresh, RequestInv, RequestOK
    <3> QED BY <2>1, <3>1 DEF RefuseRefresh, FamilyStep, families
  <2>2. ASSUME LogoutCurrent(r) PROVE FamilyStep
    <3>1. CASE req[r].by \in Sids /\ Revoke({req[r].by})
      <4>1. {req[r].by} \in SUBSET Sids
        BY <3>1
      <4> QED BY <2>2, <3>1, <4>1 DEF LogoutCurrent, FamilyStep
    <3>2. CASE UNCHANGED revoked
      BY <2>2, <3>2 DEF LogoutCurrent, FamilyStep, families
    <3> QED BY <2>2, <3>1, <3>2 DEF LogoutCurrent
  <2>3. ASSUME RevokeAllMobileSessions(r) PROVE FamilyStep
    <3>1. SidsOf(req[r].acct) \in SUBSET Sids
      BY DEF SidsOf
    <3> QED BY <2>3, <3>1 DEF RevokeAllMobileSessions, FamilyStep, families
  <2>4. ASSUME \/ LoginWithBridge(r) \/ RevokeSessionsLegacy(r) \/ RevokeSessionsDevices(r)
               \/ RegisterCandidate(r) \/ RegisterSessionDevice(r) \/ RegisterLegacyDevice(r)
               \/ UnregisterDevice(r) \/ CreateDeletionRequest(r) \/ AppleConsentRevokedLegacy(r)
        PROVE FamilyStep
    BY <2>4 DEF FamilyStep, LoginWithBridge, RevokeSessionsLegacy, RevokeSessionsDevices,
         RegisterCandidate, RegisterSessionDevice, RegisterLegacyDevice,
         UnregisterDevice, CreateDeletionRequest, AppleConsentRevokedLegacy
  <2> QED
    BY <1>1, <2>1, <2>2, <2>3, <2>4 DEF RequestStep, FamilyStep
<1>2. ASSUME NEW r \in Requests, RequestArrives(r) PROVE FamilyStep
  <2>1. ASSUME NEW a \in Accounts, AppleConsentRevoked(r, a) PROVE FamilyStep
    <3>1. SidsOf(a) \in SUBSET Sids
      BY DEF SidsOf
    <3> QED BY <2>1, <3>1 DEF AppleConsentRevoked, FamilyStep
  <2> QED
    BY <1>2, <2>1 DEF RequestArrives, FamilyStep, Authenticate, OperatorWithdraws, WebLoginRequest,
         RefreshRequest, AuthenticatedRequest, DeviceRequest
<1>3. ASSUME ProofArrives PROVE FamilyStep
  <2>1. ASSUME NEW s \in Sids, NEW k \in 1 .. MaxGen, NEW d, RevokeMobileSessionByProof(s, k, d) PROVE FamilyStep
    <3>1. {s} \in SUBSET Sids
      OBVIOUS
    <3> QED BY <2>1, <3>1 DEF RevokeMobileSessionByProof, FamilyStep, families
  <2>2. ASSUME NEW s \in Sids, NEW k \in 1 .. MaxGen, RevokeAllSessionsByProof(s, k) PROVE FamilyStep
    <3>1. SidsOf(owner[s]) \in SUBSET Sids
      BY DEF SidsOf
    <3> QED BY <2>2, <3>1 DEF RevokeAllSessionsByProof, EndAccountSessions, FamilyStep
  <2> QED
    BY <1>3, <2>1, <2>2 DEF ProofArrives
<1>4. ASSUME PushStep PROVE FamilyStep
  BY <1>4 DEF PushStep, FamilyStep, ListDevices, NextTarget, CheckTarget, SendDone, SendTransient, SendInvalid,
       DeleteDeliveryTarget
<1>5. ASSUME Environment PROVE FamilyStep
  <2>1. ASSUME NEW a \in Accounts, ConfirmResetAtomically(a) PROVE FamilyStep
    <3>1. SidsOf(a) \in SUBSET Sids
      BY DEF SidsOf
    <3> QED BY <2>1, <3>1 DEF ConfirmResetAtomically, FamilyStep
  <2> QED
    BY <1>5, <2>1 DEF Environment, FamilyStep, CancelDeletion, AdminUpdatesStatus, WebSessionExpires, Crash
<1> QED
  BY <1>1, <1>2, <1>3, <1>4, <1>5 DEF Next, vars, FamilyStep

\* The families keep their types and their shape, whatever kind of step is taken.
LEMMA ChainStep ==
    ASSUME TypeOK, ChainInv, RequestInv, FamilyStep
    PROVE  /\ owner' \in [Sids -> Accounts \union {None}]
           /\ gen' \in [Sids -> 0 .. MaxGen]
           /\ rows' \in [Sids -> SUBSET (1 .. MaxGen)]
           /\ consumed' \in [Sids -> SUBSET (1 .. MaxGen)]
           /\ revoked' \in [Sids -> SUBSET (1 .. MaxGen)]
           /\ expired' \in [Sids -> SUBSET (1 .. MaxGen)]
           /\ ChainInv'
<1> DEFINE FamilyType ==
              /\ owner \in [Sids -> Accounts \union {None}]
              /\ gen \in [Sids -> 0 .. MaxGen]
              /\ rows \in [Sids -> SUBSET (1 .. MaxGen)]
              /\ consumed \in [Sids -> SUBSET (1 .. MaxGen)]
              /\ revoked \in [Sids -> SUBSET (1 .. MaxGen)]
              /\ expired \in [Sids -> SUBSET (1 .. MaxGen)]
<1>0. FamilyType /\ MaxGen \in Nat \ {0}
  BY ConstantsAssumption DEF TypeOK
<1> SUFFICES FamilyType' /\ ChainInv'
  OBVIOUS
<1>1. CASE UNCHANGED families
  BY <1>1, <1>0 DEF families, ChainInv, ChainOK
<1>2. ASSUME NEW r \in Requests, NEW s \in Sids, InsertMobileRefreshToken(r, s) PROVE FamilyType' /\ ChainInv'
  <2>1. req[r].acct \in Accounts
    BY <1>2 DEF InsertMobileRefreshToken, RequestInv, RequestOK, TypeOK
  <2>2. FamilyType'
    BY <1>0, <1>2, <2>1 DEF InsertMobileRefreshToken
  <2>3. ASSUME NEW x \in Sids PROVE ChainOK(x)'
    <3>1. CASE x = s
      <4>1. gen[s] = 0 /\ rows[s] = {} /\ consumed[s] = {} /\ revoked[s] = {} /\ expired[s] = {}
        BY <1>0, <1>2 DEF InsertMobileRefreshToken, ChainInv, ChainOK
      <4> QED
        BY <1>0, <1>2, <2>1, <3>1, <4>1, ConstantsAssumption DEF InsertMobileRefreshToken, ChainOK
    <3>2. CASE x # s
      BY <1>0, <1>2, <3>2 DEF InsertMobileRefreshToken, ChainOK, ChainInv
    <3> QED BY <3>1, <3>2
  <2> QED BY <2>2, <2>3 DEF ChainInv
<1>3. ASSUME NEW S \in SUBSET Sids, Revoke(S), UNCHANGED <<owner, gen, rows, consumed, expired>>
      PROVE FamilyType' /\ ChainInv'
  <2>1. FamilyType'
    BY <1>0, <1>3 DEF Revoke
  <2>2. ASSUME NEW x \in Sids PROVE ChainOK(x)'
    <3>1. ChainOK(x)
      BY DEF ChainInv
    <3>2. revoked'[x] = rows[x] \/ revoked'[x] = revoked[x]
      BY <1>0, <1>3, <3>1 DEF Revoke, ChainOK
    <3> QED BY <1>3, <3>1, <3>2 DEF ChainOK
  <2> QED BY <2>1, <2>2 DEF ChainInv
<1>4. ASSUME NEW r \in Requests, RotateMobileRefreshToken(r) PROVE FamilyType' /\ ChainInv'
  <2> DEFINE s == req[r].by
             k == req[r].gen
  <2>0. s \in Sids /\ k \in 0 .. MaxGen /\ k < MaxGen /\ ChainOK(s)
    BY <1>4 DEF RotateMobileRefreshToken, ExchangeToken, RequestInv, RequestOK, ChainInv, TypeOK
  <2>1. CASE UNCHANGED <<gen, rows, consumed, revoked>>
    BY <1>0, <1>4, <2>1 DEF RotateMobileRefreshToken, ExchangeToken, ChainInv, ChainOK
  <2>2. CASE Revoke({s}) /\ UNCHANGED <<gen, rows, consumed>>
    <3>1. {s} \in SUBSET Sids /\ UNCHANGED <<owner, gen, rows, consumed, expired>>
      BY <1>4, <2>0, <2>2 DEF RotateMobileRefreshToken, ExchangeToken
    <3> QED BY <1>3, <2>2, <3>1
  <2>3. CASE /\ k \in LiveTokens(s)
             /\ consumed' = [consumed EXCEPT ![s] = @ \union {k}]
             /\ gen' = [gen EXCEPT ![s] = @ + 1]
             /\ rows' = [rows EXCEPT ![s] = @ \union {gen[s] + 1}]
             /\ UNCHANGED revoked
    <3>1. k = gen[s] /\ k \in 1 .. MaxGen /\ revoked[s] = {}
      BY <1>0, <2>0, <2>3 DEF LiveTokens, ChainOK
    <3>2. UNCHANGED <<owner, expired>>
      BY <1>4 DEF RotateMobileRefreshToken, ExchangeToken
    <3>3. FamilyType'
      BY <1>0, <2>0, <2>3, <3>1, <3>2
    <3>4. ASSUME NEW x \in Sids PROVE ChainOK(x)'
      <4>1. CASE x = s
        <5>1. /\ gen'[x] = k + 1 /\ rows'[x] = rows[x] \union {k + 1} /\ consumed'[x] = consumed[x] \union {k}
              /\ revoked'[x] = {} /\ expired'[x] = expired[x] /\ owner'[x] = owner[x]
          BY <1>0, <2>0, <2>3, <3>1, <3>2, <4>1
        <5>2. k \in Nat /\ k > 0 /\ gen[x] = k /\ revoked[x] = {} /\ k \in rows[x] /\ ChainOK(x)
          BY <2>0, <2>3, <3>1, <4>1 DEF LiveTokens
        <5> HIDE DEF k
        <5> QED BY <5>1, <5>2 DEF ChainOK
      <4>2. CASE x # s
        BY <1>0, <2>0, <2>3, <3>2, <4>2 DEF ChainOK, ChainInv
      <4> QED BY <4>1, <4>2
    <3> QED BY <3>3, <3>4 DEF ChainInv
  <2> QED
    BY <1>4, <2>1, <2>2, <2>3 DEF RotateMobileRefreshToken, ExchangeToken
<1>5. ASSUME NEW s \in Sids, NEW k \in 1 .. MaxGen, TokenExpires(s, k) PROVE FamilyType' /\ ChainInv'
  <2>1. FamilyType'
    BY <1>0, <1>5 DEF TokenExpires
  <2>2. ASSUME NEW x \in Sids PROVE ChainOK(x)'
    <3>1. CASE x = s
      BY <1>0, <1>5, <3>1 DEF TokenExpires, ChainInv, ChainOK
    <3>2. CASE x # s
      BY <1>0, <1>5, <3>2 DEF TokenExpires, ChainInv, ChainOK
    <3> QED BY <3>1, <3>2
  <2> QED BY <2>1, <2>2 DEF ChainInv
<1>6. ASSUME NEW s \in Sids, NEW k \in 1 .. MaxGen, DeleteExpiredMobileRefreshTokens(s, k)
      PROVE FamilyType' /\ ChainInv'
  <2>1. FamilyType'
    BY <1>0, <1>6 DEF DeleteExpiredMobileRefreshTokens
  <2>2. ASSUME NEW x \in Sids PROVE ChainOK(x)'
    <3>1. CASE x = s
      <4>1. ChainOK(s)
        BY DEF ChainInv
      <4>2. revoked[s] = rows[s] \/ k \in expired[s]
        BY <1>6, <4>1 DEF DeleteExpiredMobileRefreshTokens, ChainOK
      <4> QED
        BY <1>0, <1>6, <3>1, <4>1, <4>2 DEF DeleteExpiredMobileRefreshTokens, ChainOK
    <3>2. CASE x # s
      BY <1>0, <1>6, <3>2 DEF DeleteExpiredMobileRefreshTokens, ChainInv, ChainOK
    <3> QED BY <3>1, <3>2
  <2> QED BY <2>1, <2>2 DEF ChainInv
<1>7. ASSUME NEW a \in Accounts, EraseDatabase(a) PROVE FamilyType' /\ ChainInv'
  BY <1>0, <1>7 DEF EraseDatabase, ChainInv, ChainOK
<1> QED
  BY <1>1, <1>2, <1>3, <1>4, <1>5, <1>6, <1>7 DEF FamilyStep

\* An owner is forever, a dead session stays dead and one without live tokens gets none.
LEMMA Stable ==
    ASSUME TypeOK, ChainInv, RequestInv, FamilyStep, NEW x \in Sids, owner[x] # None
    PROVE  /\ owner'[x] = owner[x]
           /\ Dead(x) => Dead(x)'
           /\ LiveTokens(x) = {} => LiveTokens(x)' = {}
<1> USE DEF TypeOK, Dead, LiveTokens
<1>1. CASE UNCHANGED families
  BY <1>1 DEF families
<1>2. ASSUME NEW r \in Requests, NEW s \in Sids, InsertMobileRefreshToken(r, s)
      PROVE owner'[x] = owner[x] /\ UNCHANGED <<rows[x], consumed, revoked, expired>>
  BY <1>2 DEF InsertMobileRefreshToken
<1>3. ASSUME NEW S \in SUBSET Sids, Revoke(S), UNCHANGED <<owner, gen, rows, consumed, expired>>
      PROVE /\ owner'[x] = owner[x]
            /\ Dead(x) => Dead(x)'
            /\ LiveTokens(x) = {} => LiveTokens(x)' = {}
  BY <1>3 DEF Revoke
<1>4. ASSUME NEW r \in Requests, RotateMobileRefreshToken(r)
      PROVE /\ owner'[x] = owner[x]
            /\ Dead(x) => Dead(x)'
            /\ LiveTokens(x) = {} => LiveTokens(x)' = {}
  <2> DEFINE s == req[r].by
             k == req[r].gen
  <2>0. s \in Sids /\ UNCHANGED <<owner, expired>>
    BY <1>4 DEF RotateMobileRefreshToken, ExchangeToken, RequestInv, RequestOK
  <2>1. CASE UNCHANGED <<gen, rows, consumed, revoked>>
    BY <2>0, <2>1
  <2>2. CASE Revoke({s}) /\ UNCHANGED <<gen, rows, consumed>>
    <3>1. {s} \in SUBSET Sids
      BY <2>0
    <3> QED BY <1>3, <2>0, <2>2, <3>1
  <2>3. CASE /\ k \in LiveTokens(s)
             /\ consumed' = [consumed EXCEPT ![s] = @ \union {k}]
             /\ rows' = [rows EXCEPT ![s] = @ \union {gen[s] + 1}]
             /\ UNCHANGED revoked
    <3>1. CASE x = s
      BY <2>0, <2>3, <3>1
    <3>2. CASE x # s
      BY <2>0, <2>3, <3>2
    <3> QED BY <3>1, <3>2
  <2> QED
    BY <1>4, <2>1, <2>2, <2>3 DEF RotateMobileRefreshToken, ExchangeToken
<1>5. ASSUME NEW s \in Sids, NEW k \in 1 .. MaxGen, TokenExpires(s, k)
      PROVE /\ owner'[x] = owner[x]
            /\ Dead(x) => Dead(x)'
            /\ LiveTokens(x) = {} => LiveTokens(x)' = {}
  BY <1>5 DEF TokenExpires
<1>6. ASSUME NEW s \in Sids, NEW k \in 1 .. MaxGen, DeleteExpiredMobileRefreshTokens(s, k)
      PROVE /\ owner'[x] = owner[x]
            /\ Dead(x) => Dead(x)'
            /\ LiveTokens(x) = {} => LiveTokens(x)' = {}
  BY <1>6 DEF DeleteExpiredMobileRefreshTokens
<1>7. ASSUME NEW a \in Accounts, EraseDatabase(a)
      PROVE /\ owner'[x] = owner[x]
            /\ Dead(x) => Dead(x)'
            /\ LiveTokens(x) = {} => LiveTokens(x)' = {}
  BY <1>7 DEF EraseDatabase
<1> QED
  BY <1>1, <1>2, <1>3, <1>4, <1>5, <1>6, <1>7 DEF FamilyStep

-----------------------------------------------------------------------------
(* The requests.                                                           *)

RequestType == [pc : Steps, acct : Accounts \union {None}, by : Principals \union {None}, gen : 0 .. MaxGen,
                dev : Devices \union {None}, sids : SUBSET Sids, failed : BOOLEAN]

\* A request that is left alone stays as good as it was.
LEMMA KeepRequest ==
    ASSUME IInv, [Next]_vars, NEW r \in Requests
    PROVE  req[r] \in RequestType /\ RequestOK(req[r], owner', DeadSids')
<1>1. FamilyStep /\ TypeOK /\ ChainInv /\ RequestInv
  BY FamilySteps DEF IInv
<1>2. req[r] \in RequestType /\ RequestOK(req[r], owner, DeadSids)
  BY <1>1 DEF TypeOK, RequestType, RequestInv
<1>3. ASSUME NEW s \in req[r].sids PROVE s \in DeadSids' /\ owner'[s] = req[r].acct
  <2>1. s \in Sids /\ Dead(s) /\ owner[s] # None /\ owner[s] = req[r].acct
    BY <1>2 DEF RequestOK, DeadSids, Dead, RequestType
  <2>2. Dead(s)' /\ owner'[s] = owner[s]
    BY <1>1, <2>1, Stable
  <2> QED BY <2>1, <2>2 DEF DeadSids
<1>4. ASSUME req[r].by \in Sids PROVE owner'[req[r].by] # None /\ req[r].acct = owner'[req[r].by]
  BY <1>1, <1>2, <1>4, Stable DEF RequestOK
<1> QED BY <1>2, <1>3, <1>4 DEF RequestOK

\* The invariant of the requests after a step that writes one of them.
LEMMA PutRequest ==
    ASSUME IInv, [Next]_vars, NEW r \in Requests, NEW q \in RequestType,
           RequestOK(q, owner', DeadSids'), req' = [req EXCEPT ![r] = q]
    PROVE  req' \in [Requests -> RequestType] /\ RequestInv'
<1>1. req \in [Requests -> RequestType]
  BY DEF IInv, TypeOK, RequestType
<1>2. ASSUME NEW x \in Requests PROVE req'[x] \in RequestType /\ RequestOK(req'[x], owner', DeadSids')
  BY <1>1, KeepRequest
<1> QED BY <1>1, <1>2 DEF RequestInv

\* A step that leaves the requests alone keeps RequestInv: owners and dead sessions only grow.
LEMMA KeepRequests ==
    ASSUME IInv, [Next]_vars, UNCHANGED req
    PROVE  req' \in [Requests -> RequestType] /\ RequestInv'
  BY KeepRequest DEF IInv, TypeOK, RequestType, RequestInv

\* A finished request holds nothing.
LEMMA IdleOK == Idle \in RequestType /\ \A o, dead : RequestOK(Idle, o, dead)
  BY ConstantsAssumption DEF Idle, Request, RequestType, RequestOK, Steps, Principals

\* A request that ends (Finish) keeps RequestInv.
LEMMA FinishRequest ==
    ASSUME IInv, [Next]_vars, NEW r \in Requests, Finish(r)
    PROVE  req' \in [Requests -> RequestType] /\ RequestInv'
  BY IdleOK, PutRequest DEF Finish

\* A request only moves on to a step that asks nothing new of it.
LEMMA MoveRequest ==
    ASSUME IInv, [Next]_vars, NEW r \in Requests, req[r].pc # "idle",
           NEW step \in {"logoutall", "revoke", "devices"}, NEW f \in BOOLEAN,
           req' = [req EXCEPT ![r].pc = step, ![r].failed = f]
    PROVE  req' \in [Requests -> RequestType] /\ RequestInv'
<1> DEFINE q == [req[r] EXCEPT !.pc = step, !.failed = f]
<1>1. req[r] \in RequestType /\ RequestOK(req[r], owner', DeadSids')
  BY KeepRequest
<1>2. q \in RequestType
  BY <1>1 DEF RequestType, Steps
<1>3. RequestOK(q, owner', DeadSids')
  BY <1>1 DEF RequestType, RequestOK
<1>4. req' = [req EXCEPT ![r] = q]
  BY DEF IInv, TypeOK
<1> QED BY <1>2, <1>3, <1>4, PutRequest

\* A request arrives: of an account that exists, and of its owner when it is a session's.
LEMMA ArriveRequest ==
    ASSUME IInv, [Next]_vars, NEW r \in Requests, NEW step \in Steps \ {"lock"}, NEW a \in Accounts,
           NEW p \in Principals \union {None}, NEW k \in 0 .. MaxGen, NEW d \in Devices \union {None},
           p \in Sids => owner[p] = a,
           step \in {"rotate", "refuse"} => p \in Sids /\ k < MaxGen,
           req' = [req EXCEPT ![r] = Request(step, a, p, k, d)]
    PROVE  req' \in [Requests -> RequestType] /\ RequestInv'
<1>1. Request(step, a, p, k, d) \in RequestType
  BY DEF Request, RequestType
<1>2. p \in Sids => owner'[p] = a
  BY ConstantsAssumption, FamilySteps, Stable DEF IInv
<1>3. RequestOK(Request(step, a, p, k, d), owner', DeadSids')
  BY <1>2, ConstantsAssumption DEF Request, RequestOK
<1> QED BY <1>1, <1>3, PutRequest

\* Whoever the middleware accepts has an account.
LEMMA Resolved ==
    ASSUME TypeOK, NEW p \in Principals, ResolveAuthUser(p)
    PROVE  AccountOf(p) \in Accounts /\ (p \in Sids => owner[p] = AccountOf(p))
  BY DEF TypeOK, ResolveAuthUser, AccountOf, Principals

\* Every step of RequestStep, RequestArrives and the environment keeps RequestInv.
LEMMA RequestsStep ==
    ASSUME IInv, [Next]_vars
    PROVE  req' \in [Requests -> RequestType] /\ RequestInv'
<1> DEFINE Goal == req' \in [Requests -> RequestType] /\ RequestInv'
<1> USE DEF Goal
<1>0. TypeOK
  BY DEF IInv
<1>1. ASSUME NEW r \in Requests, RequestStep(r) PROVE Goal
  <2>1. ASSUME Finish(r) PROVE Goal
    BY <2>1, FinishRequest
  <2>2. ASSUME RevokeSessionsLegacy(r) PROVE Goal
    <3>1. \E f \in BOOLEAN : req' = [req EXCEPT ![r].pc = "revoke", ![r].failed = f]
      <4>1. req[r].failed \in BOOLEAN
        BY <1>0 DEF TypeOK
      <4>2. CASE req' = [req EXCEPT ![r].pc = "revoke"]
        <5>1. req' = [req EXCEPT ![r].pc = "revoke", ![r].failed = req[r].failed]
          BY <1>0, <4>2 DEF TypeOK
        <5> QED BY <4>1, <5>1
      <4> QED BY <2>2, <4>2 DEF RevokeSessionsLegacy
    <3> QED BY <2>2, <3>1, MoveRequest DEF RevokeSessionsLegacy
  <2>3. ASSUME RevokeAllMobileSessions(r) PROVE Goal
    <3> DEFINE S == SidsOf(req[r].acct)
    <3>1. CASE req' = [req EXCEPT ![r].pc = "devices", ![r].failed = TRUE]
      BY <2>3, <3>1, MoveRequest DEF RevokeAllMobileSessions
    <3>2. CASE Revoke(S) /\ req' = [req EXCEPT ![r].pc = "devices", ![r].sids = S]
      <4> DEFINE q == [req[r] EXCEPT !.pc = "devices", !.sids = S]
      <4>1. req[r] \in RequestType /\ RequestOK(req[r], owner', DeadSids')
        BY KeepRequest
      <4>2. S \subseteq Sids /\ UNCHANGED <<owner, rows>>
        BY <2>3 DEF SidsOf, RevokeAllMobileSessions
      <4>3. q \in RequestType
        BY <4>1, <4>2 DEF RequestType, Steps
      <4>4. req' = [req EXCEPT ![r] = q]
        BY <1>0, <3>2 DEF TypeOK
      <4>5. CASE req[r].acct # None
        <5>1. ASSUME NEW s \in S PROVE s \in DeadSids' /\ owner'[s] = req[r].acct
          <6>1. revoked[s] \subseteq rows[s] /\ owner[s] = req[r].acct
            BY <4>2 DEF IInv, ChainInv, ChainOK, SidsOf
          <6> QED BY <3>2, <4>2, <4>5, <6>1 DEF Revoke, DeadSids, Dead
        <5>2. RequestOK(q, owner', DeadSids')
          BY <4>1, <4>5, <5>1 DEF RequestOK, RequestType
        <5> QED BY <4>3, <4>4, <5>2, PutRequest
      <4>6. req[r].acct # None
        BY <2>3 DEF RevokeAllMobileSessions, IInv, RequestInv, RequestOK
      <4> QED BY <4>5, <4>6
    <3> QED BY <2>3, <3>1, <3>2 DEF RevokeAllMobileSessions
  <2>4. ASSUME RegisterCandidate(r) PROVE Goal
    <3>1. ASSUME NEW k \in LiveTokens(req[r].by), req' = [req EXCEPT ![r].pc = "lock", ![r].gen = k] PROVE Goal
      <4> DEFINE q == [req[r] EXCEPT !.pc = "lock", !.gen = k]
      <4>1. req[r] \in RequestType /\ RequestOK(req[r], owner', DeadSids') /\ req[r].by \in Sids
        BY <2>4, KeepRequest DEF RegisterCandidate
      <4>2. k \in 0 .. MaxGen
        BY <1>0, <4>1, ConstantsAssumption DEF LiveTokens, TypeOK
      <4>3. q \in RequestType
        BY <4>1, <4>2 DEF RequestType, Steps
      <4>4. RequestOK(q, owner', DeadSids')
        BY <4>1 DEF RequestOK, RequestType
      <4>5. req' = [req EXCEPT ![r] = q]
        BY <1>0, <3>1 DEF TypeOK
      <4> QED BY <4>3, <4>4, <4>5, PutRequest
    <3> QED BY <2>1, <2>4, <3>1 DEF RegisterCandidate
  <2>5. ASSUME CreateDeletionRequest(r) PROVE Goal
    <3>1. CASE req' = [req EXCEPT ![r].pc = "logoutall"]
      <4>1. req[r].failed \in BOOLEAN
        BY <1>0 DEF TypeOK
      <4>2. req' = [req EXCEPT ![r].pc = "logoutall", ![r].failed = req[r].failed]
        BY <1>0, <3>1 DEF TypeOK
      <4> QED BY <2>5, <4>1, <4>2, MoveRequest DEF CreateDeletionRequest
    <3> QED BY <2>1, <2>5, <3>1 DEF CreateDeletionRequest
  <2> QED
    BY <1>1, <2>1, <2>2, <2>3, <2>4, <2>5 DEF RequestStep, InsertMobileRefreshToken, RefuseRefresh, RotateMobileRefreshToken,
         ExchangeToken, LoginWithBridge, LogoutCurrent, RevokeSessionsDevices, RegisterSessionDevice,
         RegisterLegacyDevice, UnregisterDevice, AppleConsentRevokedLegacy
<1>2. ASSUME NEW r \in Requests, RequestArrives(r) PROVE Goal
  <2>1. ASSUME NEW step \in Steps \ {"lock", "rotate", "refuse"}, NEW a \in Accounts, NEW p \in Principals \union {None},
               p \in Sids => owner[p] = a, Begin(r, step, a, p)
        PROVE Goal
    <3>1. 0 \in 0 .. MaxGen
      BY ConstantsAssumption
    <3> QED BY <2>1, <3>1, ArriveRequest DEF Begin
  <2>2. ASSUME NEW s \in Sids, NEW k \in 1 .. MaxGen, RefreshRequest(r, s, k) PROVE Goal
    <3>1. owner[s] \in Accounts
      BY <1>0, <2>2, ConstantsAssumption DEF RefreshRequest, IInv, ChainInv, ChainOK, TypeOK
    <3>2. ASSUME NEW step \in {"rotate", "refuse"},
                 req' = [req EXCEPT ![r] = Request(step, owner[s], s, k, None)]
          PROVE Goal
      <4>1. k < MaxGen /\ k \in 0 .. MaxGen /\ s \in Principals /\ step \in Steps \ {"lock"}
        BY <2>2, ConstantsAssumption DEF RefreshRequest, Principals, Steps
      <4> QED BY <3>1, <3>2, <4>1, ArriveRequest
    <3> QED BY <2>2, <3>2 DEF RefreshRequest
  <2>3. ASSUME NEW p \in Principals, NEW op \in {"register", "unregister"}, NEW d \in Devices, DeviceRequest(r, p, op, d)
        PROVE Goal
    <3>1. 0 \in 0 .. MaxGen /\ op \in Steps \ {"lock"}
      BY ConstantsAssumption DEF Steps
    <3>2. AccountOf(p) \in Accounts /\ (p \in Sids => owner[p] = AccountOf(p))
      BY <1>0, <2>3, Resolved DEF DeviceRequest
    <3> QED BY <2>3, <3>1, <3>2, ArriveRequest DEF DeviceRequest
  <2>4. ASSUME NEW p \in Principals, NEW op \in {"logout", "logoutall", "withdraw"}, AuthenticatedRequest(r, p, op) PROVE Goal
    <3>1. AccountOf(p) \in Accounts /\ (p \in Sids => owner[p] = AccountOf(p))
      BY <1>0, <2>4, Resolved DEF AuthenticatedRequest
    <3>2. op \in Steps \ {"lock", "rotate", "refuse"}
      BY DEF Steps
    <3> QED BY <2>1, <2>4, <3>1, <3>2 DEF AuthenticatedRequest
  <2>5. ASSUME NEW a \in Accounts, \/ Authenticate(r, a) \/ OperatorWithdraws(r, a) \/ AppleConsentRevoked(r, a)
                                   \/ \E b \in Browsers : WebLoginRequest(r, a, b)
        PROVE Goal
    <3>1. None \notin Sids /\ \A b \in Browsers : b \in Principals /\ b \notin Sids
      BY ConstantsAssumption DEF Principals
    <3>2. {"issue", "withdraw", "apple", "bridge"} \subseteq Steps \ {"lock", "rotate", "refuse"}
      BY DEF Steps
    <3> QED BY <2>1, <2>5, <3>1, <3>2 DEF Authenticate, OperatorWithdraws, AppleConsentRevoked, WebLoginRequest
  <2> QED BY <1>2, <2>2, <2>3, <2>4, <2>5 DEF RequestArrives
<1>3. CASE Crash
  BY <1>3, IdleOK DEF Crash, RequestInv
<1>4. CASE UNCHANGED req
  BY <1>4, KeepRequests
<1>5. ASSUME ProofArrives \/ PushStep \/ Environment PROVE Crash \/ UNCHANGED req
  BY <1>5 DEF ProofArrives, RevokeMobileSessionByProof, RevokeAllSessionsByProof, EndAccountSessions,
       PushStep, ListDevices, NextTarget, CheckTarget, SendDone, SendTransient, SendInvalid, DeleteDeliveryTarget,
       Environment, CancelDeletion, EraseDatabase, AdminUpdatesStatus, ConfirmResetAtomically,
       TokenExpires, DeleteExpiredMobileRefreshTokens, WebSessionExpires
<1> QED
  BY <1>1, <1>2, <1>3, <1>4, <1>5 DEF Next, vars

-----------------------------------------------------------------------------
(* Ended sessions and registrations.                                       *)

\* What the steps that end sessions of an account have in common: its registrations go with them.
Sweep(S) ==
    /\ swept' = swept \union S
    /\ \A s \in S : Dead(s)' /\ owner'[s] = owner[s]
    /\ \A d \in Devices : device'[d] = NoRow \/ (device'[d] = device[d] /\ (device[d].sid = None \/ device[d].sid \notin S))

\* The sweep of RevokeSessions covers what RevokeAllMobileSessions revoked.
LEMMA SweepDevices ==
    ASSUME IInv, [Next]_vars, NEW r \in Requests, RevokeSessionsDevices(r)
    PROVE  (UNCHANGED swept /\ \A d \in Devices : device'[d] \in {device[d], NoRow}) \/ Sweep(req[r].sids)
<1>0. TypeOK /\ DeviceInv /\ RequestOK(req[r], owner, DeadSids)
  BY DEF IInv, RequestInv
<1>1. CASE DeletePushDevicesByUser(req[r].acct)
  <2>1. \A d \in Devices : device'[d] = IF device[d].acct = req[r].acct THEN NoRow ELSE device[d]
    BY <1>1 DEF DeletePushDevicesByUser
  <2>2. ASSUME NEW d \in Devices, device[d].sid # None, device[d].sid \in req[r].sids PROVE device'[d] = NoRow
    <3>1. device[d].acct = owner[device[d].sid] /\ owner[device[d].sid] = req[r].acct
      BY <1>0, <2>2 DEF DeviceInv, RequestOK
    <3> QED BY <2>1, <3>1
  <2>3. ASSUME NEW s \in req[r].sids PROVE Dead(s)' /\ owner'[s] = owner[s]
    <3>1. UNCHANGED <<owner, rows, revoked>>
      BY DEF RevokeSessionsDevices, families
    <3> QED BY <1>0, <3>1 DEF RequestOK, DeadSids, Dead
  <2>4. swept' = swept \/ swept' = swept \union req[r].sids
    BY DEF RevokeSessionsDevices
  <2> QED BY <2>1, <2>2, <2>3, <2>4 DEF Sweep
<1>2. CASE UNCHANGED <<device, swept>>
  BY <1>2
<1> QED BY <1>1, <1>2 DEF RevokeSessionsDevices

\* A global proof revokes every session of its account and removes every registration.
LEMMA SweepByProof ==
    ASSUME IInv, [Next]_vars, NEW s \in Sids, NEW k \in 1 .. MaxGen, RevokeAllSessionsByProof(s, k)
    PROVE  Sweep(SidsOf(owner[s])) /\ s \in SidsOf(owner[s]) /\ ~Dead(s) /\ owner[s] # None
<1>0. TypeOK /\ ChainOK(s) /\ DeviceInv
  BY DEF IInv, ChainInv
<1>1. owner[s] # None /\ ~Dead(s)
  BY <1>0, ConstantsAssumption DEF RevokeAllSessionsByProof, ProofAccepted, ChainOK, Dead, TypeOK
<1>2. Revoke(SidsOf(owner[s])) /\ DeletePushDevicesByUser(owner[s]) /\ UNCHANGED <<owner, rows>>
      /\ swept' = swept \union SidsOf(owner[s])
  BY DEF RevokeAllSessionsByProof, EndAccountSessions
<1>3. ASSUME NEW x \in SidsOf(owner[s]) PROVE Dead(x)' /\ owner'[x] = owner[x]
  <2>1. x \in Sids /\ owner[x] = owner[s] /\ revoked[x] \subseteq rows[x]
    BY DEF SidsOf, IInv, ChainInv, ChainOK
  <2> QED BY <1>1, <1>2, <2>1 DEF Revoke, Dead
<1>4. ASSUME NEW d \in Devices
      PROVE device'[d] = NoRow \/ (device'[d] = device[d] /\ (device[d].sid = None \/ device[d].sid \notin SidsOf(owner[s])))
  BY <1>0, <1>2 DEF DeletePushDevicesByUser, DeviceInv, SidsOf
<1> QED BY <1>1, <1>2, <1>3, <1>4 DEF Sweep, SidsOf

\* The steps that touch a registration or the history of ended sessions.
DeviceStep ==
    \/ UNCHANGED <<global, swept>> /\ \A d \in Devices : device'[d] \in {device[d], NoRow}
    \/ \E r \in Requests : RevokeSessionsDevices(r)
    \/ \E s \in Sids, k \in 1 .. MaxGen : RevokeAllSessionsByProof(s, k)
    \/ \E r \in Requests : RegisterSessionDevice(r)
    \/ \E r \in Requests : RegisterLegacyDevice(r)

\* Every step is one of the kinds of DeviceStep and keeps the type of the registrations.
LEMMA DeviceSteps ==
    ASSUME TypeOK, RequestInv, [Next]_vars
    PROVE  DeviceStep /\ device' \in [Devices -> [acct : Accounts \union {None}, sid : Sids \union {None}]]
<1> DEFINE Goal == DeviceStep /\ device' \in [Devices -> [acct : Accounts \union {None}, sid : Sids \union {None}]]
<1>0. device \in [Devices -> [acct : Accounts \union {None}, sid : Sids \union {None}]]
  BY DEF TypeOK
<1>1. ASSUME UNCHANGED <<device, global, swept>> PROVE Goal
  BY <1>0, <1>1 DEF DeviceStep
<1>2. ASSUME NEW a, DeletePushDevicesByUser(a), UNCHANGED <<global, swept>> PROVE Goal
  BY <1>0, <1>2 DEF DeletePushDevicesByUser, DeviceStep, NoRow
<1>3. ASSUME NEW a, NEW s, NEW d, UnregisterScoped(a, s, d), UNCHANGED <<global, swept>> PROVE Goal
  BY <1>0, <1>3 DEF UnregisterScoped, DeviceStep, NoRow
<1>4. ASSUME NEW r \in Requests, RequestStep(r) PROVE Goal
  <2>1. ASSUME RegisterSessionDevice(r) PROVE Goal
    <3>1. CASE UNCHANGED device
      BY <1>0, <2>1, <3>1 DEF DeviceStep
    <3>2. CASE device' = BindDevice(r) /\ req[r].by \in Sids
      BY <1>0, <2>1, <3>2 DEF DeviceStep, BindDevice, TypeOK
    <3> QED BY <2>1, <3>1, <3>2 DEF RegisterSessionDevice, RequestInv, RequestOK
  <2>2. ASSUME RegisterLegacyDevice(r) PROVE Goal
    BY <1>0, <2>2 DEF RegisterLegacyDevice, DeviceStep, TypeOK
  <2>3. ASSUME RevokeSessionsDevices(r) PROVE Goal
    BY <1>0, <2>3 DEF RevokeSessionsDevices, DeletePushDevicesByUser, DeviceStep, NoRow
  <2> QED
    BY <1>1, <1>3, <1>4, <2>1, <2>2, <2>3 DEF RequestStep, InsertMobileRefreshToken, RefuseRefresh,
         RotateMobileRefreshToken, ExchangeToken, LoginWithBridge, LogoutCurrent, RevokeSessionsLegacy,
         RevokeAllMobileSessions, RegisterCandidate, UnregisterDevice, CreateDeletionRequest,
         AppleConsentRevokedLegacy, history
<1>5. ASSUME NEW r \in Requests, RequestArrives(r) PROVE Goal
  BY <1>1, <1>5 DEF RequestArrives, Authenticate, OperatorWithdraws, AppleConsentRevoked, WebLoginRequest,
       RefreshRequest, AuthenticatedRequest, DeviceRequest, history
<1>6. ASSUME ProofArrives PROVE Goal
  <2>1. ASSUME NEW s \in Sids, NEW k \in 1 .. MaxGen, RevokeAllSessionsByProof(s, k) PROVE Goal
    BY <1>0, <2>1 DEF RevokeAllSessionsByProof, EndAccountSessions, DeletePushDevicesByUser, DeviceStep, NoRow
  <2> QED BY <1>1, <1>3, <1>6, <2>1 DEF ProofArrives, RevokeMobileSessionByProof, history
<1>7. ASSUME PushStep PROVE Goal
  <2>1. ASSUME DeleteDeliveryTarget PROVE Goal
    BY <1>0, <2>1 DEF DeleteDeliveryTarget, DeviceStep, NoRow, history
  <2> QED BY <1>1, <1>7, <2>1 DEF PushStep, ListDevices, NextTarget, CheckTarget, SendDone, SendTransient, SendInvalid, history
<1>8. ASSUME Environment PROVE Goal
  BY <1>1, <1>2, <1>8 DEF Environment, CancelDeletion, EraseDatabase, AdminUpdatesStatus, ConfirmResetAtomically,
       TokenExpires, DeleteExpiredMobileRefreshTokens, WebSessionExpires, Crash, history
<1> QED
  BY <1>1, <1>4, <1>5, <1>6, <1>7, <1>8 DEF Next, vars, history

\* Whatever was ended stays ended, and nothing is registered for it.
LEMMA EndedStep ==
    ASSUME IInv, [Next]_vars
    PROVE  EndedInv' /\ DeviceInv'
<1>0. TypeOK /\ ChainInv /\ EndedInv /\ RequestInv /\ DeviceInv /\ FamilyStep /\ DeviceStep
  BY FamilySteps, DeviceSteps DEF IInv
<1>1. ASSUME NEW s \in Sids, Dead(s) PROVE Dead(s)'
  BY <1>0, <1>1, Stable DEF Dead
<1>2. ASSUME NEW s \in Sids, owner[s] # None PROVE owner'[s] = owner[s]
  BY <1>0, <1>2, Stable
<1>3. ASSUME UNCHANGED <<global, swept>> PROVE EndedInv'
  BY <1>0, <1>1, <1>3 DEF EndedInv, TypeOK
<1>4. ASSUME NEW d \in Devices, device'[d] = NoRow PROVE device'[d].sid = None
  BY <1>4 DEF NoRow
<1>5. ASSUME NEW d \in Devices, device'[d] = device[d], device[d].sid # None
      PROVE  owner'[device'[d].sid] # None /\ device'[d].acct = owner'[device'[d].sid]
  BY <1>0, <1>2, <1>5 DEF DeviceInv, TypeOK
<1>6. ASSUME UNCHANGED swept, \A d \in Devices : device'[d] \in {device[d], NoRow} PROVE DeviceInv'
  BY <1>0, <1>4, <1>5, <1>6 DEF DeviceInv
<1>7. ASSUME NEW S, Sweep(S) PROVE DeviceInv' /\ \A s \in swept' : s \in swept \/ Dead(s)'
  <2>1. \A d \in Devices : device'[d].sid # None => device'[d].sid \notin swept'
    BY <1>0, <1>4, <1>7 DEF Sweep, DeviceInv
  <2>2. \A d \in Devices : device'[d].sid # None => device'[d] = device[d]
    BY <1>4, <1>7 DEF Sweep
  <2> QED BY <1>5, <1>7, <2>1, <2>2 DEF DeviceInv, Sweep
<1>8. ASSUME NEW r \in Requests, RevokeSessionsDevices(r) PROVE EndedInv' /\ DeviceInv'
  <2>1. UNCHANGED global
    BY <1>8 DEF RevokeSessionsDevices
  <2>2. CASE UNCHANGED swept /\ \A d \in Devices : device'[d] \in {device[d], NoRow}
    BY <1>3, <1>6, <2>1, <2>2
  <2>3. CASE Sweep(req[r].sids)
    BY <1>0, <1>1, <1>7, <2>1, <2>3 DEF EndedInv, TypeOK
  <2> QED BY <1>8, <2>2, <2>3, SweepDevices
<1>9. ASSUME NEW s \in Sids, NEW k \in 1 .. MaxGen, RevokeAllSessionsByProof(s, k) PROVE EndedInv' /\ DeviceInv'
  <2>1. Sweep(SidsOf(owner[s])) /\ s \in SidsOf(owner[s]) /\ ~Dead(s)
    BY <1>9, SweepByProof
  <2>2. global' = [global EXCEPT ![s] = @ + 1]
    BY <1>9 DEF RevokeAllSessionsByProof, EndAccountSessions
  <2>3. Dead(s)' /\ global[s] = 0
    BY <1>0, <2>1 DEF Sweep, EndedInv
  <2>4. ASSUME NEW x \in Sids PROVE global'[x] = 0 \/ (global'[x] = 1 /\ Dead(x)')
    BY <1>0, <1>1, <2>2, <2>3 DEF EndedInv, TypeOK
  <2> QED BY <1>0, <1>1, <1>7, <2>1, <2>4 DEF EndedInv, TypeOK
<1>10. ASSUME NEW r \in Requests, RegisterSessionDevice(r) PROVE EndedInv' /\ DeviceInv'
  <2>1. UNCHANGED <<global, swept>>
    BY <1>10 DEF RegisterSessionDevice, history
  <2>2. CASE UNCHANGED device
    BY <1>3, <1>6, <2>1, <2>2
  <2>3. CASE req[r].gen \in LiveTokens(req[r].by) /\ device' = BindDevice(r)
    <3>1. /\ req[r].by \in Sids /\ owner[req[r].by] # None /\ req[r].acct = owner[req[r].by]
      BY <1>0, <1>10 DEF RegisterSessionDevice, RequestInv, RequestOK
    <3>2. req[r].by \notin swept
      BY <1>0, <2>3 DEF EndedInv, Dead, LiveTokens
    <3>3. ASSUME NEW d \in Devices, device'[d].sid # None
          PROVE  owner'[device'[d].sid] # None /\ device'[d].acct = owner'[device'[d].sid] /\ device'[d].sid \notin swept'
      <4>1. CASE device'[d] = device[d]
        BY <1>0, <1>5, <2>1, <3>3, <4>1 DEF DeviceInv
      <4>2. CASE device'[d] = [acct |-> req[r].acct, sid |-> req[r].by]
        BY <1>2, <2>1, <3>1, <3>2, <4>2
      <4> QED BY <1>0, <2>3, <4>1, <4>2 DEF BindDevice, TypeOK
    <3> QED BY <1>3, <2>1, <3>3 DEF DeviceInv
  <2> QED BY <1>10, <2>2, <2>3 DEF RegisterSessionDevice
<1>11. ASSUME NEW r \in Requests, RegisterLegacyDevice(r) PROVE EndedInv' /\ DeviceInv'
  <2>1. UNCHANGED <<global, swept>>
    BY <1>11 DEF RegisterLegacyDevice, history
  <2>2. ASSUME NEW d \in Devices PROVE device'[d] = device[d] \/ device'[d].sid = None
    BY <1>0, <1>11 DEF RegisterLegacyDevice, TypeOK
  <2> QED BY <1>0, <1>3, <1>5, <2>1, <2>2 DEF DeviceInv
<1> QED
  BY <1>0, <1>3, <1>6, <1>8, <1>9, <1>10, <1>11 DEF DeviceStep

-----------------------------------------------------------------------------
(* The push worker.                                                        *)

PushType == [pc : {"idle", "next", "check", "send", "delete"}, acct : Accounts \union {None},
             targets : SUBSET (Devices \X Sids), dev : Devices \union {None},
             sid : Sids \union {None}, attempt : 0 .. MaxSends, late : 0 .. MaxSends]

\* Nothing that happens around it disturbs the push worker.
LEMMA KeepPush ==
    ASSUME IInv, [Next]_vars, UNCHANGED push
    PROVE  push' \in PushType /\ PushInv'
<1>0. TypeOK /\ ChainInv /\ RequestInv /\ PushInv /\ FamilyStep
  BY FamilySteps DEF IInv
<1>1. push \in PushType
  BY <1>0 DEF TypeOK, PushType
<1>2. ASSUME NEW t \in push.targets PROVE owner'[t[2]] # None
  <2>1. t[2] \in Sids /\ owner[t[2]] # None
    BY <1>0, <1>1 DEF PushInv, PushType
  <2> QED BY <1>0, <2>1, Stable
<1>3. ASSUME push.sid \in Sids PROVE owner'[push.sid] # None /\ (LiveTokens(push.sid) = {} => LiveTokens(push.sid)' = {})
  BY <1>0, <1>3, Stable DEF PushInv
<1> QED BY <1>0, <1>1, <1>2, <1>3 DEF PushInv

\* Every step of the push worker (deliver) and of the sessions under it keeps PushInv.
LEMMA PushStepInv ==
    ASSUME IInv, [Next]_vars
    PROVE  push' \in PushType /\ PushInv'
<1> DEFINE Goal == push' \in PushType /\ PushInv'
<1>0. push \in PushType /\ PushInv /\ ChainInv /\ TypeOK
  BY DEF IInv, TypeOK, PushType
<1>1. CASE UNCHANGED push
  BY <1>1, KeepPush
<1>2. ASSUME push' = NoPush PROVE Goal
  BY <1>2, ConstantsAssumption DEF NoPush, Delivery, PushType, PushInv, MaxSends
<1>3. ASSUME NEW a \in Accounts, ListDevices(a) PROVE Goal
  <2> DEFINE T == {t \in Devices \X Sids : DeliveryTargetStillCurrent(a, t[1], t[2])}
  <2>1. push' = Delivery("next", a, T, None, None, 0) /\ UNCHANGED owner
    BY <1>3 DEF ListDevices, families
  <2>2. ASSUME NEW t \in T PROVE owner[t[2]] # None
    <3>1. t[2] \in Sids /\ LiveTokens(t[2]) # {} /\ ChainOK(t[2])
      BY <1>0 DEF DeliveryTargetStillCurrent, ChainInv
    <3>2. rows[t[2]] # {} /\ rows[t[2]] \subseteq 1 .. gen[t[2]]
      BY <3>1 DEF LiveTokens, ChainOK
    <3>3. gen[t[2]] # 0
      BY <3>2
    <3> QED BY <3>1, <3>3 DEF ChainOK
  <2>3. push'.targets = T /\ push'.sid = None /\ push'.late = 0 /\ push'.pc = "next"
    BY <2>1 DEF Delivery
  <2>4. push' \in PushType
    BY <2>1 DEF Delivery, PushType, MaxSends
  <2> QED BY <2>1, <2>2, <2>3, <2>4, ConstantsAssumption DEF PushInv
<1>4. ASSUME NextTarget PROVE Goal
  <2>1. CASE push' = NoPush
    BY <1>2, <2>1
  <2>2. ASSUME NEW t \in push.targets,
               push' = Delivery("check", push.acct, push.targets \ {t}, t[1], t[2], 1)
        PROVE Goal
    <3>1. t[1] \in Devices /\ t[2] \in Sids /\ owner[t[2]] # None /\ UNCHANGED owner
      BY <1>0, <1>4 DEF PushType, PushInv, NextTarget, families
    <3>2. push' \in PushType
      BY <1>0, <2>2, <3>1 DEF Delivery, PushType, MaxSends
    <3>3. push'.sid = t[2] /\ push'.late = 0 /\ push'.targets \subseteq push.targets /\ push'.pc = "check"
      BY <1>0, <2>2 DEF Delivery, PushType
    <3> QED BY <1>0, <3>1, <3>2, <3>3 DEF PushInv
  <2> QED BY <1>4, <2>1, <2>2 DEF NextTarget
<1>5. ASSUME CheckTarget PROVE Goal
  <2>1. CASE push' = NoPush
    BY <1>2, <2>1
  <2>2. ASSUME NEW step \in {"send", "next"}, push' = [push EXCEPT !.pc = step],
               step = "send" => LiveTokens(push.sid) # {}
        PROVE Goal
    <3>1. UNCHANGED <<owner, rows, consumed, revoked, expired>> /\ push.pc = "check"
      BY <1>5 DEF CheckTarget, families
    <3>2. push' \in PushType /\ push'.sid = push.sid /\ push'.late = push.late /\ push'.targets = push.targets
          /\ push'.pc = step
      BY <1>0, <2>2 DEF PushType
    <3> QED BY <1>0, <2>2, <3>1, <3>2 DEF PushInv, LiveTokens
  <2> QED BY <1>5, <2>1, <2>2 DEF CheckTarget, DeliveryTargetStillCurrent
<1>6. ASSUME SendDone \/ SendTransient \/ SendInvalid PROVE Goal
  <2>1. UNCHANGED <<owner, rows, consumed, revoked, expired>> /\ push.pc = "send"
    BY <1>6 DEF SendDone, SendTransient, SendInvalid, families
  <2>2. push.late = 0 /\ push.sid \in Sids /\ Sent \in {0, 1} /\ (Sent = 1 => LiveTokens(push.sid) = {})
    BY <1>0, <2>1 DEF PushInv, Sent
  <2>3. ASSUME NEW step \in {"next", "check", "delete"}, NEW q \in PushType, push' = [q EXCEPT !.pc = step, !.late = Sent],
               q.sid = push.sid, q.targets = push.targets
        PROVE Goal
    <3>0. Sent \in 0 .. MaxSends
      BY <2>2 DEF MaxSends
    <3>1. push' \in PushType
      BY <2>3, <3>0 DEF PushType
    <3>2. push'.sid = push.sid /\ push'.late = Sent /\ push'.targets = push.targets /\ push'.pc = step
      BY <2>3 DEF PushType
    <3> QED BY <1>0, <2>1, <2>2, <3>1, <3>2 DEF PushInv, LiveTokens
  <2>4. ASSUME push.attempt < MaxSends, push' = [push EXCEPT !.pc = "check", !.attempt = @ + 1, !.late = Sent] PROVE Goal
    <3> DEFINE q == [push EXCEPT !.attempt = @ + 1]
    <3>1. q \in PushType /\ q.sid = push.sid /\ q.targets = push.targets
      BY <1>0, <2>4 DEF PushType, MaxSends
    <3>2. push' = [q EXCEPT !.pc = "check", !.late = Sent]
      BY <1>0, <2>4 DEF PushType
    <3> QED BY <2>3, <3>1, <3>2
  <2> QED BY <1>0, <1>6, <2>3, <2>4 DEF SendDone, SendTransient, SendInvalid
<1>7. ASSUME DeleteDeliveryTarget PROVE Goal
  <2>1. UNCHANGED <<owner, rows, consumed, revoked, expired>> /\ push' = [push EXCEPT !.pc = "next"]
    BY <1>7 DEF DeleteDeliveryTarget, families
  <2>2. push' \in PushType /\ push'.sid = push.sid /\ push'.late = push.late /\ push'.targets = push.targets
        /\ push'.pc = "next"
    BY <1>0, <2>1 DEF PushType
  <2> QED BY <1>0, <2>1, <2>2 DEF PushInv, LiveTokens
<1>8. ASSUME PushStep PROVE Goal
  BY <1>3, <1>4, <1>5, <1>6, <1>7, <1>8 DEF PushStep
<1>9. ASSUME NEW r \in Requests, RequestStep(r) \/ RequestArrives(r) PROVE UNCHANGED push
  BY <1>9 DEF RequestStep, InsertMobileRefreshToken, RefuseRefresh, RotateMobileRefreshToken, ExchangeToken,
       LoginWithBridge, LogoutCurrent, RevokeSessionsLegacy, RevokeAllMobileSessions, RevokeSessionsDevices,
       RegisterCandidate, RegisterSessionDevice, RegisterLegacyDevice, UnregisterDevice, CreateDeletionRequest,
       AppleConsentRevokedLegacy, RequestArrives, Authenticate, OperatorWithdraws, AppleConsentRevoked,
       WebLoginRequest, RefreshRequest, AuthenticatedRequest, DeviceRequest
<1>10. ASSUME ProofArrives \/ Environment PROVE UNCHANGED push \/ push' = NoPush
  BY <1>10 DEF ProofArrives, RevokeMobileSessionByProof, RevokeAllSessionsByProof, EndAccountSessions,
       Environment, CancelDeletion, EraseDatabase, AdminUpdatesStatus, ConfirmResetAtomically, TokenExpires,
       DeleteExpiredMobileRefreshTokens, WebSessionExpires, Crash
<1> QED
  BY <1>1, <1>2, <1>8, <1>9, <1>10 DEF Next, vars

-----------------------------------------------------------------------------
(* The invariant.                                                          *)

\* Every step keeps the types of the variables outside the token families.
LEMMA OtherTypes ==
    ASSUME IInv, [Next]_vars
    PROVE  /\ status' \in [Accounts -> {"allowed", "suspended", "withdrawn", "barred", "erased"}]
           /\ web' \in [Browsers -> [acct : Accounts \union {None}, jwt : BOOLEAN, row : BOOLEAN]]
           /\ faults' \in 0 .. MaxFaults
           /\ global' \in [Sids -> Nat]
           /\ swept' \subseteq Sids
<1> DEFINE WebType == [Browsers -> [acct : Accounts \union {None}, jwt : BOOLEAN, row : BOOLEAN]]
           StatusType == [Accounts -> {"allowed", "suspended", "withdrawn", "barred", "erased"}]
<1>0. TypeOK /\ RequestInv /\ web \in WebType /\ status \in StatusType
  BY DEF IInv, TypeOK
<1>1. status' \in StatusType
  <2>1. ASSUME NEW r \in Requests, CreateDeletionRequest(r) PROVE status' \in StatusType
    BY <1>0, <2>1 DEF CreateDeletionRequest
  <2>2. ASSUME NEW a \in Accounts, CancelDeletion(a) \/ EraseDatabase(a) \/ AdminUpdatesStatus(a)
        PROVE status' \in StatusType
    BY <1>0, <2>2 DEF CancelDeletion, EraseDatabase, AdminUpdatesStatus
  <2>3. ASSUME NEW r \in Requests, RequestStep(r) \/ RequestArrives(r), ~CreateDeletionRequest(r) PROVE UNCHANGED status
    BY <2>3 DEF RequestStep, InsertMobileRefreshToken, RefuseRefresh, RotateMobileRefreshToken, ExchangeToken,
         LoginWithBridge, LogoutCurrent, RevokeSessionsLegacy, RevokeAllMobileSessions, RevokeSessionsDevices,
         RegisterCandidate, RegisterSessionDevice, RegisterLegacyDevice, UnregisterDevice,
         AppleConsentRevokedLegacy, RequestArrives, Authenticate, OperatorWithdraws, AppleConsentRevoked,
         WebLoginRequest, RefreshRequest, AuthenticatedRequest, DeviceRequest
  <2>4. ASSUME ProofArrives \/ PushStep PROVE UNCHANGED status
    BY <2>4 DEF ProofArrives, RevokeMobileSessionByProof, RevokeAllSessionsByProof, EndAccountSessions,
         PushStep, ListDevices, NextTarget, CheckTarget, SendDone, SendTransient, SendInvalid, DeleteDeliveryTarget
  <2>5. ASSUME Environment PROVE status' \in StatusType
    BY <1>0, <2>2, <2>5 DEF Environment, ConfirmResetAtomically, TokenExpires, DeleteExpiredMobileRefreshTokens,
         WebSessionExpires, Crash
  <2> QED BY <1>0, <2>1, <2>3, <2>4, <2>5 DEF Next, vars
<1>2. web' \in WebType
  <2>1. ASSUME NEW a, DeleteLegacySessionsByUser(a) PROVE web' \in WebType
    BY <1>0, <2>1 DEF DeleteLegacySessionsByUser
  <2>2. ASSUME NEW b, web' = [web EXCEPT ![b] = NoWeb] PROVE web' \in WebType
    BY <1>0, <2>2 DEF NoWeb
  <2>3. ASSUME NEW r \in Requests, LoginWithBridge(r) PROVE web' \in WebType
    BY <1>0, <2>3 DEF LoginWithBridge, TypeOK
  <2>4. ASSUME NEW r \in Requests, RequestStep(r) PROVE web' \in WebType
    BY <1>0, <2>1, <2>2, <2>3, <2>4 DEF RequestStep, InsertMobileRefreshToken, RefuseRefresh, RotateMobileRefreshToken,
         ExchangeToken, LogoutCurrent, RevokeSessionsLegacy, RevokeAllMobileSessions, RevokeSessionsDevices,
         RegisterCandidate, RegisterSessionDevice, RegisterLegacyDevice, UnregisterDevice, CreateDeletionRequest,
         AppleConsentRevokedLegacy
  <2>5. ASSUME NEW r \in Requests, RequestArrives(r) PROVE UNCHANGED web
    BY <2>5 DEF RequestArrives, Authenticate, OperatorWithdraws, AppleConsentRevoked,
         WebLoginRequest, RefreshRequest, AuthenticatedRequest, DeviceRequest
  <2>6. ASSUME ProofArrives \/ PushStep PROVE web' \in WebType
    BY <1>0, <2>1, <2>6 DEF ProofArrives, RevokeMobileSessionByProof, RevokeAllSessionsByProof, EndAccountSessions,
         PushStep, ListDevices, NextTarget, CheckTarget, SendDone, SendTransient, SendInvalid, DeleteDeliveryTarget
  <2>7. ASSUME Environment PROVE web' \in WebType
    BY <1>0, <2>1, <2>2, <2>7 DEF Environment, CancelDeletion, EraseDatabase, AdminUpdatesStatus,
         ConfirmResetAtomically, TokenExpires, DeleteExpiredMobileRefreshTokens, WebSessionExpires, Crash
  <2> QED BY <1>0, <2>4, <2>5, <2>6, <2>7 DEF Next, vars
<1>3. faults' \in 0 .. MaxFaults
  <2>1. UNCHANGED faults \/ Fault
    <3>1. ASSUME NEW r \in Requests, RequestStep(r) \/ RequestArrives(r) PROVE UNCHANGED faults \/ Fault
      BY <3>1 DEF RequestStep, InsertMobileRefreshToken, RefuseRefresh, RotateMobileRefreshToken, ExchangeToken,
           LoginWithBridge, LogoutCurrent, RevokeSessionsLegacy, RevokeAllMobileSessions, RevokeSessionsDevices,
           RegisterCandidate, RegisterSessionDevice, RegisterLegacyDevice, UnregisterDevice, CreateDeletionRequest,
           AppleConsentRevokedLegacy, RequestArrives, Authenticate, OperatorWithdraws, AppleConsentRevoked,
           WebLoginRequest, RefreshRequest, AuthenticatedRequest, DeviceRequest
    <3>2. ASSUME ProofArrives \/ PushStep \/ Environment PROVE UNCHANGED faults \/ Fault
      BY <3>2 DEF ProofArrives, RevokeMobileSessionByProof, RevokeAllSessionsByProof, EndAccountSessions,
           PushStep, ListDevices, NextTarget, CheckTarget, SendDone, SendTransient, SendInvalid, DeleteDeliveryTarget,
           Environment, CancelDeletion, EraseDatabase, AdminUpdatesStatus, ConfirmResetAtomically, TokenExpires,
           DeleteExpiredMobileRefreshTokens, WebSessionExpires, Crash
    <3> QED BY <3>1, <3>2 DEF Next, vars
  <2> QED BY <1>0, <2>1, ConstantsAssumption DEF Fault, TypeOK
<1>4. global' \in [Sids -> Nat] /\ swept' \subseteq Sids
  <2>1. DeviceStep
    BY <1>0, DeviceSteps
  <2>2. ASSUME NEW r \in Requests, RevokeSessionsDevices(r) PROVE UNCHANGED global /\ swept' \subseteq Sids
    BY <1>0, <2>2 DEF RevokeSessionsDevices, TypeOK
  <2>3. ASSUME NEW s \in Sids, NEW k \in 1 .. MaxGen, RevokeAllSessionsByProof(s, k)
        PROVE global' \in [Sids -> Nat] /\ swept' \subseteq Sids
    BY <1>0, <2>3 DEF RevokeAllSessionsByProof, EndAccountSessions, SidsOf, TypeOK
  <2>4. ASSUME NEW r \in Requests, RegisterSessionDevice(r) \/ RegisterLegacyDevice(r) PROVE UNCHANGED <<global, swept>>
    BY <2>4 DEF RegisterSessionDevice, RegisterLegacyDevice, history
  <2> QED BY <1>0, <2>1, <2>2, <2>3, <2>4 DEF DeviceStep, TypeOK
<1> QED BY <1>1, <1>2, <1>3, <1>4

\* The empty tables satisfy the inductive invariant.
LEMMA InitInv == Init => IInv
<1> SUFFICES ASSUME Init PROVE IInv
  OBVIOUS
<1> USE ConstantsAssumption
<1>1. NoRow \in [acct : Accounts \union {None}, sid : Sids \union {None}]
      /\ NoWeb \in [acct : Accounts \union {None}, jwt : BOOLEAN, row : BOOLEAN]
  BY DEF NoRow, NoWeb
<1>2. NoPush \in PushType
  BY DEF NoPush, Delivery, PushType, MaxSends
<1>3. TypeOK
  BY <1>1, <1>2, IdleOK DEF Init, TypeOK, RequestType, PushType
<1>4. ChainInv /\ EndedInv
  BY DEF Init, ChainInv, ChainOK, EndedInv
<1>5. RequestInv
  BY IdleOK DEF Init, RequestInv
<1>6. DeviceInv /\ PushInv
  BY DEF Init, DeviceInv, NoRow, PushInv, NoPush, Delivery
<1> QED BY <1>3, <1>4, <1>5, <1>6 DEF IInv

\* Every step of the system preserves the inductive invariant.
LEMMA StepInv == IInv /\ [Next]_vars => IInv'
<1> SUFFICES ASSUME IInv, [Next]_vars PROVE IInv'
  OBVIOUS
<1>0. TypeOK /\ ChainInv /\ RequestInv /\ FamilyStep
  BY FamilySteps DEF IInv
<1>1. TypeOK'
  BY <1>0, ChainStep, RequestsStep, DeviceSteps, PushStepInv, OtherTypes DEF TypeOK, RequestType, PushType
<1> QED
  BY <1>0, <1>1, ChainStep, RequestsStep, EndedStep, PushStepInv DEF IInv

\* The inductive invariant holds in every reachable state.
THEOREM Invariance == Spec => []IInv
  BY InitInv, StepInv, PTL DEF Spec

\* Every variable has its type, for every instance.
THEOREM TypeCorrect == Spec => []TypeOK
<1>1. IInv => TypeOK
  BY DEF IInv
<1> QED BY <1>1, Invariance, PTL

\* The refresh chain of a session never forks (RotateMobileRefreshToken).
THEOREM NoFork == Spec => []OneLiveToken
<1>1. IInv => OneLiveToken
  BY DEF IInv, ChainInv, ChainOK, OneLiveToken, LiveTokens
<1> QED BY <1>1, Invariance, PTL

\* A session the middleware accepts can still be renewed (IsMobileSessionActive).
THEOREM Refreshable == Spec => []ActiveMeansRefreshable
<1>1. IInv => ActiveMeansRefreshable
  <2> SUFFICES ASSUME IInv, NEW s \in Sids, NEW k \in rows[s] \ (revoked[s] \union expired[s])
               PROVE  gen[s] \in LiveTokens(s)
    BY DEF ActiveMeansRefreshable, IsMobileSessionActive
  <2>1. ChainOK(s) /\ gen[s] \in Nat /\ k \in 1 .. gen[s] /\ revoked[s] = {}
    BY DEF IInv, ChainInv, ChainOK, TypeOK
  <2>2. gen[s] \notin expired[s]
    BY <2>1 DEF ChainOK
  <2> QED BY <2>1, <2>2 DEF ChainOK, LiveTokens
<1> QED BY <1>1, Invariance, PTL

\* A proof ends everything at most once (revokeSessionsByProof).
THEOREM GlobalOnce == Spec => []GlobalLogoutOnce
<1>1. IInv => GlobalLogoutOnce
  BY DEF IInv, EndedInv, GlobalLogoutOnce
<1> QED BY <1>1, Invariance, PTL

\* No registration of a swept session is left or comes back (RevokeSessions, registerSessionDevice).
THEOREM SweptGone == Spec => []SweptDevicesStayGone
<1>1. IInv => SweptDevicesStayGone
  BY ConstantsAssumption DEF IInv, TypeOK, DeviceInv, SweptDevicesStayGone
<1> QED BY <1>1, Invariance, PTL

\* At most one push of an item reaches a session that has ended (deliver).
THEOREM LateSend == Spec => []OneLateSend
<1>1. IInv => OneLateSend
  BY DEF IInv, PushInv, OneLateSend
<1> QED BY <1>1, Invariance, PTL

-----------------------------------------------------------------------------
(* The refinement of SessionLifecycle.                                     *)

\* Except for a login, a step leaves the set of opened sessions alone and activates none.
LEMMA OnlyLoginsOpen ==
    ASSUME TypeOK, ChainInv, RequestInv, FamilyStep,
           ~ \E r \in Requests, s \in Sids : InsertMobileRefreshToken(r, s), NEW x \in Sids
    PROVE  (gen'[x] = 0 <=> gen[x] = 0) /\ (IsMobileSessionActive(x)' => IsMobileSessionActive(x))
<1> DEFINE Goal == (gen'[x] = 0 <=> gen[x] = 0) /\ (IsMobileSessionActive(x)' => IsMobileSessionActive(x))
<1> USE DEF TypeOK, IsMobileSessionActive
<1>1. CASE UNCHANGED families
  BY <1>1 DEF families
<1>2. ASSUME NEW S \in SUBSET Sids, Revoke(S), UNCHANGED <<owner, gen, rows, consumed, expired>> PROVE Goal
  BY <1>2 DEF Revoke
<1>3. ASSUME NEW r \in Requests, RotateMobileRefreshToken(r) PROVE Goal
  <2> DEFINE s == req[r].by
             k == req[r].gen
  <2>0. s \in Sids /\ UNCHANGED <<owner, expired>>
    BY <1>3 DEF RotateMobileRefreshToken, ExchangeToken, RequestInv, RequestOK
  <2>1. CASE UNCHANGED <<gen, rows, consumed, revoked>>
    BY <2>0, <2>1
  <2>2. CASE Revoke({s}) /\ UNCHANGED <<gen, rows, consumed>>
    <3>1. {s} \in SUBSET Sids
      BY <2>0
    <3> QED BY <1>2, <2>0, <2>2, <3>1
  <2>3. CASE /\ k \in LiveTokens(s)
             /\ gen' = [gen EXCEPT ![s] = @ + 1]
             /\ rows' = [rows EXCEPT ![s] = @ \union {gen[s] + 1}]
             /\ UNCHANGED revoked
    <3>1. CASE x = s
      <4>1. k \in rows[x] \ (revoked[x] \union expired[x]) /\ k \in 1 .. gen[x]
        BY <2>0, <2>3, <3>1 DEF LiveTokens, ChainInv, ChainOK
      <4>2. gen[x] \in Nat /\ gen'[x] = gen[x] + 1
        BY <2>0, <2>3, <3>1
      <4> HIDE DEF k
      <4> QED BY <4>1, <4>2
    <3>2. CASE x # s
      BY <2>0, <2>3, <3>2
    <3> QED BY <3>1, <3>2
  <2> QED
    BY <1>3, <2>1, <2>2, <2>3 DEF RotateMobileRefreshToken, ExchangeToken
<1>4. ASSUME NEW s \in Sids, NEW k \in 1 .. MaxGen, TokenExpires(s, k) PROVE Goal
  BY <1>4 DEF TokenExpires
<1>5. ASSUME NEW s \in Sids, NEW k \in 1 .. MaxGen, DeleteExpiredMobileRefreshTokens(s, k) PROVE Goal
  BY <1>5 DEF DeleteExpiredMobileRefreshTokens
<1>6. ASSUME NEW a \in Accounts, EraseDatabase(a) PROVE Goal
  BY <1>6 DEF EraseDatabase
<1> QED
  BY <1>1, <1>2, <1>3, <1>4, <1>5, <1>6 DEF FamilyStep

\* Every step opens, closes or leaves alone each session, as SessionLifecycle allows.
LEMMA LifeStep == IInv /\ [Next]_vars => [Lifecycle!Next]_life
<1> SUFFICES ASSUME IInv, [Next]_vars PROVE [Lifecycle!Next]_life
  OBVIOUS
<1>0. TypeOK /\ ChainInv /\ RequestInv /\ FamilyStep
  BY FamilySteps DEF IInv
<1>1. ASSUME NEW r \in Requests, NEW s \in Sids, InsertMobileRefreshToken(r, s) PROVE Lifecycle!Open(s)
  <2>1. gen[s] = 0 /\ revoked[s] = {} /\ expired[s] = {}
    BY <1>0, <1>1 DEF InsertMobileRefreshToken, ChainInv, ChainOK, TypeOK
  <2>2. gen'[s] = 1 /\ rows'[s] = {1} /\ revoked'[s] = {} /\ expired'[s] = {}
    BY <1>0, <1>1, <2>1 DEF InsertMobileRefreshToken, TypeOK
  <2>3. ASSUME NEW x \in Sids, x # s
        PROVE gen'[x] = gen[x] /\ rows'[x] = rows[x] /\ revoked'[x] = revoked[x] /\ expired'[x] = expired[x]
    BY <1>0, <1>1, <2>3 DEF InsertMobileRefreshToken, TypeOK
  <2>4. life'[s] = "open" /\ life[s] = "none"
    BY <2>1, <2>2 DEF life, IsMobileSessionActive
  <2>5. \A x \in Sids : x # s => life'[x] = life[x]
    BY <2>3 DEF life, IsMobileSessionActive
  <2>6. life' = [life EXCEPT ![s] = "open"]
    BY <2>4, <2>5 DEF life
  <2> QED BY <2>4, <2>6 DEF Lifecycle!Open
<1>2. CASE ~ \E r \in Requests, s \in Sids : InsertMobileRefreshToken(r, s)
  <2> DEFINE S == {x \in Sids : life[x] = "open" /\ life'[x] = "closed"}
  <2>1. ASSUME NEW x \in Sids PROVE life'[x] = life[x] \/ (life[x] = "open" /\ life'[x] = "closed")
    <3>1. (gen'[x] = 0 <=> gen[x] = 0) /\ (IsMobileSessionActive(x)' => IsMobileSessionActive(x))
      BY <1>0, <1>2, OnlyLoginsOpen
    <3>2. life[x] = IF gen[x] = 0 THEN "none" ELSE IF IsMobileSessionActive(x) THEN "open" ELSE "closed"
      BY DEF life
    <3>3. life'[x] = IF gen'[x] = 0 THEN "none" ELSE IF IsMobileSessionActive(x)' THEN "open" ELSE "closed"
      BY DEF life
    <3> QED BY <3>1, <3>2, <3>3
  <2>2. life' = [s \in Sids |-> IF s \in S THEN "closed" ELSE life[s]]
    <3>1. life' = [s \in Sids |-> life'[s]]
      BY DEF life
    <3> QED BY <2>1, <3>1
  <2>3. S \in SUBSET Sids /\ \A s \in S : life[s] = "open"
    OBVIOUS
  <2> HIDE DEF S
  <2>4. Lifecycle!Close(S)
    BY <2>2, <2>3 DEF Lifecycle!Close
  <2> QED BY <2>3, <2>4 DEF Lifecycle!Next
<1> QED BY <1>1, <1>2 DEF Lifecycle!Next

\* A session that has ended is never accepted again: the token table implements SessionLifecycle
\* (RotateMobileRefreshToken, IsMobileSessionActive and every statement that sets REVOKED_AT).
THEOREM Refinement == Spec => ImplementsLifecycle
<1>1. Init => Lifecycle!Init
  BY DEF Init, Lifecycle!Init, life
<1> QED
  BY <1>1, LifeStep, Invariance, PTL DEF Spec, ImplementsLifecycle, Lifecycle!Spec

-----------------------------------------------------------------------------
(* What may take a registration away.                                      *)

Released(d, s) ==
    \/ LiveTokens(s)' = {}
    \/ \E r \in Requests :
          /\ req[r].acct = device[d].acct
          /\ req[r].pc = "devices" \/ (req[r].pc = "unregister" /\ req[r].by = s)
    \/ push.pc = "delete" /\ push.dev = d /\ push.sid = s

\* The step form of ReachableUntilReleased: which step may take a reachable device away.
LEMMA ReleaseStep ==
    ASSUME IInv, [Next]_vars, NEW d \in Devices, NEW s \in Sids, device[d].sid = s, Reachable(d), ~Reachable(d)'
    PROVE  Released(d, s)
<1>0. /\ TypeOK /\ ChainInv /\ RequestInv /\ s # None
      /\ device[d].acct = owner[s] /\ owner[s] # None
  BY ConstantsAssumption DEF IInv, DeviceInv
<1>1. ASSUME device'[d] = device[d] PROVE Released(d, s)
  BY <1>0, <1>1 DEF Reachable, Released
<1>2. ASSUME NEW S, s \in S, Revoke(S), UNCHANGED rows PROVE Released(d, s)
  BY <1>2 DEF Revoke, LiveTokens, Released
<1>3. ASSUME NEW r \in Requests, RequestStep(r) PROVE Released(d, s)
  <2>1. ASSUME RevokeSessionsDevices(r) PROVE Released(d, s)
    <3>1. device'[d] = device[d] \/ device[d].acct = req[r].acct
      BY <1>0, <2>1 DEF RevokeSessionsDevices, DeletePushDevicesByUser
    <3> QED BY <1>1, <2>1, <3>1 DEF RevokeSessionsDevices, Released
  <2>2. ASSUME RegisterSessionDevice(r) PROVE Released(d, s)
    <3>1. CASE req[r].gen \in LiveTokens(req[r].by) /\ device'[d] = [acct |-> req[r].acct, sid |-> req[r].by]
      <4>1. req[r].by # None /\ LiveTokens(req[r].by) # {} /\ UNCHANGED <<rows, consumed, revoked, expired>>
        BY <1>0, <2>2, <3>1, ConstantsAssumption DEF RequestInv, RequestOK, RegisterSessionDevice, families
      <4>2. device'[d].sid = req[r].by
        BY <3>1
      <4> QED BY <4>1, <4>2 DEF Reachable, LiveTokens
    <3> QED BY <1>0, <1>1, <2>2, <3>1 DEF RegisterSessionDevice, BindDevice, TypeOK
  <2>3. ASSUME RegisterLegacyDevice(r) PROVE Released(d, s)
    BY <1>0, <1>1, <2>3 DEF RegisterLegacyDevice, TypeOK
  <2>4. ASSUME UnregisterDevice(r) PROVE Released(d, s)
    <3>1. device'[d] = device[d] \/ (device[d].acct = req[r].acct /\ req[r].by = s)
      BY <1>0, <2>4 DEF UnregisterDevice, UnregisterScoped, TypeOK
    <3> QED BY <1>1, <2>4, <3>1 DEF UnregisterDevice, Released
  <2> QED
    BY <1>1, <1>3, <2>1, <2>2, <2>3, <2>4 DEF RequestStep, InsertMobileRefreshToken, RefuseRefresh,
         RotateMobileRefreshToken, ExchangeToken, LoginWithBridge, LogoutCurrent, RevokeSessionsLegacy,
         RevokeAllMobileSessions, RegisterCandidate, CreateDeletionRequest, AppleConsentRevokedLegacy
<1>4. ASSUME NEW r \in Requests, RequestArrives(r) PROVE Released(d, s)
  BY <1>1, <1>4 DEF RequestArrives, Authenticate, OperatorWithdraws, AppleConsentRevoked, WebLoginRequest,
       RefreshRequest, AuthenticatedRequest, DeviceRequest
<1>5. ASSUME ProofArrives PROVE Released(d, s)
  <2>1. ASSUME NEW x \in Sids, NEW k \in 1 .. MaxGen, NEW e, RevokeMobileSessionByProof(x, k, e) PROVE Released(d, s)
    <3>1. device'[d] = device[d] \/ x = s
      BY <1>0, <2>1 DEF RevokeMobileSessionByProof, UnregisterScoped, TypeOK
    <3>2. CASE x = s /\ k \in revoked[s]
      <4>1. revoked[s] = rows[s] /\ UNCHANGED <<rows, revoked>>
        BY <1>0, <2>1, <3>2 DEF RevokeMobileSessionByProof, ChainInv, ChainOK
      <4> QED BY <4>1 DEF LiveTokens, Released
    <3>3. CASE x = s /\ k \notin revoked[s]
      BY <1>2, <2>1, <3>3 DEF RevokeMobileSessionByProof
    <3> QED BY <1>1, <3>1, <3>2, <3>3
  <2>2. ASSUME NEW x \in Sids, NEW k \in 1 .. MaxGen, RevokeAllSessionsByProof(x, k) PROVE Released(d, s)
    <3>1. device'[d] = device[d] \/ s \in SidsOf(owner[x])
      BY <1>0, <2>2 DEF RevokeAllSessionsByProof, EndAccountSessions, DeletePushDevicesByUser, SidsOf
    <3> QED BY <1>1, <1>2, <2>2, <3>1 DEF RevokeAllSessionsByProof, EndAccountSessions
  <2> QED BY <1>5, <2>1, <2>2 DEF ProofArrives
<1>6. ASSUME PushStep PROVE Released(d, s)
  <2>1. ASSUME DeleteDeliveryTarget PROVE Released(d, s)
    <3>1. device'[d] = device[d] \/ (push.dev = d /\ device[d] = [acct |-> push.acct, sid |-> push.sid])
      BY <1>0, <2>1 DEF DeleteDeliveryTarget, TypeOK
    <3> QED BY <1>1, <2>1, <3>1 DEF DeleteDeliveryTarget, Released
  <2> QED BY <1>1, <1>6, <2>1 DEF PushStep, ListDevices, NextTarget, CheckTarget, SendDone, SendTransient, SendInvalid
<1>7. ASSUME Environment PROVE Released(d, s)
  <2>1. ASSUME NEW a \in Accounts, EraseDatabase(a) PROVE Released(d, s)
    <3>1. device'[d] = device[d] \/ owner[s] = a
      BY <1>0, <2>1 DEF EraseDatabase, DeletePushDevicesByUser
    <3>2. owner[s] = a => rows'[s] = {}
      BY <2>1 DEF EraseDatabase
    <3> QED BY <1>1, <3>1, <3>2 DEF Released, LiveTokens
  <2> QED
    BY <1>1, <1>7, <2>1 DEF Environment, CancelDeletion, AdminUpdatesStatus, ConfirmResetAtomically,
         TokenExpires, DeleteExpiredMobileRefreshTokens, WebSessionExpires, Crash
<1> QED
  BY <1>1, <1>3, <1>4, <1>5, <1>6, <1>7 DEF Next, vars

\* Delayed work of another session, a browser or another account never takes a reachable device away
\* (DeleteDeliveryTarget, UnregisterDeviceForSession, revokeSessionsByProof, pushRegistrationSQL).
THEOREM ReleasedOnly == Spec => ReachableUntilReleased
<1> DEFINE Release == \A d \in Devices, s \in Sids : device[d].sid = s /\ Reachable(d) /\ ~Reachable(d)' => Released(d, s)
<1>1. IInv /\ [Next]_vars => [Release]_vars
  BY ReleaseStep
<1>2. Spec => [][Release]_vars
  BY <1>1, Invariance, PTL DEF Spec
<1> QED
  BY <1>2 DEF ReachableUntilReleased, Released
=============================================================================
