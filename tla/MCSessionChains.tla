--------------------------- MODULE MCSessionChains ---------------------------
(***************************************************************************)
(* One member's sessions in two scenes, each with the bounds its questions *)
(* need:                                                                   *)
(*   chain  one session with up to three tokens, two requests in flight,   *)
(*          every way to end it, one fault, no device                      *)
(*   push   two sessions with up to three tokens between them that share   *)
(*          a device, one request in flight, a push worker at work         *)
(***************************************************************************)
EXTENDS MobileSessions, FiniteSetsExt, TLC

VARIABLE scene

SessionSymmetry == Permutations(Sids) \union Permutations(Requests)

InFlight == {r \in Requests : req[r] # Idle}

ChainBounds ==
    /\ Cardinality({s \in Sids : gen[s] > 0}) <= 1
    /\ push = NoPush
    /\ \A r \in Requests : req[r].pc \notin {"register", "lock", "unregister"}

\* Logins, refreshes, registrations, proofs, expiry and the push worker.
PushNext ==
    \/ \E r \in Requests :
          \/ RequestStep(r)
          \/ \E a \in Accounts : Authenticate(r, a)
          \/ \E s \in Sids, k \in 1 .. 2 : RefreshRequest(r, s, k)
          \/ \E s \in Sids, op \in {"register", "unregister"}, d \in Devices :
                DeviceRequest(r, s, op, d)
    \/ ProofArrives
    \/ PushStep
    \/ \E s \in Sids, k \in 1 .. 2 : TokenExpires(s, k) \/ DeleteExpiredMobileRefreshTokens(s, k)

PushBounds ==
    /\ MapThenSumSet(LAMBDA s : gen[s], Sids) <= 3
    /\ Cardinality(InFlight) <= 1

MCInit == Init /\ scene \in {"chain", "push"}

MCNext ==
    \/ scene = "chain" /\ Next /\ UNCHANGED scene /\ ChainBounds'
    \/ scene = "push" /\ PushNext /\ UNCHANGED scene /\ PushBounds'

MCSpec == MCInit /\ [][MCNext]_<<scene, vars>>
=============================================================================
