-------------------------- MODULE MCMobileSessions --------------------------
(***************************************************************************)
(* Two members who pass one device between two sessions: logins, logouts,  *)
(* proofs, registrations and what cleans up after them.                    *)
(***************************************************************************)
EXTENDS MobileSessions, TLC

SessionSymmetry == Permutations(Accounts) \union Permutations(Sids) \union Permutations(Requests)

MCNext ==
    \/ \E r \in Requests :
          \/ \E a \in Accounts : Authenticate(r, a) \/ \E b \in Browsers : WebLoginRequest(r, a, b)
          \/ \E s \in Sids : InsertMobileRefreshToken(r, s)
          \/ LoginWithBridge(r)
          \/ \E p \in Principals :
                \/ \E op \in {"logout", "logoutall"} : AuthenticatedRequest(r, p, op)
                \/ \E op \in {"register", "unregister"}, d \in Devices : DeviceRequest(r, p, op, d)
          \/ LogoutCurrent(r)
          \/ RevokeSessionsLegacy(r) \/ RevokeAllMobileSessions(r) \/ RevokeSessionsDevices(r)
          \/ RegisterCandidate(r) \/ RegisterSessionDevice(r) \/ RegisterLegacyDevice(r)
          \/ UnregisterDevice(r)
    \/ ProofArrives
    \/ \E s \in Sids, k \in 1 .. MaxGen : DeleteExpiredMobileRefreshTokens(s, k)
    \/ \E b \in Browsers : WebSessionExpires(b)
    \/ Crash

MCSpec == Init /\ [][MCNext]_vars
=============================================================================
