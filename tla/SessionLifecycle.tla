-------------------------- MODULE SessionLifecycle --------------------------
(***************************************************************************)
(* What a mobile session promises to the member who ends it: a session is  *)
(* opened once, any number of sessions may be closed at a time (logout     *)
(* everywhere, a password reset), and a closed session is never open       *)
(* again.  Renewing the credentials of an open session changes nothing.    *)
(***************************************************************************)
CONSTANT Sids

VARIABLE life  \* life[s]: "none", "open" or "closed"

Init == life = [s \in Sids |-> "none"]

Open(s) == life[s] = "none" /\ life' = [life EXCEPT ![s] = "open"]

Close(S) ==
    /\ \A s \in S : life[s] = "open"
    /\ life' = [s \in Sids |-> IF s \in S THEN "closed" ELSE life[s]]

Next == (\E s \in Sids : Open(s)) \/ (\E S \in SUBSET Sids : Close(S))

Spec == Init /\ [][Next]_life
=============================================================================
