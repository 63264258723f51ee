-------------------------- MODULE DeletionContract --------------------------
(***************************************************************************)
(* What an account deletion promises to the member, whoever carries it     *)
(* out: the automatic worker, an operator by hand, or both in turn.        *)
(*   - it can be cancelled until it is started and never after;            *)
(*   - provider links are revoked only once it is started;                 *)
(*   - the account is erased only when no revocation is owed any more;     *)
(*   - it is completed only when the account is erased.                    *)
(***************************************************************************)
CONSTANTS Members, Providers

VARIABLES
    phase,  \* phase[m]: how far the deletion of the account has come
    owed    \* owed[m]: the providers that still hold an authorization

Phases == {"none", "open", "started", "erased", "closed", "cancelled"}

Init ==
    /\ phase = [m \in Members |-> "none"]
    /\ owed = [m \in Members |-> {}]

Move(m, from, to) ==
    /\ phase[m] = from
    /\ phase' = [phase EXCEPT ![m] = to]

Request(m) == Move(m, "none", "open") /\ \E S \in SUBSET Providers : owed' = [owed EXCEPT ![m] = S]
Cancel(m) == Move(m, "open", "cancelled") /\ UNCHANGED owed
Start(m) == Move(m, "open", "started") /\ UNCHANGED owed

Revoke(m) ==
    /\ phase[m] = "started"
    /\ \E p \in Providers : owed' = [owed EXCEPT ![m] = @ \ {p}]
    /\ UNCHANGED phase

Erase(m) == Move(m, "started", "erased") /\ owed[m] = {} /\ UNCHANGED owed
Close(m) == Move(m, "erased", "closed") /\ owed[m] = {} /\ UNCHANGED owed

Next == \E m \in Members : Request(m) \/ Cancel(m) \/ Start(m) \/ Revoke(m) \/ Erase(m) \/ Close(m)

Spec == Init /\ [][Next]_<<phase, owed>>
=============================================================================
