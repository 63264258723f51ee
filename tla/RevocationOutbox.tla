-------------------------- MODULE RevocationOutbox --------------------------
(***************************************************************************)
(* What the account-deletion rows of the social revocation outbox promise  *)
(* to the rest of the system, without workers, claims or attempts.         *)
(* SocialRevocation implements it; AccountErasure relies on it.            *)
(***************************************************************************)
CONSTANT Rows

VARIABLES
    row,  \* row[r]: STATUS of the outbox row, "ABSENT" if there is none
    done  \* done[r]: the provider has carried out a revocation of the link

Statuses == {"ABSENT", "PENDING", "REVOKED", "DELIVERED", "FAILED", "FINALIZE_FAILED"}
Proof == {"REVOKED", "FINALIZE_FAILED", "DELIVERED"}

Init ==
    /\ row = [r \in Rows |-> "ABSENT"]
    /\ done = [r \in Rows |-> FALSE]

\* A deletion request starts: its links are queued for revocation.
Enqueue(S) ==
    /\ row' = [r \in Rows |-> IF r \in S /\ row[r] = "ABSENT" THEN "PENDING" ELSE row[r]]
    /\ UNCHANGED done

\* The provider revokes a queued link; a lost answer leaves the row as it is.
Revoke(r) ==
    /\ row[r] # "ABSENT"
    /\ done' = [done EXCEPT ![r] = TRUE]
    /\ UNCHANGED row

\* A worker or an operator moves the row.  Only a real revocation may be
\* reported as one, and a delivered row may only fall back to REVOKED.
Report(r, s) ==
    /\ row[r] # "ABSENT" /\ s # "ABSENT"
    /\ s \in Proof => done[r]
    /\ row[r] = "DELIVERED" => s \in {"DELIVERED", "REVOKED"}
    /\ row' = [row EXCEPT ![r] = s]
    /\ UNCHANGED done

\* The completed request drops its delivered rows.
Forget(S) ==
    /\ row' = [r \in Rows |-> IF r \in S /\ row[r] = "DELIVERED" THEN "ABSENT" ELSE row[r]]
    /\ UNCHANGED done

Next ==
    \/ \E S \in SUBSET Rows : Enqueue(S) \/ Forget(S)
    \/ \E r \in Rows : Revoke(r) \/ \E s \in Statuses : Report(r, s)

Spec == Init /\ [][Next]_<<row, done>>
=============================================================================
