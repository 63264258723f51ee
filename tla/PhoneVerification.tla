-------------------------- MODULE PhoneVerification --------------------------
(***************************************************************************)
(* One-time codes sent by SMS and the grants a right code earns            *)
(* (service/phone_verification_service.go and its repository).  A row of   *)
(* ALUMNI_PHONE_VERIFICATION is read and written by separate statements    *)
(* outside a transaction, so requests for codes and confirmations overlap. *)
(***************************************************************************)
EXTENDS Integers, Sequences, FiniteSets

CONSTANTS
    Phones,
    Requesters,          \* requests for a code that may be under way together
    Checkers,            \* confirmations that may be under way together
    CodeMaxAttempts,     \* phoneCodeMaxAttempts, 5
    RequestsPerWindow,   \* phoneRequestsPerWindow, 5
    MaxCodes,            \* bound: rows ever inserted
    MaxStoreFaults       \* bound: statements of a confirmation that fail

ASSUME PhoneAssumption ==
    /\ CodeMaxAttempts \in Nat \ {0} /\ RequestsPerWindow \in Nat \ {0}
    /\ MaxCodes \in Nat /\ MaxStoreFaults \in Nat
    /\ IsFiniteSet(Checkers) /\ IsFiniteSet(Requesters)

VARIABLES
    codes,     \* the rows, in the order they were inserted
    asking,    \* requests for a code between the count and the insert
    checking,  \* confirmations between the read and the write
    issued,    \* grants handed out: the row each belongs to
    guesses,   \* history: codes compared with each row
    storeFaults

phoneVars == <<codes, asking, checking, issued, guesses, storeFaults>>

IdleAsk   == [pc |-> "idle"]
IdleCheck == [pc |-> "idle"]

\* A row: "recent" while the request window covers it, "known" when the caller
\* was told its identifier, "owner" the member that spent the grant (0: none).
Row == [phone : Phones, recent : BOOLEAN, known : BOOLEAN, attempts : Nat, expired : BOOLEAN,
        verified : BOOLEAN, grant : Nat, grantExpired : BOOLEAN, owner : Nat, deleted : BOOLEAN]

PhoneInit ==
    /\ codes = <<>> /\ issued = <<>> /\ guesses = <<>> /\ storeFaults = 0
    /\ asking = [q \in Requesters |-> IdleAsk]
    /\ checking = [c \in Checkers |-> IdleCheck]

-----------------------------------------------------------------------------
(* Asking for a code *)

CountRecentRequests(p) ==
    Cardinality({r \in DOMAIN codes : codes[r].phone = p /\ codes[r].recent /\ ~codes[r].deleted})

\* The throttle, also of a review test number.
MayRequestCode(p) == CountRecentRequests(p) < RequestsPerWindow

RequestCode(q, p) ==
    /\ asking[q].pc = "idle" /\ MayRequestCode(p)
    /\ asking' = [asking EXCEPT ![q] = [pc |-> "insert", phone |-> p]]
    /\ UNCHANGED <<codes, checking, issued, guesses, storeFaults>>

InsertVerification(p, sent) ==
    /\ Len(codes) < MaxCodes
    /\ codes' = Append(codes, [phone |-> p, recent |-> TRUE, known |-> sent, attempts |-> 0,
                               expired |-> FALSE, verified |-> FALSE, grant |-> 0,
                               grantExpired |-> FALSE, owner |-> 0, deleted |-> FALSE])

\* The row stays when the message cannot be sent, but its identifier is then
\* never returned.
SendCode(q, sent) ==
    /\ asking[q].pc = "insert"
    /\ InsertVerification(asking[q].phone, sent)
    /\ guesses' = Append(guesses, 0)
    /\ asking' = [asking EXCEPT ![q] = IdleAsk]
    /\ UNCHANGED <<checking, issued, storeFaults>>

-----------------------------------------------------------------------------
(* Confirming a code *)

FindPendingVerification(r) ==
    codes[r].known /\ ~codes[r].verified /\ ~codes[r].expired /\ ~codes[r].deleted

\* A faulty variant of MayConfirm: the attempts are not looked at.
MayConfirmUncounted(r) == FindPendingVerification(r)

MayConfirm(r) == FindPendingVerification(r) /\ codes[r].attempts < CodeMaxAttempts

\* The row is read, its attempts are checked and the code is compared.
ConfirmCode(c, r, right) ==
    /\ checking[c].pc = "idle" /\ MayConfirm(r)
    /\ checking' = [checking EXCEPT ![c] = [pc |-> IF right THEN "right" ELSE "wrong", row |-> r]]
    /\ guesses' = [guesses EXCEPT ![r] = @ + 1]
    /\ UNCHANGED <<codes, asking, issued, storeFaults>>

IncrementAttempts(c) ==
    /\ checking[c].pc = "wrong"
    /\ codes' = [codes EXCEPT ![checking[c].row].attempts = @ + 1]
    /\ checking' = [checking EXCEPT ![c].pc = "counted"]
    /\ UNCHANGED <<asking, issued, guesses, storeFaults>>

ExpireVerification(r) == codes' = [codes EXCEPT ![r].expired = TRUE]

\* The count is read again; at the limit the row expires at once.
CountMismatch(c) ==
    /\ checking[c].pc = "counted"
    /\ IF codes[checking[c].row].attempts >= CodeMaxAttempts
       THEN ExpireVerification(checking[c].row)
       ELSE UNCHANGED codes
    /\ checking' = [checking EXCEPT ![c] = IdleCheck]
    /\ UNCHANGED <<asking, issued, guesses, storeFaults>>

\* A faulty variant of MarkVerified: a new grant makes the row usable again.
MarkVerifiedAfresh(r, g) ==
    codes' = [codes EXCEPT ![r].verified = TRUE, ![r].grant = g, ![r].grantExpired = FALSE, ![r].owner = 0]

\* The update names the row only: a second confirmation that read the row
\* before the first one wrote it replaces the first one's grant.
MarkVerified(r, g) ==
    codes' = [codes EXCEPT ![r].verified = TRUE, ![r].grant = g, ![r].grantExpired = FALSE]

IssueGrant(c) ==
    /\ checking[c].pc = "right"
    /\ MarkVerified(checking[c].row, Len(issued) + 1)
    /\ issued' = Append(issued, checking[c].row)
    /\ checking' = [checking EXCEPT ![c] = IdleCheck]
    /\ UNCHANGED <<asking, guesses, storeFaults>>

\* Any of the statements above returns an error and the request ends.
ConfirmFails(c) ==
    /\ checking[c].pc # "idle" /\ storeFaults < MaxStoreFaults
    /\ storeFaults' = storeFaults + 1
    /\ checking' = [checking EXCEPT ![c] = IdleCheck]
    /\ UNCHANGED <<codes, asking, issued, guesses>>

-----------------------------------------------------------------------------
(* Grants *)

\* FindUsableGrant, and the condition of the update that spends a grant.
UsableGrant(g, p) ==
    \E r \in DOMAIN codes :
        /\ codes[r].grant = g /\ g # 0 /\ codes[r].phone = p /\ codes[r].verified
        /\ codes[r].owner = 0 /\ ~codes[r].grantExpired /\ ~codes[r].deleted

\* "AssertPhoneVerified": a grant that is presented, and is for this number.
AssertPhoneVerified(g, p) == g \in DOMAIN issued /\ UsableGrant(g, p)

RowOfGrant(g) == CHOOSE r \in DOMAIN codes : codes[r].grant = g

-----------------------------------------------------------------------------
(* Time *)

\* A code lives 5 minutes, a grant 30, the request window is an hour.
CodeExpires(r) ==
    /\ ~codes[r].expired
    /\ codes' = [codes EXCEPT ![r].expired = TRUE]
    /\ UNCHANGED <<asking, checking, issued, guesses, storeFaults>>

GrantExpires(r) ==
    /\ codes[r].grant # 0 /\ ~codes[r].grantExpired /\ codes[r].expired
    /\ codes' = [codes EXCEPT ![r].grantExpired = TRUE]
    /\ UNCHANGED <<asking, checking, issued, guesses, storeFaults>>

WindowPasses(r) ==
    /\ codes[r].recent /\ codes[r].expired /\ (codes[r].grant # 0 => codes[r].grantExpired)
    /\ \A q \in 1..(r - 1) : ~codes[q].recent
    /\ codes' = [codes EXCEPT ![r].recent = FALSE]
    /\ UNCHANGED <<asking, checking, issued, guesses, storeFaults>>

\* The retention job removes old rows that can no longer be used.
DeleteExpiredBefore(r) ==
    /\ ~codes[r].recent /\ ~codes[r].deleted
    /\ codes[r].owner # 0 \/ (codes[r].expired /\ (codes[r].grant = 0 \/ codes[r].grantExpired))
    /\ \A c \in Checkers : checking[c].pc # "idle" => checking[c].row # r
    /\ codes' = [codes EXCEPT ![r].deleted = TRUE]
    /\ UNCHANGED <<asking, checking, issued, guesses, storeFaults>>

PhoneNext ==
    \/ \E q \in Requesters, p \in Phones : RequestCode(q, p)
    \/ \E q \in Requesters, sent \in BOOLEAN : SendCode(q, sent)
    \/ \E c \in Checkers :
        \/ \E r \in DOMAIN codes, right \in BOOLEAN : ConfirmCode(c, r, right)
        \/ IncrementAttempts(c) \/ CountMismatch(c) \/ IssueGrant(c) \/ ConfirmFails(c)
    \/ \E r \in DOMAIN codes :
        CodeExpires(r) \/ GrantExpires(r) \/ WindowPasses(r) \/ DeleteExpiredBefore(r)

-----------------------------------------------------------------------------
(* Properties *)

\* The throttle of RequestCode: codes sent for a number within the window
\* exceed the limit only by the requests that counted before another inserted.
RequestsBounded ==
    \A p \in Phones : CountRecentRequests(p) <= RequestsPerWindow + Cardinality(Requesters) - 1

\* The attempt limit of ConfirmCode: a row is compared with at most the allowed
\* number of codes, plus one for each confirmation that was already past the
\* check and each count that a store failure lost.
GuessesBounded ==
    \A r \in DOMAIN codes :
        guesses[r] <= CodeMaxAttempts - 1 + Cardinality(Checkers) + storeFaults

\* A number cannot be flooded with codes nor a code guessed at will: both limits
\* hold up to the requests that were already past their check.
CodesBounded == RequestsBounded /\ GuessesBounded
=============================================================================
