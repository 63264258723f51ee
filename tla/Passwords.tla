------------------------------ MODULE Passwords ------------------------------
(***************************************************************************)
(* The passwords of one member: the legacy column, a credential per login  *)
(* identity, logins that rehash or adopt them, password changes and reset  *)
(* links (service/canonical_password_service.go, member_service.go,        *)
(* password_reset_service.go, password_change_service.go and the           *)
(* repositories).  A change is one transaction that locks the member row   *)
(* first; a reset reads its token before it locks; a login is a sequence   *)
(* of separate statements.                                                 *)
(***************************************************************************)
EXTENDS Integers, Sequences, FiniteSets

CONSTANTS
    Providers,       \* password identities of the member: LOCAL_USERNAME, EMAIL
    Words,           \* passwords
    FirstWord,       \* the password the member starts with
    Logins,          \* logins that may be under way together
    Confirmations,   \* reset confirmations that may be under way together
    Adopted,         \* the identities that already have a credential
    MaxResetTokens, MaxHashes    \* bounds

VARIABLES
    legacy,      \* WEO_MEMBER.USR_PWD
    credential,  \* AUTH_PASSWORD_CREDENTIAL per identity
    resetTokens, \* ALUMNI_PASSWORD_RESET: used, expired, and sent by mail
    login,       \* logins in progress
    confirmation,\* reset transactions past their first read
    hashes,      \* hashes ever made: each has a salt of its own
    current,     \* history: the password last set by a change or a reset
    resetsDone   \* history: resets that succeeded

passwordVars == <<legacy, credential, resetTokens, login, confirmation, hashes, current, resetsDone>>

NoCredential == [present |-> FALSE]

\* A stored credential: the password it accepts, the hash that encodes it and
\* whether the hash is of an older algorithm or parameters.
Credential(w, h, old) == [present |-> TRUE, word |-> w, hash |-> h, old |-> old]

IdleLogin == [pc |-> "idle"]

Init ==
    /\ legacy = FirstWord /\ current = FirstWord
    /\ credential = [p \in Providers |-> IF p \in Adopted THEN Credential(FirstWord, 1, TRUE) ELSE NoCredential]
    /\ hashes = 1 /\ resetTokens = <<>> /\ resetsDone = 0
    /\ login = [l \in Logins |-> IdleLogin]
    /\ confirmation = [c \in Confirmations |-> 0]

NewHash == hashes < MaxHashes /\ hashes' = hashes + 1

-----------------------------------------------------------------------------
(* Logging in *)

\* authenticateIdentity: what the credential that was read says of a password.
AuthenticateIdentity(cred, word) ==
    IF ~cred.present THEN "absent"
    ELSE IF cred.word # word THEN "rejected"
    ELSE IF cred.old THEN "rehash" ELSE "authenticated"

\* LoginWithPassword: the credential is read and the password verified.
LoginWithPassword(l, p, word) ==
    LET verdict == AuthenticateIdentity(credential[p], word)
    IN /\ login[l].pc = "idle" /\ verdict \in {"absent", "rehash"}
       /\ login' = [login EXCEPT ![l] = [pc |-> verdict, id |-> p, word |-> word, read |-> credential[p]]]
       /\ UNCHANGED <<legacy, credential, resetTokens, confirmation, hashes, current, resetsDone>>

\* A faulty variant of RehashPasswordCredential: the previous hash is not compared.
RehashBlindly(p, read, word) ==
    credential' = [credential EXCEPT ![p] = Credential(word, hashes + 1, FALSE)]

\* RehashPasswordCredential: the update names the hash that was verified.
RehashPasswordCredential(p, read, word) ==
    credential' = [credential EXCEPT ![p] =
        IF @.present /\ @.hash = read.hash THEN Credential(word, hashes + 1, FALSE) ELSE @]

\* A valid password with an old hash is stored with a new one; when the hash
\* has changed meanwhile the password is verified again.
Rehash(l) ==
    /\ login[l].pc = "rehash" /\ NewHash
    /\ RehashPasswordCredential(login[l].id, login[l].read, login[l].word)
    /\ login' = [login EXCEPT ![l] = IdleLogin]
    /\ UNCHANGED <<legacy, resetTokens, confirmation, current, resetsDone>>

\* Without a credential the legacy column decides.
LegacyLogin(l) ==
    /\ login[l].pc = "absent"
    /\ login' = [login EXCEPT ![l] = IF legacy = login[l].word THEN [@ EXCEPT !.pc = "adopt"] ELSE IdleLogin]
    /\ UNCHANGED <<legacy, credential, resetTokens, confirmation, hashes, current, resetsDone>>

\* StoreIdentityPassword: the upsert has no condition.
StoreIdentityPassword(l) ==
    /\ login[l].pc = "adopt" /\ NewHash
    /\ credential' = [credential EXCEPT ![login[l].id] = Credential(login[l].word, hashes + 1, FALSE)]
    /\ login' = [login EXCEPT ![l] = IdleLogin]
    /\ UNCHANGED <<legacy, resetTokens, confirmation, current, resetsDone>>

\* Any statement of a login fails.
LoginFails(l) ==
    /\ login[l].pc # "idle"
    /\ login' = [login EXCEPT ![l] = IdleLogin]
    /\ UNCHANGED <<legacy, credential, resetTokens, confirmation, hashes, current, resetsDone>>

-----------------------------------------------------------------------------
(* Setting a password *)

\* upsertPasswordCredentialsTx: every active identity gets the new one.
UpsertPasswordCredentials(word) ==
    credential' = [p \in Providers |-> Credential(word, hashes + 1, FALSE)]

SetPassword(word) ==
    /\ NewHash
    /\ UpsertPasswordCredentials(word)
    /\ legacy' = word /\ current' = word

\* The submitted password matches one of the credentials, or the legacy column
\* when there is none.
CurrentPasswordMatches(word) ==
    IF \E p \in Providers : credential[p].present
    THEN \E p \in Providers : credential[p].present /\ credential[p].word = word
    ELSE legacy = word

\* ChangePasswordAtomically.
ChangePassword(old, new) ==
    /\ CurrentPasswordMatches(old)
    /\ SetPassword(new)
    /\ UNCHANGED <<resetTokens, login, confirmation, resetsDone>>

\* RequestReset: the token is stored; the mail is dropped when the queue is full.
RequestReset(sent) ==
    /\ Len(resetTokens) < MaxResetTokens
    /\ resetTokens' = Append(resetTokens, [used |-> FALSE, expired |-> FALSE, sent |-> sent])
    /\ UNCHANGED <<legacy, credential, login, confirmation, hashes, current, resetsDone>>

FindValidToken(t) == ~resetTokens[t].used /\ ~resetTokens[t].expired /\ resetTokens[t].sent

\* ConfirmResetAtomically up to the member's lock: the token is read, and the
\* transaction's later plain reads see this snapshot.
ConfirmReset(c, t) ==
    /\ confirmation[c] = 0 /\ FindValidToken(t)
    /\ confirmation' = [confirmation EXCEPT ![c] = t]
    /\ UNCHANGED <<legacy, credential, resetTokens, login, hashes, current, resetsDone>>

\* The update that retires every unused token must retire one.
ConsumeTokens ==
    /\ \E t \in DOMAIN resetTokens : ~resetTokens[t].used
    /\ resetTokens' = [t \in DOMAIN resetTokens |-> [resetTokens[t] EXCEPT !.used = TRUE]]

\* ConfirmResetAtomically from the lock to the commit.
CommitReset(c, word) ==
    /\ confirmation[c] # 0
    /\ SetPassword(word)
    /\ ConsumeTokens
    /\ confirmation' = [confirmation EXCEPT ![c] = 0]
    /\ resetsDone' = resetsDone + 1
    /\ UNCHANGED login

\* No unused token is left, or the transaction fails.
ResetFails(c) ==
    /\ confirmation[c] # 0
    /\ confirmation' = [confirmation EXCEPT ![c] = 0]
    /\ UNCHANGED <<legacy, credential, resetTokens, login, hashes, current, resetsDone>>

TokenExpires(t) ==
    /\ ~resetTokens[t].expired
    /\ resetTokens' = [resetTokens EXCEPT ![t].expired = TRUE]
    /\ UNCHANGED <<legacy, credential, login, confirmation, hashes, current, resetsDone>>

Next ==
    \/ \E l \in Logins :
        \/ \E p \in Providers, word \in Words : LoginWithPassword(l, p, word)
        \/ Rehash(l) \/ LegacyLogin(l) \/ StoreIdentityPassword(l) \/ LoginFails(l)
    \/ \E old, new \in Words : ChangePassword(old, new)
    \/ \E sent \in BOOLEAN : RequestReset(sent)
    \/ \E c \in Confirmations :
        \/ \E t \in DOMAIN resetTokens : ConfirmReset(c, t)
        \/ \E word \in Words : CommitReset(c, word)
        \/ ResetFails(c)
    \/ \E t \in DOMAIN resetTokens : TokenExpires(t)

Spec == Init /\ [][Next]_passwordVars

-----------------------------------------------------------------------------
(* Properties *)

\* A login that verified the old password and finds it in need of a new hash
\* never puts it back: a credential, once adopted, and the legacy column accept
\* the password that was set last and no other.
RehashKeepsNewPassword ==
    /\ legacy = current
    /\ \A p \in Adopted : credential[p].word = current

\* "ConcurrentRehashDoesNotRestoreOldPassword", asked of every login, the one
\* that adopts the legacy password included.
OldPasswordNotRestored ==
    \A p \in Providers : credential[p].present => credential[p].word = current

\* Every reset that succeeds retires at least one link: links presented twice,
\* or by two confirmations at once, never reset more often than was asked for.
ResetsNeedRequests == resetsDone <= Len(resetTokens)

\* A password that was set stays set: no login under way puts the old one back
\* into an adopted credential, and no link resets it more often than was asked for.
PasswordsStaySet == RehashKeepsNewPassword /\ ResetsNeedRequests
=============================================================================
