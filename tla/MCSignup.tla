------------------------------ MODULE MCSignup ------------------------------
(* Small instances of Signup, in four scenes: codes alone, the first of them *)
(* guessed; one token whose photo is replaced; two tokens whose forms may    *)
(* name the same photo; two confirmations of the code that a form uses.  A   *)
(* fifth scene is the passwords of a member who has one credential already.  *)
EXTENDS Signup, TLC

CONSTANTS Providers, Words, FirstWord, Logins, Confirmations, Adopted, MaxResetTokens, MaxHashes

\* The identities that have a credential are the member's own.
ASSUME PasswordAssumption == Adopted \subseteq Providers

VARIABLES scene, legacy, credential, resetTokens, login, confirmation, hashes, current, resetsDone

memberPasswords == <<legacy, credential, resetTokens, login, confirmation, hashes, current, resetsDone>>

P == INSTANCE Passwords

MCInit == Init /\ P!Init /\ scene \in {"codes", "replace", "share", "evidence", "passwords"}

Unused(ts, fs) ==
    /\ \A t \in ts : entry'[t].status = "absent"
    /\ \A f \in fs : file'[f] = "none"

\* In the scenes with photos the one code is confirmed at once and never ages.
Steady ==
    /\ storeFaults' = 0 /\ (Len(codes') = 1 => guesses'[1] <= 1)
    /\ \A r \in DOMAIN codes' : codes'[r].known /\ ~codes'[r].expired /\ codes'[r].attempts = 0
    /\ \A c \in Checkers : checking'[c].pc # "wrong"

MCNext ==
    /\ UNCHANGED scene
    /\ \/ scene = "passwords" /\ P!Next /\ UNCHANGED vars
       \/ scene = "codes" /\ PhoneNext /\ UNCHANGED <<signupVars, memberPasswords>>
       \/ scene \in {"replace", "share", "evidence"} /\ Next /\ UNCHANGED memberPasswords
          /\ Len(codes') + Cardinality({q \in Requesters : asking'[q].pc # "idle"}) <= 1
    /\ scene \in {"replace", "share"} => Steady
    /\ scene \in {"replace", "evidence"} => \E t \in Tokens : Unused(Tokens \ {t}, {})
    /\ scene = "share" => \E f \in Files : Unused({}, Files \ {f})
    /\ scene = "evidence" => Unused({}, Files) /\ storeFaults' = 0
    /\ scene = "codes" => \A c \in Checkers : checking'[c].pc # "idle" => checking'[c].row = 1

MCSpec == MCInit /\ [][MCNext]_<<vars, memberPasswords, scene>>

\* A password that was set stays set (Passwords).
PasswordsStaySet == P!PasswordsStaySet

Interchangeable ==
    Permutations(Forms) \union Permutations(Files) \union Permutations(Tokens)
        \union Permutations(Identities) \union Permutations(Checkers)
=============================================================================
