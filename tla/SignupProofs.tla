----------------------------- MODULE SignupProofs -----------------------------
(***************************************************************************)
(* Proofs about Signup and the PhoneVerification it is built on, for any   *)
(* number of phones, codes, tokens, forms, photos and faults: the limits   *)
(* on codes and guesses, that every photo of a signup is accounted for,    *)
(* and that every member comes of one verified phone and one token.  The   *)
(* last part is about Passwords, the instance P of MCSignup: a password    *)
(* that was set stays set.                                                 *)
(***************************************************************************)
EXTENDS MCSignup, FiniteSetTheorems, SequenceTheorems, TLAPS

\* The states of the parts, in full.
AskStates == {IdleAsk} \union [pc : {"insert"}, phone : Phones]
CheckStates == {IdleCheck} \union [pc : {"right", "wrong", "counted"}, row : DOMAIN codes]

PhoneType ==
    /\ codes \in Seq(Row) /\ guesses \in Seq(Nat) /\ Len(guesses) = Len(codes)
    /\ issued \in Seq(DOMAIN codes) /\ storeFaults \in Nat
    /\ asking \in [Requesters -> AskStates] /\ checking \in [Checkers -> CheckStates]

Photos == Files \union {NoFile}
Entries ==
    [status : {"absent", "consumed", "cancelled"}]
        \union [status : {"ready"}, id : Identities, photo : Photos]
        \union [status : {"processing"}, id : Identities, photo : Photos, lease : Forms]
LinkForms ==
    [pc : {"check", "create", "release", "finalize"}, token : Tokens, id : Identities, phone : Phones,
     grant : DOMAIN issued, photo : Photos, kept : BOOLEAN]
RegisterForms == [pc : {"insert"}, id : Usernames, phone : Phones, grant : DOMAIN issued]
MemberRows ==
    [id : Identities \union Usernames, phone : Phones, photo : Photos, token : Tokens \union {"none"},
     grant : DOMAIN issued, known : BOOLEAN]

StoreType ==
    /\ entry \in [Tokens -> Entries]
    /\ expired \in [Tokens -> BOOLEAN] /\ timer \in [Tokens -> BOOLEAN]
    /\ results \in [Tokens -> SUBSET Files]
PhotoType ==
    /\ file \in [Files -> {"none", "stored", "retired", "gone"}] /\ discard \in [Files -> 0..DiscardTries]
    /\ upload \in [Files -> Tokens \union {"none"}]
FormType ==
    /\ form \in [Forms -> {IdleForm} \union LinkForms \union RegisterForms]
    /\ members \in Seq(MemberRows)

-----------------------------------------------------------------------------
(* Codes and grants *)

\* A grant is a row's only if it was issued for it.
GrantsMatch ==
    \A r \in DOMAIN codes : codes[r].grant # 0 => codes[r].grant \in DOMAIN issued /\ issued[codes[r].grant] = r

\* The confirmations whose guess at row r is not counted yet.
Uncounted(r) == {c \in Checkers : checking[c].pc \in {"wrong", "right"} /\ checking[c].row = r}

\* Every guess at a row that can still be confirmed is counted, about to be,
\* or lost to a fault.
GuessesCounted ==
    \A r \in DOMAIN codes :
        ~codes[r].verified => guesses[r] <= codes[r].attempts + Cardinality(Uncounted(r)) + storeFaults

\* The requests for a code that have counted and not inserted yet.
Asking(p) == {q \in Requesters : asking[q].pc = "insert" /\ asking[q].phone = p}

RequestsCounted ==
    \A p \in Phones :
        CountRecentRequests(p) + Cardinality(Asking(p)) <= RequestsPerWindow + Cardinality(Requesters) - 1

-----------------------------------------------------------------------------
(* Tokens, forms and photos *)

\* A form that is under way holds its token under its own lease.
FormsHoldTheirLease ==
    \A s \in Forms : form[s].pc \in {"check", "create", "release", "finalize"} => Leased(form[s].token, s)

\* What a form keeps is the photo its token had when the lease began.
KeptPhotoIsTheTokens ==
    \A s \in Forms :
        form[s].pc \in {"check", "create"} /\ form[s].kept => form[s].photo = entry[form[s].token].photo

\* The photo a live entry shows is one of the uploads tracked for it.
EntryPhotoTracked ==
    \A t \in Tokens :
        entry[t].status \in {"ready", "processing"} => entry[t].photo \in results[t] \union {NoFile}

\* A photo is somebody's: being uploaded, tracked by one token, or discarded.
TrackedPhotos ==
    \A f \in Files :
        /\ upload[f] \in Tokens \/ (\E t \in Tokens : f \in results[t]) => file[f] = "stored" /\ discard[f] = 0
        /\ upload[f] \in Tokens => \A t \in Tokens : f \notin results[t]
        /\ \A t, u \in Tokens : f \in results[t] /\ f \in results[u] => t = u
        /\ file[f] = "none" => discard[f] = 0

\* The timer of a token is armed as long as it has something to clean up,
\* unless a lease took that over after the time to live.
TimersArmed ==
    \A t \in Tokens :
        /\ results[t] # {} => timer[t] \/ entry[t].status = "processing"
        /\ entry[t].status = "ready" => timer[t] /\ ~expired[t]
        /\ entry[t].status = "processing" => timer[t] \/ expired[t]

\* Between the commit and the end of its request the new member shows the photo.
CommittedPhotoShown ==
    \A s \in Forms : form[s].pc = "finalize" /\ form[s].photo # NoFile => Referenced(form[s].photo)

\* The token of a member that is known to be made is finished, or will be by
\* the form that made the member.
UsedTokensEnd ==
    \A m \in DOMAIN members : members[m].known /\ members[m].token \in Tokens =>
        LET t == members[m].token IN
        \/ entry[t].status = "consumed"
        \/ entry[t].status = "absent" /\ expired[t]
        \/ \E s \in Forms : form[s].pc = "finalize" /\ form[s].token = t

(***************************************************************************)
(* The inductive invariant.  A photo is kept only because each token tracks*)
(* its own uploads and cleans up once, a token serves one form only because*)
(* of the lease it is under, and the limits on codes hold because a guess  *)
(* that is not counted yet is under way in some confirmation.              *)
(***************************************************************************)
PhoneInv == PhoneType /\ GrantsMatch /\ GuessesCounted /\ RequestsCounted /\ GuessesBounded
SignupInv ==
    /\ StoreType /\ PhotoType /\ FormType
    /\ FormsHoldTheirLease /\ KeptPhotoIsTheTokens /\ EntryPhotoTracked /\ TrackedPhotos /\ TimersArmed
    /\ CommittedPhotoShown /\ UsedTokensEnd
    /\ CommittedPhotoKept /\ NoPhotoForgotten /\ MemberHasEvidence
IInv == PhoneInv /\ SignupInv
-----------------------------------------------------------------------------
(* What happens to the rows *)

\* What a step outside PhoneNext does to the rows: a member spends a grant.
GrantSpent ==
    /\ \E r \in DOMAIN codes, m \in Nat : codes' = [codes EXCEPT ![r].owner = m]
    /\ UNCHANGED <<asking, checking, issued, guesses, storeFaults>>

\* And the restart of the process, which forgets every request.
RequestsForgotten ==
    /\ asking' = [q \in Requesters |-> IdleAsk] /\ checking' = [c \in Checkers |-> IdleCheck]
    /\ storeFaults' = storeFaults + Cardinality({c \in Checkers : checking[c].pc \in {"wrong", "right"}})
    /\ UNCHANGED <<codes, issued, guesses>>

\* Steps that do not look at a row's owner or at who is asking.
PhoneStep == PhoneNext \/ GrantSpent \/ RequestsForgotten \/ UNCHANGED phoneVars

\* Writing one row of the table leaves its length and the other rows alone.
LEMMA RowWritten ==
    ASSUME PhoneType, NEW r \in DOMAIN codes, NEW row \in Row, codes' = [codes EXCEPT ![r] = row]
    PROVE  /\ codes' \in Seq(Row) /\ Len(codes') = Len(codes) /\ DOMAIN codes' = DOMAIN codes
           /\ codes'[r] = row /\ \A q \in DOMAIN codes : q # r => codes'[q] = codes[q]
<1>1. codes \in Seq(Row)
  BY DEF PhoneType
<1>2. r \in 1..Len(codes)
  BY <1>1
<1> QED
  BY <1>1, <1>2, ExceptSeq

\* What each column may become: one row, written by a statement that names it.
RowSteps(r) ==
    \/ \E n \in Nat : codes' = [codes EXCEPT ![r].attempts = n]
    \/ codes' = [codes EXCEPT ![r].expired = TRUE]
    \/ \E g \in Nat : MarkVerified(r, g)
    \/ codes' = [codes EXCEPT ![r].grantExpired = TRUE]
    \/ codes' = [codes EXCEPT ![r].recent = FALSE]
    \/ codes' = [codes EXCEPT ![r].deleted = TRUE]
    \/ \E m \in Nat : codes' = [codes EXCEPT ![r].owner = m]

\* The fields such a statement leaves alone.
LEMMA RowStep ==
    ASSUME PhoneType, NEW r \in DOMAIN codes, RowSteps(r)
    PROVE  /\ codes' \in Seq(Row) /\ Len(codes') = Len(codes) /\ DOMAIN codes' = DOMAIN codes
           /\ \A q \in DOMAIN codes : q # r => codes'[q] = codes[q]
           /\ codes'[r].phone = codes[r].phone
<1>0. codes \in Seq(Row) /\ codes[r] \in Row
  BY DEF PhoneType
<1>1. ASSUME NEW n \in Nat, codes' = [codes EXCEPT ![r].attempts = n] PROVE
        \E row \in Row : codes' = [codes EXCEPT ![r] = row] /\ row.phone = codes[r].phone
  <2>1. [codes[r] EXCEPT !.attempts = n] \in Row /\ [codes[r] EXCEPT !.attempts = n].phone = codes[r].phone
    BY <1>0 DEF Row
  <2> QED  BY <1>0, <1>1, <2>1
<1>2. ASSUME codes' = [codes EXCEPT ![r].expired = TRUE] PROVE
        \E row \in Row : codes' = [codes EXCEPT ![r] = row] /\ row.phone = codes[r].phone
  <2>1. [codes[r] EXCEPT !.expired = TRUE] \in Row /\ [codes[r] EXCEPT !.expired = TRUE].phone = codes[r].phone
    BY <1>0 DEF Row
  <2> QED  BY <1>0, <1>2, <2>1
<1>3. ASSUME NEW g \in Nat, MarkVerified(r, g) PROVE
        \E row \in Row : codes' = [codes EXCEPT ![r] = row] /\ row.phone = codes[r].phone
  <2> DEFINE row == [codes[r] EXCEPT !.verified = TRUE, !.grant = g, !.grantExpired = FALSE]
  <2>1. row \in Row /\ row.phone = codes[r].phone
    BY <1>0 DEF Row
  <2>2. codes' = [codes EXCEPT ![r] = row]
    BY <1>0, <1>3 DEF MarkVerified
  <2> QED  BY <2>1, <2>2
<1>4. ASSUME codes' = [codes EXCEPT ![r].grantExpired = TRUE] PROVE
        \E row \in Row : codes' = [codes EXCEPT ![r] = row] /\ row.phone = codes[r].phone
  <2>1. /\ [codes[r] EXCEPT !.grantExpired = TRUE] \in Row
        /\ [codes[r] EXCEPT !.grantExpired = TRUE].phone = codes[r].phone
    BY <1>0 DEF Row
  <2> QED  BY <1>0, <1>4, <2>1
<1>5. ASSUME codes' = [codes EXCEPT ![r].recent = FALSE] PROVE
        \E row \in Row : codes' = [codes EXCEPT ![r] = row] /\ row.phone = codes[r].phone
  <2>1. [codes[r] EXCEPT !.recent = FALSE] \in Row /\ [codes[r] EXCEPT !.recent = FALSE].phone = codes[r].phone
    BY <1>0 DEF Row
  <2> QED  BY <1>0, <1>5, <2>1
<1>6. ASSUME codes' = [codes EXCEPT ![r].deleted = TRUE] PROVE
        \E row \in Row : codes' = [codes EXCEPT ![r] = row] /\ row.phone = codes[r].phone
  <2>1. [codes[r] EXCEPT !.deleted = TRUE] \in Row /\ [codes[r] EXCEPT !.deleted = TRUE].phone = codes[r].phone
    BY <1>0 DEF Row
  <2> QED  BY <1>0, <1>6, <2>1
<1>7. ASSUME NEW m \in Nat, codes' = [codes EXCEPT ![r].owner = m] PROVE
        \E row \in Row : codes' = [codes EXCEPT ![r] = row] /\ row.phone = codes[r].phone
  <2>1. [codes[r] EXCEPT !.owner = m] \in Row /\ [codes[r] EXCEPT !.owner = m].phone = codes[r].phone
    BY <1>0 DEF Row
  <2> QED  BY <1>0, <1>7, <2>1
<1>8. \E row \in Row : codes' = [codes EXCEPT ![r] = row] /\ row.phone = codes[r].phone
  BY <1>1, <1>2, <1>3, <1>4, <1>5, <1>6, <1>7 DEF RowSteps
<1> QED
  BY <1>8, RowWritten

\* Every step keeps the rows and the requests of their kind.
LEMMA PhoneTypeStep ==
    ASSUME PhoneType, PhoneStep
    PROVE  PhoneType'
<1>0. /\ codes \in Seq(Row) /\ guesses \in Seq(Nat) /\ Len(guesses) = Len(codes)
      /\ issued \in Seq(DOMAIN codes) /\ storeFaults \in Nat /\ DOMAIN codes = 1..Len(codes)
      /\ asking \in [Requesters -> AskStates] /\ checking \in [Checkers -> CheckStates]
  BY DEF PhoneType
<1>r. ASSUME NEW r \in DOMAIN codes, RowSteps(r), UNCHANGED <<guesses, issued, asking>>,
             storeFaults' \in Nat, checking' \in [Checkers -> CheckStates] PROVE PhoneType'
  <2>1. codes' \in Seq(Row) /\ Len(codes') = Len(codes) /\ DOMAIN codes' = DOMAIN codes
    BY <1>r, RowStep
  <2> QED  BY <1>0, <1>r, <2>1 DEF PhoneType, CheckStates
<1>1. ASSUME NEW q \in Requesters, NEW p \in Phones, RequestCode(q, p) PROVE PhoneType'
  BY <1>0, <1>1 DEF RequestCode, PhoneType, AskStates, CheckStates
<1>2. ASSUME NEW q \in Requesters, NEW sent \in BOOLEAN, SendCode(q, sent) PROVE PhoneType'
  <2>1. asking[q].phone \in Phones
    BY <1>0, <1>2 DEF SendCode, AskStates, IdleAsk
  <2>2. PICK row \in Row : codes' = Append(codes, row)
    BY <1>2, <2>1 DEF SendCode, InsertVerification, Row
  <2>3. codes' \in Seq(Row) /\ Len(codes') = Len(codes) + 1 /\ DOMAIN codes \subseteq DOMAIN codes'
    BY <1>0, <2>2
  <2>4. guesses' \in Seq(Nat) /\ Len(guesses') = Len(codes')
    BY <1>0, <1>2, <2>3 DEF SendCode
  <2>5. issued' \in Seq(DOMAIN codes')
    BY <1>0, <1>2, <2>3, SeqMonotonic DEF SendCode
  <2>6. checking' \in [Checkers -> CheckStates']
    BY <1>0, <1>2, <2>3 DEF SendCode, CheckStates
  <2>7. asking' \in [Requesters -> AskStates']
    BY <1>0, <1>2 DEF SendCode, AskStates
  <2> QED  BY <1>0, <1>2, <2>3, <2>4, <2>5, <2>6, <2>7 DEF SendCode, PhoneType
<1>3. ASSUME NEW c \in Checkers, NEW r \in DOMAIN codes, NEW right \in BOOLEAN, ConfirmCode(c, r, right)
      PROVE  PhoneType'
  <2>1. checking' \in [Checkers -> CheckStates]
    BY <1>0, <1>3 DEF ConfirmCode, CheckStates
  <2>2. guesses[r] \in Nat /\ r \in 1..Len(guesses)
    BY <1>0
  <2>3. guesses' \in Seq(Nat) /\ Len(guesses') = Len(guesses)
    BY <1>0, <1>3, <2>2, ExceptSeq DEF ConfirmCode
  <2> QED  BY <1>0, <1>3, <2>1, <2>3 DEF ConfirmCode, PhoneType, CheckStates
<1>4. ASSUME NEW c \in Checkers, IncrementAttempts(c) PROVE PhoneType'
  <2>1. checking[c].row \in DOMAIN codes
    BY <1>0, <1>4 DEF IncrementAttempts, CheckStates, IdleCheck
  <2>2. checking' \in [Checkers -> CheckStates]
    BY <1>0, <1>4 DEF IncrementAttempts, CheckStates, IdleCheck
  <2>3. codes[checking[c].row].attempts + 1 \in Nat
    <3>1. codes[checking[c].row] \in Row
      BY <1>0, <2>1
    <3> QED  BY <3>1 DEF Row
  <2>4. RowSteps(checking[c].row)
    BY <1>4, <2>3 DEF IncrementAttempts, RowSteps
  <2> QED  BY <1>0, <1>4, <1>r, <2>1, <2>2, <2>4 DEF IncrementAttempts
<1>5. ASSUME NEW c \in Checkers, CountMismatch(c) PROVE PhoneType'
  <2>1. checking[c].row \in DOMAIN codes
    BY <1>0, <1>5 DEF CountMismatch, CheckStates, IdleCheck
  <2>2. checking' \in [Checkers -> CheckStates]
    BY <1>0, <1>5 DEF CountMismatch, CheckStates
  <2>3. CASE codes[checking[c].row].attempts >= CodeMaxAttempts
    <3>1. RowSteps(checking[c].row)
      BY <1>5, <2>3 DEF CountMismatch, ExpireVerification, RowSteps
    <3> QED  BY <1>0, <1>5, <1>r, <2>1, <2>2, <3>1 DEF CountMismatch
  <2>4. CASE ~(codes[checking[c].row].attempts >= CodeMaxAttempts)
    BY <1>0, <1>5, <2>2, <2>4 DEF CountMismatch, PhoneType, CheckStates
  <2> QED  BY <2>3, <2>4
<1>6. ASSUME NEW c \in Checkers, IssueGrant(c) PROVE PhoneType'
  <2>1. checking[c].row \in DOMAIN codes
    BY <1>0, <1>6 DEF IssueGrant, CheckStates, IdleCheck
  <2>2. RowSteps(checking[c].row)
    <3>1. Len(issued) + 1 \in Nat
      BY <1>0
    <3> QED  BY <1>6, <3>1 DEF IssueGrant, RowSteps
  <2>3. codes' \in Seq(Row) /\ Len(codes') = Len(codes) /\ DOMAIN codes' = DOMAIN codes
    BY <2>1, <2>2, RowStep
  <2>4. issued' \in Seq(DOMAIN codes)
    BY <1>0, <1>6, <2>1 DEF IssueGrant
  <2>5. checking' \in [Checkers -> CheckStates]
    BY <1>0, <1>6 DEF IssueGrant, CheckStates
  <2> QED  BY <1>0, <1>6, <2>3, <2>4, <2>5 DEF IssueGrant, PhoneType, CheckStates
<1>7. ASSUME NEW c \in Checkers, ConfirmFails(c) PROVE PhoneType'
  BY <1>0, <1>7 DEF ConfirmFails, PhoneType, CheckStates
<1>8. ASSUME NEW r \in DOMAIN codes,
             CodeExpires(r) \/ GrantExpires(r) \/ WindowPasses(r) \/ DeleteExpiredBefore(r)
      PROVE  PhoneType'
  BY <1>0, <1>r, <1>8 DEF CodeExpires, GrantExpires, WindowPasses, DeleteExpiredBefore, RowSteps
<1>9. ASSUME GrantSpent PROVE PhoneType'
  BY <1>0, <1>r, <1>9 DEF GrantSpent, RowSteps
<1>10. ASSUME RequestsForgotten PROVE PhoneType'
  <2>1. IsFiniteSet({c \in Checkers : checking[c].pc \in {"wrong", "right"}})
    BY PhoneAssumption, FS_Subset
  <2>2. storeFaults' \in Nat
    BY <1>0, <1>10, <2>1, FS_CardinalityType DEF RequestsForgotten
  <2> QED  BY <1>0, <1>10, <2>2 DEF RequestsForgotten, PhoneType, AskStates, CheckStates
<1>11. ASSUME UNCHANGED phoneVars PROVE PhoneType'
  BY <1>0, <1>11 DEF phoneVars, PhoneType, AskStates, CheckStates
<1> QED
  BY <1>1, <1>2, <1>3, <1>4, <1>5, <1>6, <1>7, <1>8, <1>9, <1>10, <1>11 DEF PhoneStep, PhoneNext

\* The statements that are about neither guesses nor grants.
QuietRow(r) ==
    \/ codes' = [codes EXCEPT ![r].expired = TRUE] \/ codes' = [codes EXCEPT ![r].grantExpired = TRUE]
    \/ codes' = [codes EXCEPT ![r].recent = FALSE] \/ codes' = [codes EXCEPT ![r].deleted = TRUE]
    \/ \E m \in Nat : codes' = [codes EXCEPT ![r].owner = m]

\* They leave what the limits and the evidence look at alone, and the throttle
\* counts no more rows than before.
LEMMA QuietFields ==
    ASSUME PhoneType, NEW r \in DOMAIN codes, QuietRow(r), NEW q \in DOMAIN codes
    PROVE  /\ codes'[q].phone = codes[q].phone /\ codes'[q].attempts = codes[q].attempts
           /\ codes'[q].grant = codes[q].grant /\ (codes'[q].verified = codes[q].verified)
           /\ (codes'[q].recent => codes[q].recent) /\ (codes[q].deleted => codes'[q].deleted)
<1>0. codes \in [DOMAIN codes -> Row] /\ codes[q] \in Row
  BY DEF PhoneType
<1>2. CASE codes' = [codes EXCEPT ![r].expired = TRUE]
  BY <1>0, <1>2 DEF Row
<1>4. CASE codes' = [codes EXCEPT ![r].grantExpired = TRUE]
  BY <1>0, <1>4 DEF Row
<1>5. CASE codes' = [codes EXCEPT ![r].recent = FALSE]
  BY <1>0, <1>5 DEF Row
<1>6. CASE codes' = [codes EXCEPT ![r].deleted = TRUE]
  BY <1>0, <1>6 DEF Row
<1>7. ASSUME NEW m \in Nat, codes' = [codes EXCEPT ![r].owner = m]
      PROVE  /\ codes'[q].phone = codes[q].phone /\ codes'[q].attempts = codes[q].attempts
             /\ codes'[q].grant = codes[q].grant /\ (codes'[q].verified = codes[q].verified)
             /\ (codes'[q].recent => codes[q].recent) /\ (codes[q].deleted => codes'[q].deleted)
  BY <1>0, <1>7 DEF Row
<1> QED
  BY <1>2, <1>4, <1>5, <1>6, <1>7 DEF QuietRow

\* A grant stays its row's: a later confirmation of the row brings a new grant,
\* and no grant is issued twice.
LEMMA GrantsMatchStep ==
    ASSUME PhoneType, GrantsMatch, PhoneStep
    PROVE  GrantsMatch'
<1>0. /\ codes \in Seq(Row) /\ issued \in Seq(DOMAIN codes) /\ DOMAIN codes = 1..Len(codes)
      /\ asking \in [Requesters -> AskStates] /\ checking \in [Checkers -> CheckStates]
      /\ DOMAIN issued = 1..Len(issued) /\ Len(issued) \in Nat
  BY DEF PhoneType
<1>f. ASSUME DOMAIN codes' = DOMAIN codes, issued' = issued,
             \A q \in DOMAIN codes : codes'[q].grant = codes[q].grant PROVE GrantsMatch'
  BY <1>f DEF GrantsMatch
<1>1. ASSUME NEW q \in Requesters, NEW p \in Phones, RequestCode(q, p) PROVE GrantsMatch'
  BY <1>f, <1>1 DEF RequestCode
<1>2. ASSUME NEW q \in Requesters, NEW sent \in BOOLEAN, SendCode(q, sent) PROVE GrantsMatch'
  <2>2. PICK row : codes' = Append(codes, row) /\ row.grant = 0
    BY <1>2 DEF SendCode, InsertVerification
  <2>3. DOMAIN codes' = 1..(Len(codes) + 1) /\ codes'[Len(codes) + 1] = row
        /\ \A r \in DOMAIN codes : codes'[r] = codes[r]
    BY <1>0, <2>2
  <2>4. issued' = issued
    BY <1>2 DEF SendCode
  <2> QED  BY <1>0, <2>2, <2>3, <2>4 DEF GrantsMatch
<1>3. ASSUME NEW c \in Checkers, NEW r \in DOMAIN codes, NEW right \in BOOLEAN, ConfirmCode(c, r, right)
      PROVE  GrantsMatch'
  BY <1>f, <1>3 DEF ConfirmCode
<1>4. ASSUME NEW c \in Checkers, IncrementAttempts(c) PROVE GrantsMatch'
  <2>1. checking[c].row \in DOMAIN codes
    BY <1>0, <1>4 DEF IncrementAttempts, CheckStates, IdleCheck
  <2>2. codes \in [DOMAIN codes -> Row]
    BY <1>0
  <2> QED  BY <1>f, <1>4, <2>1, <2>2 DEF IncrementAttempts, Row
<1>5. ASSUME NEW c \in Checkers, CountMismatch(c) PROVE GrantsMatch'
  <2>1. checking[c].row \in DOMAIN codes
    BY <1>0, <1>5 DEF CountMismatch, CheckStates, IdleCheck
  <2>2. codes \in [DOMAIN codes -> Row]
    BY <1>0
  <2>3. CASE codes[checking[c].row].attempts >= CodeMaxAttempts
    BY <1>f, <1>5, <2>1, <2>2, <2>3 DEF CountMismatch, ExpireVerification, Row
  <2>4. CASE ~(codes[checking[c].row].attempts >= CodeMaxAttempts)
    BY <1>f, <1>5, <2>4 DEF CountMismatch
  <2> QED  BY <2>3, <2>4
<1>6. ASSUME NEW c \in Checkers, IssueGrant(c) PROVE GrantsMatch'
  <2> DEFINE r == checking[c].row
  <2>1. r \in DOMAIN codes
    BY <1>0, <1>6 DEF IssueGrant, CheckStates, IdleCheck
  <2>2. codes \in [DOMAIN codes -> Row]
    BY <1>0
  <2>3. codes'[r].grant = Len(issued) + 1 /\ DOMAIN codes' = DOMAIN codes
        /\ \A q \in DOMAIN codes : q # r => codes'[q].grant = codes[q].grant
    BY <1>6, <2>1, <2>2 DEF IssueGrant, MarkVerified, Row
  <2>4. DOMAIN issued' = 1..(Len(issued) + 1) /\ issued'[Len(issued) + 1] = r
        /\ \A g \in DOMAIN issued : issued'[g] = issued[g]
    BY <1>0, <1>6, <2>1 DEF IssueGrant
  <2> QED  BY <1>0, <2>1, <2>3, <2>4 DEF GrantsMatch
<1>7. ASSUME NEW c \in Checkers, ConfirmFails(c) PROVE GrantsMatch'
  BY <1>f, <1>7 DEF ConfirmFails
<1>8. ASSUME NEW r \in DOMAIN codes,
             CodeExpires(r) \/ GrantExpires(r) \/ WindowPasses(r) \/ DeleteExpiredBefore(r)
      PROVE  GrantsMatch'
  <2>2. codes \in [DOMAIN codes -> Row]
    BY <1>0
  <2> QED  BY <1>f, <1>8, <2>2 DEF CodeExpires, GrantExpires, WindowPasses, DeleteExpiredBefore, Row
<1>9. ASSUME GrantSpent PROVE GrantsMatch'
  <2>2. codes \in [DOMAIN codes -> Row]
    BY <1>0
  <2> QED  BY <1>f, <1>9, <2>2 DEF GrantSpent, Row
<1>10. ASSUME RequestsForgotten \/ UNCHANGED phoneVars PROVE GrantsMatch'
  BY <1>f, <1>10 DEF RequestsForgotten, phoneVars
<1> QED
  BY <1>1, <1>2, <1>3, <1>4, <1>5, <1>6, <1>7, <1>8, <1>9, <1>10 DEF PhoneStep, PhoneNext

-----------------------------------------------------------------------------
(* Counting *)

\* How many members a part of a finite set has next to another part.
LEMMA PartsCount ==
    ASSUME NEW S, IsFiniteSet(S), NEW A \in SUBSET S, NEW B \in SUBSET S
    PROVE  /\ IsFiniteSet(A) /\ Cardinality(A) \in Nat /\ Cardinality(S) \in Nat
           /\ Cardinality(A) <= Cardinality(S)
           /\ \A x \in S : x \notin A => Cardinality(A) <= Cardinality(S) - 1
           /\ A \subseteq B => Cardinality(A) <= Cardinality(B)
           /\ \A x : A \subseteq B \union {x} => Cardinality(A) <= Cardinality(B) + 1
           /\ \A x \in B : A \subseteq B /\ x \notin A => Cardinality(A) + 1 <= Cardinality(B)
<1>1. /\ IsFiniteSet(A) /\ IsFiniteSet(B) /\ Cardinality(A) \in Nat /\ Cardinality(B) \in Nat
      /\ Cardinality(S) \in Nat /\ Cardinality(A) <= Cardinality(S)
  BY FS_Subset, FS_CardinalityType
<1>2. ASSUME NEW T, IsFiniteSet(T), A \subseteq T PROVE Cardinality(A) <= Cardinality(T)
  BY <1>2, FS_Subset
<1>3. ASSUME NEW T, IsFiniteSet(T), NEW x \in T, A \subseteq T, x \notin A
      PROVE  Cardinality(A) + 1 <= Cardinality(T)
  <2>1. IsFiniteSet(T \ {x}) /\ Cardinality(T \ {x}) = Cardinality(T) - 1 /\ A \subseteq T \ {x}
    BY <1>3, FS_RemoveElement
  <2>2. Cardinality(A) <= Cardinality(T) - 1
    BY <1>2, <2>1
  <2> QED  BY <1>1, <1>3, <2>2, FS_CardinalityType
<1>4. ASSUME NEW x, A \subseteq B \union {x} PROVE Cardinality(A) <= Cardinality(B) + 1
  <2>0. /\ IsFiniteSet(B \union {x})
        /\ Cardinality(B \union {x}) = IF x \in B THEN Cardinality(B) ELSE Cardinality(B) + 1
    BY <1>1, FS_AddElement
  <2>1. IsFiniteSet(B \union {x}) /\ Cardinality(B \union {x}) <= Cardinality(B) + 1
    BY <1>1, <2>0
  <2>2. Cardinality(A) <= Cardinality(B \union {x})
    BY <1>2, <1>4, <2>1
  <2> QED  BY <1>1, <2>1, <2>2, FS_CardinalityType
<1>5. \A x \in S : x \notin A => Cardinality(A) <= Cardinality(S) - 1
  BY <1>1, <1>3
<1> QED
  BY <1>1, <1>2, <1>3, <1>4, <1>5

\* Every guess stays accounted for, so a row is guessed no oftener than the
\* attempts allow, plus one for each confirmation past its check and each fault.
LEMMA GuessesStep ==
    ASSUME PhoneType, GuessesCounted, GuessesBounded, PhoneStep
    PROVE  GuessesCounted' /\ GuessesBounded'
<1> USE PhoneAssumption
<1>0. /\ codes \in [DOMAIN codes -> Row] /\ codes \in Seq(Row) /\ DOMAIN codes = 1..Len(codes)
      /\ guesses \in [DOMAIN codes -> Nat] /\ guesses \in Seq(Nat) /\ Len(guesses) = Len(codes)
      /\ storeFaults \in Nat /\ checking \in [Checkers -> CheckStates]
  BY DEF PhoneType
<1>a. \A r \in DOMAIN codes : guesses[r] \in Nat /\ codes[r].attempts \in Nat
  <2> TAKE r \in DOMAIN codes
  <2>1. codes[r] \in Row /\ guesses[r] \in Nat
    BY <1>0
  <2> QED  BY <2>1 DEF Row
<1>u. /\ Cardinality(Checkers) \in Nat
      /\ \A r : Uncounted(r) \in SUBSET Checkers /\ Cardinality(Uncounted(r)) \in Nat
  BY PartsCount DEF Uncounted
<1>v. \A r : Uncounted(r)' \in SUBSET Checkers /\ Cardinality(Uncounted(r)') \in Nat
  BY PartsCount DEF Uncounted
<1>f. ASSUME DOMAIN codes' = DOMAIN codes, guesses' = guesses, storeFaults' = storeFaults,
             \A q \in DOMAIN codes :
                codes'[q].attempts = codes[q].attempts /\ Uncounted(q)' = Uncounted(q)
                  /\ (codes[q].verified => codes'[q].verified)
      PROVE  GuessesCounted' /\ GuessesBounded'
  BY <1>f DEF GuessesCounted, GuessesBounded
<1>q. ASSUME NEW r \in DOMAIN codes, QuietRow(r), guesses' = guesses, storeFaults' = storeFaults,
             \A q \in DOMAIN codes : Uncounted(q)' = Uncounted(q)
      PROVE  GuessesCounted' /\ GuessesBounded'
  <2>1. RowSteps(r)
    BY <1>q DEF QuietRow, RowSteps
  <2>2. DOMAIN codes' = DOMAIN codes
    BY <2>1, RowStep
  <2>3. ASSUME NEW q \in DOMAIN codes
        PROVE  codes'[q].attempts = codes[q].attempts /\ (codes[q].verified => codes'[q].verified)
    BY <1>q, QuietFields
  <2> QED  BY <1>f, <1>q, <2>2, <2>3
<1>1. ASSUME NEW q \in Requesters, NEW p \in Phones, RequestCode(q, p) PROVE GuessesCounted' /\ GuessesBounded'
  BY <1>f, <1>1 DEF RequestCode, Uncounted
<1>2. ASSUME NEW q \in Requesters, NEW sent \in BOOLEAN, SendCode(q, sent) PROVE GuessesCounted' /\ GuessesBounded'
  <2>2. PICK row : codes' = Append(codes, row) /\ row.attempts = 0
    BY <1>2 DEF SendCode, InsertVerification
  <2>3. DOMAIN codes' = 1..(Len(codes) + 1) /\ codes'[Len(codes) + 1].attempts = 0
        /\ \A r \in DOMAIN codes : codes'[r] = codes[r]
    BY <1>0, <2>2
  <2>4. guesses'[Len(codes) + 1] = 0 /\ \A r \in DOMAIN codes : guesses'[r] = guesses[r]
    BY <1>0, <1>2 DEF SendCode
  <2>5. storeFaults' = storeFaults /\ \A r : Uncounted(r)' = Uncounted(r)
    BY <1>2 DEF SendCode, Uncounted
  <2>6. Len(codes) \in Nat
    BY <1>0
  <2>7. ASSUME NEW r \in DOMAIN codes' PROVE r \in DOMAIN codes \/ r = Len(codes) + 1
    BY <1>0, <2>3, <2>6
  <2>8. 0 <= 0 + Cardinality(Uncounted(Len(codes) + 1)) + storeFaults
    BY <1>0, <1>u
  <2>9. GuessesCounted'
    BY <2>3, <2>4, <2>5, <2>7, <2>8 DEF GuessesCounted
  <2>10. 0 <= CodeMaxAttempts - 1 + Cardinality(Checkers) + storeFaults
    BY <1>0, <1>u
  <2>11. GuessesBounded'
    BY <2>3, <2>4, <2>5, <2>7, <2>10 DEF GuessesBounded
  <2> QED  BY <2>9, <2>11
<1>3. ASSUME NEW c \in Checkers, NEW r \in DOMAIN codes, NEW right \in BOOLEAN, ConfirmCode(c, r, right)
      PROVE  GuessesCounted' /\ GuessesBounded'
  <2>1. checking'[c].pc \in {"right", "wrong"} /\ checking'[c].row = r
        /\ \A d \in Checkers : d # c => checking'[d] = checking[d]
    BY <1>0, <1>3 DEF ConfirmCode
  <2>2. c \notin Uncounted(r) /\ c \in Uncounted(r)' /\ Uncounted(r) \subseteq Uncounted(r)'
    BY <1>3, <2>1 DEF ConfirmCode, Uncounted
  <2>3. Cardinality(Uncounted(r)) + 1 <= Cardinality(Uncounted(r)')
        /\ Cardinality(Uncounted(r)) <= Cardinality(Checkers) - 1
    BY <1>u, <1>v, <2>2, PartsCount
  <2>4. \A q \in DOMAIN codes : q # r => Uncounted(q)' = Uncounted(q)
    BY <1>3, <2>1 DEF ConfirmCode, Uncounted
  <2>5. guesses'[r] = guesses[r] + 1 /\ \A q \in DOMAIN codes : q # r => guesses'[q] = guesses[q]
    BY <1>0, <1>3 DEF ConfirmCode
  <2>6. codes' = codes /\ storeFaults' = storeFaults /\ ~codes[r].verified /\ codes[r].attempts < CodeMaxAttempts
    BY <1>3 DEF ConfirmCode, MayConfirm, FindPendingVerification
  <2>7. guesses[r] <= codes[r].attempts + Cardinality(Uncounted(r)) + storeFaults
    BY <2>6 DEF GuessesCounted
  <2>a. /\ guesses[r] \in Nat /\ codes[r].attempts \in Nat /\ storeFaults \in Nat
        /\ Cardinality(Uncounted(r)) \in Nat /\ Cardinality(Uncounted(r)') \in Nat
    BY <1>0, <1>a, <1>u, <1>v
  <2>8. guesses[r] + 1 <= codes[r].attempts + Cardinality(Uncounted(r)') + storeFaults
    BY <2>a, <2>3, <2>7
  <2>c. GuessesCounted'
    BY <2>4, <2>5, <2>6, <2>8 DEF GuessesCounted
  <2>9. guesses[r] + 1 <= CodeMaxAttempts - 1 + Cardinality(Checkers) + storeFaults
    BY <1>u, <2>a, <2>3, <2>6, <2>7
  <2> QED  BY <2>5, <2>6, <2>c, <2>9 DEF GuessesBounded
<1>4. ASSUME NEW c \in Checkers, IncrementAttempts(c) PROVE GuessesCounted' /\ GuessesBounded'
  <2>1. PICK r \in DOMAIN codes : r = checking[c].row
    BY <1>0, <1>4 DEF IncrementAttempts, CheckStates, IdleCheck
  <2>2. codes'[r].attempts = codes[r].attempts + 1 /\ DOMAIN codes' = DOMAIN codes
        /\ (codes[r].verified => codes'[r].verified) /\ \A q \in DOMAIN codes : q # r => codes'[q] = codes[q]
    BY <1>0, <1>4, <2>1 DEF IncrementAttempts, Row
  <2>3. checking'[c].pc = "counted" /\ \A d \in Checkers : d # c => checking'[d] = checking[d]
    BY <1>0, <1>4 DEF IncrementAttempts, CheckStates, IdleCheck
  <2>4. /\ Uncounted(r) \subseteq Uncounted(r)' \union {c}
        /\ \A q \in DOMAIN codes : q # r => Uncounted(q)' = Uncounted(q)
    BY <2>1, <2>3 DEF Uncounted
  <2>5. Cardinality(Uncounted(r)) <= Cardinality(Uncounted(r)') + 1
    BY <1>u, <1>v, <2>4, PartsCount
  <2>6. guesses' = guesses /\ storeFaults' = storeFaults
    BY <1>4 DEF IncrementAttempts
  <2>7. GuessesBounded'
    BY <2>2, <2>6 DEF GuessesBounded
  <2>8. ASSUME NEW q \in DOMAIN codes', ~codes'[q].verified
        PROVE  guesses'[q] <= codes'[q].attempts + Cardinality(Uncounted(q)') + storeFaults'
    <3>1. CASE q = r
      <4>1. guesses[r] <= codes[r].attempts + Cardinality(Uncounted(r)) + storeFaults
        BY <2>1, <2>2, <2>8, <3>1 DEF GuessesCounted
      <4>2. /\ guesses[r] \in Nat /\ codes[r].attempts \in Nat /\ storeFaults \in Nat
            /\ Cardinality(Uncounted(r)) \in Nat /\ Cardinality(Uncounted(r)') \in Nat
        BY <1>0, <1>a, <1>u, <1>v, <2>1
      <4>3. guesses[r] <= codes[r].attempts + 1 + Cardinality(Uncounted(r)') + storeFaults
        BY <2>5, <4>1, <4>2
      <4> QED  BY <2>2, <2>6, <3>1, <4>3
    <3>2. CASE q # r
      BY <2>1, <2>2, <2>4, <2>6, <2>8, <3>2 DEF GuessesCounted
    <3> QED  BY <3>1, <3>2
  <2>9. GuessesCounted'
    BY <2>8 DEF GuessesCounted
  <2> QED  BY <2>7, <2>9
<1>5. ASSUME NEW c \in Checkers, CountMismatch(c) PROVE GuessesCounted' /\ GuessesBounded'
  <2>1. checking[c].row \in DOMAIN codes
    BY <1>0, <1>5 DEF CountMismatch, CheckStates, IdleCheck
  <2>2. \A q \in DOMAIN codes : Uncounted(q)' = Uncounted(q)
    BY <1>0, <1>5 DEF CountMismatch, Uncounted, IdleCheck
  <2>3. CASE codes[checking[c].row].attempts >= CodeMaxAttempts
    <3>1. QuietRow(checking[c].row)
      BY <1>5, <2>3 DEF CountMismatch, ExpireVerification, QuietRow
    <3>2. guesses' = guesses /\ storeFaults' = storeFaults
      BY <1>5 DEF CountMismatch
    <3> QED  BY <1>q, <2>1, <2>2, <3>1, <3>2
  <2>4. CASE ~(codes[checking[c].row].attempts >= CodeMaxAttempts)
    BY <1>f, <1>5, <2>2, <2>4 DEF CountMismatch
  <2> QED  BY <2>3, <2>4
<1>6. ASSUME NEW c \in Checkers, IssueGrant(c) PROVE GuessesCounted' /\ GuessesBounded'
  <2> DEFINE r == checking[c].row
  <2>1. r \in DOMAIN codes
    BY <1>0, <1>6 DEF IssueGrant, CheckStates, IdleCheck
  <2>3. codes'[r].verified /\ DOMAIN codes' = DOMAIN codes /\ \A q \in DOMAIN codes : q # r => codes'[q] = codes[q]
    BY <1>0, <1>6, <2>1 DEF IssueGrant, MarkVerified, Row
  <2>4. \A q \in DOMAIN codes : q # r => Uncounted(q)' = Uncounted(q)
    BY <1>0, <1>6 DEF IssueGrant, Uncounted, IdleCheck
  <2>5. guesses' = guesses /\ storeFaults' = storeFaults
    BY <1>6 DEF IssueGrant
  <2> QED  BY <2>3, <2>4, <2>5 DEF GuessesCounted, GuessesBounded
<1>7. ASSUME NEW c \in Checkers, ConfirmFails(c) PROVE GuessesCounted' /\ GuessesBounded'
  <2>1. \A r : Uncounted(r) \subseteq Uncounted(r)' \union {c}
    BY <1>0, <1>7 DEF ConfirmFails, Uncounted
  <2>2. \A r : Cardinality(Uncounted(r)) <= Cardinality(Uncounted(r)') + 1
    BY <1>u, <1>v, <2>1, PartsCount
  <2>3. codes' = codes /\ guesses' = guesses /\ storeFaults' = storeFaults + 1
    BY <1>7 DEF ConfirmFails
  <2>4. GuessesCounted'
    <3> SUFFICES ASSUME NEW r \in DOMAIN codes, ~codes[r].verified
                 PROVE  guesses[r] <= codes[r].attempts + Cardinality(Uncounted(r)') + storeFaults'
      BY <2>3 DEF GuessesCounted
    <3>1. guesses[r] <= codes[r].attempts + Cardinality(Uncounted(r)) + storeFaults
      BY DEF GuessesCounted
    <3>2. /\ guesses[r] \in Nat /\ codes[r].attempts \in Nat /\ storeFaults \in Nat
          /\ Cardinality(Uncounted(r)) \in Nat /\ Cardinality(Uncounted(r)') \in Nat
      BY <1>0, <1>a, <1>u, <1>v
    <3> QED  BY <2>2, <2>3, <3>1, <3>2
  <2>5. GuessesBounded'
    BY <1>0, <1>a, <1>u, <2>3 DEF GuessesBounded
  <2> QED  BY <2>4, <2>5
<1>8. ASSUME NEW r \in DOMAIN codes,
             CodeExpires(r) \/ GrantExpires(r) \/ WindowPasses(r) \/ DeleteExpiredBefore(r)
      PROVE  GuessesCounted' /\ GuessesBounded'
  <2>1. guesses' = guesses /\ storeFaults' = storeFaults /\ checking' = checking
    BY <1>8 DEF CodeExpires, GrantExpires, WindowPasses, DeleteExpiredBefore
  <2>2. QuietRow(r)
    BY <1>8 DEF CodeExpires, GrantExpires, WindowPasses, DeleteExpiredBefore, QuietRow
  <2> QED  BY <1>q, <2>1, <2>2 DEF Uncounted
<1>9. ASSUME GrantSpent PROVE GuessesCounted' /\ GuessesBounded'
  <2>1. guesses' = guesses /\ storeFaults' = storeFaults /\ checking' = checking
    BY <1>9 DEF GrantSpent
  <2>2. PICK r \in DOMAIN codes : QuietRow(r)
    BY <1>9 DEF GrantSpent, QuietRow
  <2> QED  BY <1>q, <2>1, <2>2 DEF Uncounted
<1>10. ASSUME RequestsForgotten PROVE GuessesCounted' /\ GuessesBounded'
  <2> DEFINE lost == {c \in Checkers : checking[c].pc \in {"wrong", "right"}}
  <2>1. \A r : Uncounted(r) \subseteq lost
    BY DEF Uncounted
  <2>2. Cardinality(lost) \in Nat /\ \A r : Cardinality(Uncounted(r)) <= Cardinality(lost)
    BY <1>u, <2>1, PartsCount
  <2>3. codes' = codes /\ guesses' = guesses /\ storeFaults' = storeFaults + Cardinality(lost)
    BY <1>10 DEF RequestsForgotten
  <2> HIDE DEF lost
  <2>4. GuessesCounted'
    <3> SUFFICES ASSUME NEW r \in DOMAIN codes, ~codes[r].verified
                 PROVE  guesses[r] <= codes[r].attempts + Cardinality(Uncounted(r)') + storeFaults'
      BY <2>3 DEF GuessesCounted
    <3>1. guesses[r] <= codes[r].attempts + Cardinality(Uncounted(r)) + storeFaults
      BY DEF GuessesCounted
    <3>2. /\ guesses[r] \in Nat /\ codes[r].attempts \in Nat /\ storeFaults \in Nat
          /\ Cardinality(Uncounted(r)) \in Nat /\ Cardinality(Uncounted(r)') \in Nat
      BY <1>0, <1>a, <1>u, <1>v
    <3> QED  BY <2>2, <2>3, <3>1, <3>2
  <2>5. GuessesBounded'
    BY <1>0, <1>a, <1>u, <2>2, <2>3 DEF GuessesBounded
  <2> QED  BY <2>4, <2>5
<1>11. ASSUME UNCHANGED phoneVars PROVE GuessesCounted' /\ GuessesBounded'
  BY <1>f, <1>11 DEF phoneVars, Uncounted
<1> QED
  BY <1>1, <1>2, <1>3, <1>4, <1>5, <1>6, <1>7, <1>8, <1>9, <1>10, <1>11 DEF PhoneStep, PhoneNext

\* The rows the throttle counts.
Recent(p) == {r \in DOMAIN codes : codes[r].phone = p /\ codes[r].recent /\ ~codes[r].deleted}

\* What the throttle counts is a part of the table, and a request is one of
\* the requesters.
LEMMA RequestsCount ==
    ASSUME PhoneType, NEW p
    PROVE  /\ IsFiniteSet(DOMAIN codes) /\ Recent(p) \in SUBSET DOMAIN codes /\ Asking(p) \in SUBSET Requesters
           /\ CountRecentRequests(p) = Cardinality(Recent(p)) /\ CountRecentRequests(p) \in Nat
           /\ Cardinality(Asking(p)) \in Nat /\ Cardinality(Requesters) \in Nat
           /\ Cardinality(Asking(p)) <= Cardinality(Requesters)
<1>1. Len(codes) \in Nat /\ DOMAIN codes = 1..Len(codes)
  BY DEF PhoneType
<1>2. IsFiniteSet(DOMAIN codes)
  BY <1>1, FS_Interval
<1>3. Recent(p) \in SUBSET DOMAIN codes /\ Asking(p) \in SUBSET Requesters
  BY DEF Recent, Asking
<1>4. CountRecentRequests(p) = Cardinality(Recent(p))
  BY DEF CountRecentRequests, Recent
<1>5. IsFiniteSet(Requesters)
  BY PhoneAssumption
<1>6. Cardinality(Recent(p)) \in Nat
  BY <1>2, <1>3, PartsCount
<1>7. /\ Cardinality(Asking(p)) \in Nat /\ Cardinality(Requesters) \in Nat
      /\ Cardinality(Asking(p)) <= Cardinality(Requesters)
  BY <1>3, <1>5, PartsCount
<1> QED
  BY <1>2, <1>3, <1>4, <1>6, <1>7

\* A number has at most the codes of one window, plus the requests that counted
\* before another one inserted.
LEMMA RequestsStep ==
    ASSUME PhoneType, PhoneType', RequestsCounted, PhoneStep
    PROVE  RequestsCounted'
<1> USE PhoneAssumption
<1>0. /\ codes \in [DOMAIN codes -> Row] /\ codes \in Seq(Row) /\ DOMAIN codes = 1..Len(codes)
      /\ asking \in [Requesters -> AskStates]
      /\ checking \in [Checkers -> CheckStates]
  BY DEF PhoneType
<1>c. \A p : /\ IsFiniteSet(DOMAIN codes) /\ Recent(p) \in SUBSET DOMAIN codes /\ Asking(p) \in SUBSET Requesters
             /\ CountRecentRequests(p) = Cardinality(Recent(p)) /\ CountRecentRequests(p) \in Nat
             /\ Cardinality(Asking(p)) \in Nat /\ Cardinality(Requesters) \in Nat
             /\ Cardinality(Asking(p)) <= Cardinality(Requesters)
  BY RequestsCount
<1>d. \A p : /\ IsFiniteSet(DOMAIN codes') /\ Recent(p)' \in SUBSET DOMAIN codes' /\ Asking(p)' \in SUBSET Requesters
             /\ CountRecentRequests(p)' = Cardinality(Recent(p)') /\ CountRecentRequests(p)' \in Nat
             /\ Cardinality(Asking(p)') \in Nat
             /\ Cardinality(Asking(p)') <= Cardinality(Requesters)
  <2>1. Len(codes') \in Nat /\ DOMAIN codes' = 1..Len(codes')
    BY DEF PhoneType
  <2>2. IsFiniteSet(DOMAIN codes')
    BY <2>1, FS_Interval
  <2>3. \A p : Recent(p)' \in SUBSET DOMAIN codes' /\ Asking(p)' \in SUBSET Requesters
    BY DEF Recent, Asking
  <2>4. \A p : CountRecentRequests(p)' = Cardinality(Recent(p)')
    BY DEF CountRecentRequests, Recent
  <2>5. \A p : Cardinality(Recent(p)') \in Nat
    BY <2>2, <2>3, PartsCount
  <2>6. \A p : Cardinality(Asking(p)') \in Nat /\ Cardinality(Asking(p)') <= Cardinality(Requesters)
    BY <2>3, PartsCount
  <2> QED  BY <2>2, <2>3, <2>4, <2>5, <2>6
<1>e. \A p \in Phones :
        CountRecentRequests(p) + Cardinality(Asking(p)) <= RequestsPerWindow + Cardinality(Requesters) - 1
  BY DEF RequestsCounted
\* A step after which no more requests count, or ask, than before.
<1>f. ASSUME NEW p \in Phones, Recent(p)' \subseteq Recent(p), Asking(p)' \subseteq Asking(p)
      PROVE  CountRecentRequests(p)' + Cardinality(Asking(p)')
                 <= RequestsPerWindow + Cardinality(Requesters) - 1
  <2>1. Recent(p)' \in SUBSET DOMAIN codes
    BY <1>c, <1>f
  <2>2. Cardinality(Recent(p)') <= Cardinality(Recent(p))
    BY <1>c, <1>f, <2>1, PartsCount
  <2>3. Cardinality(Asking(p)') <= Cardinality(Asking(p))
    BY <1>c, <1>d, <1>f, PartsCount
  <2>4. /\ CountRecentRequests(p) = Cardinality(Recent(p)) /\ CountRecentRequests(p)' = Cardinality(Recent(p)')
        /\ CountRecentRequests(p) \in Nat /\ CountRecentRequests(p)' \in Nat
        /\ Cardinality(Asking(p)) \in Nat /\ Cardinality(Asking(p)') \in Nat /\ Cardinality(Requesters) \in Nat
    BY <1>c, <1>d
  <2>5. CountRecentRequests(p) + Cardinality(Asking(p)) <= RequestsPerWindow + Cardinality(Requesters) - 1
    BY <1>e
  <2> QED  BY <2>2, <2>3, <2>4, <2>5
<1>g. ASSUME \A p \in Phones : Recent(p)' \subseteq Recent(p) /\ Asking(p)' \subseteq Asking(p) PROVE RequestsCounted'
  BY <1>f, <1>g DEF RequestsCounted
<1>q. ASSUME NEW r \in DOMAIN codes, QuietRow(r), asking' = asking PROVE RequestsCounted'
  <2>1. RowSteps(r)
    BY <1>q DEF QuietRow, RowSteps
  <2>2. DOMAIN codes' = DOMAIN codes
    BY <2>1, RowStep
  <2>3. ASSUME NEW q \in DOMAIN codes
        PROVE  /\ codes'[q].phone = codes[q].phone
               /\ (codes'[q].recent => codes[q].recent) /\ (codes[q].deleted => codes'[q].deleted)
    BY <1>q, QuietFields
  <2>4. \A p \in Phones : Recent(p)' \subseteq Recent(p) /\ Asking(p)' \subseteq Asking(p)
    BY <1>q, <2>2, <2>3 DEF Recent, Asking
  <2> QED  BY <1>g, <2>4
<1>1. ASSUME NEW q \in Requesters, NEW p \in Phones, RequestCode(q, p) PROVE RequestsCounted'
  <2>1. codes' = codes /\ CountRecentRequests(p) < RequestsPerWindow
    BY <1>1 DEF RequestCode, MayRequestCode
  <2>2. \A o \in Phones : o # p => Asking(o)' \subseteq Asking(o)
    BY <1>0, <1>1 DEF RequestCode, Asking
  <2>3. \A o : Recent(o)' = Recent(o) /\ CountRecentRequests(o)' = CountRecentRequests(o)
    BY <2>1 DEF Recent, CountRecentRequests
  <2>4. /\ CountRecentRequests(p) \in Nat /\ Cardinality(Asking(p)') \in Nat /\ Cardinality(Requesters) \in Nat
        /\ Cardinality(Asking(p)') <= Cardinality(Requesters)
    BY <1>c, <1>d
  <2>5. CountRecentRequests(p)' + Cardinality(Asking(p)') <= RequestsPerWindow + Cardinality(Requesters) - 1
    BY <2>1, <2>3, <2>4
  <2>6. ASSUME NEW o \in Phones
        PROVE  CountRecentRequests(o)' + Cardinality(Asking(o)') <= RequestsPerWindow + Cardinality(Requesters) - 1
    <3>1. CASE o = p
      BY <2>5, <3>1
    <3>2. CASE o # p
      BY <1>f, <2>2, <2>3, <3>2
    <3> QED  BY <3>1, <3>2
  <2> QED  BY <2>6 DEF RequestsCounted
<1>2. ASSUME NEW q \in Requesters, NEW sent \in BOOLEAN, SendCode(q, sent) PROVE RequestsCounted'
  <2>1. PICK p \in Phones : p = asking[q].phone /\ asking[q].pc = "insert"
    BY <1>0, <1>2 DEF SendCode, AskStates, IdleAsk
  <2>2. PICK row : codes' = Append(codes, row) /\ row.phone = p
    BY <1>2, <2>1 DEF SendCode, InsertVerification
  <2>3. PICK n \in Nat : n = Len(codes) + 1
    BY <1>0
  <2>4. DOMAIN codes' = DOMAIN codes \union {n} /\ n \notin DOMAIN codes
        /\ codes'[n].phone = p /\ \A r \in DOMAIN codes : codes'[r] = codes[r]
    BY <1>0, <2>2, <2>3
  <2>5. Recent(p)' \subseteq Recent(p) \union {n} /\ \A o \in Phones : o # p => Recent(o)' \subseteq Recent(o)
    BY <2>4 DEF Recent
  <2>6. Asking(p)' \subseteq Asking(p) /\ q \in Asking(p) /\ q \notin Asking(p)'
        /\ \A o \in Phones : o # p => Asking(o)' \subseteq Asking(o)
    BY <1>0, <1>2, <2>1 DEF SendCode, Asking, IdleAsk
  <2>7. Cardinality(Asking(p)') + 1 <= Cardinality(Asking(p))
    BY <1>c, <1>d, <2>6, PartsCount
  <2>8. Recent(p) \in SUBSET DOMAIN codes'
    BY <1>c, <2>4
  <2>9. Cardinality(Recent(p)') <= Cardinality(Recent(p)) + 1
    BY <1>d, <2>5, <2>8, PartsCount
  <2>10. /\ CountRecentRequests(p) = Cardinality(Recent(p)) /\ CountRecentRequests(p)' = Cardinality(Recent(p)')
         /\ CountRecentRequests(p) \in Nat /\ CountRecentRequests(p)' \in Nat
         /\ Cardinality(Asking(p)) \in Nat /\ Cardinality(Asking(p)') \in Nat /\ Cardinality(Requesters) \in Nat
    BY <1>c, <1>d
  <2>11. CountRecentRequests(p)' + Cardinality(Asking(p)') <= RequestsPerWindow + Cardinality(Requesters) - 1
    BY <1>e, <2>7, <2>9, <2>10
  <2>12. ASSUME NEW o \in Phones
         PROVE  CountRecentRequests(o)' + Cardinality(Asking(o)') <= RequestsPerWindow + Cardinality(Requesters) - 1
    <3>1. CASE o = p
      BY <2>11, <3>1
    <3>2. CASE o # p
      BY <1>f, <2>5, <2>6, <3>2
    <3> QED  BY <3>1, <3>2
  <2> QED  BY <2>12 DEF RequestsCounted
<1>3. ASSUME NEW c \in Checkers, NEW r \in DOMAIN codes, NEW right \in BOOLEAN, ConfirmCode(c, r, right)
      PROVE  RequestsCounted'
  BY <1>g, <1>3 DEF ConfirmCode, Recent, Asking
<1>4. ASSUME NEW c \in Checkers, IncrementAttempts(c) PROVE RequestsCounted'
  <2>1. PICK r \in DOMAIN codes : r = checking[c].row
    BY <1>0, <1>4 DEF IncrementAttempts, CheckStates, IdleCheck
  <2>2. DOMAIN codes' = DOMAIN codes /\ asking' = asking /\ (\A q \in DOMAIN codes : q # r => codes'[q] = codes[q])
        /\ codes'[r] = [codes[r] EXCEPT !.attempts = codes[r].attempts + 1]
    BY <1>0, <1>4, <2>1 DEF IncrementAttempts
  <2>3. codes[r] \in Row
    BY <1>0
  <2>4. codes'[r].phone = codes[r].phone /\ codes'[r].recent = codes[r].recent /\ codes'[r].deleted = codes[r].deleted
    BY <2>2, <2>3 DEF Row
  <2>5. \A p \in Phones : Recent(p)' \subseteq Recent(p) /\ Asking(p)' \subseteq Asking(p)
    BY <2>2, <2>4 DEF Recent, Asking
  <2> QED  BY <1>g, <2>5
<1>5. ASSUME NEW c \in Checkers, CountMismatch(c) PROVE RequestsCounted'
  <2>1. checking[c].row \in DOMAIN codes
    BY <1>0, <1>5 DEF CountMismatch, CheckStates, IdleCheck
  <2>2. asking' = asking /\ (QuietRow(checking[c].row) \/ codes' = codes)
    BY <1>5 DEF CountMismatch, ExpireVerification, QuietRow
  <2>3. CASE QuietRow(checking[c].row)
    BY <1>q, <2>1, <2>2, <2>3
  <2>4. CASE codes' = codes
    BY <1>g, <2>2, <2>4 DEF Recent, Asking
  <2> QED  BY <2>2, <2>3, <2>4
<1>6. ASSUME NEW c \in Checkers, IssueGrant(c) PROVE RequestsCounted'
  <2>1. PICK r \in DOMAIN codes : r = checking[c].row
    BY <1>0, <1>6 DEF IssueGrant, CheckStates, IdleCheck
  <2>2. DOMAIN codes' = DOMAIN codes /\ asking' = asking /\ (\A q \in DOMAIN codes : q # r => codes'[q] = codes[q])
        /\ codes'[r] = [codes[r] EXCEPT !.verified = TRUE, !.grant = Len(issued) + 1, !.grantExpired = FALSE]
    BY <1>0, <1>6, <2>1 DEF IssueGrant, MarkVerified
  <2>3. codes[r] \in Row
    BY <1>0
  <2>4. codes'[r].phone = codes[r].phone /\ codes'[r].recent = codes[r].recent /\ codes'[r].deleted = codes[r].deleted
    BY <2>2, <2>3 DEF Row
  <2>5. \A p \in Phones : Recent(p)' \subseteq Recent(p) /\ Asking(p)' \subseteq Asking(p)
    BY <2>2, <2>4 DEF Recent, Asking
  <2> QED  BY <1>g, <2>5
<1>7. ASSUME NEW c \in Checkers, ConfirmFails(c) PROVE RequestsCounted'
  BY <1>g, <1>7 DEF ConfirmFails, Recent, Asking
<1>8. ASSUME NEW r \in DOMAIN codes,
             CodeExpires(r) \/ GrantExpires(r) \/ WindowPasses(r) \/ DeleteExpiredBefore(r)
      PROVE  RequestsCounted'
  <2>1. QuietRow(r) /\ asking' = asking
    BY <1>8 DEF CodeExpires, GrantExpires, WindowPasses, DeleteExpiredBefore, QuietRow
  <2> QED  BY <1>q, <2>1
<1>9. ASSUME GrantSpent PROVE RequestsCounted'
  <2>1. asking' = asking /\ \E r \in DOMAIN codes : QuietRow(r)
    BY <1>9 DEF GrantSpent, QuietRow
  <2> QED  BY <1>q, <2>1
<1>10. ASSUME RequestsForgotten PROVE RequestsCounted'
  BY <1>g, <1>10 DEF RequestsForgotten, Recent, Asking, IdleAsk
<1>11. ASSUME UNCHANGED phoneVars PROVE RequestsCounted'
  BY <1>g, <1>11 DEF phoneVars, Recent, Asking
<1> QED
  BY <1>1, <1>2, <1>3, <1>4, <1>5, <1>6, <1>7, <1>8, <1>9, <1>10, <1>11 DEF PhoneStep, PhoneNext

\* The codes and grants keep their invariant, whoever takes the step.
LEMMA PhoneInvStep ==
    ASSUME PhoneInv, PhoneStep
    PROVE  PhoneInv'
  BY PhoneTypeStep, GrantsMatchStep, GuessesStep, RequestsStep DEF PhoneInv

-----------------------------------------------------------------------------
(* Every step is a step of the codes *)

\* A grant that is spent is a row's.
LEMMA AccountSpendsGrant ==
    ASSUME members \in Seq(MemberRows), NEW i, NEW p, NEW g, NEW photo, NEW t, NEW known,
           CreateAccount(i, p, g, photo, t, known)
    PROVE  GrantSpent /\ RowOfGrant(g) \in DOMAIN codes /\ codes[RowOfGrant(g)].grant = g
<1>1. \E r \in DOMAIN codes : codes[r].grant = g
  BY DEF CreateAccount, PersistSignupEvidence, UsableGrant
<1>2. RowOfGrant(g) \in DOMAIN codes /\ codes[RowOfGrant(g)].grant = g
  BY <1>1 DEF RowOfGrant
<1>3. Len(members) + 1 \in Nat
  OBVIOUS
<1> QED
  BY <1>2, <1>3 DEF CreateAccount, PersistSignupEvidence, GrantSpent

LEMMA EveryStepIsAPhoneStep ==
    ASSUME FormType, Next \/ UNCHANGED vars
    PROVE  PhoneStep
<1>0. members \in Seq(MemberRows)
  BY DEF FormType
<1>1. ASSUME NEW s \in Forms, CreateSocialAccount(s) \/ CommitUnknown(s) \/ CreatePasswordAccount(s) PROVE PhoneStep
  BY <1>0, <1>1, AccountSpendsGrant DEF CreateSocialAccount, CommitUnknown, CreatePasswordAccount, PhoneStep
<1>2. ASSUME Restart PROVE PhoneStep
  BY <1>2 DEF Restart, RequestsForgotten, PhoneStep
<1>3. ASSUME PhoneNext PROVE PhoneStep
  BY <1>3 DEF PhoneStep
<1>4. ASSUME \/ UNCHANGED vars
             \/ \E t \in Tokens, i \in Identities : Authenticate(t, i)
             \/ \E t \in Tokens : SocialLinkCancel(t)
             \/ \E t \in Tokens : TokenExpires(t)
             \/ \E t \in Tokens : Expire(t)
             \/ \E t \in Tokens, f \in Files : UploadPhoto(t, f)
             \/ \E f \in Files : FinishUpload(f)
             \/ \E f \in Files, outcome \in {"ok", "storeFails", "unlinkFails"} : DiscardUnclaimedProfile(f, outcome)
             \/ \E s \in Forms, t \in Tokens, p \in Phones, g \in DOMAIN issued, choice \in Files \union {"keep", NoFile} : SocialLink(s, t, p, g, choice)
             \/ \E s \in Forms, consent \in BOOLEAN : CheckForm(s, consent)
             \/ \E s \in Forms : CreateFails(s)
             \/ \E s \in Forms : ReleaseLease(s)
             \/ \E s \in Forms : FinalizeSocialSignup(s)
             \/ \E s \in Forms, i \in Usernames, p \in Phones, g \in DOMAIN issued : Register(s, i, p, g)
      PROVE  PhoneStep
  <2>1. UNCHANGED phoneVars
    BY <1>4
       DEF vars, Authenticate, SocialLinkCancel, TokenExpires, Expire, UploadPhoto, FinishUpload,
           DiscardUnclaimedProfile, SocialLink, CheckForm, CreateFails, ReleaseLease, FinalizeSocialSignup,
           Register
  <2> QED  BY <2>1 DEF PhoneStep
<1> QED
  BY <1>1, <1>2, <1>3, <1>4 DEF Next, FormNext

-----------------------------------------------------------------------------
(* What a step does to a token *)

\* The token ends: it is finished, and its uploads are discarded but for one.
Ended(t, kept, end) ==
    /\ end \in {"absent", "consumed", "cancelled"} /\ entry' = [entry EXCEPT ![t] = [status |-> end]]
    /\ Cleanup(t, kept)

\* The lease is given back within the time to live.
Returned(t) ==
    /\ ~expired[t] /\ entry' = [entry EXCEPT ![t] = [status |-> "ready", id |-> @.id, photo |-> @.photo]]
    /\ UNCHANGED <<timer, results, discard>>

\* What the steps below have in common.
elsewhere == <<expired, file, upload, members, abandoned>>

LEMMA CancelEnds ==
    ASSUME NEW t \in Tokens, SocialLinkCancel(t)
    PROVE  /\ entry[t].status = "ready" /\ Ended(t, NoFile, "cancelled")
           /\ UNCHANGED elsewhere /\ UNCHANGED form
  BY DEF SocialLinkCancel, Cancel, Ended, elsewhere

LEMMA ExpireEnds ==
    ASSUME NEW t \in Tokens, Expire(t)
    PROVE  /\ timer[t] /\ expired[t] /\ UNCHANGED elsewhere /\ UNCHANGED form
           /\ \/ /\ entry[t].status = "processing"
                 /\ timer' = [timer EXCEPT ![t] = FALSE] /\ UNCHANGED <<entry, results, discard>>
              \/ entry[t].status # "processing" /\ Ended(t, NoFile, "absent")
<1>1. timer[t] /\ expired[t] /\ UNCHANGED elsewhere /\ UNCHANGED form
  BY DEF Expire, elsewhere
<1>2. CASE entry[t].status = "processing"
  BY <1>1, <1>2 DEF Expire
<1>3. CASE entry[t].status # "processing"
  BY <1>1, <1>3 DEF Expire, Ended, Absent
<1> QED
  BY <1>2, <1>3

\* A request that ends finds its own lease, so its token is given back, or ends.
LEMMA ReleaseEnds ==
    ASSUME FormType, FormsHoldTheirLease, NEW s \in Forms, ReleaseLease(s)
    PROVE  \E t \in Tokens :
              /\ form[s].pc = "release" /\ form[s].token = t /\ Leased(t, s)
              /\ form' = [form EXCEPT ![s] = IdleForm] /\ UNCHANGED elsewhere
              /\ Returned(t) \/ (expired[t] /\ Ended(t, NoFile, "absent"))
<1>1. form[s].pc = "release" /\ Leased(form[s].token, s)
  BY DEF ReleaseLease, FormsHoldTheirLease
<1>2. PICK t \in Tokens : t = form[s].token
  BY <1>1 DEF FormType, IdleForm, LinkForms, RegisterForms
<1>3. form' = [form EXCEPT ![s] = IdleForm] /\ UNCHANGED elsewhere /\ Release(t, s)
  BY <1>2 DEF ReleaseLease, elsewhere
<1>4. CASE expired[t]
  <2>1. entry' = [entry EXCEPT ![t] = Absent] /\ Cleanup(t, NoFile)
    BY <1>1, <1>2, <1>3, <1>4 DEF Release
  <2>2. Ended(t, NoFile, "absent")
    BY <2>1 DEF Ended, Absent
  <2> QED  BY <1>1, <1>2, <1>3, <1>4, <2>2
<1>5. CASE ~expired[t]
  BY <1>1, <1>2, <1>3, <1>5 DEF Release, Returned
<1> QED
  BY <1>4, <1>5

LEMMA FinalizeEnds ==
    ASSUME FormType, FormsHoldTheirLease, NEW s \in Forms, FinalizeSocialSignup(s)
    PROVE  \E t \in Tokens :
              /\ form[s].pc = "finalize" /\ form[s].token = t /\ Leased(t, s)
              /\ form' = [form EXCEPT ![s] = IdleForm] /\ UNCHANGED elsewhere
              /\ (expired[t] /\ Ended(t, form[s].photo, "absent")) \/ Ended(t, form[s].photo, "consumed")
<1>1. form[s].pc = "finalize" /\ Leased(form[s].token, s)
  BY DEF FinalizeSocialSignup, FormsHoldTheirLease
<1>2. PICK t \in Tokens : t = form[s].token
  BY <1>1 DEF FormType, IdleForm, LinkForms, RegisterForms
<1>3. form' = [form EXCEPT ![s] = IdleForm] /\ UNCHANGED elsewhere /\ ConsumeWithPhoto(t, s, form[s].photo)
  BY <1>2 DEF FinalizeSocialSignup, elsewhere
<1>4. CASE expired[t]
  BY <1>1, <1>2, <1>3, <1>4 DEF ConsumeWithPhoto, Ended, Absent
<1>5. CASE ~expired[t]
  BY <1>1, <1>2, <1>3, <1>5 DEF ConsumeWithPhoto, Ended
<1> QED
  BY <1>4, <1>5

-----------------------------------------------------------------------------
(* Types *)

\* The store of tokens stays of its kind.
LEMMA StoreTypeStep ==
    ASSUME StoreType, FormType, FormsHoldTheirLease, Next \/ UNCHANGED vars
    PROVE  StoreType'
<1> USE SignupAssumption DEF Entries, Photos
<1>0. /\ entry \in [Tokens -> Entries] /\ expired \in [Tokens -> BOOLEAN] /\ timer \in [Tokens -> BOOLEAN]
      /\ results \in [Tokens -> SUBSET Files]
  BY DEF StoreType
<1>e. ASSUME NEW t \in Tokens, NEW kept, NEW end, Ended(t, kept, end), expired' = expired PROVE StoreType'
  BY <1>0, <1>e DEF Ended, Cleanup, StoreType
<1>r. ASSUME NEW t \in Tokens, NEW s \in Forms, Leased(t, s), Returned(t), expired' = expired PROVE StoreType'
  BY <1>0, <1>r DEF Leased, Returned, StoreType
<1>x. ASSUME NEW t \in Tokens, timer' = [timer EXCEPT ![t] = FALSE], UNCHANGED <<entry, expired, results>>
      PROVE  StoreType'
  BY <1>0, <1>x DEF StoreType
<1>f. ASSUME UNCHANGED <<entry, expired, timer, results>> PROVE StoreType'
  BY <1>f, <1>0 DEF StoreType
<1>1. ASSUME NEW t \in Tokens, NEW i \in Identities, Authenticate(t, i) PROVE StoreType'
  BY <1>0, <1>1 DEF Authenticate, Put, StoreType
<1>2. ASSUME NEW t \in Tokens, SocialLinkCancel(t) PROVE StoreType'
  BY <1>e, <1>2, CancelEnds DEF elsewhere
<1>3. ASSUME NEW t \in Tokens, TokenExpires(t) PROVE StoreType'
  BY <1>0, <1>3 DEF TokenExpires, Absent, StoreType
<1>4. ASSUME NEW t \in Tokens, Expire(t) PROVE StoreType'
  <2>1. CASE entry[t].status = "processing"
    BY <1>x, <1>4, <2>1, ExpireEnds DEF elsewhere, Ended
  <2>2. CASE entry[t].status # "processing"
    BY <1>e, <1>4, <2>2, ExpireEnds DEF elsewhere
  <2> QED  BY <2>1, <2>2
<1>5. ASSUME NEW f \in Files, FinishUpload(f) PROVE StoreType'
  BY <1>0, <1>5 DEF FinishUpload, AttachUpload, Available, Cached, StoreType
<1>6. ASSUME NEW s \in Forms, NEW t \in Tokens, NEW p \in Phones, NEW g \in DOMAIN issued,
             NEW choice \in Files \union {"keep", NoFile}, SocialLink(s, t, p, g, choice)
      PROVE  StoreType'
  BY <1>0, <1>6 DEF SocialLink, Begin, Available, StoreType
<1>7. ASSUME NEW s \in Forms, ReleaseLease(s) PROVE StoreType'
  BY <1>e, <1>r, <1>7, ReleaseEnds DEF elsewhere
<1>8. ASSUME NEW s \in Forms, FinalizeSocialSignup(s) PROVE StoreType'
  BY <1>e, <1>8, FinalizeEnds DEF elsewhere
<1>9. ASSUME Restart PROVE StoreType'
  BY <1>0, <1>9 DEF Restart, Absent, StoreType
<1>10. ASSUME \/ UNCHANGED vars
              \/ \E t \in Tokens, f \in Files : UploadPhoto(t, f)
              \/ \E f \in Files, outcome \in {"ok", "storeFails", "unlinkFails"} : DiscardUnclaimedProfile(f, outcome)
              \/ \E s \in Forms, consent \in BOOLEAN : CheckForm(s, consent)
              \/ \E s \in Forms : CreateSocialAccount(s)
              \/ \E s \in Forms : CommitUnknown(s)
              \/ \E s \in Forms : CreateFails(s)
              \/ \E s \in Forms, i \in Usernames, p \in Phones, g \in DOMAIN issued : Register(s, i, p, g)
              \/ \E s \in Forms : CreatePasswordAccount(s)
              \/ UNCHANGED signupVars
      PROVE  StoreType'
  BY <1>f, <1>10
     DEF vars, signupVars, phoneVars, UploadPhoto, DiscardUnclaimedProfile, CheckForm, CreateSocialAccount,
         CommitUnknown, CreateFails, Register, CreatePasswordAccount
<1> QED
  BY <1>1, <1>2, <1>3, <1>4, <1>5, <1>6, <1>7, <1>8, <1>9, <1>10 DEF Next, FormNext

\* So do the photos.
LEMMA PhotoTypeStep ==
    ASSUME PhotoType, FormType, FormsHoldTheirLease, Next \/ UNCHANGED vars
    PROVE  PhotoType'
<1> USE SignupAssumption
<1>0. /\ file \in [Files -> {"none", "stored", "retired", "gone"}] /\ discard \in [Files -> 0..DiscardTries]
      /\ upload \in [Files -> Tokens \union {"none"}]
  BY DEF PhotoType
<1>e. ASSUME NEW t \in Tokens, NEW kept, NEW end, Ended(t, kept, end), UNCHANGED elsewhere PROVE PhotoType'
  BY <1>0, <1>e DEF Ended, Cleanup, elsewhere, PhotoType
<1>r. ASSUME NEW t \in Tokens, Returned(t), UNCHANGED elsewhere PROVE PhotoType'
  BY <1>0, <1>r DEF Returned, elsewhere, PhotoType
<1>f. ASSUME UNCHANGED <<file, discard, upload>> PROVE PhotoType'
  BY <1>f, <1>0 DEF PhotoType
<1>1. ASSUME NEW t \in Tokens, SocialLinkCancel(t) PROVE PhotoType'
  BY <1>e, <1>1, CancelEnds
<1>2. ASSUME NEW t \in Tokens, Expire(t) PROVE PhotoType'
  BY <1>e, <1>f, <1>2, ExpireEnds DEF elsewhere
<1>3. ASSUME NEW t \in Tokens, NEW f \in Files, UploadPhoto(t, f) PROVE PhotoType'
  BY <1>0, <1>3 DEF UploadPhoto, Upload, PhotoType
<1>4. ASSUME NEW f \in Files, FinishUpload(f) PROVE PhotoType'
  BY <1>0, <1>4 DEF FinishUpload, AttachUpload, PhotoType
<1>5. ASSUME NEW f \in Files, NEW outcome \in {"ok", "storeFails", "unlinkFails"}, DiscardUnclaimedProfile(f, outcome)
      PROVE  PhotoType'
  <2>1. discard[f] \in 0..DiscardTries /\ discard[f] > 0
    BY <1>0, <1>5 DEF DiscardUnclaimedProfile
  <2>2. discard' \in [Files -> 0..DiscardTries]
    BY <1>0, <1>5, <2>1 DEF DiscardUnclaimedProfile
  <2>3. file' \in [Files -> {"none", "stored", "retired", "gone"}]
    BY <1>0, <1>5 DEF DiscardUnclaimedProfile
  <2>4. upload' = upload
    BY <1>5 DEF DiscardUnclaimedProfile
  <2> QED  BY <1>0, <2>2, <2>3, <2>4 DEF PhotoType
<1>6. ASSUME NEW s \in Forms, ReleaseLease(s) PROVE PhotoType'
  BY <1>e, <1>r, <1>6, ReleaseEnds
<1>7. ASSUME NEW s \in Forms, FinalizeSocialSignup(s) PROVE PhotoType'
  BY <1>e, <1>7, FinalizeEnds
<1>8. ASSUME Restart PROVE PhotoType'
  BY <1>0, <1>8 DEF Restart, PhotoType
<1>9. ASSUME \/ UNCHANGED vars
             \/ \E t \in Tokens, i \in Identities : Authenticate(t, i)
             \/ \E t \in Tokens : TokenExpires(t)
             \/ \E s \in Forms, t \in Tokens, p \in Phones, g \in DOMAIN issued, choice \in Files \union {"keep", NoFile} : SocialLink(s, t, p, g, choice)
             \/ \E s \in Forms, consent \in BOOLEAN : CheckForm(s, consent)
             \/ \E s \in Forms : CreateSocialAccount(s)
             \/ \E s \in Forms : CommitUnknown(s)
             \/ \E s \in Forms : CreateFails(s)
             \/ \E s \in Forms, i \in Usernames, p \in Phones, g \in DOMAIN issued : Register(s, i, p, g)
             \/ \E s \in Forms : CreatePasswordAccount(s)
             \/ UNCHANGED signupVars
      PROVE  PhotoType'
  BY <1>f, <1>9
     DEF vars, signupVars, phoneVars, Authenticate, TokenExpires, SocialLink, CheckForm, CreateSocialAccount,
         CommitUnknown, CreateFails, Register, CreatePasswordAccount
<1> QED
  BY <1>1, <1>2, <1>3, <1>4, <1>5, <1>6, <1>7, <1>8, <1>9 DEF Next, FormNext

\* What was issued and written about a number stays: the codes never give up a
\* row, its phone, its owner or a grant.
LEMMA EvidenceStays ==
    ASSUME PhoneType, PhoneNext
    PROVE  /\ issued' \in Seq(DOMAIN codes') /\ DOMAIN codes \subseteq DOMAIN codes'
           /\ DOMAIN issued \subseteq DOMAIN issued' /\ \A g \in DOMAIN issued : issued'[g] = issued[g]
           /\ \A r \in DOMAIN codes : codes'[r].phone = codes[r].phone /\ codes'[r].owner = codes[r].owner
<1>0. /\ codes \in [DOMAIN codes -> Row] /\ codes \in Seq(Row) /\ DOMAIN codes = 1..Len(codes)
      /\ issued \in Seq(DOMAIN codes) /\ DOMAIN issued = 1..Len(issued)
      /\ checking \in [Checkers -> CheckStates]
  BY DEF PhoneType
<1>1. issued' \in Seq(DOMAIN codes')
  BY PhoneTypeStep DEF PhoneType, PhoneStep
<1>2. DOMAIN issued \subseteq DOMAIN issued' /\ \A g \in DOMAIN issued : issued'[g] = issued[g]
  <2>1. issued' = issued \/ \E c \in Checkers : IssueGrant(c)
    BY DEF PhoneNext, RequestCode, SendCode, ConfirmCode, IncrementAttempts, CountMismatch, ConfirmFails,
           CodeExpires, GrantExpires, WindowPasses, DeleteExpiredBefore
  <2>2. ASSUME NEW c \in Checkers, IssueGrant(c)
        PROVE  DOMAIN issued \subseteq DOMAIN issued' /\ \A g \in DOMAIN issued : issued'[g] = issued[g]
    <3>1. PICK r \in DOMAIN codes : r = checking[c].row
      BY <1>0, <2>2 DEF IssueGrant, CheckStates, IdleCheck
    <3> QED  BY <1>0, <2>2, <3>1 DEF IssueGrant
  <2> QED  BY <2>1, <2>2
<1>3. ASSUME NEW r \in DOMAIN codes, NEW q \in DOMAIN codes, NEW row \in Row, codes' = [codes EXCEPT ![q] = row],
             row.phone = codes[q].phone, row.owner = codes[q].owner
      PROVE  codes'[r].phone = codes[r].phone /\ codes'[r].owner = codes[r].owner
  BY <1>0, <1>3
<1>4. ASSUME NEW r \in DOMAIN codes, NEW q \in DOMAIN codes,
             \/ codes' = [codes EXCEPT ![q].expired = TRUE] \/ codes' = [codes EXCEPT ![q].grantExpired = TRUE]
             \/ codes' = [codes EXCEPT ![q].recent = FALSE] \/ codes' = [codes EXCEPT ![q].deleted = TRUE]
      PROVE  codes'[r].phone = codes[r].phone /\ codes'[r].owner = codes[r].owner
  <2>1. codes[q] \in Row
    BY <1>0
  <2>2. CASE codes' = [codes EXCEPT ![q].expired = TRUE]
    BY <1>0, <2>1, <2>2 DEF Row
  <2>3. CASE codes' = [codes EXCEPT ![q].grantExpired = TRUE]
    BY <1>0, <2>1, <2>3 DEF Row
  <2>4. CASE codes' = [codes EXCEPT ![q].recent = FALSE]
    BY <1>0, <2>1, <2>4 DEF Row
  <2>5. CASE codes' = [codes EXCEPT ![q].deleted = TRUE]
    BY <1>0, <2>1, <2>5 DEF Row
  <2> QED  BY <1>4, <2>2, <2>3, <2>4, <2>5
<1>5. ASSUME NEW q \in Requesters, NEW sent \in BOOLEAN, SendCode(q, sent)
      PROVE  DOMAIN codes \subseteq DOMAIN codes' /\ \A r \in DOMAIN codes : codes'[r] = codes[r]
  <2>1. PICK row : codes' = Append(codes, row)
    BY <1>5 DEF SendCode, InsertVerification
  <2> QED  BY <1>0, <2>1
<1>6. ASSUME NEW c \in Checkers, NEW r \in DOMAIN codes, IncrementAttempts(c) \/ CountMismatch(c) \/ IssueGrant(c)
      PROVE  DOMAIN codes' = DOMAIN codes /\ codes'[r].phone = codes[r].phone /\ codes'[r].owner = codes[r].owner
  <2>1. PICK q \in DOMAIN codes : q = checking[c].row
    BY <1>0, <1>6 DEF IncrementAttempts, CountMismatch, IssueGrant, CheckStates, IdleCheck
  <2>2. codes[q] \in Row /\ codes[r] \in Row
    BY <1>0
  <2>3. CASE IncrementAttempts(c)
    BY <1>0, <2>1, <2>2, <2>3 DEF IncrementAttempts, Row
  <2>4. CASE CountMismatch(c)
    <3>1. codes' = [codes EXCEPT ![q].expired = TRUE] \/ codes' = codes
      BY <2>1, <2>4 DEF CountMismatch, ExpireVerification
    <3>2. DOMAIN codes' = DOMAIN codes
      BY <3>1
    <3> QED  BY <1>4, <3>1, <3>2
  <2>5. CASE IssueGrant(c)
    BY <1>0, <2>1, <2>2, <2>5 DEF IssueGrant, MarkVerified, Row
  <2> QED  BY <1>6, <2>3, <2>4, <2>5
<1>7. ASSUME NEW q \in DOMAIN codes, NEW r \in DOMAIN codes,
             CodeExpires(q) \/ GrantExpires(q) \/ WindowPasses(q) \/ DeleteExpiredBefore(q)
      PROVE  DOMAIN codes' = DOMAIN codes /\ codes'[r].phone = codes[r].phone /\ codes'[r].owner = codes[r].owner
  <2>1. \/ codes' = [codes EXCEPT ![q].expired = TRUE] \/ codes' = [codes EXCEPT ![q].grantExpired = TRUE]
        \/ codes' = [codes EXCEPT ![q].recent = FALSE] \/ codes' = [codes EXCEPT ![q].deleted = TRUE]
    BY <1>7 DEF CodeExpires, GrantExpires, WindowPasses, DeleteExpiredBefore
  <2>2. DOMAIN codes' = DOMAIN codes
    BY <2>1
  <2> QED  BY <1>4, <2>1, <2>2
<1>8. \/ codes' = codes \/ \E q \in Requesters, sent \in BOOLEAN : SendCode(q, sent)
      \/ \E c \in Checkers : IncrementAttempts(c) \/ CountMismatch(c) \/ IssueGrant(c)
      \/ \E q \in DOMAIN codes : CodeExpires(q) \/ GrantExpires(q) \/ WindowPasses(q) \/ DeleteExpiredBefore(q)
  BY DEF PhoneNext, RequestCode, ConfirmCode, ConfirmFails
<1>9. /\ DOMAIN codes \subseteq DOMAIN codes'
      /\ \A r \in DOMAIN codes : codes'[r].phone = codes[r].phone /\ codes'[r].owner = codes[r].owner
  <2> SUFFICES ASSUME NEW r \in DOMAIN codes
               PROVE  r \in DOMAIN codes' /\ codes'[r].phone = codes[r].phone /\ codes'[r].owner = codes[r].owner
    OBVIOUS
  <2>1. CASE codes' = codes
    BY <2>1
  <2>2. CASE \E q \in Requesters, sent \in BOOLEAN : SendCode(q, sent)
    BY <1>5, <2>2
  <2>3. CASE \E c \in Checkers : IncrementAttempts(c) \/ CountMismatch(c) \/ IssueGrant(c)
    BY <1>6, <2>3
  <2>4. CASE \E q \in DOMAIN codes : CodeExpires(q) \/ GrantExpires(q) \/ WindowPasses(q) \/ DeleteExpiredBefore(q)
    BY <1>7, <2>4
  <2> QED  BY <1>8, <2>1, <2>2, <2>3, <2>4
<1> QED
  BY <1>1, <1>2, <1>9

\* A row's grant is spent by member m.
SpentBy(r, m) == codes' = [codes EXCEPT ![r].owner = m]

\* The row a grant is spent on: the one it was issued for, not spent before.
LEMMA AccountEvidence ==
    ASSUME PhoneType, GrantsMatch, members \in Seq(MemberRows),
           NEW i, NEW p, NEW g, NEW photo, NEW t, NEW known, CreateAccount(i, p, g, photo, t, known)
    PROVE  \E r \in DOMAIN codes, m \in Nat :
              /\ r = issued[g] /\ codes[r].phone = p /\ codes[r].owner = 0 /\ m = Len(members) + 1
              /\ SpentBy(r, m) /\ UNCHANGED issued
<1>1. PICK r \in DOMAIN codes : codes[r].grant = g /\ g # 0 /\ codes[r].phone = p /\ codes[r].owner = 0
  BY DEF CreateAccount, PersistSignupEvidence, UsableGrant
<1>2. RowOfGrant(g) \in DOMAIN codes /\ codes[RowOfGrant(g)].grant = g
  BY <1>1 DEF RowOfGrant
<1>3. r = issued[g] /\ RowOfGrant(g) = r
  BY <1>1, <1>2 DEF GrantsMatch
<1>4. PICK m \in Nat : m = Len(members) + 1
  OBVIOUS
<1>5. SpentBy(r, m)
  BY <1>3, <1>4 DEF SpentBy, CreateAccount, PersistSignupEvidence
<1>6. UNCHANGED issued
  BY DEF CreateAccount
<1> QED
  BY <1>1, <1>3, <1>4, <1>5, <1>6

\* The forms and the members stay of their kind, and name grants that were issued.
LEMMA FormTypeStep ==
    ASSUME PhoneType, StoreType, FormType, FormsHoldTheirLease, Next \/ UNCHANGED vars
    PROVE  FormType'
<1> USE SignupAssumption
<1>0. /\ form \in [Forms -> {IdleForm} \union LinkForms \union RegisterForms] /\ members \in Seq(MemberRows)
      /\ entry \in [Tokens -> Entries]
  BY DEF FormType, StoreType
<1>i. ASSUME NEW s \in Forms, UNCHANGED <<members, issued>>, form' = [form EXCEPT ![s] = IdleForm] PROVE FormType'
  BY <1>0, <1>i DEF FormType, LinkForms, RegisterForms, MemberRows
<1>p. ASSUME NEW s \in Forms, UNCHANGED <<members, issued>>, NEW pc \in {"check", "create", "release", "finalize"},
             form[s].pc \in {"check", "create", "release", "finalize"}, form' = [form EXCEPT ![s].pc = pc]
      PROVE  FormType'
  <2>1. form[s] \in LinkForms
    BY <1>0, <1>p DEF IdleForm, LinkForms, RegisterForms
  <2>2. [form[s] EXCEPT !.pc = pc] \in LinkForms
    BY <2>1 DEF LinkForms
  <2>3. form' = [form EXCEPT ![s] = [form[s] EXCEPT !.pc = pc]]
    BY <1>0, <1>p
  <2> QED  BY <1>0, <1>p, <2>2, <2>3 DEF FormType, LinkForms, RegisterForms, MemberRows
<1>m. ASSUME NEW i \in Identities \union Usernames, NEW p \in Phones, NEW g \in DOMAIN issued, NEW photo \in Photos,
             NEW t \in Tokens \union {"none"}, NEW known \in BOOLEAN, CreateAccount(i, p, g, photo, t, known)
      PROVE  members' \in Seq(MemberRows) /\ issued' = issued
  <2>1. [id |-> i, phone |-> p, photo |-> photo, token |-> t, grant |-> g, known |-> known] \in MemberRows
    BY DEF MemberRows
  <2> QED  BY <1>0, <1>m, <2>1 DEF CreateAccount
<1>c. ASSUME NEW s \in Forms, NEW known \in BOOLEAN, NEW pc \in {"finalize", "release"}, form[s].pc = "create",
             CreateAccount(form[s].id, form[s].phone, form[s].grant, form[s].photo, form[s].token, known),
             form' = [form EXCEPT ![s].pc = pc]
      PROVE  FormType'
  <2>1. form[s] \in LinkForms
    BY <1>0, <1>c DEF IdleForm, LinkForms, RegisterForms
  <2>2. /\ form[s].id \in Identities /\ form[s].phone \in Phones /\ form[s].grant \in DOMAIN issued
        /\ form[s].photo \in Photos /\ form[s].token \in Tokens
    BY <2>1 DEF LinkForms
  <2>3. members' \in Seq(MemberRows) /\ issued' = issued
    BY <1>c, <1>m, <2>2
  <2>4. [form[s] EXCEPT !.pc = pc] \in LinkForms
    BY <2>1 DEF LinkForms
  <2>5. form' = [form EXCEPT ![s] = [form[s] EXCEPT !.pc = pc]]
    BY <1>0, <1>c
  <2> QED  BY <1>0, <1>c, <2>3, <2>4, <2>5 DEF FormType, LinkForms, RegisterForms, MemberRows
<1>f. ASSUME UNCHANGED <<form, members, issued>> PROVE FormType'
  BY <1>f, <1>0 DEF FormType, LinkForms, RegisterForms, MemberRows
<1>1. ASSUME NEW s \in Forms, NEW t \in Tokens, NEW p \in Phones, NEW g \in DOMAIN issued,
             NEW choice \in Files \union {"keep", NoFile}, SocialLink(s, t, p, g, choice)
      PROVE  FormType'
  <2>1. entry[t] \in Entries /\ entry[t].status = "ready"
    BY <1>0, <1>1 DEF SocialLink, Begin, Available
  <2>2. entry[t].id \in Identities /\ entry[t].photo \in Photos
    BY <2>1 DEF Entries
  <2> DEFINE new == [pc |-> "check", token |-> t, id |-> entry[t].id, phone |-> p, grant |-> g,
                     photo |-> IF choice = "keep" THEN entry[t].photo ELSE choice, kept |-> choice = "keep"]
  <2>3. (IF choice = "keep" THEN entry[t].photo ELSE choice) \in Photos
    BY <2>2 DEF Photos
  <2>4. new \in LinkForms
    BY <2>2, <2>3 DEF LinkForms
  <2>5. form' = [form EXCEPT ![s] = new] /\ UNCHANGED <<members, issued>>
    BY <1>1 DEF SocialLink, phoneVars
  <2> QED  BY <1>0, <2>4, <2>5 DEF FormType, LinkForms, RegisterForms, MemberRows
<1>2. ASSUME NEW s \in Forms, NEW consent \in BOOLEAN, CheckForm(s, consent) PROVE FormType'
  <2>1. PICK pc \in {"create", "release"} : form' = [form EXCEPT ![s].pc = pc]
    BY <1>2 DEF CheckForm
  <2> QED  BY <1>p, <1>2, <2>1 DEF CheckForm, phoneVars
<1>3. ASSUME NEW s \in Forms, CreateSocialAccount(s) PROVE FormType'
  BY <1>c, <1>3 DEF CreateSocialAccount
<1>4. ASSUME NEW s \in Forms, CommitUnknown(s) PROVE FormType'
  BY <1>c, <1>4 DEF CommitUnknown
<1>5. ASSUME NEW s \in Forms, CreateFails(s) PROVE FormType'
  BY <1>p, <1>5 DEF CreateFails, phoneVars
<1>6. ASSUME NEW s \in Forms, ReleaseLease(s) PROVE FormType'
  BY <1>i, <1>6, ReleaseEnds DEF ReleaseLease, phoneVars
<1>7. ASSUME NEW s \in Forms, FinalizeSocialSignup(s) PROVE FormType'
  BY <1>i, <1>7, FinalizeEnds DEF FinalizeSocialSignup, phoneVars
<1>8. ASSUME NEW s \in Forms, NEW i \in Usernames, NEW p \in Phones, NEW g \in DOMAIN issued, Register(s, i, p, g)
      PROVE  FormType'
  <2>1. [pc |-> "insert", id |-> i, phone |-> p, grant |-> g] \in RegisterForms
    BY DEF RegisterForms
  <2> QED  BY <1>0, <1>8, <2>1 DEF Register, phoneVars, FormType, LinkForms, RegisterForms, MemberRows
<1>9. ASSUME NEW s \in Forms, CreatePasswordAccount(s) PROVE FormType'
  <2>1. form[s] \in RegisterForms
    BY <1>0, <1>9 DEF CreatePasswordAccount, IdleForm, LinkForms, RegisterForms
  <2>2. form[s].id \in Usernames /\ form[s].phone \in Phones /\ form[s].grant \in DOMAIN issued /\ NoFile \in Photos
    BY <2>1 DEF RegisterForms, Photos
  <2>3. members' \in Seq(MemberRows) /\ issued' = issued
    <3>1. CASE CreateAccount(form[s].id, form[s].phone, form[s].grant, NoFile, "none", TRUE)
      BY <1>m, <2>2, <3>1
    <3>2. CASE UNCHANGED <<phoneVars, members>>
      BY <1>0, <3>2 DEF phoneVars
    <3> QED  BY <1>9, <3>1, <3>2 DEF CreatePasswordAccount
  <2>4. form' = [form EXCEPT ![s] = IdleForm]
    BY <1>9 DEF CreatePasswordAccount
  <2> QED  BY <1>0, <2>3, <2>4 DEF FormType, LinkForms, RegisterForms, MemberRows
<1>10. ASSUME Restart PROVE FormType'
  BY <1>0, <1>10 DEF Restart, FormType, LinkForms, RegisterForms, MemberRows
<1>11. ASSUME PhoneNext, UNCHANGED signupVars PROVE FormType'
  <2>1. DOMAIN issued \subseteq DOMAIN issued'
    BY <1>11, EvidenceStays
  <2>2. MemberRows \subseteq MemberRows'
    BY <2>1 DEF MemberRows
  <2>3. members' \in Seq(MemberRows')
    BY <1>0, <1>11, <2>2, SeqMonotonic DEF signupVars
  <2>4. form' = form
    BY <1>11 DEF signupVars
  <2>5. LinkForms \subseteq LinkForms' /\ RegisterForms \subseteq RegisterForms'
    BY <2>1 DEF LinkForms, RegisterForms
  <2>6. form' \in [Forms -> {IdleForm} \union LinkForms' \union RegisterForms']
    BY <1>0, <2>4, <2>5
  <2> QED  BY <2>3, <2>6 DEF FormType
<1>12. ASSUME \/ UNCHANGED vars
              \/ \E t \in Tokens, i \in Identities : Authenticate(t, i)
              \/ \E t \in Tokens : SocialLinkCancel(t)
              \/ \E t \in Tokens : TokenExpires(t)
              \/ \E t \in Tokens : Expire(t)
              \/ \E t \in Tokens, f \in Files : UploadPhoto(t, f)
              \/ \E f \in Files : FinishUpload(f)
              \/ \E f \in Files, outcome \in {"ok", "storeFails", "unlinkFails"} : DiscardUnclaimedProfile(f, outcome)
      PROVE  FormType'
  BY <1>f, <1>12
     DEF vars, signupVars, phoneVars, Authenticate, SocialLinkCancel, TokenExpires, Expire, UploadPhoto,
         FinishUpload, DiscardUnclaimedProfile
<1> QED
  BY <1>1, <1>2, <1>3, <1>4, <1>5, <1>6, <1>7, <1>8, <1>9, <1>10, <1>11, <1>12 DEF Next, FormNext

-----------------------------------------------------------------------------
(* Leases *)

\* A lease stays its form's until the form ends.
LEMMA LeaseStep ==
    ASSUME StoreType, FormType, FormsHoldTheirLease, Next \/ UNCHANGED vars
    PROVE  FormsHoldTheirLease'
<1>0. /\ form \in [Forms -> {IdleForm} \union LinkForms \union RegisterForms] /\ entry \in [Tokens -> Entries]
      /\ \A s \in Forms : form[s].pc \in {"check", "create", "release", "finalize"} =>
            form[s].token \in Tokens /\ Leased(form[s].token, s)
  BY DEF FormType, StoreType, FormsHoldTheirLease, IdleForm, LinkForms, RegisterForms
\* A token that is not leased, or whose lease ends with its form, may change.
<1>t. ASSUME NEW t \in Tokens, UNCHANGED form, entry[t].status # "processing",
             \A u \in Tokens : u # t => entry'[u] = entry[u] PROVE FormsHoldTheirLease'
  BY <1>0, <1>t DEF FormsHoldTheirLease, Leased
<1>s. ASSUME NEW t \in Tokens, NEW s \in Forms, Leased(t, s), form' = [form EXCEPT ![s] = IdleForm],
             \A u \in Tokens : u # t => entry'[u] = entry[u] PROVE FormsHoldTheirLease'
  BY <1>0, <1>s DEF FormsHoldTheirLease, Leased, IdleForm
<1>p. ASSUME NEW s \in Forms, UNCHANGED entry, NEW pc, form' = [form EXCEPT ![s].pc = pc],
             form[s].pc \in {"check", "create", "release", "finalize"} PROVE FormsHoldTheirLease'
  <2>1. form'[s].token = form[s].token /\ \A u \in Forms : u # s => form'[u] = form[u]
    BY <1>0, <1>p DEF IdleForm, LinkForms, RegisterForms
  <2> QED  BY <1>0, <1>p, <2>1 DEF FormsHoldTheirLease, Leased
<1>o. ASSUME NEW t \in Tokens, NEW kept, NEW end, Ended(t, kept, end) PROVE \A u \in Tokens : u # t => entry'[u] = entry[u]
  BY <1>0, <1>o DEF Ended
<1>r. ASSUME NEW t \in Tokens, Returned(t) PROVE \A u \in Tokens : u # t => entry'[u] = entry[u]
  BY <1>0, <1>r DEF Returned
<1>f. ASSUME UNCHANGED <<form, entry>> PROVE FormsHoldTheirLease'
  BY <1>f, <1>0 DEF FormsHoldTheirLease, Leased
<1>1. ASSUME NEW t \in Tokens, NEW i \in Identities, Authenticate(t, i) PROVE FormsHoldTheirLease'
  <2>1. entry[t].status # "processing" /\ form' = form
    BY <1>1 DEF Authenticate, Put
  <2> QED  BY <1>0, <1>t, <1>1, <2>1 DEF Authenticate, Put
<1>2. ASSUME NEW t \in Tokens, SocialLinkCancel(t) PROVE FormsHoldTheirLease'
  BY <1>o, <1>t, <1>2, CancelEnds
<1>3. ASSUME NEW t \in Tokens, TokenExpires(t) PROVE FormsHoldTheirLease'
  <2>1. CASE entry[t].status = "processing"
    BY <1>0, <1>f, <1>3, <2>1 DEF TokenExpires
  <2>2. CASE entry[t].status # "processing"
    BY <1>0, <1>t, <1>3, <2>2 DEF TokenExpires
  <2> QED  BY <2>1, <2>2
<1>4. ASSUME NEW t \in Tokens, Expire(t) PROVE FormsHoldTheirLease'
  BY <1>f, <1>o, <1>t, <1>4, ExpireEnds
<1>5. ASSUME NEW f \in Files, FinishUpload(f) PROVE FormsHoldTheirLease'
  <2>1. CASE Available(upload[f])
    BY <1>0, <1>t, <1>5, <2>1 DEF FinishUpload, AttachUpload, Available
  <2>2. CASE ~Available(upload[f])
    BY <1>f, <1>5, <2>2 DEF FinishUpload, AttachUpload
  <2> QED  BY <2>1, <2>2
<1>6. ASSUME NEW s \in Forms, NEW t \in Tokens, NEW p \in Phones, NEW g \in DOMAIN issued,
             NEW choice \in Files \union {"keep", NoFile}, SocialLink(s, t, p, g, choice)
      PROVE  FormsHoldTheirLease'
  <2>1. entry[t].status = "ready" /\ form[s].pc = "idle"
    BY <1>6 DEF SocialLink, Begin, Available
  <2>2. entry'[t].status = "processing" /\ entry'[t].lease = s /\ \A u \in Tokens : u # t => entry'[u] = entry[u]
    BY <1>0, <1>6 DEF SocialLink, Begin
  <2>3. form'[s].token = t /\ \A u \in Forms : u # s => form'[u] = form[u]
    BY <1>0, <1>6 DEF SocialLink
  <2> QED  BY <1>0, <2>1, <2>2, <2>3 DEF FormsHoldTheirLease, Leased
<1>7. ASSUME NEW s \in Forms, NEW consent \in BOOLEAN, CheckForm(s, consent) PROVE FormsHoldTheirLease'
  BY <1>p, <1>7 DEF CheckForm
<1>8. ASSUME NEW s \in Forms, CreateSocialAccount(s) PROVE FormsHoldTheirLease'
  BY <1>p, <1>8 DEF CreateSocialAccount
<1>9. ASSUME NEW s \in Forms, CommitUnknown(s) PROVE FormsHoldTheirLease'
  BY <1>p, <1>9 DEF CommitUnknown
<1>10. ASSUME NEW s \in Forms, CreateFails(s) PROVE FormsHoldTheirLease'
  BY <1>p, <1>10 DEF CreateFails
<1>11. ASSUME NEW s \in Forms, ReleaseLease(s) PROVE FormsHoldTheirLease'
  BY <1>o, <1>r, <1>s, <1>11, ReleaseEnds
<1>12. ASSUME NEW s \in Forms, FinalizeSocialSignup(s) PROVE FormsHoldTheirLease'
  BY <1>o, <1>s, <1>12, FinalizeEnds
<1>13. ASSUME NEW s \in Forms, NEW i \in Usernames, NEW p \in Phones, NEW g \in DOMAIN issued, Register(s, i, p, g)
      PROVE  FormsHoldTheirLease'
  <2>1. form'[s].pc = "insert" /\ (\A u \in Forms : u # s => form'[u] = form[u]) /\ entry' = entry
    BY <1>0, <1>13 DEF Register
  <2> QED  BY <1>0, <2>1 DEF FormsHoldTheirLease, Leased
<1>14. ASSUME NEW s \in Forms, CreatePasswordAccount(s) PROVE FormsHoldTheirLease'
  <2>1. form'[s].pc = "idle" /\ (\A u \in Forms : u # s => form'[u] = form[u]) /\ entry' = entry
    BY <1>0, <1>14 DEF CreatePasswordAccount, IdleForm
  <2> QED  BY <1>0, <2>1 DEF FormsHoldTheirLease, Leased
<1>15. ASSUME Restart PROVE FormsHoldTheirLease'
  BY <1>0, <1>15 DEF Restart, FormsHoldTheirLease, IdleForm
<1>16. ASSUME \/ UNCHANGED vars
              \/ \E t \in Tokens, f \in Files : UploadPhoto(t, f)
              \/ \E f \in Files, outcome \in {"ok", "storeFails", "unlinkFails"} : DiscardUnclaimedProfile(f, outcome)
              \/ UNCHANGED signupVars
      PROVE  FormsHoldTheirLease'
  BY <1>f, <1>16
     DEF vars, signupVars, phoneVars, UploadPhoto, DiscardUnclaimedProfile
<1> QED
  BY <1>1, <1>2, <1>3, <1>4, <1>5, <1>6, <1>7, <1>8, <1>9, <1>10, <1>11, <1>12, <1>13, <1>14, <1>15, <1>16 DEF Next, FormNext

\* The photo a form keeps stays the one its token has: nothing is attached to a
\* token under a lease.
LEMMA KeptPhotoStep ==
    ASSUME StoreType, FormType, FormsHoldTheirLease, KeptPhotoIsTheTokens, Next \/ UNCHANGED vars
    PROVE  KeptPhotoIsTheTokens'
<1>0. /\ form \in [Forms -> {IdleForm} \union LinkForms \union RegisterForms] /\ entry \in [Tokens -> Entries]
      /\ \A s \in Forms : form[s].pc \in {"check", "create", "release", "finalize"} =>
            form[s].token \in Tokens /\ Leased(form[s].token, s)
  BY DEF FormType, StoreType, FormsHoldTheirLease, IdleForm, LinkForms, RegisterForms
<1>t. ASSUME NEW t \in Tokens, UNCHANGED form, entry[t].status # "processing",
             \A u \in Tokens : u # t => entry'[u] = entry[u] PROVE KeptPhotoIsTheTokens'
  BY <1>0, <1>t DEF KeptPhotoIsTheTokens, Leased
<1>s. ASSUME NEW t \in Tokens, NEW s \in Forms, Leased(t, s), form' = [form EXCEPT ![s] = IdleForm],
             \A u \in Tokens : u # t => entry'[u] = entry[u] PROVE KeptPhotoIsTheTokens'
  BY <1>0, <1>s DEF KeptPhotoIsTheTokens, Leased, IdleForm
<1>p. ASSUME NEW s \in Forms, UNCHANGED entry, NEW pc, form' = [form EXCEPT ![s].pc = pc],
             form[s].pc \in {"check", "create"} PROVE KeptPhotoIsTheTokens'
  <2>1. form'[s].token = form[s].token /\ form'[s].photo = form[s].photo /\ form'[s].kept = form[s].kept
        /\ \A u \in Forms : u # s => form'[u] = form[u]
    BY <1>0, <1>p DEF IdleForm, LinkForms, RegisterForms
  <2> QED  BY <1>p, <2>1 DEF KeptPhotoIsTheTokens
<1>o. ASSUME NEW t \in Tokens, NEW kept, NEW end, Ended(t, kept, end) PROVE \A u \in Tokens : u # t => entry'[u] = entry[u]
  BY <1>0, <1>o DEF Ended
<1>r. ASSUME NEW t \in Tokens, Returned(t) PROVE \A u \in Tokens : u # t => entry'[u] = entry[u]
  BY <1>0, <1>r DEF Returned
<1>f. ASSUME UNCHANGED <<form, entry>> PROVE KeptPhotoIsTheTokens'
  BY <1>f, <1>0 DEF KeptPhotoIsTheTokens
<1>1. ASSUME NEW t \in Tokens, NEW i \in Identities, Authenticate(t, i) PROVE KeptPhotoIsTheTokens'
  <2>1. entry[t].status # "processing" /\ form' = form
    BY <1>1 DEF Authenticate, Put
  <2> QED  BY <1>0, <1>t, <1>1, <2>1 DEF Authenticate, Put
<1>2. ASSUME NEW t \in Tokens, SocialLinkCancel(t) PROVE KeptPhotoIsTheTokens'
  BY <1>o, <1>t, <1>2, CancelEnds
<1>3. ASSUME NEW t \in Tokens, TokenExpires(t) PROVE KeptPhotoIsTheTokens'
  <2>1. CASE entry[t].status = "processing"
    BY <1>0, <1>f, <1>3, <2>1 DEF TokenExpires
  <2>2. CASE entry[t].status # "processing"
    BY <1>0, <1>t, <1>3, <2>2 DEF TokenExpires
  <2> QED  BY <2>1, <2>2
<1>4. ASSUME NEW t \in Tokens, Expire(t) PROVE KeptPhotoIsTheTokens'
  BY <1>f, <1>o, <1>t, <1>4, ExpireEnds
<1>5. ASSUME NEW f \in Files, FinishUpload(f) PROVE KeptPhotoIsTheTokens'
  <2>1. CASE Available(upload[f])
    BY <1>0, <1>t, <1>5, <2>1 DEF FinishUpload, AttachUpload, Available
  <2>2. CASE ~Available(upload[f])
    BY <1>f, <1>5, <2>2 DEF FinishUpload, AttachUpload
  <2> QED  BY <2>1, <2>2
<1>6. ASSUME NEW s \in Forms, NEW t \in Tokens, NEW p \in Phones, NEW g \in DOMAIN issued,
             NEW choice \in Files \union {"keep", NoFile}, SocialLink(s, t, p, g, choice)
      PROVE  KeptPhotoIsTheTokens'
  <2>1. entry[t].status = "ready" /\ form[s].pc = "idle"
    BY <1>6 DEF SocialLink, Begin, Available
  <2>2. entry'[t].photo = entry[t].photo /\ \A u \in Tokens : u # t => entry'[u] = entry[u]
    BY <1>0, <1>6 DEF SocialLink, Begin
  <2>3. form'[s].token = t /\ (form'[s].kept => form'[s].photo = entry[t].photo)
    BY <1>0, <1>6 DEF SocialLink
  <2>4. \A u \in Forms : u # s => form'[u] = form[u]
    BY <1>0, <1>6 DEF SocialLink
  <2> QED  BY <1>0, <2>1, <2>2, <2>3, <2>4 DEF KeptPhotoIsTheTokens, Leased
<1>7. ASSUME NEW s \in Forms, NEW consent \in BOOLEAN, CheckForm(s, consent) PROVE KeptPhotoIsTheTokens'
  BY <1>p, <1>7 DEF CheckForm
<1>8. ASSUME NEW s \in Forms, CreateSocialAccount(s) PROVE KeptPhotoIsTheTokens'
  BY <1>p, <1>8 DEF CreateSocialAccount
<1>9. ASSUME NEW s \in Forms, CommitUnknown(s) PROVE KeptPhotoIsTheTokens'
  BY <1>p, <1>9 DEF CommitUnknown
<1>10. ASSUME NEW s \in Forms, CreateFails(s) PROVE KeptPhotoIsTheTokens'
  BY <1>p, <1>10 DEF CreateFails
<1>11. ASSUME NEW s \in Forms, ReleaseLease(s) PROVE KeptPhotoIsTheTokens'
  BY <1>o, <1>r, <1>s, <1>11, ReleaseEnds
<1>12. ASSUME NEW s \in Forms, FinalizeSocialSignup(s) PROVE KeptPhotoIsTheTokens'
  BY <1>o, <1>s, <1>12, FinalizeEnds
<1>13. ASSUME NEW s \in Forms, NEW i \in Usernames, NEW p \in Phones, NEW g \in DOMAIN issued, Register(s, i, p, g)
      PROVE  KeptPhotoIsTheTokens'
  <2>1. form'[s].pc = "insert" /\ (\A u \in Forms : u # s => form'[u] = form[u]) /\ entry' = entry
    BY <1>0, <1>13 DEF Register
  <2> QED  BY <2>1 DEF KeptPhotoIsTheTokens
<1>14. ASSUME NEW s \in Forms, CreatePasswordAccount(s) PROVE KeptPhotoIsTheTokens'
  <2>1. form'[s].pc = "idle" /\ (\A u \in Forms : u # s => form'[u] = form[u]) /\ entry' = entry
    BY <1>0, <1>14 DEF CreatePasswordAccount, IdleForm
  <2> QED  BY <2>1 DEF KeptPhotoIsTheTokens
<1>15. ASSUME Restart PROVE KeptPhotoIsTheTokens'
  BY <1>0, <1>15 DEF Restart, KeptPhotoIsTheTokens, IdleForm
<1>16. ASSUME \/ UNCHANGED vars
              \/ \E t \in Tokens, f \in Files : UploadPhoto(t, f)
              \/ \E f \in Files, outcome \in {"ok", "storeFails", "unlinkFails"} : DiscardUnclaimedProfile(f, outcome)
              \/ UNCHANGED signupVars
      PROVE  KeptPhotoIsTheTokens'
  BY <1>f, <1>16
     DEF vars, signupVars, phoneVars, UploadPhoto, DiscardUnclaimedProfile
<1> QED
  BY <1>1, <1>2, <1>3, <1>4, <1>5, <1>6, <1>7, <1>8, <1>9, <1>10, <1>11, <1>12, <1>13, <1>14, <1>15, <1>16 DEF Next, FormNext

-----------------------------------------------------------------------------
(* Photos *)

\* What a token shows is among its uploads.
LEMMA EntryPhotoStep ==
    ASSUME StoreType, PhotoType, FormType, FormsHoldTheirLease, EntryPhotoTracked, Next \/ UNCHANGED vars
    PROVE  EntryPhotoTracked'
<1> USE SignupAssumption
<1>0. /\ entry \in [Tokens -> Entries] /\ expired \in [Tokens -> BOOLEAN] /\ timer \in [Tokens -> BOOLEAN]
      /\ results \in [Tokens -> SUBSET Files] /\ discard \in [Files -> 0..DiscardTries]
      /\ file \in [Files -> {"none", "stored", "retired", "gone"}] /\ upload \in [Files -> Tokens \union {"none"}]
  BY DEF StoreType, PhotoType
<1>e. ASSUME NEW t \in Tokens, NEW kept, NEW end, Ended(t, kept, end) PROVE EntryPhotoTracked'
  BY <1>0, <1>e DEF Ended, Cleanup, EntryPhotoTracked
<1>r. ASSUME NEW t \in Tokens, NEW s \in Forms, Leased(t, s), Returned(t) PROVE EntryPhotoTracked'
  BY <1>0, <1>r DEF Leased, Returned, EntryPhotoTracked
<1>f. ASSUME UNCHANGED <<entry, results>> PROVE EntryPhotoTracked'
  BY <1>f, <1>0 DEF EntryPhotoTracked
<1>1. ASSUME NEW t \in Tokens, NEW i \in Identities, Authenticate(t, i) PROVE EntryPhotoTracked'
  BY <1>0, <1>1 DEF Authenticate, Put, EntryPhotoTracked
<1>2. ASSUME NEW t \in Tokens, SocialLinkCancel(t) PROVE EntryPhotoTracked'
  BY <1>e, <1>2, CancelEnds
<1>3. ASSUME NEW t \in Tokens, TokenExpires(t) PROVE EntryPhotoTracked'
  BY <1>0, <1>3 DEF TokenExpires, Absent, EntryPhotoTracked
<1>4. ASSUME NEW t \in Tokens, Expire(t) PROVE EntryPhotoTracked'
  BY <1>e, <1>f, <1>4, ExpireEnds
<1>5. ASSUME NEW f \in Files, FinishUpload(f) PROVE EntryPhotoTracked'
  <2>1. CASE Available(upload[f])
    <3>1. PICK t \in Tokens : t = upload[f]
      BY <1>5 DEF FinishUpload
    <3>2. entry' = [entry EXCEPT ![t].photo = f] /\ results' = [results EXCEPT ![t] = results[t] \union {f}]
      BY <1>0, <1>5, <2>1, <3>1 DEF FinishUpload, AttachUpload
    <3>3. entry'[t].photo = f /\ entry'[t].status = entry[t].status
      BY <1>0, <2>1, <3>1, <3>2 DEF Available, Entries
    <3> QED  BY <1>0, <3>2, <3>3 DEF EntryPhotoTracked
  <2>2. CASE ~Available(upload[f])
    BY <1>f, <1>5, <2>2 DEF FinishUpload, AttachUpload
  <2> QED  BY <2>1, <2>2
<1>6. ASSUME NEW s \in Forms, NEW t \in Tokens, NEW p \in Phones, NEW g \in DOMAIN issued,
             NEW choice \in Files \union {"keep", NoFile}, SocialLink(s, t, p, g, choice)
      PROVE  EntryPhotoTracked'
  <2>1. entry[t].status = "ready" /\ results' = results
    BY <1>6 DEF SocialLink, Begin, Available
  <2>2. entry'[t].photo = entry[t].photo /\ \A u \in Tokens : u # t => entry'[u] = entry[u]
    BY <1>0, <1>6 DEF SocialLink, Begin
  <2> QED  BY <1>0, <2>1, <2>2 DEF EntryPhotoTracked
<1>7. ASSUME NEW s \in Forms, ReleaseLease(s) PROVE EntryPhotoTracked'
  BY <1>e, <1>r, <1>7, ReleaseEnds
<1>8. ASSUME NEW s \in Forms, FinalizeSocialSignup(s) PROVE EntryPhotoTracked'
  BY <1>e, <1>8, FinalizeEnds
<1>9. ASSUME Restart PROVE EntryPhotoTracked'
  BY <1>0, <1>9 DEF Restart, Absent, EntryPhotoTracked
<1>10. ASSUME \/ UNCHANGED vars
              \/ \E t \in Tokens, f \in Files : UploadPhoto(t, f)
              \/ \E f \in Files, outcome \in {"ok", "storeFails", "unlinkFails"} : DiscardUnclaimedProfile(f, outcome)
              \/ \E s \in Forms, consent \in BOOLEAN : CheckForm(s, consent)
              \/ \E s \in Forms : CreateSocialAccount(s)
              \/ \E s \in Forms : CommitUnknown(s)
              \/ \E s \in Forms : CreateFails(s)
              \/ \E s \in Forms, i \in Usernames, p \in Phones, g \in DOMAIN issued : Register(s, i, p, g)
              \/ \E s \in Forms : CreatePasswordAccount(s)
              \/ UNCHANGED signupVars
      PROVE  EntryPhotoTracked'
  BY <1>f, <1>10
     DEF vars, signupVars, phoneVars, UploadPhoto, DiscardUnclaimedProfile, CheckForm, CreateSocialAccount,
         CommitUnknown, CreateFails, Register, CreatePasswordAccount
<1> QED
  BY <1>1, <1>2, <1>3, <1>4, <1>5, <1>6, <1>7, <1>8, <1>9, <1>10 DEF Next, FormNext

\* A photo has one owner at a time: the upload, one token, or its discard.
LEMMA TrackedPhotosStep ==
    ASSUME StoreType, PhotoType, FormType, FormsHoldTheirLease, TrackedPhotos, Next \/ UNCHANGED vars
    PROVE  TrackedPhotos'
<1> USE SignupAssumption
<1>0. /\ entry \in [Tokens -> Entries] /\ expired \in [Tokens -> BOOLEAN] /\ timer \in [Tokens -> BOOLEAN]
      /\ results \in [Tokens -> SUBSET Files] /\ discard \in [Files -> 0..DiscardTries]
      /\ file \in [Files -> {"none", "stored", "retired", "gone"}] /\ upload \in [Files -> Tokens \union {"none"}]
  BY DEF StoreType, PhotoType
<1>e. ASSUME NEW t \in Tokens, NEW kept, NEW end, Ended(t, kept, end), UNCHANGED elsewhere PROVE TrackedPhotos'
  <2>1. /\ upload' = upload /\ file' = file /\ DiscardTries \in Nat \ {0}
        /\ results' = [results EXCEPT ![t] = {}]
        /\ \A f \in Files : f \notin results[t] => discard'[f] = discard[f]
    BY <1>0, <1>e DEF Ended, Cleanup, elsewhere
  <2> SUFFICES ASSUME NEW f \in Files
               PROVE  /\ upload'[f] \in Tokens \/ (\E u \in Tokens : f \in results'[u]) => file'[f] = "stored" /\ discard'[f] = 0
                      /\ upload'[f] \in Tokens => \A u \in Tokens : f \notin results'[u]
                      /\ \A u, v \in Tokens : f \in results'[u] /\ f \in results'[v] => u = v
                      /\ file'[f] = "none" => discard'[f] = 0
    BY DEF TrackedPhotos
  <2>2. \A u \in Tokens : f \in results'[u] => f \in results[u] /\ f \notin results[t]
    BY <1>0, <2>1 DEF TrackedPhotos
  <2>3. CASE f \in results[t]
    BY <2>1, <2>2, <2>3 DEF TrackedPhotos
  <2>4. CASE f \notin results[t]
    BY <2>1, <2>2, <2>4 DEF TrackedPhotos
  <2> QED  BY <2>3, <2>4
<1>r. ASSUME NEW t \in Tokens, Returned(t), UNCHANGED elsewhere PROVE TrackedPhotos'
  BY <1>r DEF Returned, elsewhere, TrackedPhotos
<1>f. ASSUME UNCHANGED <<upload, results, file, discard>> PROVE TrackedPhotos'
  BY <1>f, <1>0 DEF TrackedPhotos
<1>1. ASSUME NEW t \in Tokens, SocialLinkCancel(t) PROVE TrackedPhotos'
  BY <1>e, <1>1, CancelEnds
<1>2. ASSUME NEW t \in Tokens, Expire(t) PROVE TrackedPhotos'
  BY <1>e, <1>f, <1>2, ExpireEnds DEF elsewhere
<1>3. ASSUME NEW t \in Tokens, NEW f \in Files, UploadPhoto(t, f) PROVE TrackedPhotos'
  <2>1. file[f] = "none" /\ file'[f] = "stored" /\ upload'[f] = t /\ UNCHANGED <<results, discard>>
        /\ \A u \in Files : u # f => file'[u] = file[u] /\ upload'[u] = upload[u]
    BY <1>0, <1>3 DEF UploadPhoto, Upload
  <2>2. \A u \in Tokens : f \notin results[u]
    BY <2>1 DEF TrackedPhotos
  <2> QED  BY <2>1, <2>2 DEF TrackedPhotos
<1>4. ASSUME NEW f \in Files, FinishUpload(f) PROVE TrackedPhotos'
  <2>1. upload[f] \in Tokens /\ upload'[f] = "none" /\ file' = file /\ \A u \in Files : u # f => upload'[u] = upload[u]
    BY <1>0, <1>4 DEF FinishUpload
  <2>2. file[f] = "stored" /\ discard[f] = 0 /\ \A u \in Tokens : f \notin results[u]
    BY <2>1 DEF TrackedPhotos
  <2>3. CASE Available(upload[f])
    <3>1. PICK t \in Tokens : t = upload[f]
      BY <2>1
    <3>2. discard' = discard /\ results' = [results EXCEPT ![t] = results[t] \union {f}]
      BY <1>0, <1>4, <2>3, <3>1 DEF FinishUpload, AttachUpload
    <3> QED  BY <1>0, <2>1, <2>2, <3>2 DEF TrackedPhotos
  <2>4. CASE ~Available(upload[f])
    <3>1. results' = results /\ \A u \in Files : u # f => discard'[u] = discard[u]
      BY <1>0, <1>4, <2>4 DEF FinishUpload, AttachUpload
    <3> QED  BY <2>1, <2>2, <3>1 DEF TrackedPhotos
  <2> QED  BY <2>3, <2>4
<1>5. ASSUME NEW f \in Files, NEW outcome \in {"ok", "storeFails", "unlinkFails"}, DiscardUnclaimedProfile(f, outcome)
      PROVE  TrackedPhotos'
  <2>1. discard[f] > 0 /\ UNCHANGED <<results, upload>>
        /\ (\A u \in Files : u # f => file'[u] = file[u] /\ discard'[u] = discard[u])
    BY <1>0, <1>5 DEF DiscardUnclaimedProfile
  <2>2. file'[f] \in {"gone", "retired"} \/ file'[f] = file[f]
    BY <1>0, <1>5 DEF DiscardUnclaimedProfile
  <2>3. file[f] # "none" /\ upload[f] \notin Tokens /\ \A u \in Tokens : f \notin results[u]
    BY <1>0, <2>1 DEF TrackedPhotos
  <2> QED  BY <2>1, <2>2, <2>3 DEF TrackedPhotos
<1>6. ASSUME NEW s \in Forms, ReleaseLease(s) PROVE TrackedPhotos'
  BY <1>e, <1>r, <1>6, ReleaseEnds
<1>7. ASSUME NEW s \in Forms, FinalizeSocialSignup(s) PROVE TrackedPhotos'
  BY <1>e, <1>7, FinalizeEnds
<1>8. ASSUME Restart PROVE TrackedPhotos'
  BY <1>0, <1>8 DEF Restart, TrackedPhotos
<1>9. ASSUME \/ UNCHANGED vars
             \/ \E t \in Tokens, i \in Identities : Authenticate(t, i)
             \/ \E t \in Tokens : TokenExpires(t)
             \/ \E s \in Forms, t \in Tokens, p \in Phones, g \in DOMAIN issued, choice \in Files \union {"keep", NoFile} : SocialLink(s, t, p, g, choice)
             \/ \E s \in Forms, consent \in BOOLEAN : CheckForm(s, consent)
             \/ \E s \in Forms : CreateSocialAccount(s)
             \/ \E s \in Forms : CommitUnknown(s)
             \/ \E s \in Forms : CreateFails(s)
             \/ \E s \in Forms, i \in Usernames, p \in Phones, g \in DOMAIN issued : Register(s, i, p, g)
             \/ \E s \in Forms : CreatePasswordAccount(s)
             \/ UNCHANGED signupVars
      PROVE  TrackedPhotos'
  BY ZenonT(60), <1>f, <1>9
     DEF vars, signupVars, phoneVars, Authenticate, TokenExpires, SocialLink, CheckForm, CreateSocialAccount,
         CommitUnknown, CreateFails, Register, CreatePasswordAccount
<1> QED
  BY <1>1, <1>2, <1>3, <1>4, <1>5, <1>6, <1>7, <1>8, <1>9 DEF Next, FormNext

\* A token with something to clean up has a timer, or a lease that outlived it.
LEMMA TimersStep ==
    ASSUME StoreType, PhotoType, FormType, FormsHoldTheirLease, TimersArmed, Next \/ UNCHANGED vars
    PROVE  TimersArmed'
<1> USE SignupAssumption
<1>0. /\ entry \in [Tokens -> Entries] /\ expired \in [Tokens -> BOOLEAN] /\ timer \in [Tokens -> BOOLEAN]
      /\ results \in [Tokens -> SUBSET Files] /\ discard \in [Files -> 0..DiscardTries]
      /\ file \in [Files -> {"none", "stored", "retired", "gone"}] /\ upload \in [Files -> Tokens \union {"none"}]
  BY DEF StoreType, PhotoType
<1>e. ASSUME NEW t \in Tokens, NEW kept, NEW end, Ended(t, kept, end), UNCHANGED elsewhere PROVE TimersArmed'
  <2>1. expired' = expired /\ results'[t] = {} /\ entry'[t].status \in {"absent", "consumed", "cancelled"}
        /\ \A u \in Tokens : u # t => entry'[u] = entry[u] /\ timer'[u] = timer[u] /\ results'[u] = results[u]
    BY <1>0, <1>e DEF Ended, Cleanup, elsewhere
  <2> QED  BY <2>1 DEF TimersArmed
<1>r. ASSUME NEW t \in Tokens, NEW s \in Forms, Leased(t, s), Returned(t), UNCHANGED elsewhere PROVE TimersArmed'
  <2>1. expired' = expired /\ ~expired[t] /\ UNCHANGED <<timer, results>> /\ entry'[t].status = "ready"
        /\ entry[t].status = "processing" /\ \A u \in Tokens : u # t => entry'[u] = entry[u]
    BY <1>0, <1>r DEF Leased, Returned, elsewhere
  <2> QED  BY <2>1 DEF TimersArmed
<1>f. ASSUME UNCHANGED <<results, timer, entry, expired>> PROVE TimersArmed'
  BY <1>f, <1>0 DEF TimersArmed
<1>1. ASSUME NEW t \in Tokens, NEW i \in Identities, Authenticate(t, i) PROVE TimersArmed'
  <2>1. ~expired[t] /\ timer'[t] /\ UNCHANGED <<expired, results>>
        /\ \A u \in Tokens : u # t => entry'[u] = entry[u] /\ timer'[u] = timer[u]
    BY <1>0, <1>1 DEF Authenticate, Put
  <2> QED  BY <2>1 DEF TimersArmed
<1>2. ASSUME NEW t \in Tokens, SocialLinkCancel(t) PROVE TimersArmed'
  BY <1>e, <1>2, CancelEnds
<1>3. ASSUME NEW t \in Tokens, TokenExpires(t) PROVE TimersArmed'
  <2>1. expired'[t] /\ UNCHANGED <<timer, results>>
        /\ (\A u \in Tokens : u # t => entry'[u] = entry[u] /\ expired'[u] = expired[u])
    BY <1>0, <1>3 DEF TokenExpires
  <2>2. CASE entry[t].status = "processing"
    <3>1. entry'[t] = entry[t]
      BY <1>0, <1>3, <2>2 DEF TokenExpires
    <3> QED  BY <2>1, <2>2, <3>1 DEF TimersArmed
  <2>3. CASE entry[t].status # "processing"
    <3>1. entry'[t].status = "absent"
      BY <1>0, <1>3, <2>3 DEF TokenExpires, Absent
    <3> QED  BY <2>1, <2>3, <3>1 DEF TimersArmed
  <2> QED  BY <2>2, <2>3
<1>4. ASSUME NEW t \in Tokens, Expire(t) PROVE TimersArmed'
  <2>1. CASE entry[t].status = "processing"
    <3>1. expired[t] /\ UNCHANGED <<entry, results, expired>> /\ timer' = [timer EXCEPT ![t] = FALSE]
      BY <1>4, <2>1, ExpireEnds DEF elsewhere, Ended
    <3>2. \A u \in Tokens : u # t => timer'[u] = timer[u]
      BY <1>0, <3>1
    <3> QED  BY <2>1, <3>1, <3>2 DEF TimersArmed
  <2>2. CASE entry[t].status # "processing"
    BY <1>e, <1>4, <2>2, ExpireEnds
  <2> QED  BY <2>1, <2>2
<1>5. ASSUME NEW f \in Files, FinishUpload(f) PROVE TimersArmed'
  <2>1. CASE Available(upload[f])
    <3>1. PICK t \in Tokens : t = upload[f] /\ entry[t].status = "ready"
      BY <1>5, <2>1 DEF FinishUpload, Available
    <3>2. UNCHANGED <<expired, timer>> /\ entry'[t].status = entry[t].status
          /\ \A u \in Tokens : u # t => entry'[u] = entry[u] /\ results'[u] = results[u]
      BY <1>0, <1>5, <2>1, <3>1 DEF FinishUpload, AttachUpload, Entries
    <3> QED  BY <3>1, <3>2 DEF TimersArmed
  <2>2. CASE ~Available(upload[f])
    BY <1>f, <1>5, <2>2 DEF FinishUpload, AttachUpload
  <2> QED  BY <2>1, <2>2
<1>6. ASSUME NEW s \in Forms, NEW t \in Tokens, NEW p \in Phones, NEW g \in DOMAIN issued,
             NEW choice \in Files \union {"keep", NoFile}, SocialLink(s, t, p, g, choice)
      PROVE  TimersArmed'
  <2>1. entry[t].status = "ready" /\ entry'[t].status = "processing" /\ UNCHANGED <<results, timer, expired>>
        /\ \A u \in Tokens : u # t => entry'[u] = entry[u]
    BY <1>0, <1>6 DEF SocialLink, Begin, Available
  <2> QED  BY <2>1 DEF TimersArmed
<1>7. ASSUME NEW s \in Forms, ReleaseLease(s) PROVE TimersArmed'
  BY <1>e, <1>r, <1>7, ReleaseEnds
<1>8. ASSUME NEW s \in Forms, FinalizeSocialSignup(s) PROVE TimersArmed'
  BY <1>e, <1>8, FinalizeEnds
<1>9. ASSUME Restart PROVE TimersArmed'
  BY <1>0, <1>9 DEF Restart, Absent, TimersArmed
<1>10. ASSUME \/ UNCHANGED vars
              \/ \E t \in Tokens, f \in Files : UploadPhoto(t, f)
              \/ \E f \in Files, outcome \in {"ok", "storeFails", "unlinkFails"} : DiscardUnclaimedProfile(f, outcome)
              \/ \E s \in Forms, consent \in BOOLEAN : CheckForm(s, consent)
              \/ \E s \in Forms : CreateSocialAccount(s)
              \/ \E s \in Forms : CommitUnknown(s)
              \/ \E s \in Forms : CreateFails(s)
              \/ \E s \in Forms, i \in Usernames, p \in Phones, g \in DOMAIN issued : Register(s, i, p, g)
              \/ \E s \in Forms : CreatePasswordAccount(s)
              \/ UNCHANGED signupVars
      PROVE  TimersArmed'
  BY <1>f, <1>10
     DEF vars, signupVars, phoneVars, UploadPhoto, DiscardUnclaimedProfile, CheckForm, CreateSocialAccount,
         CommitUnknown, CreateFails, Register, CreatePasswordAccount
<1> QED
  BY <1>1, <1>2, <1>3, <1>4, <1>5, <1>6, <1>7, <1>8, <1>9, <1>10 DEF Next, FormNext

-----------------------------------------------------------------------------
(* Members *)

\* The new member comes last and leaves the others as they are.
LEMMA MemberAppended ==
    ASSUME members \in Seq(MemberRows), NEW row, members' = Append(members, row)
    PROVE  \E n \in Nat :
              /\ n = Len(members) + 1 /\ n \notin DOMAIN members /\ DOMAIN members' = DOMAIN members \union {n}
              /\ members'[n] = row /\ \A m \in DOMAIN members : members'[m] = members[m]
<1>1. Len(members) \in Nat /\ DOMAIN members = 1..Len(members)
  OBVIOUS
<1>2. PICK n \in Nat : n = Len(members) + 1
  BY <1>1
<1>3. DOMAIN members' = DOMAIN members \union {n} /\ n \notin DOMAIN members
  BY <1>1, <1>2
<1>4. members'[n] = row /\ \A m \in DOMAIN members : members'[m] = members[m]
  BY <1>1, <1>2
<1> QED
  BY <1>2, <1>3, <1>4

\* The member that a form makes: its photo is stored, its token is the form's,
\* and the form goes on to finish that token if it knows of the member.
MemberOf(s, row) ==
    /\ row.photo # NoFile => file[row.photo] = "stored"
    /\ row.known /\ row.token \in Tokens => form'[s].pc = "finalize" /\ form'[s].token = row.token
    /\ form'[s].pc = "finalize" => row.photo = form'[s].photo

LEMMA AccountMade ==
    ASSUME PhoneType, GrantsMatch, FormType, NEW s \in Forms,
           CreateSocialAccount(s) \/ CommitUnknown(s) \/ CreatePasswordAccount(s)
    PROVE  /\ UNCHANGED <<entry, expired, timer, results, file, discard, upload, abandoned>>
           /\ \A u \in Forms : u # s => form'[u] = form[u]
           /\ form[s].pc \in {"create", "insert"}
           /\ form'[s].pc = "finalize" => \E row : members' = Append(members, row)
           /\ members' = members \/ \E row : members' = Append(members, row) /\ MemberOf(s, row)
<1> USE SignupAssumption
<1>0. form \in [Forms -> {IdleForm} \union LinkForms \union RegisterForms] /\ members \in Seq(MemberRows)
  BY DEF FormType
<1>1. CASE CreateSocialAccount(s)
  <2>1. form[s] \in LinkForms /\ form' = [form EXCEPT ![s].pc = "finalize"]
    BY <1>0, <1>1 DEF CreateSocialAccount, IdleForm, LinkForms, RegisterForms
  <2>2. form'[s].pc = "finalize" /\ form'[s].token = form[s].token /\ form'[s].photo = form[s].photo
    BY <1>0, <2>1 DEF LinkForms
  <2> DEFINE row == [id |-> form[s].id, phone |-> form[s].phone, photo |-> form[s].photo, token |-> form[s].token,
                     grant |-> form[s].grant, known |-> TRUE]
  <2>3. members' = Append(members, row) /\ (form[s].photo # NoFile => file[form[s].photo] = "stored")
    BY <1>1 DEF CreateSocialAccount, CreateAccount, LockPrivateSignupPhoto, LockManagedUpload
  <2>4. MemberOf(s, row)
    BY <2>2, <2>3 DEF MemberOf
  <2>5. \E r : members' = Append(members, r) /\ MemberOf(s, r)
    BY <2>3, <2>4
  <2>6. /\ UNCHANGED <<entry, expired, timer, results, file, discard, upload, abandoned>>
        /\ (\A u \in Forms : u # s => form'[u] = form[u]) /\ form[s].pc = "create"
    BY <1>0, <1>1, <2>1 DEF CreateSocialAccount
  <2> QED  BY <2>5, <2>6
<1>2. CASE CommitUnknown(s)
  <2>1. form[s] \in LinkForms /\ form' = [form EXCEPT ![s].pc = "release"]
    BY <1>0, <1>2 DEF CommitUnknown, IdleForm, LinkForms, RegisterForms
  <2>2. form'[s].pc = "release"
    BY <1>0, <2>1 DEF LinkForms
  <2> DEFINE row == [id |-> form[s].id, phone |-> form[s].phone, photo |-> form[s].photo, token |-> form[s].token,
                     grant |-> form[s].grant, known |-> FALSE]
  <2>3. members' = Append(members, row) /\ (form[s].photo # NoFile => file[form[s].photo] = "stored")
    BY <1>2 DEF CommitUnknown, CreateAccount, LockPrivateSignupPhoto, LockManagedUpload
  <2>4. MemberOf(s, row)
    BY <2>2, <2>3 DEF MemberOf
  <2>5. \E r : members' = Append(members, r) /\ MemberOf(s, r)
    BY <2>3, <2>4
  <2>6. /\ UNCHANGED <<entry, expired, timer, results, file, discard, upload, abandoned>>
        /\ (\A u \in Forms : u # s => form'[u] = form[u]) /\ form[s].pc = "create"
    BY <1>0, <1>2, <2>1 DEF CommitUnknown
  <2> QED  BY <2>2, <2>5, <2>6
<1>3. CASE CreatePasswordAccount(s)
  <2>1. form' = [form EXCEPT ![s] = IdleForm] /\ form[s].pc = "insert"
    BY <1>3 DEF CreatePasswordAccount
  <2>2. form'[s].pc = "idle"
    BY <1>0, <2>1 DEF IdleForm
  <2>3. ASSUME CreateAccount(form[s].id, form[s].phone, form[s].grant, NoFile, "none", TRUE)
        PROVE  \E r : members' = Append(members, r) /\ MemberOf(s, r)
    <3> DEFINE row == [id |-> form[s].id, phone |-> form[s].phone, photo |-> NoFile, token |-> "none",
                       grant |-> form[s].grant, known |-> TRUE]
    <3>1. members' = Append(members, row)
      BY <2>3 DEF CreateAccount
    <3>2. MemberOf(s, row)
      BY <2>2 DEF MemberOf
    <3> QED  BY <3>1, <3>2
  <2>4. members' = members \/ \E r : members' = Append(members, r) /\ MemberOf(s, r)
    BY <1>3, <2>3 DEF CreatePasswordAccount
  <2>5. /\ UNCHANGED <<entry, expired, timer, results, file, discard, upload, abandoned>>
        /\ (\A u \in Forms : u # s => form'[u] = form[u])
    BY <1>0, <1>3, <2>1 DEF CreatePasswordAccount
  <2> QED  BY <2>1, <2>2, <2>4, <2>5
<1> QED
  BY <1>1, <1>2, <1>3

\* The member that was just made shows the photo its form has.
LEMMA PhotoShownStep ==
    ASSUME PhoneType, GrantsMatch, StoreType, FormType, FormsHoldTheirLease, CommittedPhotoShown, Next \/ UNCHANGED vars
    PROVE  CommittedPhotoShown'
<1> USE SignupAssumption
<1>0. /\ form \in [Forms -> {IdleForm} \union LinkForms \union RegisterForms] /\ members \in Seq(MemberRows)
      /\ entry \in [Tokens -> Entries] /\ expired \in [Tokens -> BOOLEAN]
      /\ \A s \in Forms : form[s].pc \in {"check", "create", "release", "finalize"} =>
            form[s].token \in Tokens /\ Leased(form[s].token, s)
  BY DEF FormType, StoreType, FormsHoldTheirLease, IdleForm, LinkForms, RegisterForms
<1>i. ASSUME NEW s \in Forms, UNCHANGED members, form'[s].pc # "finalize",
             \A u \in Forms : u # s => form'[u] = form[u] PROVE CommittedPhotoShown'
  BY <1>i DEF CommittedPhotoShown, Referenced
<1>c. ASSUME NEW s \in Forms, CreateSocialAccount(s) \/ CommitUnknown(s) \/ CreatePasswordAccount(s)
      PROVE  CommittedPhotoShown'
  <2>1. CASE members' = members
    <3>1. form'[s].pc # "finalize"
      <4>1. SUFFICES ASSUME form'[s].pc = "finalize" PROVE FALSE
        OBVIOUS
      <4>2. PICK row : members' = Append(members, row)
        BY <1>c, <4>1, AccountMade
      <4> QED  BY <1>0, <2>1, <4>2, MemberAppended
    <3> QED  BY <1>c, <1>i, <2>1, <3>1, AccountMade
  <2>2. ASSUME NEW row, members' = Append(members, row), MemberOf(s, row) PROVE CommittedPhotoShown'
    <3>1. PICK n \in Nat : /\ n = Len(members) + 1 /\ n \notin DOMAIN members
                           /\ DOMAIN members' = DOMAIN members \union {n}
                           /\ members'[n] = row /\ \A m \in DOMAIN members : members'[m] = members[m]
      BY <1>0, <2>2, MemberAppended
    <3>2. form'[s].pc = "finalize" => row.photo = form'[s].photo
      BY <2>2 DEF MemberOf
    <3>3. \A u \in Forms : u # s => form'[u] = form[u]
      BY <1>c, AccountMade
    <3> QED  BY <3>1, <3>2, <3>3 DEF CommittedPhotoShown, Referenced
  <2> QED  BY <1>c, <2>1, <2>2, AccountMade
<1>f. ASSUME UNCHANGED <<form, members>> PROVE CommittedPhotoShown'
  BY <1>f, <1>0 DEF CommittedPhotoShown, Referenced
<1>1. ASSUME NEW s \in Forms, NEW t \in Tokens, NEW p \in Phones, NEW g \in DOMAIN issued,
             NEW choice \in Files \union {"keep", NoFile}, SocialLink(s, t, p, g, choice)
      PROVE  CommittedPhotoShown'
  <2>1. form'[s].pc # "finalize" /\ (\A u \in Forms : u # s => form'[u] = form[u]) /\ members' = members
    BY <1>0, <1>1 DEF SocialLink, IdleForm, LinkForms, RegisterForms
  <2> QED  BY <1>i, <2>1
<1>2. ASSUME NEW s \in Forms, NEW consent \in BOOLEAN, CheckForm(s, consent) PROVE CommittedPhotoShown'
  <2>1. form'[s].pc # "finalize" /\ (\A u \in Forms : u # s => form'[u] = form[u]) /\ members' = members
    BY <1>0, <1>2 DEF CheckForm, IdleForm, LinkForms, RegisterForms
  <2> QED  BY <1>i, <2>1
<1>3. ASSUME NEW s \in Forms, CreateSocialAccount(s) PROVE CommittedPhotoShown'
  BY <1>c, <1>3
<1>4. ASSUME NEW s \in Forms, CommitUnknown(s) PROVE CommittedPhotoShown'
  BY <1>c, <1>4
<1>5. ASSUME NEW s \in Forms, CreateFails(s) PROVE CommittedPhotoShown'
  <2>1. form'[s].pc # "finalize" /\ (\A u \in Forms : u # s => form'[u] = form[u]) /\ members' = members
    BY <1>0, <1>5 DEF CreateFails, IdleForm, LinkForms, RegisterForms
  <2> QED  BY <1>i, <2>1
<1>6. ASSUME NEW s \in Forms, ReleaseLease(s) PROVE CommittedPhotoShown'
  <2>1. form'[s].pc # "finalize" /\ (\A u \in Forms : u # s => form'[u] = form[u]) /\ members' = members
    BY <1>0, <1>6 DEF ReleaseLease, IdleForm, LinkForms, RegisterForms
  <2> QED  BY <1>i, <2>1
<1>7. ASSUME NEW s \in Forms, FinalizeSocialSignup(s) PROVE CommittedPhotoShown'
  <2>1. form'[s].pc # "finalize" /\ (\A u \in Forms : u # s => form'[u] = form[u]) /\ members' = members
    BY <1>0, <1>7 DEF FinalizeSocialSignup, IdleForm, LinkForms, RegisterForms
  <2> QED  BY <1>i, <2>1
<1>8. ASSUME NEW s \in Forms, NEW i \in Usernames, NEW p \in Phones, NEW g \in DOMAIN issued, Register(s, i, p, g)
      PROVE  CommittedPhotoShown'
  <2>1. form'[s].pc # "finalize" /\ (\A u \in Forms : u # s => form'[u] = form[u]) /\ members' = members
    BY <1>0, <1>8 DEF Register, IdleForm, LinkForms, RegisterForms
  <2> QED  BY <1>i, <2>1
<1>9. ASSUME NEW s \in Forms, CreatePasswordAccount(s) PROVE CommittedPhotoShown'
  BY <1>c, <1>9
<1>10. ASSUME Restart PROVE CommittedPhotoShown'
  BY <1>0, <1>10 DEF Restart, CommittedPhotoShown, IdleForm
<1>11. ASSUME \/ UNCHANGED vars
              \/ \E t \in Tokens, i \in Identities : Authenticate(t, i)
              \/ \E t \in Tokens : SocialLinkCancel(t)
              \/ \E t \in Tokens : TokenExpires(t)
              \/ \E t \in Tokens : Expire(t)
              \/ \E t \in Tokens, f \in Files : UploadPhoto(t, f)
              \/ \E f \in Files : FinishUpload(f)
              \/ \E f \in Files, outcome \in {"ok", "storeFails", "unlinkFails"} : DiscardUnclaimedProfile(f, outcome)
              \/ UNCHANGED signupVars
      PROVE  CommittedPhotoShown'
  BY <1>f, <1>11
     DEF vars, signupVars, phoneVars, Authenticate, SocialLinkCancel, TokenExpires, Expire, UploadPhoto,
         FinishUpload, DiscardUnclaimedProfile
<1> QED
  BY <1>1, <1>2, <1>3, <1>4, <1>5, <1>6, <1>7, <1>8, <1>9, <1>10, <1>11 DEF Next, FormNext

\* "expiry may not delete a photo while the member transaction is committing":
\* a photo is retired under its row's lock, and only if no member refers to it.
LEMMA PhotoKeptStep ==
    ASSUME PhoneType, GrantsMatch, StoreType, FormType, FormsHoldTheirLease, PhotoType, CommittedPhotoKept, Next \/ UNCHANGED vars
    PROVE  CommittedPhotoKept'
<1> USE SignupAssumption
<1>0. /\ file \in [Files -> {"none", "stored", "retired", "gone"}] /\ discard \in [Files -> 0..DiscardTries]
      /\ form \in [Forms -> {IdleForm} \union LinkForms \union RegisterForms] /\ members \in Seq(MemberRows)
      /\ entry \in [Tokens -> Entries] /\ expired \in [Tokens -> BOOLEAN]
      /\ \A s \in Forms : form[s].pc \in {"check", "create", "release", "finalize"} =>
            form[s].token \in Tokens /\ Leased(form[s].token, s)
  <2>1. \A s \in Forms : form[s].pc \in {"check", "create", "release", "finalize"} => form[s] \in LinkForms
    BY DEF FormType, IdleForm, LinkForms, RegisterForms
  <2>2. \A s \in Forms : form[s] \in LinkForms => form[s].token \in Tokens
    BY DEF LinkForms
  <2> QED  BY <2>1, <2>2 DEF PhotoType, FormType, StoreType, FormsHoldTheirLease
<1>m. \A m \in DOMAIN members : members[m] \in MemberRows
  BY <1>0
<1>c. ASSUME NEW s \in Forms, CreateSocialAccount(s) \/ CommitUnknown(s) \/ CreatePasswordAccount(s)
      PROVE  CommittedPhotoKept'
  <2>1. file' = file
    BY <1>c, AccountMade
  <2>2. CASE members' = members
    BY <2>1, <2>2 DEF CommittedPhotoKept
  <2>3. ASSUME NEW row, members' = Append(members, row), MemberOf(s, row) PROVE CommittedPhotoKept'
    BY <1>0, <2>1, <2>3, MemberAppended DEF MemberOf, CommittedPhotoKept
  <2> QED  BY <1>c, <2>2, <2>3, AccountMade
<1>f. ASSUME UNCHANGED <<members, file>> PROVE CommittedPhotoKept'
  BY <1>f, <1>0 DEF CommittedPhotoKept
<1>1. ASSUME NEW t \in Tokens, NEW f \in Files, UploadPhoto(t, f) PROVE CommittedPhotoKept'
  <2>1. file[f] = "none" /\ (\A u \in Files : u # f => file'[u] = file[u]) /\ members' = members
    BY <1>0, <1>1 DEF UploadPhoto, Upload
  <2>2. \A m \in DOMAIN members : members[m].photo # f
    BY <2>1, SignupAssumption DEF CommittedPhotoKept
  <2>3. \A m \in DOMAIN members : members[m].photo \in Photos
    BY <1>m DEF MemberRows
  <2> QED  BY <2>1, <2>2, <2>3 DEF CommittedPhotoKept, Photos
<1>2. ASSUME NEW f \in Files, NEW outcome \in {"ok", "storeFails", "unlinkFails"}, DiscardUnclaimedProfile(f, outcome)
      PROVE  CommittedPhotoKept'
  <2>1. members' = members /\ \A u \in Files : u # f => file'[u] = file[u]
    BY <1>0, <1>2 DEF DiscardUnclaimedProfile
  <2>2. file'[f] = file[f] \/ file[f] = "retired" \/ ~Referenced(f)
    BY <1>0, <1>2 DEF DiscardUnclaimedProfile, RetireSignupProfileUpload
  <2>3. \A m \in DOMAIN members : members[m].photo \in Photos
    BY <1>m DEF MemberRows
  <2> QED  BY <2>1, <2>2, <2>3 DEF CommittedPhotoKept, Referenced, Photos
<1>3. ASSUME NEW s \in Forms, CreateSocialAccount(s) PROVE CommittedPhotoKept'
  BY <1>c, <1>3
<1>4. ASSUME NEW s \in Forms, CommitUnknown(s) PROVE CommittedPhotoKept'
  BY <1>c, <1>4
<1>5. ASSUME NEW s \in Forms, CreatePasswordAccount(s) PROVE CommittedPhotoKept'
  BY <1>c, <1>5
<1>6. ASSUME \/ UNCHANGED vars
             \/ \E t \in Tokens, i \in Identities : Authenticate(t, i)
             \/ \E t \in Tokens : SocialLinkCancel(t)
             \/ \E t \in Tokens : TokenExpires(t)
             \/ \E t \in Tokens : Expire(t)
             \/ \E f \in Files : FinishUpload(f)
             \/ \E s \in Forms, t \in Tokens, p \in Phones, g \in DOMAIN issued, choice \in Files \union {"keep", NoFile} : SocialLink(s, t, p, g, choice)
             \/ \E s \in Forms, consent \in BOOLEAN : CheckForm(s, consent)
             \/ \E s \in Forms : CreateFails(s)
             \/ \E s \in Forms : ReleaseLease(s)
             \/ \E s \in Forms : FinalizeSocialSignup(s)
             \/ \E s \in Forms, i \in Usernames, p \in Phones, g \in DOMAIN issued : Register(s, i, p, g)
             \/ Restart
             \/ UNCHANGED signupVars
      PROVE  CommittedPhotoKept'
  BY <1>f, <1>6
     DEF vars, signupVars, phoneVars, Authenticate, SocialLinkCancel, TokenExpires, Expire, FinishUpload,
         SocialLink, CheckForm, CreateFails, ReleaseLease, FinalizeSocialSignup, Register, Restart
<1> QED
  BY <1>1, <1>2, <1>3, <1>4, <1>5, <1>6 DEF Next, FormNext

\* The token of a member is never free again.
LEMMA UsedTokensStep ==
    ASSUME PhoneType, GrantsMatch, StoreType, FormType, FormsHoldTheirLease, UsedTokensEnd, Next \/ UNCHANGED vars
    PROVE  UsedTokensEnd'
<1> USE SignupAssumption
<1>0. /\ form \in [Forms -> {IdleForm} \union LinkForms \union RegisterForms] /\ members \in Seq(MemberRows)
      /\ entry \in [Tokens -> Entries] /\ expired \in [Tokens -> BOOLEAN]
      /\ \A s \in Forms : form[s].pc \in {"check", "create", "release", "finalize"} =>
            form[s].token \in Tokens /\ Leased(form[s].token, s)
  BY DEF FormType, StoreType, FormsHoldTheirLease, IdleForm, LinkForms, RegisterForms
<1>i. ASSUME NEW s \in Forms, form[s].pc # "finalize", UNCHANGED <<members, entry, expired>>,
             \A u \in Forms : u # s => form'[u] = form[u] PROVE UsedTokensEnd'
  BY <1>i DEF UsedTokensEnd
\* A token that was neither finished nor out of time is none that a member used.
<1>t. ASSUME NEW t \in Tokens, UNCHANGED <<members, expired, form>>, ~(entry[t].status = "absent" /\ expired[t]),
             entry[t].status # "consumed", \A u \in Tokens : u # t => entry'[u] = entry[u] PROVE UsedTokensEnd'
  BY <1>t DEF UsedTokensEnd
<1>o. ASSUME NEW t \in Tokens, NEW kept, NEW end, Ended(t, kept, end)
      PROVE  entry'[t].status = end /\ \A u \in Tokens : u # t => entry'[u] = entry[u]
  BY <1>0, <1>o DEF Ended
<1>c. ASSUME NEW s \in Forms, CreateSocialAccount(s) \/ CommitUnknown(s) \/ CreatePasswordAccount(s)
      PROVE  UsedTokensEnd'
  <2>1. /\ UNCHANGED <<entry, expired>> /\ form[s].pc # "finalize"
        /\ \A u \in Forms : u # s => form'[u] = form[u]
    BY <1>c, AccountMade
  <2>2. CASE members' = members
    BY <1>i, <2>1, <2>2
  <2>3. ASSUME NEW row, members' = Append(members, row), MemberOf(s, row) PROVE UsedTokensEnd'
    <3>1. PICK n \in Nat : /\ n = Len(members) + 1 /\ n \notin DOMAIN members
                           /\ DOMAIN members' = DOMAIN members \union {n}
                           /\ members'[n] = row /\ \A m \in DOMAIN members : members'[m] = members[m]
      BY <1>0, <2>3, MemberAppended
    <3>2. row.known /\ row.token \in Tokens => form'[s].pc = "finalize" /\ form'[s].token = row.token
      BY <2>3 DEF MemberOf
    <3> QED  BY <2>1, <3>1, <3>2 DEF UsedTokensEnd
  <2> QED  BY <1>c, <2>2, <2>3, AccountMade
<1>f. ASSUME UNCHANGED <<members, entry, expired, form>> PROVE UsedTokensEnd'
  BY <1>f, <1>0 DEF UsedTokensEnd
<1>1. ASSUME NEW t \in Tokens, NEW i \in Identities, Authenticate(t, i) PROVE UsedTokensEnd'
  <2>1. entry[t].status = "absent" /\ ~expired[t] /\ UNCHANGED <<members, expired, form>>
        /\ \A u \in Tokens : u # t => entry'[u] = entry[u]
    BY <1>0, <1>1 DEF Authenticate, Put
  <2> QED  BY <1>t, <2>1
<1>2. ASSUME NEW t \in Tokens, SocialLinkCancel(t) PROVE UsedTokensEnd'
  <2>1. entry[t].status = "ready" /\ Ended(t, NoFile, "cancelled") /\ UNCHANGED <<members, expired, form>>
    BY <1>2, CancelEnds DEF elsewhere
  <2> QED  BY <1>o, <1>t, <2>1
<1>3. ASSUME NEW t \in Tokens, TokenExpires(t) PROVE UsedTokensEnd'
  <2>1. UNCHANGED <<members, form>> /\ expired'[t] /\ (entry'[t].status \in {entry[t].status, "absent"})
        /\ (entry'[t].status = "processing" \/ entry'[t].status = "absent")
        /\ \A u \in Tokens : u # t => entry'[u] = entry[u] /\ expired'[u] = expired[u]
    BY <1>0, <1>3 DEF TokenExpires, Absent
  <2>2. entry'[t].status = "processing" => entry[t].status = "processing"
    BY <2>1
  <2> QED  BY <2>1, <2>2 DEF UsedTokensEnd
<1>4. ASSUME NEW t \in Tokens, Expire(t) PROVE UsedTokensEnd'
  <2>1. CASE entry[t].status = "processing"
    BY <1>f, <1>4, <2>1, ExpireEnds DEF elsewhere, Ended
  <2>2. CASE entry[t].status # "processing"
    <3>1. expired[t] /\ Ended(t, NoFile, "absent") /\ UNCHANGED <<members, expired, form>>
      BY <1>4, <2>2, ExpireEnds DEF elsewhere
    <3>2. entry'[t].status = "absent" /\ \A u \in Tokens : u # t => entry'[u] = entry[u]
      BY <1>o, <3>1
    <3> QED  BY <3>1, <3>2 DEF UsedTokensEnd
  <2> QED  BY <2>1, <2>2
<1>5. ASSUME NEW f \in Files, FinishUpload(f) PROVE UsedTokensEnd'
  <2>1. CASE Available(upload[f])
    <3>1. PICK t \in Tokens : t = upload[f] /\ entry[t].status = "ready"
      BY <1>5, <2>1 DEF FinishUpload, Available
    <3>2. UNCHANGED <<members, expired, form>> /\ \A u \in Tokens : u # t => entry'[u] = entry[u]
      BY <1>0, <1>5, <2>1, <3>1 DEF FinishUpload, AttachUpload
    <3> QED  BY <1>t, <3>1, <3>2
  <2>2. CASE ~Available(upload[f])
    BY <1>f, <1>5, <2>2 DEF FinishUpload, AttachUpload
  <2> QED  BY <2>1, <2>2
<1>6. ASSUME NEW s \in Forms, NEW t \in Tokens, NEW p \in Phones, NEW g \in DOMAIN issued,
             NEW choice \in Files \union {"keep", NoFile}, SocialLink(s, t, p, g, choice)
      PROVE  UsedTokensEnd'
  <2>1. entry[t].status = "ready" /\ form[s].pc = "idle" /\ UNCHANGED <<members, expired>>
        /\ (\A u \in Tokens : u # t => entry'[u] = entry[u]) /\ (\A u \in Forms : u # s => form'[u] = form[u])
    BY <1>0, <1>6 DEF SocialLink, Begin, Available
  <2> QED  BY <1>0, <2>1 DEF UsedTokensEnd, Leased
<1>7. ASSUME NEW s \in Forms, NEW consent \in BOOLEAN, CheckForm(s, consent) PROVE UsedTokensEnd'
  <2>1. form[s].pc # "finalize" /\ (\A u \in Forms : u # s => form'[u] = form[u])
        /\ UNCHANGED <<members, entry, expired>>
    BY <1>0, <1>7 DEF CheckForm
  <2> QED  BY <1>i, <2>1
<1>8. ASSUME NEW s \in Forms, CreateSocialAccount(s) PROVE UsedTokensEnd'
  BY <1>c, <1>8
<1>9. ASSUME NEW s \in Forms, CommitUnknown(s) PROVE UsedTokensEnd'
  BY <1>c, <1>9
<1>10. ASSUME NEW s \in Forms, CreateFails(s) PROVE UsedTokensEnd'
  <2>1. form[s].pc # "finalize" /\ (\A u \in Forms : u # s => form'[u] = form[u])
        /\ UNCHANGED <<members, entry, expired>>
    BY <1>0, <1>10 DEF CreateFails
  <2> QED  BY <1>i, <2>1
<1>11. ASSUME NEW s \in Forms, ReleaseLease(s) PROVE UsedTokensEnd'
  <2>1. PICK t \in Tokens :
          /\ form[s].pc = "release" /\ form[s].token = t /\ Leased(t, s)
          /\ form' = [form EXCEPT ![s] = IdleForm] /\ UNCHANGED elsewhere
          /\ Returned(t) \/ (expired[t] /\ Ended(t, NoFile, "absent"))
    BY <1>11, ReleaseEnds
  <2>2. \A u \in Tokens : u # t => entry'[u] = entry[u]
    BY <1>0, <1>o, <2>1 DEF Returned
  <2>3. UNCHANGED <<members, expired>> /\ \A u \in Forms : u # s => form'[u] = form[u]
    BY <1>0, <2>1 DEF elsewhere
  <2>4. entry[t].status = "processing" /\ \A u \in Forms : form[u].pc = "finalize" => form[u].token # t
    BY <1>0, <2>1 DEF Leased
  <2> QED  BY <2>1, <2>2, <2>3, <2>4 DEF UsedTokensEnd
<1>12. ASSUME NEW s \in Forms, FinalizeSocialSignup(s) PROVE UsedTokensEnd'
  <2>1. PICK t \in Tokens :
          /\ form[s].pc = "finalize" /\ form[s].token = t /\ Leased(t, s)
          /\ form' = [form EXCEPT ![s] = IdleForm] /\ UNCHANGED elsewhere
          /\ (expired[t] /\ Ended(t, form[s].photo, "absent")) \/ Ended(t, form[s].photo, "consumed")
    BY <1>12, FinalizeEnds
  <2>2. ((entry'[t].status = "absent" /\ expired[t]) \/ entry'[t].status = "consumed")
        /\ \A u \in Tokens : u # t => entry'[u] = entry[u]
    BY <1>o, <2>1
  <2>3. UNCHANGED <<members, expired>> /\ \A u \in Forms : u # s => form'[u] = form[u]
    BY <1>0, <2>1 DEF elsewhere
  <2> QED  BY <2>1, <2>2, <2>3 DEF UsedTokensEnd
<1>13. ASSUME NEW s \in Forms, NEW i \in Usernames, NEW p \in Phones, NEW g \in DOMAIN issued, Register(s, i, p, g)
      PROVE  UsedTokensEnd'
  <2>1. form[s].pc # "finalize" /\ (\A u \in Forms : u # s => form'[u] = form[u])
        /\ UNCHANGED <<members, entry, expired>>
    BY <1>0, <1>13 DEF Register
  <2> QED  BY <1>i, <2>1
<1>14. ASSUME NEW s \in Forms, CreatePasswordAccount(s) PROVE UsedTokensEnd'
  BY <1>c, <1>14
<1>15. ASSUME Restart PROVE UsedTokensEnd'
  <2>1. \A t \in Tokens : entry'[t].status = "absent" /\ (expired'[t] <=> (expired[t] \/ entry[t].status # "absent"))
    BY <1>0, <1>15 DEF Restart, Absent
  <2>2. \A s \in Forms : form[s].pc = "finalize" => entry[form[s].token].status = "processing"
    BY <1>0 DEF Leased
  <2> QED  BY <1>15, <2>1, <2>2 DEF Restart, UsedTokensEnd
<1>16. ASSUME \/ UNCHANGED vars
              \/ \E t \in Tokens, f \in Files : UploadPhoto(t, f)
              \/ \E f \in Files, outcome \in {"ok", "storeFails", "unlinkFails"} : DiscardUnclaimedProfile(f, outcome)
              \/ UNCHANGED signupVars
      PROVE  UsedTokensEnd'
  BY <1>f, <1>16
     DEF vars, signupVars, phoneVars, UploadPhoto, DiscardUnclaimedProfile
<1> QED
  BY <1>1, <1>2, <1>3, <1>4, <1>5, <1>6, <1>7, <1>8, <1>9, <1>10, <1>11, <1>12, <1>13, <1>14, <1>15, <1>16 DEF Next, FormNext

\* Whatever ends a token hands its photos on: to the discard, or, for the one that
\* was committed, to the member.
LEMMA PhotosHandedOn ==
    ASSUME PhoneType, GrantsMatch, StoreType, PhotoType, FormType, FormsHoldTheirLease,
           TrackedPhotos, TimersArmed, CommittedPhotoShown, NoPhotoForgotten, Next \/ UNCHANGED vars
    PROVE  NoPhotoForgotten'
<1> USE SignupAssumption
<1>0. /\ entry \in [Tokens -> Entries] /\ expired \in [Tokens -> BOOLEAN] /\ timer \in [Tokens -> BOOLEAN]
      /\ results \in [Tokens -> SUBSET Files] /\ discard \in [Files -> 0..DiscardTries]
      /\ file \in [Files -> {"none", "stored", "retired", "gone"}] /\ upload \in [Files -> Tokens \union {"none"}]
  BY DEF StoreType, PhotoType
<1>m. members \in Seq(MemberRows) /\ form \in [Forms -> {IdleForm} \union LinkForms \union RegisterForms]
  BY DEF FormType
<1>e. ASSUME NEW t \in Tokens, NEW kept, NEW end, Ended(t, kept, end), UNCHANGED elsewhere,
             kept = NoFile \/ Referenced(kept) PROVE NoPhotoForgotten'
  <2>1. /\ UNCHANGED <<file, upload, members, abandoned>> /\ DiscardTries > 0
        /\ \A u \in Tokens : u # t => entry'[u] = entry[u] /\ timer'[u] = timer[u] /\ results'[u] = results[u]
        /\ \A f \in Files : IF f \in results[t] \ {kept} THEN discard'[f] = DiscardTries ELSE discard'[f] = discard[f]
    BY <1>0, <1>e DEF Ended, Cleanup, elsewhere
  <2>2. \A f : Referenced(f)' = Referenced(f)
    BY <2>1 DEF Referenced
  <2>3. ASSUME NEW f \in Files, file'[f] \in {"stored", "retired"}
        PROVE  \/ Referenced(f)' \/ f \in abandoned' \/ upload'[f] \in Tokens \/ discard'[f] > 0
               \/ \E u \in Tokens : f \in results'[u] /\ (timer'[u] \/ entry'[u].status = "processing")
    <3>1. CASE f \in results[t]
      <4>1. f # NoFile
        OBVIOUS
      <4>2. CASE f = kept
        BY <1>e, <2>2, <4>1, <4>2
      <4>3. CASE f # kept
        BY <2>1, <3>1, <4>3
      <4> QED  BY <4>2, <4>3
    <3>2. CASE f \notin results[t]
      BY <2>1, <2>2, <2>3, <3>2 DEF NoPhotoForgotten
    <3> QED  BY <3>1, <3>2
  <2> QED  BY <2>3 DEF NoPhotoForgotten
<1>r. ASSUME NEW t \in Tokens, NEW s \in Forms, Leased(t, s), Returned(t), UNCHANGED elsewhere PROVE NoPhotoForgotten'
  <2>1. UNCHANGED <<file, upload, members, abandoned, timer, results, discard>> /\ ~expired[t]
        /\ entry[t].status = "processing" /\ \A u \in Tokens : u # t => entry'[u] = entry[u]
    BY <1>0, <1>r DEF Leased, Returned, elsewhere
  <2>2. timer[t]
    BY <2>1 DEF TimersArmed
  <2> QED  BY <2>1, <2>2 DEF NoPhotoForgotten, Referenced
<1>c. ASSUME NEW s \in Forms, CreateSocialAccount(s) \/ CommitUnknown(s) \/ CreatePasswordAccount(s)
      PROVE  NoPhotoForgotten'
  <2>1. UNCHANGED <<entry, timer, results, file, discard, upload, abandoned>>
    BY <1>c, AccountMade
  <2>2. \A f : Referenced(f) => Referenced(f)'
    <3>1. CASE members' = members
      BY <3>1 DEF Referenced
    <3>2. ASSUME NEW row, members' = Append(members, row) PROVE \A f : Referenced(f) => Referenced(f)'
      BY <1>m, <3>2, MemberAppended DEF Referenced
    <3> QED  BY <1>c, <3>1, <3>2, AccountMade
  <2> QED  BY <2>1, <2>2 DEF NoPhotoForgotten

<1>f. ASSUME UNCHANGED <<file, members, abandoned, upload, discard, results, timer, entry>> PROVE NoPhotoForgotten'
  BY <1>f, <1>0 DEF NoPhotoForgotten, Referenced
<1>1. ASSUME NEW t \in Tokens, NEW i \in Identities, Authenticate(t, i) PROVE NoPhotoForgotten'
  <2>1. entry[t].status = "absent" /\ UNCHANGED <<file, members, abandoned, upload, discard, results>>
        /\ timer'[t] /\ \A u \in Tokens : u # t => entry'[u] = entry[u] /\ timer'[u] = timer[u]
    BY <1>0, <1>1 DEF Authenticate, Put
  <2> QED  BY <2>1 DEF NoPhotoForgotten, Referenced
<1>2. ASSUME NEW t \in Tokens, SocialLinkCancel(t) PROVE NoPhotoForgotten'
  BY <1>e, <1>2, CancelEnds
<1>3. ASSUME NEW t \in Tokens, TokenExpires(t) PROVE NoPhotoForgotten'
  <2>1. UNCHANGED <<file, members, abandoned, upload, discard, results, timer>>
        /\ (entry[t].status = "processing" => entry'[t] = entry[t]) /\ \A u \in Tokens : u # t => entry'[u] = entry[u]
    BY <1>0, <1>3 DEF TokenExpires
  <2> QED  BY <2>1 DEF NoPhotoForgotten, Referenced
<1>4. ASSUME NEW t \in Tokens, Expire(t) PROVE NoPhotoForgotten'
  <2>1. CASE entry[t].status = "processing"
    <3>1. UNCHANGED <<file, members, abandoned, upload, discard, results, entry>> /\ timer' = [timer EXCEPT ![t] = FALSE]
      BY <1>4, <2>1, ExpireEnds DEF elsewhere, Ended
    <3>2. \A u \in Tokens : u # t => timer'[u] = timer[u]
      BY <1>0, <3>1
    <3> QED  BY <2>1, <3>1, <3>2 DEF NoPhotoForgotten, Referenced
  <2>2. CASE entry[t].status # "processing"
    BY <1>e, <1>4, <2>2, ExpireEnds
  <2> QED  BY <2>1, <2>2
<1>5. ASSUME NEW t \in Tokens, NEW f \in Files, UploadPhoto(t, f) PROVE NoPhotoForgotten'
  <2>1. UNCHANGED <<members, abandoned, discard, results, timer, entry>> /\ upload'[f] \in Tokens
        /\ \A u \in Files : u # f => file'[u] = file[u] /\ upload'[u] = upload[u]
    BY <1>0, <1>5 DEF UploadPhoto, Upload
  <2> QED  BY <2>1 DEF NoPhotoForgotten, Referenced
<1>6. ASSUME NEW f \in Files, FinishUpload(f) PROVE NoPhotoForgotten'
  <2>1. UNCHANGED <<file, members, abandoned, timer>> /\ \A u \in Files : u # f => upload'[u] = upload[u]
    BY <1>0, <1>6 DEF FinishUpload
  <2>2. CASE Available(upload[f])
    <3>1. PICK t \in Tokens : t = upload[f] /\ entry[t].status = "ready"
      BY <1>6, <2>2 DEF FinishUpload, Available
    <3>2. discard' = discard /\ f \in results'[t] /\ entry'[t].status = entry[t].status /\ results[t] \subseteq results'[t]
          /\ \A u \in Tokens : u # t => entry'[u] = entry[u] /\ results'[u] = results[u]
      BY <1>0, <1>6, <2>2, <3>1 DEF FinishUpload, AttachUpload, Entries
    <3>3. timer[t]
      BY <3>1 DEF TimersArmed
    <3> QED  BY <2>1, <3>1, <3>2, <3>3 DEF NoPhotoForgotten, Referenced
  <2>3. CASE ~Available(upload[f])
    <3>1. DiscardTries > 0 /\ discard'[f] = DiscardTries /\ UNCHANGED <<results, entry>>
          /\ \A u \in Files : u # f => discard'[u] = discard[u]
      BY <1>0, <1>6, <2>3 DEF FinishUpload, AttachUpload
    <3> QED  BY <2>1, <3>1 DEF NoPhotoForgotten, Referenced
  <2> QED  BY <2>2, <2>3
<1>7. ASSUME NEW f \in Files, NEW outcome \in {"ok", "storeFails", "unlinkFails"}, DiscardUnclaimedProfile(f, outcome)
      PROVE  NoPhotoForgotten'
  <2>1. /\ UNCHANGED <<members, results, upload, timer, entry>> /\ abandoned \subseteq abandoned'
        /\ \A u \in Files : u # f => file'[u] = file[u] /\ discard'[u] = discard[u]
    BY <1>0, <1>7 DEF DiscardUnclaimedProfile
  <2>2. file'[f] \in {"stored", "retired"} => Referenced(f) \/ f \in abandoned' \/ discard'[f] > 0
    <3> DEFINE mayUnlink == file[f] = "retired" \/ RetireSignupProfileUpload(f)
               fails == \/ outcome = "storeFails" /\ file[f] = "stored"
                        \/ outcome = "unlinkFails" /\ mayUnlink
    <3>1. discard[f] > 0 /\ discard[f] \in Nat /\ (outcome = "ok" \/ fails)
      BY <1>0, <1>7 DEF DiscardUnclaimedProfile
    <3>2. discard'[f] = IF fails THEN discard[f] - 1 ELSE 0
      BY <1>0, <1>7 DEF DiscardUnclaimedProfile
    <3>3. fails /\ discard[f] = 1 => f \in abandoned'
      BY <1>7 DEF DiscardUnclaimedProfile
    <3>4. CASE fails
      BY <3>1, <3>2, <3>3, <3>4
    <3>5. CASE ~fails
      <4>1. outcome = "ok"
        BY <3>1, <3>5
      <4>2. file'[f] = IF mayUnlink THEN "gone" ELSE file[f]
        BY <1>0, <1>7, <4>1 DEF DiscardUnclaimedProfile
      <4> QED  BY <4>2 DEF RetireSignupProfileUpload
    <3> QED  BY <3>4, <3>5
  <2>3. ASSUME NEW u \in Files PROVE Referenced(u)' = Referenced(u)
    BY <2>1 DEF Referenced
  <2> QED  BY <2>1, <2>2, <2>3 DEF NoPhotoForgotten
<1>8. ASSUME NEW s \in Forms, NEW t \in Tokens, NEW p \in Phones, NEW g \in DOMAIN issued,
             NEW choice \in Files \union {"keep", NoFile}, SocialLink(s, t, p, g, choice)
      PROVE  NoPhotoForgotten'
  <2>1. UNCHANGED <<file, members, abandoned, upload, discard, results, timer>> /\ entry'[t].status = "processing"
        /\ \A u \in Tokens : u # t => entry'[u] = entry[u]
    BY <1>0, <1>8 DEF SocialLink, Begin
  <2> QED  BY <2>1 DEF NoPhotoForgotten, Referenced
<1>9. ASSUME NEW s \in Forms, CreateSocialAccount(s) PROVE NoPhotoForgotten'
  BY <1>c, <1>9
<1>10. ASSUME NEW s \in Forms, CommitUnknown(s) PROVE NoPhotoForgotten'
  BY <1>c, <1>10
<1>11. ASSUME NEW s \in Forms, ReleaseLease(s) PROVE NoPhotoForgotten'
  BY <1>e, <1>r, <1>11, ReleaseEnds
<1>12. ASSUME NEW s \in Forms, FinalizeSocialSignup(s) PROVE NoPhotoForgotten'
  <2>1. form[s].pc = "finalize"
    BY <1>12 DEF FinalizeSocialSignup
  <2>2. form[s].photo = NoFile \/ Referenced(form[s].photo)
    BY <2>1 DEF CommittedPhotoShown
  <2> QED  BY <1>e, <1>12, <2>2, FinalizeEnds
<1>13. ASSUME NEW s \in Forms, CreatePasswordAccount(s) PROVE NoPhotoForgotten'
  BY <1>c, <1>13
<1>14. ASSUME Restart PROVE NoPhotoForgotten'
  <2>1. UNCHANGED <<file, members>> /\ \A f \in Files : file[f] \in {"stored", "retired"} => Referenced(f) \/ f \in abandoned'
    BY <1>14 DEF Restart
  <2> QED  BY <2>1 DEF NoPhotoForgotten, Referenced
<1>15. ASSUME \/ UNCHANGED vars
              \/ \E s \in Forms, consent \in BOOLEAN : CheckForm(s, consent)
              \/ \E s \in Forms : CreateFails(s)
              \/ \E s \in Forms, i \in Usernames, p \in Phones, g \in DOMAIN issued : Register(s, i, p, g)
              \/ UNCHANGED signupVars
      PROVE  NoPhotoForgotten'
  BY <1>f, <1>15
     DEF vars, signupVars, phoneVars, CheckForm, CreateFails, Register
<1> QED
  BY <1>1, <1>2, <1>3, <1>4, <1>5, <1>6, <1>7, <1>8, <1>9, <1>10, <1>11, <1>12, <1>13, <1>14, <1>15 DEF Next, FormNext

\* Spent evidence is never spent again, nor taken back.
LEMMA EvidenceStep ==
    ASSUME PhoneType, GrantsMatch, FormType, MemberHasEvidence, Next \/ UNCHANGED vars
    PROVE  MemberHasEvidence'
<1>0. /\ form \in [Forms -> {IdleForm} \union LinkForms \union RegisterForms] /\ members \in Seq(MemberRows)
      /\ issued \in Seq(DOMAIN codes) /\ codes \in [DOMAIN codes -> Row]
  BY DEF FormType, PhoneType
<1>m. ASSUME NEW m \in DOMAIN members
      PROVE  members[m].grant \in DOMAIN issued /\ issued[members[m].grant] \in DOMAIN codes
  <2>1. members[m] \in MemberRows
    BY <1>0
  <2>2. members[m].grant \in DOMAIN issued
    BY <2>1 DEF MemberRows
  <2> QED  BY <1>0, <2>2
<1>u. ASSUME NEW i, NEW p, NEW g, NEW photo, NEW t, NEW known, CreateAccount(i, p, g, photo, t, known)
      PROVE  MemberHasEvidence'
  <2>1. PICK r \in DOMAIN codes, n \in Nat :
              /\ r = issued[g] /\ codes[r].phone = p /\ codes[r].owner = 0 /\ n = Len(members) + 1
              /\ SpentBy(r, n) /\ UNCHANGED issued
    BY <1>0, <1>u, AccountEvidence
  <2>2. PICK row : row.phone = p /\ row.grant = g /\ members' = Append(members, row)
    BY <1>u DEF CreateAccount
  <2>3. /\ n \notin DOMAIN members /\ DOMAIN members' = DOMAIN members \union {n}
        /\ members'[n] = row /\ \A m \in DOMAIN members : members'[m] = members[m]
    BY <1>0, <2>1, <2>2, MemberAppended
  <2>4. codes[r] \in Row
    BY <1>0
  <2>5. codes'[r].phone = p /\ codes'[r].owner = n /\ \A q \in DOMAIN codes : q # r => codes'[q] = codes[q]
    BY <1>0, <2>1, <2>4 DEF SpentBy, Row
  <2>6. ASSUME NEW m \in DOMAIN members
        PROVE  codes'[issued[members[m].grant]].phone = members[m].phone /\ codes'[issued[members[m].grant]].owner = m
    <3>1. PICK q \in DOMAIN codes : q = issued[members[m].grant]
      BY <1>m
    <3>2. codes[q].phone = members[m].phone /\ codes[q].owner = m
      BY <3>1 DEF MemberHasEvidence
    <3>3. m # 0
      BY <1>0
    <3>4. q # r
      BY <2>1, <3>2, <3>3
    <3> QED  BY <2>5, <3>1, <3>2, <3>4
  <2> QED  BY <2>1, <2>2, <2>3, <2>5, <2>6 DEF MemberHasEvidence
<1>f. ASSUME UNCHANGED <<members, codes, issued>> PROVE MemberHasEvidence'
  BY <1>f, <1>0 DEF MemberHasEvidence
<1>1. ASSUME NEW s \in Forms, CreateSocialAccount(s) PROVE MemberHasEvidence'
  BY <1>u, <1>1 DEF CreateSocialAccount
<1>2. ASSUME NEW s \in Forms, CommitUnknown(s) PROVE MemberHasEvidence'
  BY <1>u, <1>2 DEF CommitUnknown
<1>3. ASSUME NEW s \in Forms, CreatePasswordAccount(s) PROVE MemberHasEvidence'
  <2>1. CASE CreateAccount(form[s].id, form[s].phone, form[s].grant, NoFile, "none", TRUE)
    BY <1>u, <2>1
  <2>2. CASE UNCHANGED <<phoneVars, members>>
    BY <1>f, <2>2 DEF phoneVars
  <2> QED  BY <1>3, <2>1, <2>2 DEF CreatePasswordAccount
<1>4. ASSUME PhoneNext, UNCHANGED signupVars PROVE MemberHasEvidence'
  <2>1. members' = members
    BY <1>4 DEF signupVars
  <2>2. /\ DOMAIN codes \subseteq DOMAIN codes' /\ \A g \in DOMAIN issued : issued'[g] = issued[g]
        /\ \A r \in DOMAIN codes : codes'[r].phone = codes[r].phone /\ codes'[r].owner = codes[r].owner
    BY <1>4, EvidenceStays
  <2> QED  BY <1>m, <2>1, <2>2 DEF MemberHasEvidence
<1>5. ASSUME \/ UNCHANGED vars
             \/ \E t \in Tokens, i \in Identities : Authenticate(t, i)
             \/ \E t \in Tokens : SocialLinkCancel(t)
             \/ \E t \in Tokens : TokenExpires(t)
             \/ \E t \in Tokens : Expire(t)
             \/ \E t \in Tokens, f \in Files : UploadPhoto(t, f)
             \/ \E f \in Files : FinishUpload(f)
             \/ \E f \in Files, outcome \in {"ok", "storeFails", "unlinkFails"} : DiscardUnclaimedProfile(f, outcome)
             \/ \E s \in Forms, t \in Tokens, p \in Phones, g \in DOMAIN issued, choice \in Files \union {"keep", NoFile} : SocialLink(s, t, p, g, choice)
             \/ \E s \in Forms, consent \in BOOLEAN : CheckForm(s, consent)
             \/ \E s \in Forms : CreateFails(s)
             \/ \E s \in Forms : ReleaseLease(s)
             \/ \E s \in Forms : FinalizeSocialSignup(s)
             \/ \E s \in Forms, i \in Usernames, p \in Phones, g \in DOMAIN issued : Register(s, i, p, g)
             \/ Restart
      PROVE  MemberHasEvidence'
  BY ZenonT(60), <1>f, <1>5
     DEF vars, signupVars, phoneVars, Authenticate, SocialLinkCancel, TokenExpires, Expire, UploadPhoto,
         FinishUpload, DiscardUnclaimedProfile, SocialLink, CheckForm, CreateFails, ReleaseLease,
         FinalizeSocialSignup, Register, Restart
<1> QED
  BY <1>1, <1>2, <1>3, <1>4, <1>5 DEF Next, FormNext

-----------------------------------------------------------------------------
(* The invariant *)

LEMMA StepKeepsInvariant ==
    ASSUME IInv, Next \/ UNCHANGED vars
    PROVE  IInv'
<1>1. PhoneInv'
  BY EveryStepIsAPhoneStep, PhoneInvStep DEF IInv, SignupInv
<1>2. PhoneType /\ GrantsMatch /\ SignupInv
  BY DEF IInv, PhoneInv
<1>3. StoreType' /\ PhotoType' /\ FormType'
  BY <1>2, StoreTypeStep, PhotoTypeStep, FormTypeStep DEF SignupInv
<1>4. FormsHoldTheirLease' /\ KeptPhotoIsTheTokens'
  BY <1>2, LeaseStep, KeptPhotoStep DEF SignupInv
<1>5. EntryPhotoTracked' /\ TrackedPhotos' /\ TimersArmed'
  BY <1>2, EntryPhotoStep, TrackedPhotosStep, TimersStep DEF SignupInv
<1>6. CommittedPhotoShown' /\ UsedTokensEnd'
  BY <1>2, PhotoShownStep, UsedTokensStep DEF SignupInv
<1>7. CommittedPhotoKept' /\ NoPhotoForgotten' /\ MemberHasEvidence'
  BY <1>2, PhotoKeptStep, PhotosHandedOn, EvidenceStep DEF SignupInv
<1> QED
  BY <1>1, <1>3, <1>4, <1>5, <1>6, <1>7 DEF IInv, SignupInv

LEMMA InitHoldsInvariant ==
    ASSUME Init
    PROVE  IInv
<1> USE SignupAssumption, PhoneAssumption
<1>1. codes = <<>> /\ issued = <<>> /\ guesses = <<>> /\ DOMAIN codes = {} /\ Len(codes) = 0
  BY DEF Init, PhoneInit
<1>2. PhoneType
  BY <1>1 DEF Init, PhoneInit, PhoneType, AskStates, CheckStates
<1>3. GrantsMatch /\ GuessesCounted /\ GuessesBounded
  BY <1>1 DEF GrantsMatch, GuessesCounted, GuessesBounded
<1>4. RequestsCounted
  <2> SUFFICES ASSUME NEW p \in Phones
               PROVE  CountRecentRequests(p) + Cardinality(Asking(p))
                          <= RequestsPerWindow + Cardinality(Requesters) - 1
    BY DEF RequestsCounted
  <2>1. Recent(p) = {} /\ Asking(p) = {}
    BY <1>1 DEF Recent, Asking, Init, PhoneInit, IdleAsk
  <2>2. CountRecentRequests(p) = 0 /\ Cardinality(Asking(p)) = 0 /\ Cardinality(Requesters) \in Nat
    BY <1>2, <2>1, RequestsCount, FS_EmptySet
  <2> QED  BY <2>2
<1>5. StoreType /\ PhotoType /\ FormType
  BY <1>1 DEF Init, Absent, StoreType, PhotoType, FormType, Entries
<1>6. /\ FormsHoldTheirLease /\ KeptPhotoIsTheTokens /\ EntryPhotoTracked /\ TrackedPhotos /\ TimersArmed
      /\ CommittedPhotoShown
  BY DEF Init, Absent, IdleForm, FormsHoldTheirLease, KeptPhotoIsTheTokens, EntryPhotoTracked, TrackedPhotos,
         TimersArmed, CommittedPhotoShown
<1>7. UsedTokensEnd /\ CommittedPhotoKept /\ NoPhotoForgotten /\ MemberHasEvidence
  BY DEF Init, UsedTokensEnd, CommittedPhotoKept, NoPhotoForgotten, MemberHasEvidence
<1> QED
  BY <1>2, <1>3, <1>4, <1>5, <1>6, <1>7 DEF IInv, PhoneInv, SignupInv

(***************************************************************************)
(* The codes, the store and the members are always in a state of IInv.     *)
(***************************************************************************)
THEOREM Invariance == Spec => []IInv
<1>1. Init => IInv
  BY InitHoldsInvariant
<1>2. IInv /\ [Next]_vars => IInv'
  BY StepKeepsInvariant
<1> QED
  BY <1>1, <1>2, PTL DEF Spec

(***************************************************************************)
(* RequestCode and ConfirmCode look before they write, outside a           *)
(* transaction.  Even so a number gets no more codes in a window than the  *)
(* throttle allows, nor a code more guesses than its attempts, but for the *)
(* requests that were already past their check and the counts lost to a    *)
(* fault, however many requests, rows and restarts there are.              *)
(***************************************************************************)
THEOREM CodesAreBounded == Spec => []CodesBounded
<1>1. IInv => CodesBounded
  <2> SUFFICES ASSUME IInv PROVE CodesBounded
    OBVIOUS
  <2>1. PhoneType /\ RequestsCounted /\ GuessesBounded
    BY DEF IInv, PhoneInv
  <2>2. ASSUME NEW p \in Phones
        PROVE  CountRecentRequests(p) <= RequestsPerWindow + Cardinality(Requesters) - 1
    <3>1. CountRecentRequests(p) + Cardinality(Asking(p)) <= RequestsPerWindow + Cardinality(Requesters) - 1
      BY <2>1 DEF RequestsCounted
    <3>2. CountRecentRequests(p) \in Nat /\ Cardinality(Asking(p)) \in Nat /\ Cardinality(Requesters) \in Nat
      BY <2>1, RequestsCount
    <3> QED  BY <3>1, <3>2, PhoneAssumption
  <2> QED  BY <2>1, <2>2 DEF CodesBounded, RequestsBounded
<1> QED
  BY <1>1, Invariance, PTL

(***************************************************************************)
(* The token store, its timers, the uploads and the account transaction    *)
(* never lose a photo nor delete one that is in use: a member's stays      *)
(* stored, one that a leased form keeps cannot be discarded, and every     *)
(* other has somebody who will discard it, unless that was given up.       *)
(***************************************************************************)
THEOREM PhotosAreAccountedFor == Spec => []PhotosAccountedFor
<1>1. IInv => PhotosAccountedFor
  <2> SUFFICES ASSUME IInv PROVE PhotosAccountedFor
    OBVIOUS
  <2>0. /\ PhoneType /\ StoreType /\ PhotoType /\ FormType /\ FormsHoldTheirLease /\ KeptPhotoIsTheTokens
        /\ EntryPhotoTracked /\ TrackedPhotos /\ CommittedPhotoKept /\ NoPhotoForgotten
    BY DEF IInv, PhoneInv, SignupInv
  <2>1. TypeOK
    <3>1. \A r \in DOMAIN codes : codes[r] \in Row
      BY <2>0 DEF PhoneType
    <3>2. \A t \in Tokens : entry[t] \in Entries
      BY <2>0 DEF StoreType
    <3>3. /\ \A t \in Tokens : entry[t].status \in {"absent", "ready", "processing", "consumed", "cancelled"}
          /\ \A t \in Tokens : entry[t].status = "processing" => entry[t].lease \in Forms
      BY <3>2 DEF Entries
    <3> QED  BY <2>0, <3>1, <3>3 DEF TypeOK, StoreType, PhotoType
  <2>2. LeasedPhotoKept
    <3> SUFFICES ASSUME NEW s \in Forms, form[s].pc \in {"check", "create"}, form[s].kept, form[s].photo # NoFile
                 PROVE  file[form[s].photo] = "stored" /\ discard[form[s].photo] = 0
      BY DEF LeasedPhotoKept
    <3>1. PICK t \in Tokens : t = form[s].token /\ entry[t].status = "processing"
      BY <2>0 DEF FormsHoldTheirLease, Leased, FormType, IdleForm, LinkForms, RegisterForms
    <3>2. form[s].photo \in results[t] /\ results[t] \subseteq Files
      BY <2>0, <3>1 DEF KeptPhotoIsTheTokens, EntryPhotoTracked, StoreType
    <3> QED  BY <2>0, <3>2 DEF TrackedPhotos
  <2> QED  BY <2>0, <2>1, <2>2 DEF PhotosAccountedFor
<1> QED
  BY <1>1, Invariance, PTL

(***************************************************************************)
(* A member comes of one verified phone and one token: the row its grant   *)
(* came from stays its own, a token whose cancellation was confirmed makes *)
(* no member, and one that is known to have made a member serves no other  *)
(* form, whatever requests, timers and restarts come between.              *)
(***************************************************************************)
THEOREM MembersEarned == Spec => []MembersAreEarned
<1>1. IInv => MembersAreEarned
  <2> SUFFICES ASSUME IInv PROVE MembersAreEarned
    OBVIOUS
  <2>0. StoreType /\ FormType /\ FormsHoldTheirLease /\ UsedTokensEnd /\ MemberHasEvidence
    BY DEF IInv, SignupInv
  <2>1. \A s \in Forms : form[s].pc \in {"check", "create", "finalize"} => entry[form[s].token].status = "processing"
    BY <2>0 DEF FormsHoldTheirLease, Leased
  <2>2. CancelledCreatesNothing
    BY <2>0, <2>1 DEF CancelledCreatesNothing, UsedTokensEnd
  <2>3. CommittedTokenNotRevived
    BY <2>0, <2>1 DEF CommittedTokenNotRevived, UsedTokensEnd
  <2> QED  BY <2>0, <2>2, <2>3 DEF MembersAreEarned
<1> QED
  BY <1>1, Invariance, PTL

-----------------------------------------------------------------------------
(* Passwords, for any identities, words, logins, links and confirmations     *)

\* The states of the parts, in full.
Credentials ==
    {P!NoCredential}
        \union [present : {TRUE}, word : Words \union {FirstWord}, hash : Nat, old : BOOLEAN]
LoginStates ==
    {P!IdleLogin}
        \union [pc : {"absent", "rehash", "adopt"}, id : Providers, word : Words, read : Credentials]
Links == [used : BOOLEAN, expired : BOOLEAN, sent : BOOLEAN]

PasswordType ==
    /\ credential \in [Providers -> Credentials]
    /\ login \in [Logins -> LoginStates]
    /\ confirmation \in [Confirmations -> Nat]
    /\ resetTokens \in Seq(Links)
    /\ hashes \in Nat /\ resetsDone \in Nat

\* The legacy column and every adopted credential accept the password set last.
SetWordHolds ==
    /\ legacy = current
    /\ \A p \in Adopted : credential[p].present /\ credential[p].word = current

\* A stored hash was made.
HashesMade == \A p \in Providers : credential[p].present => credential[p].hash <= hashes

\* What a login knows of the credential it read: a rehash read one whose hash
\* still stands for the verified word if it is still there, and only an identity
\* that was never adopted is taken for absent.
LoginsAreInformed ==
    \A l \in Logins :
        /\ login[l].pc = "rehash" =>
            /\ login[l].read.present /\ login[l].read.hash <= hashes
            /\ LET now == credential[login[l].id]
               IN now.present /\ now.hash = login[l].read.hash => now.word = login[l].word
        /\ login[l].pc \in {"absent", "adopt"} => login[l].id \notin Adopted

\* As many resets as links leaves none unused.
LinksCoverResets ==
    /\ resetsDone <= Len(resetTokens)
    /\ resetsDone = Len(resetTokens) => \A t \in DOMAIN resetTokens : resetTokens[t].used

PasswordInv == PasswordType /\ SetWordHolds /\ HashesMade /\ LoginsAreInformed /\ LinksCoverResets

\* The member starts with one word, behind every credential there is.
LEMMA PasswordInitially == P!Init => PasswordInv
<1> SUFFICES ASSUME P!Init PROVE PasswordInv
  OBVIOUS
<1> USE DEF P!Init
<1>1. PasswordType
  <2>1. P!Credential(FirstWord, 1, TRUE) \in Credentials
    BY DEF P!Credential, Credentials
  <2>2. P!NoCredential \in Credentials
    BY DEF Credentials
  <2>3. credential \in [Providers -> Credentials]
    BY <2>1, <2>2
  <2>4. login \in [Logins -> LoginStates]
    BY DEF LoginStates
  <2>5. resetTokens \in Seq(Links) /\ confirmation \in [Confirmations -> Nat]
    OBVIOUS
  <2> QED  BY <2>3, <2>4, <2>5 DEF PasswordType
<1>2. SetWordHolds
  BY PasswordAssumption DEF SetWordHolds, P!Credential
<1>3. HashesMade
  BY DEF HashesMade, P!Credential, P!NoCredential
<1>4. LoginsAreInformed
  BY DEF LoginsAreInformed, P!IdleLogin
<1>5. LinksCoverResets
  BY DEF LinksCoverResets
<1> QED  BY <1>1, <1>2, <1>3, <1>4, <1>5 DEF PasswordInv

\* A new credential is well formed.
LEMMA NewCredential ==
    ASSUME NEW w \in Words, PasswordType
    PROVE  /\ P!Credential(w, hashes + 1, FALSE) \in Credentials
           /\ P!Credential(w, hashes + 1, FALSE).present
           /\ P!Credential(w, hashes + 1, FALSE).word = w
           /\ P!Credential(w, hashes + 1, FALSE).hash = hashes + 1
<1>1. hashes + 1 \in Nat
  BY DEF PasswordType
<1> QED  BY <1>1 DEF P!Credential, Credentials

\* The hash of a stored credential.
LEMMA StoredHash == ASSUME NEW c \in Credentials, c.present PROVE c.hash \in Nat
<1>1. c # P!NoCredential
  BY DEF P!NoCredential
<1>2. c \in [present : {TRUE}, word : Words \union {FirstWord}, hash : Nat, old : BOOLEAN]
  BY <1>1 DEF Credentials
<1> QED  BY <1>2

\* A login that goes on knows its identity and word.
LEMMA BusyLogin ==
    ASSUME PasswordType, NEW l \in Logins, login[l].pc # "idle"
    PROVE  /\ login[l] \in [pc : {"absent", "rehash", "adopt"}, id : Providers, word : Words, read : Credentials]
           /\ login[l].id \in Providers /\ login[l].word \in Words /\ login[l].read \in Credentials
BY DEF PasswordType, LoginStates, P!IdleLogin

\* What a login knows survives every change that adds one hash and gives the
\* credentials it changes that hash.
LEMMA InformedSurvive ==
    ASSUME PasswordType, LoginsAreInformed, hashes' = hashes + 1,
           \A l \in Logins : login'[l] = login[l] \/ login'[l] = P!IdleLogin,
           \A p \in Providers : credential'[p] = credential[p] \/ credential'[p].hash = hashes + 1
    PROVE  LoginsAreInformed'
<1> SUFFICES ASSUME NEW l \in Logins, login'[l].pc # "idle"
             PROVE  /\ login'[l].pc = "rehash" =>
                        /\ login'[l].read.present /\ login'[l].read.hash <= hashes'
                        /\ LET now == credential'[login'[l].id]
                           IN now.present /\ now.hash = login'[l].read.hash => now.word = login'[l].word
                    /\ login'[l].pc \in {"absent", "adopt"} => login'[l].id \notin Adopted
  BY DEF LoginsAreInformed
<1>1. login'[l] = login[l] /\ login[l].pc # "idle"
  BY DEF P!IdleLogin
<1>2. CASE login[l].pc = "rehash"
  <2>0. login[l].read \in Credentials /\ login[l].id \in Providers
    BY <1>1, BusyLogin
  <2>1. login[l].read.present /\ login[l].read.hash <= hashes /\ login[l].read.hash \in Nat
    BY <1>2, <2>0, StoredHash DEF LoginsAreInformed
  <2>2. hashes \in Nat /\ hashes' = hashes + 1
    BY DEF PasswordType
  <2>3. login[l].read.hash # hashes + 1 /\ login[l].read.hash <= hashes'
    BY <2>1, <2>2
  <2> QED  BY <1>1, <1>2, <2>0, <2>1, <2>3 DEF LoginsAreInformed
<1>3. CASE login[l].pc # "rehash"
  BY <1>1, <1>3 DEF LoginsAreInformed
<1> QED  BY <1>2, <1>3

\* Every credential's hash was made, one more hash being made for the new ones.
LEMMA MadeSurvive ==
    ASSUME PasswordType, HashesMade, hashes' = hashes + 1,
           \A p \in Providers : credential'[p] = credential[p] \/ credential'[p].hash = hashes + 1
    PROVE  HashesMade'
<1> SUFFICES ASSUME NEW p \in Providers, credential'[p].present PROVE credential'[p].hash <= hashes'
  BY DEF HashesMade
<1>1. hashes \in Nat
  BY DEF PasswordType
<1>2. CASE credential'[p] = credential[p]
  <2>1. credential[p].hash \in Nat
    BY <1>2, StoredHash DEF PasswordType
  <2> QED  BY <1>1, <1>2, <2>1 DEF HashesMade
<1>3. CASE credential'[p].hash = hashes + 1
  BY <1>1, <1>3
<1> QED  BY <1>2, <1>3

\* Setting a password gives it to the legacy column and to every identity.
LEMMA SettingAPassword ==
    ASSUME PasswordInv, NEW word \in Words, P!SetPassword(word),
           \A l \in Logins : login'[l] = login[l]
    PROVE  /\ credential' \in [Providers -> Credentials] /\ hashes' \in Nat
           /\ SetWordHolds' /\ HashesMade' /\ LoginsAreInformed'
<1>0. PasswordType /\ HashesMade /\ LoginsAreInformed
  BY DEF PasswordInv
<1>1. /\ hashes' = hashes + 1 /\ legacy' = word /\ current' = word
      /\ credential' = [p \in Providers |-> P!Credential(word, hashes + 1, FALSE)]
  BY DEF P!SetPassword, P!NewHash, P!UpsertPasswordCredentials
<1>2. /\ credential' \in [Providers -> Credentials]
      /\ \A p \in Providers : credential'[p].present /\ credential'[p].word = word /\ credential'[p].hash = hashes + 1
  BY <1>0, <1>1, NewCredential
<1>3. hashes' \in Nat
  BY <1>0, <1>1 DEF PasswordType
<1>4. SetWordHolds'
  BY <1>1, <1>2, PasswordAssumption DEF SetWordHolds
<1>5. HashesMade' /\ LoginsAreInformed'
  BY <1>0, <1>1, <1>2, MadeSurvive, InformedSurvive
<1> QED  BY <1>2, <1>3, <1>4, <1>5

\* The first read of a login.
LEMMA LoginReads ==
    ASSUME PasswordInv, NEW l \in Logins, NEW p \in Providers, NEW word \in Words,
           P!LoginWithPassword(l, p, word)
    PROVE  PasswordInv'
<1>0. PasswordType /\ SetWordHolds /\ HashesMade /\ LoginsAreInformed /\ LinksCoverResets
  BY DEF PasswordInv
<1> DEFINE verdict == P!AuthenticateIdentity(credential[p], word)
           started == [pc |-> verdict, id |-> p, word |-> word, read |-> credential[p]]
<1>1. /\ verdict \in {"absent", "rehash"} /\ login' = [login EXCEPT ![l] = started]
      /\ UNCHANGED <<legacy, credential, resetTokens, confirmation, hashes, current, resetsDone>>
  BY DEF P!LoginWithPassword
<1>2. credential[p] \in Credentials
  BY <1>0 DEF PasswordType
<1>3. verdict = "absent" => p \notin Adopted
  BY <1>0 DEF P!AuthenticateIdentity, SetWordHolds
<1>4. verdict = "rehash" => credential[p].present /\ credential[p].word = word
  BY DEF P!AuthenticateIdentity
<1> HIDE DEF verdict
<1>5. started \in [pc : {"absent", "rehash", "adopt"}, id : Providers, word : Words, read : Credentials]
  BY <1>1, <1>2
<1>6. PasswordType'
  BY <1>0, <1>1, <1>5 DEF PasswordType, LoginStates
<1>7. LoginsAreInformed'
  <2> SUFFICES ASSUME NEW k \in Logins
               PROVE  /\ login'[k].pc = "rehash" =>
                          /\ login'[k].read.present /\ login'[k].read.hash <= hashes
                          /\ LET now == credential[login'[k].id]
                             IN now.present /\ now.hash = login'[k].read.hash => now.word = login'[k].word
                      /\ login'[k].pc \in {"absent", "adopt"} => login'[k].id \notin Adopted
    BY <1>1 DEF LoginsAreInformed
  <2>1. CASE k = l
    <3>1. login'[k] = started
      BY <1>0, <1>1, <2>1 DEF PasswordType
    <3> QED  BY <1>0, <1>1, <1>3, <1>4, <3>1 DEF HashesMade
  <2>2. CASE k # l
    <3>1. login'[k] = login[k]
      BY <1>0, <1>1, <2>2 DEF PasswordType
    <3> QED  BY <1>0, <3>1 DEF LoginsAreInformed
  <2> QED  BY <2>1, <2>2
<1> QED
  BY <1>0, <1>1, <1>6, <1>7 DEF PasswordInv, SetWordHolds, HashesMade, LinksCoverResets

\* The rehash replaces only the hash that was verified, so only by its own word.
LEMMA LoginRehashes ==
    ASSUME PasswordInv, NEW l \in Logins, P!Rehash(l)
    PROVE  PasswordInv'
<1>0. PasswordType /\ SetWordHolds /\ HashesMade /\ LoginsAreInformed /\ LinksCoverResets
  BY DEF PasswordInv
<1> DEFINE id == login[l].id
           new == P!Credential(login[l].word, hashes + 1, FALSE)
<1>1. /\ login[l].pc = "rehash" /\ hashes' = hashes + 1 /\ login' = [login EXCEPT ![l] = P!IdleLogin]
      /\ credential' = [credential EXCEPT ![id] =
            IF @.present /\ @.hash = login[l].read.hash THEN new ELSE @]
      /\ UNCHANGED <<legacy, resetTokens, confirmation, current, resetsDone>>
  BY DEF P!Rehash, P!NewHash, P!RehashPasswordCredential
<1>2. id \in Providers /\ login[l].word \in Words
  BY <1>0, <1>1, BusyLogin
<1>3. new \in Credentials /\ new.present /\ new.word = login[l].word /\ new.hash = hashes + 1
  BY <1>0, <1>2, NewCredential
<1>4. credential[id].present /\ credential[id].hash = login[l].read.hash => credential[id].word = login[l].word
  BY <1>0, <1>1 DEF LoginsAreInformed
<1> HIDE DEF new
<1>5. \A p \in Providers : \/ credential'[p] = credential[p]
                           \/ p = id /\ credential'[p] = new /\ credential[p].word = new.word
  BY <1>0, <1>1, <1>2, <1>3, <1>4 DEF PasswordType
<1>6. PasswordType'
  <2>1. credential' \in [Providers -> Credentials]
    BY <1>0, <1>1, <1>3 DEF PasswordType
  <2>2. login' \in [Logins -> LoginStates]
    BY <1>0, <1>1 DEF PasswordType, LoginStates
  <2> QED  BY <1>0, <1>1, <2>1, <2>2 DEF PasswordType
<1>7. SetWordHolds'
  BY <1>0, <1>1, <1>3, <1>5, PasswordAssumption DEF SetWordHolds
<1>8. \A k \in Logins : login'[k] = login[k] \/ login'[k] = P!IdleLogin
  BY <1>0, <1>1 DEF PasswordType
<1>9. HashesMade' /\ LoginsAreInformed'
  BY <1>0, <1>1, <1>3, <1>5, <1>8, MadeSurvive, InformedSurvive
<1> QED  BY <1>0, <1>1, <1>6, <1>7, <1>9 DEF PasswordInv, LinksCoverResets

\* Without a credential the legacy column decides, and an answer of it starts
\* or ends the adoption.
LEMMA LegacyAnswers ==
    ASSUME PasswordInv, NEW l \in Logins, P!LegacyLogin(l) \/ P!LoginFails(l)
    PROVE  PasswordInv'
<1>0. PasswordType /\ SetWordHolds /\ HashesMade /\ LoginsAreInformed /\ LinksCoverResets
  BY DEF PasswordInv
<1>1. UNCHANGED <<legacy, credential, resetTokens, confirmation, hashes, current, resetsDone>>
  BY DEF P!LegacyLogin, P!LoginFails
<1>2. /\ login[l].pc # "idle" /\ login' = [login EXCEPT ![l] = login'[l]]
      /\ \/ login'[l] = P!IdleLogin
         \/ login[l].pc = "absent" /\ login'[l] = [login[l] EXCEPT !.pc = "adopt"]
  BY <1>0 DEF P!LegacyLogin, P!LoginFails, PasswordType
<1>3. login[l] \in [pc : {"absent", "rehash", "adopt"}, id : Providers, word : Words, read : Credentials]
  BY <1>0, <1>2, BusyLogin
<1>4. login'[l] \in LoginStates /\ (login'[l].pc # "idle" =>
          login[l].pc = "absent" /\ login'[l].pc = "adopt" /\ login'[l].id = login[l].id)
  BY <1>2, <1>3 DEF LoginStates, P!IdleLogin
<1>5. PasswordType'
  BY <1>0, <1>1, <1>2, <1>4 DEF PasswordType
<1>6. LoginsAreInformed'
  <2> SUFFICES ASSUME NEW k \in Logins
               PROVE  /\ login'[k].pc = "rehash" =>
                          /\ login'[k].read.present /\ login'[k].read.hash <= hashes
                          /\ LET now == credential[login'[k].id]
                             IN now.present /\ now.hash = login'[k].read.hash => now.word = login'[k].word
                      /\ login'[k].pc \in {"absent", "adopt"} => login'[k].id \notin Adopted
    BY <1>1 DEF LoginsAreInformed
  <2>1. CASE k = l
    BY <1>0, <1>4, <2>1 DEF LoginsAreInformed
  <2>2. CASE k # l
    <3>1. login'[k] = login[k]
      BY <1>0, <1>2, <2>2 DEF PasswordType
    <3> QED  BY <1>0, <3>1 DEF LoginsAreInformed
  <2> QED  BY <2>1, <2>2
<1> QED
  BY <1>0, <1>1, <1>5, <1>6 DEF PasswordInv, SetWordHolds, HashesMade, LinksCoverResets

\* The unconditional upsert can only reach an identity that is not adopted.
LEMMA LoginAdopts ==
    ASSUME PasswordInv, NEW l \in Logins, P!StoreIdentityPassword(l)
    PROVE  PasswordInv'
<1>0. PasswordType /\ SetWordHolds /\ HashesMade /\ LoginsAreInformed /\ LinksCoverResets
  BY DEF PasswordInv
<1> DEFINE id == login[l].id
           new == P!Credential(login[l].word, hashes + 1, FALSE)
<1>1. /\ login[l].pc = "adopt" /\ hashes' = hashes + 1 /\ login' = [login EXCEPT ![l] = P!IdleLogin]
      /\ credential' = [credential EXCEPT ![id] = new]
      /\ UNCHANGED <<legacy, resetTokens, confirmation, current, resetsDone>>
  BY DEF P!StoreIdentityPassword, P!NewHash
<1>2. id \in Providers \ Adopted /\ login[l].word \in Words
  BY <1>0, <1>1, BusyLogin DEF LoginsAreInformed
<1>3. new \in Credentials /\ new.hash = hashes + 1
  BY <1>0, <1>2, NewCredential
<1> HIDE DEF new
<1>4. \A p \in Providers : credential'[p] = credential[p] \/ (p = id /\ credential'[p] = new)
  BY <1>0, <1>1 DEF PasswordType
<1>5. PasswordType'
  <2>1. credential' \in [Providers -> Credentials]
    BY <1>0, <1>1, <1>3 DEF PasswordType
  <2>2. login' \in [Logins -> LoginStates]
    BY <1>0, <1>1 DEF PasswordType, LoginStates
  <2> QED  BY <1>0, <1>1, <2>1, <2>2 DEF PasswordType
<1>6. SetWordHolds'
  BY <1>0, <1>1, <1>2, <1>4, PasswordAssumption DEF SetWordHolds
<1>7. \A k \in Logins : login'[k] = login[k] \/ login'[k] = P!IdleLogin
  BY <1>0, <1>1 DEF PasswordType
<1>8. HashesMade' /\ LoginsAreInformed'
  BY <1>0, <1>1, <1>3, <1>4, <1>7, MadeSurvive, InformedSurvive
<1> QED  BY <1>0, <1>1, <1>5, <1>6, <1>8 DEF PasswordInv, LinksCoverResets

\* A change replaces the word everywhere at once.
LEMMA PasswordChanges ==
    ASSUME PasswordInv, NEW old \in Words, NEW new \in Words, P!ChangePassword(old, new)
    PROVE  PasswordInv'
<1>1. P!SetPassword(new) /\ UNCHANGED <<resetTokens, login, confirmation, resetsDone>>
  BY DEF P!ChangePassword
<1>2. /\ credential' \in [Providers -> Credentials] /\ hashes' \in Nat
      /\ SetWordHolds' /\ HashesMade' /\ LoginsAreInformed'
  BY <1>1, SettingAPassword
<1> QED  BY <1>1, <1>2 DEF PasswordInv, PasswordType, LinksCoverResets

\* A reset that commits retires a link that was unused, so there was one more
\* link than resets.
LEMMA ResetCommits ==
    ASSUME PasswordInv, NEW c \in Confirmations, NEW word \in Words, P!CommitReset(c, word)
    PROVE  PasswordInv'
<1>0. PasswordType /\ LinksCoverResets
  BY DEF PasswordInv
<1>1. P!SetPassword(word) /\ UNCHANGED login
  BY DEF P!CommitReset
<1>2. /\ confirmation' = [confirmation EXCEPT ![c] = 0] /\ resetsDone' = resetsDone + 1
      /\ \E t \in DOMAIN resetTokens : ~resetTokens[t].used
      /\ resetTokens' = [t \in DOMAIN resetTokens |-> [resetTokens[t] EXCEPT !.used = TRUE]]
  BY DEF P!CommitReset, P!ConsumeTokens
<1>3. /\ credential' \in [Providers -> Credentials] /\ hashes' \in Nat
      /\ SetWordHolds' /\ HashesMade' /\ LoginsAreInformed'
  BY <1>1, SettingAPassword
<1>4. \A t \in DOMAIN resetTokens : resetTokens[t] \in Links
  BY <1>0 DEF PasswordType
<1>5. /\ resetTokens' \in Seq(Links) /\ Len(resetTokens') = Len(resetTokens)
      /\ DOMAIN resetTokens' = DOMAIN resetTokens
      /\ \A t \in DOMAIN resetTokens : resetTokens'[t].used
  <2>1. \A t \in DOMAIN resetTokens :
          [resetTokens[t] EXCEPT !.used = TRUE] \in Links /\ [resetTokens[t] EXCEPT !.used = TRUE].used
    BY <1>4 DEF Links
  <2>2. Len(resetTokens) \in Nat /\ DOMAIN resetTokens = 1..Len(resetTokens)
    BY <1>0 DEF PasswordType
  <2>3. resetTokens' \in [1..Len(resetTokens) -> Links]
    BY <1>2, <2>1, <2>2
  <2>4. resetTokens' \in Seq(Links)
    BY <2>2, <2>3, SeqDef
  <2>5. DOMAIN resetTokens' = DOMAIN resetTokens /\ Len(resetTokens') = Len(resetTokens)
    BY <1>2, <2>2, <2>4, LenProperties
  <2> QED  BY <1>2, <2>1, <2>4, <2>5
<1>6. resetsDone \in Nat /\ Len(resetTokens) \in Nat
  BY <1>0 DEF PasswordType
<1>7. resetsDone < Len(resetTokens)
  BY <1>0, <1>2, <1>6 DEF LinksCoverResets
<1>8. PasswordType'
  BY <1>0, <1>1, <1>2, <1>3, <1>5 DEF PasswordType
<1>9. LinksCoverResets'
  BY <1>2, <1>5, <1>6, <1>7 DEF LinksCoverResets
<1> QED  BY <1>3, <1>8, <1>9 DEF PasswordInv

\* A request adds an unused link; an expiry leaves it unused.
LEMMA LinksChange ==
    ASSUME PasswordInv,
           \/ \E sent \in BOOLEAN : P!RequestReset(sent)
           \/ \E t \in DOMAIN resetTokens : P!TokenExpires(t)
    PROVE  PasswordInv'
<1>0. PasswordType /\ SetWordHolds /\ HashesMade /\ LoginsAreInformed /\ LinksCoverResets
  BY DEF PasswordInv
<1>1. UNCHANGED <<legacy, credential, login, confirmation, hashes, current, resetsDone>>
  BY DEF P!RequestReset, P!TokenExpires
<1>2. resetsDone \in Nat /\ Len(resetTokens) \in Nat
  BY <1>0 DEF PasswordType
<1>3. resetTokens' \in Seq(Links) /\ LinksCoverResets'
  <2>1. CASE \E sent \in BOOLEAN : P!RequestReset(sent)
    <3>1. PICK sent \in BOOLEAN :
            resetTokens' = Append(resetTokens, [used |-> FALSE, expired |-> FALSE, sent |-> sent])
      BY <2>1 DEF P!RequestReset
    <3>2. [used |-> FALSE, expired |-> FALSE, sent |-> sent] \in Links
      BY DEF Links
    <3>3. resetTokens' \in Seq(Links) /\ Len(resetTokens') = Len(resetTokens) + 1
      BY <1>0, <3>1, <3>2 DEF PasswordType
    <3> QED  BY <1>0, <1>1, <1>2, <3>3 DEF LinksCoverResets
  <2>2. CASE \E t \in DOMAIN resetTokens : P!TokenExpires(t)
    <3>1. PICK t \in DOMAIN resetTokens : resetTokens' = [resetTokens EXCEPT ![t].expired = TRUE]
      BY <2>2 DEF P!TokenExpires
    <3>2. resetTokens[t] \in Links
      BY <1>0 DEF PasswordType
    <3>3. /\ [resetTokens[t] EXCEPT !.expired = TRUE] \in Links
          /\ [resetTokens[t] EXCEPT !.expired = TRUE].used = resetTokens[t].used
      BY <3>2 DEF Links
    <3>4. /\ resetTokens' \in Seq(Links) /\ Len(resetTokens') = Len(resetTokens)
          /\ DOMAIN resetTokens' = DOMAIN resetTokens
          /\ \A s \in DOMAIN resetTokens : resetTokens'[s].used = resetTokens[s].used
      BY <1>0, <3>1, <3>3 DEF PasswordType
    <3> QED  BY <1>0, <1>1, <3>4 DEF LinksCoverResets
  <2> QED  BY <2>1, <2>2
<1> QED
  BY <1>0, <1>1, <1>3 DEF PasswordInv, PasswordType, SetWordHolds, HashesMade, LoginsAreInformed

\* A confirmation that reads its link, or fails, changes nothing else.
LEMMA ConfirmationsMove ==
    ASSUME PasswordInv, NEW c \in Confirmations,
           P!ResetFails(c) \/ \E t \in DOMAIN resetTokens : P!ConfirmReset(c, t)
    PROVE  PasswordInv'
<1>0. PasswordType /\ SetWordHolds /\ HashesMade /\ LoginsAreInformed /\ LinksCoverResets
  BY DEF PasswordInv
<1>1. UNCHANGED <<legacy, credential, resetTokens, login, hashes, current, resetsDone>>
  BY DEF P!ResetFails, P!ConfirmReset
<1>2. confirmation' \in [Confirmations -> Nat]
  <2>1. DOMAIN resetTokens \subseteq Nat
    BY <1>0 DEF PasswordType
  <2> QED  BY <1>0, <2>1 DEF PasswordType, P!ResetFails, P!ConfirmReset
<1> QED
  BY <1>0, <1>1, <1>2 DEF PasswordInv, PasswordType, SetWordHolds, HashesMade, LoginsAreInformed, LinksCoverResets

\* One step for every action of Passwords.
LEMMA PasswordStep == PasswordInv /\ [P!Next]_memberPasswords => PasswordInv'
<1> SUFFICES ASSUME PasswordInv, [P!Next]_memberPasswords PROVE PasswordInv'
  OBVIOUS
<1>1. ASSUME NEW l \in Logins, NEW p \in Providers, NEW word \in Words, P!LoginWithPassword(l, p, word)
      PROVE  PasswordInv'
  BY <1>1, LoginReads
<1>2. ASSUME NEW l \in Logins, P!Rehash(l) PROVE PasswordInv'
  BY <1>2, LoginRehashes
<1>3. ASSUME NEW l \in Logins, P!LegacyLogin(l) \/ P!LoginFails(l) PROVE PasswordInv'
  BY <1>3, LegacyAnswers
<1>4. ASSUME NEW l \in Logins, P!StoreIdentityPassword(l) PROVE PasswordInv'
  BY <1>4, LoginAdopts
<1>5. ASSUME NEW old \in Words, NEW new \in Words, P!ChangePassword(old, new) PROVE PasswordInv'
  BY <1>5, PasswordChanges
<1>6. ASSUME \/ \E sent \in BOOLEAN : P!RequestReset(sent)
             \/ \E t \in DOMAIN resetTokens : P!TokenExpires(t)
      PROVE  PasswordInv'
  BY <1>6, LinksChange
<1>7. ASSUME NEW c \in Confirmations, P!ResetFails(c) \/ \E t \in DOMAIN resetTokens : P!ConfirmReset(c, t)
      PROVE  PasswordInv'
  BY <1>7, ConfirmationsMove
<1>8. ASSUME NEW c \in Confirmations, NEW word \in Words, P!CommitReset(c, word) PROVE PasswordInv'
  BY <1>8, ResetCommits
<1>9. CASE UNCHANGED memberPasswords
  BY <1>9 DEF memberPasswords, PasswordInv, PasswordType, SetWordHolds, HashesMade, LoginsAreInformed, LinksCoverResets
<1> QED
  BY <1>1, <1>2, <1>3, <1>4, <1>5, <1>6, <1>7, <1>8, <1>9 DEF P!Next

\* What the run checks follows.
LEMMA PasswordInvSuffices == PasswordInv => P!PasswordsStaySet
BY DEF PasswordInv, SetWordHolds, LinksCoverResets,
       P!PasswordsStaySet, P!RehashKeepsNewPassword, P!ResetsNeedRequests

(***************************************************************************)
(* A password that was set stays set (Passwords by itself): a login that   *)
(* verified the old word before the change rehashes nothing, because the   *)
(* update of RehashPasswordCredential names a hash no longer there, and    *)
(* ConfirmResetAtomically must retire an unused link, so that links        *)
(* presented twice or by two confirmations reset no more often than asked. *)
(***************************************************************************)
THEOREM PasswordsStay == P!Spec => []P!PasswordsStaySet
<1>1. P!Init => PasswordInv
  BY PasswordInitially
<1>2. PasswordInv /\ [P!Next]_(P!passwordVars) => PasswordInv'
  BY PasswordStep DEF P!passwordVars, memberPasswords
<1>3. PasswordInv => P!PasswordsStaySet
  BY PasswordInvSuffices
<1> QED  BY <1>1, <1>2, <1>3, PTL DEF P!Spec

(***************************************************************************)
(* The same of the specification that the run checks, where the passwords  *)
(* (RehashPasswordCredential, ConfirmResetAtomically) are one scene beside *)
(* those of Signup.                                                        *)
(***************************************************************************)
THEOREM PasswordsStaySetAlways == MCSpec => []PasswordsStaySet
<1>1. MCInit => PasswordInv
  BY PasswordInitially DEF MCInit
<1>2. PasswordInv /\ [MCNext]_<<vars, memberPasswords, scene>> => PasswordInv'
  <2>1. [MCNext]_<<vars, memberPasswords, scene>> => [P!Next]_memberPasswords
    BY DEF MCNext
  <2> QED  BY <2>1, PasswordStep
<1>3. PasswordInv => PasswordsStaySet
  BY PasswordInvSuffices DEF PasswordsStaySet
<1> QED  BY <1>1, <1>2, <1>3, PTL DEF MCSpec

=============================================================================
