--------------------------- MODULE DonationLedger ---------------------------
(***************************************************************************)
(* The back office's donation ledger (WEO_ORDER rows of type 'A'): orders  *)
(* entered or edited by an operator, the two-step spreadsheet import       *)
(* (preview with signed row tokens, then commit), the per-order retention  *)
(* reviews, and the part of an account erasure that archives and removes a *)
(* member's orders.  One action is one statement group that the database   *)
(* runs atomically; an import commit is two, because its duplicate lookup  *)
(* reads the transaction's snapshot and takes no lock.                     *)
(*                                                                         *)
(* A donor stands for the date, phone, name, cohort and department that    *)
(* the composite key hashes together with the gross amount.                *)
(***************************************************************************)
EXTENDS Integers, FiniteSets, FiniteSetsExt, Sequences, SequencesExt

CONSTANTS
    Members,        \* accounts (WEO_MEMBER rows)
    Donors,         \* donor identities (name, cohort, department, phone, date)
    Operators,      \* administrators at work
    OrderInputs,    \* the order bodies an operator sends
    Template,       \* TRUE when the organisation's ledger retention is confirmed
    Sheets,         \* the spreadsheets an operator uploads
    NoMember, NoOrder, NoReview, NoTxn, NoKey, NoContext, Idle,
    TokenTTL,       \* donationImportPreviewTokenTTL
    MaxImportRows,  \* donationImportMaxRows
    PageSize,       \* rows on one page of the ledger
    MaxOrders,      \* bound: orders ever inserted
    MaxClock,       \* bound: seconds that pass
    MaxTokens       \* bound: preview tokens ever signed

Accounts == Members \cup {NoMember}

\* Amounts are whole, an account is a member's or nobody's, a spreadsheet is a
\* list of rows.
ASSUME LedgerAssumption ==
    /\ IsFiniteSet(Members) /\ NoMember \notin Members
    /\ \A i \in OrderInputs :
         i.account \in Accounts /\ i.donor \in Donors /\ i.gross \in Int /\ i.refunded \in Int
    /\ \A sheet \in Sheets :
         sheet.rows \in Seq([blank : BOOLEAN, formula : BOOLEAN, complete : BOOLEAN,
                             who : Donors, amount : Int])
    /\ PageSize \in Nat \ {0} /\ MaxOrders \in Nat /\ MaxClock \in Nat

VARIABLES
    orders,     \* O_SEQ -> the order's fields, NoOrder before insert / after erase
    nextSeq,    \* AUTO_INCREMENT
    member,     \* account -> [active, who]; erased accounts have status AAA
    review,     \* ALUMNI_DONATION_RETENTION: [fp, evidence] or NoReview
    inspected,  \* the <<order, fingerprint>> pair in the reviewer's decision file
    context,    \* member -> reviews frozen in the erasure request's context
    erased,     \* ALUMNI_ERASED_DONATION_TOTAL [amount, count]
    archive,    \* erased orders: [order, evidence, kept]
    tokens,     \* signed preview rows
    job,        \* operator -> the edit form or import transaction at hand
    clock       \* NOW(), in seconds

ledgerVars == <<orders, nextSeq, member, review, inspected, context, erased,
                archive, tokens, job, clock>>

Seqs == 1..MaxOrders
Live == {s \in Seqs : orders[s] # NoOrder}

-----------------------------------------------------------------------------
(* Normalisation of an order.                                              *)

isDonationStatus(s) ==
    s \in {"scheduled", "pending", "completed", "partially_refunded",
           "cancelled", "fully_refunded"}

\* What each status allows to have been refunded.
RefundFits(status, gross, refunded) ==
    CASE status = "partially_refunded" -> refunded # 0 /\ refunded # gross
      [] status = "fully_refunded"     -> refunded = gross
      [] OTHER                         -> refunded = 0

\* The checks of NormalizeDonationOrderInput; the texts that it trims and
\* matches against fixed lists are valid in every member of OrderInputs.
NormalizeDonationOrderInput(i) ==
    /\ isDonationStatus(i.status)
    /\ i.gross >= 0 /\ i.refunded >= 0 /\ i.refunded <= i.gross
    /\ RefundFits(i.status, i.gross, i.refunded)

\* An order with a transaction number is identified by it and its source, any
\* other by the hash of its donor and gross amount.
nullableCompositeKey(o) == IF o.txn # NoTxn THEN NoKey ELSE <<o.donor, o.gross>>

\* The two unique indexes: a second row with a taken composite key, or with a
\* transaction number taken in the same source, is error 1062.
Conflicts(o, s) ==
    /\ orders[s] # NoOrder
    /\ \/ nullableCompositeKey(o) # NoKey
          /\ nullableCompositeKey(orders[s]) = nullableCompositeKey(o)
       \/ o.txn # NoTxn /\ orders[s].txn = o.txn /\ orders[s].source = o.source

OrderOf(i, account) ==
    [account |-> account, donor |-> i.donor, gross |-> i.gross,
     refunded |-> i.refunded, status |-> i.status, txn |-> i.txn,
     source |-> i.source, edited |-> clock]

\* The order an imported row becomes: a completed one-time donation.
importedDonationOrderInput(row) ==
    [donor |-> row.donor, gross |-> row.amount, refunded |-> 0,
     status |-> "completed", txn |-> NoTxn, source |-> "happy_nanum"]

-----------------------------------------------------------------------------
(* Reading the ledger.                                                     *)

\* canonicalReceivedDonationPredicate
Received(s) ==
    orders[s] # NoOrder /\ orders[s].status \in {"completed", "partially_refunded"}

Net(s) == orders[s].gross - orders[s].refunded

SumNet(S) == FoldSet(LAMBDA s, sum : Net(s) + sum, 0, S)

AllReceived == {s \in Seqs : Received(s)}

\* A donor is an account, or the name and phone of an unlinked order.
DonorOf(s) == IF orders[s].account # NoMember THEN <<"account", orders[s].account>>
                                              ELSE <<"unlinked", orders[s].donor>>

\* The public total: received orders plus what erasures took out of the table.
AggregateOver(S) ==
    [amount |-> SumNet(S) + erased.amount,
     count  |-> Cardinality({DonorOf(s) : s \in S}) + erased.count]

getReceivedDonationAggregate == AggregateOver(AllReceived)

personalDonationWhere(m, s) == Received(s) /\ orders[s].account = m

\* What a member sees as donated in person: the totals ...
GetTotals(m) ==
    LET mine == {s \in Seqs : personalDonationWhere(m, s)}
    IN  [amount |-> SumNet(mine), count |-> Cardinality(mine)]

\* The rows in the order that `before` gives them.
InOrder(rows, before(_, _)) ==
    [i \in 1..Cardinality(rows) |->
        CHOOSE s \in rows : Cardinality({t \in rows : before(t, s)}) = i - 1]

PageOf(sorted, page) ==
    SubSeq(sorted, (page - 1) * PageSize + 1, Min({page * PageSize, Len(sorted)}))

Newer(a, b)  == a > b
Larger(a, b) == Net(a) > Net(b) \/ (Net(a) = Net(b) /\ Newer(a, b))

\* ... and one page of them, newest or largest first.
PersonalList(m, sort, page) ==
    LET mine == {s \in Seqs : personalDonationWhere(m, s)}
    IN  PageOf(IF sort = "amount" THEN InOrder(mine, Larger) ELSE InOrder(mine, Newer), page)

GetPersonalDonations(m, sort, page) ==
    [items |-> PersonalList(m, IF sort = "amount" THEN sort ELSE "latest", page),
     totals |-> GetTotals(m)]

\* ORDER BY date and sequence, newest first, one page of the rows that match.
ListDonationOrders(status, page) ==
    LET matching == {s \in Live : status = "" \/ orders[s].status = status}
    IN  PageOf(InOrder(matching, Newer), page)

\* An unknown status is refused, an odd page is the first.
ListOrders(status, page) ==
    IF status = "" \/ isDonationStatus(status)
    THEN ListDonationOrders(status, IF page < 1 THEN 1 ELSE page)
    ELSE <<>>

-----------------------------------------------------------------------------
(* Accounts.                                                               *)

\* FOR UPDATE on the member row, not erased: serialised with erasure.
lockActiveDonationAccount(m) == m # NoMember => member[m].active

lockActiveDonationAccounts(chosen) ==
    \A m \in chosen : lockActiveDonationAccount(m)

\* Active members whose name, cohort and phone are the row's.
findMemberCandidatesByKeys(donor) ==
    {m \in Members : member[m].active /\ member[m].who = donor}

\* A member edits the profile the import matches against.
ChangeProfile(m, who) ==
    /\ member[m].active /\ member[m].who # who
    /\ member' = [member EXCEPT ![m].who = who]
    /\ UNCHANGED <<orders, nextSeq, review, inspected, context, erased, archive,
                   tokens, job, clock>>

-----------------------------------------------------------------------------
(* Entering and editing one order.                                         *)

\* The insert of CreateDonationOrderTx.
CreateDonationOrder(i) ==
    /\ nextSeq <= MaxOrders
    /\ lockActiveDonationAccount(i.account)
    /\ ~ \E s \in Seqs : Conflicts(i, s)
    /\ orders' = [orders EXCEPT ![nextSeq] = OrderOf(i, i.account)]
    /\ nextSeq' = nextSeq + 1

\* The closed body has every canonical field; the account may be left out.
decodeDonationOrderInput(i) == i.complete

\* The service: normalise, then write.
CreateNormalized(i) == NormalizeDonationOrderInput(i) /\ CreateDonationOrder(i)

CreateOrder(p, i) ==
    /\ job[p] = Idle
    /\ decodeDonationOrderInput(i)
    /\ CreateNormalized(i)
    /\ UNCHANGED <<member, review, inspected, context, erased, archive, tokens, job, clock>>

\* GET of one order: the form shows it with its last edit's second.
GetOrder(p, s) == job' = [job EXCEPT ![p] = [op |-> "edit", seq |-> s, seen |-> orders[s]]]

\* The operator opens an order from a page of the ledger.
OpenOrder(p, status, page) ==
    /\ job[p] = Idle
    /\ \E s \in Range(ListOrders(status, page)) : GetOrder(p, s)
    /\ UNCHANGED <<orders, nextSeq, member, review, inspected, context, erased,
                   archive, tokens, clock>>

\* The account of the edited order, when the body names one.
EditedAccount(s, i) == IF i.accountSet THEN i.account ELSE orders[s].account

\* The order as it is after the edit.
Replacement(s, i) == OrderOf(i, EditedAccount(s, i))

\* COALESCE(EDT_DATE, REG_DATE) = lastEditedAt, to the second.
NotEditedSince(s, seen) == orders[s] # NoOrder /\ orders[s].edited = seen.edited

\* DELETE FROM ALUMNI_DONATION_RETENTION, under the order's lock.
InvalidateReview(s) == review' = [review EXCEPT ![s] = NoReview]

\* What the transaction checks before and while it writes.
UpdateAccepted(s, seen, i) ==
    /\ i.accountSet => lockActiveDonationAccount(i.account)
    /\ NotEditedSince(s, seen)
    /\ ~ \E t \in Seqs \ {s} : Conflicts(i, t)

\* The UPDATE and the deletion of the order's review, one transaction; a refused
\* save (404, 409) rolls back.
UpdateDonationOrder(s, seen, i) ==
    IF UpdateAccepted(s, seen, i)
    THEN /\ orders' = [orders EXCEPT ![s] = Replacement(s, i)]
         /\ InvalidateReview(s)
    ELSE UNCHANGED <<orders, review>>

\* The service: normalise, then replace the version the form was opened with.
UpdateNormalized(s, seen, i) ==
    NormalizeDonationOrderInput(i) /\ UpdateDonationOrder(s, seen, i)

\* The operator saves the form.
UpdateOrder(p, i) ==
    /\ job[p] # Idle /\ job[p].op = "edit"
    /\ decodeDonationOrderInput(i)
    /\ UpdateNormalized(job[p].seq, job[p].seen, i)
    /\ job' = [job EXCEPT ![p] = Idle]
    /\ UNCHANGED <<nextSeq, member, inspected, context, erased, archive, tokens, clock>>

-----------------------------------------------------------------------------
(* Spreadsheet import: preview.                                            *)

\* A cell row the file validation accepts.
validateExcelDonationFields(c) == c.complete /\ c.amount > 0

\* The header row names the columns.
validateDonationImportHeaders(sheet) == sheet.header

isBlankExcelRow(c) == c.blank

\* The donations' date is a calendar date.
validateDonationImportDate(sheet) == sheet.dated

\* Dashes in the phone are dropped, so both spellings are one donor.
RowOf(c) == [donor |-> c.who, amount |-> c.amount]

\* The whole sheet is refused on a bad header, one bad row, a row repeated under
\* the composite key, or too many rows.
parseExcelDonationRows(sheet) ==
    LET data == {k \in DOMAIN sheet.rows : ~isBlankExcelRow(sheet.rows[k])}
    IN  IF /\ validateDonationImportHeaders(sheet)
           /\ Cardinality(data) <= MaxImportRows
           /\ \A k \in data :
                ~sheet.rows[k].formula /\ validateExcelDonationFields(sheet.rows[k])
           /\ \A j, k \in data : j < k => RowOf(sheet.rows[j]) # RowOf(sheet.rows[k])
        THEN {RowOf(sheet.rows[k]) : k \in data}
        ELSE {}

KeyTaken(key) == \E s \in Live : nullableCompositeKey(orders[s]) = key

findExistingDonationCompositeKeys(rows) ==
    {row \in rows : KeyTaken(<<row.donor, row.amount>>)}

PreviewStatus(row) ==
    IF KeyTaken(<<row.donor, row.amount>>) THEN "duplicate"
    ELSE CASE Cardinality(findMemberCandidatesByKeys(row.donor)) = 0 -> "unmatched"
           [] Cardinality(findMemberCandidatesByKeys(row.donor)) = 1 -> "matched"
           [] OTHER -> "ambiguous"

\* The token binds the row, its status, the match and an expiry.
signDonationImportPreviewRow(row) ==
    [row |-> row, status |-> PreviewStatus(row), exp |-> clock + TokenTTL,
     matched |-> IF Cardinality(findMemberCandidatesByKeys(row.donor)) = 1
                 THEN CHOOSE m \in findMemberCandidatesByKeys(row.donor) : TRUE
                 ELSE NoMember]

ParsePreview(sheet) ==
    LET rows == parseExcelDonationRows(sheet)
    IN  /\ validateDonationImportDate(sheet)
        /\ rows # {}
        /\ tokens' = tokens \cup {signDonationImportPreviewRow(row) : row \in rows}

\* Any operator previews any sheet; the tokens stay with the browser.
Preview(sheet) ==
    /\ sheet.xlsx
    /\ Cardinality(tokens) + Cardinality(parseExcelDonationRows(sheet)) <= MaxTokens
    /\ ParsePreview(sheet)
    /\ UNCHANGED <<orders, nextSeq, member, review, inspected, context, erased,
                   archive, job, clock>>

-----------------------------------------------------------------------------
(* Spreadsheet import: commit.                                             *)

\* Signed, not expired, and the row is the one that was signed.
verifyDonationImportPreviewToken(t) == t \in tokens /\ t.exp > clock

\* A row as the browser sends it back, checked again.
normalizeDonationImportCommitRow(row) == row.amount > 0

\* Rows of one request, each with the account the operator chose for it.
CommitRows(picked, choice) ==
    {[token |-> t, account |-> choice[t]] : t \in picked}

\* A faulty variant of donationImportMatchStillValid: the preview is believed.
MatchAsPreviewed(t, account) ==
    t.status # "duplicate" /\ (t.status = "matched" => account = t.matched)

\* The match is looked up again, with the member rows locked.
donationImportMatchStillValid(t, account) ==
    LET candidates == findMemberCandidatesByKeys(t.row.donor)
    IN  CASE t.status = "matched"   -> candidates = {t.matched} /\ account = t.matched
          [] t.status = "ambiguous" -> Cardinality(candidates) > 1
          [] t.status = "unmatched" -> candidates = {}
          [] OTHER                  -> FALSE

\* The request is checked and its transaction looks up the taken keys.
BeginCommit(p, picked, choice) ==
    /\ job[p] = Idle
    /\ Cardinality(picked) \in 1..MaxImportRows
    /\ \A t \in picked : /\ normalizeDonationImportCommitRow(t.row)
                        /\ verifyDonationImportPreviewToken(t)
    /\ \A t, u \in picked : t.row = u.row => t = u
    /\ job' = [job EXCEPT ![p] =
                 [op |-> "import", rows |-> CommitRows(picked, choice),
                  taken |-> findExistingDonationCompositeKeys({t.row : t \in picked})]]
    /\ UNCHANGED <<orders, nextSeq, member, review, inspected, context, erased,
                   archive, tokens, clock>>

\* The unique indexes stop what the lookup was too early to see.
NoKeyConflict(rows, taken) ==
    /\ \A r \in rows : r.token.row \notin taken
    /\ \A r \in rows : ~ \E s \in Seqs : Conflicts(importedDonationOrderInput(r.token.row), s)

\* One multi-row INSERT.
CreateDonationOrdersTx(rows) ==
    LET listed == SetToSeq(rows)
    IN  /\ nextSeq + Cardinality(rows) - 1 <= MaxOrders
        /\ orders' = [s \in Seqs |->
              IF s \in nextSeq..(nextSeq + Len(listed) - 1)
              THEN OrderOf(importedDonationOrderInput(listed[s - nextSeq + 1].token.row),
                           listed[s - nextSeq + 1].account)
              ELSE orders[s]]
        /\ nextSeq' = nextSeq + Cardinality(rows)

\* Every row of the batch passes, or nothing is written.
Importable(rows, taken) ==
    /\ \A r \in rows : donationImportMatchStillValid(r.token, r.account)
    /\ lockActiveDonationAccounts({r.account : r \in rows})
    /\ NoKeyConflict(rows, taken)

\* Each row is normalised as an order entered by hand would be.
CreateImportedOrdersTx(rows) ==
    /\ \A r \in rows : NormalizeDonationOrderInput(importedDonationOrderInput(r.token.row))
    /\ CreateDonationOrdersTx(rows)

Commit(p) ==
    /\ job[p] # Idle /\ job[p].op = "import"
    /\ IF Importable(job[p].rows, job[p].taken)
       THEN CreateImportedOrdersTx(job[p].rows)
       ELSE UNCHANGED <<orders, nextSeq>>
    /\ job' = [job EXCEPT ![p] = Idle]
    /\ UNCHANGED <<member, review, inspected, context, erased, archive, tokens, clock>>

\* The browser goes away, or the server stops and the transaction rolls back.
Abandon(p) ==
    /\ job[p] # Idle
    /\ job' = [job EXCEPT ![p] = Idle]
    /\ UNCHANGED <<orders, nextSeq, member, review, inspected, context, erased,
                   archive, tokens, clock>>

-----------------------------------------------------------------------------
(* Retention reviews and erasure.                                          *)

\* Every persisted field of the order.
donationSourceFingerprint(s) == orders[s]

\* The reviewer prints the fingerprint of an order.
Inspect(s) ==
    /\ s \in Live
    /\ inspected' = {<<s, donationSourceFingerprint(s)>>}
    /\ UNCHANGED <<orders, nextSeq, member, review, context, erased, archive, tokens, job, clock>>

verifyDonationRetentionSource(fp, current) == fp = current

\* Keeping a record needs its statutory clock, erasing it must not invent one.
ValidateDonationRetention(basis, until) ==
    \/ basis \in {"ledger_10y", "receipt_5y"} /\ until
    \/ basis \in {"external_original", "erase"} /\ ~until

SaveDonationRetention(s, fp, basis) ==
    /\ s \in Live
    /\ verifyDonationRetentionSource(fp, donationSourceFingerprint(s))
    /\ review' = [review EXCEPT ![s] =
                    [fp |-> donationSourceFingerprint(s), evidence |-> fp, basis |-> basis]]

\* The command applies one reviewed decision of its file.
ApplyDecision(s, fp, basis, until) ==
    /\ <<s, fp>> \in inspected
    /\ ValidateDonationRetention(basis, until)
    /\ SaveDonationRetention(s, fp, basis)
    /\ UNCHANGED <<orders, nextSeq, member, inspected, context, erased, archive, tokens, job, clock>>

OrdersOf(m) == {s \in Live : orders[s].account = m}

\* The confirmed ledger policy stands in for a reviewer where the ledger's own
\* date is trusted: not for imported rows, and not before money moved.
LedgerRetentionTemplate(s) ==
    /\ Template
    /\ orders[s].source # "happy_nanum"
    /\ orders[s].status \in {"completed", "partially_refunded", "fully_refunded"}

TemplateReview(s) ==
    [fp |-> donationSourceFingerprint(s), evidence |-> orders[s], basis |-> "ledger_10y"]

\* The erasure's preflight: an order without a review gets the template's, and
\* unless every order of the member then has one, nothing is kept.
PrepareErasure(m) ==
    /\ member[m].active
    /\ \E s \in OrdersOf(m) : review[s] = NoReview
    /\ \A s \in OrdersOf(m) : review[s] = NoReview => LedgerRetentionTemplate(s)
    /\ review' = [s \in Seqs |-> IF s \in OrdersOf(m) /\ review[s] = NoReview
                                THEN TemplateReview(s) ELSE review[s]]
    /\ UNCHANGED <<orders, nextSeq, member, inspected, context, erased, archive,
                   tokens, job, clock>>

ReviewsOf(m) == {<<s, review[s]>> : s \in {t \in OrdersOf(m) : review[t] # NoReview}}

\* The erasure stores the reviews it found in its sealed context.
FreezeContext(m) ==
    /\ member[m].active
    /\ context[m] # ReviewsOf(m)
    /\ context' = [context EXCEPT ![m] = ReviewsOf(m)]
    /\ UNCHANGED <<orders, nextSeq, member, review, inspected, erased, archive, tokens, job, clock>>

contextIncludesRetention(m, s) == <<s, review[s]>> \in context[m]

\* Every order of the member is reviewed, unchanged since, and in the context.
ErasableDonations(m) ==
    /\ Cardinality(OrdersOf(m)) = Cardinality(context[m])
    /\ \A s \in OrdersOf(m) :
         /\ review[s] # NoReview
         /\ verifyDonationRetentionSource(review[s].fp, donationSourceFingerprint(s))
         /\ contextIncludesRetention(m, s)

ArchiveRow(s) ==
    [order |-> orders[s], evidence |-> review[s].evidence,
     kept |-> review[s].basis \in {"ledger_10y", "receipt_5y"}]

\* The aggregate is read before and after the deletion; what it lost is added to
\* the erased total.
MoveToErased(m) ==
    LET before == AggregateOver(AllReceived)
        after  == AggregateOver(AllReceived \ OrdersOf(m))
    IN  [amount |-> erased.amount + before.amount - after.amount,
         count  |-> erased.count + before.count - after.count]

\* The donations' part of the erasure transaction, which ends with the member
\* row anonymised.
eraseDonations(m) ==
    /\ archive' = archive \cup {ArchiveRow(s) : s \in OrdersOf(m)}
    /\ erased' = MoveToErased(m)
    /\ orders' = [s \in Seqs |-> IF s \in OrdersOf(m) THEN NoOrder ELSE orders[s]]
    /\ review' = [s \in Seqs |-> IF s \in OrdersOf(m) THEN NoReview ELSE review[s]]

EraseMember(m) ==
    /\ member[m].active /\ context[m] # NoContext
    /\ ErasableDonations(m)
    /\ eraseDonations(m)
    /\ member' = [member EXCEPT ![m].active = FALSE]
    /\ context' = [context EXCEPT ![m] = NoContext]
    /\ UNCHANGED <<nextSeq, inspected, tokens, job, clock>>

-----------------------------------------------------------------------------
Tick ==
    /\ clock < MaxClock
    /\ clock' = clock + 1
    /\ UNCHANGED <<orders, nextSeq, member, review, inspected, context, erased,
                   archive, tokens, job>>

LedgerInit ==
    /\ orders = [s \in Seqs |-> NoOrder]
    /\ nextSeq = 1
    /\ member \in [Members -> [active : {TRUE}, who : Donors]]
    /\ review = [s \in Seqs |-> NoReview]
    /\ inspected = {}
    /\ context = [m \in Members |-> NoContext]
    /\ erased = [amount |-> 0, count |-> 0]
    /\ archive = {}
    /\ tokens = {}
    /\ job = [p \in Operators |-> Idle]
    /\ clock = 0

LedgerNext ==
    \/ \E m \in Members, d \in Donors : ChangeProfile(m, d)
    \/ \E p \in Operators, i \in OrderInputs : CreateOrder(p, i)
    \/ \E p \in Operators, page \in 0..MaxOrders,
           st \in {"", "completed", "cancelled", "odd"} : OpenOrder(p, st, page)
    \/ \E p \in Operators, i \in OrderInputs : UpdateOrder(p, i)
    \/ \E sheet \in Sheets : Preview(sheet)
    \/ \E p \in Operators, picked \in SUBSET tokens :
         \E choice \in [picked -> Accounts] : BeginCommit(p, picked, choice)
    \/ \E p \in Operators : Commit(p)
    \/ \E p \in Operators : Abandon(p)
    \/ \E s \in Seqs : Inspect(s)
    \/ \E si \in inspected, basis \in {"ledger_10y", "erase"}, until \in BOOLEAN :
         ApplyDecision(si[1], si[2], basis, until)
    \/ \E m \in Members : PrepareErasure(m)
    \/ \E m \in Members : FreezeContext(m)
    \/ \E m \in Members : EraseMember(m)
    \/ Tick

LedgerSpec == LedgerInit /\ [][LedgerNext]_ledgerVars

-----------------------------------------------------------------------------
(* Properties.                                                             *)

\* No donation is in the ledger twice under one identity: two imports of the same
\* spreadsheet, committed by two operators at once, or an import racing an entry
\* by hand, leave one row per composite key and per transaction number of a source.
IdentityUnique ==
    \A s \in Live : ~ \E t \in Live \ {s} : Conflicts(orders[s], t)

\* No order in the ledger belongs to an erased account, whatever import, entry or
\* edit was under way while lockActiveDonationAccount and the erasure ran.
ErasedOwnsNothing ==
    \A s \in Live : orders[s].account # NoMember => member[orders[s].account].active

\* A retention review always describes its order as it is now: an edit deletes
\* it in the same transaction, and SaveDonationRetention compares fingerprints.
ReviewMatchesOrder ==
    \A s \in Seqs : review[s] # NoReview => s \in Live /\ review[s].fp = orders[s]

\* An order leaves the ledger only in the form a reviewer looked at: no edit
\* between the printed fingerprint, the decision, the frozen context and the
\* erasure goes unnoticed.
ErasedAsReviewed == \A a \in archive : a.evidence = a.order

\* The public total is what the pages of each member's own donations show, in
\* either order, plus the unlinked orders, plus what erasures moved out of the
\* table; and each member's pages hold as many rows as the total above them says.
PersonalTotalsAddUp ==
    LET Pages(m, sort) == UNION {Range(GetPersonalDonations(m, sort, n).items) : n \in Seqs}
    IN  /\ \A sort \in {"latest", "amount"} :
             getReceivedDonationAggregate.amount =
               MapThenSumSet(LAMBDA m : SumNet(Pages(m, sort)), Members)
                 + SumNet({s \in AllReceived : orders[s].account = NoMember})
                 + erased.amount
        /\ \A m \in Members : Cardinality(Pages(m, "latest")) = GetTotals(m).count

\* An erasure changes neither the public total nor the donor count.
ErasureKeepsAggregate ==
    [][(\E m \in Members : member[m].active /\ ~member'[m].active)
         => getReceivedDonationAggregate' = getReceivedDonationAggregate]_ledgerVars

\* A row previewed as matched is booked to the one active member who has its name,
\* cohort and phone at the moment of the commit, not the one of the preview.
MatchedRowsFollowTheMember ==
    [][\A p \in Operators :
         (job[p] # Idle /\ job[p].op = "import" /\ orders' # orders /\ job'[p] = Idle) =>
           \A r \in job[p].rows : r.token.status = "matched" =>
             findMemberCandidatesByKeys(r.token.row.donor) = {r.account}]_ledgerVars

\* An edit replaces the version the operator saw, or one written within the same
\* second (the limitation UpdateOrder documents): never a later second's.
EditsLoseNothingOlder ==
    [][\A p \in Operators, s \in Seqs :
         (job[p] # Idle /\ job[p].op = "edit" /\ job[p].seq = s /\ job'[p] = Idle
            /\ orders'[s] # orders[s]) => orders[s].edited <= job[p].seen.edited]_ledgerVars

\* The ledger stays consistent through imports, edits, reviews and erasures: one
\* row per donation, none of an erased account, archived as reviewed, totals that
\* add up and survive an erasure, and imported rows on the member they match.
LedgerIsConsistent ==
    /\ [](IdentityUnique /\ ErasedOwnsNothing /\ ReviewMatchesOrder /\ ErasedAsReviewed
            /\ PersonalTotalsAddUp)
    /\ ErasureKeepsAggregate
    /\ MatchedRowsFollowTheMember
=============================================================================
