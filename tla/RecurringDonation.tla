-------------------------- MODULE RecurringDonation --------------------------
(***************************************************************************)
(* Donation orders, the payment confirmation that the gateway's return     *)
(* page starts, the member's recurring donation and the daily billing job  *)
(* (service/donate_service.go, easypay_service.go, subscription_*.go and   *)
(* job/subscription_billing.go).  Requests, confirmations and billing runs *)
(* interleave between their statements; a gateway call is a step of its    *)
(* own and the process may crash between any two steps.                    *)
(***************************************************************************)
EXTENDS Integers, Sequences, FiniteSets, FiniteSetsExt

CONSTANTS
    Members,
    Requests,      \* request slots: creating or cancelling a subscription
    Confirms,      \* confirmation slots: the gateway's return page
    Runs,          \* billing runs that may be under way together
    OperatorDays,  \* dates an operator may run the job for
    Amounts,       \* amounts a request or the gateway may name
    DaysPerMonth, LastBillDay, \* calendar; the code clamps at day 28
    MaxConsecutiveFails,       \* failures that suspend; 3 in the code
    MaxDay, MaxOrders, MaxCharges, MaxFails, MaxLost, MaxOneTime, MaxSubs   \* bounds

ASSUME CalendarAssumption ==
    /\ DaysPerMonth \in Nat \ {0} /\ LastBillDay \in 1..DaysPerMonth
    /\ MaxDay \in Nat /\ OperatorDays \subseteq 0..MaxDay /\ MaxOrders \in Nat /\ MaxCharges \in Nat
    /\ MaxFails \in Nat /\ MaxLost \in Nat /\ MaxOneTime \in Nat /\ MaxSubs \in Nat
    /\ MaxConsecutiveFails \in Nat \ {0}

MinDonation == 10000

VARIABLES
    today,    \* days since the first of the first month
    orders,   \* WEO_ORDER rows; pgRows: the approvals that have a WEO_PG_DATA row
    subs,     \* SUBSCRIPTION rows
    charged,  \* the gateway's own record: approvals per order, numbered from 1
    req, conf, run,   \* the requests, confirmations and runs in progress
    ranOn,    \* last day the daily job fired
    lost,     \* history: approvals <<order, number>> forgotten because of a fault
    raced     \* history: subscriptions that two runs listed or two confirmations paid at once

vars == <<today, orders, subs, charged, req, conf, run, ranOn, lost, raced>>

MonthOf(d) == d \div DaysPerMonth + 1
\* The bill day of a date, clamped so that every month has it.
BillDayOf(d) ==
    IF (d % DaysPerMonth) + 1 > LastBillDay THEN LastBillDay
    ELSE (d % DaysPerMonth) + 1

\* The bill day in the month after d, a month later when that is within a day.
ComputeNextBillDate(d, billDay) ==
    LET candidate == (d \div DaysPerMonth + 1) * DaysPerMonth + billDay - 1
    IN IF candidate > d + 1 THEN candidate ELSE candidate + DaysPerMonth

IdleReq  == [pc |-> "idle"]
IdleConf == [pc |-> "idle"]
IdleRun  == [pc |-> "idle"]

Init ==
    /\ today = 0 /\ orders = <<>> /\ subs = <<>> /\ charged = <<>>
    /\ req = [r \in Requests |-> IdleReq]
    /\ conf = [c \in Confirms |-> IdleConf]
    /\ run = [r \in Runs |-> IdleRun]
    /\ ranOn = -1 /\ lost = {} /\ raced = {}

-----------------------------------------------------------------------------
(* Orders *)

\* CreateOrder refuses small amounts, unknown pay types and unknown gates.
ValidOrder(amount, payType, gate) ==
    /\ amount >= MinDonation
    /\ payType \in {"CARD", "BANK", "HP"}
    /\ gate \in {"S", "P"}

\* InsertOrder writes an unpaid, pending order.  "window" says that the
\* browser was given the parameters of the gateway's payment window.
NewOrder(u, gate, amount, sub, window) ==
    [usr |-> u, gate |-> gate, price |-> amount, sub |-> sub, window |-> window,
     paid |-> FALSE, net |-> 0, pgRows |-> {}, month |-> 0]

InsertOrder(u, gate, amount, sub, window) ==
    /\ Len(orders) < MaxOrders
    /\ orders' = Append(orders, NewOrder(u, gate, amount, sub, window))
    /\ charged' = Append(charged, 0)

\* A bank transfer has no payment window.
CreateOrder(u, gate, amount, payType) ==
    /\ ValidOrder(amount, payType, gate)
    /\ InsertOrder(u, gate, amount, 0, payType # "BANK")

\* A member asks for a one-time donation.
PostOrder(u, amount, payType) ==
    /\ Cardinality({o \in DOMAIN orders : orders[o].gate = "S"}) < MaxOneTime
    /\ CreateOrder(u, "S", amount, payType)
    /\ UNCHANGED <<today, subs, req, conf, run, ranOn, lost, raced>>

-----------------------------------------------------------------------------
(* A member's recurring donation *)

\* GetByUser: the newest active or pending row, or 0.
GetByUser(u) ==
    LET live == {s \in DOMAIN subs : subs[s].usr = u /\ subs[s].status \in {"active", "pending"}}
    IN IF live = {} THEN 0 ELSE Max(live)

\* GetByOrderSeq: the subscription whose first payment is order o, or 0.
GetByOrderSeq(o) ==
    LET mine == {s \in DOMAIN subs : subs[s].order = o}
    IN IF mine = {} THEN 0 ELSE Min(mine)

\* The checks of CreateSubscription and its first read.
MaySubscribe(u, amount, payType) ==
    amount >= MinDonation /\ payType = "CARD" /\ GetByUser(u) = 0

PostSubscription(r, u, amount, payType) ==
    /\ req[r].pc = "idle" /\ Len(subs) < MaxSubs
    /\ MaySubscribe(u, amount, payType)
    /\ req' = [req EXCEPT ![r] = [pc |-> "order", usr |-> u, amount |-> amount]]
    /\ UNCHANGED <<today, orders, subs, charged, conf, run, ranOn, lost, raced>>

SubscriptionOrder(r) ==
    /\ req[r].pc = "order"
    /\ CreateOrder(req[r].usr, "P", req[r].amount, "CARD")
    /\ req' = [req EXCEPT ![r] = [pc |-> "sub", usr |-> @.usr, amount |-> @.amount,
                                  order |-> Len(orders) + 1]]
    /\ UNCHANGED <<today, subs, conf, run, ranOn, lost, raced>>

\* Insert: the pending row, its bill day taken from today.
InsertSubscription(r) ==
    /\ req[r].pc = "sub"
    /\ subs' = Append(subs, [usr |-> req[r].usr, amount |-> req[r].amount, status |-> "pending",
                             key |-> FALSE, billDay |-> BillDayOf(today), last |-> 0,
                             nextBill |-> ComputeNextBillDate(today, BillDayOf(today)),
                             fails |-> 0, order |-> req[r].order])
    /\ req' = [req EXCEPT ![r] = IdleReq]
    /\ UNCHANGED <<today, orders, charged, conf, run, ranOn, lost, raced>>

\* CancelSubscription: the read and the ownership check, the revocation stub
\* that always asks for a manual revocation, and the unguarded update.
DeleteSubscription(r, u) ==
    /\ req[r].pc = "idle" /\ GetByUser(u) # 0
    /\ req' = [req EXCEPT ![r] = [pc |-> "cancel", sub |-> GetByUser(u)]]
    /\ UNCHANGED <<today, orders, subs, charged, conf, run, ranOn, lost, raced>>

UpdateStatus(s, status) == subs' = [subs EXCEPT ![s].status = status]

CancelSubscription(r) ==
    /\ req[r].pc = "cancel"
    /\ UpdateStatus(req[r].sub, "cancelled")
    /\ req' = [req EXCEPT ![r] = IdleReq]
    /\ UNCHANGED <<today, orders, charged, conf, run, ranOn, lost, raced>>

\* A statement of a request fails and the handler answers with an error.
RequestFails(r) ==
    /\ req[r].pc # "idle"
    /\ req' = [req EXCEPT ![r] = IdleReq]
    /\ UNCHANGED <<today, orders, subs, charged, conf, run, ranOn, lost, raced>>

-----------------------------------------------------------------------------
(* The gateway (ep_cli) and the confirmation of a payment *)

\* What a call of the command can come back with.  The command is killed
\* after 30 s, so an error says nothing about whether the card was charged.
GatewayResults ==
    {[ok |-> FALSE, took |-> t, amount |-> 0, key |-> FALSE] : t \in BOOLEAN}
        \cup [ok : {TRUE}, took : {TRUE}, amount : Amounts, key : BOOLEAN]

Charge(o, g) ==
    /\ charged[o] < MaxCharges
    /\ charged' = IF g.took THEN [charged EXCEPT ![o] = @ + 1] ELSE charged

\* The approval the gateway gives next for an order.
NextApproval(o) == <<o, charged[o] + 1>>

\* An approval that a fault makes the program forget; faults are bounded.
Forget(approvals) ==
    /\ lost' = lost \cup approvals
    /\ Cardinality(lost') <= MaxLost

\* LookupPendingByOrder is asked for recurring orders only.
LookupPendingByOrder(o) == IF orders[o].gate = "P" THEN GetByOrderSeq(o) ELSE 0

\* ConfirmPayment up to the idempotency check.
ConfirmPayment(c, o) ==
    /\ ~orders[o].paid
    /\ conf' = [conf EXCEPT ![c] =
          [pc |-> "approve", order |-> o, price |-> orders[o].price, amount |-> 0, number |-> 0,
           sub |-> LookupPendingByOrder(o), key |-> FALSE]]

\* The subscriptions whose first payment is being confirmed by someone else.
Overlapped(o) ==
    {s \in DOMAIN subs : subs[s].order = o
                          /\ \E d \in Confirms : conf[d].pc # "idle" /\ conf[d].order = o}

\* The gateway returns, with success, from a window the member was given: for a
\* first payment with the answer that follows the subscription's row.
EasyPayReturn(c, o) ==
    /\ conf[c].pc = "idle" /\ orders[o].window
    /\ \A r \in Requests : req[r].pc = "sub" => req[r].order # o
    /\ ConfirmPayment(c, o)
    /\ raced' = raced \cup Overlapped(o)
    /\ UNCHANGED <<today, orders, subs, charged, req, run, ranOn, lost>>

\* Approve: an error or a refusal fails the pending subscription; an approval
\* of another amount is only logged.
Approve(c, g) ==
    /\ conf[c].pc = "approve"
    /\ Charge(conf[c].order, g)
    /\ conf' = [conf EXCEPT ![c] =
          CASE g.ok /\ g.amount = @.price -> [@ EXCEPT !.pc = "commit", !.amount = g.amount, !.key = g.key,
                                                       !.number = charged[conf[c].order] + 1]
            [] ~g.ok /\ @.sub # 0         -> [@ EXCEPT !.pc = "refused"]
            [] OTHER                      -> IdleConf]
    /\ Forget(IF g.took /\ ~(g.ok /\ g.amount = conf[c].price) THEN {NextApproval(conf[c].order)} ELSE {})
    /\ UNCHANGED <<today, orders, subs, req, run, ranOn, raced>>

\* MarkFirstPaymentFailed: a statement of its own whose error is ignored.
MarkFirstPaymentFailed(c) ==
    /\ conf[c].pc = "refused"
    /\ UpdateStatus(conf[c].sub, "failed") \/ UNCHANGED subs
    /\ conf' = [conf EXCEPT ![c] = IdleConf]
    /\ UNCHANGED <<today, orders, charged, req, run, ranOn, lost, raced>>

\* A faulty variant of RecordPayment: nothing is kept of a second approval.
RecordPaymentIfUnpaid(o, number, amount, m) ==
    orders' = IF orders[o].paid THEN orders
              ELSE [orders EXCEPT ![o].pgRows = @ \cup {number}, ![o].net = amount,
                                  ![o].month = m, ![o].paid = TRUE]

\* InsertPGDataTx and UpdateOrderPaymentTx: the PG row is kept even when the
\* order is already paid.
RecordPayment(o, number, amount, m) ==
    orders' = [orders EXCEPT ![o].pgRows = @ \cup {number},
                             ![o].net = IF orders[o].paid THEN @ ELSE amount,
                             ![o].month = IF orders[o].paid THEN @ ELSE m,
                             ![o].paid = TRUE]

\* ActivateWithBillingKeyTx: no condition on the status.
ActivateWithBillingKey(s, key, nextBill) ==
    subs' = [subs EXCEPT ![s].status = "active", ![s].key = key, ![s].nextBill = nextBill,
                         ![s].last = MonthOf(today), ![s].fails = 0]

ActivateAfterFirstPayment(s, key) ==
    IF s = 0 THEN UNCHANGED subs
    ELSE ActivateWithBillingKey(s, key, ComputeNextBillDate(today, subs[s].billDay))

CommitPayment(c) ==
    /\ conf[c].pc = "commit"
    /\ RecordPayment(conf[c].order, conf[c].number, conf[c].amount, MonthOf(today))
    /\ ActivateAfterFirstPayment(conf[c].sub, conf[c].key)
    /\ conf' = [conf EXCEPT ![c] = IdleConf]
    /\ UNCHANGED <<today, charged, req, run, ranOn, lost, raced>>

\* The transaction fails: the approval is in the audit file only.
CommitPaymentFails(c) ==
    /\ conf[c].pc = "commit"
    /\ conf' = [conf EXCEPT ![c] = IdleConf]
    /\ Forget({<<conf[c].order, conf[c].number>>})
    /\ UNCHANGED <<today, orders, subs, charged, req, run, ranOn, raced>>

-----------------------------------------------------------------------------
(* The billing job *)

\* ListDueForBilling
ListDueForBilling(billDay, m) ==
    {s \in DOMAIN subs : subs[s].status = "active" /\ subs[s].billDay = billDay /\ subs[s].last < m}

\* A run in progress: the rows it listed and has still to do.
Listed(r) == IF run[r].pc = "idle" THEN {} ELSE run[r].due

\* The rows are done in the order of SUB_SEQ.
Current(r) == Min(run[r].due)

RunOnce(r, d) ==
    LET due == ListDueForBilling(BillDayOf(d), MonthOf(d)) IN
    /\ run[r].pc = "idle" /\ due # {}
    /\ run' = [run EXCEPT ![r] = [pc |-> "next", day |-> d, due |-> due, order |-> 0]]
    /\ raced' = raced \cup {s \in due : \E q \in Runs : s \in Listed(q)}
    /\ UNCHANGED <<today, orders, subs, charged, req, conf, lost>>

\* The job fires once a day; nothing due ends the run at once.
DailyRun(r) ==
    /\ ranOn < today /\ ranOn' = today
    /\ RunOnce(r, today)

\* RunBilling: an operator runs the job for a date of his own.
RunBilling(r, d) == RunOnce(r, d) /\ UNCHANGED ranOn

\* The run goes on with the next row it listed.
Advance(r) ==
    LET rest == run[r].due \ {Current(r)} IN
    run' = [run EXCEPT ![r] = IF rest = {} THEN IdleRun
                              ELSE [@ EXCEPT !.pc = "next", !.due = rest, !.order = 0]]

\* processOne up to the gateway call: a row without a key is skipped.
ProcessOne(r) ==
    LET s == Current(r) IN
    /\ run[r].pc = "next"
    /\ \/ /\ ~subs[s].key
          /\ Advance(r) /\ UNCHANGED <<orders, charged>>
       \/ /\ subs[s].key
          /\ InsertOrder(subs[s].usr, "P", subs[s].amount, s, FALSE)
          /\ run' = [run EXCEPT ![r].pc = "charge", ![r].order = Len(orders) + 1]
    /\ UNCHANGED <<today, subs, req, conf, ranOn, lost, raced>>

\* The stored key is charged without a payment window, once per order: the
\* approval's number is 1.
AutoBilling(o, g) == charged[o] = 0 /\ Charge(o, g)

ChargeCard(r, g) ==
    LET good == g.ok /\ g.amount = subs[Current(r)].amount IN
    /\ run[r].pc = "charge"
    /\ AutoBilling(run[r].order, g)
    /\ run' = [run EXCEPT ![r].pc = IF good THEN "commit" ELSE "failure"]
    /\ Forget(IF g.took /\ ~good THEN {NextApproval(run[r].order)} ELSE {})
    /\ UNCHANGED <<today, orders, subs, req, conf, ranOn, raced>>

\* A faulty variant of MarkBilled: the month of the charge is not kept.
MarkBilledNoMonth(s, d) ==
    subs' = [subs EXCEPT ![s].nextBill = ComputeNextBillDate(d, subs[s].billDay), ![s].fails = 0]

\* MarkBilledTx
MarkBilled(s, d) ==
    subs' = [subs EXCEPT ![s].last = MonthOf(d), ![s].fails = 0,
                         ![s].nextBill = ComputeNextBillDate(d, subs[s].billDay)]

CommitCharge(r) ==
    LET s == Current(r) IN
    /\ run[r].pc = "commit"
    /\ RecordPayment(run[r].order, 1, subs[s].amount, MonthOf(run[r].day))
    /\ MarkBilled(s, run[r].day)
    /\ Advance(r)
    /\ UNCHANGED <<today, charged, req, conf, ranOn, lost, raced>>

\* A failed transaction counts as a failed charge although money was taken.
CommitChargeFails(r) ==
    /\ run[r].pc = "commit"
    /\ run' = [run EXCEPT ![r].pc = "failure"]
    /\ Forget({<<run[r].order, 1>>})
    /\ UNCHANGED <<today, orders, subs, charged, req, conf, ranOn, raced>>

\* handleFailure: increment, read back, and suspend at the threshold, three
\* statements; an error of any of them ends the handling of this row.
IncrementFailCount(r) ==
    LET s == Current(r) IN
    /\ run[r].pc = "failure" /\ subs[s].fails < MaxFails
    /\ subs' = [subs EXCEPT ![s].fails = @ + 1]
    /\ run' = [run EXCEPT ![r].pc = "count"]
    /\ UNCHANGED <<today, orders, charged, req, conf, ranOn, lost, raced>>

ReadFailCount(r) ==
    /\ run[r].pc = "count"
    /\ IF subs[Current(r)].fails >= MaxConsecutiveFails
       THEN run' = [run EXCEPT ![r].pc = "suspend"] ELSE Advance(r)
    /\ UNCHANGED <<today, orders, subs, charged, req, conf, ranOn, lost, raced>>

MarkSuspended(r) ==
    /\ run[r].pc = "suspend"
    /\ UpdateStatus(Current(r), "suspended")
    /\ Advance(r)
    /\ UNCHANGED <<today, orders, charged, req, conf, ranOn, lost, raced>>

FailureHandlingFails(r) ==
    /\ run[r].pc \in {"failure", "count", "suspend"}
    /\ Advance(r)
    /\ UNCHANGED <<today, orders, subs, charged, req, conf, ranOn, lost, raced>>

-----------------------------------------------------------------------------
(* The process dies: everything in progress is gone, the rows stay. *)

\* The approvals a confirmation or a run is about to record.
Committing ==
    {<<conf[c].order, conf[c].number>> : c \in {x \in Confirms : conf[x].pc = "commit"}}
        \cup {<<run[r].order, 1>> : r \in {x \in Runs : run[x].pc = "commit"}}

Crash ==
    /\ req' = [r \in Requests |-> IdleReq]
    /\ conf' = [c \in Confirms |-> IdleConf]
    /\ run' = [r \in Runs |-> IdleRun]
    /\ Forget(Committing)
    /\ UNCHANGED <<today, orders, subs, charged, ranOn, raced>>

NextDay ==
    /\ today < MaxDay /\ today' = today + 1
    /\ UNCHANGED <<orders, subs, charged, req, conf, run, ranOn, lost, raced>>

Next ==
    \/ \E u \in Members, a \in Amounts, p \in {"CARD", "BANK", "HP"} : PostOrder(u, a, p)
    \/ \E r \in Requests :
        \/ \E u \in Members, a \in Amounts : PostSubscription(r, u, a, "CARD")
        \/ SubscriptionOrder(r) \/ InsertSubscription(r)
        \/ \E u \in Members : DeleteSubscription(r, u)
        \/ CancelSubscription(r) \/ RequestFails(r)
    \/ \E c \in Confirms :
        \/ \E o \in DOMAIN orders : EasyPayReturn(c, o)
        \/ \E g \in GatewayResults : Approve(c, g)
        \/ MarkFirstPaymentFailed(c) \/ CommitPayment(c) \/ CommitPaymentFails(c)
    \/ \E r \in Runs :
        \/ DailyRun(r) \/ \E d \in OperatorDays : RunBilling(r, d)
        \/ ProcessOne(r) \/ \E g \in GatewayResults : ChargeCard(r, g)
        \/ CommitCharge(r) \/ CommitChargeFails(r)
        \/ IncrementFailCount(r) \/ ReadFailCount(r) \/ MarkSuspended(r)
        \/ FailureHandlingFails(r)
    \/ Crash \/ NextDay

Spec == Init /\ [][Next]_vars

-----------------------------------------------------------------------------
(* Properties *)

Statuses == {"pending", "active", "failed", "cancelled", "suspended"}

\* The rows and the steps in progress are well formed.
TypeOK ==
    /\ today \in 0..MaxDay /\ ranOn \in -1..MaxDay /\ Cardinality(lost) <= MaxLost
    /\ \A o \in DOMAIN orders :
         orders[o] \in [usr : Members, gate : {"S", "P"}, price : Amounts, sub : 0..Len(subs), window : BOOLEAN,
                        paid : BOOLEAN, net : Amounts \cup {0}, pgRows : SUBSET (1..MaxCharges), month : Nat]
    /\ \A s \in DOMAIN subs :
         subs[s] \in [usr : Members, amount : Amounts, status : Statuses, key : BOOLEAN,
                      billDay : 1..LastBillDay, last : Nat, nextBill : Nat, fails : 0..MaxFails, order : 1..MaxOrders]
    /\ Len(charged) = Len(orders)
    /\ raced \subseteq 0..Len(subs)

\* The approvals the gateway gave, and those that have a PG row.
Approvals == UNION {{<<o, k>> : k \in 1..charged[o]} : o \in DOMAIN orders}
Recorded  == UNION {{<<o, k>> : k \in orders[o].pgRows} : o \in DOMAIN orders}

\* Every approval the gateway gave is a PG row, is about to become one, or
\* was forgotten by a fault (a crash, a failed transaction, an approval whose
\* answer was an error or another amount), and only one of the three; no path
\* without a fault forgets one, not even the loser of two confirmations of the
\* same order, and none is recorded twice.
EveryChargeIsAccounted ==
    /\ Approvals = Recorded \cup Committing \cup lost
    /\ Recorded \cap Committing = {} /\ Recorded \cap lost = {} /\ Committing \cap lost = {}

\* An order is marked paid only on an approval of its price: the ledger never
\* claims money the gateway did not take.
PaidIsCharged ==
    \A o \in DOMAIN orders :
        /\ orders[o].paid => charged[o] >= 1 /\ orders[o].net = orders[o].price
        /\ orders[o].paid <=> orders[o].pgRows # {}

\* The orders of subscription s: its first one and those of the billing job.
OrderOf(o, s) == orders[o].sub = s \/ subs[s].order = o

\* The month that an approval of order o is for: the one it was recorded in, or
\* will be by the step that holds it.
ForMonth(o, m) ==
    IF orders[o].paid THEN orders[o].month = m
    ELSE \/ \E r \in Runs : run[r].pc = "commit" /\ run[r].order = o /\ MonthOf(run[r].day) = m
         \/ /\ \E c \in Confirms : conf[c].pc = "commit" /\ conf[c].order = o
            /\ MonthOf(today) = m

\* The charges of subscription s for month m that no fault made the program forget.
ChargesFor(s, m) ==
    {a \in Approvals \ lost : OrderOf(a[1], s) /\ ForMonth(a[1], m)}

\* The gateway takes a subscriber's money at most once for a month, however often
\* the job runs for the month, but for charges whose outcome a fault made the
\* program forget: those it repeats.  Not claimed of a subscription that two
\* runs listed at once or whose first payment two confirmations tried at once.
BilledOncePerMonth ==
    \A s \in DOMAIN subs \ raced : \A m \in 1..MonthOf(MaxDay) : Cardinality(ChargesFor(s, m)) <= 1

\* A subscription is suspended only after enough failures with no success in
\* between, unless two runs or two first confirmations handled it at the same time.
SuspensionIsEarned ==
    \A s \in DOMAIN subs \ raced :
        subs[s].status = "suspended" => subs[s].fails >= MaxConsecutiveFails

\* The ledger and the gateway tell the same story: no approval is forgotten
\* without a fault and nothing is recorded as paid that was not charged.
ChargesAreAccounted == EveryChargeIsAccounted /\ PaidIsCharged

\* The rows are well formed and the billing job is fair to a subscriber: one
\* charge a month, those forgotten by a fault apart, and suspension only for
\* failures in a row.
BillingIsFair == TypeOK /\ BilledOncePerMonth /\ SuspensionIsEarned
=============================================================================
