----------------------- MODULE RecurringDonationProofs -----------------------
(***************************************************************************)
(* Proofs about RecurringDonation, for any number of members, orders,      *)
(* subscriptions, confirmations, billing runs, days and faults: every      *)
(* approval of the gateway is accounted for, nothing is recorded as paid   *)
(* that was not charged, but for charges that a fault made the program     *)
(* forget a subscriber is charged at most once a month, and he is suspended*)
(* only for failures in a row.  And about DonationSummary: what            *)
(* the public page shows is current, whatever refreshes fail and days pass.*)
(***************************************************************************)
EXTENDS MCRecurringDonation, FiniteSetTheorems, WellFoundedInduction, SequenceTheorems, TLAPS

-----------------------------------------------------------------------------
(* The inductive invariant: the rows and the steps in progress *)

OrderRows ==
    [usr : Members, gate : {"S", "P"}, price : Amounts, sub : Nat, window : BOOLEAN,
     paid : BOOLEAN, net : Amounts \union {0}, pgRows : SUBSET Nat, month : Nat]
SubRows ==
    [usr : Members, amount : Amounts, status : Statuses, key : BOOLEAN, billDay : 1..LastBillDay,
     last : Nat, nextBill : Nat, fails : 0..MaxFails, order : Nat]
ConfStates ==
    [pc : {"approve", "refused", "commit"}, order : Nat, price : Amounts, amount : Amounts \union {0},
     number : Nat, sub : Nat, key : BOOLEAN]
RunStates ==
    [pc : {"next", "charge", "commit", "failure", "count", "suspend"}, day : 0..MaxDay,
     due : SUBSET Nat, order : Nat]

RowType ==
    /\ orders \in Seq(OrderRows) /\ subs \in Seq(SubRows)
    /\ charged \in Seq(0..MaxCharges) /\ Len(charged) = Len(orders) /\ Len(orders) <= MaxOrders
CounterType ==
    /\ today \in 0..MaxDay /\ ranOn \in -1..MaxDay /\ Cardinality(lost) <= MaxLost
    /\ raced \subseteq 0..Len(subs)
ReqType ==
    /\ req = [r \in Requests |-> req[r]]
    /\ \A r \in Requests :
         /\ req[r].pc \in {"order", "sub"} => req[r].usr \in Members /\ req[r].amount \in Amounts
         /\ req[r].pc = "sub" => req[r].order \in Nat
ConfType == conf \in [Confirms -> {IdleConf} \union ConfStates]
RunType ==
    /\ run \in [Runs -> {IdleRun} \union RunStates]
    /\ \A r \in Runs : run[r].pc # "idle" => run[r].due # {} /\ run[r].due \subseteq DOMAIN subs

\* The first order of a subscription is its own, made without a subscription.
FirstOrders ==
    /\ \A s \in DOMAIN subs :
         /\ subs[s].order \in DOMAIN orders /\ orders[subs[s].order].sub = 0
         /\ \A t \in DOMAIN subs : subs[t].order = subs[s].order => t = s
    /\ \A r \in Requests : req[r].pc = "sub" =>
         /\ req[r].order \in DOMAIN orders /\ orders[req[r].order].sub = 0
         /\ \A s \in DOMAIN subs : subs[s].order # req[r].order
         /\ \A q \in Requests : req[q].pc = "sub" /\ req[q].order = req[r].order => q = r

\* An order of the billing job belongs to a subscription, asks for its amount
\* and was never shown to a browser.
BillingOrders ==
    \A o \in DOMAIN orders :
        /\ orders[o].sub \in 0..Len(subs)
        /\ orders[o].sub # 0 => ~orders[o].window /\ orders[o].price = subs[orders[o].sub].amount

-----------------------------------------------------------------------------
(* The inductive invariant: the payments in progress *)

\* A confirmation knows its order and the subscription the order is first of;
\* an approval it is about to record is one the gateway gave for the price.
Confirmations ==
    \A c \in Confirms : conf[c].pc # "idle" =>
        /\ conf[c].order \in DOMAIN orders /\ orders[conf[c].order].window
        /\ conf[c].price = orders[conf[c].order].price
        /\ conf[c].sub # 0 => conf[c].sub \in DOMAIN subs /\ subs[conf[c].sub].order = conf[c].order
        /\ conf[c].pc = "commit" =>
             conf[c].amount = conf[c].price /\ conf[c].number \in 1..charged[conf[c].order]

\* A run charges an order of its own, made for the row it is at.
Charges ==
    \A r \in Runs : run[r].pc \in {"charge", "commit"} =>
        /\ run[r].order \in DOMAIN orders /\ orders[run[r].order].sub = Current(r)
        /\ ~orders[run[r].order].paid
        /\ run[r].pc = "commit" => charged[run[r].order] = 1
        /\ \A q \in Runs : run[q].pc \in {"charge", "commit"} /\ run[q].order = run[r].order => q = r

\* No two confirmations record the same approval.
OneRecorderEach ==
    \A c, d \in Confirms :
        /\ conf[c].pc = "commit" /\ conf[d].pc = "commit"
        /\ conf[c].order = conf[d].order /\ conf[c].number = conf[d].number
        => c = d

PgRowsNumbered == \A o \in DOMAIN orders : orders[o].pgRows \subseteq 1..charged[o]

\* The first payment of a subscription that no two confirmations tried at once:
\* one confirmation while it is unpaid, and at most one approval recorded.  An
\* order whose subscription has no row yet is neither paid nor confirmed.
Confirming(c, o) == conf[c].pc # "idle" /\ conf[c].order = o

PaidByOne(o) ==
    /\ \A c \in Confirms : Confirming(c, o) =>
         /\ ~orders[o].paid
         /\ \A d \in Confirms : Confirming(d, o) => d = c
    /\ \A j, k \in orders[o].pgRows : j = k

FirstPayments ==
    /\ \A s \in DOMAIN subs \ raced : PaidByOne(subs[s].order)
    /\ \A r \in Requests : req[r].pc = "sub" =>
         ~orders[req[r].order].paid /\ \A c \in Confirms : ~Confirming(c, req[r].order)

\* An order of the billing job is charged once.
BilledOnce == \A o \in DOMAIN orders : orders[o].sub # 0 => charged[o] <= 1

-----------------------------------------------------------------------------
(* The inductive invariant: the months of a subscription *)

\* A subscription that was never paid for is neither active nor billed; one
\* that was has its first order paid.
PaidFirst ==
    \A s \in DOMAIN subs :
        IF subs[s].last = 0
        THEN /\ subs[s].status # "active"
             /\ \A o \in DOMAIN orders : orders[o].sub # s
             /\ \A r \in Runs : s \notin Listed(r)
        ELSE orders[subs[s].order].paid

\* An order of subscription s that is paid.
PaysFor(o, s) == orders[o].paid /\ (orders[o].sub = s \/ subs[s].order = o)

\* Payments of a subscription are for different months, none later than the
\* month it was billed for last.
MonthsApart ==
    \A s \in DOMAIN subs \ raced : \A o \in DOMAIN orders : PaysFor(o, s) =>
        /\ subs[s].last # 0 => orders[o].month <= subs[s].last
        /\ \A p \in DOMAIN orders : PaysFor(p, s) /\ orders[p].month = orders[o].month => p = o

\* A row that one run alone has listed is not billed for the run's month and
\* not suspended.
ListedIsDue ==
    \A r \in Runs : \A s \in Listed(r) \ raced :
        /\ subs[s].last < MonthOf(run[r].day) /\ subs[s].status # "suspended"
        /\ \A q \in Runs : s \in Listed(q) => q = r

\* A run suspends a row that has failed often enough.
SuspendsFailing ==
    \A r \in Runs :
        run[r].pc = "suspend" /\ Current(r) \notin raced => subs[Current(r)].fails >= MaxConsecutiveFails

IInv ==
    /\ RowType /\ CounterType /\ ReqType /\ ConfType /\ RunType
    /\ FirstOrders /\ BillingOrders /\ Confirmations /\ Charges /\ OneRecorderEach /\ PgRowsNumbered
    /\ PaidIsCharged /\ EveryChargeIsAccounted /\ FirstPayments /\ BilledOnce
    /\ PaidFirst /\ MonthsApart /\ ListedIsDue /\ SuspendsFailing /\ SuspensionIsEarned

-----------------------------------------------------------------------------
(* The calendar and the least of a set *)

LEMMA MonthIsPositive == ASSUME NEW d \in Nat PROVE MonthOf(d) \in Nat \ {0}
<1>1. d \div DaysPerMonth \in Nat
  BY CalendarAssumption
<1> QED
  BY <1>1 DEF MonthOf

LEMMA BillDayInRange == ASSUME NEW d \in Nat PROVE BillDayOf(d) \in 1..LastBillDay
<1>1. d % DaysPerMonth \in Nat
  BY CalendarAssumption
<1> QED
  BY <1>1, CalendarAssumption DEF BillDayOf

LEMMA NextBillIsADay ==
    ASSUME NEW d \in Nat, NEW billDay \in 1..LastBillDay
    PROVE  ComputeNextBillDate(d, billDay) \in Nat
<1> DEFINE next == d \div DaysPerMonth + 1
<1>1. next \in Nat /\ DaysPerMonth \in Nat /\ billDay \in Nat \ {0}
  BY CalendarAssumption
<1>2. next * DaysPerMonth \in Nat
  <2> HIDE DEF next
  <2> QED
    BY <1>1
<1>3. next * DaysPerMonth + billDay - 1 \in Nat
  <2> DEFINE product == next * DaysPerMonth
  <2>1. product \in Nat
    BY <1>2
  <2> HIDE DEF product
  <2>2. product + billDay - 1 \in Nat
    BY <1>1, <2>1
  <2> QED
    BY <2>2 DEF product
<1> QED
  <2> DEFINE candidate == next * DaysPerMonth + billDay - 1
  <2>1. candidate \in Nat /\ ComputeNextBillDate(d, billDay) = IF candidate > d + 1 THEN candidate ELSE candidate + DaysPerMonth
    BY <1>3 DEF ComputeNextBillDate
  <2> HIDE DEF candidate
  <2> QED
    BY <1>1, <2>1

\* A finite set of numbers that is not empty has a least element: take a
\* smallest subset that has none and one of its elements away.
LEMMA FiniteHasMin ==
    ASSUME NEW S \in SUBSET Int, IsFiniteSet(S), S # {}
    PROVE  Min(S) \in S /\ \A y \in S : Min(S) <= y
<1> DEFINE Least(x, T) == x \in T /\ \A y \in T : x <= y
<1> DEFINE Without == {T \in SUBSET S : T # {} /\ ~\E x \in T : Least(x, T)}
<1>1. Without = {}
  <2>1. SUFFICES ASSUME Without # {} PROVE FALSE
    OBVIOUS
  <2>2. IsWellFoundedOn(StrictSubsetOrdering(S), SUBSET S)
    BY FS_StrictSubsetOrderingWellFounded, FS_FiniteSubsetsOfFinite
  <2>3. PICK T \in Without : \A U \in Without : <<U, T>> \notin StrictSubsetOrdering(S)
    <3> HIDE DEF Without
    <3>1. Without \subseteq SUBSET S
      BY DEF Without
    <3> QED
      BY <2>1, <2>2, <3>1, WFMin
  <2>4. PICK x \in T : TRUE
    OBVIOUS
  <2>5. T \ {x} \notin Without
    BY <2>3, <2>4 DEF StrictSubsetOrdering
  <2>6. CASE T \ {x} = {}
    BY <2>4, <2>6
  <2>7. CASE T \ {x} # {}
    <3>1. PICK z \in T \ {x} : \A y \in T \ {x} : z <= y
      BY <2>5, <2>7
    <3>2. CASE x <= z
      BY <3>1, <3>2, <2>4
    <3>3. CASE z <= x
      BY <3>1, <3>3, <2>4
    <3> QED
      BY <3>1, <3>2, <3>3, <2>4
  <2> QED
    BY <2>6, <2>7
<1>2. \E x \in S : \A y \in S : x <= y
  BY <1>1
<1> QED
  BY <1>2 DEF Min

\* Subscriptions are finitely many.
LEMMA LeastOfSubs ==
    ASSUME RowType, NEW S \in SUBSET (DOMAIN subs), S # {}
    PROVE  Min(S) \in S
<1>1. DOMAIN subs = 1..Len(subs) /\ Len(subs) \in Int /\ 1 \in Int
  BY DEF RowType
<1>2. IsFiniteSet(1..Len(subs))
  BY <1>1, FS_Interval
<1>3. IsFiniteSet(S)
  BY <1>1, <1>2, FS_Subset
<1>4. S \in SUBSET Int
  BY <1>1
<1> QED
  BY <1>3, <1>4, FiniteHasMin

\* A run that is not idle is at a row it listed.
LEMMA CurrentIsListed ==
    ASSUME RowType, RunType, NEW r \in Runs, run[r].pc # "idle"
    PROVE  Current(r) \in run[r].due /\ Current(r) \in DOMAIN subs /\ Current(r) # 0 /\ Current(r) \in Nat
<1>1. run[r].due # {} /\ run[r].due \in SUBSET (DOMAIN subs)
  BY DEF RunType
<1>2. Current(r) \in run[r].due
  BY <1>1, LeastOfSubs DEF Current
<1>3. DOMAIN subs = 1..Len(subs) /\ Len(subs) \in Nat
  BY DEF RowType
<1> QED
  BY <1>1, <1>2, <1>3

\* The subscription of an order, if it is the first order of one.
LEMMA FirstOrderIsFound ==
    ASSUME RowType, NEW o \in DOMAIN orders, GetByOrderSeq(o) # 0
    PROVE  GetByOrderSeq(o) \in DOMAIN subs /\ subs[GetByOrderSeq(o)].order = o
<1> DEFINE mine == {s \in DOMAIN subs : subs[s].order = o}
<1>1. mine \in SUBSET (DOMAIN subs) /\ mine # {}
  BY DEF GetByOrderSeq
<1>2. Min(mine) \in mine
  BY <1>1, LeastOfSubs
<1>3. GetByOrderSeq(o) = Min(mine)
  BY <1>1 DEF GetByOrderSeq
<1> QED
  BY <1>2, <1>3

LEMMA RowOfSub == ASSUME RowType, NEW s \in DOMAIN subs PROVE subs[s] \in SubRows
<1>1. s \in 1..Len(subs) /\ subs \in Seq(SubRows)
  BY DEF RowType
<1> QED
  BY <1>1, ElementOfSeq

LEMMA RowOfOrder == ASSUME RowType, NEW o \in DOMAIN orders PROVE orders[o] \in OrderRows
<1>1. o \in 1..Len(orders) /\ orders \in Seq(OrderRows)
  BY DEF RowType
<1> QED
  BY <1>1, ElementOfSeq

LEMMA CountOfOrder == ASSUME RowType, NEW o \in DOMAIN orders PROVE charged[o] \in 0..MaxCharges /\ charged[o] \in Nat
<1>1. o \in 1..Len(charged) /\ charged \in Seq(0..MaxCharges)
  BY DEF RowType
<1>2. charged[o] \in 0..MaxCharges
  BY <1>1, ElementOfSeq
<1> QED
  BY <1>2, CalendarAssumption

-----------------------------------------------------------------------------
(* What the statements write, row by row *)

\* A new order, unpaid and not charged.
Placed(row) ==
    /\ orders' \in Seq(OrderRows) /\ charged' \in Seq(0..MaxCharges)
    /\ Len(orders') = Len(orders) + 1 /\ Len(charged') = Len(orders') /\ Len(orders') <= MaxOrders
    /\ orders'[Len(orders) + 1] = row /\ charged'[Len(orders) + 1] = 0
    /\ \A o \in DOMAIN orders : orders'[o] = orders[o] /\ charged'[o] = charged[o]

LEMMA OrderIsPlaced ==
    ASSUME RowType, NEW u \in Members, NEW gate \in {"S", "P"}, NEW amount \in Amounts, NEW sub \in Nat,
           NEW window \in BOOLEAN, InsertOrder(u, gate, amount, sub, window)
    PROVE  Placed(NewOrder(u, gate, amount, sub, window))
<1> DEFINE row == NewOrder(u, gate, amount, sub, window)
<1>1. row \in OrderRows
  BY DEF NewOrder, OrderRows
<1>2. 0 \in 0..MaxCharges
  BY CalendarAssumption
<1>3. orders' = Append(orders, row) /\ charged' = Append(charged, 0) /\ Len(orders) < MaxOrders
  BY DEF InsertOrder
<1> HIDE DEF row
<1>4. orders' \in Seq(OrderRows) /\ Len(orders') = Len(orders) + 1 /\ orders'[Len(orders) + 1] = row
      /\ \A o \in 1..Len(orders) : orders'[o] = orders[o]
  BY <1>1, <1>3, AppendProperties DEF RowType
<1>5. charged' \in Seq(0..MaxCharges) /\ Len(charged') = Len(charged) + 1 /\ charged'[Len(charged) + 1] = 0
      /\ \A o \in 1..Len(charged) : charged'[o] = charged[o]
  BY <1>2, <1>3, AppendProperties DEF RowType
<1>6. Len(charged) = Len(orders) /\ DOMAIN orders = 1..Len(orders) /\ Len(orders) \in Nat /\ MaxOrders \in Nat
  BY CalendarAssumption DEF RowType
<1> QED
  BY <1>3, <1>4, <1>5, <1>6 DEF Placed, row

\* A payment is recorded: the approval always, the price and the month once.
PaidOrder(o, number, amount, m) ==
    /\ orders' \in Seq(OrderRows) /\ Len(orders') = Len(orders)
    /\ \A p \in DOMAIN orders : p # o => orders'[p] = orders[p]
    /\ orders'[o].paid /\ orders'[o].pgRows = orders[o].pgRows \union {number}
    /\ orders'[o].sub = orders[o].sub /\ orders'[o].price = orders[o].price
    /\ orders'[o].window = orders[o].window
    /\ orders[o].paid => orders'[o].net = orders[o].net /\ orders'[o].month = orders[o].month
    /\ ~orders[o].paid => orders'[o].net = amount /\ orders'[o].month = m

LEMMA OrderIsPaid ==
    ASSUME RowType, NEW o \in DOMAIN orders, NEW number \in Nat, NEW amount \in Amounts, NEW m \in Nat,
           RecordPayment(o, number, amount, m)
    PROVE  PaidOrder(o, number, amount, m)
<1> DEFINE row == [orders[o] EXCEPT !.pgRows = @ \union {number}, !.net = IF orders[o].paid THEN @ ELSE amount,
                                    !.month = IF orders[o].paid THEN @ ELSE m, !.paid = TRUE]
<1>1. orders[o] \in OrderRows /\ o \in 1..Len(orders)
  BY DEF RowType
<1>2. row \in OrderRows
  BY <1>1 DEF OrderRows
<1>3. orders' = [orders EXCEPT ![o] = row]
  BY DEF RecordPayment
<1>4. /\ row.paid /\ row.pgRows = orders[o].pgRows \union {number}
      /\ row.sub = orders[o].sub /\ row.price = orders[o].price /\ row.window = orders[o].window
      /\ orders[o].paid => row.net = orders[o].net /\ row.month = orders[o].month
      /\ ~orders[o].paid => row.net = amount /\ row.month = m
  BY <1>1 DEF OrderRows
<1> HIDE DEF row
<1>5. orders' \in Seq(OrderRows) /\ Len(orders') = Len(orders)
      /\ \A p \in 1..Len(orders) : orders'[p] = IF p = o THEN row ELSE orders[p]
  BY <1>1, <1>2, <1>3, ExceptSeq DEF RowType
<1>6. DOMAIN orders = 1..Len(orders)
  BY DEF RowType
<1> QED
  BY <1>1, <1>4, <1>5, <1>6 DEF PaidOrder

\* One subscription row changes; its member, amount, bill day and first order
\* never do.
SubWritten(s) ==
    /\ subs' \in Seq(SubRows) /\ Len(subs') = Len(subs)
    /\ \A t \in DOMAIN subs : t # s => subs'[t] = subs[t]
    /\ subs'[s].amount = subs[s].amount /\ subs'[s].order = subs[s].order

LEMMA StatusIsWritten ==
    ASSUME RowType, NEW s, NEW status \in Statuses, UpdateStatus(s, status)
    PROVE  \/ s \notin DOMAIN subs /\ subs' = subs
           \/ /\ s \in DOMAIN subs /\ SubWritten(s) /\ subs'[s].status = status
              /\ subs'[s].last = subs[s].last /\ subs'[s].fails = subs[s].fails
<1>0. DOMAIN subs = 1..Len(subs) /\ subs = [t \in 1..Len(subs) |-> subs[t]]
  BY DEF RowType
<1>1. CASE s \notin DOMAIN subs
  BY <1>0, <1>1 DEF UpdateStatus
<1>2. CASE s \in DOMAIN subs
  <2> DEFINE row == [subs[s] EXCEPT !.status = status]
  <2>1. subs[s] \in SubRows
    BY <1>0, <1>2 DEF RowType
  <2>2. row \in SubRows /\ row.status = status /\ row.last = subs[s].last /\ row.fails = subs[s].fails
        /\ row.amount = subs[s].amount /\ row.order = subs[s].order
    BY <2>1 DEF SubRows
  <2>3. subs' = [subs EXCEPT ![s] = row]
    BY DEF UpdateStatus
  <2> HIDE DEF row
  <2>4. subs' \in Seq(SubRows) /\ Len(subs') = Len(subs)
        /\ \A t \in 1..Len(subs) : subs'[t] = IF t = s THEN row ELSE subs[t]
    BY <1>0, <1>2, <2>2, <2>3, ExceptSeq DEF RowType
  <2> QED
    BY <1>0, <1>2, <2>2, <2>4 DEF SubWritten
<1> QED
  BY <1>1, <1>2

LEMMA SubIsActivated ==
    ASSUME RowType, CounterType, NEW s \in DOMAIN subs, NEW key \in BOOLEAN,
           ActivateAfterFirstPayment(s, key)
    PROVE  SubWritten(s) /\ subs'[s].status = "active" /\ subs'[s].last = MonthOf(today)
<1>0. DOMAIN subs = 1..Len(subs) /\ subs[s] \in SubRows /\ s # 0 /\ today \in Nat
  BY CalendarAssumption DEF RowType, CounterType
<1> DEFINE next == ComputeNextBillDate(today, subs[s].billDay)
<1> DEFINE row == [subs[s] EXCEPT !.status = "active", !.key = key, !.nextBill = next,
                                  !.last = MonthOf(today), !.fails = 0]
<1>1. next \in Nat /\ MonthOf(today) \in Nat /\ 0 \in 0..MaxFails
  <2>1. subs[s].billDay \in 1..LastBillDay
    BY <1>0 DEF SubRows
  <2>2. next \in Nat
    BY <1>0, <2>1, NextBillIsADay
  <2> QED
    BY <1>0, <2>2, MonthIsPositive, CalendarAssumption
<1> HIDE DEF next
<1>2. row \in SubRows /\ row.status = "active" /\ row.last = MonthOf(today)
      /\ row.amount = subs[s].amount /\ row.order = subs[s].order
  BY <1>0, <1>1 DEF SubRows, Statuses
<1>3. subs' = [subs EXCEPT ![s] = row]
  BY <1>0 DEF ActivateAfterFirstPayment, ActivateWithBillingKey, next
<1> HIDE DEF row
<1>4. subs' \in Seq(SubRows) /\ Len(subs') = Len(subs)
      /\ \A t \in 1..Len(subs) : subs'[t] = IF t = s THEN row ELSE subs[t]
  BY <1>0, <1>2, <1>3, ExceptSeq DEF RowType
<1> QED
  BY <1>0, <1>2, <1>4 DEF SubWritten

LEMMA SubIsBilled ==
    ASSUME RowType, NEW s \in DOMAIN subs, NEW d \in Nat, MarkBilled(s, d)
    PROVE  SubWritten(s) /\ subs'[s].status = subs[s].status /\ subs'[s].last = MonthOf(d)
<1>0. DOMAIN subs = 1..Len(subs) /\ subs[s] \in SubRows
  BY DEF RowType
<1> DEFINE next == ComputeNextBillDate(d, subs[s].billDay)
<1> DEFINE row == [subs[s] EXCEPT !.last = MonthOf(d), !.fails = 0, !.nextBill = next]
<1>1. next \in Nat /\ MonthOf(d) \in Nat /\ 0 \in 0..MaxFails
  BY <1>0, NextBillIsADay, MonthIsPositive, CalendarAssumption DEF SubRows
<1> HIDE DEF next
<1>2. row \in SubRows /\ row.status = subs[s].status /\ row.last = MonthOf(d)
      /\ row.amount = subs[s].amount /\ row.order = subs[s].order
  BY <1>0, <1>1 DEF SubRows
<1>3. subs' = [subs EXCEPT ![s] = row]
  BY DEF MarkBilled, next
<1> HIDE DEF row
<1>4. subs' \in Seq(SubRows) /\ Len(subs') = Len(subs)
      /\ \A t \in 1..Len(subs) : subs'[t] = IF t = s THEN row ELSE subs[t]
  BY <1>0, <1>2, <1>3, ExceptSeq DEF RowType
<1> QED
  BY <1>0, <1>2, <1>4 DEF SubWritten

\* The run leaves the row it is at and goes on with the others it listed.
LEMMA RunAdvances ==
    ASSUME RunType, NEW r \in Runs, run[r].pc # "idle", Advance(r)
    PROVE  /\ run' \in [Runs -> {IdleRun} \union RunStates]
           /\ \A q \in Runs : q # r => run'[q] = run[q]
           /\ run'[r] = IdleRun \/ (run'[r].pc = "next" /\ run'[r].day = run[r].day /\ run'[r].due # {}
                                     /\ run'[r].due = run[r].due \ {Current(r)})
<1>1. run[r] \in RunStates /\ run[r].due # {}
  BY DEF RunType, IdleRun
<1> DEFINE left == run[r].due \ {Current(r)}
<1> DEFINE rest == [run[r] EXCEPT !.pc = "next", !.due = left, !.order = 0]
<1>2. rest \in RunStates /\ rest.pc = "next" /\ rest.day = run[r].day /\ rest.due = left
  BY <1>1 DEF RunStates
<1>3. run' = [run EXCEPT ![r] = IF left = {} THEN IdleRun ELSE rest]
  BY DEF Advance
<1> HIDE DEF rest
<1> QED
  BY <1>2, <1>3 DEF RunType

LEMMA ResultsOfTheGateway ==
    ASSUME NEW g \in GatewayResults
    PROVE  /\ g.ok \in BOOLEAN /\ g.took \in BOOLEAN /\ g.key \in BOOLEAN /\ g.amount \in Amounts \union {0}
           /\ g.ok => g.took /\ g.amount \in Amounts
<1>1. CASE g \in {[ok |-> FALSE, took |-> t, amount |-> 0, key |-> FALSE] : t \in BOOLEAN}
  <2>1. PICK t \in BOOLEAN : g = [ok |-> FALSE, took |-> t, amount |-> 0, key |-> FALSE]
    BY <1>1
  <2> QED
    BY <2>1
<1>2. CASE g \in [ok : {TRUE}, took : {TRUE}, amount : Amounts, key : BOOLEAN]
  BY <1>2
<1> QED
  BY <1>1, <1>2 DEF GatewayResults

LEMMA ApprovalIsCounted ==
    ASSUME RowType, NEW o \in DOMAIN orders, NEW g \in GatewayResults, Charge(o, g)
    PROVE  /\ charged' \in Seq(0..MaxCharges) /\ Len(charged') = Len(charged)
           /\ \A p \in DOMAIN orders : p # o => charged'[p] = charged[p]
           /\ charged'[o] = (IF g.took THEN charged[o] + 1 ELSE charged[o])
           /\ charged[o] \in Nat /\ charged'[o] \in Nat
<1>0. DOMAIN orders = 1..Len(charged) /\ DOMAIN charged = 1..Len(charged)
  BY DEF RowType
<1>1. o \in 1..Len(charged) /\ charged[o] \in 0..MaxCharges /\ charged[o] < MaxCharges
  <2>1. o \in 1..Len(charged)
    BY <1>0
  <2>2. charged[o] \in 0..MaxCharges
    BY <2>1, ElementOfSeq DEF RowType
  <2>3. charged[o] < MaxCharges
    BY DEF Charge
  <2> QED
    BY <2>1, <2>2, <2>3
<1>2. CASE g.took
  <2>1. charged[o] + 1 \in 0..MaxCharges
    BY <1>1, CalendarAssumption
  <2>2. charged' = [charged EXCEPT ![o] = charged[o] + 1]
    BY <1>2 DEF Charge
  <2>3. charged' \in Seq(0..MaxCharges) /\ Len(charged') = Len(charged)
        /\ \A p \in 1..Len(charged) : charged'[p] = IF p = o THEN charged[o] + 1 ELSE charged[p]
    BY <1>1, <2>1, <2>2, ExceptSeq DEF RowType
  <2> QED
    BY <1>0, <1>1, <1>2, <2>3, CalendarAssumption
<1>3. CASE ~g.took
  BY <1>0, <1>1, <1>3, CalendarAssumption DEF Charge, RowType
<1> QED
  BY <1>2, <1>3

LEMMA FailIsCounted ==
    ASSUME RowType, NEW s \in DOMAIN subs, subs[s].fails < MaxFails,
           subs' = [subs EXCEPT ![s].fails = @ + 1]
    PROVE  SubWritten(s) /\ subs'[s].status = subs[s].status /\ subs'[s].last = subs[s].last
           /\ subs'[s].fails >= subs[s].fails
<1>0. DOMAIN subs = 1..Len(subs) /\ subs[s] \in SubRows
  BY DEF RowType
<1> DEFINE row == [subs[s] EXCEPT !.fails = @ + 1]
<1>1. subs[s].fails + 1 \in 0..MaxFails
  <2>1. subs[s].fails \in 0..MaxFails
    BY <1>0 DEF SubRows
  <2>2. MaxFails \in Nat
    BY CalendarAssumption
  <2> QED
    BY <2>1, <2>2
<1>2. row \in SubRows /\ row.status = subs[s].status /\ row.last = subs[s].last /\ row.fails >= subs[s].fails
      /\ row.amount = subs[s].amount /\ row.order = subs[s].order
  BY <1>0, <1>1 DEF SubRows
<1>3. subs' = [subs EXCEPT ![s] = row]
  OBVIOUS
<1> HIDE DEF row
<1>4. subs' \in Seq(SubRows) /\ Len(subs') = Len(subs)
      /\ \A t \in 1..Len(subs) : subs'[t] = IF t = s THEN row ELSE subs[t]
  BY <1>0, <1>2, <1>3, ExceptSeq DEF RowType
<1> QED
  BY <1>0, <1>2, <1>4 DEF SubWritten

\* A new subscription, pending and never paid for.
Subscribed(row) ==
    /\ subs' \in Seq(SubRows) /\ Len(subs') = Len(subs) + 1
    /\ subs'[Len(subs) + 1] = row
    /\ \A s \in DOMAIN subs : subs'[s] = subs[s]

LEMMA SubIsInserted ==
    ASSUME RowType, CounterType, ReqType, NEW r \in Requests, InsertSubscription(r)
    PROVE  \E row \in SubRows :
              Subscribed(row) /\ row.status = "pending" /\ row.last = 0 /\ row.order = req[r].order
<1> DEFINE row == [usr |-> req[r].usr, amount |-> req[r].amount, status |-> "pending",
                   key |-> FALSE, billDay |-> BillDayOf(today), last |-> 0,
                   nextBill |-> ComputeNextBillDate(today, BillDayOf(today)),
                   fails |-> 0, order |-> req[r].order]
<1>1. today \in Nat /\ 0 \in 0..MaxFails
  BY CalendarAssumption DEF CounterType
<1>2. BillDayOf(today) \in 1..LastBillDay
  BY <1>1, BillDayInRange
<1>3. ComputeNextBillDate(today, BillDayOf(today)) \in Nat
  BY <1>1, <1>2, NextBillIsADay
<1>4. req[r].usr \in Members /\ req[r].amount \in Amounts /\ req[r].order \in Nat
  BY DEF InsertSubscription, ReqType
<1>5. row \in SubRows
  BY <1>1, <1>2, <1>3, <1>4 DEF SubRows, Statuses
<1>6. subs' = Append(subs, row)
  BY DEF InsertSubscription
<1>7. row.status = "pending" /\ row.last = 0 /\ row.order = req[r].order
  OBVIOUS
<1> HIDE DEF row
<1>8. subs' \in Seq(SubRows) /\ Len(subs') = Len(subs) + 1 /\ subs'[Len(subs) + 1] = row
      /\ \A s \in 1..Len(subs) : subs'[s] = subs[s]
  BY <1>5, <1>6, AppendProperties DEF RowType
<1>9. DOMAIN subs = 1..Len(subs)
  BY DEF RowType
<1> QED
  BY <1>5, <1>7, <1>8, <1>9 DEF Subscribed

-----------------------------------------------------------------------------
(* Rows are only added; what identifies a row never changes *)

OrdersGrow ==
    /\ Len(orders) <= Len(orders')
    /\ \A o \in DOMAIN orders :
         /\ orders'[o].sub = orders[o].sub /\ orders'[o].price = orders[o].price
         /\ orders'[o].window = orders[o].window /\ charged[o] <= charged'[o]
SubsGrow ==
    /\ Len(subs) <= Len(subs')
    /\ \A s \in DOMAIN subs : subs'[s].amount = subs[s].amount /\ subs'[s].order = subs[s].order

LEMMA NextOfRows ==
    ASSUME RowType
    PROVE  /\ UNCHANGED <<orders, charged>> => OrdersGrow
           /\ UNCHANGED subs => SubsGrow
           /\ UNCHANGED <<orders, subs, charged>> => RowType'
           /\ \A s \in DOMAIN subs : SubWritten(s) => SubsGrow
           /\ \A row : Placed(row) => OrdersGrow
           /\ \A row : Subscribed(row) => SubsGrow
<1>1. \A o \in DOMAIN orders : charged[o] \in Nat
  BY CalendarAssumption DEF RowType
<1>2. Len(orders) \in Nat /\ Len(subs) \in Nat
  BY DEF RowType
<1>3. UNCHANGED <<orders, charged>> => OrdersGrow
  BY <1>1, <1>2 DEF OrdersGrow
<1>4. UNCHANGED subs => SubsGrow
  BY <1>2 DEF SubsGrow
<1>5. UNCHANGED <<orders, subs, charged>> => RowType'
  BY DEF RowType
<1>6. ASSUME NEW s \in DOMAIN subs, SubWritten(s) PROVE SubsGrow
  BY <1>2, <1>6 DEF SubWritten, SubsGrow
<1>7. ASSUME NEW row, Placed(row) PROVE OrdersGrow
  BY <1>1, <1>2, <1>7 DEF Placed, OrdersGrow
<1>8. ASSUME NEW row, Subscribed(row) PROVE SubsGrow
  BY <1>2, <1>8 DEF Subscribed, SubsGrow
<1> QED
  BY <1>3, <1>4, <1>5, <1>6, <1>7, <1>8

\* The transaction of a confirmation, row by row.
LEMMA PaymentIsCommitted ==
    ASSUME RowType, CounterType, ConfType, Confirmations, NEW c \in Confirms, CommitPayment(c)
    PROVE  /\ conf[c].order \in DOMAIN orders /\ orders[conf[c].order].window
           /\ PaidOrder(conf[c].order, conf[c].number, conf[c].amount, MonthOf(today))
           /\ conf[c].amount = orders[conf[c].order].price
           /\ conf[c].number \in 1..charged[conf[c].order]
           /\ \/ conf[c].sub = 0 /\ subs' = subs
              \/ /\ conf[c].sub \in DOMAIN subs /\ subs[conf[c].sub].order = conf[c].order
                 /\ SubWritten(conf[c].sub) /\ subs'[conf[c].sub].status = "active"
                 /\ subs'[conf[c].sub].last = MonthOf(today)
<1> USE DEF CommitPayment
<1>1. conf[c] \in ConfStates /\ today \in Nat
  BY CalendarAssumption DEF ConfType, IdleConf, CounterType
<1>2. /\ conf[c].order \in DOMAIN orders /\ orders[conf[c].order].window
      /\ conf[c].amount = orders[conf[c].order].price
      /\ conf[c].number \in 1..charged[conf[c].order]
      /\ conf[c].sub # 0 => conf[c].sub \in DOMAIN subs /\ subs[conf[c].sub].order = conf[c].order
  BY DEF Confirmations
<1>3. conf[c].number \in Nat /\ MonthOf(today) \in Nat /\ conf[c].amount \in Amounts /\ conf[c].key \in BOOLEAN
  <2>1. conf[c].price \in Amounts /\ conf[c].amount = conf[c].price
    BY <1>1 DEF Confirmations, ConfStates
  <2> QED
    BY <1>1, <2>1, MonthIsPositive DEF ConfStates
<1>4. PaidOrder(conf[c].order, conf[c].number, conf[c].amount, MonthOf(today))
  BY <1>2, <1>3, OrderIsPaid
<1>5. CASE conf[c].sub = 0
  BY <1>2, <1>4, <1>5 DEF ActivateAfterFirstPayment
<1>6. CASE conf[c].sub # 0
  BY <1>2, <1>3, <1>4, <1>6, SubIsActivated
<1> QED
  BY <1>5, <1>6

\* The transaction of a charge, row by row.
LEMMA ChargeIsCommitted ==
    ASSUME RowType, RunType, Charges, NEW r \in Runs, CommitCharge(r)
    PROVE  /\ run[r].order \in DOMAIN orders /\ orders[run[r].order].sub = Current(r)
           /\ ~orders[run[r].order].paid /\ charged[run[r].order] = 1
           /\ Current(r) \in DOMAIN subs /\ Current(r) \in run[r].due /\ run[r].day \in Nat
           /\ PaidOrder(run[r].order, 1, subs[Current(r)].amount, MonthOf(run[r].day))
           /\ SubWritten(Current(r)) /\ subs'[Current(r)].status = subs[Current(r)].status
           /\ subs'[Current(r)].last = MonthOf(run[r].day)
<1> USE DEF CommitCharge
<1>1. run[r] \in RunStates
  BY DEF RunType, IdleRun
<1>2. run[r].day \in Nat /\ MonthOf(run[r].day) \in Nat
  <2>1. run[r].day \in 0..MaxDay
    BY <1>1 DEF RunStates
  <2> QED
    BY <2>1, MonthIsPositive, CalendarAssumption
<1>3. /\ run[r].order \in DOMAIN orders /\ orders[run[r].order].sub = Current(r)
      /\ ~orders[run[r].order].paid /\ charged[run[r].order] = 1
  BY DEF Charges
<1>4. Current(r) \in DOMAIN subs /\ Current(r) \in run[r].due
  BY CurrentIsListed
<1>5. subs[Current(r)].amount \in Amounts
  BY <1>4, RowOfSub DEF SubRows
<1>6. PaidOrder(run[r].order, 1, subs[Current(r)].amount, MonthOf(run[r].day))
  BY <1>2, <1>3, <1>5, OrderIsPaid
<1>7. SubWritten(Current(r)) /\ subs'[Current(r)].status = subs[Current(r)].status
      /\ subs'[Current(r)].last = MonthOf(run[r].day)
  BY <1>2, <1>4, SubIsBilled
<1> QED
  BY <1>2, <1>3, <1>4, <1>6, <1>7

Types == RowType /\ CounterType /\ ReqType /\ ConfType /\ RunType

\* Every step leaves well-formed rows, at least those there were.
LEMMA RowStep ==
    ASSUME Types, Confirmations, Charges, [Next]_vars
    PROVE  RowType' /\ OrdersGrow /\ SubsGrow
<1> DEFINE Goal == RowType' /\ OrdersGrow /\ SubsGrow
<1> USE DEF Types
<1>f. UNCHANGED <<orders, subs, charged>> => Goal
  BY NextOfRows
<1>p. ASSUME NEW row, Placed(row), UNCHANGED subs PROVE Goal
  <2>1. RowType'
    BY <1>p DEF Placed, RowType
  <2> QED
    BY <1>p, <2>1, NextOfRows
<1>s. ASSUME NEW s \in DOMAIN subs, SubWritten(s), UNCHANGED <<orders, charged>> PROVE Goal
  <2>1. RowType'
    BY <1>s DEF SubWritten, RowType
  <2> QED
    BY <1>s, <2>1, NextOfRows
<1>c. ASSUME NEW o \in DOMAIN orders, NEW g \in GatewayResults, Charge(o, g), UNCHANGED <<orders, subs>> PROVE Goal
  <2>1. RowType'
    BY <1>c, ApprovalIsCounted DEF RowType
  <2>2. \A p \in DOMAIN orders : charged[p] <= charged'[p]
    <3>1. ASSUME NEW p \in DOMAIN orders, p # o PROVE charged[p] <= charged'[p]
      <4>1. charged[p] \in Nat /\ charged'[p] = charged[p]
        BY <1>c, <3>1, ApprovalIsCounted, CalendarAssumption DEF RowType
      <4> QED
        BY <4>1
    <3>2. charged[o] <= charged'[o]
      BY <1>c, ApprovalIsCounted
    <3> QED
      BY <3>1, <3>2
  <2>3. OrdersGrow
    BY <1>c, <2>2 DEF OrdersGrow, RowType
  <2> QED
    BY <1>c, <2>1, <2>3, NextOfRows
<1>b. ASSUME NEW o \in DOMAIN orders, NEW number, NEW amount, NEW m, PaidOrder(o, number, amount, m),
             UNCHANGED charged,
             UNCHANGED subs \/ \E s \in DOMAIN subs : SubWritten(s)
      PROVE  Goal
  <2>1. RowType'
    BY <1>b DEF PaidOrder, SubWritten, RowType
  <2>2. OrdersGrow
    <3>1. \A p \in DOMAIN orders : charged[p] \in Nat
      BY CalendarAssumption DEF RowType
    <3>2. Len(orders) \in Nat
      BY DEF RowType
    <3> QED
      BY <1>b, <3>1, <3>2 DEF PaidOrder, OrdersGrow
  <2> QED
    BY <1>b, <2>1, <2>2, NextOfRows
<1>1. ASSUME NEW u \in Members, NEW a \in Amounts, NEW p \in {"CARD", "BANK", "HP"}, PostOrder(u, a, p) PROVE Goal
  <2>1. Placed(NewOrder(u, "S", a, 0, p # "BANK"))
    BY <1>1, OrderIsPlaced DEF PostOrder, CreateOrder
  <2> QED
    BY <1>1, <1>p, <2>1 DEF PostOrder
<1>2. ASSUME NEW r \in Requests, SubscriptionOrder(r) PROVE Goal
  <2>1. req[r].usr \in Members /\ req[r].amount \in Amounts
    BY <1>2 DEF SubscriptionOrder, ReqType
  <2>2. Placed(NewOrder(req[r].usr, "P", req[r].amount, 0, "CARD" # "BANK"))
    BY <1>2, <2>1, OrderIsPlaced DEF SubscriptionOrder, CreateOrder
  <2> QED
    BY <1>2, <1>p, <2>2 DEF SubscriptionOrder
<1>3. ASSUME NEW r \in Requests, InsertSubscription(r) PROVE Goal
  <2>1. PICK row \in SubRows : Subscribed(row)
    BY <1>3, SubIsInserted
  <2>2. RowType'
    BY <1>3, <2>1 DEF Subscribed, RowType, InsertSubscription
  <2> QED
    BY <1>3, <2>1, <2>2, NextOfRows DEF InsertSubscription
<1>4. ASSUME NEW r \in Requests, CancelSubscription(r) PROVE Goal
  BY <1>4, <1>f, <1>s, StatusIsWritten DEF CancelSubscription, Statuses
<1>5. ASSUME NEW c \in Confirms, NEW g \in GatewayResults, Approve(c, g) PROVE Goal
  BY <1>5, <1>c DEF Approve, Confirmations
<1>6. ASSUME NEW c \in Confirms, MarkFirstPaymentFailed(c) PROVE Goal
  BY <1>6, <1>f, <1>s, StatusIsWritten DEF MarkFirstPaymentFailed, Statuses
<1>7. ASSUME NEW c \in Confirms, CommitPayment(c) PROVE Goal
  <2>1. charged' = charged
    BY <1>7 DEF CommitPayment
  <2> QED
    BY <1>7, <1>b, <2>1, PaymentIsCommitted
<1>8. ASSUME NEW r \in Runs, ProcessOne(r) PROVE Goal
  <2>1. CASE UNCHANGED <<orders, charged>>
    BY <1>8, <1>f, <2>1 DEF ProcessOne
  <2>2. CASE InsertOrder(subs[Current(r)].usr, "P", subs[Current(r)].amount, Current(r), FALSE)
    <3>1. Current(r) \in DOMAIN subs /\ Current(r) \in Nat
      BY <1>8, CurrentIsListed DEF ProcessOne
    <3>2. subs[Current(r)].usr \in Members /\ subs[Current(r)].amount \in Amounts
      BY <3>1, RowOfSub DEF SubRows
    <3>3. Placed(NewOrder(subs[Current(r)].usr, "P", subs[Current(r)].amount, Current(r), FALSE))
      BY <2>2, <3>1, <3>2, OrderIsPlaced
    <3> QED
      BY <1>8, <1>p, <3>3 DEF ProcessOne
  <2> QED
    BY <1>8, <2>1, <2>2 DEF ProcessOne
<1>9. ASSUME NEW r \in Runs, NEW g \in GatewayResults, ChargeCard(r, g) PROVE Goal
  BY <1>9, <1>c DEF ChargeCard, AutoBilling, Charges
<1>10. ASSUME NEW r \in Runs, CommitCharge(r) PROVE Goal
  <2>1. charged' = charged
    BY <1>10 DEF CommitCharge
  <2> QED
    BY <1>10, <1>b, <2>1, ChargeIsCommitted
<1>11. ASSUME NEW r \in Runs, IncrementFailCount(r) PROVE Goal
  <2>1. Current(r) \in DOMAIN subs
    BY <1>11, CurrentIsListed DEF IncrementFailCount
  <2> QED
    BY <1>11, <1>s, <2>1, FailIsCounted DEF IncrementFailCount
<1>12. ASSUME NEW r \in Runs, MarkSuspended(r) PROVE Goal
  BY <1>12, <1>f, <1>s, StatusIsWritten DEF MarkSuspended, Statuses
<1>13. ASSUME NEW r \in Requests,
              \/ \E u \in Members, a \in Amounts : PostSubscription(r, u, a, "CARD")
              \/ \E u \in Members : DeleteSubscription(r, u)
              \/ RequestFails(r)
       PROVE  Goal
  BY <1>13, <1>f DEF PostSubscription, DeleteSubscription, RequestFails
<1>14. ASSUME NEW c \in Confirms, (\E o \in DOMAIN orders : EasyPayReturn(c, o)) \/ CommitPaymentFails(c) PROVE Goal
  BY <1>14, <1>f DEF EasyPayReturn, CommitPaymentFails
<1>15. ASSUME NEW r \in Runs,
              \/ DailyRun(r)
              \/ \E d \in OperatorDays : RunBilling(r, d)
              \/ CommitChargeFails(r)
              \/ ReadFailCount(r)
              \/ FailureHandlingFails(r)
       PROVE  Goal
  BY <1>15, <1>f DEF DailyRun, RunBilling, RunOnce, CommitChargeFails, ReadFailCount, FailureHandlingFails
<1>16. ASSUME Crash \/ NextDay \/ UNCHANGED vars PROVE Goal
  BY <1>16, <1>f DEF Crash, NextDay, vars
<1> QED
  BY <1>1, <1>2, <1>3, <1>4, <1>5, <1>6, <1>7, <1>8, <1>9, <1>10, <1>11, <1>12, <1>13, <1>14, <1>15, <1>16 DEF Next

-----------------------------------------------------------------------------
(* What a step does to the requests, the confirmations and the runs *)

LEMMA RequestsStep == ASSUME Types, [Next]_vars PROVE ReqType'
<1> USE DEF Types
<1> DEFINE Typed(q) == /\ q.pc \in {"order", "sub"} => q.usr \in Members /\ q.amount \in Amounts
                       /\ q.pc = "sub" => q.order \in Nat
<1>w. ASSUME NEW r \in Requests, NEW q, Typed(q), req' = [req EXCEPT ![r] = q] PROVE ReqType'
  BY <1>w DEF ReqType
<1>i. Typed(IdleReq)
  BY DEF IdleReq
<1>1. ASSUME NEW r \in Requests, NEW u \in Members, NEW a \in Amounts, PostSubscription(r, u, a, "CARD") PROVE ReqType'
  BY <1>1, <1>w DEF PostSubscription
<1>2. ASSUME NEW r \in Requests, SubscriptionOrder(r) PROVE ReqType'
  <2>1. Len(orders) + 1 \in Nat
    BY DEF RowType
  <2>2. Typed([pc |-> "sub", usr |-> req[r].usr, amount |-> req[r].amount, order |-> Len(orders) + 1])
    BY <1>2, <2>1 DEF SubscriptionOrder, ReqType
  <2>3. req' = [req EXCEPT ![r] = [pc |-> "sub", usr |-> req[r].usr, amount |-> req[r].amount, order |-> Len(orders) + 1]]
    BY <1>2 DEF SubscriptionOrder
  <2> QED
    BY <1>w, <2>2, <2>3
<1>3. ASSUME NEW r \in Requests, NEW u \in Members, DeleteSubscription(r, u) PROVE ReqType'
  BY <1>3, <1>w DEF DeleteSubscription
<1>4. ASSUME NEW r \in Requests, InsertSubscription(r) \/ CancelSubscription(r) \/ RequestFails(r) PROVE ReqType'
  BY <1>4, <1>w, <1>i DEF InsertSubscription, CancelSubscription, RequestFails
<1>5. ASSUME Crash PROVE ReqType'
  BY <1>5 DEF Crash, ReqType, IdleReq
<1>6. req' = req => ReqType'
  BY DEF ReqType
<1>7. ASSUME NEW u \in Members, NEW a \in Amounts, NEW p \in {"CARD", "BANK", "HP"}, PostOrder(u, a, p) PROVE ReqType'
  BY <1>6, <1>7 DEF PostOrder
<1>8. ASSUME NEW c \in Confirms,
             \/ \E o \in DOMAIN orders : EasyPayReturn(c, o)
             \/ \E g \in GatewayResults : Approve(c, g)
             \/ MarkFirstPaymentFailed(c) \/ CommitPayment(c) \/ CommitPaymentFails(c)
      PROVE  ReqType'
  BY <1>6, <1>8 DEF EasyPayReturn, Approve, MarkFirstPaymentFailed, CommitPayment, CommitPaymentFails
<1>9. ASSUME NEW r \in Runs,
             \/ DailyRun(r) \/ (\E d \in OperatorDays : RunBilling(r, d))
             \/ ProcessOne(r) \/ (\E g \in GatewayResults : ChargeCard(r, g))
             \/ CommitCharge(r) \/ CommitChargeFails(r)
             \/ IncrementFailCount(r) \/ ReadFailCount(r) \/ MarkSuspended(r)
             \/ FailureHandlingFails(r)
      PROVE  ReqType'
  BY <1>6, <1>9 DEF DailyRun, RunBilling, RunOnce, ProcessOne, ChargeCard, CommitCharge, CommitChargeFails,
                    IncrementFailCount, ReadFailCount, MarkSuspended, FailureHandlingFails
<1>10. ASSUME NextDay \/ UNCHANGED vars PROVE ReqType'
  BY <1>6, <1>10 DEF NextDay, vars
<1> QED
  BY <1>1, <1>2, <1>3, <1>4, <1>5, <1>7, <1>8, <1>9, <1>10 DEF Next

\* A confirmation that begins, and one the gateway has answered.
Begun(c, o) ==
    /\ EasyPayReturn(c, o)
    /\ conf'[c] = [pc |-> "approve", order |-> o, price |-> orders[o].price, amount |-> 0, number |-> 0,
                   sub |-> LookupPendingByOrder(o), key |-> FALSE]

Answered(c, g) ==
    /\ Approve(c, g) /\ conf[c] \in ConfStates
    /\ \/ conf'[c] = IdleConf
       \/ /\ conf'[c].pc = "refused" /\ conf'[c].order = conf[c].order /\ conf'[c].price = conf[c].price
          /\ conf'[c].sub = conf[c].sub
       \/ /\ g.ok /\ g.amount = conf[c].price
          /\ conf'[c].pc = "commit" /\ conf'[c].order = conf[c].order /\ conf'[c].price = conf[c].price
          /\ conf'[c].sub = conf[c].sub /\ conf'[c].amount = g.amount
          /\ conf'[c].number = charged[conf[c].order] + 1

LEMMA LookupIsANumber == ASSUME RowType, NEW o \in DOMAIN orders PROVE LookupPendingByOrder(o) \in Nat
<1>1. GetByOrderSeq(o) # 0 => GetByOrderSeq(o) \in 1..Len(subs)
  BY FirstOrderIsFound DEF RowType
<1> QED
  BY <1>1 DEF LookupPendingByOrder, RowType

LEMMA Begins ==
    ASSUME RowType, ConfType, NEW c \in Confirms, NEW o \in DOMAIN orders, EasyPayReturn(c, o)
    PROVE  Begun(c, o) /\ ConfType' /\ \A d \in Confirms : d # c => conf'[d] = conf[d]
<1> DEFINE q == [pc |-> "approve", order |-> o, price |-> orders[o].price, amount |-> 0, number |-> 0,
                 sub |-> LookupPendingByOrder(o), key |-> FALSE]
<1>1. q \in ConfStates
  <2>1. orders[o].price \in Amounts /\ o \in Nat
    BY RowOfOrder DEF OrderRows, RowType
  <2> QED
    BY <2>1, LookupIsANumber DEF ConfStates
<1>2. conf' = [conf EXCEPT ![c] = q]
  BY DEF EasyPayReturn, ConfirmPayment
<1>3. Begun(c, o)
  BY <1>2 DEF Begun, ConfType
<1> HIDE DEF q
<1> QED
  BY <1>1, <1>2, <1>3 DEF ConfType

LEMMA Answers ==
    ASSUME RowType, ConfType, Confirmations, NEW c \in Confirms, NEW g \in GatewayResults, Approve(c, g)
    PROVE  Answered(c, g) /\ ConfType' /\ \A d \in Confirms : d # c => conf'[d] = conf[d]
<1>0. conf[c] \in ConfStates /\ conf[c].order \in DOMAIN orders
  BY DEF Approve, ConfType, IdleConf, Confirmations
<1>1. charged[conf[c].order] \in Nat
  BY <1>0, CountOfOrder
<1> DEFINE n == charged[conf[c].order] + 1
<1> DEFINE accepted == [conf[c] EXCEPT !.pc = "commit", !.amount = g.amount, !.key = g.key, !.number = n]
<1> DEFINE refused == [conf[c] EXCEPT !.pc = "refused"]
<1>2. /\ accepted \in ConfStates /\ accepted.pc = "commit" /\ accepted.order = conf[c].order
      /\ accepted.price = conf[c].price /\ accepted.sub = conf[c].sub /\ accepted.amount = g.amount
      /\ accepted.number = n
  <2>1. n \in Nat
    BY <1>1
  <2> HIDE DEF n
  <2> QED
    BY <1>0, <2>1, ResultsOfTheGateway DEF ConfStates
<1>3. /\ refused \in ConfStates /\ refused.pc = "refused" /\ refused.order = conf[c].order
      /\ refused.price = conf[c].price /\ refused.sub = conf[c].sub
  BY <1>0 DEF ConfStates
<1>4. conf' = [conf EXCEPT ![c] = CASE g.ok /\ g.amount = conf[c].price -> accepted
                                    [] ~g.ok /\ conf[c].sub # 0 -> refused
                                    [] OTHER -> IdleConf]
  BY DEF Approve
<1> HIDE DEF accepted, refused
<1>5. \/ g.ok /\ g.amount = conf[c].price /\ conf' = [conf EXCEPT ![c] = accepted]
      \/ conf' = [conf EXCEPT ![c] = refused]
      \/ conf' = [conf EXCEPT ![c] = IdleConf]
  BY <1>4
<1>6. ConfType' /\ \A d \in Confirms : d # c => conf'[d] = conf[d]
  BY <1>2, <1>3, <1>5 DEF ConfType
<1> QED
  BY <1>0, <1>2, <1>3, <1>5, <1>6 DEF Answered, ConfType

LEMMA ConfirmationsMove ==
    ASSUME Types, Confirmations, [Next]_vars
    PROVE  /\ ConfType'
           /\ \A c \in Confirms :
                \/ conf'[c] = conf[c]
                \/ conf'[c] = IdleConf
                \/ \E o \in DOMAIN orders : Begun(c, o)
                \/ \E g \in GatewayResults : Answered(c, g)
           /\ \A c, d \in Confirms : c # d => conf'[c] = conf[c] \/ conf'[d] = conf[d] \/ conf'[c] = IdleConf
<1> USE DEF Types
<1> DEFINE Moves(c) == \/ conf'[c] = conf[c]
                       \/ conf'[c] = IdleConf
                       \/ \E o \in DOMAIN orders : Begun(c, o)
                       \/ \E g \in GatewayResults : Answered(c, g)
<1> DEFINE Alone == \A c, d \in Confirms : c # d => conf'[c] = conf[c] \/ conf'[d] = conf[d] \/ conf'[c] = IdleConf
<1> DEFINE Goal == ConfType' /\ Alone /\ \A c \in Confirms : Moves(c)
<1>u. conf' = conf => Goal
  BY DEF ConfType
<1>e. ASSUME NEW c \in Confirms, conf' = [conf EXCEPT ![c] = IdleConf] PROVE Goal
  BY <1>e DEF ConfType
<1>1. ASSUME NEW c \in Confirms, NEW o \in DOMAIN orders, EasyPayReturn(c, o) PROVE Goal
  BY <1>1, Begins
<1>2. ASSUME NEW c \in Confirms, NEW g \in GatewayResults, Approve(c, g) PROVE Goal
  BY <1>2, Answers
<1>3. ASSUME NEW c \in Confirms, MarkFirstPaymentFailed(c) \/ CommitPayment(c) \/ CommitPaymentFails(c) PROVE Goal
  BY <1>3, <1>e DEF MarkFirstPaymentFailed, CommitPayment, CommitPaymentFails
<1>4. ASSUME Crash PROVE Goal
  BY <1>4 DEF Crash, ConfType
<1>5. ASSUME NEW u \in Members, NEW a \in Amounts, NEW p \in {"CARD", "BANK", "HP"}, PostOrder(u, a, p) PROVE Goal
  BY <1>u, <1>5 DEF PostOrder
<1>6. ASSUME NEW r \in Requests,
             \/ \E u \in Members, a \in Amounts : PostSubscription(r, u, a, "CARD")
             \/ SubscriptionOrder(r) \/ InsertSubscription(r)
             \/ \E u \in Members : DeleteSubscription(r, u)
             \/ CancelSubscription(r) \/ RequestFails(r)
      PROVE  Goal
  BY <1>u, <1>6 DEF PostSubscription, SubscriptionOrder, InsertSubscription, DeleteSubscription,
                    CancelSubscription, RequestFails
<1>7. ASSUME NEW r \in Runs,
             \/ DailyRun(r) \/ (\E d \in OperatorDays : RunBilling(r, d))
             \/ ProcessOne(r) \/ (\E g \in GatewayResults : ChargeCard(r, g))
             \/ CommitCharge(r) \/ CommitChargeFails(r)
             \/ IncrementFailCount(r) \/ ReadFailCount(r) \/ MarkSuspended(r)
             \/ FailureHandlingFails(r)
      PROVE  Goal
  BY <1>u, <1>7 DEF DailyRun, RunBilling, RunOnce, ProcessOne, ChargeCard, CommitCharge, CommitChargeFails,
                    IncrementFailCount, ReadFailCount, MarkSuspended, FailureHandlingFails
<1>8. ASSUME NextDay \/ UNCHANGED vars PROVE Goal
  BY <1>u, <1>8 DEF NextDay, vars
<1> QED
  BY <1>1, <1>2, <1>3, <1>4, <1>5, <1>6, <1>7, <1>8 DEF Next

\* A run that begins with the rows that are due.
Listing(r, d) ==
    /\ RunOnce(r, d) /\ run'[r].pc = "next" /\ run'[r].day = d
    /\ run'[r].due = ListDueForBilling(BillDayOf(d), MonthOf(d))

\* A run that has left the row it was at.
NextRow(r) ==
    /\ run[r].pc # "idle" /\ run'[r].pc = "next" /\ run'[r].day = run[r].day
    /\ run'[r].due = run[r].due \ {Current(r)}

\* A run that has done a statement for the row it is at.
SameRow(r) ==
    /\ run[r].pc # "idle" /\ run'[r].day = run[r].day /\ run'[r].due = run[r].due
    /\ \/ /\ run'[r].pc = "charge" /\ run'[r].order = Len(orders) + 1
          /\ Placed(NewOrder(subs[Current(r)].usr, "P", subs[Current(r)].amount, Current(r), FALSE))
       \/ /\ run'[r].pc = "commit" /\ run[r].pc = "charge" /\ run'[r].order = run[r].order
          /\ \E g \in GatewayResults : ChargeCard(r, g) /\ g.ok /\ g.amount = subs[Current(r)].amount
       \/ run'[r].pc \in {"failure", "count"}
       \/ run'[r].pc = "suspend" /\ subs[Current(r)].fails >= MaxConsecutiveFails

RunMoves(r) ==
    \/ run'[r] = run[r]
    \/ run'[r] = IdleRun
    \/ \E d \in 0..MaxDay : Listing(r, d)
    \/ NextRow(r)
    \/ SameRow(r)

\* A step of run r changes no other run and moves r on.
Stepped(r) ==
    /\ run' \in [Runs -> {IdleRun} \union RunStates] /\ \A q \in Runs : q # r => run'[q] = run[q]
    /\ RunMoves(r)
    /\ run'[r].pc # "idle" => run'[r].due # {} /\ run'[r].due \subseteq DOMAIN subs

LEMMA Lists ==
    ASSUME RowType, RunType, NEW r \in Runs, NEW d \in 0..MaxDay, RunOnce(r, d)
    PROVE  Stepped(r)
<1> DEFINE due == ListDueForBilling(BillDayOf(d), MonthOf(d))
<1> DEFINE q == [pc |-> "next", day |-> d, due |-> due, order |-> 0]
<1>1. due # {} /\ run' = [run EXCEPT ![r] = q]
  BY DEF RunOnce
<1>2. due \subseteq DOMAIN subs /\ DOMAIN subs \subseteq Nat
  BY DEF ListDueForBilling, RowType
<1>3. q \in RunStates
  <2> HIDE DEF due
  <2> QED
    BY <1>2 DEF RunStates
<1>4. Listing(r, d)
  BY <1>1 DEF Listing, RunType
<1>5. q.due = due
  OBVIOUS
<1> HIDE DEF q, due
<1> QED
  BY <1>1, <1>2, <1>3, <1>4, <1>5 DEF Stepped, RunMoves, RunType

LEMMA Advances ==
    ASSUME RunType, NEW r \in Runs, run[r].pc # "idle", Advance(r)
    PROVE  Stepped(r)
<1>1. run[r].due \subseteq DOMAIN subs
  BY DEF RunType
<1>2. CASE run'[r] = IdleRun
  BY <1>2, RunAdvances DEF Stepped, RunMoves, IdleRun
<1>3. CASE run'[r] # IdleRun
  <2>1. NextRow(r)
    BY <1>3, RunAdvances DEF NextRow
  <2> QED
    BY <1>1, <1>3, <2>1, RunAdvances DEF Stepped, RunMoves
<1> QED
  BY <1>2, <1>3

\* A statement that only changes the place in the row and the order.
LEMMA Writes ==
    ASSUME RunType, NEW r \in Runs, run[r].pc # "idle",
           NEW pc \in {"charge", "commit", "failure", "count", "suspend"}, NEW order \in Nat,
           run' = [run EXCEPT ![r] = [run[r] EXCEPT !.pc = pc, !.order = order]]
    PROVE  /\ run' \in [Runs -> {IdleRun} \union RunStates] /\ \A q \in Runs : q # r => run'[q] = run[q]
           /\ run'[r].pc = pc /\ run'[r].order = order /\ run'[r].day = run[r].day /\ run'[r].due = run[r].due
           /\ run'[r].due # {} /\ run'[r].due \subseteq DOMAIN subs
<1>1. run[r] \in RunStates /\ run[r].due # {} /\ run[r].due \subseteq DOMAIN subs
  BY DEF RunType, IdleRun
<1> DEFINE q == [run[r] EXCEPT !.pc = pc, !.order = order]
<1>2. q \in RunStates /\ q.pc = pc /\ q.order = order /\ q.day = run[r].day /\ q.due = run[r].due
  BY <1>1 DEF RunStates
<1> HIDE DEF q
<1> QED
  BY <1>1, <1>2 DEF RunType, q

LEMMA Moves ==
    ASSUME RowType, RunType, NEW r \in Runs, run[r].pc # "idle",
           NEW pc \in {"charge", "commit", "failure", "count", "suspend"},
           run' = [run EXCEPT ![r].pc = pc]
    PROVE  /\ run' \in [Runs -> {IdleRun} \union RunStates] /\ \A q \in Runs : q # r => run'[q] = run[q]
           /\ run'[r].pc = pc /\ run'[r].order = run[r].order /\ run'[r].day = run[r].day
           /\ run'[r].due = run[r].due
           /\ run'[r].due # {} /\ run'[r].due \subseteq DOMAIN subs
<1>1. run[r] \in RunStates
  BY DEF RunType, IdleRun
<1> DEFINE q == [run[r] EXCEPT !.pc = pc]
<1>2. /\ q \in RunStates /\ q.pc = pc /\ q.order = run[r].order /\ q.day = run[r].day /\ q.due = run[r].due
      /\ run[r].due # {} /\ run[r].due \subseteq DOMAIN subs
  BY <1>1 DEF RunStates, RunType
<1> HIDE DEF q
<1> QED
  BY <1>1, <1>2 DEF RunType, q

LEMMA RunsMove ==
    ASSUME Types, Confirmations, Charges, [Next]_vars
    PROVE  /\ RunType'
           /\ \A r \in Runs : RunMoves(r)
           /\ \A q, r \in Runs : q # r => run'[q] = run[q] \/ run'[r] = run[r] \/ run'[q] = IdleRun
<1> USE DEF Types
<1> DEFINE Typed == /\ run' \in [Runs -> {IdleRun} \union RunStates]
                    /\ \A r \in Runs : run'[r].pc # "idle" => run'[r].due # {} /\ run'[r].due \subseteq DOMAIN subs
<1> DEFINE Alone == \A q, r \in Runs : q # r => run'[q] = run[q] \/ run'[r] = run[r] \/ run'[q] = IdleRun
<1> DEFINE Goal == Typed /\ Alone /\ \A r \in Runs : RunMoves(r)
<1>u. run' = run => Goal
  BY DEF RunType, RunMoves
<1>s. \A r \in Runs : Stepped(r) => Goal
  BY DEF RunType, RunMoves, Stepped
<1>1. ASSUME NEW r \in Runs, DailyRun(r) \/ (\E d \in OperatorDays : RunBilling(r, d)) PROVE Goal
  <2>1. today \in 0..MaxDay /\ OperatorDays \subseteq 0..MaxDay
    BY CalendarAssumption DEF CounterType
  <2> QED
    BY <1>1, <1>s, <2>1, Lists DEF DailyRun, RunBilling
<1>2. ASSUME NEW r \in Runs, ProcessOne(r) PROVE Goal
  <2>1. CASE Advance(r)
    BY <1>2, <1>s, <2>1, Advances DEF ProcessOne
  <2>2. CASE /\ InsertOrder(subs[Current(r)].usr, "P", subs[Current(r)].amount, Current(r), FALSE)
             /\ run' = [run EXCEPT ![r].pc = "charge", ![r].order = Len(orders) + 1]
    <3>1. Current(r) \in DOMAIN subs /\ Current(r) \in Nat /\ Len(orders) + 1 \in Nat
      BY <1>2, CurrentIsListed DEF ProcessOne, RowType
    <3>2. subs[Current(r)].usr \in Members /\ subs[Current(r)].amount \in Amounts
      BY <3>1, RowOfSub DEF SubRows
    <3>3. Placed(NewOrder(subs[Current(r)].usr, "P", subs[Current(r)].amount, Current(r), FALSE))
      BY <2>2, <3>1, <3>2, OrderIsPlaced
    <3>4. run' = [run EXCEPT ![r] = [run[r] EXCEPT !.pc = "charge", !.order = Len(orders) + 1]]
      BY <2>2
    <3>5. run[r].pc # "idle"
      BY <1>2 DEF ProcessOne
    <3>6. Stepped(r)
      BY <3>1, <3>3, <3>4, <3>5, Writes DEF Stepped, RunMoves, SameRow
    <3> QED
      BY <1>s, <3>6
  <2> QED
    BY <1>2, <2>1, <2>2 DEF ProcessOne
<1>3. ASSUME NEW r \in Runs, NEW g \in GatewayResults, ChargeCard(r, g) PROVE Goal
  <2>1. run[r].pc = "charge"
    BY <1>3 DEF ChargeCard
  <2>2. CASE g.ok /\ g.amount = subs[Current(r)].amount
    <3>1. run' = [run EXCEPT ![r].pc = "commit"]
      BY <1>3, <2>2 DEF ChargeCard
    <3> QED
      BY <1>3, <1>s, <2>1, <2>2, <3>1, Moves DEF Stepped, RunMoves, SameRow
  <2>3. CASE ~(g.ok /\ g.amount = subs[Current(r)].amount)
    <3>1. run' = [run EXCEPT ![r].pc = "failure"]
      BY <1>3, <2>3 DEF ChargeCard
    <3> QED
      BY <1>s, <2>1, <3>1, Moves DEF Stepped, RunMoves, SameRow
  <2> QED
    BY <2>2, <2>3
<1>4. ASSUME NEW r \in Runs, CommitCharge(r) \/ MarkSuspended(r) \/ FailureHandlingFails(r) PROVE Goal
  BY <1>4, <1>s, Advances DEF CommitCharge, MarkSuspended, FailureHandlingFails
<1>5. ASSUME NEW r \in Runs, CommitChargeFails(r) PROVE Goal
  BY <1>5, <1>s, Moves DEF CommitChargeFails, Stepped, RunMoves, SameRow
<1>6. ASSUME NEW r \in Runs, IncrementFailCount(r) PROVE Goal
  BY <1>6, <1>s, Moves DEF IncrementFailCount, Stepped, RunMoves, SameRow
<1>7. ASSUME NEW r \in Runs, ReadFailCount(r) PROVE Goal
  <2>1. CASE subs[Current(r)].fails >= MaxConsecutiveFails
    BY <1>7, <1>s, <2>1, Moves DEF ReadFailCount, Stepped, RunMoves, SameRow
  <2>2. CASE ~(subs[Current(r)].fails >= MaxConsecutiveFails)
    BY <1>7, <1>s, <2>2, Advances DEF ReadFailCount
  <2> QED
    BY <2>1, <2>2
<1>8. ASSUME Crash PROVE Goal
  BY <1>8 DEF Crash, IdleRun, RunMoves
<1>9. ASSUME NEW u \in Members, NEW a \in Amounts, NEW p \in {"CARD", "BANK", "HP"}, PostOrder(u, a, p) PROVE Goal
  BY <1>u, <1>9 DEF PostOrder
<1>10. ASSUME NEW r \in Requests,
              \/ \E u \in Members, a \in Amounts : PostSubscription(r, u, a, "CARD")
              \/ SubscriptionOrder(r) \/ InsertSubscription(r)
              \/ \E u \in Members : DeleteSubscription(r, u)
              \/ CancelSubscription(r) \/ RequestFails(r)
       PROVE  Goal
  BY <1>u, <1>10 DEF PostSubscription, SubscriptionOrder, InsertSubscription, DeleteSubscription,
                     CancelSubscription, RequestFails
<1>11. ASSUME NEW c \in Confirms,
              \/ \E o \in DOMAIN orders : EasyPayReturn(c, o)
              \/ \E g \in GatewayResults : Approve(c, g)
              \/ MarkFirstPaymentFailed(c) \/ CommitPayment(c) \/ CommitPaymentFails(c)
       PROVE  Goal
  BY <1>u, <1>11 DEF EasyPayReturn, Approve, MarkFirstPaymentFailed, CommitPayment, CommitPaymentFails
<1>12. ASSUME NextDay \/ UNCHANGED vars PROVE Goal
  BY <1>u, <1>12 DEF NextDay, vars
<1>13. Goal
  BY <1>1, <1>2, <1>3, <1>4, <1>5, <1>6, <1>7, <1>8, <1>9, <1>10, <1>11, <1>12 DEF Next
<1>14. DOMAIN subs \subseteq DOMAIN subs'
  <2>1. RowType' /\ Len(subs) <= Len(subs')
    BY RowStep DEF SubsGrow
  <2> QED
    BY <2>1 DEF RowType
<1> QED
  BY <1>13, <1>14 DEF RunType

-----------------------------------------------------------------------------
(* What a step does to the rows *)

\* A new order of a member or of a new subscription.
OrderAsked ==
    /\ \E row \in OrderRows : Placed(row) /\ row.sub = 0 /\ ~row.paid /\ row.pgRows = {}
    /\ UNCHANGED <<subs, conf, run, lost, raced>>

\* A new order of a billing run.
OrderBilled(r) ==
    /\ run[r].pc = "next" /\ Current(r) \in run[r].due /\ Current(r) \in DOMAIN subs
    /\ run'[r].due = run[r].due
    /\ \E row \in OrderRows : Placed(row) /\ row.sub = Current(r) /\ ~row.paid /\ row.pgRows = {}
                               /\ ~row.window /\ row.price = subs[Current(r)].amount
    /\ UNCHANGED <<subs, conf, lost, raced>> /\ \A q \in Runs : q # r => run'[q] = run[q]

\* A subscription is cancelled or its first payment failed.
SubEnded(s) ==
    /\ SubWritten(s) /\ subs'[s].status \in {"cancelled", "failed"}
    /\ subs'[s].last = subs[s].last /\ subs'[s].fails = subs[s].fails
    /\ UNCHANGED <<orders, charged, run, lost, raced>>

\* A failure of the row at which run r is.
SubFails(r) ==
    /\ run[r].pc = "failure" /\ Current(r) \in run[r].due /\ Current(r) \in DOMAIN subs
    /\ SubWritten(Current(r)) /\ subs'[Current(r)].fails >= subs[Current(r)].fails
    /\ subs'[Current(r)].status = subs[Current(r)].status /\ subs'[Current(r)].last = subs[Current(r)].last
    /\ UNCHANGED <<orders, charged, conf, lost, raced>>

\* Run r suspends the row it is at.
SubSuspended(r) ==
    /\ run[r].pc = "suspend" /\ Current(r) \in run[r].due /\ Current(r) \in DOMAIN subs
    /\ SubWritten(Current(r)) /\ subs'[Current(r)].fails = subs[Current(r)].fails
    /\ subs'[Current(r)].status = "suspended" /\ subs'[Current(r)].last = subs[Current(r)].last
    /\ UNCHANGED <<orders, charged, conf, lost, raced>>
    /\ run'[r] = IdleRun \/ NextRow(r)

RowsMove ==
    \/ UNCHANGED <<orders, charged, subs>>
    \/ OrderAsked
    \/ \E r \in Runs : OrderBilled(r)
    \/ \E r \in Requests : InsertSubscription(r)
    \/ \E s \in DOMAIN subs : SubEnded(s)
    \/ \E c \in Confirms : CommitPayment(c)
    \/ \E r \in Runs : CommitCharge(r) \/ SubFails(r) \/ SubSuspended(r)
    \/ \E c \in Confirms, g \in GatewayResults : Approve(c, g)
    \/ \E r \in Runs, g \in GatewayResults : ChargeCard(r, g)

LEMMA NewOrderIsARow ==
    ASSUME RowType, NEW u \in Members, NEW gate \in {"S", "P"}, NEW amount \in Amounts, NEW sub \in Nat,
           NEW window \in BOOLEAN
    PROVE  LET row == NewOrder(u, gate, amount, sub, window)
           IN /\ row \in OrderRows /\ row.sub = sub /\ ~row.paid /\ row.pgRows = {} /\ row.window = window
              /\ row.price = amount
BY DEF NewOrder, OrderRows

LEMMA EveryStepMovesRows == ASSUME Types, [Next]_vars PROVE RowsMove
<1> USE DEF Types
<1>u. UNCHANGED <<orders, charged, subs>> => RowsMove
  BY DEF RowsMove
<1>1. ASSUME NEW u \in Members, NEW a \in Amounts, NEW p \in {"CARD", "BANK", "HP"}, PostOrder(u, a, p) PROVE RowsMove
  <2>1. Placed(NewOrder(u, "S", a, 0, p # "BANK"))
    BY <1>1, OrderIsPlaced DEF PostOrder, CreateOrder
  <2>2. OrderAsked
    BY <1>1, <2>1, NewOrderIsARow DEF PostOrder, OrderAsked
  <2> QED
    BY <2>2 DEF RowsMove
<1>2. ASSUME NEW r \in Requests, SubscriptionOrder(r) PROVE RowsMove
  <2>1. req[r].usr \in Members /\ req[r].amount \in Amounts
    BY <1>2 DEF SubscriptionOrder, ReqType
  <2>2. Placed(NewOrder(req[r].usr, "P", req[r].amount, 0, "CARD" # "BANK"))
    BY <1>2, <2>1, OrderIsPlaced DEF SubscriptionOrder, CreateOrder
  <2>3. OrderAsked
    BY ZenonT(60), <1>2, <2>1, <2>2, NewOrderIsARow DEF SubscriptionOrder, OrderAsked
  <2> QED
    BY <2>3 DEF RowsMove
<1>3. ASSUME NEW r \in Requests, CancelSubscription(r) PROVE RowsMove
  <2>1. subs' = subs \/ \E s \in DOMAIN subs : SubEnded(s)
    BY <1>3, StatusIsWritten DEF CancelSubscription, Statuses, SubEnded
  <2> QED
    BY <1>3, <2>1 DEF RowsMove, CancelSubscription
<1>4. ASSUME NEW c \in Confirms, MarkFirstPaymentFailed(c) PROVE RowsMove
  <2>1. subs' = subs \/ \E s \in DOMAIN subs : SubEnded(s)
    BY <1>4, StatusIsWritten DEF MarkFirstPaymentFailed, Statuses, SubEnded
  <2> QED
    BY <1>4, <2>1 DEF RowsMove, MarkFirstPaymentFailed
<1>5. ASSUME NEW r \in Runs, ProcessOne(r) PROVE RowsMove
  <2>1. CASE UNCHANGED <<orders, charged>>
    BY <1>5, <1>u, <2>1 DEF ProcessOne
  <2>2. CASE /\ InsertOrder(subs[Current(r)].usr, "P", subs[Current(r)].amount, Current(r), FALSE)
             /\ run' = [run EXCEPT ![r].pc = "charge", ![r].order = Len(orders) + 1]
    <3>1. Current(r) \in DOMAIN subs /\ Current(r) \in Nat /\ Current(r) \in run[r].due /\ Len(orders) + 1 \in Nat
      BY <1>5, CurrentIsListed DEF ProcessOne, RowType
    <3>2. subs[Current(r)].usr \in Members /\ subs[Current(r)].amount \in Amounts
      BY <3>1, RowOfSub DEF SubRows
    <3>3. Placed(NewOrder(subs[Current(r)].usr, "P", subs[Current(r)].amount, Current(r), FALSE))
      BY <2>2, <3>1, <3>2, OrderIsPlaced
    <3>4. run' = [run EXCEPT ![r] = [run[r] EXCEPT !.pc = "charge", !.order = Len(orders) + 1]]
      BY <2>2
    <3>5. run[r].pc = "next"
      BY <1>5 DEF ProcessOne
    <3>6. run'[r].due = run[r].due /\ \A q \in Runs : q # r => run'[q] = run[q]
      BY <3>1, <3>4, <3>5, Writes
    <3> DEFINE row == NewOrder(subs[Current(r)].usr, "P", subs[Current(r)].amount, Current(r), FALSE)
    <3>7. row \in OrderRows /\ row.sub = Current(r) /\ ~row.paid /\ row.pgRows = {} /\ ~row.window
          /\ row.price = subs[Current(r)].amount
      BY <3>1, <3>2 DEF NewOrder, OrderRows
    <3>8. Placed(row)
      BY <3>3
    <3> HIDE DEF row
    <3>9. OrderBilled(r)
      BY <1>5, <3>1, <3>5, <3>6, <3>7, <3>8 DEF ProcessOne, OrderBilled
    <3> QED
      BY <3>9 DEF RowsMove
  <2> QED
    BY <1>5, <2>1, <2>2 DEF ProcessOne
<1>6. ASSUME NEW r \in Runs, IncrementFailCount(r) PROVE RowsMove
  <2>1. Current(r) \in DOMAIN subs /\ Current(r) \in run[r].due
    BY <1>6, CurrentIsListed DEF IncrementFailCount
  <2>2. SubFails(r)
    BY <1>6, <2>1, FailIsCounted DEF IncrementFailCount, SubFails
  <2> QED
    BY <2>2 DEF RowsMove
<1>7. ASSUME NEW r \in Runs, MarkSuspended(r) PROVE RowsMove
  <2>1. Current(r) \in DOMAIN subs /\ Current(r) \in run[r].due
    BY <1>7, CurrentIsListed DEF MarkSuspended
  <2>2. run'[r] = IdleRun \/ NextRow(r)
    BY <1>7, RunAdvances DEF MarkSuspended, NextRow
  <2>3. SubWritten(Current(r)) /\ subs'[Current(r)].status = "suspended"
        /\ subs'[Current(r)].last = subs[Current(r)].last /\ subs'[Current(r)].fails = subs[Current(r)].fails
    BY <1>7, <2>1, StatusIsWritten DEF MarkSuspended, Statuses
  <2>4. SubSuspended(r)
    BY <1>7, <2>1, <2>2, <2>3 DEF MarkSuspended, SubSuspended
  <2> QED
    BY <2>4 DEF RowsMove
<1>8. ASSUME NEW r \in Requests,
             \/ \E u \in Members, a \in Amounts : PostSubscription(r, u, a, "CARD")
             \/ \E u \in Members : DeleteSubscription(r, u)
             \/ RequestFails(r)
      PROVE  RowsMove
  BY <1>8, <1>u DEF PostSubscription, DeleteSubscription, RequestFails
<1>9. ASSUME NEW c \in Confirms, (\E o \in DOMAIN orders : EasyPayReturn(c, o)) \/ CommitPaymentFails(c) PROVE RowsMove
  BY <1>9, <1>u DEF EasyPayReturn, CommitPaymentFails
<1>10. ASSUME NEW r \in Runs,
              \/ DailyRun(r)
              \/ \E d \in OperatorDays : RunBilling(r, d)
              \/ CommitChargeFails(r)
              \/ ReadFailCount(r)
              \/ FailureHandlingFails(r)
       PROVE  RowsMove
  BY <1>10, <1>u DEF DailyRun, RunBilling, RunOnce, CommitChargeFails, ReadFailCount, FailureHandlingFails
<1>11. ASSUME Crash \/ NextDay \/ UNCHANGED vars PROVE RowsMove
  BY <1>11, <1>u DEF Crash, NextDay, vars
<1>12. ASSUME \/ \E r \in Requests : InsertSubscription(r)
              \/ \E c \in Confirms : CommitPayment(c) \/ \E g \in GatewayResults : Approve(c, g)
              \/ \E r \in Runs : CommitCharge(r) \/ \E g \in GatewayResults : ChargeCard(r, g)
       PROVE  RowsMove
  BY <1>12 DEF RowsMove
<1> QED
  BY <1>1, <1>2, <1>3, <1>4, <1>5, <1>6, <1>7, <1>8, <1>9, <1>10, <1>11, <1>12 DEF Next

\* Races are remembered; faults are bounded.
LEMMA CountersStep ==
    ASSUME Types, Confirmations, Charges, [Next]_vars
    PROVE  CounterType' /\ raced \subseteq raced'
<1> USE DEF Types
<1>1. today' \in 0..MaxDay /\ ranOn' \in -1..MaxDay
  <2>1. today' \in {today, today + 1} /\ (today' # today => today < MaxDay) /\ ranOn' \in {ranOn, today}
    BY DEF Next, vars, PostOrder, PostSubscription, SubscriptionOrder, InsertSubscription, DeleteSubscription,
           CancelSubscription, RequestFails, EasyPayReturn, Approve, MarkFirstPaymentFailed, CommitPayment,
           CommitPaymentFails, DailyRun, RunBilling, RunOnce, ProcessOne, ChargeCard, CommitCharge,
           CommitChargeFails, IncrementFailCount, ReadFailCount, MarkSuspended, FailureHandlingFails, Crash, NextDay
  <2> QED
    BY <2>1, CalendarAssumption DEF CounterType
<1>2. Cardinality(lost') <= MaxLost
  <2>1. lost' = lost \/ Cardinality(lost') <= MaxLost
    BY DEF Next, vars, PostOrder, PostSubscription, SubscriptionOrder, InsertSubscription, DeleteSubscription,
           CancelSubscription, RequestFails, EasyPayReturn, Approve, MarkFirstPaymentFailed, CommitPayment,
           CommitPaymentFails, DailyRun, RunBilling, RunOnce, ProcessOne, ChargeCard, CommitCharge, Forget,
           CommitChargeFails, IncrementFailCount, ReadFailCount, MarkSuspended, FailureHandlingFails, Crash, NextDay
  <2> QED
    BY <2>1 DEF CounterType
<1>3. raced \subseteq raced' /\ raced' \subseteq raced \union 0..Len(subs)
  <2>1. ASSUME NEW c \in Confirms, NEW o, EasyPayReturn(c, o)
        PROVE  raced \subseteq raced' /\ raced' \subseteq raced \union 0..Len(subs)
    <3>1. Overlapped(o) \subseteq 0..Len(subs)
      BY DEF Overlapped, RowType
    <3> QED
      BY <2>1, <3>1 DEF EasyPayReturn
  <2>2. ASSUME NEW r \in Runs, NEW d, RunOnce(r, d) PROVE raced \subseteq raced' /\ raced' \subseteq raced \union 0..Len(subs)
    BY <2>2 DEF RunOnce, ListDueForBilling, RowType
  <2>3. \/ raced' = raced
        \/ \E c \in Confirms, o \in DOMAIN orders : EasyPayReturn(c, o)
        \/ \E r \in Runs, d \in {today} \union OperatorDays : RunOnce(r, d)
    BY DEF Next, vars, PostOrder, PostSubscription, SubscriptionOrder, InsertSubscription, DeleteSubscription,
           CancelSubscription, RequestFails, Approve, MarkFirstPaymentFailed, CommitPayment,
           CommitPaymentFails, DailyRun, RunBilling, ProcessOne, ChargeCard, CommitCharge,
           CommitChargeFails, IncrementFailCount, ReadFailCount, MarkSuspended, FailureHandlingFails, Crash, NextDay
  <2> QED
    BY <2>1, <2>2, <2>3
<1>4. Len(subs) \in Nat /\ Len(subs') \in Nat /\ Len(subs) <= Len(subs')
  BY RowStep DEF SubsGrow, RowType
<1> QED
  BY <1>1, <1>2, <1>3, <1>4 DEF CounterType

-----------------------------------------------------------------------------
(* Orders and who they belong to *)

\* Only a new order brings a request to the row of its subscription.
LEMMA RequestsMove ==
    ASSUME Types, [Next]_vars
    PROVE  (\E r \in Requests : SubscriptionOrder(r)) \/ \A r \in Requests : req'[r] = req[r] \/ req'[r].pc # "sub"
<1> USE DEF Types
<1> DEFINE Goal == \A r \in Requests : req'[r] = req[r] \/ req'[r].pc # "sub"
<1>w. ASSUME NEW r \in Requests, NEW q, q.pc # "sub", req' = [req EXCEPT ![r] = q] PROVE Goal
  BY <1>w DEF ReqType
<1>1. ASSUME NEW r \in Requests, NEW u \in Members, NEW a \in Amounts, PostSubscription(r, u, a, "CARD") PROVE Goal
  BY <1>1, <1>w DEF PostSubscription
<1>2. ASSUME NEW r \in Requests, NEW u \in Members, DeleteSubscription(r, u) PROVE Goal
  BY <1>2, <1>w DEF DeleteSubscription
<1>3. ASSUME NEW r \in Requests, InsertSubscription(r) \/ CancelSubscription(r) \/ RequestFails(r) PROVE Goal
  BY <1>3, <1>w DEF InsertSubscription, CancelSubscription, RequestFails, IdleReq
<1>4. ASSUME Crash PROVE Goal
  BY <1>4 DEF Crash, IdleReq
<1>5. ASSUME NEW u \in Members, NEW a \in Amounts, NEW p \in {"CARD", "BANK", "HP"}, PostOrder(u, a, p) PROVE Goal
  BY <1>5 DEF PostOrder
<1>6. ASSUME NEW c \in Confirms,
             \/ \E o \in DOMAIN orders : EasyPayReturn(c, o)
             \/ \E g \in GatewayResults : Approve(c, g)
             \/ MarkFirstPaymentFailed(c) \/ CommitPayment(c) \/ CommitPaymentFails(c)
      PROVE  Goal
  BY <1>6 DEF EasyPayReturn, Approve, MarkFirstPaymentFailed, CommitPayment, CommitPaymentFails
<1>7. ASSUME NEW r \in Runs,
             \/ DailyRun(r) \/ (\E d \in OperatorDays : RunBilling(r, d))
             \/ ProcessOne(r) \/ (\E g \in GatewayResults : ChargeCard(r, g))
             \/ CommitCharge(r) \/ CommitChargeFails(r)
             \/ IncrementFailCount(r) \/ ReadFailCount(r) \/ MarkSuspended(r)
             \/ FailureHandlingFails(r)
      PROVE  Goal
  BY <1>7 DEF DailyRun, RunBilling, RunOnce, ProcessOne, ChargeCard, CommitCharge, CommitChargeFails,
              IncrementFailCount, ReadFailCount, MarkSuspended, FailureHandlingFails
<1>8. ASSUME NextDay \/ UNCHANGED vars PROVE Goal
  BY <1>8 DEF NextDay, vars
<1> QED
  BY <1>1, <1>2, <1>3, <1>4, <1>5, <1>6, <1>7, <1>8 DEF Next

LEMMA FirstOrdersStep ==
    ASSUME Types, Confirmations, Charges, FirstOrders, [Next]_vars
    PROVE  FirstOrders'
<1> USE DEF Types
<1>g. /\ RowType' /\ OrdersGrow /\ SubsGrow
      /\ DOMAIN orders = 1..Len(orders) /\ DOMAIN orders' = 1..Len(orders') /\ Len(orders) \in Nat /\ Len(orders') \in Nat
      /\ DOMAIN subs = 1..Len(subs) /\ DOMAIN subs' = 1..Len(subs') /\ Len(subs) \in Nat /\ Len(subs') \in Nat
  BY RowStep DEF RowType
<1>d. DOMAIN orders \subseteq DOMAIN orders'
  BY <1>g DEF OrdersGrow
<1>k. ASSUME Len(subs') = Len(subs), \A r \in Requests : req'[r] = req[r] \/ req'[r].pc # "sub"
      PROVE  FirstOrders'
  <2>1. DOMAIN subs' = DOMAIN subs
    BY <1>g, <1>k
  <2>2. \A s \in DOMAIN subs : subs'[s].order = subs[s].order
    BY <1>g DEF SubsGrow
  <2>3. \A o \in DOMAIN orders : orders'[o].sub = orders[o].sub
    BY <1>g DEF OrdersGrow
  <2> QED
    BY <1>k, <1>d, <2>1, <2>2, <2>3 DEF FirstOrders
<1>1. ASSUME NEW r \in Requests, SubscriptionOrder(r) PROVE FirstOrders'
  <2>1. req[r].usr \in Members /\ req[r].amount \in Amounts
    BY <1>1 DEF SubscriptionOrder, ReqType
  <2> DEFINE row == NewOrder(req[r].usr, "P", req[r].amount, 0, "CARD" # "BANK")
  <2>2. Placed(row) /\ row.sub = 0
    <3>1. Placed(row)
      BY <1>1, <2>1, OrderIsPlaced DEF SubscriptionOrder, CreateOrder
    <3>2. row.sub = 0
      BY DEF NewOrder
    <3> QED
      BY <3>1, <3>2
  <2> HIDE DEF row
  <2> DEFINE n == Len(orders) + 1
  <2>3. n \in DOMAIN orders' /\ n \notin DOMAIN orders /\ orders'[n].sub = 0
    BY <1>g, <2>2 DEF Placed
  <2>4. /\ subs' = subs
        /\ req'[r].pc = "sub" /\ req'[r].order = n
        /\ \A q \in Requests : q # r => req'[q] = req[q]
    BY <1>1 DEF SubscriptionOrder, ReqType
  <2>5. \A o \in DOMAIN orders : orders'[o].sub = orders[o].sub
    BY <1>g DEF OrdersGrow
  <2> HIDE DEF n
  <2> QED
    BY <1>d, <2>3, <2>4, <2>5 DEF FirstOrders
<1>2. ASSUME NEW r \in Requests, InsertSubscription(r) PROVE FirstOrders'
  <2>1. PICK row \in SubRows : Subscribed(row) /\ row.order = req[r].order
    BY <1>2, SubIsInserted
  <2> DEFINE n == Len(subs) + 1
  <2>2. /\ DOMAIN subs' = DOMAIN subs \union {n} /\ n \notin DOMAIN subs
        /\ subs'[n].order = req[r].order /\ \A s \in DOMAIN subs : subs'[s] = subs[s]
    BY <1>g, <2>1 DEF Subscribed
  <2>3. /\ req[r].pc = "sub" /\ orders' = orders
        /\ req'[r].pc # "sub" /\ \A q \in Requests : q # r => req'[q] = req[q]
    BY <1>2 DEF InsertSubscription, ReqType, IdleReq
  <2> HIDE DEF n
  <2> QED
    BY <2>2, <2>3 DEF FirstOrders
<1>3. \/ \E r \in Requests : SubscriptionOrder(r) \/ InsertSubscription(r)
      \/ Len(subs') = Len(subs) /\ \A r \in Requests : req'[r] = req[r] \/ req'[r].pc # "sub"
  <2>1. (\E r \in Requests : InsertSubscription(r)) \/ Len(subs') = Len(subs)
    <3>1. RowsMove
      BY EveryStepMovesRows
    <3>2. ASSUME NEW c \in Confirms, CommitPayment(c) PROVE Len(subs') = Len(subs)
      BY <3>2, PaymentIsCommitted DEF SubWritten
    <3>3. ASSUME NEW r \in Runs, CommitCharge(r) PROVE Len(subs') = Len(subs)
      BY <3>3, ChargeIsCommitted DEF SubWritten
    <3> QED
      BY <3>1, <3>2, <3>3 DEF RowsMove, OrderAsked, OrderBilled, SubEnded, SubFails, SubSuspended, SubWritten,
                              Approve, ChargeCard
  <2>2. (\E r \in Requests : SubscriptionOrder(r)) \/ \A r \in Requests : req'[r] = req[r] \/ req'[r].pc # "sub"
    BY RequestsMove
  <2> QED
    BY <2>1, <2>2
<1> QED
  BY <1>k, <1>1, <1>2, <1>3

LEMMA BillingOrdersStep ==
    ASSUME Types, Confirmations, Charges, BillingOrders, [Next]_vars
    PROVE  BillingOrders'
<1> USE DEF Types
<1>g. /\ RowType' /\ OrdersGrow /\ SubsGrow
      /\ DOMAIN orders = 1..Len(orders) /\ DOMAIN orders' = 1..Len(orders') /\ Len(orders) \in Nat /\ Len(orders') \in Nat
      /\ DOMAIN subs = 1..Len(subs) /\ DOMAIN subs' = 1..Len(subs') /\ Len(subs) \in Nat /\ Len(subs') \in Nat
  BY RowStep DEF RowType
<1> DEFINE Fits(o) == /\ orders'[o].sub \in 0..Len(subs')
                      /\ orders'[o].sub # 0 => ~orders'[o].window /\ orders'[o].price = subs'[orders'[o].sub].amount
<1>k. ASSUME NEW o \in DOMAIN orders PROVE Fits(o)
  <2>1. orders'[o].sub = orders[o].sub /\ orders'[o].window = orders[o].window /\ orders'[o].price = orders[o].price
    BY <1>g DEF OrdersGrow
  <2>2. orders[o].sub \in 0..Len(subs) /\ (orders[o].sub # 0 => ~orders[o].window /\ orders[o].price = subs[orders[o].sub].amount)
    BY DEF BillingOrders
  <2>3. Len(subs) <= Len(subs') /\ \A s \in DOMAIN subs : subs'[s].amount = subs[s].amount
    BY <1>g DEF SubsGrow
  <2> QED
    BY <1>g, <2>1, <2>2, <2>3
<1>n. ASSUME NEW row, Placed(row), subs' = subs,
             row.sub = 0 \/ (row.sub \in DOMAIN subs /\ ~row.window /\ row.price = subs[row.sub].amount)
      PROVE  BillingOrders'
  <2>1. DOMAIN orders' = DOMAIN orders \union {Len(orders) + 1} /\ orders'[Len(orders) + 1] = row
    BY <1>g, <1>n DEF Placed
  <2>2. Fits(Len(orders) + 1)
    BY <1>g, <1>n, <2>1
  <2> QED
    BY <1>k, <2>1, <2>2 DEF BillingOrders
<1>s. Len(orders') = Len(orders) => BillingOrders'
  BY <1>g, <1>k DEF BillingOrders
<1>1. RowsMove
  BY EveryStepMovesRows
<1>2. ASSUME NEW c \in Confirms, CommitPayment(c) PROVE Len(orders') = Len(orders)
  BY <1>2, PaymentIsCommitted DEF PaidOrder
<1>3. ASSUME NEW r \in Runs, CommitCharge(r) PROVE Len(orders') = Len(orders)
  BY <1>3, ChargeIsCommitted DEF PaidOrder
<1>4. ASSUME OrderAsked PROVE BillingOrders'
  BY <1>4, <1>n DEF OrderAsked
<1>5. ASSUME NEW r \in Runs, OrderBilled(r) PROVE BillingOrders'
  BY <1>5, <1>n DEF OrderBilled
<1> QED
  BY <1>s, <1>1, <1>2, <1>3, <1>4, <1>5 DEF RowsMove, InsertSubscription, SubEnded, SubFails, SubSuspended,
                                            Approve, ChargeCard

\* What a confirmation knows stays true, whatever the others do.
LEMMA ConfirmationsStep ==
    ASSUME Types, Charges, Confirmations, [Next]_vars
    PROVE  Confirmations'
<1> USE DEF Types
<1>g. /\ RowType' /\ OrdersGrow /\ SubsGrow
      /\ DOMAIN orders = 1..Len(orders) /\ DOMAIN orders' = 1..Len(orders') /\ Len(orders) \in Nat /\ Len(orders') \in Nat
      /\ DOMAIN subs = 1..Len(subs) /\ DOMAIN subs' = 1..Len(subs') /\ Len(subs) \in Nat /\ Len(subs') \in Nat
  BY RowStep DEF RowType
<1>d. DOMAIN orders \subseteq DOMAIN orders' /\ DOMAIN subs \subseteq DOMAIN subs'
  BY <1>g DEF OrdersGrow, SubsGrow
<1>o. ASSUME NEW o \in DOMAIN orders
      PROVE  orders'[o].window = orders[o].window /\ orders'[o].price = orders[o].price
             /\ charged[o] \in Nat /\ charged'[o] \in Nat /\ charged[o] <= charged'[o]
  <2>1. charged[o] \in Nat
    BY CountOfOrder
  <2>2. charged'[o] \in Nat
    <3>1. o \in 1..Len(charged') /\ charged' \in Seq(0..MaxCharges)
      BY <1>g, <1>d DEF RowType
    <3> QED
      BY <3>1, ElementOfSeq, CalendarAssumption
  <2> QED
    BY <1>g, <2>1, <2>2 DEF OrdersGrow
<1>s. \A s \in DOMAIN subs : subs'[s].order = subs[s].order
  BY <1>g DEF SubsGrow
<1> DEFINE Knows(c) ==
        conf'[c].pc # "idle" =>
            /\ conf'[c].order \in DOMAIN orders' /\ orders'[conf'[c].order].window
            /\ conf'[c].price = orders'[conf'[c].order].price
            /\ conf'[c].sub # 0 => conf'[c].sub \in DOMAIN subs' /\ subs'[conf'[c].sub].order = conf'[c].order
            /\ conf'[c].pc = "commit" =>
                 conf'[c].amount = conf'[c].price /\ conf'[c].number \in 1..charged'[conf'[c].order]
<1>1. ASSUME NEW c \in Confirms PROVE Knows(c)
  <2>1. CASE conf'[c] = conf[c]
    <3>1. CASE conf[c].pc = "idle"
      BY <2>1, <3>1
    <3>2. CASE conf[c].pc # "idle"
      <4>1. /\ conf[c].order \in DOMAIN orders /\ orders[conf[c].order].window
            /\ conf[c].price = orders[conf[c].order].price
            /\ conf[c].sub # 0 => conf[c].sub \in DOMAIN subs /\ subs[conf[c].sub].order = conf[c].order
            /\ conf[c].pc = "commit" =>
                 conf[c].amount = conf[c].price /\ conf[c].number \in 1..charged[conf[c].order]
        BY <3>2 DEF Confirmations
      <4> QED
        BY <1>d, <1>o, <1>s, <2>1, <4>1
    <3> QED
      BY <3>1, <3>2
  <2>2. CASE conf'[c] = IdleConf
    BY <2>2 DEF IdleConf
  <2>3. ASSUME NEW o \in DOMAIN orders, Begun(c, o) PROVE Knows(c)
    <3>1. /\ conf'[c].pc = "approve" /\ conf'[c].order = o /\ conf'[c].price = orders[o].price
          /\ conf'[c].sub = LookupPendingByOrder(o) /\ orders[o].window
      BY <2>3 DEF Begun, EasyPayReturn
    <3>2. conf'[c].sub # 0 => conf'[c].sub \in DOMAIN subs /\ subs[conf'[c].sub].order = o
      BY <3>1, FirstOrderIsFound DEF LookupPendingByOrder
    <3> QED
      BY <1>d, <1>o, <1>s, <3>1, <3>2
  <2>4. ASSUME NEW g \in GatewayResults, Answered(c, g) PROVE Knows(c)
    <3>1. conf[c].pc = "approve" /\ conf[c].pc # "idle"
      BY <2>4 DEF Answered, Approve
    <3>2. /\ conf[c].order \in DOMAIN orders /\ orders[conf[c].order].window
          /\ conf[c].price = orders[conf[c].order].price
          /\ conf[c].sub # 0 => conf[c].sub \in DOMAIN subs /\ subs[conf[c].sub].order = conf[c].order
      BY <3>1 DEF Confirmations
    <3>3. CASE conf'[c] = IdleConf
      BY <3>3 DEF IdleConf
    <3>4. CASE conf'[c].pc = "refused" /\ conf'[c].order = conf[c].order /\ conf'[c].price = conf[c].price
               /\ conf'[c].sub = conf[c].sub
      BY <1>d, <1>o, <1>s, <3>2, <3>4
    <3>5. CASE /\ g.ok /\ g.amount = conf[c].price
               /\ conf'[c].pc = "commit" /\ conf'[c].order = conf[c].order /\ conf'[c].price = conf[c].price
               /\ conf'[c].sub = conf[c].sub /\ conf'[c].amount = g.amount
               /\ conf'[c].number = charged[conf[c].order] + 1
      <4>1. Charge(conf[c].order, g) /\ g.took
        BY <2>4, <3>5, ResultsOfTheGateway DEF Answered, Approve
      <4>2. charged'[conf[c].order] = charged[conf[c].order] + 1
        BY <3>2, <4>1, ApprovalIsCounted
      <4> QED
        BY <1>d, <1>o, <1>s, <3>2, <3>5, <4>2
    <3> QED
      BY <2>4, <3>3, <3>4, <3>5 DEF Answered
  <2> QED
    BY <2>1, <2>2, <2>3, <2>4, ConfirmationsMove
<1> QED
  BY <1>1 DEF Confirmations

-----------------------------------------------------------------------------
(* What a step does to one order *)

OrderMoves(o) ==
    \/ o \in DOMAIN orders /\ orders'[o] = orders[o]
    \/ /\ o = Len(orders) + 1 /\ o \notin DOMAIN orders /\ charged'[o] = 0
       /\ ~orders'[o].paid /\ orders'[o].pgRows = {}
       /\ orders'[o].sub = 0 \/ \E r \in Runs : OrderBilled(r) /\ orders'[o].sub = Current(r)
    \/ \E c \in Confirms : CommitPayment(c) /\ o = conf[c].order
    \/ \E r \in Runs : CommitCharge(r) /\ o = run[r].order

LEMMA OrdersMove ==
    ASSUME Types, Confirmations, Charges, [Next]_vars, NEW o \in DOMAIN orders'
    PROVE  OrderMoves(o)
<1> USE DEF Types
<1>g. /\ RowType' /\ DOMAIN orders = 1..Len(orders) /\ DOMAIN orders' = 1..Len(orders')
      /\ Len(orders) \in Nat /\ Len(orders') \in Nat
  BY RowStep DEF RowType
<1>u. UNCHANGED orders => OrderMoves(o)
  BY DEF OrderMoves
<1>p. ASSUME NEW row, Placed(row), ~row.paid, row.pgRows = {},
             row.sub = 0 \/ \E r \in Runs : OrderBilled(r) /\ row.sub = Current(r)
      PROVE  OrderMoves(o)
  <2>1. CASE o \in DOMAIN orders
    BY <1>p, <2>1 DEF Placed, OrderMoves
  <2>2. CASE o \notin DOMAIN orders
    <3>1. o = Len(orders) + 1
      BY <1>g, <1>p, <2>2 DEF Placed
    <3> QED
      BY <1>p, <2>2, <3>1 DEF Placed, OrderMoves
  <2> QED
    BY <2>1, <2>2
<1>1. RowsMove
  BY EveryStepMovesRows
<1>2. ASSUME NEW c \in Confirms, CommitPayment(c) PROVE OrderMoves(o)
  <2>1. Len(orders') = Len(orders) /\ \A p \in DOMAIN orders : p # conf[c].order => orders'[p] = orders[p]
    BY <1>2, PaymentIsCommitted DEF PaidOrder
  <2> QED
    BY <1>2, <1>g, <2>1 DEF OrderMoves
<1>3. ASSUME NEW r \in Runs, CommitCharge(r) PROVE OrderMoves(o)
  <2>1. Len(orders') = Len(orders) /\ \A p \in DOMAIN orders : p # run[r].order => orders'[p] = orders[p]
    BY <1>3, ChargeIsCommitted DEF PaidOrder
  <2> QED
    BY <1>3, <1>g, <2>1 DEF OrderMoves
<1>4. ASSUME OrderAsked PROVE OrderMoves(o)
  BY <1>4, <1>p DEF OrderAsked
<1>5. ASSUME NEW r \in Runs, OrderBilled(r) PROVE OrderMoves(o)
  <2>1. PICK row \in OrderRows : Placed(row) /\ row.sub = Current(r) /\ ~row.paid /\ row.pgRows = {}
    BY <1>5 DEF OrderBilled
  <2> QED
    BY <1>5, <1>p, <2>1
<1> QED
  BY <1>u, <1>1, <1>2, <1>3, <1>4, <1>5 DEF RowsMove, InsertSubscription, SubEnded, SubFails, SubSuspended,
                                            Approve, ChargeCard

\* The gateway's count of an order changes only by its own confirmation or run.
LEMMA CountsMove ==
    ASSUME Types, Confirmations, Charges, [Next]_vars, NEW o \in DOMAIN orders
    PROVE  \/ charged'[o] = charged[o]
           \/ \E c \in Confirms, g \in GatewayResults : Approve(c, g) /\ o = conf[c].order
           \/ \E r \in Runs, g \in GatewayResults : ChargeCard(r, g) /\ o = run[r].order
<1> USE DEF Types
<1>1. ASSUME NEW c \in Confirms, NEW g \in GatewayResults, Approve(c, g), o # conf[c].order
      PROVE  charged'[o] = charged[o]
  BY <1>1, ApprovalIsCounted DEF Approve, Confirmations
<1>2. ASSUME NEW r \in Runs, NEW g \in GatewayResults, ChargeCard(r, g), o # run[r].order
      PROVE  charged'[o] = charged[o]
  BY <1>2, ApprovalIsCounted DEF ChargeCard, AutoBilling, Charges
<1>3. RowsMove
  BY EveryStepMovesRows
<1> QED
  BY <1>1, <1>2, <1>3 DEF RowsMove, OrderAsked, OrderBilled, Placed, InsertSubscription, SubEnded, SubFails,
                          SubSuspended, CommitPayment, CommitCharge

\* The order a run charges is its own until it has recorded the payment.
LEMMA ChargesStep ==
    ASSUME Types, BillingOrders, Confirmations, Charges, [Next]_vars
    PROVE  Charges'
<1> USE DEF Types
<1>g. /\ RowType' /\ OrdersGrow /\ RunType'
      /\ DOMAIN orders = 1..Len(orders) /\ DOMAIN orders' = 1..Len(orders') /\ Len(orders) \in Nat /\ Len(orders') \in Nat
  BY RowStep, RunsMove DEF RowType
<1>d. DOMAIN orders \subseteq DOMAIN orders'
  BY <1>g DEF OrdersGrow
<1> DEFINE Old(r) == run[r].pc \in {"charge", "commit"} /\ run'[r].order = run[r].order
                     /\ run'[r].due = run[r].due
<1> DEFINE New(r) == run'[r].pc = "charge" /\ run'[r].order = Len(orders) + 1 /\ run'[r].due = run[r].due
                     /\ run'[r] # run[r]
                     /\ Placed(NewOrder(subs[Current(r)].usr, "P", subs[Current(r)].amount, Current(r), FALSE))
<1>1. ASSUME NEW r \in Runs, run'[r].pc \in {"charge", "commit"} PROVE Old(r) \/ New(r)
  <2>1. CASE run'[r] = run[r]
    BY <1>1, <2>1
  <2>2. CASE SameRow(r) /\ run'[r] # run[r]
    BY <1>1, <2>2 DEF SameRow
  <2>3. run'[r] = run[r] \/ SameRow(r)
    <3>1. RunMoves(r)
      BY RunsMove
    <3> HIDE DEF Old, New
    <3> QED
      BY <1>1, <3>1 DEF RunMoves, IdleRun, Listing, NextRow
  <2> HIDE DEF Old, New
  <2> QED
    BY <2>1, <2>2, <2>3
<1> DEFINE Mine(r) == /\ run'[r].order \in DOMAIN orders' /\ orders'[run'[r].order].sub = Min(run'[r].due)
                      /\ ~orders'[run'[r].order].paid
                      /\ run'[r].pc = "commit" => charged'[run'[r].order] = 1
<1>2. ASSUME NEW r \in Runs, run'[r].pc \in {"charge", "commit"}, Old(r) PROVE Mine(r)
  <2> DEFINE o == run[r].order
  <2>1. /\ o \in DOMAIN orders /\ orders[o].sub = Current(r) /\ ~orders[o].paid
        /\ run[r].pc = "commit" => charged[o] = 1
    BY <1>2 DEF Charges
  <2>2. Current(r) # 0 /\ Current(r) = Min(run'[r].due)
    BY <1>2, CurrentIsListed DEF Current
  <2>3. ~orders[o].window
    BY <2>1, <2>2 DEF BillingOrders
  <2>4. orders'[o].sub = orders[o].sub
    BY <1>g, <2>1 DEF OrdersGrow
  <2>5. ~orders'[o].paid
    <3>1. OrderMoves(o)
      BY <1>d, <2>1, OrdersMove
    <3>2. ASSUME NEW c \in Confirms, CommitPayment(c), o = conf[c].order PROVE FALSE
      BY <2>3, <3>2, PaymentIsCommitted
    <3>3. ASSUME NEW q \in Runs, CommitCharge(q), o = run[q].order PROVE FALSE
      <4>1. q = r
        BY <1>2, <3>3 DEF Charges, CommitCharge
      <4>2. run[q].pc = "commit" /\ Advance(q)
        BY <3>3 DEF CommitCharge
      <4>3. run'[r] = IdleRun \/ run'[r].pc = "next"
        BY <4>1, <4>2, RunAdvances
      <4> QED
        BY <1>2, <4>3 DEF IdleRun
    <3> QED
      BY <2>1, <3>1, <3>2, <3>3 DEF OrderMoves
  <2>6. run'[r].pc = "commit" => charged'[o] = 1
    <3>1. SUFFICES ASSUME run'[r].pc = "commit" PROVE charged'[o] = 1
      OBVIOUS
    <3>2. ASSUME NEW c \in Confirms, NEW g \in GatewayResults, Approve(c, g), o = conf[c].order PROVE FALSE
      BY <2>3, <3>2 DEF Approve, Confirmations
    <3>3. ASSUME NEW q \in Runs, NEW g \in GatewayResults, ChargeCard(q, g), o = run[q].order PROVE charged'[o] = 1
      <4>1. q = r
        BY <1>2, <3>3 DEF Charges, ChargeCard
      <4>2. CASE g.took
        <5>1. charged[o] = 0 /\ Charge(o, g)
          BY <3>3 DEF ChargeCard, AutoBilling
        <5> QED
          BY <2>1, <4>2, <5>1, ApprovalIsCounted
      <4>3. CASE ~g.took
        <5>1. ~g.ok
          BY <4>3, ResultsOfTheGateway
        <5>2. run' = [run EXCEPT ![q].pc = "failure"] /\ run[q].pc = "charge"
          BY <3>3, <5>1 DEF ChargeCard
        <5>3. run'[q].pc = "failure"
          BY <5>2, Moves
        <5> QED
          BY <3>1, <4>1, <5>3
      <4> QED
        BY <4>2, <4>3
    <3>4. CASE run[r].pc = "commit"
      <4>1. charged[o] = 1
        BY <2>1, <3>4
      <4> QED
        BY <2>1, <3>2, <3>3, <4>1, CountsMove
    <3>5. CASE run[r].pc = "charge"
      <4>1. run'[r] # run[r]
        BY <3>1, <3>5
      <4>2. SameRow(r)
        BY <3>1, <4>1, RunsMove DEF RunMoves, IdleRun, Listing, NextRow
      <4>3. PICK g \in GatewayResults : ChargeCard(r, g)
        BY <3>1, <4>2 DEF SameRow
      <4> QED
        BY <3>3, <4>3
    <3> QED
      BY <1>2, <3>4, <3>5
  <2> QED
    BY <1>2, <1>d, <2>1, <2>2, <2>4, <2>5, <2>6
<1>3. ASSUME NEW r \in Runs, New(r) PROVE Mine(r) /\ run'[r].order \notin DOMAIN orders
  <2> DEFINE row == NewOrder(subs[Current(r)].usr, "P", subs[Current(r)].amount, Current(r), FALSE)
  <2>1. row.sub = Current(r) /\ ~row.paid
    BY DEF NewOrder
  <2>2. Placed(row)
    BY <1>3
  <2> HIDE DEF row
  <2>3. run'[r].pc = "charge" /\ run'[r].order = Len(orders) + 1 /\ Current(r) = Min(run'[r].due)
    BY <1>3 DEF Current
  <2> HIDE DEF New
  <2>4. orders'[Len(orders) + 1] = row /\ Len(orders) + 1 \in DOMAIN orders' /\ Len(orders) + 1 \notin DOMAIN orders
    BY <1>g, <2>2 DEF Placed
  <2> QED
    BY <2>1, <2>3, <2>4
<1>4. ASSUME NEW r \in Runs, NEW q \in Runs, run'[r].pc \in {"charge", "commit"}, run'[q].pc \in {"charge", "commit"},
             run'[q].order = run'[r].order
      PROVE  q = r
  <2>1. CASE Old(r) /\ Old(q)
    BY <1>4, <2>1 DEF Charges
  <2>2. CASE Old(r) /\ New(q)
    BY <1>3, <1>4, <2>2 DEF Charges
  <2>3. CASE New(r) /\ Old(q)
    BY <1>3, <1>4, <2>3 DEF Charges
  <2>4. CASE New(r) /\ New(q)
    BY <2>4, RunsMove DEF IdleRun
  <2> QED
    BY <1>1, <1>4, <2>1, <2>2, <2>3, <2>4
<1>5. ASSUME NEW r \in Runs, run'[r].pc \in {"charge", "commit"} PROVE Mine(r)
  BY <1>1, <1>2, <1>3, <1>5
<1> HIDE DEF Old, New
<1> QED
  BY <1>4, <1>5 DEF Charges, Current

\* The gateway numbers the approvals it gives for an order.
LEMMA OneRecorderStep ==
    ASSUME Types, Confirmations, OneRecorderEach, [Next]_vars
    PROVE  OneRecorderEach'
<1> USE DEF Types
<1> DEFINE Old(c) == conf'[c] = conf[c] /\ conf[c].pc = "commit"
<1> DEFINE New(c) == conf'[c] # conf[c] /\ conf[c].order \in DOMAIN orders
                     /\ conf'[c].order = conf[c].order /\ conf'[c].number = charged[conf[c].order] + 1
<1>1. ASSUME NEW c \in Confirms, conf'[c].pc = "commit" PROVE Old(c) \/ New(c)
  <2>1. CASE conf'[c] = conf[c]
    BY <1>1, <2>1
  <2>2. ASSUME NEW g \in GatewayResults, Answered(c, g) PROVE New(c)
    <3>1. conf[c].pc = "approve"
      BY <2>2 DEF Answered, Approve
    <3>2. conf[c].order \in DOMAIN orders
      BY <3>1 DEF Confirmations
    <3>3. conf'[c].order = conf[c].order /\ conf'[c].number = charged[conf[c].order] + 1
      BY <1>1, <2>2 DEF Answered, IdleConf
    <3> QED
      BY <1>1, <3>1, <3>2, <3>3
  <2>3. conf'[c] = conf[c] \/ \E g \in GatewayResults : Answered(c, g)
    <3> HIDE DEF Old, New
    <3>1. \A o \in DOMAIN orders : Begun(c, o) => conf'[c].pc = "approve"
      BY DEF Begun
    <3>2. conf'[c] # IdleConf
      BY <1>1 DEF IdleConf
    <3>3. \/ conf'[c] = conf[c]
          \/ conf'[c] = IdleConf
          \/ \E o \in DOMAIN orders : Begun(c, o)
          \/ \E g \in GatewayResults : Answered(c, g)
      BY ConfirmationsMove
    <3> QED
      BY <1>1, <3>1, <3>2, <3>3
  <2> HIDE DEF Old, New
  <2> QED
    BY <2>1, <2>2, <2>3
<1>2. ASSUME NEW c \in Confirms, NEW d \in Confirms, Old(c), New(d), conf'[c].order = conf'[d].order
      PROVE  conf'[c].number # conf'[d].number
  <2>1. conf[c].order \in DOMAIN orders /\ conf[c].number \in 1..charged[conf[c].order]
    BY <1>2 DEF Confirmations
  <2>2. charged[conf[c].order] \in Nat
    BY <2>1, CountOfOrder
  <2> QED
    BY <1>2, <2>1, <2>2
<1>3. ASSUME NEW c \in Confirms, NEW d \in Confirms, conf'[c].pc = "commit", conf'[d].pc = "commit",
             conf'[c].order = conf'[d].order, conf'[c].number = conf'[d].number
      PROVE  c = d
  <2>1. CASE Old(c) /\ Old(d)
    BY <1>3, <2>1 DEF OneRecorderEach
  <2>2. CASE New(c) /\ New(d)
    BY <1>3, <2>2, ConfirmationsMove DEF IdleConf
  <2>3. CASE Old(c) /\ New(d)
    BY <1>2, <1>3, <2>3
  <2>4. CASE New(c) /\ Old(d)
    BY <1>2, <1>3, <2>4
  <2> QED
    BY <1>1, <1>3, <2>1, <2>2, <2>3, <2>4
<1> HIDE DEF Old, New
<1> QED
  BY <1>3 DEF OneRecorderEach

\* The ledger of one order: rows are numbered by the gateway's approvals and
\* an order is paid, for its price, when it has one.
LEMMA LedgerStep ==
    ASSUME Types, BillingOrders, Confirmations, Charges, PgRowsNumbered, PaidIsCharged, [Next]_vars
    PROVE  PgRowsNumbered' /\ PaidIsCharged'
<1> USE DEF Types
<1>g. /\ RowType' /\ OrdersGrow
      /\ DOMAIN orders = 1..Len(orders) /\ DOMAIN orders' = 1..Len(orders') /\ Len(orders) \in Nat /\ Len(orders') \in Nat
  BY RowStep DEF RowType
<1> DEFINE Fits(o) == /\ orders'[o].pgRows \subseteq 1..charged'[o]
                      /\ orders'[o].paid => charged'[o] >= 1 /\ orders'[o].net = orders'[o].price
                      /\ orders'[o].paid <=> orders'[o].pgRows # {}
<1>o. ASSUME NEW o \in DOMAIN orders
      PROVE  /\ o \in DOMAIN orders' /\ charged[o] \in Nat /\ charged'[o] \in Nat /\ charged[o] <= charged'[o]
             /\ orders'[o].price = orders[o].price
             /\ orders[o].pgRows \subseteq 1..charged[o]
             /\ orders[o].paid => charged[o] >= 1 /\ orders[o].net = orders[o].price
             /\ orders[o].paid <=> orders[o].pgRows # {}
  <2>1. o \in DOMAIN orders' /\ charged[o] <= charged'[o] /\ orders'[o].price = orders[o].price
    BY <1>g DEF OrdersGrow
  <2>2. charged[o] \in Nat
    BY CountOfOrder
  <2>3. charged'[o] \in Nat
    <3>1. o \in 1..Len(charged') /\ charged' \in Seq(0..MaxCharges)
      BY <1>g, <2>1 DEF RowType
    <3> QED
      BY <3>1, ElementOfSeq, CalendarAssumption
  <2> QED
    BY <2>1, <2>2, <2>3 DEF PgRowsNumbered, PaidIsCharged
<1>p. ASSUME NEW o \in DOMAIN orders, NEW number \in 1..charged[o], NEW amount, NEW m,
             PaidOrder(o, number, amount, m), amount = orders[o].price
      PROVE  Fits(o)
  <2>1. /\ orders'[o].paid /\ orders'[o].pgRows = orders[o].pgRows \union {number}
        /\ orders'[o].net = orders[o].net \/ orders'[o].net = amount
        /\ orders[o].paid => orders'[o].net = orders[o].net
        /\ ~orders[o].paid => orders'[o].net = amount
    BY <1>p DEF PaidOrder
  <2> QED
    BY <1>o, <1>p, <2>1
<1>1. ASSUME NEW o \in DOMAIN orders' PROVE Fits(o)
  <2>1. CASE o \in DOMAIN orders /\ orders'[o] = orders[o]
    <3>1. 1..charged[o] \subseteq 1..charged'[o] /\ (charged[o] >= 1 => charged'[o] >= 1)
      BY <1>o, <2>1
    <3> QED
      BY <1>o, <2>1, <3>1
  <2>2. CASE ~orders'[o].paid /\ orders'[o].pgRows = {}
    BY <2>2
  <2>3. ASSUME NEW c \in Confirms, CommitPayment(c), o = conf[c].order PROVE Fits(o)
    BY <1>p, <2>3, PaymentIsCommitted
  <2>4. ASSUME NEW r \in Runs, CommitCharge(r), o = run[r].order PROVE Fits(o)
    <3>1. /\ o \in DOMAIN orders /\ orders[o].sub = Current(r) /\ charged[o] = 1 /\ Current(r) # 0
          /\ PaidOrder(o, 1, subs[Current(r)].amount, MonthOf(run[r].day))
      <4>1. DOMAIN subs = 1..Len(subs) /\ Len(subs) \in Nat
        BY DEF RowType
      <4> QED
        BY <2>4, <4>1, ChargeIsCommitted
    <3>2. subs[Current(r)].amount = orders[o].price
      BY <3>1 DEF BillingOrders
    <3> QED
      BY <1>p, <3>1, <3>2
  <2> QED
    BY <2>1, <2>2, <2>3, <2>4, OrdersMove DEF OrderMoves
<1> QED
  BY <1>1 DEF PgRowsNumbered, PaidIsCharged

-----------------------------------------------------------------------------
(* Every approval is accounted for *)

\* What a step does to the gateway's approvals and to their rows.
LEMMA ApprovalsMove ==
    ASSUME RowType
    PROVE  /\ UNCHANGED <<orders, charged>> => Approvals' = Approvals /\ Recorded' = Recorded
           /\ \A row \in OrderRows : Placed(row) /\ row.pgRows = {} => Approvals' = Approvals /\ Recorded' = Recorded
           /\ \A o \in DOMAIN orders : \A g \in GatewayResults : Charge(o, g) /\ orders' = orders =>
                /\ Recorded' = Recorded
                /\ ~g.took => Approvals' = Approvals
                /\ g.took => Approvals' = Approvals \union {NextApproval(o)} /\ NextApproval(o) \notin Approvals
           /\ \A o \in DOMAIN orders : \A number, amount, m : PaidOrder(o, number, amount, m) /\ charged' = charged =>
                /\ Approvals' = Approvals
                /\ Recorded' = Recorded \union {<<o, number>>}
<1>g. DOMAIN orders = 1..Len(orders) /\ Len(orders) \in Nat
  BY DEF RowType
<1>1. UNCHANGED <<orders, charged>> => Approvals' = Approvals /\ Recorded' = Recorded
  BY DEF Approvals, Recorded
<1>2. ASSUME NEW row \in OrderRows, Placed(row), row.pgRows = {} PROVE Approvals' = Approvals /\ Recorded' = Recorded
  <2> DEFINE n == Len(orders) + 1
  <2>1. DOMAIN orders' = DOMAIN orders \union {n} /\ n \notin DOMAIN orders
    BY <1>g, <1>2 DEF Placed
  <2>2. charged'[n] = 0 /\ orders'[n].pgRows = {} /\ 1..0 = {}
        /\ \A o \in DOMAIN orders : orders'[o] = orders[o] /\ charged'[o] = charged[o]
    BY <1>2 DEF Placed
  <2> HIDE DEF n
  <2>3. Approvals' = Approvals
    BY <2>1, <2>2 DEF Approvals
  <2>4. Recorded' = Recorded
    BY <2>1, <2>2 DEF Recorded
  <2> QED
    BY <2>3, <2>4
<1>3. ASSUME NEW o \in DOMAIN orders, NEW g \in GatewayResults, Charge(o, g), orders' = orders
      PROVE  /\ Recorded' = Recorded
             /\ ~g.took => Approvals' = Approvals
             /\ g.took => Approvals' = Approvals \union {NextApproval(o)} /\ NextApproval(o) \notin Approvals
  <2>1. Recorded' = Recorded
    BY <1>3 DEF Recorded
  <2>2. ~g.took => Approvals' = Approvals
    BY <1>3 DEF Charge, Approvals
  <2>3. ASSUME g.took PROVE Approvals' = Approvals \union {NextApproval(o)} /\ NextApproval(o) \notin Approvals
    <3>1. charged'[o] = charged[o] + 1 /\ charged[o] \in Nat /\ \A p \in DOMAIN orders : p # o => charged'[p] = charged[p]
      BY <1>3, <2>3, ApprovalIsCounted
    <3>2. 1..charged'[o] = (1..charged[o]) \union {charged[o] + 1} /\ charged[o] + 1 \notin 1..charged[o]
      BY <3>1
    <3> DEFINE n == charged[o] + 1
    <3>3. 1..charged'[o] = (1..charged[o]) \union {n} /\ n \notin 1..charged[o] /\ NextApproval(o) = <<o, n>>
      BY <3>2 DEF NextApproval
    <3> HIDE DEF n
    <3> QED
      BY <1>3, <3>1, <3>3 DEF Approvals
  <2> QED
    BY <2>1, <2>2, <2>3
<1>4. ASSUME NEW o \in DOMAIN orders, NEW number, NEW amount, NEW m, PaidOrder(o, number, amount, m), charged' = charged
      PROVE  /\ Approvals' = Approvals
             /\ Recorded' = Recorded \union {<<o, number>>}
  <2>1. DOMAIN orders' = DOMAIN orders
    BY <1>4, <1>g DEF PaidOrder
  <2>2. orders'[o].pgRows = orders[o].pgRows \union {number} /\ \A p \in DOMAIN orders : p # o => orders'[p] = orders[p]
    BY <1>4 DEF PaidOrder
  <2> QED
    BY <1>4, <2>1, <2>2 DEF Approvals, Recorded
<1> QED
  BY <1>1, <1>2, <1>3, <1>4

\* An approval about to be recorded is held by one confirmation or one run.
LEMMA HeldOnce ==
    ASSUME Types, BillingOrders, Confirmations, Charges, OneRecorderEach
    PROVE  /\ \A c \in Confirms : conf[c].pc = "commit" =>
                /\ <<conf[c].order, conf[c].number>> \in Committing
                /\ \A d \in Confirms : conf[d].pc = "commit" /\ <<conf[d].order, conf[d].number>> = <<conf[c].order, conf[c].number>>
                                       => d = c
                /\ \A r \in Runs : run[r].pc = "commit" => run[r].order # conf[c].order
           /\ \A r \in Runs : run[r].pc = "commit" =>
                /\ <<run[r].order, 1>> \in Committing
                /\ \A q \in Runs : run[q].pc = "commit" /\ run[q].order = run[r].order => q = r
<1>1. ASSUME NEW c \in Confirms, conf[c].pc = "commit", NEW r \in Runs, run[r].pc = "commit"
      PROVE  run[r].order # conf[c].order
  <2>1. orders[conf[c].order].window
    BY <1>1 DEF Confirmations
  <2>2. run[r].order \in DOMAIN orders /\ orders[run[r].order].sub = Current(r)
    BY <1>1 DEF Charges
  <2>3. Current(r) # 0
    BY <1>1, CurrentIsListed DEF Types
  <2> QED
    BY <2>1, <2>2, <2>3 DEF BillingOrders
<1>2. \A c \in Confirms : conf[c].pc = "commit" => <<conf[c].order, conf[c].number>> \in Committing
  BY DEF Committing
<1>3. \A r \in Runs : run[r].pc = "commit" => <<run[r].order, 1>> \in Committing
  BY DEF Committing
<1>4. ASSUME NEW c \in Confirms, NEW d \in Confirms, conf[c].pc = "commit", conf[d].pc = "commit",
             <<conf[d].order, conf[d].number>> = <<conf[c].order, conf[c].number>>
      PROVE  d = c
  BY <1>4 DEF OneRecorderEach
<1>5. ASSUME NEW r \in Runs, NEW q \in Runs, run[r].pc = "commit", run[q].pc = "commit", run[q].order = run[r].order
      PROVE  q = r
  BY <1>5 DEF Charges
<1> QED
  BY <1>1, <1>2, <1>3, <1>4, <1>5

LEMMA OneConfirmationMoves ==
    ASSUME Types, BillingOrders, Confirmations, Charges, OneRecorderEach, NEW c \in Confirms, run' = run,
           \A d \in Confirms : d # c => conf'[d] = conf[d]
    PROVE  /\ conf[c].pc # "commit" /\ conf'[c].pc # "commit" => Committing' = Committing
           /\ conf[c].pc # "commit" /\ conf'[c].pc = "commit" =>
                Committing' = Committing \union {<<conf'[c].order, conf'[c].number>>}
           /\ conf[c].pc = "commit" /\ conf'[c].pc # "commit" =>
                Committing' = Committing \ {<<conf[c].order, conf[c].number>>}
<1>1. conf[c].pc # "commit" /\ conf'[c].pc # "commit" => Committing' = Committing
  BY DEF Committing
<1>2. conf[c].pc # "commit" /\ conf'[c].pc = "commit" =>
        Committing' = Committing \union {<<conf'[c].order, conf'[c].number>>}
  BY DEF Committing
<1>3. ASSUME conf[c].pc = "commit", conf'[c].pc # "commit"
      PROVE  Committing' = Committing \ {<<conf[c].order, conf[c].number>>}
  <2> DEFINE x == <<conf[c].order, conf[c].number>>
  <2>1. \A d \in Confirms : conf[d].pc = "commit" /\ <<conf[d].order, conf[d].number>> = x => d = c
    BY <1>3, HeldOnce
  <2>2. \A r \in Runs : run[r].pc = "commit" => <<run[r].order, 1>> # x
    BY <1>3, HeldOnce
  <2> HIDE DEF x
  <2>3. \A y : y \in Committing' <=> y \in Committing /\ y # x
    <3>1. ASSUME NEW y \in Committing' PROVE y \in Committing /\ y # x
      BY <1>3, <2>1, <2>2, <3>1 DEF Committing
    <3>2. ASSUME NEW y \in Committing, y # x PROVE y \in Committing'
      BY <1>3, <3>2 DEF Committing, x
    <3> QED
      BY <3>1, <3>2
  <2> QED
    BY <2>3 DEF x
<1> QED
  BY <1>1, <1>2, <1>3

LEMMA OneRunMoves ==
    ASSUME Types, BillingOrders, Confirmations, Charges, OneRecorderEach, NEW r \in Runs, conf' = conf,
           \A q \in Runs : q # r => run'[q] = run[q]
    PROVE  /\ run[r].pc # "commit" /\ run'[r].pc # "commit" => Committing' = Committing
           /\ run[r].pc # "commit" /\ run'[r].pc = "commit" => Committing' = Committing \union {<<run'[r].order, 1>>}
           /\ run[r].pc = "commit" /\ run'[r].pc # "commit" => Committing' = Committing \ {<<run[r].order, 1>>}
<1>1. run[r].pc # "commit" /\ run'[r].pc # "commit" => Committing' = Committing
  BY DEF Committing
<1>2. run[r].pc # "commit" /\ run'[r].pc = "commit" => Committing' = Committing \union {<<run'[r].order, 1>>}
  BY DEF Committing
<1>3. ASSUME run[r].pc = "commit", run'[r].pc # "commit" PROVE Committing' = Committing \ {<<run[r].order, 1>>}
  <2> DEFINE x == <<run[r].order, 1>>
  <2>1. \A q \in Runs : run[q].pc = "commit" /\ <<run[q].order, 1>> = x => q = r
    BY <1>3, HeldOnce
  <2>2. \A c \in Confirms : conf[c].pc = "commit" => <<conf[c].order, conf[c].number>> # x
    BY <1>3, HeldOnce
  <2> HIDE DEF x
  <2>3. \A y : y \in Committing' <=> y \in Committing /\ y # x
    <3>1. ASSUME NEW y \in Committing' PROVE y \in Committing /\ y # x
      BY <1>3, <2>1, <2>2, <3>1 DEF Committing
    <3>2. ASSUME NEW y \in Committing, y # x PROVE y \in Committing'
      BY <1>3, <3>2 DEF Committing, x
    <3> QED
      BY <3>1, <3>2
  <2> QED
    BY <2>3 DEF x
<1> QED
  BY <1>1, <1>2, <1>3

\* An approval moves from the gateway to a confirmation or a run, from there
\* to the ledger, or it is forgotten by a fault; it is never in two places.
LEMMA AccountsStep ==
    ASSUME Types, BillingOrders, Confirmations, Charges, OneRecorderEach, EveryChargeIsAccounted, [Next]_vars
    PROVE  EveryChargeIsAccounted'
<1> USE DEF Types
<1> DEFINE Goal == EveryChargeIsAccounted'
<1>k. /\ Approvals' = Approvals /\ Recorded' = Recorded /\ Committing' = Committing /\ lost' = lost
      => Goal
  BY DEF EveryChargeIsAccounted
<1>n. ASSUME NEW x, x \notin Approvals, Approvals' = Approvals \union {x}, Recorded' = Recorded,
             \/ Committing' = Committing \union {x} /\ lost' = lost
             \/ Committing' = Committing /\ lost' = lost \union {x}
      PROVE  Goal
  BY <1>n DEF EveryChargeIsAccounted
<1>m. ASSUME NEW x \in Committing, Approvals' = Approvals, Committing' = Committing \ {x},
             \/ Recorded' = Recorded \union {x} /\ lost' = lost
             \/ Recorded' = Recorded /\ lost' = lost \union {x}
      PROVE  Goal
  BY <1>m DEF EveryChargeIsAccounted
<1>q. ASSUME UNCHANGED <<orders, charged, lost, conf, run>> PROVE Goal
  <2>1. Committing' = Committing
    BY <1>q DEF Committing
  <2> QED
    BY <1>k, <1>q, <2>1, ApprovalsMove
<1>c. ASSUME NEW c \in Confirms, UNCHANGED <<orders, charged, lost, run>>, \A d \in Confirms : d # c => conf'[d] = conf[d],
             conf[c].pc # "commit", conf'[c].pc # "commit"
      PROVE  Goal
  BY <1>k, <1>c, ApprovalsMove, OneConfirmationMoves
<1>r. ASSUME NEW r \in Runs, UNCHANGED <<orders, charged, lost, conf>>, \A q \in Runs : q # r => run'[q] = run[q],
             run[r].pc # "commit", run'[r].pc # "commit"
      PROVE  Goal
  BY <1>k, <1>r, ApprovalsMove, OneRunMoves
<1>p. ASSUME NEW row \in OrderRows, Placed(row), row.pgRows = {}, UNCHANGED <<conf, run, lost>> PROVE Goal
  <2>1. Committing' = Committing
    BY <1>p DEF Committing
  <2> QED
    BY <1>k, <1>p, <2>1, ApprovalsMove
<1>1. ASSUME NEW u \in Members, NEW a \in Amounts, NEW p \in {"CARD", "BANK", "HP"}, PostOrder(u, a, p) PROVE Goal
  <2> DEFINE row == NewOrder(u, "S", a, 0, p # "BANK")
  <2>1. Placed(row)
    BY <1>1, OrderIsPlaced DEF PostOrder, CreateOrder
  <2>2. row \in OrderRows /\ row.pgRows = {}
    BY DEF NewOrder, OrderRows
  <2> HIDE DEF row
  <2> QED
    BY <1>1, <1>p, <2>1, <2>2 DEF PostOrder
<1>2. ASSUME NEW r \in Requests, SubscriptionOrder(r) PROVE Goal
  <2>1. req[r].usr \in Members /\ req[r].amount \in Amounts
    BY <1>2 DEF SubscriptionOrder, ReqType
  <2> DEFINE row == NewOrder(req[r].usr, "P", req[r].amount, 0, "CARD" # "BANK")
  <2>2. Placed(row)
    BY <1>2, <2>1, OrderIsPlaced DEF SubscriptionOrder, CreateOrder
  <2>3. row \in OrderRows /\ row.pgRows = {}
    BY <2>1 DEF NewOrder, OrderRows
  <2> HIDE DEF row
  <2> QED
    BY <1>2, <1>p, <2>2, <2>3 DEF SubscriptionOrder
<1>3. ASSUME NEW r \in Requests,
             \/ \E u \in Members, a \in Amounts : PostSubscription(r, u, a, "CARD")
             \/ InsertSubscription(r)
             \/ \E u \in Members : DeleteSubscription(r, u)
             \/ CancelSubscription(r) \/ RequestFails(r)
      PROVE  Goal
  BY <1>3, <1>q DEF PostSubscription, InsertSubscription, DeleteSubscription, CancelSubscription, RequestFails
<1>4. ASSUME NEW c \in Confirms, NEW o \in DOMAIN orders, EasyPayReturn(c, o) PROVE Goal
  <2>1. Begun(c, o) /\ \A d \in Confirms : d # c => conf'[d] = conf[d]
    BY <1>4, Begins
  <2>2. conf[c].pc = "idle" /\ conf'[c].pc = "approve"
    BY <1>4, <2>1 DEF Begun, EasyPayReturn
  <2> QED
    BY <1>4, <1>c, <2>1, <2>2 DEF EasyPayReturn
<1>5. ASSUME NEW c \in Confirms, NEW g \in GatewayResults, Approve(c, g) PROVE Goal
  <2> DEFINE o == conf[c].order
  <2>1. conf[c].pc = "approve" /\ Charge(o, g) /\ orders' = orders /\ run' = run
    BY <1>5 DEF Approve
  <2>2. o \in DOMAIN orders
    BY <2>1 DEF Confirmations
  <2>3. Answered(c, g) /\ \A d \in Confirms : d # c => conf'[d] = conf[d]
    BY <1>5, Answers
  <2>4. /\ Recorded' = Recorded
        /\ ~g.took => Approvals' = Approvals
        /\ g.took => Approvals' = Approvals \union {NextApproval(o)} /\ NextApproval(o) \notin Approvals
    BY <2>1, <2>2, ApprovalsMove
  <2>5. CASE g.ok /\ g.amount = conf[c].price
    <3>1. conf' = [conf EXCEPT ![c] = [conf[c] EXCEPT !.pc = "commit", !.amount = g.amount, !.key = g.key,
                                                      !.number = charged[o] + 1]]
      BY <1>5, <2>5 DEF Approve
    <3>2. conf[c] \in ConfStates
      BY <2>3 DEF Answered
    <3>3. conf'[c].pc = "commit" /\ conf'[c].order = o /\ conf'[c].number = charged[o] + 1
      BY <3>1, <3>2 DEF ConfType, ConfStates
    <3>4. Committing' = Committing \union {NextApproval(o)}
      BY <2>1, <2>3, <3>3, OneConfirmationMoves DEF NextApproval
    <3>5. lost' = lost
      BY <1>5, <2>5 DEF Approve, Forget
    <3>6. g.took
      BY <2>5, ResultsOfTheGateway
    <3> QED
      BY <1>n, <2>4, <3>4, <3>5, <3>6
  <2>6. CASE ~(g.ok /\ g.amount = conf[c].price)
    <3>1. conf'[c].pc # "commit"
      BY <2>3, <2>6 DEF Answered, IdleConf
    <3>2. Committing' = Committing
      BY <2>1, <2>3, <3>1, OneConfirmationMoves
    <3>3. lost' = lost \union (IF g.took THEN {NextApproval(o)} ELSE {})
      BY <1>5, <2>6 DEF Approve, Forget
    <3>4. CASE g.took
      BY <1>n, <2>4, <3>2, <3>3, <3>4
    <3>5. CASE ~g.took
      BY <1>k, <2>4, <3>2, <3>3, <3>5
    <3> QED
      BY <3>4, <3>5
  <2> QED
    BY <2>5, <2>6
<1>6. ASSUME NEW c \in Confirms, MarkFirstPaymentFailed(c) PROVE Goal
  <2>1. conf[c].pc = "refused" /\ conf'[c].pc = "idle" /\ \A d \in Confirms : d # c => conf'[d] = conf[d]
    BY <1>6 DEF MarkFirstPaymentFailed, ConfType, IdleConf
  <2> QED
    BY <1>6, <1>c, <2>1 DEF MarkFirstPaymentFailed
<1>7. ASSUME NEW c \in Confirms, CommitPayment(c) PROVE Goal
  <2> DEFINE x == <<conf[c].order, conf[c].number>>
  <2>1. conf[c].pc = "commit" /\ conf'[c].pc = "idle" /\ \A d \in Confirms : d # c => conf'[d] = conf[d]
    BY <1>7 DEF CommitPayment, ConfType, IdleConf
  <2>2. x \in Committing
    BY <2>1, HeldOnce
  <2>3. Committing' = Committing \ {x}
    BY <1>7, <2>1, OneConfirmationMoves DEF CommitPayment
  <2>4. Approvals' = Approvals /\ Recorded' = Recorded \union {x}
    BY <1>7, PaymentIsCommitted, ApprovalsMove DEF CommitPayment
  <2>5. lost' = lost
    BY <1>7 DEF CommitPayment
  <2> HIDE DEF x
  <2> QED
    BY <1>m, <2>2, <2>3, <2>4, <2>5
<1>8. ASSUME NEW c \in Confirms, CommitPaymentFails(c) PROVE Goal
  <2> DEFINE x == <<conf[c].order, conf[c].number>>
  <2>1. conf[c].pc = "commit" /\ conf'[c].pc = "idle" /\ \A d \in Confirms : d # c => conf'[d] = conf[d]
    BY <1>8 DEF CommitPaymentFails, ConfType, IdleConf
  <2>2. x \in Committing
    BY <2>1, HeldOnce
  <2>3. Committing' = Committing \ {x}
    BY <1>8, <2>1, OneConfirmationMoves DEF CommitPaymentFails
  <2>4. Approvals' = Approvals /\ Recorded' = Recorded
    BY <1>8, ApprovalsMove DEF CommitPaymentFails
  <2>5. lost' = lost \union {x}
    BY <1>8 DEF CommitPaymentFails, Forget
  <2> HIDE DEF x
  <2> QED
    BY <1>m, <2>2, <2>3, <2>4, <2>5
<1>9. ASSUME NEW r \in Runs, DailyRun(r) \/ (\E d \in OperatorDays : RunBilling(r, d)) PROVE Goal
  <2>1. run[r].pc = "idle" /\ run'[r].pc = "next" /\ \A q \in Runs : q # r => run'[q] = run[q]
    BY <1>9 DEF DailyRun, RunBilling, RunOnce, RunType
  <2> QED
    BY <1>9, <1>r, <2>1 DEF DailyRun, RunBilling, RunOnce
<1>a. ASSUME NEW r \in Runs, run[r].pc # "idle", Advance(r)
      PROVE  run'[r].pc # "commit" /\ \A q \in Runs : q # r => run'[q] = run[q]
  BY <1>a, RunAdvances DEF IdleRun
<1>10. ASSUME NEW r \in Runs, ProcessOne(r) PROVE Goal
  <2>1. run[r].pc = "next"
    BY <1>10 DEF ProcessOne
  <2>2. CASE Advance(r) /\ UNCHANGED <<orders, charged>>
    BY <1>10, <1>a, <1>r, <2>1, <2>2 DEF ProcessOne
  <2>3. CASE /\ InsertOrder(subs[Current(r)].usr, "P", subs[Current(r)].amount, Current(r), FALSE)
             /\ run' = [run EXCEPT ![r].pc = "charge", ![r].order = Len(orders) + 1]
    <3> DEFINE row == NewOrder(subs[Current(r)].usr, "P", subs[Current(r)].amount, Current(r), FALSE)
    <3>1. Current(r) \in DOMAIN subs /\ Current(r) \in Nat /\ Len(orders) + 1 \in Nat
      BY <2>1, CurrentIsListed DEF RowType
    <3>2. subs[Current(r)].usr \in Members /\ subs[Current(r)].amount \in Amounts
      BY <3>1, RowOfSub DEF SubRows
    <3>3. Placed(row)
      BY <2>3, <3>1, <3>2, OrderIsPlaced
    <3>4. row \in OrderRows /\ row.pgRows = {}
      BY <3>1, <3>2 DEF NewOrder, OrderRows
    <3>5. run' = [run EXCEPT ![r] = [run[r] EXCEPT !.pc = "charge", !.order = Len(orders) + 1]]
      BY <2>3
    <3>6. run'[r].pc = "charge" /\ \A q \in Runs : q # r => run'[q] = run[q]
      BY <2>1, <3>1, <3>5, Writes
    <3>7. conf' = conf /\ lost' = lost
      BY <1>10 DEF ProcessOne
    <3>8. Committing' = Committing
      BY <2>1, <3>6, <3>7, OneRunMoves
    <3> HIDE DEF row
    <3> QED
      BY <1>k, <3>3, <3>4, <3>7, <3>8, ApprovalsMove
  <2> QED
    BY <1>10, <2>2, <2>3 DEF ProcessOne
<1>11. ASSUME NEW r \in Runs, NEW g \in GatewayResults, ChargeCard(r, g) PROVE Goal
  <2> DEFINE o == run[r].order
  <2>1. run[r].pc = "charge" /\ Charge(o, g) /\ charged[o] = 0 /\ orders' = orders /\ conf' = conf
    BY <1>11 DEF ChargeCard, AutoBilling
  <2>2. o \in DOMAIN orders
    BY <2>1 DEF Charges
  <2>3. NextApproval(o) = <<o, 1>>
    BY <2>1 DEF NextApproval
  <2>4. /\ Recorded' = Recorded
        /\ ~g.took => Approvals' = Approvals
        /\ g.took => Approvals' = Approvals \union {NextApproval(o)} /\ NextApproval(o) \notin Approvals
    BY <2>1, <2>2, ApprovalsMove
  <2>5. CASE g.ok /\ g.amount = subs[Current(r)].amount
    <3>1. run' = [run EXCEPT ![r].pc = "commit"]
      BY <1>11, <2>5 DEF ChargeCard
    <3>2. run'[r].pc = "commit" /\ run'[r].order = o /\ \A q \in Runs : q # r => run'[q] = run[q]
      BY <2>1, <3>1, Moves
    <3>3. Committing' = Committing \union {NextApproval(o)}
      BY <2>1, <2>3, <3>2, OneRunMoves
    <3>4. lost' = lost
      BY <1>11, <2>5 DEF ChargeCard, Forget
    <3>5. g.took
      BY <2>5, ResultsOfTheGateway
    <3> QED
      BY <1>n, <2>4, <3>3, <3>4, <3>5
  <2>6. CASE ~(g.ok /\ g.amount = subs[Current(r)].amount)
    <3>1. run' = [run EXCEPT ![r].pc = "failure"]
      BY <1>11, <2>6 DEF ChargeCard
    <3>2. run'[r].pc = "failure" /\ \A q \in Runs : q # r => run'[q] = run[q]
      BY <2>1, <3>1, Moves
    <3>3. Committing' = Committing
      BY <2>1, <3>2, OneRunMoves
    <3>4. lost' = lost \union (IF g.took THEN {NextApproval(o)} ELSE {})
      BY <1>11, <2>6 DEF ChargeCard, Forget
    <3>5. CASE g.took
      BY <1>n, <2>4, <3>3, <3>4, <3>5
    <3>6. CASE ~g.took
      BY <1>k, <2>4, <3>3, <3>4, <3>6
    <3> QED
      BY <3>5, <3>6
  <2> QED
    BY <2>5, <2>6
<1>12. ASSUME NEW r \in Runs, CommitCharge(r) PROVE Goal
  <2> DEFINE x == <<run[r].order, 1>>
  <2>1. run[r].pc = "commit" /\ Advance(r) /\ conf' = conf /\ lost' = lost /\ charged' = charged
    BY <1>12 DEF CommitCharge
  <2>2. x \in Committing
    BY <2>1, HeldOnce
  <2>3. Committing' = Committing \ {x}
    BY <1>a, <2>1, OneRunMoves
  <2>4. Approvals' = Approvals /\ Recorded' = Recorded \union {x}
    BY <1>12, <2>1, ChargeIsCommitted, ApprovalsMove
  <2> HIDE DEF x
  <2> QED
    BY <1>m, <2>1, <2>2, <2>3, <2>4
<1>13. ASSUME NEW r \in Runs, CommitChargeFails(r) PROVE Goal
  <2> DEFINE x == <<run[r].order, 1>>
  <2>1. run[r].pc = "commit" /\ run' = [run EXCEPT ![r].pc = "failure"] /\ UNCHANGED <<conf, orders, charged>>
    BY <1>13 DEF CommitChargeFails
  <2>2. x \in Committing
    BY <2>1, HeldOnce
  <2>3. run'[r].pc = "failure" /\ \A q \in Runs : q # r => run'[q] = run[q]
    BY <2>1, Moves
  <2>4. Committing' = Committing \ {x}
    BY <2>1, <2>3, OneRunMoves
  <2>5. Approvals' = Approvals /\ Recorded' = Recorded
    BY <2>1, ApprovalsMove
  <2>6. lost' = lost \union {x}
    BY <1>13 DEF CommitChargeFails, Forget
  <2> HIDE DEF x
  <2> QED
    BY <1>m, <2>2, <2>4, <2>5, <2>6
<1>14. ASSUME NEW r \in Runs, IncrementFailCount(r) PROVE Goal
  <2>1. run[r].pc = "failure" /\ run' = [run EXCEPT ![r].pc = "count"]
    BY <1>14 DEF IncrementFailCount
  <2>2. run'[r].pc = "count" /\ \A q \in Runs : q # r => run'[q] = run[q]
    BY <2>1, Moves
  <2> QED
    BY <1>14, <1>r, <2>1, <2>2 DEF IncrementFailCount
<1>15. ASSUME NEW r \in Runs, ReadFailCount(r) PROVE Goal
  <2>1. run[r].pc = "count" /\ (run' = [run EXCEPT ![r].pc = "suspend"] \/ Advance(r))
    BY <1>15 DEF ReadFailCount
  <2>2. run'[r].pc # "commit" /\ \A q \in Runs : q # r => run'[q] = run[q]
    BY <1>a, <2>1, Moves
  <2> QED
    BY <1>15, <1>r, <2>1, <2>2 DEF ReadFailCount
<1>16. ASSUME NEW r \in Runs, MarkSuspended(r) \/ FailureHandlingFails(r) PROVE Goal
  <2>1. run[r].pc # "commit" /\ run[r].pc # "idle" /\ Advance(r)
    BY <1>16 DEF MarkSuspended, FailureHandlingFails
  <2> QED
    BY <1>16, <1>a, <1>r, <2>1 DEF MarkSuspended, FailureHandlingFails
<1>17. ASSUME Crash PROVE Goal
  <2>1. Committing' = {}
    BY <1>17 DEF Crash, Committing, IdleConf, IdleRun
  <2>2. lost' = lost \union Committing /\ Approvals' = Approvals /\ Recorded' = Recorded
    BY <1>17, ApprovalsMove DEF Crash, Forget
  <2> QED
    BY <2>1, <2>2 DEF EveryChargeIsAccounted
<1>18. ASSUME NextDay \/ UNCHANGED vars PROVE Goal
  BY <1>18, <1>q DEF NextDay, vars
<1> QED
  BY <1>1, <1>2, <1>3, <1>4, <1>5, <1>6, <1>7, <1>8, <1>9, <1>10, <1>11, <1>12, <1>13, <1>14, <1>15, <1>16, <1>17,
     <1>18 DEF Next

-----------------------------------------------------------------------------
(* First payments and charges of the job *)

Ledgers == FirstOrders /\ BillingOrders /\ Confirmations /\ Charges

\* The payment of an unbilled order comes from a confirmation of that order.
LEMMA FirstOrderMoves ==
    ASSUME Types, Ledgers, [Next]_vars, NEW o \in DOMAIN orders, orders[o].sub = 0
    PROVE  \/ orders'[o] = orders[o]
           \/ \E c \in Confirms : /\ CommitPayment(c) /\ Confirming(c, o)
                                   /\ orders'[o].pgRows = orders[o].pgRows \union {conf[c].number}
                                   /\ conf'[c] = IdleConf
<1> USE DEF Types, Ledgers
<1>1. o \in DOMAIN orders' /\ o # Len(orders) + 1
  BY RowStep DEF RowType, OrdersGrow
<1>2. ASSUME NEW r \in Runs, CommitCharge(r), o = run[r].order PROVE FALSE
  <2>1. orders[o].sub = Current(r) /\ Current(r) \in DOMAIN subs
    BY <1>2, ChargeIsCommitted
  <2> QED
    BY <2>1 DEF RowType
<1>3. ASSUME NEW c \in Confirms, CommitPayment(c), o = conf[c].order
      PROVE  /\ Confirming(c, o) /\ conf'[c] = IdleConf
             /\ orders'[o].pgRows = orders[o].pgRows \union {conf[c].number}
  <2>1. orders'[o].pgRows = orders[o].pgRows \union {conf[c].number}
    BY <1>3, PaymentIsCommitted DEF PaidOrder
  <2>2. conf[c].pc = "commit" /\ conf'[c] = IdleConf
    BY <1>3 DEF CommitPayment, ConfType
  <2> QED
    BY <1>3, <2>1, <2>2 DEF Confirming
<1> QED
  BY <1>1, <1>2, <1>3, OrdersMove DEF OrderMoves

\* A confirmation of an order is one that was under way, or begins while the
\* order is unpaid, at the return page.
LEMMA ConfirmingMoves ==
    ASSUME Types, Confirmations, [Next]_vars, NEW c \in Confirms, NEW o, Confirming(c, o)'
    PROVE  \/ Confirming(c, o) /\ conf'[c] # IdleConf
           \/ /\ EasyPayReturn(c, o) /\ o \in DOMAIN orders /\ ~orders[o].paid
              /\ conf[c].pc = "idle" /\ \A d \in Confirms : d # c => conf'[d] = conf[d]
<1> USE DEF Types
<1>1. conf'[c].pc # "idle" /\ conf'[c].order = o /\ conf'[c] # IdleConf
  BY DEF Confirming, IdleConf
<1>2. ASSUME NEW p \in DOMAIN orders, Begun(c, p)
      PROVE  /\ EasyPayReturn(c, o) /\ o \in DOMAIN orders /\ ~orders[o].paid
             /\ conf[c].pc = "idle" /\ \A d \in Confirms : d # c => conf'[d] = conf[d]
  <2>1. p = o /\ EasyPayReturn(c, o)
    BY <1>1, <1>2 DEF Begun
  <2>2. \A d \in Confirms : d # c => conf'[d] = conf[d]
    BY <1>2, <2>1, Begins
  <2> QED
    BY <1>2, <2>1, <2>2 DEF EasyPayReturn, ConfirmPayment
<1>3. ASSUME NEW g \in GatewayResults, Answered(c, g) PROVE Confirming(c, o)
  BY <1>1, <1>3 DEF Answered, Approve, Confirming
<1>4. conf'[c] = conf[c] => Confirming(c, o)
  BY <1>1 DEF Confirming
<1> QED
  BY <1>1, <1>2, <1>3, <1>4, ConfirmationsMove

\* Only the return page brings a second confirmation of a first payment, and it
\* remembers the subscription then.
LEMMA FirstPaymentsStep ==
    ASSUME Types, Ledgers, PaidIsCharged, FirstPayments, [Next]_vars
    PROVE  FirstPayments'
<1> USE DEF Types, Ledgers
<1>r. raced \subseteq raced'
  BY CountersStep
<1>g. /\ RowType' /\ OrdersGrow /\ SubsGrow
      /\ DOMAIN orders = 1..Len(orders) /\ DOMAIN orders' = 1..Len(orders') /\ Len(orders) \in Nat /\ Len(orders') \in Nat
      /\ DOMAIN subs = 1..Len(subs) /\ DOMAIN subs' = 1..Len(subs') /\ Len(subs) \in Nat /\ Len(subs') \in Nat
  BY RowStep DEF RowType
<1> DEFINE Under(c, o) == conf'[c].pc # "idle" /\ conf'[c].order = o
\* An order without a confirmation, before its subscription's row is written.
<1>n. ASSUME NEW s \in DOMAIN subs', s \notin DOMAIN subs PROVE PaidByOne(subs[s].order)'
  <2>1. PICK r \in Requests : InsertSubscription(r)
    <3>1. RowsMove
      BY EveryStepMovesRows
    <3>2. ASSUME NEW c \in Confirms, CommitPayment(c) PROVE Len(subs') = Len(subs)
      BY <3>2, PaymentIsCommitted DEF SubWritten
    <3>3. ASSUME NEW r \in Runs, CommitCharge(r) PROVE Len(subs') = Len(subs)
      BY <3>3, ChargeIsCommitted DEF SubWritten
    <3>4. Len(subs') # Len(subs)
      BY <1>g, <1>n
    <3> QED
      BY <3>1, <3>2, <3>3, <3>4 DEF RowsMove, OrderAsked, OrderBilled, SubEnded, SubFails, SubSuspended, SubWritten,
                                    Approve, ChargeCard
  <2>2. PICK row \in SubRows : Subscribed(row) /\ row.order = req[r].order
    BY <2>1, SubIsInserted
  <2>3. subs'[s].order = req[r].order
    <3>1. s = Len(subs) + 1
      BY <1>g, <1>n, <2>2 DEF Subscribed
    <3> QED
      BY <2>2, <3>1 DEF Subscribed
  <2>4. req[r].pc = "sub" /\ orders' = orders /\ conf' = conf
    BY <2>1 DEF InsertSubscription
  <2>5. ~orders[req[r].order].paid /\ \A c \in Confirms : ~Confirming(c, req[r].order)
    BY <2>4 DEF FirstPayments
  <2>6. orders[req[r].order].pgRows = {}
    BY <2>4, <2>5 DEF FirstOrders, PaidIsCharged
  <2> QED
    BY <2>3, <2>4, <2>5, <2>6 DEF PaidByOne, Confirming
<1>s. ASSUME NEW s \in DOMAIN subs, s \notin raced' PROVE PaidByOne(subs[s].order)'
  <2>1. PICK o \in DOMAIN orders : subs[s].order = o /\ orders[o].sub = 0 /\ subs'[s].order = o
    BY <1>g DEF FirstOrders, SubsGrow
  <2>2. PaidByOne(o)
    BY <1>r, <1>s, <2>1 DEF FirstPayments
  <2>3. ASSUME NEW c \in Confirms, EasyPayReturn(c, o) PROVE \A d \in Confirms : ~Confirming(d, o)
    <3>1. s \notin Overlapped(o)
      BY <1>s, <2>3 DEF EasyPayReturn
    <3> QED
      BY <2>1, <3>1 DEF Overlapped, Confirming
  <2>4. ASSUME NEW c \in Confirms, Confirming(c, o)'
        PROVE  /\ ~orders'[o].paid
               /\ \A d \in Confirms : Confirming(d, o)' => d = c
    <3>1. CASE Confirming(c, o) /\ conf'[c] # IdleConf
      <4>1. ~orders[o].paid /\ \A d \in Confirms : Confirming(d, o) => d = c
        BY <2>2, <3>1 DEF PaidByOne
      <4>2. ~orders'[o].paid
        BY <2>1, <3>1, <4>1, FirstOrderMoves
      <4>3. ASSUME NEW d \in Confirms, Confirming(d, o)' PROVE d = c
        BY <2>3, <3>1, <4>1, <4>3, ConfirmingMoves
      <4> QED
        BY <4>2, <4>3
    <3>2. CASE /\ EasyPayReturn(c, o) /\ o \in DOMAIN orders /\ ~orders[o].paid
               /\ conf[c].pc = "idle" /\ \A d \in Confirms : d # c => conf'[d] = conf[d]
      <4>1. \A d \in Confirms : ~Confirming(d, o)
        BY <2>3, <3>2
      <4>2. orders' = orders
        BY <3>2 DEF EasyPayReturn
      <4>3. ASSUME NEW d \in Confirms, Confirming(d, o)' PROVE d = c
        BY <3>2, <4>1, <4>3 DEF Confirming
      <4> QED
        BY <3>2, <4>2, <4>3
    <3> QED
      BY <2>4, <3>1, <3>2, ConfirmingMoves
  <2>5. \A j, k \in orders'[o].pgRows : j = k
    <3>1. CASE orders'[o] = orders[o]
      BY <2>2, <3>1 DEF PaidByOne
    <3>2. ASSUME NEW c \in Confirms, Confirming(c, o),
                 orders'[o].pgRows = orders[o].pgRows \union {conf[c].number}
          PROVE  \A j, k \in orders'[o].pgRows : j = k
      <4>1. ~orders[o].paid
        BY <2>2, <3>2 DEF PaidByOne
      <4>2. orders[o].pgRows = {}
        BY <2>1, <4>1 DEF PaidIsCharged
      <4> QED
        BY <3>2, <4>2
    <3> QED
      BY <2>1, <3>1, <3>2, FirstOrderMoves
  <2>6. PaidByOne(o)'
    <3>1. \A c \in Confirms : Confirming(c, o)' => /\ ~orders'[o].paid
                                                  /\ \A d \in Confirms : Confirming(d, o)' => d = c
      BY <2>4
    <3> QED
      BY <2>5, <3>1 DEF PaidByOne, Confirming
  <2> QED
    BY <2>1, <2>6 DEF PaidByOne, Confirming
<1>q. ASSUME NEW r \in Requests, req'[r].pc = "sub"
      PROVE  ~orders'[req'[r].order].paid /\ \A c \in Confirms : ~Under(c, req'[r].order)
  <2>1. CASE req'[r] = req[r]
    <3>1. PICK o \in DOMAIN orders : /\ req[r].order = o /\ orders[o].sub = 0
                                    /\ ~orders[o].paid /\ \A c \in Confirms : ~Confirming(c, o)
      BY <1>q, <2>1 DEF FirstOrders, FirstPayments
    <3>2. ~orders'[o].paid
      BY <3>1, FirstOrderMoves
    <3>3. ASSUME NEW c \in Confirms, Confirming(c, o)' PROVE FALSE
      <4>1. EasyPayReturn(c, o)
        BY <3>1, <3>3, ConfirmingMoves
      <4> QED
        BY <1>q, <2>1, <3>1, <4>1 DEF EasyPayReturn
    <3>4. \A c \in Confirms : ~Under(c, o)
      BY <3>3 DEF Confirming
    <3> QED
      BY <2>1, <3>1, <3>2, <3>4
  <2>2. CASE req'[r] # req[r]
    <3>1. PICK q \in Requests : SubscriptionOrder(q)
      BY <1>q, <2>2, RequestsMove
    <3>2. q = r /\ req'[r].order = Len(orders) + 1 /\ conf' = conf
      BY <2>2, <3>1 DEF SubscriptionOrder, ReqType
    <3> DEFINE n == Len(orders) + 1
    <3>3. n \in DOMAIN orders' /\ n \notin DOMAIN orders
      <4>1. Len(orders') = Len(orders) + 1
        <5>1. orders' = Append(orders, NewOrder(req[q].usr, "P", req[q].amount, 0, "CARD" # "BANK"))
          BY <3>1 DEF SubscriptionOrder, CreateOrder, InsertOrder
        <5> QED
          BY <5>1, AppendProperties DEF RowType, SubscriptionOrder
      <4> QED
        BY <1>g, <4>1
    <3>4. ~orders'[n].paid
      <4>1. ASSUME NEW c \in Confirms, CommitPayment(c), n = conf[c].order PROVE FALSE
        BY <3>3, <4>1, PaymentIsCommitted
      <4>2. ASSUME NEW p \in Runs, CommitCharge(p), n = run[p].order PROVE FALSE
        BY <3>3, <4>2, ChargeIsCommitted
      <4> QED
        BY <3>3, <4>1, <4>2, OrdersMove DEF OrderMoves
    <3>5. \A c \in Confirms : ~Under(c, n)
      BY <3>2, <3>3 DEF Confirmations
    <3> QED
      BY <3>2, <3>4, <3>5
  <2> QED
    BY <2>1, <2>2
<1>1. \A s \in DOMAIN subs' \ raced' : PaidByOne(subs[s].order)'
  BY <1>n, <1>s
<1>2. \A r \in Requests : req'[r].pc = "sub" =>
        ~orders'[req'[r].order].paid /\ \A c \in Confirms : ~Under(c, req'[r].order)
  BY <1>q
<1> QED
  BY <1>1, <1>2 DEF FirstPayments, PaidByOne, Confirming

LEMMA BilledOnceStep ==
    ASSUME Types, Ledgers, BilledOnce, [Next]_vars
    PROVE  BilledOnce'
<1> USE DEF Types, Ledgers
<1>1. ASSUME NEW o \in DOMAIN orders', orders'[o].sub # 0 PROVE charged'[o] <= 1
  <2>1. CASE o \in DOMAIN orders
    <3>1. orders[o].sub # 0 /\ charged[o] <= 1 /\ ~orders[o].window
      BY <1>1, <2>1, RowStep DEF OrdersGrow, BilledOnce, BillingOrders
    <3>2. ASSUME NEW c \in Confirms, NEW g \in GatewayResults, Approve(c, g), o = conf[c].order PROVE FALSE
      BY <3>1, <3>2 DEF Approve, Confirmations
    <3>3. ASSUME NEW r \in Runs, NEW g \in GatewayResults, ChargeCard(r, g), o = run[r].order PROVE charged'[o] <= 1
      <4>1. Charge(o, g) /\ charged[o] = 0
        BY <3>3 DEF ChargeCard, AutoBilling
      <4>2. charged'[o] = (IF g.took THEN charged[o] + 1 ELSE charged[o])
        BY <2>1, <4>1, ApprovalIsCounted
      <4> QED
        BY <4>1, <4>2
    <3> QED
      BY <2>1, <3>1, <3>2, <3>3, CountsMove
  <2>2. CASE o \notin DOMAIN orders
    <3>1. ASSUME NEW c \in Confirms, CommitPayment(c), o = conf[c].order PROVE FALSE
      BY <2>2, <3>1, PaymentIsCommitted
    <3>2. ASSUME NEW r \in Runs, CommitCharge(r), o = run[r].order PROVE FALSE
      BY <2>2, <3>2, ChargeIsCommitted
    <3>3. charged'[o] = 0
      BY <2>2, <3>1, <3>2, OrdersMove DEF OrderMoves
    <3> QED
      BY <3>3
  <2> QED
    BY <2>1, <2>2
<1> QED
  BY <1>1 DEF BilledOnce

-----------------------------------------------------------------------------
(* What a step does to one subscription *)

\* The first payment of a subscription is recorded, with its activation.
SubActivated(c, s) ==
    /\ CommitPayment(c) /\ conf[c].sub = s /\ subs[s].order = conf[c].order
    /\ subs'[s].status = "active" /\ subs'[s].last = MonthOf(today)

\* A charge of a subscription is recorded, and the run goes on.
SubCharged(r, s) ==
    /\ CommitCharge(r) /\ run[r].pc = "commit" /\ Current(r) = s /\ s \in run[r].due
    /\ run'[r] = IdleRun \/ NextRow(r)
    /\ subs'[s].status = subs[s].status /\ subs'[s].last = MonthOf(run[r].day)

SubMoves(s) ==
    \/ s \in DOMAIN subs /\ subs'[s] = subs[s]
    \/ /\ s = Len(subs) + 1 /\ s \notin DOMAIN subs /\ subs'[s].last = 0 /\ subs'[s].status = "pending"
       /\ UNCHANGED <<orders, run>>
    \/ s \in DOMAIN subs /\ SubEnded(s)
    \/ s \in DOMAIN subs /\ \E c \in Confirms : SubActivated(c, s)
    \/ s \in DOMAIN subs /\ \E r \in Runs : SubCharged(r, s) \/ (SubFails(r) /\ Current(r) = s) \/ (SubSuspended(r) /\ Current(r) = s)

LEMMA SubsMove ==
    ASSUME Types, Confirmations, Charges, [Next]_vars, NEW s \in DOMAIN subs'
    PROVE  SubMoves(s)
<1> USE DEF Types
<1>g. /\ RowType' /\ DOMAIN subs = 1..Len(subs) /\ DOMAIN subs' = 1..Len(subs')
      /\ Len(subs) \in Nat /\ Len(subs') \in Nat
  BY RowStep DEF RowType
<1>w. ASSUME NEW t \in DOMAIN subs, SubWritten(t), t # s PROVE SubMoves(s)
  BY <1>g, <1>w DEF SubWritten, SubMoves
<1>e. ASSUME NEW t, SubWritten(t) PROVE s \in DOMAIN subs
  BY <1>g, <1>e DEF SubWritten
<1>u. subs' = subs => SubMoves(s)
  BY DEF SubMoves
<1>1. ASSUME NEW r \in Requests, InsertSubscription(r) PROVE SubMoves(s)
  <2>1. PICK row \in SubRows : Subscribed(row) /\ row.status = "pending" /\ row.last = 0
    BY <1>1, SubIsInserted
  <2>2. CASE s \in DOMAIN subs
    BY <2>1, <2>2 DEF Subscribed, SubMoves
  <2>3. CASE s \notin DOMAIN subs
    <3>1. s = Len(subs) + 1 /\ subs'[s] = row
      BY <1>g, <2>1, <2>3 DEF Subscribed
    <3> QED
      BY <1>1, <2>1, <2>3, <3>1 DEF SubMoves, InsertSubscription
  <2> QED
    BY <2>2, <2>3
<1>2. ASSUME NEW t \in DOMAIN subs, SubEnded(t) PROVE SubMoves(s)
  BY <1>2, <1>w, <1>e DEF SubEnded, SubMoves
<1>3. ASSUME NEW c \in Confirms, CommitPayment(c) PROVE SubMoves(s)
  <2>1. CASE conf[c].sub = 0
    <3>1. 0 \notin DOMAIN subs
      BY <1>g
    <3>2. subs' = subs
      BY <1>3, <2>1, <3>1, PaymentIsCommitted
    <3> QED
      BY <1>u, <3>2
  <2>2. CASE conf[c].sub \in DOMAIN subs /\ subs[conf[c].sub].order = conf[c].order
             /\ SubWritten(conf[c].sub) /\ subs'[conf[c].sub].status = "active"
             /\ subs'[conf[c].sub].last = MonthOf(today)
    <3>1. CASE s = conf[c].sub
      <4>1. SubActivated(c, s)
        BY <1>3, <2>2, <3>1 DEF SubActivated
      <4> QED
        BY <1>e, <2>2, <4>1 DEF SubMoves
    <3> QED
      BY <1>w, <2>2, <3>1
  <2> QED
    BY <1>3, <1>u, <2>1, <2>2, PaymentIsCommitted
<1>4. ASSUME NEW r \in Runs, CommitCharge(r) PROVE SubMoves(s)
  <2>1. /\ Current(r) \in DOMAIN subs /\ Current(r) \in run[r].due /\ SubWritten(Current(r))
        /\ subs'[Current(r)].status = subs[Current(r)].status /\ subs'[Current(r)].last = MonthOf(run[r].day)
    BY <1>4, ChargeIsCommitted
  <2>2. CASE s = Current(r)
    <3>1. run[r].pc = "commit" /\ Advance(r)
      BY <1>4 DEF CommitCharge
    <3>2. run'[r] = IdleRun \/ NextRow(r)
      BY <3>1, RunAdvances DEF NextRow
    <3>3. SubCharged(r, s)
      BY <1>4, <2>1, <2>2, <3>1, <3>2 DEF SubCharged
    <3> QED
      BY <2>1, <2>2, <3>3 DEF SubMoves
  <2> QED
    BY <1>w, <2>1, <2>2
<1>5. ASSUME NEW r \in Runs, SubFails(r) PROVE SubMoves(s)
  <2>1. Current(r) \in DOMAIN subs /\ SubWritten(Current(r))
    BY <1>5 DEF SubFails
  <2>2. CASE s = Current(r)
    BY <1>5, <2>1, <2>2 DEF SubMoves
  <2> QED
    BY <1>w, <2>1, <2>2
<1>6. ASSUME NEW r \in Runs, SubSuspended(r) PROVE SubMoves(s)
  <2>1. Current(r) \in DOMAIN subs /\ SubWritten(Current(r))
    BY <1>6 DEF SubSuspended
  <2>2. CASE s = Current(r)
    BY <1>6, <2>1, <2>2 DEF SubMoves
  <2> QED
    BY <1>w, <2>1, <2>2
<1>7. RowsMove
  BY EveryStepMovesRows
<1> QED
  BY <1>u, <1>1, <1>2, <1>3, <1>4, <1>5, <1>6, <1>7 DEF RowsMove, OrderAsked, OrderBilled, Approve, ChargeCard

\* A payment, once recorded, keeps its month.
LEMMA PaidStays ==
    ASSUME Types, Confirmations, Charges, [Next]_vars, NEW o \in DOMAIN orders, orders[o].paid
    PROVE  o \in DOMAIN orders' /\ orders'[o].paid /\ orders'[o].month = orders[o].month
<1> USE DEF Types
<1>1. o \in DOMAIN orders'
  BY RowStep DEF RowType, OrdersGrow
<1>2. ASSUME NEW c \in Confirms, CommitPayment(c), o = conf[c].order
      PROVE  orders'[o].paid /\ orders'[o].month = orders[o].month
  BY <1>2, PaymentIsCommitted DEF PaidOrder
<1>3. ASSUME NEW r \in Runs, CommitCharge(r), o = run[r].order PROVE FALSE
  BY <1>3, ChargeIsCommitted
<1> QED
  BY <1>1, <1>2, <1>3, OrdersMove DEF OrderMoves

\* A row that is listed or was billed has its first order paid: only a
\* confirmation that was under way beside the first one activates it again.
LEMMA ActivationOfListed ==
    ASSUME Types, PaidFirst, FirstPayments, NEW s \in DOMAIN subs, NEW c \in Confirms, SubActivated(c, s),
           subs[s].last # 0 \/ \E r \in Runs : s \in Listed(r)
    PROVE  s \in raced
<1>1. subs[s].last # 0
  BY DEF PaidFirst
<1>2. orders[subs[s].order].paid
  BY <1>1 DEF PaidFirst
<1>3. Confirming(c, subs[s].order)
  BY DEF SubActivated, CommitPayment, Confirming
<1> QED
  BY <1>2, <1>3 DEF FirstPayments, PaidByOne

\* The statements about subscriptions that the months rest on.
Months == PaidFirst /\ MonthsApart /\ ListedIsDue /\ SuspendsFailing /\ SuspensionIsEarned

LEMMA PaidFirstStep ==
    ASSUME Types, Ledgers, PaidFirst, [Next]_vars
    PROVE  PaidFirst'
<1> USE DEF Types, Ledgers
<1>g. /\ RowType' /\ OrdersGrow /\ SubsGrow
      /\ DOMAIN orders = 1..Len(orders) /\ DOMAIN orders' = 1..Len(orders') /\ Len(orders) \in Nat /\ Len(orders') \in Nat
      /\ DOMAIN subs = 1..Len(subs) /\ DOMAIN subs' = 1..Len(subs') /\ Len(subs) \in Nat /\ Len(subs') \in Nat
  BY RowStep DEF RowType
<1> DEFINE Unpaid(s) == /\ subs'[s].status # "active"
                        /\ \A o \in DOMAIN orders' : orders'[o].sub # s
                        /\ \A r \in Runs : s \notin Listed(r)'
<1>1. ASSUME NEW s \in DOMAIN subs', subs'[s].last = 0 PROVE Unpaid(s)
  <2>1. CASE s \notin DOMAIN subs
    <3>1. s = Len(subs) + 1 /\ subs'[s].status = "pending" /\ UNCHANGED <<orders, run>>
      BY <2>1, SubsMove DEF SubMoves
    <3>2. \A o \in DOMAIN orders' : orders'[o].sub # s
      BY <1>g, <3>1 DEF BillingOrders
    <3>3. \A r \in Runs : s \notin Listed(r)'
      BY <2>1, <3>1 DEF Listed, RunType
    <3> QED
      BY <3>1, <3>2, <3>3
  <2>2. CASE s \in DOMAIN subs
    <3>1. SubMoves(s)
      BY SubsMove
    <3>2. ASSUME NEW c \in Confirms, SubActivated(c, s) PROVE FALSE
      <4>1. today \in Nat
        BY CalendarAssumption DEF CounterType
      <4> QED
        BY <1>1, <3>2, <4>1, MonthIsPositive DEF SubActivated
    <3>3. ASSUME NEW r \in Runs, SubCharged(r, s) PROVE FALSE
      <4>1. run[r].day \in Nat
        BY <3>3, ChargeIsCommitted DEF SubCharged
      <4> QED
        BY <1>1, <3>3, <4>1, MonthIsPositive DEF SubCharged
    <3>4. subs[s].last = 0 /\ (subs'[s].status = subs[s].status \/ subs'[s].status # "active")
      BY <1>1, <2>2, <3>1, <3>2, <3>3 DEF SubMoves, SubEnded, SubFails, SubSuspended
    <3>5. /\ subs[s].status # "active"
          /\ \A o \in DOMAIN orders : orders[o].sub # s
          /\ \A r \in Runs : s \notin Listed(r)
      BY <2>2, <3>4 DEF PaidFirst
    <3>6. ASSUME NEW o \in DOMAIN orders', orders'[o].sub = s PROVE FALSE
      <4>1. o \notin DOMAIN orders
        BY <1>g, <3>5, <3>6 DEF OrdersGrow
      <4>2. s # 0
        BY <1>g
      <4>3. PICK r \in Runs : OrderBilled(r) /\ orders'[o].sub = Current(r)
        <5>1. OrderMoves(o)
          BY OrdersMove
        <5>2. ASSUME NEW c \in Confirms, CommitPayment(c), o = conf[c].order PROVE FALSE
          BY <4>1, <5>2, PaymentIsCommitted
        <5>3. ASSUME NEW r \in Runs, CommitCharge(r), o = run[r].order PROVE FALSE
          BY <4>1, <5>3, ChargeIsCommitted
        <5> QED
          BY <3>6, <4>1, <4>2, <5>1, <5>2, <5>3 DEF OrderMoves
      <4>4. s \in Listed(r)
        BY <3>6, <4>3 DEF OrderBilled, Listed
      <4> QED
        BY <3>5, <4>4
    <3>7. ASSUME NEW r \in Runs, s \in Listed(r)' PROVE FALSE
      <4>1. RunMoves(r)
        BY RunsMove
      <4>2. run'[r].pc # "idle" /\ s \in run'[r].due /\ run'[r] # IdleRun
        BY <3>7 DEF Listed, IdleRun
      <4>3. ASSUME NEW d \in 0..MaxDay, Listing(r, d) PROVE FALSE
        BY <3>5, <4>2, <4>3 DEF Listing, ListDueForBilling
      <4>4. s \in run[r].due /\ run[r].pc # "idle"
        BY <4>1, <4>2, <4>3 DEF RunMoves, NextRow, SameRow
      <4> QED
        BY <3>5, <4>4 DEF Listed
    <3> QED
      BY <3>4, <3>5, <3>6, <3>7
  <2> QED
    BY <2>1, <2>2
<1>2. ASSUME NEW s \in DOMAIN subs', subs'[s].last # 0 PROVE orders'[subs'[s].order].paid
  <2>1. s \in DOMAIN subs /\ SubMoves(s)
    BY <1>2, SubsMove DEF SubMoves
  <2>2. subs'[s].order = subs[s].order /\ subs[s].order \in DOMAIN orders
    BY <1>g, <2>1 DEF SubsGrow, FirstOrders
  <2>3. subs[s].last # 0 => orders[subs[s].order].paid
    BY <2>1 DEF PaidFirst
  <2>4. ASSUME NEW c \in Confirms, SubActivated(c, s) PROVE orders'[subs[s].order].paid
    BY <2>4, PaymentIsCommitted DEF SubActivated, PaidOrder
  <2>5. ASSUME NEW r \in Runs, SubCharged(r, s) PROVE subs[s].last # 0
    <3>1. s \in Listed(r)
      BY <2>5 DEF SubCharged, Listed
    <3> QED
      BY <2>1, <3>1 DEF PaidFirst
  <2>6. subs[s].last # 0 \/ \E c \in Confirms : SubActivated(c, s)
    BY <1>2, <2>1, <2>5 DEF SubMoves, SubEnded, SubFails, SubSuspended
  <2> QED
    BY <2>2, <2>3, <2>4, <2>6, PaidStays
<1>3. ASSUME NEW s \in DOMAIN subs'
      PROVE  IF subs'[s].last = 0
             THEN /\ subs'[s].status # "active"
                  /\ \A o \in DOMAIN orders' : orders'[o].sub # s
                  /\ \A r \in Runs : s \notin Listed(r)'
             ELSE orders'[subs'[s].order].paid
  BY <1>1, <1>2
<1> QED
  BY <1>3 DEF PaidFirst

\* A row that is listed by one run only has moved by that run, or by its end.
LEMMA ListedIsDueStep ==
    ASSUME Types, Ledgers, FirstPayments, PaidFirst, ListedIsDue, [Next]_vars
    PROVE  ListedIsDue'
<1> USE DEF Types, Ledgers
<1>r. raced \subseteq raced'
  BY CountersStep
<1> DEFINE Due(r, s) == /\ subs'[s].last < MonthOf(run'[r].day) /\ subs'[s].status # "suspended"
                        /\ \A q \in Runs : s \in Listed(q)' => q = r
<1>b. ASSUME NEW r \in Runs, NEW d \in 0..MaxDay, Listing(r, d), NEW s \in Listed(r)' \ raced' PROVE Due(r, s)
  <2>1. /\ run'[r].pc = "next" /\ run'[r].day = d /\ RunOnce(r, d) /\ subs' = subs
        /\ s \in ListDueForBilling(BillDayOf(d), MonthOf(d))
    BY <1>b DEF Listing, Listed, RunOnce
  <2>2. subs[s].last < MonthOf(d) /\ subs[s].status = "active"
    BY <2>1 DEF ListDueForBilling
  <2>3. \A q \in Runs : s \notin Listed(q)
    BY <1>b, <2>1 DEF RunOnce
  <2>4. ASSUME NEW q \in Runs, s \in Listed(q)', q # r PROVE FALSE
    <3>1. run'[q] = run[q]
      BY <2>1, <2>4 DEF RunOnce, RunType
    <3>2. s \in Listed(q)
      BY <2>4, <3>1 DEF Listed
    <3> QED
      BY <2>3, <3>2
  <2> QED
    BY <2>1, <2>2, <2>4
<1>s. ASSUME NEW r \in Runs, NEW s \in Listed(r)' \ raced', s \in Listed(r), run'[r].day = run[r].day PROVE Due(r, s)
  <2>1. /\ s \notin raced /\ s \in DOMAIN subs
        /\ subs[s].last < MonthOf(run[r].day) /\ subs[s].status # "suspended"
        /\ \A q \in Runs : s \in Listed(q) => q = r
    BY <1>r, <1>s DEF ListedIsDue, Listed, RunType
  <2>2. s \in run'[r].due /\ run'[r] # IdleRun
    BY <1>s DEF Listed, IdleRun
  <2>3. s \in DOMAIN subs' /\ SubMoves(s)
    <3>1. s \in DOMAIN subs'
      BY <2>1, RowStep DEF SubsGrow, RowType
    <3> QED
      BY <3>1, SubsMove
  <2>4. ASSUME NEW c \in Confirms, SubActivated(c, s) PROVE FALSE
    BY <1>s, <2>1, <2>4, ActivationOfListed
  <2>5. ASSUME NEW q \in Runs, SubCharged(q, s) \/ (SubSuspended(q) /\ Current(q) = s) PROVE FALSE
    <3>1. s \in run[q].due /\ run[q].pc # "idle" /\ Current(q) = s /\ (run'[q] = IdleRun \/ NextRow(q))
      BY <2>5 DEF SubCharged, SubSuspended
    <3>2. q = r
      BY <2>1, <3>1 DEF Listed
    <3> QED
      BY <2>2, <3>1, <3>2 DEF NextRow
  <2>6. subs'[s].last = subs[s].last /\ subs'[s].status # "suspended"
    BY <2>1, <2>3, <2>4, <2>5 DEF SubMoves, SubEnded, SubFails
  <2>7. ASSUME NEW q \in Runs, s \in Listed(q)' PROVE q = r
    <3>1. RunMoves(q)
      BY RunsMove
    <3>2. run'[q].pc # "idle" /\ s \in run'[q].due /\ run'[q] # IdleRun
      BY <2>7 DEF Listed, IdleRun
    <3>3. ASSUME NEW d \in 0..MaxDay, Listing(q, d) PROVE FALSE
      <4>1. s \in ListDueForBilling(BillDayOf(d), MonthOf(d)) /\ RunOnce(q, d)
        BY <3>2, <3>3 DEF Listing
      <4>2. s \in raced'
        BY <1>s, <4>1 DEF RunOnce
      <4> QED
        BY <1>s, <4>2
    <3>4. s \in Listed(q)
      BY <3>1, <3>2, <3>3 DEF RunMoves, NextRow, SameRow, Listed
    <3> QED
      BY <2>1, <3>4
  <2> QED
    BY <1>s, <2>1, <2>6, <2>7
<1>1. ASSUME NEW r \in Runs, NEW s \in Listed(r)' \ raced' PROVE Due(r, s)
  <2>1. RunMoves(r)
    BY RunsMove
  <2>2. run'[r].pc # "idle" /\ s \in run'[r].due /\ run'[r] # IdleRun
    BY <1>1 DEF Listed, IdleRun
  <2>3. \/ \E d \in 0..MaxDay : Listing(r, d)
        \/ s \in Listed(r) /\ run'[r].day = run[r].day
    BY <2>1, <2>2 DEF RunMoves, NextRow, SameRow, Listed
  <2> HIDE DEF Due
  <2> QED
    BY <1>b, <1>s, <1>1, <2>3
<1> QED
  BY <1>1 DEF ListedIsDue

\* A row that is at its threshold stays there until its run has suspended it.
LEMMA SuspendsFailingStep ==
    ASSUME Types, Ledgers, FirstPayments, PaidFirst, ListedIsDue, SuspendsFailing, [Next]_vars
    PROVE  SuspendsFailing'
<1> USE DEF Types, Ledgers
<1>r. raced \subseteq raced'
  BY CountersStep
<1>1. ASSUME NEW r \in Runs, run'[r].pc = "suspend", Min(run'[r].due) \notin raced'
      PROVE  subs'[Min(run'[r].due)].fails >= MaxConsecutiveFails
  <2> DEFINE s == Current(r)
  <2>1. /\ run[r].pc # "idle" /\ run'[r].due = run[r].due /\ run'[r] # IdleRun /\ run'[r].pc # "next"
        /\ (run[r].pc = "suspend" \/ subs[s].fails >= MaxConsecutiveFails)
    <3>1. RunMoves(r)
      BY RunsMove
    <3>2. run'[r] # IdleRun
      BY <1>1 DEF IdleRun
    <3> QED
      BY <1>1, <3>1, <3>2 DEF RunMoves, Listing, NextRow, SameRow
  <2>2. s = Min(run'[r].due) /\ s \notin raced'
    BY <1>1, <2>1 DEF Current
  <2>3. s \in run[r].due /\ s \in DOMAIN subs /\ s \in Listed(r) /\ s \notin raced
    BY <1>r, <2>1, <2>2, CurrentIsListed DEF Listed
  <2>4. subs[s].fails >= MaxConsecutiveFails
    BY <2>1, <2>3 DEF SuspendsFailing
  <2>5. \A q \in Runs : s \in Listed(q) => q = r
    BY <2>3 DEF ListedIsDue
  <2>6. s \in DOMAIN subs' /\ SubMoves(s)
    <3>1. s \in DOMAIN subs'
      BY <2>3, RowStep DEF SubsGrow, RowType
    <3> QED
      BY <3>1, SubsMove
  <2>7. ASSUME NEW c \in Confirms, SubActivated(c, s) PROVE FALSE
    BY <2>2, <2>3, <2>7, ActivationOfListed
  <2>8. ASSUME NEW q \in Runs, SubCharged(q, s) PROVE FALSE
    <3>1. s \in Listed(q) /\ (run'[q] = IdleRun \/ run'[q].pc = "next")
      BY <2>8 DEF SubCharged, NextRow, Listed
    <3> QED
      BY <2>1, <2>5, <3>1
  <2>9. \/ subs'[s].fails = subs[s].fails
        \/ subs'[s].fails >= subs[s].fails /\ \E q \in Runs : SubFails(q)
    BY <2>3, <2>6, <2>7, <2>8 DEF SubMoves, SubEnded, SubFails, SubSuspended
  <2>10. subs[s].fails \in Nat /\ subs'[s].fails \in Nat /\ MaxConsecutiveFails \in Nat
    <3>1. subs[s] \in SubRows
      BY <2>3, RowOfSub
    <3>2. subs'[s] \in SubRows
      <4>1. subs' \in Seq(SubRows) /\ s \in 1..Len(subs')
        BY <2>6, RowStep DEF RowType
      <4> QED
        BY <4>1, ElementOfSeq
    <3> QED
      BY <3>1, <3>2, CalendarAssumption DEF SubRows
  <2>11. subs'[s].fails >= MaxConsecutiveFails
    <3> HIDE DEF s
    <3> QED
      BY <2>4, <2>9, <2>10
  <2> QED
    BY <2>2, <2>11
<1> QED
  BY <1>1 DEF SuspendsFailing, Current

LEMMA SuspensionStep ==
    ASSUME Types, Ledgers, PaidFirst, ListedIsDue, SuspendsFailing, SuspensionIsEarned, [Next]_vars
    PROVE  SuspensionIsEarned'
<1> USE DEF Types, Ledgers
<1>r. raced \subseteq raced'
  BY CountersStep
<1>1. ASSUME NEW s \in DOMAIN subs' \ raced', subs'[s].status = "suspended"
      PROVE  subs'[s].fails >= MaxConsecutiveFails
  <2>1. SubMoves(s) /\ s \notin raced
    BY <1>r, SubsMove
  <2>2. ASSUME NEW c \in Confirms, SubActivated(c, s) PROVE FALSE
    BY <1>1, <2>2 DEF SubActivated
  <2>3. ASSUME NEW r \in Runs, SubCharged(r, s) PROVE FALSE
    <3>1. s \in Listed(r) /\ subs[s].status = "suspended"
      BY <1>1, <2>3 DEF SubCharged, Listed
    <3> QED
      BY <2>1, <3>1 DEF ListedIsDue
  <2>4. ASSUME NEW r \in Runs, SubSuspended(r), Current(r) = s PROVE subs'[s].fails >= MaxConsecutiveFails
    BY <2>1, <2>4 DEF SubSuspended, SuspendsFailing
  <2>5. CASE s \in DOMAIN subs /\ subs[s].status = "suspended" /\ subs'[s].fails = subs[s].fails
    BY <2>1, <2>5 DEF SuspensionIsEarned
  <2>6. CASE s \in DOMAIN subs /\ subs[s].status = "suspended" /\ subs'[s].fails >= subs[s].fails
    <3>1. subs[s].fails >= MaxConsecutiveFails
      BY <2>1, <2>6 DEF SuspensionIsEarned
    <3>2. subs[s].fails \in Nat /\ subs'[s].fails \in Nat /\ MaxConsecutiveFails \in Nat
      <4>1. subs[s] \in SubRows
        BY <2>6, RowOfSub
      <4>2. subs'[s] \in SubRows
        <5>1. subs' \in Seq(SubRows) /\ s \in 1..Len(subs')
          BY RowStep DEF RowType
        <5> QED
          BY <5>1, ElementOfSeq
      <4> QED
        BY <4>1, <4>2, CalendarAssumption DEF SubRows
    <3> QED
      BY <2>6, <3>1, <3>2
  <2> QED
    BY <1>1, <2>1, <2>2, <2>3, <2>4, <2>5, <2>6 DEF SubMoves, SubEnded, SubFails
<1> QED
  BY <1>1 DEF SuspensionIsEarned

\* The heart of the matter: an order becomes a payment of a subscription in
\* two ways.  Its first order does when nothing else was paid for it, and an
\* order of the run that alone listed it does for a month that is later than
\* the months of all payments before.
LEMMA MonthsApartStep ==
    ASSUME Types, Ledgers, FirstPayments, PaidFirst, MonthsApart, ListedIsDue, [Next]_vars
    PROVE  MonthsApart'
<1> USE DEF Types, Ledgers
<1>g. /\ RowType' /\ OrdersGrow /\ SubsGrow
      /\ DOMAIN orders = 1..Len(orders) /\ DOMAIN orders' = 1..Len(orders') /\ Len(orders) \in Nat /\ Len(orders') \in Nat
      /\ DOMAIN subs = 1..Len(subs) /\ DOMAIN subs' = 1..Len(subs') /\ Len(subs) \in Nat /\ Len(subs') \in Nat
  BY RowStep DEF RowType
<1>r. raced \subseteq raced'
  BY CountersStep
<1> DEFINE Pays(o, s) == orders'[o].paid /\ (orders'[o].sub = s \/ subs'[s].order = o)
<1> DEFINE Apart(s) ==
        \A o \in DOMAIN orders' : Pays(o, s) =>
            /\ subs'[s].last # 0 => orders'[o].month <= subs'[s].last
            /\ \A p \in DOMAIN orders' : Pays(p, s) /\ orders'[p].month = orders'[o].month => p = o
\* No order of s becomes paid and s is billed for no other month.
<1>k. ASSUME NEW s \in DOMAIN subs \ raced, subs'[s].last = subs[s].last,
             \A o \in DOMAIN orders' : Pays(o, s) =>
                o \in DOMAIN orders /\ PaysFor(o, s) /\ orders'[o].month = orders[o].month
      PROVE  Apart(s)
  BY <1>k DEF MonthsApart
\* A new subscription: only its first order can be paid already.
<1>n. ASSUME NEW s \in DOMAIN subs', s \notin DOMAIN subs PROVE Apart(s)
  <2>1. s = Len(subs) + 1 /\ subs'[s].last = 0 /\ orders' = orders
    BY <1>n, SubsMove DEF SubMoves
  <2>2. \A o \in DOMAIN orders' : orders'[o].sub # s
    BY <1>g, <2>1 DEF BillingOrders
  <2> QED
    BY <2>1, <2>2
<1>o. ASSUME NEW s \in DOMAIN subs, s \notin raced'
      PROVE  /\ subs'[s].order = subs[s].order /\ s # 0 /\ s \in DOMAIN subs' /\ s \notin raced
             /\ \A o \in DOMAIN orders : o \in DOMAIN orders' /\ orders'[o].sub = orders[o].sub
  BY <1>g, <1>r, <1>o DEF SubsGrow, OrdersGrow
\* An order that was not there is not paid.
<1>u. ASSUME NEW o \in DOMAIN orders', o \notin DOMAIN orders PROVE ~orders'[o].paid
  <2>1. ASSUME NEW c \in Confirms, CommitPayment(c), o = conf[c].order PROVE FALSE
    BY <1>u, <2>1, PaymentIsCommitted
  <2>2. ASSUME NEW r \in Runs, CommitCharge(r), o = run[r].order PROVE FALSE
    BY <1>u, <2>2, ChargeIsCommitted
  <2> QED
    BY <1>u, <2>1, <2>2, OrdersMove DEF OrderMoves
<1>p. ASSUME NEW s \in DOMAIN subs, s \notin raced', NEW c \in Confirms, CommitPayment(c) PROVE Apart(s)
  <2> DEFINE o1 == conf[c].order
  <2>1. /\ o1 \in DOMAIN orders /\ orders[o1].window
        /\ PaidOrder(o1, conf[c].number, conf[c].amount, MonthOf(today))
        /\ \/ conf[c].sub = 0 /\ subs' = subs
           \/ /\ conf[c].sub \in DOMAIN subs /\ subs[conf[c].sub].order = o1
              /\ SubWritten(conf[c].sub) /\ subs'[conf[c].sub].last = MonthOf(today)
    BY <1>p, PaymentIsCommitted
  <2>2. orders[o1].sub # s
    BY <1>o, <1>p, <2>1 DEF BillingOrders
  <2>3. \A o \in DOMAIN orders' : o \in DOMAIN orders /\ (o # o1 => orders'[o] = orders[o])
    BY <1>g, <2>1 DEF PaidOrder
  <2>4. conf[c].sub # s => subs'[s] = subs[s]
    BY <1>p, <2>1 DEF SubWritten
  <2>5. CASE orders[o1].paid
    <3>1. conf[c].sub # s
      <4>1. s \notin raced
        BY <1>o, <1>p
      <4>2. Confirming(c, o1)
        BY <1>p DEF CommitPayment, Confirming
      <4>3. subs[s].order # o1
        BY <1>p, <2>5, <4>1, <4>2 DEF FirstPayments, PaidByOne
      <4> QED
        BY <1>o, <1>p, <2>1, <4>3
    <3>2. orders'[o1].paid /\ orders'[o1].month = orders[o1].month
      BY <2>1, <2>5, PaidStays
    <3>3. \A o \in DOMAIN orders' : Pays(o, s) =>
             o \in DOMAIN orders /\ PaysFor(o, s) /\ orders'[o].month = orders[o].month
      BY <1>o, <1>p, <2>3, <2>5, <3>2 DEF PaysFor
    <3> QED
      BY <1>k, <1>o, <1>p, <2>4, <3>1, <3>3
  <2>6. CASE ~orders[o1].paid /\ subs[s].order # o1
    <3>1. conf[c].sub # s
      BY <1>o, <1>p, <2>1, <2>6
    <3>2. \A o \in DOMAIN orders' : Pays(o, s) => o # o1
      BY <1>o, <1>p, <2>1, <2>2, <2>6
    <3>3. \A o \in DOMAIN orders' : Pays(o, s) =>
             o \in DOMAIN orders /\ PaysFor(o, s) /\ orders'[o].month = orders[o].month
      BY <1>o, <1>p, <2>3, <3>2 DEF PaysFor
    <3> QED
      BY <1>k, <1>o, <1>p, <2>4, <3>1, <3>3
  <2>7. CASE ~orders[o1].paid /\ subs[s].order = o1
    <3>1. subs[s].last = 0 /\ \A o \in DOMAIN orders : orders[o].sub # s
      BY <1>p, <2>7 DEF PaidFirst
    <3>2. \A o \in DOMAIN orders' : Pays(o, s) => o = o1
      BY <1>o, <1>p, <2>3, <2>7, <3>1
    <3>3. orders'[o1].month = MonthOf(today)
      BY <2>1, <2>7 DEF PaidOrder
    <3>4. subs'[s].last # 0 => subs'[s].last = MonthOf(today)
      BY <2>1, <2>4, <3>1
    <3>5. MonthOf(today) \in Nat
      <4>1. today \in Nat
        BY CalendarAssumption DEF CounterType
      <4> QED
        BY <4>1, MonthIsPositive
    <3> QED
      BY <3>2, <3>3, <3>4, <3>5
  <2> QED
    BY <2>5, <2>6, <2>7
<1>c. ASSUME NEW s \in DOMAIN subs, s \notin raced', NEW r \in Runs, CommitCharge(r) PROVE Apart(s)
  <2> DEFINE o1 == run[r].order
  <2>1. /\ o1 \in DOMAIN orders /\ orders[o1].sub = Current(r) /\ ~orders[o1].paid
        /\ Current(r) \in DOMAIN subs /\ Current(r) \in run[r].due /\ run[r].day \in Nat
        /\ PaidOrder(o1, 1, subs[Current(r)].amount, MonthOf(run[r].day))
        /\ SubWritten(Current(r)) /\ subs'[Current(r)].last = MonthOf(run[r].day)
    BY <1>c, ChargeIsCommitted
  <2>2. orders[subs[s].order].sub = 0 /\ Current(r) # 0
    BY <1>c, <1>g, <2>1 DEF FirstOrders
  <2>3. subs[s].order # o1
    BY <2>1, <2>2
  <2>4. \A o \in DOMAIN orders' : o \in DOMAIN orders /\ (o # o1 => orders'[o] = orders[o])
    BY <1>g, <2>1 DEF PaidOrder
  <2>5. CASE s # Current(r)
    <3>1. \A o \in DOMAIN orders' : Pays(o, s) => o # o1
      BY <1>o, <1>c, <2>1, <2>3, <2>5
    <3>2. \A o \in DOMAIN orders' : Pays(o, s) =>
             o \in DOMAIN orders /\ PaysFor(o, s) /\ orders'[o].month = orders[o].month
      BY <1>o, <1>c, <2>4, <3>1 DEF PaysFor
    <3>3. subs'[s] = subs[s]
      BY <1>c, <2>1, <2>5 DEF SubWritten
    <3> QED
      BY <1>k, <1>o, <1>c, <3>2, <3>3
  <2>6. CASE s = Current(r)
    <3>1. s \in Listed(r) /\ s \notin raced
      BY <1>c, <1>o, <2>1, <2>6 DEF Listed, CommitCharge
    <3>2. subs[s].last < MonthOf(run[r].day) /\ subs[s].last # 0
      BY <1>c, <3>1 DEF ListedIsDue, PaidFirst
    <3>3. \A o \in DOMAIN orders' : Pays(o, s) /\ o # o1 =>
             /\ o \in DOMAIN orders /\ PaysFor(o, s) /\ orders'[o].month = orders[o].month
             /\ orders[o].month <= subs[s].last
      <4>1. \A o \in DOMAIN orders' : Pays(o, s) /\ o # o1 =>
               o \in DOMAIN orders /\ PaysFor(o, s) /\ orders'[o].month = orders[o].month
        BY <1>o, <1>c, <2>4 DEF PaysFor
      <4> QED
        BY <1>c, <3>1, <3>2, <4>1 DEF MonthsApart
    <3>4. orders'[o1].month = MonthOf(run[r].day) /\ subs'[s].last = MonthOf(run[r].day)
      BY <2>1, <2>6 DEF PaidOrder
    <3>5. MonthOf(run[r].day) \in Nat /\ subs[s].last \in Nat /\ \A o \in DOMAIN orders : orders[o].month \in Nat
      BY <1>c, <2>1, RowOfSub, RowOfOrder, MonthIsPositive DEF SubRows, OrderRows
    <3> DEFINE m == MonthOf(run[r].day)
    <3>6. ASSUME NEW o \in DOMAIN orders', Pays(o, s)
          PROVE  /\ orders'[o].month <= m /\ (o # o1 => orders'[o].month < m)
                 /\ \A p \in DOMAIN orders' : Pays(p, s) /\ orders'[p].month = orders'[o].month => p = o
      <4>1. orders'[o].month <= m /\ (o # o1 => orders'[o].month < m)
        BY <3>2, <3>3, <3>4, <3>5, <3>6
      <4>2. ASSUME NEW p \in DOMAIN orders', Pays(p, s), orders'[p].month = orders'[o].month, p # o PROVE FALSE
        <5>1. p # o1 => orders'[p].month < m
          BY <3>2, <3>3, <3>5, <4>2
        <5>2. CASE p = o1 \/ o = o1
          BY <3>4, <3>5, <4>1, <4>2, <5>1, <5>2
        <5>3. CASE p # o1 /\ o # o1
          <6>1. PaysFor(o, s) /\ PaysFor(p, s) /\ orders[o].month = orders[p].month /\ o \in DOMAIN orders /\ p \in DOMAIN orders
            BY <3>3, <3>6, <4>2, <5>3
          <6> QED
            BY <1>c, <3>1, <4>2, <6>1 DEF MonthsApart
        <5> QED
          BY <5>2, <5>3
      <4> QED
        BY <4>1, <4>2
    <3> QED
      BY <3>4, <3>6
  <2> QED
    BY <2>5, <2>6
<1>1. ASSUME NEW s \in DOMAIN subs' \ raced' PROVE Apart(s)
  <2>1. CASE s \notin DOMAIN subs
    BY <1>n, <2>1
  <2>2. ASSUME s \in DOMAIN subs, ~\E c \in Confirms : CommitPayment(c), ~\E r \in Runs : CommitCharge(r)
        PROVE  Apart(s)
    <3>1. subs'[s].last = subs[s].last
      BY <2>2, SubsMove DEF SubMoves, SubEnded, SubActivated, SubCharged, SubFails, SubSuspended
    <3>2. \A o \in DOMAIN orders : orders'[o] = orders[o]
      <4>1. ASSUME NEW o \in DOMAIN orders PROVE orders'[o] = orders[o]
        <5>1. o \in DOMAIN orders' /\ o # Len(orders) + 1
          BY <1>g, <4>1 DEF OrdersGrow
        <5> QED
          BY <2>2, <5>1, OrdersMove DEF OrderMoves
      <4> QED
        BY <4>1
    <3>3. \A o \in DOMAIN orders' : Pays(o, s) =>
             o \in DOMAIN orders /\ PaysFor(o, s) /\ orders'[o].month = orders[o].month
      BY <1>1, <1>o, <1>u, <2>2, <3>2 DEF PaysFor
    <3> QED
      BY <1>1, <1>k, <1>o, <2>2, <3>1, <3>3
  <2> QED
    BY <1>1, <1>p, <1>c, <2>1, <2>2
<1> QED
  BY <1>1 DEF MonthsApart, PaysFor

-----------------------------------------------------------------------------
(* The theorems *)

LEMMA Initially == Init => IInv
<1> SUFFICES ASSUME Init PROVE IInv
  OBVIOUS
<1>1. /\ orders = <<>> /\ subs = <<>> /\ charged = <<>> /\ Len(orders) = 0 /\ Len(subs) = 0
      /\ DOMAIN orders = {} /\ DOMAIN subs = {} /\ lost = {} /\ raced = {}
  BY DEF Init
<1>2. \A c \in Confirms : conf[c].pc = "idle"
  BY DEF Init, IdleConf
<1>3. \A r \in Runs : run[r].pc = "idle"
  BY DEF Init, IdleRun
<1>4. RowType
  BY <1>1, CalendarAssumption DEF RowType
<1>5. CounterType
  <2>1. Cardinality(lost) = 0
    BY <1>1, FS_EmptySet
  <2> QED
    BY <1>1, <2>1, CalendarAssumption DEF CounterType, Init
<1>6. ReqType /\ ConfType
  BY DEF Init, ReqType, ConfType, IdleReq
<1>7. RunType
  BY <1>3 DEF Init, RunType
<1>8. FirstOrders
  BY <1>1 DEF Init, FirstOrders, IdleReq
<1>9. BillingOrders /\ Confirmations /\ Charges /\ OneRecorderEach /\ PgRowsNumbered /\ PaidIsCharged
  BY <1>1, <1>2, <1>3 DEF BillingOrders, Confirmations, Charges, OneRecorderEach, PgRowsNumbered, PaidIsCharged
<1>10. EveryChargeIsAccounted
  <2>1. Approvals = {} /\ Recorded = {} /\ Committing = {}
    BY <1>1, <1>2, <1>3 DEF Approvals, Recorded, Committing
  <2> QED
    BY <1>1, <2>1 DEF EveryChargeIsAccounted
<1>12. FirstPayments /\ BilledOnce
  BY <1>1 DEF Init, FirstPayments, BilledOnce, IdleReq
<1>11. PaidFirst /\ MonthsApart /\ ListedIsDue /\ SuspendsFailing /\ SuspensionIsEarned
  BY <1>1, <1>3 DEF PaidFirst, MonthsApart, ListedIsDue, SuspendsFailing, SuspensionIsEarned, Listed
<1> QED
  BY <1>4, <1>5, <1>6, <1>7, <1>8, <1>9, <1>10, <1>11, <1>12 DEF IInv

\* The conjunction of the statements about rows, payments in progress and
\* months holds in every reachable state.
THEOREM Invariance == Spec => []IInv
<1>1. Init => IInv
  BY Initially
<1>2. IInv /\ [Next]_vars => IInv'
  <2> SUFFICES ASSUME IInv, [Next]_vars PROVE IInv'
    OBVIOUS
  <2>1. Types /\ Ledgers /\ OneRecorderEach /\ PgRowsNumbered /\ PaidIsCharged /\ EveryChargeIsAccounted
        /\ FirstPayments /\ BilledOnce
        /\ PaidFirst /\ MonthsApart /\ ListedIsDue /\ SuspendsFailing /\ SuspensionIsEarned
    BY DEF IInv, Types, Ledgers
  <2>2. RowType' /\ CounterType' /\ ReqType' /\ ConfType' /\ RunType'
    BY <2>1, RowStep, CountersStep, RequestsStep, ConfirmationsMove, RunsMove DEF Ledgers
  <2>3. FirstOrders' /\ BillingOrders' /\ Confirmations' /\ Charges'
    BY <2>1, FirstOrdersStep, BillingOrdersStep, ConfirmationsStep, ChargesStep DEF Ledgers
  <2>4. OneRecorderEach' /\ PgRowsNumbered' /\ PaidIsCharged' /\ EveryChargeIsAccounted'
    BY <2>1, OneRecorderStep, LedgerStep, AccountsStep DEF Ledgers
  <2>6. FirstPayments' /\ BilledOnce'
    BY <2>1, FirstPaymentsStep, BilledOnceStep
  <2>5. PaidFirst' /\ MonthsApart' /\ ListedIsDue' /\ SuspendsFailing' /\ SuspensionIsEarned'
    BY <2>1, PaidFirstStep, MonthsApartStep, ListedIsDueStep, SuspendsFailingStep, SuspensionStep
  <2> QED
    BY <2>2, <2>3, <2>4, <2>5, <2>6 DEF IInv
<1> QED
  BY <1>1, <1>2, PTL DEF Spec

\* ChargesAreAccounted: every approval of the gateway is in WEO_PG_DATA, about
\* to be written there, or was forgotten by a fault, in one of the three only;
\* an order is paid only on an approval of its price.
THEOREM LedgerTellsTheTruth == Spec => []ChargesAreAccounted
<1>1. IInv => ChargesAreAccounted
  BY DEF IInv, ChargesAreAccounted
<1> QED
  BY <1>1, Invariance, PTL

\* What the rows are, from the parts of the invariant that say it.
LEMMA RowsAreTyped == IInv => TypeOK
<1> SUFFICES ASSUME IInv PROVE TypeOK
  OBVIOUS
<1>0. RowType /\ CounterType /\ FirstOrders /\ BillingOrders /\ PgRowsNumbered
  BY DEF IInv
<1>1. ASSUME NEW o \in DOMAIN orders
      PROVE  orders[o] \in [usr : Members, gate : {"S", "P"}, price : Amounts, sub : 0..Len(subs), window : BOOLEAN,
                            paid : BOOLEAN, net : Amounts \cup {0}, pgRows : SUBSET (1..MaxCharges), month : Nat]
  <2>1. orders[o] \in OrderRows
    BY <1>0, RowOfOrder
  <2>2. orders[o].sub \in 0..Len(subs)
    BY <1>0 DEF BillingOrders
  <2>3. orders[o].pgRows \subseteq 1..MaxCharges
    <3>1. charged[o] \in 0..MaxCharges
      BY <1>0, CountOfOrder
    <3>2. 1..charged[o] \subseteq 1..MaxCharges
      BY <3>1, CalendarAssumption
    <3> QED
      BY <1>0, <3>2 DEF PgRowsNumbered
  <2> QED
    BY <2>1, <2>2, <2>3 DEF OrderRows
<1>2. ASSUME NEW s \in DOMAIN subs
      PROVE  subs[s] \in [usr : Members, amount : Amounts, status : Statuses, key : BOOLEAN,
                          billDay : 1..LastBillDay, last : Nat, nextBill : Nat, fails : 0..MaxFails, order : 1..MaxOrders]
  <2>1. subs[s] \in SubRows
    BY <1>0, RowOfSub
  <2>2. subs[s].order \in 1..MaxOrders
    <3>1. DOMAIN orders = 1..Len(orders) /\ Len(orders) \in Nat /\ Len(orders) <= MaxOrders /\ MaxOrders \in Nat
      BY <1>0, CalendarAssumption DEF RowType
    <3> QED
      BY <1>0, <3>1 DEF FirstOrders
  <2> QED
    BY <2>1, <2>2 DEF SubRows
<1> QED
  BY <1>0, <1>1, <1>2 DEF TypeOK, RowType, CounterType

\* The approvals that a run is about to record, and that a confirmation is.
RunHolds(r, o) == run[r].pc = "commit" /\ run[r].order = o
ConfHolds(c, o) == conf[c].pc = "commit" /\ conf[c].order = o

\* An approval of an order that no fault made the program forget is recorded,
\* or its step is under way; an order has one at most.
LEMMA ChargeIsHeld ==
    ASSUME IInv, NEW a \in Approvals \ lost
    PROVE  /\ a[1] \in DOMAIN orders /\ a = <<a[1], a[2]>>
           /\ \/ orders[a[1]].paid /\ a[2] \in orders[a[1]].pgRows
              \/ \E c \in Confirms : ConfHolds(c, a[1]) /\ a[2] = conf[c].number
              \/ \E r \in Runs : RunHolds(r, a[1]) /\ a[2] = 1
<1>1. PICK o \in DOMAIN orders : \E k \in 1..charged[o] : a = <<o, k>>
  BY DEF Approvals
<1>2. a[1] = o /\ a = <<a[1], a[2]>>
  BY <1>1
<1>3. a \in Recorded \/ a \in Committing
  BY DEF IInv, EveryChargeIsAccounted
<1>4. CASE a \in Recorded
  <2>1. PICK p \in DOMAIN orders : \E k \in orders[p].pgRows : a = <<p, k>>
    BY <1>4 DEF Recorded
  <2>2. orders[p].paid
    BY <2>1 DEF IInv, PaidIsCharged
  <2> QED
    BY <1>1, <1>2, <2>1, <2>2
<1>5. CASE a \in Committing
  BY <1>1, <1>2, <1>5 DEF Committing, ConfHolds, RunHolds
<1> QED
  BY <1>1, <1>2, <1>3, <1>4, <1>5

\* One approval of an order of a subscription is remembered.
LEMMA OneChargeEach ==
    ASSUME IInv, NEW s \in DOMAIN subs \ raced, NEW a \in Approvals \ lost, NEW b \in Approvals \ lost,
           OrderOf(a[1], s), b[1] = a[1]
    PROVE  a = b
<1> DEFINE o == a[1]
<1>1. /\ o \in DOMAIN orders /\ a = <<o, a[2]>> /\ b = <<o, b[2]>>
      /\ \/ orders[o].paid /\ a[2] \in orders[o].pgRows
         \/ \E c \in Confirms : ConfHolds(c, o) /\ a[2] = conf[c].number
         \/ \E r \in Runs : RunHolds(r, o) /\ a[2] = 1
      /\ \/ orders[o].paid /\ b[2] \in orders[o].pgRows
         \/ \E c \in Confirms : ConfHolds(c, o) /\ b[2] = conf[c].number
         \/ \E r \in Runs : RunHolds(r, o) /\ b[2] = 1
  BY ChargeIsHeld
<1>2. CASE orders[o].sub = s
  <2>1. charged[o] <= 1 /\ charged[o] \in Nat
    <3>1. s # 0
      BY DEF IInv, RowType
    <3> QED
      BY <1>1, <1>2, <3>1, CountOfOrder DEF IInv, BilledOnce
  <2>2. ASSUME NEW x \in Approvals, x[1] = o PROVE x = <<o, 1>>
    <3>1. PICK p \in DOMAIN orders : \E k \in 1..charged[p] : x = <<p, k>>
      BY DEF Approvals
    <3> QED
      BY <2>1, <2>2, <3>1
  <2> QED
    BY <2>2
<1>3. CASE subs[s].order = o
  <2>1. PaidByOne(o) /\ orders[o].sub = 0
    BY <1>3 DEF IInv, FirstPayments, FirstOrders
  <2>2. \A r \in Runs : ~RunHolds(r, o)
    <3>1. ASSUME NEW r \in Runs, RunHolds(r, o) PROVE FALSE
      <4>1. orders[o].sub = Current(r) /\ run[r].pc # "idle"
        BY <3>1 DEF IInv, Charges, RunHolds
      <4>2. Current(r) \in DOMAIN subs
        BY <4>1, CurrentIsListed DEF IInv
      <4> QED
        BY <2>1, <4>1, <4>2 DEF IInv, RowType
    <3> QED
      BY <3>1
  <2>3. CASE orders[o].paid
    <3>1. \A c \in Confirms : ~ConfHolds(c, o)
      BY <2>1, <2>3 DEF PaidByOne, Confirming, ConfHolds
    <3>2. a[2] = b[2]
      BY <1>1, <2>1, <2>2, <3>1 DEF PaidByOne
    <3> QED
      BY <1>1, <3>2
  <2>4. CASE ~orders[o].paid
    <3>1. a[2] = b[2]
      BY <1>1, <2>1, <2>2, <2>4 DEF PaidByOne, Confirming, ConfHolds
    <3> QED
      BY <1>1, <3>1
  <2> QED
    BY <2>3, <2>4
<1> QED
  BY <1>2, <1>3 DEF OrderOf

\* The order of an approval that counts for a month is paid for that month, or
\* it is the one that a run holds for a row that is due, or the first one that
\* a confirmation holds for a row without a payment.
LEMMA MonthOfCharge ==
    ASSUME IInv, NEW s \in DOMAIN subs \ raced, NEW m \in Nat, NEW o \in DOMAIN orders,
           OrderOf(o, s), ForMonth(o, m)
    PROVE  \/ PaysFor(o, s) /\ orders[o].month = m
           \/ \E r \in Runs : /\ RunHolds(r, o) /\ orders[o].sub = s /\ s \in Listed(r) /\ Current(r) = s
                               /\ MonthOf(run[r].day) = m /\ subs[s].last < m /\ subs[s].last # 0
           \/ subs[s].order = o /\ subs[s].last = 0
<1>1. CASE orders[o].paid
  BY <1>1 DEF OrderOf, PaysFor, ForMonth
<1>2. ASSUME ~orders[o].paid, NEW r \in Runs, RunHolds(r, o), MonthOf(run[r].day) = m
      PROVE  /\ orders[o].sub = s /\ s \in Listed(r) /\ Current(r) = s
             /\ subs[s].last < m /\ subs[s].last # 0
  <2>1. orders[o].sub = Current(r) /\ run[r].pc # "idle"
    BY <1>2 DEF IInv, Charges, RunHolds
  <2>2. Current(r) \in DOMAIN subs /\ Current(r) \in run[r].due /\ Current(r) # 0
    BY <2>1, CurrentIsListed DEF IInv, RowType
  <2>3. Current(r) = s
    <3>1. subs[s].order # o
      BY <2>1, <2>2 DEF IInv, FirstOrders
    <3> QED
      BY <2>1, <3>1 DEF OrderOf
  <2>4. s \in Listed(r)
    BY <2>1, <2>2, <2>3 DEF Listed
  <2> QED
    BY <1>2, <2>1, <2>3, <2>4 DEF IInv, ListedIsDue, PaidFirst
<1>3. ASSUME ~orders[o].paid, NEW c \in Confirms, ConfHolds(c, o) PROVE subs[s].order = o /\ subs[s].last = 0
  <2>1. orders[o].window
    BY <1>3 DEF IInv, Confirmations, ConfHolds
  <2>2. orders[o].sub = 0 /\ s # 0
    BY <2>1 DEF IInv, BillingOrders, RowType
  <2>3. subs[s].order = o
    BY <2>2 DEF OrderOf
  <2> QED
    BY <1>3, <2>3 DEF IInv, PaidFirst
<1> QED
  BY <1>1, <1>2, <1>3 DEF ForMonth, RunHolds, ConfHolds

\* Two charges of a subscription in one month, neither forgotten, are the same.
LEMMA OneChargeAMonth ==
    ASSUME IInv, NEW s \in DOMAIN subs \ raced, NEW m \in Nat, NEW a \in ChargesFor(s, m), NEW b \in ChargesFor(s, m)
    PROVE  a = b
<1> DEFINE o == a[1]
<1> DEFINE p == b[1]
<1>1. a \in Approvals \ lost /\ b \in Approvals \ lost /\ OrderOf(o, s) /\ OrderOf(p, s) /\ ForMonth(o, m) /\ ForMonth(p, m)
  BY DEF ChargesFor
<1>2. o \in DOMAIN orders /\ p \in DOMAIN orders
  BY <1>1, ChargeIsHeld
<1> DEFINE Due(x, r) == /\ RunHolds(r, x) /\ orders[x].sub = s /\ s \in Listed(r) /\ Current(r) = s
                        /\ MonthOf(run[r].day) = m /\ subs[s].last < m /\ subs[s].last # 0
<1> DEFINE First(x) == subs[s].order = x /\ subs[s].last = 0
<1>3. /\ (PaysFor(o, s) /\ orders[o].month = m) \/ (\E r \in Runs : Due(o, r)) \/ First(o)
      /\ (PaysFor(p, s) /\ orders[p].month = m) \/ (\E r \in Runs : Due(p, r)) \/ First(p)
  BY <1>1, <1>2, MonthOfCharge
<1> HIDE DEF o, p
<1>4. o = p
  <2>t. subs[s].last \in Nat /\ orders[o].month \in Nat /\ orders[p].month \in Nat
    BY <1>2, RowOfSub, RowOfOrder DEF IInv, SubRows, OrderRows
  <2>p. \A x \in DOMAIN orders : PaysFor(x, s) /\ subs[s].last # 0 => orders[x].month <= subs[s].last
    BY DEF IInv, MonthsApart
  <2>f. subs[s].last = 0 => \A x \in DOMAIN orders : orders[x].sub # s
    BY DEF IInv, PaidFirst
  <2>1. CASE subs[s].last = 0
    <3>1. subs[s].order = o /\ subs[s].order = p
      BY <1>2, <1>3, <2>1, <2>f DEF PaysFor
    <3> QED
      BY <3>1
  <2>2. CASE PaysFor(o, s) /\ orders[o].month = m /\ PaysFor(p, s) /\ orders[p].month = m
    BY <1>2, <2>2 DEF IInv, MonthsApart
  <2>3. ASSUME NEW r \in Runs, Due(o, r), NEW q \in Runs, Due(p, q) PROVE o = p
    <3>1. q = r
      BY <2>3 DEF IInv, ListedIsDue
    <3> QED
      BY <2>3, <3>1 DEF RunHolds
  <2>4. ASSUME NEW r \in Runs, Due(o, r) PROVE ~(PaysFor(p, s) /\ orders[p].month = m)
    BY <1>2, <2>4, <2>p, <2>t
  <2>5. ASSUME NEW r \in Runs, Due(p, r) PROVE ~(PaysFor(o, s) /\ orders[o].month = m)
    BY <1>2, <2>5, <2>p, <2>t
  <2> QED
    BY <1>3, <2>1, <2>2, <2>3, <2>4, <2>5
<1> QED
  BY <1>1, <1>4, OneChargeEach DEF o, p

LEMMA OncePerMonth == IInv => BilledOncePerMonth
<1> SUFFICES ASSUME IInv, NEW s \in DOMAIN subs \ raced, NEW m \in 1..MonthOf(MaxDay)
             PROVE  Cardinality(ChargesFor(s, m)) <= 1
  BY DEF BilledOncePerMonth
<1>0. m \in Nat
  BY CalendarAssumption, MonthIsPositive
<1>1. CASE ChargesFor(s, m) = {}
  <2>1. Cardinality(ChargesFor(s, m)) = 0
    BY <1>1, FS_EmptySet
  <2> QED
    BY <2>1
<1>2. CASE ChargesFor(s, m) # {}
  <2>1. PICK a : a \in ChargesFor(s, m)
    BY <1>2
  <2>2. \A b \in ChargesFor(s, m) : b = a
    BY <1>0, <2>1, OneChargeAMonth
  <2>3. ChargesFor(s, m) = {a}
    BY <2>1, <2>2
  <2>4. Cardinality({a}) = 1
    BY FS_Singleton
  <2> QED
    BY <2>3, <2>4
<1> QED
  BY <1>1, <1>2

\* BillingIsFair: the rows are well formed; whatever runs, restarts and retries
\* there are, the money of a subscriber is taken at most once for a month, but
\* for charges whose outcome a fault made the program forget and the effects of
\* two runs or two first confirmations at once; and he is suspended only after
\* enough failures in a row.
THEOREM BillingIsFairAlways == Spec => []BillingIsFair
<1>1. IInv => BillingIsFair
  BY RowsAreTyped, OncePerMonth DEF IInv, BillingIsFair
<1> QED
  BY <1>1, Invariance, PTL

-----------------------------------------------------------------------------
(* The public summary *)

SnapRows == [total : Nat, overwrite : BOOLEAN]
Sums == [agg : Nat, floor : Nat, month : Nat]
Entries == [month : Nat, at : Nat, sum : Sums]
WriterPcs ==
    {"idle", "distrust", "distrustEvict", "aggregate", "config", "upsert", "tx", "fresh", "failed",
     "freshEvict", "answer"}
WriterStates == [pc : WriterPcs, job : BOOLEAN, wrote : Nat, agg : Nat, cfg : BOOLEAN]
ReaderStates ==
    [pc : {"idle", "compute", "snapshot", "live", "month", "served"}, floor : Nat, month : Nat,
     agg : Nat, cached : BOOLEAN]

SummaryTypeOK ==
    /\ total \in Nat /\ finished \in Nat /\ finished <= total
    /\ overwrite \in BOOLEAN /\ stale \in BOOLEAN /\ doubt \in BOOLEAN /\ jobDue \in BOOLEAN
    /\ tick \in 0..MaxTick
    /\ snaps \in [Public!Days -> SnapRows \union {Nil}]
    /\ summary \in Entries \union {Nil}
    /\ writer \in [Writers -> WriterStates] /\ \A w \in Writers : writer[w].wrote <= total
    /\ lone \in Writers \union {Nil}
    /\ reader \in [Readers -> ReaderStates]

\* No row is of a day to come.
NoRowAhead == \A d \in Public!Days : d > Public!Today => snaps[d] = Nil

\* The rows are the latest's and those before it.
Latest(d) == d \in Public!Days /\ snaps[d] # Nil /\ \A e \in Public!Days : snaps[e] # Nil => e <= d

\* The latest row's total, when there is a row, is at least n.
RowCovers(n) == \A d \in Public!Days : Latest(d) => snaps[d].total >= n
RowIsCurrent ==
    \A d \in Public!Days : Latest(d) => snaps[d].total = total /\ snaps[d].overwrite = overwrite

\* The lone writer is alone, and whoever is under way beside others is in doubt.
LoneIsAlone ==
    /\ lone # Nil => writer[lone].pc # "idle" /\ \A w \in Writers : w # lone => writer[w].pc = "idle"
    /\ \A w \in Writers : writer[w].pc # "idle" => lone = w \/ doubt

\* The lone writer carries the ledger's total, then the configuration, into the row.
Carries(w) ==
    /\ writer[w].pc \in {"config", "upsert", "tx"} => writer[w].agg = total
    /\ writer[w].pc = "upsert" => writer[w].cfg = overwrite
    /\ writer[w].pc = "fresh" => RowIsCurrent
LoneCarries == lone # Nil => Carries(lone)

\* The job neither distrusts nor marks the row fresh.
JobIsShort(w) == writer[w].job => writer[w].pc \in {"aggregate", "config", "upsert", "answer"}

\* A ledger write whose total is not in the row yet.
Owes(w) ==
    ~writer[w].job
    /\ writer[w].pc \in {"distrust", "distrustEvict", "aggregate", "config", "upsert", "failed"}

\* A row that reads trust and that is not in doubt covers what was answered, and is
\* current but for a write under way.
TrustedRow ==
    (~stale /\ ~doubt) =>
        RowCovers(finished) /\ ((\A w \in Writers : ~Owes(w)) => RowIsCurrent)

\* What a computation has read covers what was answered when it began.
ReadersCover ==
    \A r \in Readers :
        /\ reader[r].pc \in {"compute", "snapshot", "live"} => reader[r].floor <= finished
        /\ (reader[r].pc = "snapshot" /\ ~doubt) => RowCovers(reader[r].floor)
        /\ reader[r].pc \in {"month", "served"} => reader[r].agg >= reader[r].floor
        /\ reader[r].pc # "served" => ~reader[r].cached
EntryCovers ==
    summary # Nil => summary.sum.agg >= summary.sum.floor /\ summary.sum.month = summary.month

SummaryInv ==
    /\ SummaryTypeOK /\ NoRowAhead
    /\ LoneIsAlone /\ LoneCarries /\ \A w \in Writers : JobIsShort(w)
    /\ TrustedRow /\ ReadersCover /\ EntryCovers

-----------------------------------------------------------------------------
LEMMA DaysRise ==
    ASSUME NEW a \in Nat, NEW b \in Nat, a <= b
    PROVE  a \div TicksPerDay \in Nat /\ a \div TicksPerDay <= b \div TicksPerDay
BY SummaryAssumption

LEMMA TodayIsADay ==
    ASSUME SummaryTypeOK
    PROVE  /\ Public!Today \in Public!Days /\ Public!Today \in Nat
           /\ Public!Days \subseteq Nat /\ \A d \in Public!Days : d <= MaxTick \div TicksPerDay
<1>1. tick \in Nat /\ MaxTick \in Nat /\ tick <= MaxTick
  BY SummaryAssumption DEF SummaryTypeOK
<1>2. tick \div TicksPerDay \in Nat /\ tick \div TicksPerDay <= MaxTick \div TicksPerDay
  BY <1>1, DaysRise
<1>3. MaxTick \div TicksPerDay \in Nat
  BY <1>1, DaysRise
<1> QED
  BY <1>2, <1>3 DEF Public!Today, Public!Days

\* When there is a row there is a latest one, and only one.
LEMMA RowsHaveALatest ==
    ASSUME SummaryTypeOK, NEW d \in Public!Days, snaps[d] # Nil
    PROVE  \E e \in Public!Days : Latest(e)
<1> DEFINE last == MaxTick \div TicksPerDay
           Back == {last - e : e \in {f \in Public!Days : snaps[f] # Nil}}
<1>1. last \in Nat /\ Public!Days = 0..last
  BY SummaryAssumption, DaysRise DEF Public!Days
<1> HIDE DEF last
<1>2. Back \subseteq Nat /\ Back # {}
  BY <1>1
<1>3. PICK x \in Back : \A y \in Back : ~(<<y, x>> \in OpToRel(<, Nat))
  <2> HIDE DEF Back
  <2> QED
    BY <1>2, NatLessThanWellFounded, WFMin
<1>4. \A y \in Back : x <= y
  <2> HIDE DEF Back
  <2>1. \A y \in Back : ~(y < x)
    BY <1>2, <1>3 DEF OpToRel
  <2> QED
    BY <1>2, <2>1
<1>5. PICK e \in Public!Days : snaps[e] # Nil /\ x = last - e
  OBVIOUS
<1>6. ASSUME NEW f \in Public!Days, snaps[f] # Nil PROVE f <= e
  <2>1. last - f \in Back
    BY <1>6
  <2>2. x <= last - f
    BY <1>4, <2>1
  <2> HIDE DEF Back
  <2> QED
    BY <1>1, <1>5, <2>2
<1> QED
  BY <1>5, <1>6 DEF Latest

LEMMA LatestIsOne ==
    ASSUME SummaryTypeOK, NEW d \in Public!Days, NEW e \in Public!Days, Latest(d), Latest(e)
    PROVE  d = e
<1>1. d \in Nat /\ e \in Nat
  BY TodayIsADay
<1>2. d <= e /\ e <= d
  BY DEF Latest
<1> QED
  BY <1>1, <1>2

\* The row a computation reads is the latest one.
LEMMA TheLatestIsChosen ==
    ASSUME SummaryTypeOK, NoRowAhead, Public!ChosenSnapshot # Nil
    PROVE  \E d \in Public!Days : Latest(d) /\ Public!ChosenSnapshot = snaps[d] /\ snaps[d] \in SnapRows
<1>0. \A d \in Public!Days : snaps[d] # Nil => snaps[d] \in SnapRows
  BY DEF SummaryTypeOK
<1>1. CASE snaps[Public!Today] # Nil
  <2>1. \A e \in Public!Days : snaps[e] # Nil => e <= Public!Today
    BY TodayIsADay DEF NoRowAhead
  <2>2. Latest(Public!Today)
    BY <1>1, <2>1, TodayIsADay DEF Latest
  <2> QED
    BY <1>0, <1>1, <2>2, TodayIsADay DEF Public!ChosenSnapshot
<1>2. CASE snaps[Public!Today] = Nil
  <2>1. PICK f \in Public!Days : snaps[f] # Nil
    BY <1>2 DEF Public!ChosenSnapshot
  <2>2. PICK e \in Public!Days : Latest(e)
    BY <2>1, RowsHaveALatest
  <2> DEFINE c == CHOOSE d \in Public!Days : snaps[d] # Nil
                                     /\ \A g \in Public!Days : snaps[g] # Nil => g <= d
  <2>3. c \in Public!Days /\ Latest(c)
    BY <2>2 DEF Latest
  <2>4. Public!ChosenSnapshot = snaps[c]
    BY <1>2, <2>1 DEF Public!ChosenSnapshot
  <2> QED
    BY <1>0, <2>3, <2>4 DEF Latest
<1> QED
  BY <1>1, <1>2

\* The row written is the latest one from then on.
LEMMA WrittenRowIsLatest ==
    ASSUME SummaryTypeOK, NoRowAhead, NEW n \in Nat, NEW c \in BOOLEAN,
           snaps' = [snaps EXCEPT ![Public!Today] = [total |-> n, overwrite |-> c]], tick' = tick
    PROVE  /\ snaps' \in [Public!Days -> SnapRows \union {Nil}] /\ NoRowAhead'
           /\ \A d \in Public!Days : Latest(d)' => snaps'[d].total = n /\ snaps'[d].overwrite = c
<1>1. [total |-> n, overwrite |-> c] \in SnapRows /\ Nil \notin SnapRows
  BY SummaryAssumption DEF SnapRows
<1>2. snaps' \in [Public!Days -> SnapRows \union {Nil}]
  BY <1>1, TodayIsADay DEF SummaryTypeOK
<1>3. Public!Today' = Public!Today /\ Public!Days' = Public!Days
  BY DEF Public!Today, Public!Days
<1>4. snaps'[Public!Today] = [total |-> n, overwrite |-> c] /\ snaps'[Public!Today] # Nil
  BY <1>1, TodayIsADay DEF SummaryTypeOK
<1>5. \A d \in Public!Days : d # Public!Today => snaps'[d] = snaps[d]
  BY DEF SummaryTypeOK
<1>6. NoRowAhead'
  BY <1>3, <1>5, TodayIsADay DEF NoRowAhead
<1>7. ASSUME NEW d \in Public!Days, Latest(d)' PROVE d = Public!Today
  <2>1. Public!Today <= d
    BY <1>3, <1>4, <1>7, TodayIsADay DEF Latest
  <2>2. ~(d > Public!Today)
    BY <1>3, <1>6, <1>7 DEF NoRowAhead, Latest
  <2> QED
    BY <2>1, <2>2, TodayIsADay
<1> QED
  BY <1>1, <1>2, <1>4, <1>6, <1>7

-----------------------------------------------------------------------------
LEMMA SummaryStarts == Public!SummaryInit => SummaryInv
<1> SUFFICES ASSUME Public!SummaryInit PROVE SummaryInv
  OBVIOUS
<1> USE DEF Public!SummaryInit, Public!AtRest, Public!NoRead
<1>1. 0 \in Public!Days /\ Public!Today = 0
  <2>1. 0 \in Nat /\ MaxTick \in Nat /\ 0 <= MaxTick
    BY SummaryAssumption
  <2>3. TicksPerDay \in Nat \ {0}
    BY SummaryAssumption
  <2>4. 0 \div TicksPerDay = 0
    BY <2>3
  <2>2. 0 \div TicksPerDay = 0 /\ MaxTick \div TicksPerDay \in Nat
    BY <2>1, <2>4, DaysRise
  <2> QED
    BY <2>1, <2>2 DEF Public!Days, Public!Today
<1>2. [total |-> 0, overwrite |-> FALSE] \in SnapRows
  BY DEF SnapRows
<1>3. \A d \in Public!Days : snaps[d] # Nil => d = 0 /\ snaps[d].total = 0 /\ snaps[d].overwrite = FALSE
  BY <1>1
<1>4. snaps \in [Public!Days -> SnapRows \union {Nil}]
  BY <1>2
<1>5. Public!Days \subseteq Nat
  BY DEF Public!Days
<1>6. SummaryTypeOK
  <2>1. writer \in [Writers -> WriterStates]
    BY DEF WriterStates, WriterPcs
  <2>2. reader \in [Readers -> ReaderStates]
    BY DEF ReaderStates
  <2>3. tick \in 0..MaxTick
    BY SummaryAssumption
  <2>4. /\ overwrite \in BOOLEAN /\ stale \in BOOLEAN /\ doubt \in BOOLEAN
        /\ summary \in Entries \union {Nil} /\ lone \in Writers \union {Nil}
    OBVIOUS
  <2>5. total \in Nat /\ finished \in Nat /\ finished <= total /\ \A w \in Writers : writer[w].wrote <= total
    OBVIOUS
  <2>6. jobDue \in BOOLEAN
    OBVIOUS
  <2> QED
    BY <1>4, <2>1, <2>2, <2>3, <2>4, <2>5, <2>6 DEF SummaryTypeOK
<1>7. NoRowAhead
  BY <1>1, <1>3, <1>5 DEF NoRowAhead
<1>8. RowIsCurrent /\ RowCovers(finished)
  BY <1>3 DEF RowIsCurrent, RowCovers, Latest
<1>9. LoneIsAlone /\ LoneCarries /\ \A w \in Writers : JobIsShort(w)
  BY DEF LoneIsAlone, LoneCarries, JobIsShort
<1> QED
  BY <1>6, <1>7, <1>8, <1>9 DEF SummaryInv, TrustedRow, ReadersCover, EntryCovers

\* What a step does to the rows, when it does not write one.
LEMMA RowsStay ==
    ASSUME SummaryInv, UNCHANGED snaps, tick' \in Nat, tick <= tick'
    PROVE  /\ NoRowAhead' /\ \A d : Latest(d)' <=> Latest(d)
           /\ \A n \in Nat : RowCovers(n)' <=> RowCovers(n)
<1>1. tick \in Nat /\ tick <= tick'
  BY SummaryAssumption DEF SummaryInv, SummaryTypeOK
<1>2. Public!Today \in Nat /\ Public!Today' \in Nat /\ Public!Today <= Public!Today'
  BY <1>1, DaysRise DEF Public!Today
<1>3. Public!Days' = Public!Days /\ Public!Days \subseteq Nat
  BY TodayIsADay DEF Public!Days, SummaryInv
<1>4. NoRowAhead'
  BY <1>2, <1>3 DEF NoRowAhead, SummaryInv
<1>5. \A d : Latest(d)' <=> Latest(d)
  BY <1>3 DEF Latest
<1>6. \A n \in Nat : RowCovers(n)' <=> RowCovers(n)
  BY <1>3, <1>5 DEF RowCovers
<1> QED
  BY <1>4, <1>5, <1>6

\* What a writer's step does to the writers, to the lone one and to doubt.
WriterMoves(w) ==
    /\ writer' \in [Writers -> WriterStates] /\ \A v \in Writers : v # w => writer'[v] = writer[v]
    /\ writer'[w].wrote <= total'
    /\ \/ /\ writer[w].pc = "idle"
          /\ lone' = IF Public!Quiet THEN w ELSE Nil
          /\ doubt' = (doubt \/ ~Public!Quiet)
       \/ /\ writer[w].pc # "idle" /\ lone' = lone /\ doubt' \in BOOLEAN
          /\ doubt' = doubt \/ lone = w

\* The types, when a writer moves.
LEMMA WriterIsTyped ==
    ASSUME SummaryTypeOK, NEW w \in Writers, WriterMoves(w), UNCHANGED <<tick, reader, finished>>,
           snaps' \in [Public!Days -> SnapRows \union {Nil}], summary' = summary \/ summary' = Nil,
           total' \in Nat, total <= total', stale' \in BOOLEAN, jobDue' \in BOOLEAN, overwrite' \in BOOLEAN
    PROVE  SummaryTypeOK'
<1>1. Public!Days' = Public!Days
  BY DEF Public!Days
<1>2. finished' <= total' /\ finished' \in Nat
  BY DEF SummaryTypeOK
<1>3. summary' \in Entries \union {Nil}
  BY DEF SummaryTypeOK
<1>4. \A v \in Writers : writer'[v].wrote <= total'
  <2>1. \A v \in Writers : writer[v].wrote \in Nat
    BY DEF SummaryTypeOK, WriterStates
  <2> QED
    BY <2>1 DEF SummaryTypeOK, WriterMoves
<1>5. lone' \in Writers \union {Nil} /\ doubt' \in BOOLEAN
  BY DEF SummaryTypeOK, WriterMoves
<1> QED
  BY <1>1, <1>2, <1>3, <1>4, <1>5 DEF SummaryTypeOK, WriterMoves

\* A writer that is under way after its step is the lone one or is in doubt, and the
\* lone one keeps the others away.
LEMMA LoneStays ==
    ASSUME SummaryInv, NEW w \in Writers, WriterMoves(w), writer'[w].pc # "idle"
    PROVE  /\ LoneIsAlone' /\ (lone' # Nil => lone' = w) /\ (lone' = w \/ doubt')
           /\ ~doubt' => \A v \in Writers : v # w => writer'[v].pc = "idle"
<1>1. Nil \notin Writers
  BY SummaryAssumption
<1>2. LoneIsAlone
  BY DEF SummaryInv
<1>3. CASE writer[w].pc = "idle"
  BY <1>1, <1>2, <1>3 DEF WriterMoves, LoneIsAlone, Public!Quiet
<1>4. CASE writer[w].pc # "idle"
  <2>1. (lone # Nil => lone = w) /\ (lone = w \/ doubt)
    BY <1>2, <1>4 DEF LoneIsAlone
  <2>2. lone' = lone /\ (doubt' = doubt \/ lone = w)
    BY <1>4 DEF WriterMoves
  <2>3. lone = w => \A v \in Writers : v # w => writer'[v].pc = "idle"
    BY <1>1, <1>2 DEF WriterMoves, LoneIsAlone
  <2>4. lone' = w \/ doubt'
    BY <2>1, <2>2
  <2>5. \A v \in Writers : writer'[v].pc # "idle" => lone' = v \/ doubt'
    BY <2>2, <2>3, <2>4
  <2> QED
    BY <1>1, <2>1, <2>2, <2>3, <2>4, <2>5 DEF LoneIsAlone
<1> QED
  BY <1>3, <1>4

\* The parts about the readers and the entry, when neither moves.
LEMMA ReadersStay ==
    ASSUME SummaryInv, UNCHANGED reader, finished' \in Nat, finished <= finished',
           summary' = summary \/ summary' = Nil,
           ~doubt' => \A n \in Nat : (n <= finished /\ (~doubt => RowCovers(n))) => RowCovers(n)'
    PROVE  ReadersCover' /\ EntryCovers'
<1>1. \A r \in Readers : reader[r].floor \in Nat
  BY DEF SummaryInv, SummaryTypeOK, ReaderStates
<1>2. ASSUME NEW r \in Readers, reader[r].floor <= finished PROVE reader[r].floor <= finished'
  BY <1>1, <1>2 DEF SummaryInv, SummaryTypeOK
<1>3. ASSUME NEW r \in Readers, reader[r].pc = "snapshot", ~doubt' PROVE RowCovers(reader[r].floor)'
  <2>1. PICK n \in Nat : n = reader[r].floor
    BY <1>1
  <2>2. n <= finished /\ (~doubt => RowCovers(n))
    BY <1>3, <2>1 DEF SummaryInv, ReadersCover
  <2>3. RowCovers(n)'
    BY <1>3, <2>2
  <2> QED
    BY <2>1, <2>3 DEF RowCovers
<1>4. ReadersCover'
  BY <1>2, <1>3 DEF SummaryInv, ReadersCover
<1> QED
  BY <1>4 DEF SummaryInv, EntryCovers

\* What is left to show of a writer's step, when the writer is under way after it.
LEMMA WriterKeeps ==
    ASSUME SummaryInv, SummaryTypeOK', NoRowAhead', NEW w \in Writers, WriterMoves(w),
           writer'[w].pc # "idle", UNCHANGED <<tick, reader, finished>>,
           summary' = summary \/ summary' = Nil, JobIsShort(w)',
           lone' = w => Carries(w)',
           (~stale' /\ ~doubt') => RowCovers(finished)' /\ (~Owes(w)' => RowIsCurrent'),
           ~doubt' => \A n \in Nat : (n <= finished /\ (~doubt => RowCovers(n))) => RowCovers(n)'
    PROVE  SummaryInv'
<1>1. /\ LoneIsAlone' /\ (lone' # Nil => lone' = w)
      /\ ~doubt' => \A v \in Writers : v # w => writer'[v].pc = "idle"
  BY LoneStays
<1>2. LoneCarries'
  BY <1>1 DEF LoneCarries, Carries
<1>3. \A v \in Writers : JobIsShort(v)'
  BY DEF SummaryInv, JobIsShort, WriterMoves
<1>4. TrustedRow'
  BY <1>1 DEF TrustedRow, Owes
<1>5. finished' \in Nat /\ finished <= finished'
  BY DEF SummaryInv, SummaryTypeOK
<1>6. ReadersCover' /\ EntryCovers'
  BY <1>5, ReadersStay
<1> QED
  BY <1>1, <1>2, <1>3, <1>4, <1>6 DEF SummaryInv

\* A writer's step that writes no row and does not come to trust one it has not
\* written.
LEMMA WriterKeepsRows ==
    ASSUME SummaryInv, SummaryTypeOK', NEW w \in Writers, WriterMoves(w), writer'[w].pc # "idle",
           UNCHANGED <<overwrite, snaps, tick, reader, finished>>,
           summary' = summary \/ summary' = Nil, JobIsShort(w)',
           doubt' = doubt \/ (writer[w].pc = "idle" /\ doubt'),
           total' = total \/ (writer[w].pc = "idle" /\ Owes(w)'),
           lone' = w => /\ writer'[w].pc \in {"config", "upsert", "tx"} => writer'[w].agg = total'
                        /\ writer'[w].pc = "upsert" => writer'[w].cfg = overwrite
                        /\ writer'[w].pc # "fresh",
           stale' \/ (~stale /\ (Owes(w) => Owes(w)')) \/ doubt' \/ (RowIsCurrent /\ total' = total)
    PROVE  SummaryInv'
<1>0. tick' \in Nat /\ tick <= tick' /\ finished \in Nat /\ finished <= total /\ total \in Nat
  BY SummaryAssumption DEF SummaryInv, SummaryTypeOK
<1>1. NoRowAhead' /\ (\A d : Latest(d)' <=> Latest(d)) /\ \A n \in Nat : RowCovers(n)' <=> RowCovers(n)
  BY <1>0, RowsStay
<1>2. Public!Days' = Public!Days
  BY DEF Public!Days
<1>3. total' = total => (RowIsCurrent' <=> RowIsCurrent)
  BY <1>1, <1>2 DEF RowIsCurrent
<1>4. RowCovers(finished)' <=> RowCovers(finished)
  BY <1>0, <1>1, <1>2 DEF RowCovers
<1>5. lone' = w => Carries(w)'
  BY DEF Carries
<1>6. ASSUME ~stale', ~doubt' PROVE RowCovers(finished)' /\ (~Owes(w)' => RowIsCurrent')
  <2>1. ~doubt
    BY <1>6
  <2>2. CASE RowIsCurrent /\ total' = total
    BY <1>0, <1>3, <1>4, <2>2 DEF RowIsCurrent, RowCovers
  <2>3. CASE ~stale /\ (Owes(w) => Owes(w)')
    <3>1. RowCovers(finished)'
      BY <1>4, <2>1, <2>3 DEF SummaryInv, TrustedRow
    <3>2. ASSUME ~Owes(w)' PROVE RowIsCurrent'
      <4>1. \A v \in Writers : ~Owes(v)
        <5>1. \A v \in Writers : v # w => writer'[v].pc = "idle"
          BY <1>6, LoneStays
        <5> QED
          BY <2>3, <3>2, <5>1 DEF WriterMoves, Owes
      <4> QED
        BY <1>3, <2>1, <2>3, <3>2, <4>1 DEF SummaryInv, TrustedRow
    <3> QED
      BY <3>1, <3>2
  <2> QED
    BY <1>6, <2>2, <2>3
<1>7. ~doubt' => \A n \in Nat : (n <= finished /\ (~doubt => RowCovers(n))) => RowCovers(n)'
  BY <1>1
<1> QED
  BY <1>1, <1>5, <1>6, <1>7, WriterKeeps

\* A row written by the lone writer is current, and any other leaves it in doubt.
LEMMA RowWriteKeeps ==
    ASSUME SummaryInv, NEW w \in Writers, writer[w].pc # "idle", Public!UpsertSnapshot(w),
           WriterMoves(w), writer'[w].pc \notin {"idle", "config", "upsert", "tx"}, JobIsShort(w)',
           overwrite' \in BOOLEAN,
           lone = w => writer[w].agg = total /\ writer[w].cfg = overwrite',
           UNCHANGED <<total, stale, jobDue, summary, reader, tick, finished>>
    PROVE  SummaryInv'
<1>0. /\ SummaryTypeOK /\ total \in Nat /\ finished \in Nat /\ finished <= total
      /\ writer[w].agg \in Nat /\ writer[w].cfg \in BOOLEAN
  BY DEF SummaryInv, SummaryTypeOK, WriterStates
<1>1. /\ snaps' \in [Public!Days -> SnapRows \union {Nil}] /\ NoRowAhead'
      /\ \A d \in Public!Days : Latest(d)' => /\ snaps'[d].total = writer[w].agg
                                              /\ snaps'[d].overwrite = writer[w].cfg
  BY <1>0, WrittenRowIsLatest DEF SummaryInv, Public!UpsertSnapshot
<1>2. Public!Days' = Public!Days
  BY DEF Public!Days
<1>3. SummaryTypeOK'
  BY <1>0, <1>1, WriterIsTyped DEF SummaryTypeOK
<1>4. lone' = lone /\ (lone = w \/ doubt) /\ doubt' = (doubt /\ lone # w)
  BY DEF SummaryInv, LoneIsAlone, WriterMoves, Public!UpsertSnapshot
<1>5. lone = w => RowIsCurrent'
  BY <1>1, <1>2 DEF RowIsCurrent
<1>6. \A n \in Nat : (lone = w /\ n <= finished) => RowCovers(n)'
  BY <1>0, <1>1, <1>2 DEF RowCovers
<1>7. lone = w => RowCovers(finished)'
  BY <1>0, <1>6 DEF RowCovers
<1>8. lone' = w => Carries(w)'
  BY <1>4, <1>5 DEF Carries
<1> QED
  BY <1>1, <1>3, <1>4, <1>5, <1>6, <1>7, <1>8, WriterKeeps

-----------------------------------------------------------------------------
\* A writer begins with the record it is given.
LEMMA WriterBegins ==
    ASSUME SummaryTypeOK, NEW w \in Writers, NEW rec \in WriterStates, rec.wrote <= total',
           Public!Begins(w, rec)
    PROVE  /\ WriterMoves(w) /\ writer[w].pc = "idle" /\ writer'[w] = rec
           /\ doubt' = doubt \/ doubt'
<1>1. /\ writer[w].pc = "idle" /\ writer' = [writer EXCEPT ![w] = rec]
      /\ lone' = (IF Public!Quiet THEN w ELSE Nil) /\ doubt' = (doubt \/ ~Public!Quiet)
  BY DEF Public!Begins
<1>2. writer' \in [Writers -> WriterStates] /\ writer'[w] = rec /\ \A v \in Writers : v # w => writer'[v] = writer[v]
  BY <1>1 DEF SummaryTypeOK
<1>3. doubt \in BOOLEAN
  BY DEF SummaryTypeOK
<1> QED
  BY <1>1, <1>2, <1>3 DEF WriterMoves

\* A writer goes on.
LEMMA WriterGoes ==
    ASSUME SummaryTypeOK, NEW w \in Writers, writer[w].pc # "idle", NEW pc \in WriterPcs, Public!Goto(w, pc),
           total' = total, doubt' = doubt \/ (lone = w /\ doubt' = FALSE)
    PROVE  /\ WriterMoves(w) /\ writer'[w].pc = pc /\ lone' = lone
           /\ writer'[w].job = writer[w].job /\ writer'[w].agg = writer[w].agg /\ writer'[w].cfg = writer[w].cfg
<1>1. /\ writer' \in [Writers -> WriterStates] /\ writer'[w].pc = pc /\ writer'[w].wrote = writer[w].wrote
      /\ writer'[w].job = writer[w].job /\ writer'[w].agg = writer[w].agg /\ writer'[w].cfg = writer[w].cfg
      /\ \A v \in Writers : v # w => writer'[v] = writer[v]
  BY DEF SummaryTypeOK, WriterStates, Public!Goto
<1>2. doubt' \in BOOLEAN /\ lone' = lone /\ writer'[w].wrote <= total'
  BY <1>1 DEF SummaryTypeOK, Public!Goto
<1> QED
  BY <1>1, <1>2 DEF WriterMoves

LEMMA LedgerWriteKeeps ==
    ASSUME SummaryInv, NEW w \in Writers, NEW kind \in {"order", "import"}, Public!CommitLedger(w, kind)
    PROVE  SummaryInv'
<1> DEFINE to == IF kind = "order" THEN "distrust" ELSE "aggregate"
           rec == [Public!AtRest EXCEPT !.pc = to, !.wrote = total + 1]
<1>0. SummaryTypeOK /\ total \in Nat
  BY DEF SummaryInv, SummaryTypeOK
<1>1. /\ total' = total + 1 /\ Public!Begins(w, rec)
      /\ UNCHANGED <<overwrite, snaps, stale, jobDue, summary, reader, tick, finished>>
  BY DEF Public!CommitLedger, Public!rest
<1>2. to \in {"distrust", "aggregate"} /\ to \in WriterPcs
  BY DEF WriterPcs
<1> HIDE DEF to
<1>8. rec \in WriterStates /\ rec.pc = to /\ rec.job = FALSE /\ rec.wrote = total + 1
  <2>1. PICK n \in Nat : n = total + 1
    BY <1>0
  <2>2. rec = [Public!AtRest EXCEPT !.pc = to, !.wrote = n]
    BY <2>1
  <2> HIDE DEF rec
  <2> QED
    BY <1>2, <2>1, <2>2 DEF WriterStates, Public!AtRest
<1> HIDE DEF rec
<1>3. WriterMoves(w) /\ writer[w].pc = "idle" /\ writer'[w] = rec /\ (doubt' = doubt \/ doubt')
  BY <1>0, <1>1, <1>8, WriterBegins
<1>4. writer'[w].pc = to /\ writer'[w].job = FALSE
  BY <1>3, <1>8
<1>5. SummaryTypeOK'
  BY <1>0, <1>1, <1>3, WriterIsTyped DEF SummaryTypeOK
<1>6. JobIsShort(w)' /\ Owes(w)' /\ ~Owes(w)
  BY <1>2, <1>3, <1>4 DEF JobIsShort, Owes
<1>7. stale' = stale /\ stale \in BOOLEAN
  BY <1>0, <1>1 DEF SummaryTypeOK
<1> QED
  BY <1>1, <1>2, <1>3, <1>4, <1>5, <1>6, <1>7, WriterKeepsRows

\* The job begins: it owes the ledger nothing.
LEMMA JobKeeps ==
    ASSUME SummaryInv, NEW w \in Writers, Public!RunSnapshotJob(w)
    PROVE  SummaryInv'
<1>0. SummaryTypeOK /\ total \in Nat /\ 0 <= total /\ stale \in BOOLEAN
  BY DEF SummaryInv, SummaryTypeOK
<1> DEFINE rec == [Public!AtRest EXCEPT !.pc = "aggregate", !.job = TRUE]
<1>1. /\ Public!Begins(w, rec) /\ jobDue' \in BOOLEAN
      /\ UNCHANGED <<total, overwrite, snaps, stale, summary, reader, tick, finished>>
  BY DEF Public!RunSnapshotJob, Public!rest
<1>2. rec \in WriterStates /\ rec.pc = "aggregate" /\ rec.job = TRUE /\ rec.wrote = 0
  BY DEF WriterStates, WriterPcs, Public!AtRest
<1> HIDE DEF rec
<1>3. WriterMoves(w) /\ writer[w].pc = "idle" /\ writer'[w] = rec /\ (doubt' = doubt \/ doubt')
  BY <1>0, <1>1, <1>2, WriterBegins
<1>4. writer'[w].pc = "aggregate" /\ writer'[w].job
  BY <1>2, <1>3
<1>5. SummaryTypeOK'
  BY <1>0, <1>1, <1>3, WriterIsTyped DEF SummaryTypeOK
<1>6. JobIsShort(w)' /\ ~Owes(w)
  BY <1>3, <1>4 DEF JobIsShort, Owes
<1> QED
  BY <1>0, <1>1, <1>3, <1>4, <1>5, <1>6, WriterKeepsRows

LEMMA MarkStaleKeeps ==
    ASSUME SummaryInv, NEW w \in Writers, Public!MarkSnapshotStale(w)
    PROVE  SummaryInv'
<1>0. SummaryTypeOK
  BY DEF SummaryInv
<1>1. PICK pc \in {"distrustEvict", "aggregate"} :
         /\ Public!Goto(w, pc) /\ writer[w].pc \in {"distrust", "distrustEvict"}
         /\ stale' \in BOOLEAN /\ (stale' \/ ~stale)
         /\ summary' = summary \/ summary' = Nil
         /\ UNCHANGED <<total, overwrite, snaps, jobDue, reader, tick, finished, doubt>>
  <2>1. CASE writer[w].pc = "distrust" /\ Public!SetFlag(w, TRUE, "distrustEvict")
    BY <2>1 DEF Public!SetFlag, Public!rest
  <2>2. CASE writer[w].pc = "distrustEvict" /\ Public!InvalidateCache(w, "aggregate")
    BY <1>0, <2>2 DEF Public!InvalidateCache, SummaryTypeOK
  <2> QED
    BY <2>1, <2>2 DEF Public!MarkSnapshotStale
<1>2. WriterMoves(w) /\ writer'[w].pc = pc /\ writer'[w].job = writer[w].job
  BY <1>0, <1>1, WriterGoes DEF WriterPcs
<1>3. SummaryTypeOK'
  BY <1>0, <1>1, <1>2, WriterIsTyped DEF SummaryTypeOK
<1>4. ~writer[w].job
  BY <1>1 DEF SummaryInv, JobIsShort
<1>5. JobIsShort(w)' /\ Owes(w)'
  BY <1>1, <1>2, <1>4 DEF JobIsShort, Owes
<1> QED
  BY <1>1, <1>2, <1>3, <1>5, WriterKeepsRows

\* A lone writer's aggregate is the ledger's total, its configuration the active one.
LEMMA SnapshotReadsKeep ==
    ASSUME SummaryInv, NEW w \in Writers, Public!ReadAggregate(w) \/ Public!ReadConfig(w)
    PROVE  SummaryInv'
<1>0. SummaryTypeOK /\ stale \in BOOLEAN
  BY DEF SummaryInv, SummaryTypeOK
<1>1. /\ writer[w].pc \in {"aggregate", "config"}
      /\ UNCHANGED <<total, overwrite, snaps, stale, jobDue, summary, reader, tick, finished, lone, doubt>>
  BY DEF Public!ReadAggregate, Public!ReadConfig, Public!rest
<1>2. /\ writer' \in [Writers -> WriterStates] /\ writer'[w].pc \in {"config", "upsert"}
      /\ \A v \in Writers : v # w => writer'[v] = writer[v]
      /\ writer'[w].job = writer[w].job /\ writer'[w].wrote = writer[w].wrote
      /\ lone = w => writer'[w].agg = total
      /\ writer'[w].pc = "upsert" => writer'[w].cfg = overwrite
  <2>0. writer \in [Writers -> WriterStates] /\ total \in Nat /\ overwrite \in BOOLEAN
    BY <1>0 DEF SummaryTypeOK
  <2>1. CASE Public!ReadAggregate(w)
    BY <2>0, <2>1 DEF Public!ReadAggregate, WriterStates, WriterPcs
  <2>2. CASE Public!ReadConfig(w)
    <3>1. lone = w => writer[w].agg = total
      BY <2>2, SummaryAssumption DEF Public!ReadConfig, SummaryInv, LoneCarries, Carries
    <3> QED
      BY <2>0, <2>2, <3>1 DEF Public!ReadConfig, WriterStates, WriterPcs
  <2> QED
    BY <2>1, <2>2
<1>3. WriterMoves(w)
  BY <1>0, <1>1, <1>2 DEF WriterMoves, SummaryTypeOK
<1>4. SummaryTypeOK'
  BY <1>0, <1>1, <1>3, WriterIsTyped DEF SummaryTypeOK
<1>5. JobIsShort(w)' /\ (Owes(w) => Owes(w)')
  BY <1>1, <1>2 DEF JobIsShort, Owes
<1> QED
  BY <1>0, <1>1, <1>2, <1>3, <1>4, <1>5, WriterKeepsRows

LEMMA SnapshotFailedKeeps ==
    ASSUME SummaryInv, NEW w \in Writers, Public!SnapshotFailed(w)
    PROVE  SummaryInv'
<1> DEFINE to == IF writer[w].job THEN "answer" ELSE "failed"
<1>0. SummaryTypeOK /\ stale \in BOOLEAN
  BY DEF SummaryInv, SummaryTypeOK
<1>1. /\ writer[w].pc \in {"aggregate", "config", "upsert"} /\ Public!Goto(w, to)
      /\ UNCHANGED <<total, overwrite, snaps, stale, jobDue, summary, reader, tick, finished, doubt>>
  BY DEF Public!SnapshotFailed, Public!AfterFailedRefresh, Public!rest
<1>2. WriterMoves(w) /\ writer'[w].pc = to /\ writer'[w].job = writer[w].job
  BY <1>0, <1>1, WriterGoes DEF WriterPcs
<1>3. SummaryTypeOK'
  BY <1>0, <1>1, <1>2, WriterIsTyped DEF SummaryTypeOK
<1>4. JobIsShort(w)' /\ (Owes(w) => Owes(w)')
  BY <1>1, <1>2 DEF JobIsShort, Owes
<1>5. writer'[w].pc \notin {"idle", "config", "upsert", "tx", "fresh"}
  BY <1>2
<1> QED
  BY <1>0, <1>1, <1>2, <1>3, <1>4, <1>5, WriterKeepsRows

\* A refresh or the job writes the row it has read.
LEMMA SnapshotWrittenKeeps ==
    ASSUME SummaryInv, NEW w \in Writers, Public!SnapshotWritten(w)
    PROVE  SummaryInv'
<1> DEFINE to == IF writer[w].job THEN "answer" ELSE "fresh"
<1>0. SummaryTypeOK /\ overwrite \in BOOLEAN
  BY DEF SummaryInv, SummaryTypeOK
<1>1. /\ writer[w].pc = "upsert" /\ Public!UpsertSnapshot(w) /\ Public!Goto(w, to)
      /\ UNCHANGED <<total, overwrite, stale, jobDue, summary, reader, tick, finished>>
  BY DEF Public!SnapshotWritten, Public!rest
<1>2. doubt' = doubt \/ (lone = w /\ doubt' = FALSE)
  BY <1>0, <1>1 DEF Public!UpsertSnapshot, SummaryTypeOK
<1>3. WriterMoves(w) /\ writer'[w].pc = to /\ writer'[w].job = writer[w].job
  BY <1>0, <1>1, <1>2, WriterGoes DEF WriterPcs
<1>4. lone = w => writer[w].agg = total /\ writer[w].cfg = overwrite
  BY <1>1, SummaryAssumption DEF SummaryInv, LoneCarries, Carries
<1>5. JobIsShort(w)' /\ writer'[w].pc \notin {"idle", "config", "upsert", "tx"}
  BY <1>3 DEF JobIsShort
<1> HIDE DEF to
<1> QED
  BY <1>0, <1>1, <1>3, <1>4, <1>5, RowWriteKeeps

\* The configuration's transaction reads the aggregate ...
LEMMA UpdateConfigKeeps ==
    ASSUME SummaryInv, NEW w \in Writers, NEW u \in ConfigInputs, Public!UpdateConfig(w, u)
    PROVE  SummaryInv'
<1>0. SummaryTypeOK /\ total \in Nat /\ 0 <= total /\ stale \in BOOLEAN
  BY DEF SummaryInv, SummaryTypeOK
<1> DEFINE rec == [Public!AtRest EXCEPT !.pc = "tx", !.agg = total, !.cfg = u.overwrite]
<1>1. /\ u.overwrite \in BOOLEAN /\ Public!Begins(w, rec)
      /\ UNCHANGED <<total, overwrite, snaps, stale, jobDue, summary, reader, tick, finished>>
  BY SummaryAssumption DEF Public!UpdateConfig, Public!rest
<1>6. rec \in WriterStates /\ rec.pc = "tx" /\ rec.job = FALSE /\ rec.agg = total /\ rec.wrote = 0
  BY <1>0, <1>1 DEF WriterStates, WriterPcs, Public!AtRest
<1> HIDE DEF rec
<1>2. WriterMoves(w) /\ writer[w].pc = "idle" /\ writer'[w] = rec /\ (doubt' = doubt \/ doubt')
  BY <1>0, <1>1, <1>6, WriterBegins
<1>3. writer'[w].pc = "tx" /\ writer'[w].job = FALSE /\ writer'[w].agg = total
  BY <1>2, <1>6
<1>4. SummaryTypeOK'
  BY <1>0, <1>1, <1>2, WriterIsTyped DEF SummaryTypeOK
<1>5. JobIsShort(w)' /\ ~Owes(w)
  BY <1>2, <1>3 DEF JobIsShort, Owes
<1> QED
  BY <1>0, <1>1, <1>2, <1>3, <1>4, <1>5, WriterKeepsRows

\* ... and writes the row with it, or leaves all as it was.
LEMMA ConfigTxKeeps ==
    ASSUME SummaryInv, NEW w \in Writers, Public!UpdateConfigTx(w)
    PROVE  SummaryInv'
<1>0. /\ SummaryTypeOK /\ stale \in BOOLEAN /\ writer[w].cfg \in BOOLEAN
      /\ writer[w].pc = "tx" /\ ~writer[w].job
  BY DEF SummaryInv, SummaryTypeOK, WriterStates, Public!UpdateConfigTx, JobIsShort
<1>1. CASE overwrite' = writer[w].cfg /\ Public!UpsertSnapshot(w) /\ Public!Goto(w, "fresh")
  <2>1. UNCHANGED <<total, stale, jobDue, summary, reader, tick, finished>>
    BY DEF Public!UpdateConfigTx, Public!rest
  <2>2. doubt' = doubt \/ (lone = w /\ doubt' = FALSE)
    BY <1>0, <1>1 DEF Public!UpsertSnapshot, SummaryTypeOK
  <2>3. WriterMoves(w) /\ writer'[w].pc = "fresh" /\ writer'[w].job = writer[w].job
    BY <1>0, <1>1, <2>1, <2>2, WriterGoes DEF WriterPcs
  <2>4. lone = w => writer[w].agg = total /\ writer[w].cfg = overwrite'
    BY <1>0, <1>1, SummaryAssumption DEF SummaryInv, LoneCarries, Carries
  <2>5. JobIsShort(w)' /\ overwrite' \in BOOLEAN
    BY <1>0, <1>1, <2>3 DEF JobIsShort
  <2> QED
    BY <1>0, <1>1, <2>1, <2>3, <2>4, <2>5, RowWriteKeeps
<1>2. CASE Public!Goto(w, "answer") /\ UNCHANGED <<overwrite, snaps, doubt>>
  <2>1. UNCHANGED <<total, stale, jobDue, summary, reader, tick, finished>>
    BY DEF Public!UpdateConfigTx, Public!rest
  <2>2. WriterMoves(w) /\ writer'[w].pc = "answer" /\ writer'[w].job = writer[w].job
    BY <1>0, <1>2, <2>1, WriterGoes DEF WriterPcs
  <2>3. SummaryTypeOK'
    BY <1>0, <1>2, <2>1, <2>2, WriterIsTyped DEF SummaryTypeOK
  <2>4. JobIsShort(w)' /\ ~Owes(w)
    BY <1>0, <2>2 DEF JobIsShort, Owes
  <2> QED
    BY <1>0, <1>2, <2>1, <2>2, <2>3, <2>4, WriterKeepsRows
<1> QED
  BY <1>1, <1>2 DEF Public!UpdateConfigTx

\* The flag comes down after the lone writer's row, or in doubt.
LEMMA RefreshKeeps ==
    ASSUME SummaryInv, NEW w \in Writers, Public!RefreshDonationSummary(w)
    PROVE  SummaryInv'
<1>0. SummaryTypeOK /\ stale \in BOOLEAN
  BY DEF SummaryInv, SummaryTypeOK
<1>1. PICK pc \in {"freshEvict", "answer"} :
         /\ Public!Goto(w, pc) /\ writer[w].pc \in {"fresh", "failed", "freshEvict"} /\ stale' \in BOOLEAN
         /\ summary' = summary \/ summary' = Nil
         /\ UNCHANGED <<total, overwrite, snaps, jobDue, reader, tick, finished, doubt>>
         /\ \/ stale'
            \/ writer[w].pc = "fresh"
            \/ stale' = stale /\ writer[w].pc = "freshEvict"
  <2>1. CASE writer[w].pc = "fresh" /\ Public!SetFlag(w, FALSE, "freshEvict")
    BY <2>1 DEF Public!SetFlag, Public!rest
  <2>2. CASE writer[w].pc = "failed" /\ Public!SetFlag(w, TRUE, "freshEvict")
    BY <2>2 DEF Public!SetFlag, Public!rest
  <2>3. CASE writer[w].pc = "freshEvict" /\ Public!InvalidateCache(w, "answer")
    BY <1>0, <2>3 DEF Public!InvalidateCache
  <2> QED
    BY <2>1, <2>2, <2>3 DEF Public!RefreshDonationSummary
<1>2. WriterMoves(w) /\ writer'[w].pc = pc /\ writer'[w].job = writer[w].job
  BY <1>0, <1>1, WriterGoes DEF WriterPcs
<1>3. SummaryTypeOK'
  BY <1>0, <1>1, <1>2, WriterIsTyped DEF SummaryTypeOK
<1>4. ~writer[w].job
  BY <1>1 DEF SummaryInv, JobIsShort
<1>5. JobIsShort(w)'
  BY <1>2, <1>4 DEF JobIsShort
<1>6. writer[w].pc = "fresh" => RowIsCurrent \/ doubt'
  <2>1. ASSUME writer[w].pc = "fresh" PROVE lone = w \/ doubt
    BY <2>1 DEF SummaryInv, LoneIsAlone
  <2>2. ASSUME writer[w].pc = "fresh", lone = w PROVE RowIsCurrent
    BY <2>2, SummaryAssumption DEF SummaryInv, LoneCarries, Carries
  <2> QED
    BY <1>1, <2>1, <2>2
<1>7. stale' \/ (~stale /\ (Owes(w) => Owes(w)')) \/ doubt' \/ (RowIsCurrent /\ total' = total)
  <2>1. writer[w].pc = "freshEvict" => ~Owes(w)
    BY DEF Owes
  <2> QED
    BY <1>0, <1>1, <1>6, <2>1
<1> QED
  BY <1>1, <1>2, <1>3, <1>5, <1>7, WriterKeepsRows

\* The writer is answered after the row and the flag are right.
LEMMA AnswerKeeps ==
    ASSUME SummaryInv, NEW w \in Writers, Public!AnswerWriter(w)
    PROVE  SummaryInv'
<1>0. /\ SummaryTypeOK /\ finished \in Nat /\ finished <= total /\ total \in Nat
      /\ tick \in Nat /\ Nil \notin Writers /\ writer[w].wrote \in Nat /\ writer[w].wrote <= total
  BY SummaryAssumption DEF SummaryInv, SummaryTypeOK, WriterStates
<1>1. /\ writer[w].pc = "answer" /\ writer' = [writer EXCEPT ![w] = Public!AtRest]
      /\ finished' = (IF writer[w].wrote > finished THEN writer[w].wrote ELSE finished)
      /\ lone' = (IF lone = w THEN Nil ELSE lone)
      /\ UNCHANGED <<total, overwrite, snaps, stale, jobDue, summary, reader, tick, doubt>>
  BY DEF Public!AnswerWriter, Public!rest
<1>2. /\ writer' \in [Writers -> WriterStates]
      /\ writer'[w].pc = "idle" /\ writer'[w].wrote = 0 /\ writer'[w].job = FALSE
      /\ \A v \in Writers : v # w => writer'[v] = writer[v]
  BY <1>0, <1>1 DEF SummaryTypeOK, WriterStates, WriterPcs, Public!AtRest
<1>3. finished' \in Nat /\ finished <= finished' /\ finished' <= total
  BY <1>0, <1>1
<1>4. Public!Days' = Public!Days
  BY DEF Public!Days
<1>5. SummaryTypeOK'
  <2>1. \A v \in Writers : writer'[v].wrote <= total'
    BY <1>0, <1>1, <1>2 DEF SummaryTypeOK
  <2>2. lone' \in Writers \union {Nil}
    BY <1>0, <1>1 DEF SummaryTypeOK
  <2>3. total' \in Nat /\ finished' <= total'
    BY <1>0, <1>1, <1>3
  <2>4. writer' \in [Writers -> WriterStates] /\ finished' \in Nat
    BY <1>2, <1>3
  <2> QED
    BY <1>0, <1>1, <1>4, <2>1, <2>2, <2>3, <2>4 DEF SummaryTypeOK
<1>6. LoneIsAlone'
  BY <1>0, <1>1, <1>2 DEF SummaryInv, LoneIsAlone
<1>7. NoRowAhead' /\ (\A d : Latest(d)' <=> Latest(d)) /\ \A n \in Nat : RowCovers(n)' <=> RowCovers(n)
  BY <1>0, <1>1, RowsStay
<1>8. RowIsCurrent' <=> RowIsCurrent
  BY <1>1, <1>4, <1>7 DEF RowIsCurrent
<1>9. LoneCarries'
  <2>1. lone' # Nil => writer[w].pc = "idle"
    BY <1>0, <1>1 DEF SummaryInv, LoneIsAlone
  <2> QED
    BY <1>1, <2>1 DEF LoneCarries
<1>10. \A v \in Writers : JobIsShort(v)'
  BY <1>2 DEF SummaryInv, JobIsShort
<1>11. ASSUME ~stale, ~doubt PROVE RowIsCurrent
  <2>1. lone = w
    BY <1>1, <1>11 DEF SummaryInv, LoneIsAlone
  <2>2. \A v \in Writers : writer[v].pc \in {"idle", "answer"}
    BY <1>0, <1>1, <2>1 DEF SummaryInv, LoneIsAlone
  <2>3. \A v \in Writers : ~Owes(v)
    BY <2>2 DEF Owes
  <2> QED
    BY <1>11, <2>3 DEF SummaryInv, TrustedRow
<1>12. RowIsCurrent => RowCovers(finished)'
  <2>1. \A d \in Public!Days : Latest(d)' => (RowIsCurrent => snaps'[d].total = total)
    BY <1>1, <1>7 DEF RowIsCurrent
  <2> QED
    BY <1>0, <1>3, <1>4, <2>1 DEF RowCovers
<1>13. TrustedRow'
  BY <1>1, <1>8, <1>11, <1>12 DEF TrustedRow
<1>14. ReadersCover' /\ EntryCovers'
  BY <1>1, <1>3, <1>7, ReadersStay
<1> QED
  BY <1>5, <1>6, <1>7, <1>9, <1>10, <1>13, <1>14 DEF SummaryInv

\* The clock may pass to a day that has no row yet: the latest row stays the latest.
LEMMA ClockKeeps == ASSUME SummaryInv, Public!TickClock PROVE SummaryInv'
<1>0. /\ SummaryTypeOK /\ finished \in Nat /\ finished <= total /\ total \in Nat
      /\ tick \in Nat /\ MaxTick \in Nat
  BY SummaryAssumption DEF SummaryInv, SummaryTypeOK
<1>1. /\ tick < MaxTick /\ tick' = tick + 1 /\ jobDue' \in BOOLEAN
      /\ UNCHANGED <<total, overwrite, snaps, stale, summary, writer, reader, finished, lone, doubt>>
  BY <1>0 DEF Public!TickClock, SummaryTypeOK
<1>2. tick' \in 0..MaxTick /\ tick' \in Nat /\ tick <= tick'
  BY <1>0, <1>1
<1>3. NoRowAhead' /\ (\A d : Latest(d)' <=> Latest(d)) /\ \A n \in Nat : RowCovers(n)' <=> RowCovers(n)
  BY <1>1, <1>2, RowsStay
<1>4. Public!Days' = Public!Days
  BY DEF Public!Days
<1>5. SummaryTypeOK'
  BY <1>0, <1>1, <1>2, <1>4 DEF SummaryTypeOK
<1>6. RowIsCurrent <=> RowIsCurrent'
  BY <1>1, <1>3, <1>4 DEF RowIsCurrent
<1>7. RowCovers(finished) => RowCovers(finished)'
  BY <1>0, <1>1, <1>3 DEF RowCovers
<1>8. LoneIsAlone' /\ LoneCarries' /\ \A w \in Writers : JobIsShort(w)'
  BY <1>1, <1>6 DEF SummaryInv, LoneIsAlone, LoneCarries, Carries, JobIsShort
<1>9. TrustedRow'
  BY <1>1, <1>6, <1>7 DEF SummaryInv, TrustedRow, Owes
<1>10. ReadersCover' /\ EntryCovers'
  BY <1>0, <1>1, <1>3, ReadersStay
<1> QED
  BY <1>3, <1>5, <1>8, <1>9, <1>10 DEF SummaryInv

\* A restart forgets the flag: the row is in doubt when it was up or a refresh was
\* under way.
LEMMA RestartKeeps == ASSUME SummaryInv, Public!Restart PROVE SummaryInv'
<1>0. /\ SummaryTypeOK /\ finished \in Nat /\ finished <= total /\ total \in Nat
      /\ tick \in Nat /\ Nil \notin Writers
  BY SummaryAssumption DEF SummaryInv, SummaryTypeOK
<1>1. /\ stale' = FALSE /\ summary' = Nil /\ jobDue' \in BOOLEAN
      /\ writer' = [w \in Writers |-> Public!AtRest] /\ reader' = [r \in Readers |-> Public!NoRead]
      /\ lone' = Nil /\ doubt' = (doubt \/ stale \/ ~Public!Quiet)
      /\ UNCHANGED <<total, overwrite, snaps, tick, finished>>
  BY DEF Public!Restart
<1>2. writer' \in [Writers -> WriterStates] /\ \A w \in Writers : writer'[w].wrote <= total
  BY <1>0, <1>1 DEF WriterStates, WriterPcs, Public!AtRest
<1>3. reader' \in [Readers -> ReaderStates]
  BY <1>1 DEF ReaderStates, Public!NoRead
<1>4. Public!Days' = Public!Days
  BY DEF Public!Days
<1>5. SummaryTypeOK'
  BY <1>0, <1>1, <1>2, <1>3, <1>4 DEF SummaryTypeOK
<1>6. NoRowAhead' /\ (\A d : Latest(d)' <=> Latest(d)) /\ \A n \in Nat : RowCovers(n)' <=> RowCovers(n)
  BY <1>0, <1>1, RowsStay
<1>7. RowIsCurrent <=> RowIsCurrent'
  BY <1>1, <1>4, <1>6 DEF RowIsCurrent
<1>8. RowCovers(finished) => RowCovers(finished)'
  BY <1>0, <1>1, <1>6 DEF RowCovers
<1>9. LoneIsAlone' /\ LoneCarries' /\ \A w \in Writers : JobIsShort(w)'
  BY <1>1 DEF LoneIsAlone, LoneCarries, JobIsShort, Public!AtRest
<1>10. TrustedRow'
  BY <1>1, <1>7, <1>8 DEF SummaryInv, TrustedRow, Owes, Public!Quiet
<1>11. ReadersCover' /\ EntryCovers'
  BY <1>1 DEF ReadersCover, EntryCovers, Public!NoRead
<1> QED
  BY <1>5, <1>6, <1>9, <1>10, <1>11 DEF SummaryInv

\* A reader's step changes no row: what is left is its own record and the entry.
LEMMA ReaderKeeps ==
    ASSUME SummaryInv, NEW r \in Readers, NEW rec \in ReaderStates, Public!StepReader(r, rec),
           rec.pc \in {"compute", "snapshot", "live"} => rec.floor <= finished,
           (rec.pc = "snapshot" /\ ~doubt) => RowCovers(rec.floor),
           rec.pc \in {"month", "served"} => rec.agg >= rec.floor,
           rec.pc # "served" => ~rec.cached,
           summary' \in Entries \union {Nil}, EntryCovers'
    PROVE  SummaryInv'
<1>0. SummaryTypeOK /\ tick \in Nat
  BY SummaryAssumption DEF SummaryInv, SummaryTypeOK
<1>1. /\ reader' = [reader EXCEPT ![r] = rec]
      /\ UNCHANGED <<total, overwrite, snaps, stale, jobDue, writer, tick, finished, lone, doubt>>
  BY DEF Public!StepReader
<1>2. NoRowAhead' /\ (\A d : Latest(d)' <=> Latest(d)) /\ \A n \in Nat : RowCovers(n)' <=> RowCovers(n)
  BY <1>0, <1>1, RowsStay
<1>3. Public!Days' = Public!Days
  BY DEF Public!Days
<1>4. SummaryTypeOK'
  BY <1>0, <1>1, <1>3 DEF SummaryTypeOK
<1>5. RowIsCurrent <=> RowIsCurrent'
  BY <1>1, <1>2, <1>3 DEF RowIsCurrent
<1>6. RowCovers(finished) => RowCovers(finished)'
  BY <1>0, <1>1, <1>2 DEF RowCovers, SummaryTypeOK
<1>7. LoneIsAlone' /\ LoneCarries' /\ (\A w \in Writers : JobIsShort(w)') /\ TrustedRow'
  BY <1>1, <1>5, <1>6 DEF SummaryInv, LoneIsAlone, LoneCarries, Carries, JobIsShort, TrustedRow, Owes
<1>8. ReadersCover'
  <2> SUFFICES ASSUME NEW q \in Readers
               PROVE  /\ reader'[q].pc \in {"compute", "snapshot", "live"} => reader'[q].floor <= finished'
                      /\ (reader'[q].pc = "snapshot" /\ ~doubt') => RowCovers(reader[q].floor)'
                      /\ reader'[q].pc \in {"month", "served"} => reader'[q].agg >= reader'[q].floor
                      /\ reader'[q].pc # "served" => ~reader'[q].cached
    BY DEF ReadersCover
  <2>1. reader[q].floor \in Nat /\ rec.floor \in Nat
    BY <1>0 DEF SummaryTypeOK, ReaderStates
  <2>2. CASE q = r
    <3>1. reader'[q] = rec
      BY <1>0, <1>1, <2>2 DEF SummaryTypeOK
    <3>2. RowCovers(rec.floor) => RowCovers(rec.floor)'
      BY <1>2, <2>1, <3>1 DEF RowCovers
    <3> QED
      BY <1>1, <3>1, <3>2 DEF RowCovers
  <2>3. CASE q # r
    <3>1. reader'[q] = reader[q]
      BY <1>0, <1>1, <2>3 DEF SummaryTypeOK
    <3> QED
      BY <1>1, <1>2, <2>1, <3>1 DEF SummaryInv, ReadersCover
  <2> QED
    BY <2>2, <2>3
<1> QED
  BY <1>2, <1>4, <1>7, <1>8 DEF SummaryInv

LEMMA BeginsNow ==
    ASSUME SummaryTypeOK
    PROVE  /\ Public!Begin \in ReaderStates
           /\ Public!Begin.floor = finished /\ ~Public!Begin.cached
BY TodayIsADay DEF Public!Begin, Public!NoRead, Public!Month, ReaderStates, SummaryTypeOK

\* A trusted entry is the answer; it is of this month.
LEMMA ServeCachedKeeps ==
    ASSUME SummaryInv, NEW r \in Readers, Public!ServeCached(r)
    PROVE  SummaryInv'
<1> DEFINE rec == [Public!Begin EXCEPT !.pc = "served", !.cached = TRUE, !.agg = summary.sum.agg,
                                       !.floor = summary.sum.floor]
<1>0. SummaryTypeOK /\ Public!Begin \in ReaderStates
  BY BeginsNow DEF SummaryInv
<1>1. summary # Nil /\ summary' = summary /\ Public!StepReader(r, rec)
  BY DEF Public!ServeCached, Public!CacheHit
<1>2. summary \in Entries
  BY <1>0, <1>1 DEF SummaryTypeOK
<1>3. summary.sum \in Sums /\ summary.sum.agg >= summary.sum.floor
  BY <1>1, <1>2 DEF Entries, SummaryInv, EntryCovers
<1>4. rec \in ReaderStates /\ rec.pc = "served" /\ rec.agg >= rec.floor
  BY <1>0, <1>3 DEF ReaderStates, Sums
<1>5. EntryCovers'
  BY <1>1 DEF SummaryInv, EntryCovers
<1> HIDE DEF rec
<1> QED
  BY <1>1, <1>2, <1>4, <1>5, ReaderKeeps

LEMMA BeginComputeKeeps ==
    ASSUME SummaryInv, NEW r \in Readers, Public!BeginCompute(r)
    PROVE  SummaryInv'
<1> DEFINE rec == [Public!Begin EXCEPT !.pc = "compute"]
<1>0. /\ SummaryTypeOK /\ finished \in Nat
      /\ Public!Begin \in ReaderStates /\ Public!Begin.floor = finished /\ ~Public!Begin.cached
  BY BeginsNow DEF SummaryInv, SummaryTypeOK
<1>1. summary' = summary /\ Public!StepReader(r, rec)
  BY DEF Public!BeginCompute
<1>2. rec \in ReaderStates /\ rec.pc = "compute" /\ rec.floor = finished /\ ~rec.cached
  BY <1>0 DEF ReaderStates
<1> HIDE DEF rec
<1>3. rec.floor <= finished
  BY <1>0, <1>2
<1>4. EntryCovers' /\ summary' \in Entries \union {Nil}
  BY <1>0, <1>1 DEF SummaryInv, EntryCovers, SummaryTypeOK
<1> QED
  BY <1>1, <1>2, <1>3, <1>4, ReaderKeeps

\* The flag was down: a row that is not in doubt covers whatever had been answered.
LEMMA ComputeKeeps ==
    ASSUME SummaryInv, NEW r \in Readers, Public!computeSummary(r)
    PROVE  SummaryInv'
<1> DEFINE rec == [reader[r] EXCEPT !.pc = IF stale THEN "live" ELSE "snapshot"]
<1>0. SummaryTypeOK /\ finished \in Nat /\ reader[r] \in ReaderStates
  BY DEF SummaryInv, SummaryTypeOK
<1>1. reader[r].pc = "compute" /\ summary' = summary /\ Public!StepReader(r, rec)
  BY DEF Public!computeSummary, Public!UseLive
<1>2. /\ rec \in ReaderStates /\ rec.pc \in {"live", "snapshot"} /\ rec.floor = reader[r].floor
      /\ rec.cached = reader[r].cached /\ (rec.pc = "snapshot" => ~stale)
  BY <1>0 DEF ReaderStates
<1>3. rec.floor \in Nat /\ rec.floor <= finished /\ ~rec.cached
  BY <1>0, <1>1, <1>2 DEF SummaryInv, ReadersCover, ReaderStates
<1>4. (rec.pc = "snapshot" /\ ~doubt) => RowCovers(rec.floor)
  <2>1. SUFFICES ASSUME rec.pc = "snapshot", ~doubt, NEW d \in Public!Days, Latest(d)
                 PROVE  snaps[d].total >= rec.floor
    BY DEF RowCovers
  <2>2. snaps[d].total >= finished
    BY <1>2, <2>1 DEF SummaryInv, TrustedRow, RowCovers
  <2>3. snaps[d].total \in Nat
    BY <1>0, <2>1 DEF Latest, SummaryTypeOK, SnapRows
  <2> QED
    BY <1>0, <1>3, <2>2, <2>3
<1>5. EntryCovers' /\ summary' \in Entries \union {Nil}
  BY <1>0, <1>1 DEF SummaryInv, EntryCovers, SummaryTypeOK
<1> HIDE DEF rec
<1> QED
  BY <1>1, <1>2, <1>3, <1>4, <1>5, ReaderKeeps

LEMMA ReadSnapshotKeeps ==
    ASSUME SummaryInv, NEW r \in Readers, Public!ReadSnapshot(r)
    PROVE  SummaryInv'
<1> DEFINE rec == IF Public!ChosenSnapshot = Nil THEN [reader[r] EXCEPT !.pc = "live"]
                  ELSE [reader[r] EXCEPT !.pc = "month", !.agg = Public!ChosenSnapshot.total,
                                         !.floor = IF doubt THEN 0 ELSE reader[r].floor]
<1>0. SummaryTypeOK /\ NoRowAhead /\ finished \in Nat /\ reader[r] \in ReaderStates
  BY DEF SummaryInv, SummaryTypeOK
<1>1. reader[r].pc = "snapshot" /\ summary' = summary /\ Public!StepReader(r, rec)
  BY DEF Public!ReadSnapshot
<1>2. reader[r].floor <= finished /\ (~doubt => RowCovers(reader[r].floor)) /\ ~reader[r].cached
  BY <1>1 DEF SummaryInv, ReadersCover
<1>3. /\ rec \in ReaderStates /\ rec.pc \in {"live", "month"} /\ (rec.pc = "live" => rec.floor = reader[r].floor)
      /\ ~rec.cached /\ (rec.pc = "month" => rec.agg >= rec.floor)
  <2>1. CASE Public!ChosenSnapshot = Nil
    BY <1>0, <1>2, <2>1 DEF ReaderStates
  <2>2. CASE Public!ChosenSnapshot # Nil
    <3>1. PICK d \in Public!Days : Latest(d) /\ Public!ChosenSnapshot = snaps[d] /\ snaps[d] \in SnapRows
      BY <1>0, <2>2, TheLatestIsChosen
    <3> DEFINE floor == IF doubt THEN 0 ELSE reader[r].floor
    <3>2. floor \in Nat /\ snaps[d].total \in Nat /\ snaps[d].total >= floor
      BY <1>0, <1>2, <3>1 DEF RowCovers, ReaderStates, SnapRows
    <3>3. rec = [reader[r] EXCEPT !.pc = "month", !.agg = snaps[d].total, !.floor = floor]
      BY <2>2, <3>1
    <3> HIDE DEF rec, floor
    <3> QED
      BY <1>0, <1>2, <3>2, <3>3 DEF ReaderStates
  <2> QED
    BY <2>1, <2>2
<1>4. EntryCovers' /\ summary' \in Entries \union {Nil}
  BY <1>0, <1>1 DEF SummaryInv, EntryCovers, SummaryTypeOK
<1> HIDE DEF rec
<1> QED
  BY <1>1, <1>2, <1>3, <1>4, ReaderKeeps

LEMMA LiveSummaryKeeps ==
    ASSUME SummaryInv, NEW r \in Readers, Public!computeLiveSummary(r)
    PROVE  SummaryInv'
<1> DEFINE rec == [reader[r] EXCEPT !.pc = "month", !.agg = total]
<1>0. /\ SummaryTypeOK /\ finished \in Nat /\ total \in Nat /\ finished <= total
      /\ overwrite \in BOOLEAN /\ reader[r] \in ReaderStates
  BY DEF SummaryInv, SummaryTypeOK
<1>1. reader[r].pc = "live" /\ summary' = summary /\ Public!StepReader(r, rec)
  BY DEF Public!computeLiveSummary
<1>2. reader[r].floor \in Nat /\ reader[r].floor <= finished /\ ~reader[r].cached
  BY <1>0, <1>1 DEF SummaryInv, ReadersCover, ReaderStates
<1>3. /\ rec \in ReaderStates /\ rec.pc = "month" /\ rec.agg = total /\ rec.floor = reader[r].floor
      /\ ~rec.cached
  BY <1>0, <1>2 DEF ReaderStates
<1> HIDE DEF rec
<1>5. rec.agg >= rec.floor
  BY <1>0, <1>2, <1>3
<1>4. EntryCovers' /\ summary' \in Entries \union {Nil}
  BY <1>0, <1>1 DEF SummaryInv, EntryCovers, SummaryTypeOK
<1> QED
  BY <1>1, <1>3, <1>4, <1>5, ReaderKeeps

LEMMA CacheAndServeKeeps ==
    ASSUME SummaryInv, NEW r \in Readers, Public!CacheAndServe(r)
    PROVE  SummaryInv'
<1> DEFINE rec == [reader[r] EXCEPT !.pc = "served"]
           entry == [month |-> reader[r].month, at |-> tick,
                     sum |-> [agg |-> reader[r].agg, floor |-> reader[r].floor,
                              month |-> reader[r].month]]
<1>0. SummaryTypeOK /\ finished \in Nat /\ tick \in Nat /\ reader[r] \in ReaderStates
  BY SummaryAssumption DEF SummaryInv, SummaryTypeOK
<1>1. reader[r].pc = "month" /\ summary' = entry /\ Public!StepReader(r, rec)
  BY DEF Public!CacheAndServe
<1>2. reader[r].agg >= reader[r].floor
  BY <1>1 DEF SummaryInv, ReadersCover
<1>3. rec \in ReaderStates /\ rec.pc = "served" /\ rec.agg >= rec.floor
  BY <1>0, <1>2 DEF ReaderStates
<1>4. entry \in Entries
  BY <1>0 DEF ReaderStates, Entries, Sums
<1>5. EntryCovers'
  BY <1>1, <1>2 DEF EntryCovers
<1> HIDE DEF rec, entry
<1> QED
  BY <1>1, <1>3, <1>4, <1>5, ReaderKeeps

\* No step of the summary leaves the invariant.
LEMMA SummaryStep == ASSUME SummaryInv, [Public!SummaryNext]_sums PROVE SummaryInv'
<1>1. CASE UNCHANGED sums
  <2>1. /\ SummaryTypeOK /\ tick \in Nat
        /\ UNCHANGED <<total, overwrite, snaps, stale, jobDue, summary, writer, reader, tick, finished, lone, doubt>>
    BY <1>1, SummaryAssumption DEF SummaryInv, SummaryTypeOK, sums
  <2>2. Public!Days' = Public!Days /\ Public!Today' = Public!Today
    BY <2>1 DEF Public!Days, Public!Today
  <2>3. \A d : Latest(d)' <=> Latest(d)
    BY <2>1, <2>2 DEF Latest
  <2>4. SummaryTypeOK' /\ NoRowAhead' /\ LoneIsAlone' /\ EntryCovers' /\ \A w \in Writers : JobIsShort(w)'
    BY <2>1, <2>2 DEF SummaryInv, SummaryTypeOK, NoRowAhead, LoneIsAlone, EntryCovers, JobIsShort
  <2>5. RowIsCurrent' <=> RowIsCurrent
    BY <2>1, <2>2, <2>3 DEF RowIsCurrent
  <2>6. RowCovers(finished)' <=> RowCovers(finished)
    BY <2>1, <2>2, <2>3 DEF RowCovers
  <2>7. \A r \in Readers : RowCovers(reader[r].floor)' <=> RowCovers(reader[r].floor)
    BY <2>1, <2>2, <2>3 DEF RowCovers
  <2>8. LoneCarries' /\ TrustedRow' /\ ReadersCover'
    BY <2>1, <2>5, <2>6, <2>7 DEF SummaryInv, LoneCarries, Carries, TrustedRow, Owes, ReadersCover
  <2> QED
    BY <2>4, <2>8 DEF SummaryInv
<1>2. ASSUME NEW w \in Writers, NEW kind \in {"order", "import"}, Public!CommitLedger(w, kind) PROVE SummaryInv'
  BY <1>2, LedgerWriteKeeps
<1>3. ASSUME NEW w \in Writers, Public!MarkSnapshotStale(w) PROVE SummaryInv'
  BY <1>3, MarkStaleKeeps
<1>4. ASSUME NEW w \in Writers, Public!ReadAggregate(w) \/ Public!ReadConfig(w) PROVE SummaryInv'
  BY <1>4, SnapshotReadsKeep
<1>5. ASSUME NEW w \in Writers, Public!SnapshotWritten(w) \/ Public!SnapshotFailed(w) PROVE SummaryInv'
  BY <1>5, SnapshotWrittenKeeps, SnapshotFailedKeeps
<1>6. ASSUME NEW w \in Writers, Public!RefreshDonationSummary(w) PROVE SummaryInv'
  BY <1>6, RefreshKeeps
<1>7. ASSUME NEW w \in Writers, Public!UpdateConfigTx(w) \/ \E u \in ConfigInputs : Public!UpdateConfig(w, u)
      PROVE  SummaryInv'
  BY <1>7, UpdateConfigKeeps, ConfigTxKeeps
<1>8. ASSUME NEW w \in Writers, Public!RunSnapshotJob(w) \/ Public!AnswerWriter(w) PROVE SummaryInv'
  BY <1>8, JobKeeps, AnswerKeeps
<1>9. ASSUME NEW r \in Readers,
             \/ Public!ServeCached(r) \/ Public!BeginCompute(r) \/ Public!computeSummary(r)
             \/ Public!ReadSnapshot(r) \/ Public!computeLiveSummary(r) \/ Public!CacheAndServe(r)
      PROVE  SummaryInv'
  BY <1>9, ServeCachedKeeps, BeginComputeKeeps, ComputeKeeps, ReadSnapshotKeeps, LiveSummaryKeeps, CacheAndServeKeeps
<1>10. CASE Public!TickClock \/ Public!Restart
  BY <1>10, ClockKeeps, RestartKeeps
<1> QED
  BY <1>1, <1>2, <1>3, <1>4, <1>5, <1>6, <1>7, <1>8, <1>9, <1>10 DEF Public!SummaryNext, Public!Serving

\* What the invariant says of the public summary.
LEMMA SummaryInvSuffices ==
    ASSUME SummaryInv
    PROVE  Public!SummaryIncludesAnsweredWrites /\ Public!TrustedSnapshotIsCurrent
<1>1. Public!SummaryIncludesAnsweredWrites
  BY DEF Public!SummaryIncludesAnsweredWrites, SummaryInv, ReadersCover
<1>2. Public!TrustedSnapshotIsCurrent
  <2> SUFFICES ASSUME Public!Quiet, ~stale, ~doubt, Public!ChosenSnapshot # Nil
               PROVE  Public!ChosenSnapshot = [total |-> total, overwrite |-> overwrite]
    BY DEF Public!TrustedSnapshotIsCurrent
  <2>1. PICK d \in Public!Days : Latest(d) /\ Public!ChosenSnapshot = snaps[d] /\ snaps[d] \in SnapRows
    BY TheLatestIsChosen DEF SummaryInv
  <2>2. \A w \in Writers : ~Owes(w)
    BY DEF Public!Quiet, Owes
  <2>3. RowIsCurrent
    BY <2>2 DEF SummaryInv, TrustedRow
  <2>4. snaps[d].total = total /\ snaps[d].overwrite = overwrite
    BY <2>1, <2>3 DEF RowIsCurrent
  <2> QED
    BY <2>1, <2>4 DEF SnapRows
<1> QED
  BY <1>1, <1>2

\* The only step after which a reader newly holds a cached answer serves an entry
\* whose month is this one.
LEMMA CachedIsOfThisMonth ==
    ASSUME SummaryInv, [Public!SummaryNext]_sums, NEW r \in Readers, reader'[r].cached, reader'[r] # reader[r]
    PROVE  summary.sum.month = Public!Month(Public!Today)
<1>0. reader \in [Readers -> ReaderStates]
  BY DEF SummaryInv, SummaryTypeOK
<1>1. CASE Public!ServeCached(r)
  BY <1>1 DEF Public!ServeCached, Public!CacheHit, SummaryInv, EntryCovers
<1>2. CASE UNCHANGED reader \/ reader' = [q \in Readers |-> Public!NoRead]
  BY <1>2 DEF Public!NoRead
<1>3. ASSUME NEW q \in Readers, NEW rec, Public!StepReader(q, rec), q # r PROVE FALSE
  BY <1>0, <1>3 DEF Public!StepReader
<1>4. CASE Public!BeginCompute(r)
  BY <1>0, <1>4 DEF Public!BeginCompute, Public!StepReader, Public!Begin, Public!NoRead
<1>5. CASE \/ Public!computeSummary(r) \/ Public!ReadSnapshot(r)
           \/ Public!computeLiveSummary(r) \/ Public!CacheAndServe(r)
  <2>1. ~reader[r].cached
    BY <1>5 DEF Public!computeSummary, Public!ReadSnapshot, Public!computeLiveSummary, Public!CacheAndServe,
                SummaryInv, ReadersCover
  <2>2. reader[r] \in ReaderStates
    BY <1>0
  <2>3. CASE Public!computeSummary(r)
    BY <1>0, <2>1, <2>2, <2>3 DEF Public!computeSummary, Public!StepReader, ReaderStates
  <2>4. CASE Public!ReadSnapshot(r)
    <3>1. PICK pc, n, m : \/ Public!StepReader(r, [reader[r] EXCEPT !.pc = pc])
                          \/ Public!StepReader(r, [reader[r] EXCEPT !.pc = pc, !.agg = n, !.floor = m])
      BY <2>4, Zenon DEF Public!ReadSnapshot
    <3> QED
      BY <1>0, <2>1, <2>2, <3>1 DEF Public!StepReader, ReaderStates
  <2>5. CASE Public!computeLiveSummary(r)
    BY <1>0, <2>1, <2>2, <2>5 DEF Public!computeLiveSummary, Public!StepReader, ReaderStates
  <2>6. CASE Public!CacheAndServe(r)
    BY <1>0, <2>1, <2>2, <2>6 DEF Public!CacheAndServe, Public!StepReader, ReaderStates
  <2> QED
    BY <1>5, <2>3, <2>4, <2>5, <2>6
<1>6. ASSUME NEW q \in Readers, q # r,
             \/ Public!ServeCached(q) \/ Public!BeginCompute(q) \/ Public!computeSummary(q)
             \/ Public!ReadSnapshot(q) \/ Public!computeLiveSummary(q) \/ Public!CacheAndServe(q)
      PROVE  FALSE
  BY <1>3, <1>6 DEF Public!ServeCached, Public!BeginCompute, Public!computeSummary, Public!ReadSnapshot,
                    Public!computeLiveSummary, Public!CacheAndServe
<1>7. \/ UNCHANGED reader
      \/ reader' = [q \in Readers |-> Public!NoRead]
      \/ \E q \in Readers : \/ Public!ServeCached(q) \/ Public!BeginCompute(q) \/ Public!computeSummary(q)
                            \/ Public!ReadSnapshot(q) \/ Public!computeLiveSummary(q) \/ Public!CacheAndServe(q)
  BY DEF Public!SummaryNext, Public!Serving, Public!rest, Public!CommitLedger, Public!RunSnapshotJob,
         Public!MarkSnapshotStale, Public!SetFlag, Public!InvalidateCache, Public!ReadAggregate,
         Public!ReadConfig, Public!SnapshotWritten, Public!SnapshotFailed, Public!RefreshDonationSummary,
         Public!UpdateConfig, Public!UpdateConfigTx, Public!AnswerWriter, Public!TickClock,
         Public!Restart, sums
<1> QED
  BY <1>1, <1>2, <1>4, <1>5, <1>6, <1>7

\* SummaryIsCurrent: for any writers, snapshot jobs, configuration changes and
\* restarts, what the public page shows includes every ledger write answered before
\* it was computed, and the snapshot it trusts is the ledger's total and the
\* configuration whenever no refresh is under way, whatever refreshes failed and
\* days passed - both but for a row that overlapping refreshes or a restart left in
\* doubt, until a refresh that runs alone writes it again; and a cached summary is
\* never of an older month.
THEOREM SummaryIsCurrentAlways == MCSpec => SummaryIsCurrent
<1>1. MCSpec => SummaryInv /\ [][[Public!SummaryNext]_sums]_sums
  <2>1. MCInit => SummaryInv
    BY SummaryStarts DEF MCInit
  <2>2. [MCNext]_<<scene, giving, sums>> => [Public!SummaryNext]_sums
    BY DEF MCNext, sums, Public!SummaryNext
  <2> QED
    BY <2>1, <2>2, PTL DEF MCSpec
<1>2. SummaryInv /\ [Public!SummaryNext]_sums => SummaryInv'
  BY SummaryStep
<1>3. SummaryInv => Public!SummaryIncludesAnsweredWrites /\ Public!TrustedSnapshotIsCurrent
  BY SummaryInvSuffices
<1>4. SummaryInv /\ [Public!SummaryNext]_sums
        => [\A r \in Readers : (reader'[r].cached /\ reader'[r] # reader[r])
              => summary.sum.month = Public!Month(Public!Today)]_Public!summaryVars
  BY CachedIsOfThisMonth
<1>5. UNCHANGED sums <=> UNCHANGED Public!summaryVars
  BY DEF sums, Public!summaryVars
<1> QED
  BY <1>1, <1>2, <1>3, <1>4, <1>5, PTL DEF SummaryIsCurrent, Public!SummaryIsCurrent, Public!NoSummaryOfAnOlderMonth
=============================================================================
