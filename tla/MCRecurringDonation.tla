------------------------- MODULE MCRecurringDonation -------------------------
(***************************************************************************)
(* Donations from the order to the public page, in four scenes:            *)
(*   once     a one-time order beside a subscription, two confirmations    *)
(*            that may overlap, within a day and without billing           *)
(*   monthly  a subscription, its confirmations one at a time, the daily    *)
(*            job and operator runs over two months of two days            *)
(*   refresh  writers, configuration changes, the snapshot job and         *)
(*            restarts around the snapshot row, within two days            *)
(*   reading  ledger writers and a reader of the public summary over       *)
(*            three days                                                   *)
(***************************************************************************)
EXTENDS RecurringDonation, TLC

CONSTANTS
    Writers, Readers, ConfigInputs, CacheTTL, TicksPerDay, MaxTotal, MaxTick,  \* of DonationSummary
    Nil       \* its None

VARIABLES scene, total, overwrite, snaps, stale, jobDue, summary, writer, reader, tick, finished, lone, doubt

Interchangeable == Permutations(Confirms) \cup Permutations(Runs) \cup Permutations(Writers)

\* No row and no entry is the absence of one; a configuration's switch is on or off.
ASSUME SummaryAssumption ==
    /\ TicksPerDay \in Nat \ {0} /\ MaxTick \in Nat
    /\ \A u \in ConfigInputs : u.overwrite \in BOOLEAN
    /\ Nil \notin [total : Nat, overwrite : BOOLEAN]
    /\ Nil \notin [month : Nat, at : Nat,
                   sum : [agg : Nat, floor : Nat, month : Nat]]
    /\ Nil \notin Writers

Config(over, tiers, balance, dated) ==
    [overwrite |-> over, tiers |-> tiers, balance |-> balance, dated |-> dated]

MCConfigInputs ==
    {Config(TRUE, <<0, 1, 2, 3, 4>>, 1, TRUE),
     Config(FALSE, <<0, 1, 2, 3, 4>>, Nil, FALSE),
     Config(FALSE, <<0, 1, 1, 3, 4>>, Nil, TRUE)}

Public == INSTANCE DonationSummary WITH cache <- summary, None <- Nil

giving == <<today, orders, subs, charged, req, conf, run, ranOn, lost, raced>>
sums == <<total, overwrite, snaps, stale, jobDue, summary, writer, reader, tick, finished, lone, doubt>>

MCInit ==
    /\ scene \in {"once", "monthly", "refresh", "reading"}
    /\ Init
    /\ Public!SummaryInit
    /\ scene \in {"once", "monthly"} => snaps[0] = Nil

\* One confirmation at a time.
OneConfirmation == \E c \in Confirms : \A other \in Confirms \ {c} : conf[other] = IdleConf

MCNext ==
    \/ /\ scene \in {"once", "monthly"} /\ Next /\ UNCHANGED <<scene, sums>>
       /\ scene = "once" => run' = run /\ today' = today
       /\ scene = "monthly" => /\ \A o \in DOMAIN orders' : orders'[o].gate # "S"
                               /\ OneConfirmation'
    \/ /\ scene = "refresh" /\ Public!SummaryNext /\ UNCHANGED <<scene, giving>>
       /\ reader' = reader /\ tick' <= TicksPerDay
    \/ /\ scene = "reading" /\ Public!Serving /\ UNCHANGED <<scene, giving>>
       /\ \A w \in Writers : writer'[w].pc # "tx" /\ ~writer'[w].job

MCSpec == MCInit /\ [][MCNext]_<<scene, giving, sums>>

-----------------------------------------------------------------------------
\* The public summary is current, fresh or cached (DonationSummary).
SummaryIsCurrent == Public!SummaryIsCurrent
=============================================================================
