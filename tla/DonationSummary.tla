--------------------------- MODULE DonationSummary ---------------------------
(***************************************************************************)
(* The public donation summary: the daily snapshot row, the in-memory      *)
(* "snapshot is stale" flag, the five-minute cache, the writers that       *)
(* refresh them after a ledger write or a configuration change, the        *)
(* snapshot job, and the requests that read them; a restart of the process *)
(* forgets the flag and the cache.  The ledger is abstracted to its        *)
(* received total, which every write here raises by one; the configuration *)
(* to its overwrite switch.  Each database statement and each access to    *)
(* the flag or to the cache is a step of its own, and nothing keeps two    *)
(* refreshes from overlapping.                                             *)
(***************************************************************************)
EXTENDS Integers

CONSTANTS
    Writers,      \* requests that change the ledger or the configuration; runs of the job
    Readers,      \* public requests
    ConfigInputs, \* the configurations an administrator sends
    None,         \* no snapshot row, no cache entry, no answer yet
    CacheTTL,     \* the cache entry's lifetime, in ticks
    TicksPerDay,  \* a day is also a month here
    MaxTotal,     \* bound: ledger writes
    MaxTick       \* bound: the clock

VARIABLES
    total,      \* the ledger's received total
    overwrite,  \* DC_OVERWRITE of the active configuration
    snaps,      \* DONATION_SNAPSHOT: day -> [total, overwrite] or None
    stale,      \* DonationService.snapshotStale
    jobDue,     \* the snapshot job has a row to take: after midnight, or at a start
    cache,      \* the "donation_summary" entry: [month, sum, at] or None
    writer,     \* writer -> program counter and what it has read
    reader,     \* reader -> program counter and what it has read
    tick,       \* the clock
    finished,   \* history: the largest total whose writer has answered
    lone,       \* history: the writer since whose beginning no other was under way, or None
    doubt       \* history: since the last lone refresh wrote the row, refreshes overlapped or a
                \* restart forgot that one was under way or had failed

rest == <<cache, reader, tick>>
summaryVars == <<total, overwrite, snaps, stale, jobDue, cache, writer, reader, tick, finished, lone, doubt>>

Days == 0..(MaxTick \div TicksPerDay)
Today == tick \div TicksPerDay
Month(d) == d

AtRest == [pc |-> "idle", job |-> FALSE, wrote |-> 0, agg |-> 0, cfg |-> FALSE]
NoRead == [pc |-> "idle", floor |-> 0, month |-> 0, agg |-> 0, cached |-> FALSE]

-----------------------------------------------------------------------------
(* Writers and the snapshot job                                            *)

Quiet == \A w \in Writers : writer[w].pc = "idle"

\* A writer begins, alone or beside others.
Begins(w, rec) ==
    /\ writer[w].pc = "idle"
    /\ writer' = [writer EXCEPT ![w] = rec]
    /\ lone' = IF Quiet THEN w ELSE None
    /\ doubt' = (doubt \/ ~Quiet)

Goto(w, pc) ==
    /\ writer' = [writer EXCEPT ![w].pc = pc]
    /\ UNCHANGED lone

\* A ledger write has committed: by the order form, which distrusts the snapshot
\* next, or by an import, a payment or a billing run, which go straight to the
\* refresh.
CommitLedger(w, kind) ==
    /\ total < MaxTotal
    /\ total' = total + 1
    /\ Begins(w, [AtRest EXCEPT !.pc = IF kind = "order" THEN "distrust" ELSE "aggregate",
                                !.wrote = total + 1])
    /\ UNCHANGED <<overwrite, snaps, stale, jobDue, finished, rest>>

\* The job's timer has fired, or its start found no row for today; it takes one
\* snapshot at a time.
RunSnapshotJob(w) ==
    /\ jobDue /\ jobDue' = FALSE
    /\ \A v \in Writers : ~writer[v].job
    /\ Begins(w, [AtRest EXCEPT !.pc = "aggregate", !.job = TRUE])
    /\ UNCHANGED <<total, overwrite, snaps, stale, finished, rest>>

\* MarkSnapshotStale and MarkSnapshotFresh set the flag, then evict the cache.
SetFlag(w, value, next) ==
    /\ stale' = value
    /\ Goto(w, next)
    /\ UNCHANGED <<total, overwrite, snaps, jobDue, finished, doubt, rest>>

InvalidateCache(w, next) ==
    /\ cache' = None
    /\ Goto(w, next)
    /\ UNCHANGED <<total, overwrite, snaps, stale, jobDue, reader, tick, finished, doubt>>

\* refreshSummaryAfterLedgerWrite: public reads stop trusting the old snapshot.
MarkSnapshotStale(w) ==
    \/ writer[w].pc = "distrust" /\ SetFlag(w, TRUE, "distrustEvict")
    \/ writer[w].pc = "distrustEvict" /\ InvalidateCache(w, "aggregate")

\* createSnapshot reads the aggregate, then the configuration.
ReadAggregate(w) ==
    /\ writer[w].pc = "aggregate"
    /\ writer' = [writer EXCEPT ![w].pc = "config", ![w].agg = total]
    /\ UNCHANGED <<total, overwrite, snaps, stale, jobDue, finished, lone, doubt, rest>>

ReadConfig(w) ==
    /\ writer[w].pc = "config"
    /\ writer' = [writer EXCEPT ![w].pc = "upsert", ![w].cfg = overwrite]
    /\ UNCHANGED <<total, overwrite, snaps, stale, jobDue, finished, lone, doubt, rest>>

\* INSERT ... ON DUPLICATE KEY UPDATE of today's row; what a lone writer writes
\* is beyond doubt.
UpsertSnapshot(w) ==
    /\ snaps' = [snaps EXCEPT ![Today] = [total |-> writer[w].agg, overwrite |-> writer[w].cfg]]
    /\ doubt' = (doubt /\ lone # w)

\* The job ends after its row, written or not: it leaves the flag and the cache alone.
SnapshotWritten(w) ==
    /\ writer[w].pc = "upsert"
    /\ UpsertSnapshot(w)
    /\ Goto(w, IF writer[w].job THEN "answer" ELSE "fresh")
    /\ UNCHANGED <<total, overwrite, stale, jobDue, finished, rest>>

\* RefreshDonationSummary marks the snapshot stale when it could not be written.
AfterFailedRefresh == "failed"

\* A statement of createSnapshot fails.
SnapshotFailed(w) ==
    /\ writer[w].pc \in {"aggregate", "config", "upsert"}
    /\ Goto(w, IF writer[w].job THEN "answer" ELSE AfterFailedRefresh)
    /\ UNCHANGED <<total, overwrite, snaps, stale, jobDue, finished, doubt, rest>>

RefreshDonationSummary(w) ==
    \/ writer[w].pc = "fresh" /\ SetFlag(w, FALSE, "freshEvict")
    \/ writer[w].pc = "failed" /\ SetFlag(w, TRUE, "freshEvict")
    \/ writer[w].pc = "freshEvict" /\ InvalidateCache(w, "answer")

\* The tiers' thresholds rise strictly from a non-negative one.
validDonationTierThresholds(u) ==
    /\ \A k \in DOMAIN u.tiers : u.tiers[k] >= 0
    /\ \A j, k \in DOMAIN u.tiers : j < k => u.tiers[j] < u.tiers[k]

\* A balance is not negative and comes with the date it is of.
normalizeDonationConfigUpdate(u) ==
    /\ validDonationTierThresholds(u)
    /\ u.balance # None => u.balance >= 0 /\ u.dated

\* The active configuration and today's snapshot change in one transaction, which
\* holds the configuration's row, reads the aggregate ...
UpdateConfig(w, u) ==
    /\ normalizeDonationConfigUpdate(u)
    /\ \A v \in Writers : writer[v].pc # "tx"
    /\ Begins(w, [AtRest EXCEPT !.pc = "tx", !.agg = total, !.cfg = u.overwrite])
    /\ UNCHANGED <<total, overwrite, snaps, stale, jobDue, finished, rest>>

\* ... and commits both; the snapshot is then marked fresh and the cache evicted.
\* When it fails the flag is left as it is.
UpdateConfigTx(w) ==
    /\ writer[w].pc = "tx"
    /\ \/ /\ overwrite' = writer[w].cfg
          /\ UpsertSnapshot(w)
          /\ Goto(w, "fresh")
       \/ /\ Goto(w, "answer")
          /\ UNCHANGED <<overwrite, snaps, doubt>>
    /\ UNCHANGED <<total, stale, jobDue, finished, rest>>

\* The writer has its answer, or the job goes back to sleep.
AnswerWriter(w) ==
    /\ writer[w].pc = "answer"
    /\ writer' = [writer EXCEPT ![w] = AtRest]
    /\ finished' = IF writer[w].wrote > finished THEN writer[w].wrote ELSE finished
    /\ lone' = IF lone = w THEN None ELSE lone
    /\ UNCHANGED <<total, overwrite, snaps, stale, jobDue, doubt, rest>>

-----------------------------------------------------------------------------
(* Readers.                                                                *)

StepReader(r, rec) ==
    /\ reader' = [reader EXCEPT ![r] = rec]
    /\ UNCHANGED <<total, overwrite, snaps, stale, jobDue, writer, tick, finished, lone, doubt>>

\* A faulty variant of CacheHit: the entry's month is not looked at.
CacheHitAnyMonth(month) == cache # None /\ tick - cache.at < CacheTTL

CacheHit(month) == cache # None /\ tick - cache.at < CacheTTL /\ cache.month = month

Begin == [NoRead EXCEPT !.floor = finished, !.month = Month(Today)]

\* A trusted cache entry is the answer ...
ServeCached(r) ==
    /\ reader[r].pc \in {"idle", "served"}
    /\ ~stale /\ CacheHit(Month(Today))
    /\ StepReader(r, [Begin EXCEPT !.pc = "served", !.cached = TRUE,
                                   !.agg = cache.sum.agg, !.floor = cache.sum.floor])
    /\ UNCHANGED cache

\* ... or the summary is computed.
BeginCompute(r) ==
    /\ reader[r].pc \in {"idle", "served"}
    /\ stale \/ ~CacheHit(Month(Today))
    /\ StepReader(r, [Begin EXCEPT !.pc = "compute"])
    /\ UNCHANGED cache

\* Today's snapshot, else the latest one.
ChosenSnapshot ==
    IF snaps[Today] # None THEN snaps[Today]
    ELSE IF \E d \in Days : snaps[d] # None
         THEN snaps[CHOOSE d \in Days : snaps[d] # None
                                        /\ \A e \in Days : snaps[e] # None => e <= d]
         ELSE None

\* The flag says that the snapshot row is behind the ledger.
UseLive == stale

\* computeSummary asks the flag first ...
computeSummary(r) ==
    /\ reader[r].pc = "compute"
    /\ StepReader(r, [reader[r] EXCEPT !.pc = IF UseLive THEN "live" ELSE "snapshot"])
    /\ UNCHANGED cache

\* ... then reads the snapshot row, if there is one; nothing is promised of a row
\* in doubt ...
ReadSnapshot(r) ==
    /\ reader[r].pc = "snapshot"
    /\ IF ChosenSnapshot = None
       THEN StepReader(r, [reader[r] EXCEPT !.pc = "live"])
       ELSE StepReader(r, [reader[r] EXCEPT !.pc = "month", !.agg = ChosenSnapshot.total,
                                            !.floor = IF doubt THEN 0 ELSE @])
    /\ UNCHANGED cache

\* ... or the ledger and the configuration themselves.
computeLiveSummary(r) ==
    /\ reader[r].pc = "live"
    /\ StepReader(r, [reader[r] EXCEPT !.pc = "month", !.agg = total])
    /\ UNCHANGED cache

\* The month's amount is read last; the result is cached and returned.
CacheAndServe(r) ==
    /\ reader[r].pc = "month"
    /\ cache' = [month |-> reader[r].month, at |-> tick,
                 sum |-> [agg |-> reader[r].agg, floor |-> reader[r].floor, month |-> reader[r].month]]
    /\ StepReader(r, [reader[r] EXCEPT !.pc = "served"])

-----------------------------------------------------------------------------
\* At midnight the job's timer fires.
TickClock ==
    /\ tick < MaxTick
    /\ tick' = tick + 1
    /\ jobDue' = (jobDue \/ Today' # Today)
    /\ UNCHANGED <<total, overwrite, snaps, stale, cache, writer, reader, finished, lone, doubt>>

\* The process is restarted: the rows stay.  The start of the job asks whether
\* today has a row, and takes it when it has not; an error ends the asking.
Restart ==
    /\ stale' = FALSE /\ cache' = None
    /\ writer' = [w \in Writers |-> AtRest]
    /\ reader' = [r \in Readers |-> NoRead]
    /\ jobDue' \in {FALSE, snaps[Today] = None}
    /\ lone' = None /\ doubt' = (doubt \/ stale \/ ~Quiet)
    /\ UNCHANGED <<total, overwrite, snaps, tick, finished>>

SummaryInit ==
    /\ total = 0 /\ overwrite = FALSE
    /\ snaps \in {[d \in Days |-> None],
                  [d \in Days |-> IF d = 0 THEN [total |-> 0, overwrite |-> FALSE] ELSE None]}
    /\ stale = FALSE /\ jobDue = (snaps[0] = None) /\ cache = None
    /\ writer = [w \in Writers |-> AtRest]
    /\ reader = [r \in Readers |-> NoRead]
    /\ tick = 0 /\ finished = 0
    /\ lone = None /\ doubt = FALSE

\* What happens while the process runs.
Serving ==
    \/ \E w \in Writers : \/ \E kind \in {"order", "import"} : CommitLedger(w, kind)
                          \/ RunSnapshotJob(w)
                          \/ MarkSnapshotStale(w)
                          \/ ReadAggregate(w)
                          \/ ReadConfig(w)
                          \/ SnapshotWritten(w)
                          \/ SnapshotFailed(w)
                          \/ RefreshDonationSummary(w)
                          \/ \E u \in ConfigInputs : UpdateConfig(w, u)
                          \/ UpdateConfigTx(w)
                          \/ AnswerWriter(w)
    \/ \E r \in Readers : ServeCached(r) \/ BeginCompute(r) \/ computeSummary(r)
                          \/ ReadSnapshot(r) \/ computeLiveSummary(r) \/ CacheAndServe(r)
    \/ TickClock

SummaryNext == Serving \/ Restart

SummarySpec == SummaryInit /\ [][SummaryNext]_summaryVars

-----------------------------------------------------------------------------
(* Properties.                                                             *)

\* A summary that was computed, and not served from the cache, includes every
\* ledger write that had been answered when the computing began - with the
\* snapshot fresh, stale after a failed refresh, or taken over from an earlier
\* day - unless it was read from a row in doubt: one that overlapping refreshes
\* may have overwritten with an older total, or that a restart made trusted
\* again.  A cached one includes what had been answered when it was computed.
SummaryIncludesAnsweredWrites ==
    \A r \in Readers : reader[r].pc = "served" => reader[r].agg >= reader[r].floor

\* A cached summary is never served in a later month than the one whose amount it
\* carries, although the entry may live past the month's end.
NoSummaryOfAnOlderMonth ==
    [][\A r \in Readers : (reader'[r].cached /\ reader'[r] # reader[r])
          => cache.sum.month = Month(Today)]_summaryVars

\* Once a refresh, a configuration update or the job has run alone, the snapshot
\* row that reads trust is the ledger's total and the active configuration
\* whenever none is under way, whatever failed since, until two overlap or a
\* restart cuts one short or forgets the flag.
TrustedSnapshotIsCurrent ==
    (Quiet /\ ~stale /\ ~doubt /\ ChosenSnapshot # None) =>
        ChosenSnapshot = [total |-> total, overwrite |-> overwrite]

\* The public summary is current: computed ones include what was answered before,
\* the snapshot they trust is the ledger's total and the configuration, both but
\* for a row in doubt, and a cached one is never of an older month.
SummaryIsCurrent ==
    /\ [](SummaryIncludesAnsweredWrites /\ TrustedSnapshotIsCurrent)
    /\ NoSummaryOfAnOlderMonth
=============================================================================
