# Verification of the alumni service backend

TLA+ models, TLC runs and TLAPS proofs for the Go backend of the alumni service
(`src/backend`). The backend is one HTTP server over MariaDB with background
jobs and a few in-memory stores; two server processes may overlap during a
deploy. The models cover the protocols that span requests, background workers,
operators and outside services, and the shared state that several requests
read and write:

1. **revoking social logins** at Kakao and Apple through an outbox;
2. **erasing an account**, a saga that runs for days and must be complete,
   cancellable until it starts, and never silently stuck;
3. **sessions**: rotating refresh tokens, ending sessions from anywhere, and
   push registrations that must not outlive them;
4. **becoming a member**: phone codes, social link tokens with photo uploads,
   registration, passwords and their reset;
5. **messaging**: sends with retries, blocks, reading, the event stream and
   push notifications;
6. **giving**: payments, recurring donations, the ledger and the public total;
7. **the back office and the board**: notices, categories, reactions,
   moderation, notification texts and the app update policy.

Everything is model-checked. The safety properties of all seven are also proved
for every value of the constants; liveness is only model-checked (section 5).

## 1. Inventory

Sources are below `src/backend/internal/` unless said otherwise.

| Part | State it keeps | Operations | Interacts with | Modelled in |
|---|---|---|---|---|
| Social revocation outbox (`job/social_revocation_worker.go`, `repository/social_revocation_repo.go`) | rows with status, claim, attempts, next attempt | queue, claim, call provider, checkpoint, finalize, fail, retry | deletion requests queue rows and read them as proof; providers | `SocialRevocation` |
| Social connections (`repository/account_connections_repo.go`, `service/auth_account_connections.go`, `service/social_account_lifecycle.go`) | link and its status, credential | link, relink, disconnect, Apple notifications | outbox, sessions | partly: `SocialRevocation`, `AccountErasure`, `MobileSessions` |
| Deletion requests (`repository/account_deletion_*.go`, `account_erasure_schedule.go`) | request status, required providers, restore bar | request, cancel, start, complete, schedule, expedite, mode, reviews | erasure job, outbox, sessions | `AccountErasure` |
| Automatic erasure (`job/account_erasure.go`, `service/account_erasure*.go`, `repository/account_erasure_*.go`) | job stage and mode, encrypted handoff, targets, file queue, receipt work | one saga per request, under a MySQL named lock | outbox, external processor, files, operators | `AccountErasure` |
| Mobile sessions (`repository/auth_repo.go`, `deferred_logout.go`, `service/mobile_session_issuer.go`, `auth_session.go`) | refresh tokens | issue, rotate, logout, logout everywhere, proofs, purge | middleware, push, deletion, password reset | `MobileSessions` |
| Push (`repository/push_session_scope.go`, `push_erasure_guard.go`, `service/push_delivery.go`, `push_notice_broadcast.go`) | registrations, shard and broadcast queues, workers | register, deliver, retry, fan out, stop | sessions, notices, messages, push provider | `MobileSessions`, `PushDelivery` |
| Web login and middleware (`middleware/auth.go`, `service/auth_jwt.go`) | cookies, login log rows | log in, resolve the caller | sessions | partly: `MobileSessions` |
| Phone verification (`service/phone_verification_service.go`, `repository/phone_verification_repo.go`) | codes, attempts, grants | issue, confirm, consume, purge | signup, SMS vendor | `PhoneVerification` |
| Signup (`service/social_link_token_store.go`, `auth_social_link.go`, `registration_service.go`, `repository/signup_*.go`) | in-memory tokens with leases and timers, uploads, members | begin, lease, commit, cancel, expire, discard | phone grants, photos | `Signup` |
| Passwords (`service/member_service.go`, `canonical_password_service.go`, password reset) | legacy and canonical hashes, reset tokens | log in with rehash or adoption, change, reset | sessions | `Passwords` |
| Messages (`service/message_service.go`, `repository/message_*.go`, blocks, preferences, reports) | messages, blocks, preferences, reports | send, list, read, delete, block, report, purge | hub, push | `Conversations` |
| Realtime hub (`realtime/hub.go`, its stream handler) | subscribers, bounded history | subscribe with replay, publish, unsubscribe | messages | `RealtimeHub` |
| Payments and recurring donations (`service/donate_service.go`, `subscription_*.go`, `job/subscription_billing.go`) | orders, subscriptions | order, confirm, activate, bill, suspend, cancel | payment gateway | `RecurringDonation`; the job is not started at this commit |
| Donation summary (`service/donation_service.go`, `donation_config_*.go`, `job/donation_snapshot.go`) | snapshots, stale flag, cache, configuration | refresh, read, take the day's row at midnight or at a start | ledger | `DonationSummary` |
| Donation ledger (`service/admin_donation_*.go`, `donation_import_*.go`, `repository/admin_donation_*.go`) | orders, donors, import tokens, retention reviews | enter, edit, preview, commit, review, erase | erasure, summary | `DonationLedger` |
| Notices and inbox (`service/admin_feed_*.go`, `feed_*.go`, `notification_*.go`) | notices, attachments, categories, pins, seen markers | create, edit, pin, delete, announce, mark seen | push, feed | `NoticeBoard` |
| Reactions and moderation (`service/like*.go`, `comment*.go`, `comment_report*.go`) | likes, views, comments, reports | toggle, count, comment, report, resolve | erasure, hero cache | `PostReactions` |
| Notification texts (`service/notification_template*.go`) | one text per key, cache with generations | render, edit | SMS, push | `NotificationTemplates` |
| App update policy (`service/app_update_*.go`, settings, version gate) | policy rows, history, public cache, observed builds | save, read, gate, observe | every client request | `AppUpdatePolicy` |
| Banners, disclosures, uploads, advertisements, visits, mail, monitoring | tables and files | single-statement content management, I/O | — | not modelled |
| Member site, admin site, proxy, deployment, migrations, commands | — | — | — | not modelled |

Hard behaviours, by part (`PROJECT.json` lists each one at its line):

- *outbox*: crash between the provider's answer and the checkpoint, lost
  answers, batches that outlive their lease, writes without a claim or status
  guard, operators who release live claims, members who relink meanwhile;
- *erasure*: a named lock its owner can lose, cancellation racing the start, a
  batch snapshot that is old when it is used, a handoff that expires at the
  wrong moment, partial results, late writes, operators beside workers;
- *sessions*: duplicate refreshes and replays, requests that passed the
  middleware before the session ended, three-statement logout, deferred
  logouts that arrive late, push retries;
- *signup*: timers against leases, commits whose outcome is unknown, a
  cancellation that overlaps a commit, photos owned by nobody after a crash,
  attempts counted by parallel guesses;
- *messaging*: retries of a send that was accepted, a block between acceptance
  and announcement, pages that shift while being read, times written in one
  zone and read in another, a full subscriber buffer, a queue closed while
  another request sends to it;
- *giving*: approval before commit, a charge forgotten by a crash, two runs of
  the billing job, failures counted twice, refreshes that overlap, a stale flag
  a restart forgets, an import row matched to a profile that changes before the
  commit;
- *board and back office*: two editors of one row within one second, two
  spellings of one key, caches set from a read that is old by then, reports
  decided twice, erasure between the reading and the writing of a comment or a
  report.

## 2. Modules

| Module | What it is |
|---|---|
| `RevocationOutbox` | abstract: what the ACCOUNT_DELETE rows promise to the deletion |
| `SocialRevocation`, `SocialRevocationProofs` | the outbox, its workers, operators and relinking members; its theorems |
| `DeletionContract` | abstract: what a deletion promises to the member |
| `AccountErasure`, `AccountErasureProofs` | request, operators, erasure workers; uses `RevocationOutbox` for the outbox; its theorems |
| `SessionLifecycle` | abstract: a session opens once, closes once |
| `MobileSessions`, `MobileSessionsProofs` | refresh tokens, registrations, web logins, requests in flight, a push worker; its theorems |
| `PhoneVerification` | codes, throttle, attempts, grants |
| `Signup`, `SignupProofs` | extends `PhoneVerification`: link tokens, leases, forms, photos, members; the theorems of both and of `Passwords` |
| `Passwords` | legacy and canonical credentials, logins, resets |
| `Conversations`, `MessagingProofs` | sends, blocks, reading, deletion, reports, purge; the theorems of it, of `RealtimeHub` and of `PushDelivery` |
| `RealtimeHub` | the hub, its streams and reconnecting clients |
| `PushDelivery` | queues, workers, notice fan-out, preferences, shutdown |
| `RecurringDonation`, `RecurringDonationProofs` | orders, confirmations, subscriptions, billing runs; the theorems of it and of `DonationSummary` |
| `DonationSummary` | writers, snapshots, the cached public summary |
| `DonationLedger`, `BackOfficeProofs` | orders by hand and by import, reviews, erasure of a donor; the theorems of the back office: ledger, texts and policy |
| `NoticeBoard`, `BoardProofs` | notices, attachments, categories, pins, the feed, the inbox; the theorems of it and of `PostReactions` |
| `PostReactions` | likes, views, comments, reports, the hero cache |
| `NotificationTemplates` | rendering and editing of one text |
| `AppUpdatePolicy` | saves, history, cache, gate, observed builds |
| `MC*` | instances: symmetry, inputs, and the scenes of a run |

`AccountErasure` composes with the outbox assume/guarantee style: it embeds
the actions of `RevocationOutbox`, and `SocialRevocation` is shown to
implement that contract (`ImplementsContract`, checked and proved). A worker's
unguarded checkpoint write (`MarkSocialRevocationRevoked`) is why the contract
lets a DELIVERED row fall back to REVOKED. `Signup` composes with
`PhoneVerification` directly: a registration consumes a grant inside its own
transaction.

Operators named `X_Something` before a definition `X` are deliberate faults
(a dropped guard, a missing reset, a swapped order). Each checked property is
violated when its fault replaces `X`.

A request is modelled by its program counter and by what it has read, with one
step per statement or transaction. A transaction is one step where row locks
or a unique key make it so, and several where the code reads outside it.

### SocialRevocation

A row stands for one (member, provider) link with its own credential and
authorization. `status`, `claim`, `attempts` are columns; `due` and `fresh`
are the two comparisons with NOW; `connection` and `credential` the link;
`provider` what the provider has seen. A worker has a program counter, the
batch it fetched and the status and attempt count *as fetched*, because
`processEntry` decides on those. `ClaimDueSocialRevocations` and the fetch
that follows are two steps. The DISCONNECT flow locks connection and row and
checks the claim; the ACCOUNT_DELETE flow does not, and is modelled so. A
statement of the begin that fails puts a REVOKED row back to PENDING
(`BeginFails`).
`BatchLimit`, `MaxAttempts` are the code's constants, `MaxFaults` bounds
crashes, failing writes, lost answers, leases that expire under a working
owner and operator retries.

### AccountErasure

A member has at most one request. The variables follow the tables:
`status`, `required`, `barred` (request); `mode`, `stage`, `evidence`, `code`,
`ready`, `due` (job); `context`, `receipt`, `files`, `target` (handoff). The
worker is `processOne` of `service/account_erasure.go`, one step per store
call; `snapErased` and `snapEvidence` are what the batch query returned before
the first request of the batch was processed. Operator controls that take the
named lock need it free; `CompleteManually`, `ResolveReceiptWork` and retention
decisions take none. `LoseLock` frees the lock while its owner goes on. Each
erasure transaction is one step that either happens or is rolled back, and any
check of the schema, of file ownership or of shared files may roll it back.
`EraseByHand` is the removal an operator does with the runbook, external.

### MobileSessions

A family of tokens is a session id with the number of tokens issued (`gen`)
and the sets of them that have a row, are consumed, revoked, expired. A
request in flight (`req`) has passed what its handler read and still has to
write. For rotation against revocation of all sessions one step per
transaction rests on the row locks of the family: both lock the rows of the
session id first, and under InnoDB's default isolation the locking reads also
keep new rows of the family out. `Workload` names the kinds of event of an
instance; with all kinds the model is the whole system, and the proofs hold
for every workload. `swept` and `global` are history: what a logout everywhere
ended, and how often a proof was honoured.

### PhoneVerification, Signup, Passwords

A code is a row with attempts, a grant and its expiry; a request for one reads
the throttle before it inserts, and a check reads the row before it counts the
attempt. A link token of `Signup` is absent, held, leased or committed; its
expiry timer, a cancellation and a lease race for it, and every photo it owns
is either with a token, with a member, or in a discard that is retried. The
outcome of a commit can be unknown to the process that asked for it, and a
restart forgets the tokens. `Passwords` has the two tables a password may be
in: a login reads a hash and later writes it back, stronger (rehash, guarded
by what was read) or in the other table (adoption, an upsert without a
condition). `Adopted` says which providers have a canonical row already.

### Conversations, RealtimeHub, PushDelivery

A send is its idempotency key, the checks of text, recipient and blocks, the
accepting transaction, and the announcement after it. Blocked recipients get a
row that is *suppressed*: stored, invisible and purged later. Reading has the pages of
a conversation and of the list of conversations, each the newest rows before
the cursor of the page before, marking one message or a conversation as read,
and the events that follow. The times follow the code: a message's time is read
as it is stored and labelled UTC, so the database, which reads the cursor in the
driver's zone, looks `ZoneShift` later than the program that filters its answer
(`RowBefore`, `BeforeCursor`); the list's times are written and read in the same
zone. `wanted` is history, the rows that were listed whenever a page was read.
(A row of the list that a newer message replaces between two pages has left the
list, and nothing is owed for it.)
`RealtimeHub` is the hub's lock, its bounded history and the buffered channel
of each subscriber; a client reconnects with its last event id, or without, and
the replay (`Replay`) is the loop of `Subscribe` over the history.
`PushDelivery` has the shards, the broadcast queue, the workers with their
guards (notice and members still there, preference) and the shutdown, which
closes queues while senders may be about to send. A page of a fan-out is the
set of the recipients past the cursor that fewer than a page of others precede,
walked from the least.

### RecurringDonation, DonationSummary, DonationLedger

`RecurringDonation` splits a confirmation where the code does: read, approve at
the gateway, commit. `charged` is what the gateway took, its approvals numbered
per order, and an order has the numbers of those that were recorded for it;
`lost` are the approvals forgotten because of a fault, which the code may take
again in the same month; `raced` are the subscriptions that two runs have listed
at once or whose first payment two confirmations tried at once, which it allows.
A billing run holds the rows it still has to do and takes them in the order of
their number.
`DonationSummary` follows a writer through its write, its refresh, its stale
flag and its cache invalidation, a configuration update and a run of the
snapshot job likewise, and a reader through the cache and the snapshots. Any of
them overlap, and a restart forgets the flag and the cache. Two variables are
history: `lone`, the writer that has had nobody beside it, and `doubt`, that
refreshes overlapped or a restart cut one short or forgot its failure since one
ran alone. `DonationLedger` has the two identities of an order, the composite key
and the pair of source and transaction number, editing
with a form opened earlier, import tokens with the rows a preview matched,
retention reviews with what was inspected, and the erasure of a donor, which
keeps the amounts.

### NoticeBoard, PostReactions

An editor's request holds what it has read and goes on statement by statement;
only the deletion and the ordering of categories are transactions. Categories
have a limit and a default under which posts of a deleted one are listed. A
page of the feed or of the inbox is the set of the rows below the cursor that
fewer than a page of others precede in the query's order, pinned first in the
feed, and its cursor is the last of them; `Scroll` and `UnreadInPages` follow
the cursors to the end. A member's inbox is the marker and the notices after
it. In `PostReactions` a like is read, looked up and
toggled in three steps, a view is counted after the page is read, a comment is
inserted after the session check (`writing`), a report is filed after the comment
is read and decided after it is opened. `late` is history: the comments that
landed when their author's erasure was done. The hero is
cached with and without a notice.

### NotificationTemplates, AppUpdatePolicy

A text is its lengths, tokens and whether it can be encoded: what validation
and the SMS limit tell apart. A cache entry carries the generation it was read
under; an edit bumps the generation and drops the entry. `pinned` marks the
one exception, a check and a set that are not atomic. `AppUpdatePolicy` has the
policy row with its second-resolution timestamp, the append-only history, the
public cache and its own `pinned`, the generic settings endpoint with the keys
an administrator may type (`outside`: texts written through it under a spelling
that its guard takes for another key and the database does not), the builds clients reported and their
throttle, and the comparison of OS versions.

## 3. Runs

Several runs hold components that share no state: an initial state picks a
*scene*, and only that scene's actions run, with the bounds its questions
need. A property that is a conjunction names its parts in the component's
module.

| Run | Instance | Shows |
|---|---|---|
| `revocation_safety` | 2 workers, a DISCONNECT row, a Kakao deletion row, 2 attempts, 2 faults | recorded proof is real; relinked accounts are not touched; a stolen lease changes nothing |
| `revocation_settles` | 2 workers, an Apple deletion row, 3 attempts, 3 faults, fair | every row ends DELIVERED or in a visible failure; rows keep the contract |
| `erasure_safety` | 2 servers, Kakao, 1 fault | completed means erased, cancelled means untouched, the handoff survives, manual keeps workers out; implements `DeletionContract` |
| `erasure_targets` | 1 server, processor, 2 targets, fair; a Kakao link, 1 fault and no takeover, or no link and 2 faults | evidence only when every target is verified; no worker completes with files queued; no request stalls in silence |
| `session_chain` | *chain*: 1 session of 3 tokens, 2 requests, 1 fault, every way to end it; *push*: 2 sessions of 3 tokens between them, 1 device, a push worker | no fork; accepted means renewable; a global proof works once; one late send at most; an ended session stays ended |
| `session_devices` | 2 members, 2 sessions, 1 device, 1 browser, 2 requests, 1 fault | swept registrations stay gone; a device is released only by whom it should be |
| `signup` | *codes*: 2 requests, 2 guessers, 3 codes; *replace*, *share*, *evidence*: 2 tokens, 2 forms, 2 photos, 2 members, store and commit faults; *passwords*: 2 logins, 2 confirmations | `CodesBounded`, `PhotosAccountedFor`, `MembersAreEarned`, `PasswordsStaySet` |
| `messaging` | *retry*, *reach*, *reading*: 3 members, 3 sends, zone shift 1; *streams*: 2 members, history of 2; *fan*, *direct*: 3 members with 2 devices, shard of 2, pages of 2, 2 attempts | `MessagesReachAsAccepted`, `ReadingIsExact`, `StreamsAreFaithful`, `PushesAreSound` |
| `donations` | *once*: a one-time order, a subscription, 2 overlapping confirmations; *monthly*: a subscription, confirmations one at a time, 2 runs (job and operator), 2 months; each 1 member, 1 fault; *refresh*: 2 writers, configuration, job, restarts, 2 days; *reading*: 2 writers, a reader, 3 days | `ChargesAreAccounted`, `BillingIsFair`, `SummaryIsCurrent` |
| `back_office` | *import*, *review*, *pages*: 2 members, 2 operators, 2 orders, of two sources with one transaction number; *texts*: 2 editors, 1 render; *saves*, *builds*: 2 administrators, 2 builds | `LedgerIsConsistent`, `TextsAreSound`, `PolicyIsSound`, `SavesLoseNothing` |
| `board` | *posts*, *categories*, *feed*, *inbox*: 2 editors, 3 categories, 4 notices; *likes*, *views*: 3 members; *reports*: 3 members, 2 of them moderators, 2 comments, 2 reports | `NoticesAreFound`, `ReactionsAgree`, `ModerationHolds` |
| `password_adoption` | 1 login, 1 reset, nothing adopted yet | **violated**: a login restores the old password |

The grouped properties, part by part:

- `CodesBounded`: requests of a phone within a window, and wrong guesses of a
  code, stay bounded although each is read before it is counted; the excess of
  parallel ones is exactly what the code's order allows.
- `PhotosAccountedFor`: a committed member's photo and a leased one are never
  discarded, and no photo is forgotten.
- `MembersAreEarned`: every member used a grant of its own or a provider's
  identity; a cancelled signup creates nothing; a committed token stays spent.
- `PasswordsStaySet`: a rehash never brings an old password back; a reset
  needs a link that was asked for.
- `MessagesReachAsAccepted`: what was suppressed when accepted never reaches,
  and a retried send is announced once.
- `ReadingIsExact`: paging returns nothing twice and skips no row that was
  listed whenever a page was read and is newer than one it returned; the list
  of conversations is complete when it ends (a conversation's pages are not,
  section 4); marking a conversation reads nothing newer than was shown, read
  events and unread counts agree with the rows.
- `StreamsAreFaithful`: events in order, once, no gap but for a full buffer, a
  history outrun or a restart, and no replay blocks while it holds the hub's
  lock.
- `PushesAreSound`: no send on a closed queue, a broadcast reaches a recipient
  once, and at most the attempt in flight goes to a removed notice or a
  withdrawn member.
- `ChargesAreAccounted`: every approval of the gateway is recorded, about to be
  recorded or forgotten because of a fault, exactly one of the three, and a
  paid order was charged its price.
- `BillingIsFair`: the gateway takes at most one charge for a month of a
  subscription besides those a fault made the service forget, and a suspension
  follows consecutive failures; nothing is claimed for a subscription that two
  runs, or two first payments, handled at once.
- `SummaryIsCurrent`: unless the row is in doubt, a summary includes every
  answered write and a trusted snapshot is the ledger's total; a cached summary
  is never of an older month.
- `LedgerIsConsistent`: no two orders share a composite identity or a source's
  transaction number, an erased donor owns nothing,
  reviews are of the order as it is, an erasure is what was reviewed and keeps
  the totals, matched rows follow the member they were matched to.
- `TextsAreSound`, `PolicyIsSound`: what is sent passes its own validation and
  is no older than the last answered edit; a client the gate refuses has an
  update it can install, the history is a chain through every text the policy had
  but for those written from outside, and reads show answered saves.
- `SavesLoseNothing`: a save replaces only what its form was opened on, in the
  ledger, the texts and the policy, except for saves within one second.
- `NoticesAreFound`: a published notice is announced, counted under one category
  and, as long as the pinned ones leave room on a page, on the feed's pages;
  the dot counts what the inbox's pages mark, new notices are unread, seen ones
  stay seen, attachments stay with their notice. The condition is the code's:
  the cursor is a sequence, pinned notices are out of its order, and a page
  full of them hides the newer unpinned ones from the next.
- `ReactionsAgree`: views are counted, the likes a page shows agree with the
  rows, and an unlike clears every row two first likes may have made.
- `ModerationHolds`: removing a comment settles each report of it, no report
  names an erased member except about a comment that landed behind the erasure,
  and a decision is final.

**Bounds.** Two workers, editors or requests are enough for every race over a
row or a lock: a third would repeat the part of one of them. Two attempts reach
both the retry and the terminal state; three tokens give a family a purged, a
consumed and a live one at once; history and queue limits of one or two are
reached and passed within the run. Two months of two days let a failure, its
retry and the next month happen; pages of one or two items need a second page.
Faults are counted together, so that any mix up to the bound happens. What two
scenes of a run have in common is a table neither writes. Two scenes leave out
what another scene asks about, to stay small: *reading* has no job, configuration
or restart, which *refresh* has without readers, and *saves* makes one write
through the generic endpoint, after a first save. A zone shift of one unit is
past the time between two rows of a conversation, as nine hours usually are. Ids, tokens and rows
run out in an instance, and a saga may be finished, so deadlock is not checked
except for the outbox, which has no final state. Symmetry is over workers,
sessions, requests and files, only in runs without liveness.

**Fairness.** The outbox worker and the erasure job poll on a ticker, and a
step of a running worker is never blocked by another (a database call returns
or fails), which is weak fairness of each worker's next step. Leases, backoffs
and schedules are comparisons with the clock: weak fairness of time passing.
Nothing is assumed of operators, members, providers or the processor, and
faults may happen at any time up to their bound. That is why `RowsSettle` and
`NoSilentStall` promise a visible end, not success. The other modules claim
safety only.

## 4. Where the code and its words differ

`password_adoption` is a run because it changes what a member can log in with:
`LoginWithPassword` reads the legacy hash and stores it with an unconditional
upsert; a change or reset committed in between is overwritten. The rehash path
is tested against exactly this.

Others met while modelling, each an interleaving, a fault or an input that the
models contain and the properties name as their exception or do not forbid:

- Outbox: a crash before the checkpoint makes the next claim call the provider
  again, although the checkpoint is called what prevents a second call
  (`repository/social_revocation_repo.go:173`); the fetch returns finished rows
  still carrying the worker's claim. A row past its checkpoint "may retry only
  finalization", yet a failed begin of the DISCONNECT transaction makes it
  PENDING again (`job/social_revocation_worker.go:208-214`): if the connection
  still is DISCONNECTING the provider is called a second time, and if it awaits
  finalization each lease ends at once with the claim taken for expired, so
  that the attempts never count up to a visible failure.
- Erasure: expiry of the handoff "requires manual review", yet before the
  database is erased the retention job and the next poll renew it.
- Sessions: after a cancelled deletion "a fresh login is required", but a
  browser's JWT is checked only against the account
  (`repository/account_deletion_cancel.go:71`, `middleware/auth.go:62`). A
  login that overlaps a logout everywhere survives it, because eligibility is
  read before the token is inserted (`service/mobile_session_issuer.go:25`).
- Billing: a run bills what "has not already been billed in the current month"
  (`service/subscription_billing.go:115-118`), by the rows it recorded. A charge
  the gateway took and the service forgot, after a timeout, a crash or a failed
  commit, is taken again in that month by an operator's run, or on the 29th to
  31st, when the rows of day 28 are listed again (121-126). The job charges up to
  a day before the billing date; a late
  confirmation activates a cancelled subscription
  (`repository/subscription_repo.go:118`); two requests may both insert a
  subscription (`service/subscription_service.go:68`).
- Message pages: `REG_DATE` is written in UTC and read with a `Z`
  (`repository/message_repo.go:327`), but a cursor's time is bound through a
  connection with `loc=Asia/Seoul` (`config/config.go:182-186`), nine hours
  late. The query of a second page finds the first page's rows of those nine hours
  again, the program drops them as not before the cursor
  (`service/message_service.go:316-331`) and, with no more than a page left,
  answers that this was the last: what the query's limit cut off is never shown.
  The list of conversations is not concerned.
- Messages: a crash between acceptance and announcement leaves a message
  unannounced; the push guard looks at rows and members, not at deletion by a
  participant; a client without a last event id gets no replay. On shutdown the
  server waits for open streams and the push workers get what is left of the
  same deadline.
- Board: a second pin is possible through create and update; a category can be
  deleted between the check and the save of a post; the category limit and
  duplicate names are checked before the insert; attachments of another
  editor's newer form are closed by a stale one; two first likes make two rows.
- Moderation: reports lock their member to "keep an in-flight request from
  recreating personal data after account erasure"
  (`repository/comment_report_repo.go`), comments do not. One whose session
  check came before the erasure lands behind it, shown under the erased author,
  and can be reported; a decision in flight writes the number of an erased
  moderator.
- Summary: overlapping refreshes may leave the older total in the trusted row
  (admitted in `service/donation_config_orchestrator.go:68`), and a restart
  forgets the stale flag, after which the row that a failed refresh left behind
  is trusted again, although "the next public read uses the live aggregate"
  (64-66) and the start takes a row only if the day has none.
- Settings: the generic endpoint refuses the policy's keys so that no write
  bypasses the history (`service/app_setting_service.go:71-74`), comparing a
  lower-cased prefix. The column's collation also ignores accents: an accented
  spelling passes, and updates the policy row without history.
- Ledger: edits within one second are not told apart (documented).
- Caches are per process, and the two `pinned` races above may keep an old
  value until its time to live has passed.

## 5. Proofs

The eight proof modules hold for every value of the constants that their named
assumption allows: any number of members, workers, rows, sessions, requests,
pages and days, any bound on attempts and faults. The bounds of the instances
are constants like the others, so that no theorem depends on how small they
are. Each inductive invariant was an invariant of a TLC run before it was
proved. The argument has the same shape everywhere: the initial states satisfy
the invariant, every action keeps it, the property follows.

**SocialRevocationProofs.** Proved: `TypeOK`, `ProofIsReal`, `RelinkIsSafe`,
`StolenLeaseChangesNothing`, and that the outbox implements `RevocationOutbox`.
`ProofIsReal` is not inductive: whether a later write is justified depends on
what its worker saw. The inductive invariant adds, per worker, what it has
established when it reaches a step (`StepInv`: past the provider call the link
is not linked any more; a fetched REVOKED is real; inside the DISCONNECT
transaction the claim is its own) and that two workers are never in the
transaction of one row. The refinement also needs that a row in a batch exists
(`Present`).

**MobileSessionsProofs.** Proved: `TypeOK`, `OneLiveToken`,
`ActiveMeansRefreshable`, `GlobalLogoutOnce`, `SweptDevicesStayGone`,
`OneLateSend`, `ReachableUntilReleased`, and that the sessions implement
`SessionLifecycle`. The inductive invariant has five parts:

- `ChainInv`: only the newest token of a family can be unconsumed, a family is
  revoked as a whole or not at all, tokens expire in order, and the newest row
  goes only once it has expired or was revoked. That last part is what makes
  the middleware's count of consumed rows right.
- `EndedInv`: what a proof or a sweep ended is dead, all its rows revoked.
- `RequestInv`: a request of a session acts for its owner, and what a logout
  everywhere is about to sweep is dead already, because the revocation comes
  before the deletion of the registrations.
- `DeviceInv`: a bound registration is its session owner's and not swept.
- `PushInv`: a late send is only on record for a session without live tokens,
  so the next check stops the item.

Only a few kinds of step touch a family (`FamilyStep`); each part is shown to
survive every kind once, and death and emptiness of a family are shown to be
stable (`Stable`).

**AccountErasureProofs.** Proved: `TypeOK`, `CompletedMeansErased`,
`CancelledMeansUntouched`, `HandoffSurvivesErasure`, the action properties
`EvidenceIsBacked`, `QueuedFilesAreDeleted` and `ManualKeepsWorkersOut`, and
that the whole implements `DeletionContract`. What a worker may do depends on
what it read steps ago, perhaps before it lost the lock, so the inductive
invariant says for each worker what is certain at its step: the request it
fetched exists (`Fetched`), past the recheck the request is started for good
(`Committed`), and the processor was asked for all that is left
(`AskedForAll`). Together with `UntouchedBeforeStart` and `ErasedOwesNothing`
this is why a worker without its lock does no harm: what it still does is what
the request is bound to anyway. The outbox enters by its contract only, and
`ProofIsReal` is that contract's invariant. The refinement is shown action by
action, most of them stutters.

**SignupProofs.** Proved: `CodesBounded`, `PhotosAccountedFor` and
`MembersAreEarned`, of `Signup` and the `PhoneVerification` inside it. Codes
are bounded because a guess that is not counted yet is under way in some
confirmation or was lost to a fault (`GuessesCounted`, a count of sets), and
the same for requests between the throttle and the insert. Photos and members
rest on the lease: a form under way holds its token under its own lease
(`FormsHoldTheirLease`), an upload is tracked by one token or is up for
discard (`TrackedPhotos`), the timer is armed as long as a token has something
to clean up (`TimersArmed`), and the token of a known member is finished or
will be by the form that made the member (`UsedTokensEnd`). Assumed: the
placeholders for no token and no file are not tokens and files, user names are
not provider identities, and requests under way are finitely many.

The last part of the module is about `Passwords`, which its run instantiates
(`P` in `MCSignup`); `PasswordsStaySet` is proved of `Passwords` by itself and
of the run's specification. The inductive invariant says what a login knows of
the credential it read (`LoginsAreInformed`): if the hash it verified is still
stored it still stands for the verified word, because every write makes a new
hash, and an identity it took for absent is none of the adopted ones, so that
the unconditional upsert of an adoption never reaches those. For the links,
as many resets as links leaves none unused (`LinksCoverResets`), which is the
reason for the check that a reset retires at least one. Assumed: the adopted
identities are the member's.

**MessagingProofs.** Proved: `MessagesReachAsAccepted` and `ReadingIsExact` of
`Conversations`, each with all its parts, by itself and in the run's
specification. That a message is announced once
needs that a copy which is about to announce stored the row itself, that the
row is still there and that no other copy with its key is at that step
(`AnnouncedIsStored`, `OneAnnouncer`); it is there because only hidden rows are
purged, and a hidden row is never announced, read or reported
(`HiddenStaysUnread`, `SuppressedIsQuiet`). Every action is first shown to
leave the fixed columns of stored rows alone and to add rows with new numbers
only (`RowsMove`); the rest follows from that. Paging has an invariant between
two pages (`PageInv`): the cursor cuts between what was returned and what is
still owed, whatever was sent, deleted or purged meanwhile. It rests on
facts about the operators: the list sorted by rank is complete and in order
(`NewestFirstOrder`: rows of a finite set have different ranks, so every
position is taken), its first rows are the newest (`NewestRows`), the query
finds every row before its cursor, perhaps with newer ones (`QueryFinds`), and
what is left of it ends at the cursor it returns (`PageRows`, `CursorCuts`).
Nothing is skipped for any zone shift, since newer rows only push older ones off
the page; that a walk which ended has shown all is proved of the list, where the
two comparisons are the same. That the badge is the sum of the list is a fact
about every single state (`CountsAgree`): the unread counts are sizes of
disjoint sets, and the fold that adds them up is shown by well-founded
induction on subsets to be the size of their union.

The second part is `StreamsAreFaithful` of `RealtimeHub`, for any members, streams and history limit
above zero. The invariant orders three things for every stream: its member's
history, its channel and what the client saw, each increasing, the channel
above the client's last id, and everything at most the last id given out
(`HistoryInOrder`, `ChannelsInOrder`, `ClientsInOrder`). `NothingOwedUnseen`
adds that a client without a last id is owed nothing, since it cannot ask for a
replay. That `Subscribe` never waits with the lock held is then a fact about
its loop: the replay is no longer than the history (`ReplayedIds`). The loop is
a recursive function; that the recursion has a solution and what it computes is
shown by induction over the positions of the history. The library's induction
theorems cannot be instantiated here, but a set of positions without a least
counterexample can (`Upward`, from the well-foundedness of the naturals).

The third part is about `PushDelivery`: `PushesAreSound`, for any members, notices and messages, any number of
shards and workers, queues and pages of any size. A fan-out is a walk: its page
lies past its cursor and nobody past the cursor is enqueued (`WalkInOrder`), and
whoever was a recipient all along is enqueued or still to come, that is on the
page or behind all of it (`WalkComplete`). A page has that property because it
is the least recipients of those left (`PageIsFirst`), whatever devices and
opt-outs did since the page before. Each late push of a notice is counted
together with the workers that are past the guard when it is deleted
(`LateOnes`): that set never grows afterwards, and it is no larger than the
workers were. A message is one item, in its recipient's shard or with that
shard's only worker (`OneItemEach`), so that after a late send the next guard
ends it (`LateOnce`). Assumed: member numbers are positive and there are
finitely many, a message is between members, there is a shard and a page holds
at least one (`PushAssumption`).

**RecurringDonationProofs.** Proved: `ChargesAreAccounted` and `BillingIsFair`.
The first needs that two confirmations never record the same approval and that
a run charges an order of its own (`OneRecorderEach`, `Charges`). For the
second, a subscription that was never paid for is neither active nor billed,
its first order is the only one a confirmation pays and one confirmation at a
time (`FirstPayments`, `PaidByOne`); charges that are not forgotten are for
different months, none later than the one the row was last billed for unless a
run is about to record it (`BilledOnce`, `MonthsApart`); and a row that no two
steps raced for is listed by one run only, for a month after its last
(`ListedIsDue`). A subscription joins `raced` when two runs list it, and when a
confirmation of its first payment begins while another is under way; for those
the properties claim nothing. The calendar is any number of
days per month with a last billing day within it (`CalendarAssumption`).

The second part is about `DonationSummary`, which the run instantiates as
`Public`; `SummaryIsCurrent` is proved of the run's specification. A computed
summary carries what it was read after, and the invariant relates that to the
stale flag. As long as the flag is down and the row not in doubt, the latest row
covers every answered write, and equals the ledger unless a writer is on its way
(`TrustedRow`). What ends the doubt is a writer that has had nobody beside it
(`LoneIsAlone`) and so carries the ledger's total to the row (`LoneCarries`);
the job writes a row only for a day that has none (`JobIsShort`), and whoever
wrote to the ledger still owes the row its refresh or the flag (`Owes`). A
computation's total covers what was answered when it began (`ReadersCover`),
and a cached summary is of the month of its entry (`EntryCovers`). Assumed: absence is not a
row (`SummaryAssumption`).

**BackOfficeProofs.** Proved of the run's specification: `LedgerIsConsistent`,
`TextsAreSound`, `PolicyIsSound` and `SavesLoseNothing`. The ledger and the
instances `Templates` and `Gate` each keep an invariant of their own, and every
step of a scene is a step of one of them or leaves it alone (`ScenesAreParts`).

- *Policy.* The history is a chain through the saves, and a text it does not know
  is one of `outside`. Reads show answered saves because a cached value carries the number
  of the save it was read after, unless it is `pinned`; what the gate refuses
  was judged installable when it was saved, and builds are only ever added.
- *Texts.* The same argument by generations: an entry set under the current
  generation is no older than the last answered edit, and every text that is
  held anywhere passed the validation of its key.
- *Ledger.* Identities are unique because the table's two unique keys refuse
  any other row (`Conflicts`). Three parts of the property are state invariants that become
  inductive together with types (`LedgerTypes`) and one fact about the
  reviewer's file: what was inspected was an order as the ledger had it
  (`ReviewsWereSeen`). That totals add up needs no invariant but is the most
  work: a member's pages, each a stretch of the list sorted by rank, hold every
  row exactly once (every rank is taken, every position is on one page), and
  the sum over all rows is the sum of the sums over the parts of a partition.
  The sum is a fold, about which facts are shown by well-founded induction on
  subsets (`FoldOfParts`). An erasure keeps the total because what it takes out
  of the table it adds to the archived amount and count.

Assumed: accounts, donors and amounts are what the types of the code allow
(`LedgerAssumption`), absence is not a text or a policy (`TextAssumption`,
`PolicyTypes`).

**BoardProofs.** Proved: `NoticesAreFound` of `NoticeBoard`, `ReactionsAgree` and
`ModerationHolds` of `PostReactions`, each by itself and in the run's
specification.

- *Notices.* The invariant (`BoardInv`) is small: sequences are given out one
  after the other, although a request reads the newest long before it inserts
  (`NoticeInv`, `Placed`: what lies below the sequence a request carries
  exists); markers and marks are of sequences that exist (`MarkInv`), because
  they are clamped; the default category is live (`CatInv`). So a notice that is
  inserted lies above every marker, which is `BornUnread`. The work is in what
  pages show. A page is the first rows of an order, no row it leaves out comes
  before its last (`PageCovers`), and under the condition of
  `FeedShowsEverything` the last row of a page with more behind it is not
  pinned, so that what is left is what lies below the cursor (`FeedPage`).
  A walk down the cursors descends, hence collects everything (`WalkCollects`,
  by well-founded induction on the depth; the library's induction theorems
  cannot be instantiated). The counts of the categories add up because every
  notice is under exactly one live category (`NoticesAreCounted`, over the
  sum of the sizes of disjoint sets).
- *Reactions.* Three independent invariants. A view knows a count from before its
  own and, once it has added to it, a later one (`SoundView`); the rows of a
  member are finitely many, so that an unlike closes them all and the likes are
  a sum of sizes of disjoint sets, positive once one member has an open row
  (`LikesCounted`); what pages show is inductive as it stands (`PageInv`).
- *Moderation.* A report names a comment that exists (`ReportsHaveComments`), the
  comment a moderator's request holds is that of its report (`CasesMatch`), and
  what is shown was written by a member who is still there or landed behind the
  author's erasure (`ShownByActive`).
  With these the removal's one transaction settles every report of the comment
  for good, and a report in flight finds its comment closed or its reporter gone.

Assumed: absence is not a notice, a category, a comment or a report, categories
and members are finitely many, and the actors of the scenes are editors,
members and moderators (`BoardAssumption`, `ReactionAssumption`,
`AbsenceAssumption`, `SceneAssumption`).

**Only model-checked.** Liveness, `RowsSettle` and `NoSilentStall`, is out of the
prover's reach: it rests on fairness and on which actions are enabled. Every
other property of the passing runs is proved.

## 6. Not modelled, and why

- The restore guard and reapplication after a backup restore
  (`account_erasure_restore.go`), previews of a deletion, the mail intake of
  deletion requests: the first is planned, the others read or insert only.
- The tables one erasure transaction empties. TLC sees one fact, that the
  member is erased, and that any check may roll it back; whether every table
  is covered is a question about the schema.
- Contents: credentials, encryption, token signatures, evidence texts, mail,
  push payloads, cells of a spreadsheet, Markdown, error wording.
- Banners, disclosures, advertisements with their likes and comments, and the
  aggregation of visits: single statements over tables no one else waits for.
- Uploads and file storage, monitoring, configuration: input and output.
- The gate's exempt paths, CSRF and rate limits: no state these properties see.
- A crash between the insert of a notice and its announcement. The clean-up of a
  registration after a push is not in the `session_devices` run; the theorem about
  it (`ReachableUntilReleased`) is for every workload.
- The archive command, migrations, backfill and other one-off commands; the
  member and admin sites, proxy and deployment.

## 7. Plan

In this order:

1. The restore guard of the erasure, composed with `AccountErasure`.
2. `AccountErasure` composed with `DonationLedger` and `PostReactions`, whose
   erasure steps are separate copies of one transaction now.
