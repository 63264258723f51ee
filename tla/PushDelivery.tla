---------------------------- MODULE PushDelivery ----------------------------
(* The in-memory push pipeline (service/push_delivery.go and                *)
(* push_notice_broadcast.go): recipient shards for messages and reviews, a  *)
(* queue of its own for notice broadcasts, the fan-out that pages through   *)
(* the recipients of a notice, the workers with their last-moment guards,   *)
(* and the shutdown.  Which devices a member has, and for which session, is *)
(* modelled by MobileSessions; here a member has DevicesPerMember of them.  *)
EXTENDS Integers, Sequences, FiniteSets, SequencesExt, FiniteSetsExt

CONSTANTS
  Members,                  \* USR_SEQ, positive numbers
  Notices, Messages, SenderOf, RecipientOf,
  pushShardCount, pushShardCapacity, pushBroadcastCapacity, pushBroadcastWorkerCount,
  noticeBroadcastPageSize, noticePageRetryAttempts,
  DevicesPerMember, MaxAttempts

VARIABLES
  published,     \* notices with OPEN_YN = 'Y'
  removed,       \* notices deleted after publication
  reachable,     \* members with an active device in a live session
  noticeOff,     \* members with NOTICE_ENABLED = 'N'
  messageOff,    \* members with MESSAGE_ENABLED = 'N'
  withdrawn,     \* members with USR_STATUS 'AAA'
  reviewed,      \* [Members -> ALUMNI_VERIFICATION.STATUS]
  shards,        \* [0..pushShardCount-1 -> queue of items]
  broadcast,     \* the queue of notice items
  fan,           \* [Notices -> the fan-out goroutine]
  worker,        \* [Workers -> the item being delivered]
  phase,         \* of Stop
  enqueued,      \* [Notices -> [Members -> items put on the queue]]
  throughout,    \* [Notices -> members who were recipients all the time]
  told,          \* messages handed to the push notifier
  lateNotice,    \* [Notices -> members who got a push after the deletion]
  lateMessage    \* [Messages -> sends after a participant withdrew]

dbVars == <<published, removed, reachable, noticeOff, messageOff, withdrawn, reviewed>>
lateVars == <<lateNotice, lateMessage>>
vars == <<published, removed, reachable, noticeOff, messageOff, withdrawn, reviewed, shards,
          broadcast, fan, worker, phase, enqueued, throughout, told, lateNotice, lateMessage>>

Shards == 0..(pushShardCount - 1)
BroadcastWorkers == {<<"broadcast", i>> : i \in 1..pushBroadcastWorkerCount}
Workers == {<<"shard", i>> : i \in Shards} \cup BroadcastWorkers

\* pushDeliveryItem: a message, a review or a notice, for one recipient.
Items == {[kind |-> "message", of |-> m, to |-> RecipientOf[m]] : m \in Messages}
         \cup [kind : {"review"}, of : {"approved", "rejected"}, to : Members]
         \cup [kind : {"notice"}, of : Notices, to : Members]
NoItem == [kind |-> "none"]
Idle == [item |-> NoItem, step |-> "idle", device |-> 0, attempt |-> 0]
NoFan == [step |-> "none", cursor |-> 0, page |-> {}, tries |-> 0, dropped |-> FALSE]

(* The shape of the state. *)
TypeOK ==
  /\ published \subseteq Notices /\ removed \subseteq Notices
  /\ reachable \subseteq Members /\ noticeOff \subseteq Members
  /\ messageOff \subseteq Members /\ withdrawn \subseteq Members
  /\ reviewed \in [Members -> {"pending", "approved", "rejected"}]
  /\ \A i \in Shards : Len(shards[i]) <= pushShardCapacity
  /\ Len(broadcast) <= pushBroadcastCapacity
  /\ ToSet(broadcast) \subseteq Items
  /\ \A n \in Notices : fan[n].step \in {"none", "list", "enqueue", "done", "failed"}
  /\ \A w \in Workers : worker[w].step \in {"idle", "guard", "attempt", "send"}
  /\ phase \in {"running", "closing", "closed", "stopped", "abandoned"}
  /\ enqueued \in [Notices -> [Members -> Nat]]

Init ==
  /\ published = {} /\ removed = {}
  /\ reachable = Members /\ noticeOff = {} /\ messageOff = {} /\ withdrawn = {}
  /\ reviewed = [u \in Members |-> "pending"]
  /\ shards = [i \in Shards |-> <<>>] /\ broadcast = <<>>
  /\ fan = [n \in Notices |-> NoFan]
  /\ worker = [w \in Workers |-> Idle]
  /\ phase = "running"
  /\ enqueued = [n \in Notices |-> [u \in Members |-> 0]]
  /\ throughout = [n \in Notices |-> {}]
  /\ told = {}
  /\ lateNotice = [n \in Notices |-> {}]
  /\ lateMessage = [m \in Messages |-> 0]

Running == phase \in {"running", "closing", "closed"}
Closing == phase \in {"closing", "closed"}

----------------------------------------------------------------------------
(* Messages and reviews: offered to the recipient's shard, dropped when full *)

Offer(item) ==
  LET i == item.to % pushShardCount
  IN shards' = IF Len(shards[i]) < pushShardCapacity
               THEN [shards EXCEPT ![i] = Append(@, item)] ELSE shards

\* PushDeliveryNotifier.NotifyMessageReceived.
NotifyMessageReceived(m) ==
  /\ phase = "running" /\ m \notin told
  /\ {SenderOf[m], RecipientOf[m]} \cap withdrawn = {}
  /\ told' = told \cup {m}
  /\ Offer([kind |-> "message", of |-> m, to |-> RecipientOf[m]])
  /\ UNCHANGED <<dbVars, broadcast, fan, worker, phase, enqueued, throughout, lateVars>>

\* A review is stored and then announced (NotifyVerificationReviewed).
NotifyVerificationReviewed(u, status) ==
  /\ phase = "running" /\ u \notin withdrawn /\ reviewed[u] # status
  /\ reviewed' = [reviewed EXCEPT ![u] = status]
  /\ Offer([kind |-> "review", of |-> status, to |-> u])
  /\ UNCHANGED <<published, removed, reachable, noticeOff, messageOff, withdrawn, broadcast,
                 fan, worker, phase, enqueued, throughout, told, lateVars>>

----------------------------------------------------------------------------
(* The notice broadcast *)

\* The members ListNoticeRecipientSeqs selects from.
NoticeRecipients == reachable \ noticeOff

(* A faulty variant of After: the page starts with the cursor's own member. *)
AtOrAfter(u, cursor) == u >= cursor

\* The keyset condition, d.USR_SEQ > afterUserSeq.
After(u, cursor) == u > cursor

\* PushRepository.ListNoticeRecipientSeqs: the next page, the recipients that
\* come first in the order of USR_SEQ.
ListNoticeRecipientSeqs(cursor) ==
  LET left == {u \in NoticeRecipients : After(u, cursor)}
  IN {u \in left : Cardinality({v \in left : v < u}) < noticeBroadcastPageSize}

\* A fan-out goroutine is registered unless shutdown has begun.
startProducer(n) == IF Closing THEN fan ELSE [fan EXCEPT ![n].step = "list"]

\* AdminNoticeService.Create publishes the notice and NotifyNoticePublished
\* starts its fan-out.
NotifyNoticePublished(n) ==
  /\ Running /\ n \notin published \cup removed
  /\ published' = published \cup {n}
  /\ fan' = startProducer(n)
  /\ throughout' = [throughout EXCEPT ![n] = NoticeRecipients]
  /\ UNCHANGED <<removed, reachable, noticeOff, messageOff, withdrawn, reviewed, shards,
                 broadcast, worker, phase, enqueued, told, lateVars>>

\* listNoticeRecipientPage reads a page; an empty one ends the fan-out.
ListPage(n) ==
  LET page == ListNoticeRecipientSeqs(fan[n].cursor)
  IN /\ Running /\ fan[n].step = "list"
     /\ fan' = [fan EXCEPT ![n].step = IF page = {} THEN "done" ELSE "enqueue",
                           ![n].page = page, ![n].tries = 0]
     /\ UNCHANGED <<dbVars, shards, broadcast, worker, phase, enqueued, throughout, told, lateVars>>

\* The page query fails: the same page is read again a few times, unless
\* shutdown interrupts the wait; then the fan-out stops at its cursor.
ListPageFails(n) ==
  /\ Running /\ fan[n].step = "list"
  /\ fan' = IF fan[n].tries + 1 < noticePageRetryAttempts
            THEN [fan EXCEPT ![n].tries = @ + 1]
            ELSE [fan EXCEPT ![n].step = "failed"]
  /\ UNCHANGED <<dbVars, shards, broadcast, worker, phase, enqueued, throughout, told, lateVars>>

ListPageInterrupted(n) ==
  /\ Closing /\ Running /\ fan[n].step = "list" /\ fan[n].tries > 0
  /\ fan' = [fan EXCEPT ![n].step = "failed"]
  /\ UNCHANGED <<dbVars, shards, broadcast, worker, phase, enqueued, throughout, told, lateVars>>

\* The walk of a page goes through it in its order.
NextOf(page) == Min(page)

\* fanOutNotice moves on to the next member of the page; a drop ends the walk
\* with the page.
Advance(n, dropped) ==
  LET u == NextOf(fan[n].page)
      rest == fan[n].page \ {u}
      lost == fan[n].dropped \/ dropped
  IN fan' = [fan EXCEPT ![n].cursor = Max({@, u}),
                        ![n].page = rest, ![n].dropped = lost,
                        ![n].step = IF rest # {} THEN "enqueue"
                                    ELSE IF lost THEN "failed" ELSE "list"]

\* enqueueNotice waits for room on the broadcast queue ...
EnqueueNotice(n) ==
  LET u == NextOf(fan[n].page)
  IN /\ Running /\ fan[n].step = "enqueue" /\ Len(broadcast) < pushBroadcastCapacity
     /\ broadcast' = Append(broadcast, [kind |-> "notice", of |-> n, to |-> u])
     /\ enqueued' = [enqueued EXCEPT ![n][u] = @ + 1]
     /\ Advance(n, FALSE)
     /\ UNCHANGED <<dbVars, shards, worker, phase, throughout, told, lateVars>>

\* ... or for the shutdown signal, which drops the recipient.
EnqueueDropped(n) ==
  /\ Running /\ Closing /\ fan[n].step = "enqueue"
  /\ Advance(n, TRUE)
  /\ UNCHANGED <<dbVars, shards, broadcast, worker, phase, enqueued, throughout, told, lateVars>>

----------------------------------------------------------------------------
(* Delivery *)

\* A worker takes the next item of its queue.
Take(w) ==
  LET queue == IF w \in BroadcastWorkers THEN broadcast ELSE shards[w[2]]
  IN /\ Running /\ worker[w] = Idle /\ queue # <<>>
     /\ worker' = [worker EXCEPT ![w] = [Idle EXCEPT !.item = Head(queue), !.step = "guard"]]
     /\ IF w \in BroadcastWorkers
        THEN broadcast' = Tail(broadcast) /\ UNCHANGED shards
        ELSE shards' = [shards EXCEPT ![w[2]] = Tail(@)] /\ UNCHANGED broadcast
     /\ UNCHANGED <<dbVars, fan, phase, enqueued, throughout, told, lateVars>>

\* PushRepository.GetPreferences; a member without a row has every channel on.
GetPreferences(u) == [messages |-> u \notin messageOff, notices |-> u \notin noticeOff]

\* buildPayload: only a message asks the member's preference.
buildPayload(item) == item.kind = "message" => GetPreferences(item.to).messages

NoticeStillPublished(n) == n \in published
VerificationStillCurrent(u, status) == reviewed[u] = status /\ u \notin withdrawn

\* stillDeliverable: once per item, the notice is still published and the review
\* still current.
stillDeliverable(item) ==
  /\ item.kind = "notice" => NoticeStillPublished(item.of)
  /\ item.kind = "review" => VerificationStillCurrent(item.to, item.of)

\* deliver up to the list of devices.
Deliver(w) ==
  /\ Running /\ worker[w].step = "guard"
  /\ worker' = [worker EXCEPT ![w] =
                  IF /\ buildPayload(@.item) /\ stillDeliverable(@.item)
                     /\ @.item.to \in reachable
                  THEN [@ EXCEPT !.step = "attempt", !.device = 1, !.attempt = 1] ELSE Idle]
  /\ UNCHANGED <<dbVars, shards, broadcast, fan, phase, enqueued, throughout, told, lateVars>>

\* PushRepository.MessageStillAvailable looks at both members, not at the text.
MessageStillAvailable(m) == {SenderOf[m], RecipientOf[m]} \cap withdrawn = {}

\* messageStillAvailable, before every attempt.
messageStillAvailable(item, device) ==
  item.kind = "message" => MessageStillAvailable(item.of)

NextDevice(d) ==
  IF d.device < DevicesPerMember THEN [d EXCEPT !.device = @ + 1, !.attempt = 1, !.step = "attempt"]
  ELSE Idle

\* The guards of one attempt; DeliveryTargetStillCurrent is the last read.
Attempt(w) ==
  LET d == worker[w]
  IN /\ Running /\ d.step = "attempt"
     /\ worker' = [worker EXCEPT ![w] =
                     IF ~messageStillAvailable(d.item, d.device) THEN Idle
                     ELSE IF d.item.to \notin reachable THEN NextDevice(d)
                     ELSE [d EXCEPT !.step = "send"]]
     /\ UNCHANGED <<dbVars, shards, broadcast, fan, phase, enqueued, throughout, told, lateVars>>

\* What the two providers' HTTP answers mean (fcmSender.Send, apnsSender.Send).
fcmSend == [ok |-> "sent", unregistered |-> "invalid", busy |-> "transient",
            unreachable |-> "transient", noToken |-> "transient", other |-> "rejected"]
apnsSend == [ok |-> "sent", gone |-> "invalid", badToken |-> "invalid", busy |-> "transient",
             unreachable |-> "transient", noToken |-> "rejected", other |-> "rejected"]

\* Sender.Send, by the device's platform.
Answers == {fcmSend[o] : o \in DOMAIN fcmSend} \cup {apnsSend[o] : o \in DOMAIN apnsSend}

\* deliver after the provider's answer: a transient failure is retried,
\* everything else moves on.  A token the provider calls invalid is deleted;
\* MobileSessions says whose it may be.
SendPush(w, answer) ==
  LET d == worker[w]
      i == d.item
  IN /\ Running /\ d.step = "send"
     /\ worker' = [worker EXCEPT ![w] =
                     IF answer = "transient" /\ d.attempt < MaxAttempts
                     THEN [d EXCEPT !.step = "attempt", !.attempt = @ + 1] ELSE NextDevice(d)]
     /\ lateNotice' = IF i.kind = "notice" /\ i.of \in removed
                      THEN [lateNotice EXCEPT ![i.of] = @ \cup {i.to}] ELSE lateNotice
     /\ lateMessage' = IF i.kind = "message" /\ {SenderOf[i.of], i.to} \cap withdrawn # {}
                       THEN [lateMessage EXCEPT ![i.of] = @ + 1] ELSE lateMessage
     /\ UNCHANGED <<dbVars, shards, broadcast, fan, phase, enqueued, throughout, told>>

----------------------------------------------------------------------------
(* What changes meanwhile *)

Remember(recipients) ==
  throughout' = [n \in Notices |-> IF fan[n].step \in {"list", "enqueue"}
                                   THEN throughout[n] \cap recipients ELSE throughout[n]]

\* AdminNoticeService.Delete.
DeleteNotice(n) ==
  /\ Running /\ n \in published
  /\ published' = published \ {n} /\ removed' = removed \cup {n}
  /\ UNCHANGED <<reachable, noticeOff, messageOff, withdrawn, reviewed, shards, broadcast, fan,
                 worker, phase, enqueued, throughout, told, lateVars>>

\* PushRepository.UpsertPreferences: an app that does not know the notice
\* switch leaves it as it is.
UpsertPreferences(u, messages, notices) ==
  /\ messageOff' = IF messages THEN messageOff \ {u} ELSE messageOff \cup {u}
  /\ noticeOff' = CASE notices = "omitted" -> noticeOff
                    [] notices = "on" -> noticeOff \ {u}
                    [] notices = "off" -> noticeOff \cup {u}

\* PushHandler.PutPreferences; PushService.UpdatePreferences writes in one go.
PutPreferences(u, messages, notices) ==
  /\ Running
  /\ UpsertPreferences(u, messages, notices)
  /\ Remember(reachable \ noticeOff')
  /\ UNCHANGED <<published, removed, reachable, withdrawn, reviewed, shards, broadcast, fan,
                 worker, phase, enqueued, told, lateVars>>

\* A member's devices come and go with their sessions.
ChangeDevices(u) ==
  /\ Running /\ u \notin withdrawn
  /\ reachable' = IF u \in reachable THEN reachable \ {u} ELSE reachable \cup {u}
  /\ Remember(reachable' \ noticeOff)
  /\ UNCHANGED <<published, removed, noticeOff, messageOff, withdrawn, reviewed, shards,
                 broadcast, fan, worker, phase, enqueued, told, lateVars>>

\* A member withdraws (AccountErasure): sessions and devices end with it.
Withdraw(u) ==
  /\ Running /\ u \notin withdrawn
  /\ withdrawn' = withdrawn \cup {u}
  /\ reachable' = reachable \ {u}
  /\ Remember(reachable' \ noticeOff)
  /\ UNCHANGED <<published, removed, noticeOff, messageOff, reviewed, shards, broadcast, fan,
                 worker, phase, enqueued, told, lateVars>>

----------------------------------------------------------------------------
(* Shutdown *)

\* Stop: beginShutdown raises the signal; the HTTP server has stopped before.
BeginShutdown ==
  /\ phase = "running"
  /\ phase' = "closing"
  /\ UNCHANGED <<dbVars, shards, broadcast, fan, worker, enqueued, throughout, told, lateVars>>

\* The queues are closed once every fan-out has returned ...
CloseQueues ==
  /\ phase = "closing"
  /\ \A n \in Notices : fan[n].step \notin {"list", "enqueue"}
  /\ phase' = "closed"
  /\ UNCHANGED <<dbVars, shards, broadcast, fan, worker, enqueued, throughout, told, lateVars>>

\* ... and Stop returns when the workers have emptied them ...
Stopped ==
  /\ phase = "closed"
  /\ broadcast = <<>> /\ \A i \in Shards : shards[i] = <<>>
  /\ \A w \in Workers : worker[w] = Idle
  /\ phase' = "stopped"
  /\ UNCHANGED <<dbVars, shards, broadcast, fan, worker, enqueued, throughout, told, lateVars>>

\* ... or when its context ends; the process exits with whatever was queued.
Abandon ==
  /\ Closing
  /\ phase' = "abandoned"
  /\ UNCHANGED <<dbVars, shards, broadcast, fan, worker, enqueued, throughout, told, lateVars>>

FanNext ==
  \E n \in Notices :
    \/ NotifyNoticePublished(n) \/ ListPage(n) \/ ListPageFails(n) \/ ListPageInterrupted(n)
    \/ EnqueueNotice(n) \/ EnqueueDropped(n) \/ DeleteNotice(n)

WorkNext ==
  \E w \in Workers : Take(w) \/ Deliver(w) \/ Attempt(w)
                     \/ \E answer \in Answers : SendPush(w, answer)

NotifyNext ==
  \/ \E m \in Messages : NotifyMessageReceived(m)
  \/ \E u \in Members, status \in {"approved", "rejected"} : NotifyVerificationReviewed(u, status)

PreferenceNext ==
  \E u \in Members, messages \in BOOLEAN, notices \in {"omitted", "on", "off"} :
    PutPreferences(u, messages, notices)

DeviceNext == \E u \in Members : ChangeDevices(u)
WithdrawNext == \E u \in Members : Withdraw(u)
StopNext == BeginShutdown \/ CloseQueues \/ Stopped \/ Abandon

Next == FanNext \/ WorkNext \/ NotifyNext \/ PreferenceNext \/ DeviceNext \/ WithdrawNext \/ StopNext

Spec == Init /\ [][Next]_vars

----------------------------------------------------------------------------
(* A fan-out never puts an item on a closed queue, which would panic: a     *)
(* notice published while the process stops either is waited for or does    *)
(* not start (push_delivery.go, startProducer and Stop).                    *)
NoSendOnClosedQueue ==
  phase \in {"closed", "stopped"} =>
    \A n \in Notices : fan[n].step \notin {"list", "enqueue"}

(* However pages fail and are read again and however devices and opt-outs   *)
(* change on the way, a broadcast puts a member on the queue at most once,  *)
(* and one that ends without a failure has put every member there who was   *)
(* a recipient all the time (push_notice_broadcast.go, fanOutNotice).       *)
BroadcastReachesOnce ==
  \A n \in Notices :
    /\ \A u \in Members : enqueued[n][u] <= 1
    /\ fan[n].step = "done" => \A u \in throughout[n] : enqueued[n][u] = 1

(* After a notice is deleted its broadcast reaches at most the members its  *)
(* workers had already passed the guard for: one per worker, however many   *)
(* were queued (stillDeliverable, "a push must never deep-link to a notice  *)
(* that is gone").                                                          *)
LateNoticeBound ==
  \A n \in Notices : Cardinality(lateNotice[n]) <= pushBroadcastWorkerCount

(* After a participant withdraws, a queued message is sent at most once     *)
(* more, whatever devices and retries were left (messageStillAvailable).    *)
LateMessageOnce == \A m \in Messages : lateMessage[m] <= 1

(* A broadcast reaches its recipients once and survives the shutdown, and   *)
(* what is queued stops reaching members when its notice or its participant *)
(* is gone, but for the sends that had passed the guard.                    *)
PushesAreSound == TypeOK /\ NoSendOnClosedQueue /\ BroadcastReachesOnce /\ LateNoticeBound /\ LateMessageOnce
=============================================================================
