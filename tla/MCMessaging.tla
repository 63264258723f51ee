----------------------------- MODULE MCMessaging -----------------------------
(* Conversations, the realtime hub and the push pipeline in one run.  The    *)
(* three share no state, so the run explores them side by side, one scene    *)
(* per behaviour, each with the bounds its questions need:                   *)
(*   retry    two copies of one send, an abusive one, blocks, the preference *)
(*            and the purge                                                  *)
(*   reach    one send, reading, deletion, blocks and reports                *)
(*   reading  stored messages, two of one second, paged while one arrives    *)
(*   streams  the hub with two members                                       *)
(*   fan      a notice broadcast, its workers and the shutdown               *)
(*   direct   message and review pushes while members withdraw               *)
EXTENDS Conversations, TLC

CONSTANTS ann, bea, cem, q1, q2, q3, s1, s2
CONSTANTS Connected, Streams, UserOf, eventHistoryLimit, MaxEvents, MaxRestarts
CONSTANTS Members, Notices, Messages, SenderOf, RecipientOf, pushShardCount, pushShardCapacity,
          pushBroadcastCapacity, pushBroadcastWorkerCount, noticeBroadcastPageSize,
          noticePageRetryAttempts, DevicesPerMember, MaxAttempts

\* A stream is one member's, and the hub keeps at least one event of each.
ASSUME HubAssumption ==
  /\ UserOf \in [Streams -> Connected]
  /\ eventHistoryLimit \in Nat \ {0} /\ MaxRestarts \in Nat

\* Members have positive numbers, a message is between members, there is a
\* shard, and a page holds a member at least.
ASSUME PushAssumption ==
  /\ Members \subseteq Nat \ {0} /\ IsFiniteSet(Members)
  /\ SenderOf \in [Messages -> Members] /\ RecipientOf \in [Messages -> Members]
  /\ pushShardCount \in Nat \ {0} /\ noticeBroadcastPageSize \in Nat \ {0}
  /\ pushShardCapacity \in Nat /\ pushBroadcastCapacity \in Nat
  /\ pushBroadcastWorkerCount \in Nat /\ noticePageRetryAttempts \in Nat
  /\ DevicesPerMember \in Nat /\ MaxAttempts \in Nat

VARIABLES
  scene,
  subscribers, chan, history, nextEventID, lock, hubBroadcast, restarts, lastEventID,
  received, owed, missed,
  published, removed, reachable, noticeOff, messageOff, withdrawn, reviewed, shards,
  broadcast, fan, worker, phase, enqueued, throughout, told, lateNotice, lateMessage

Hub == INSTANCE RealtimeHub WITH
  Users <- Connected, broadcast <- hubBroadcast

MCUserOf == (s1 :> ann) @@ (s2 :> bea)

Pipeline == INSTANCE PushDelivery

MCSenderOf == [m \in Messages |-> 1]
MCRecipientOf == [m \in Messages |-> 2]

MCRequestOf ==
  [q \in {q1, q2, q3} |-> [from |-> ann, to |-> bea, client |-> IF q = q3 THEN 2 ELSE 1,
                           text |-> IF q = q3 THEN "abuse" ELSE "text"]]

talk == <<clock, messages, nextSeq, blocks, allowed, approved, reports, send, accepted,
          announced, readEvents, suppressed, shown, reading>>
hub == <<subscribers, chan, history, nextEventID, lock, hubBroadcast, restarts, lastEventID,
         received, owed, missed>>
push == <<published, removed, reachable, noticeOff, messageOff, withdrawn, reviewed, shards,
          broadcast, fan, worker, phase, enqueued, throughout, told, lateNotice, lateMessage>>

\* Three messages to b, the first two of the same second.
Stored ==
  [m \in 1..3 |-> [from |-> IF m = 1 THEN cem ELSE ann, to |-> bea, client |-> 10 + m, at |-> IF m < 3 THEN 0 ELSE 1,
                   read |-> FALSE, visible |-> TRUE, delSender |-> FALSE, delRecvr |-> FALSE,
                   purgeAt |-> 0, content |-> "text"]]

MCInit ==
  /\ scene \in {"retry", "reach", "reading", "streams", "fan", "direct"}
  /\ Hub!Init
  /\ Pipeline!Init
  /\ IF scene = "reading"
     THEN /\ clock = 1 /\ messages = Stored /\ nextSeq = 4
          /\ blocks = {} /\ allowed = Users /\ approved = Users /\ reports = <<>>
          /\ send = [r \in Requests |-> "idle"] /\ accepted = [r \in Requests |-> 0]
          /\ announced = [k \in Keys |-> 0] /\ suppressed = {} /\ readEvents = [u \in Users |-> 0] /\ reading = NoReading
          /\ shown = [u \in Users |-> [o \in Users |-> 0]]
     ELSE Init

\* The recipient b blocks and unblocks, changes the preference, loses approval;
\* a blocks b.
BMemberNext ==
  \/ \E wanted \in BOOLEAN : PutBlock(bea, ann, wanted) \/ PutBlock(ann, bea, wanted)
  \/ \E allow \in BOOLEAN : SavePreferences(bea, allow)
  \/ LoseApproval(bea)

SendOne ==
  Send(q1) \/ SendMessage(q1) \/ AcceptMessage(q1) \/ NotifyMessageReceived(q1)

\* b pages through the list and the conversations, reads and deletes.
BReadNext ==
  \/ GetConversations(bea) \/ NextPage \/ StopReading
  \/ \E o \in {ann, cem} : GetConversationMessages(bea, o) \/ MarkConversationRead(bea, o)
  \/ \E m \in DOMAIN messages : MarkAsRead(bea, m) \/ DeleteMessage(bea, m)

TalkNext ==
  \/ scene = "retry" /\ (SendNext \/ BMemberNext \/ PurgeNext)
  \/ scene = "reach" /\ (SendOne \/ ReadNext \/ DeleteNext \/ ReportNext \/ BMemberNext \/ PurgeNext)
  \/ scene = "reading" /\ (SendOne \/ BReadNext)

\* A broadcast, its workers, whose sends succeed or fail for good, and the shutdown.
FanNext ==
  \/ Pipeline!FanNext \/ Pipeline!DeviceNext \/ Pipeline!StopNext
  \/ \E w \in Pipeline!Workers :
       \/ Pipeline!Take(w) \/ Pipeline!Deliver(w) \/ Pipeline!Attempt(w)
       \/ \E answer \in Pipeline!Answers \ {"transient"} : Pipeline!SendPush(w, answer)

\* Messages, a review and preferences of the recipient; either may withdraw.
DirectNext ==
  \/ Pipeline!WorkNext
  \/ \E m \in Messages :
       \/ Pipeline!NotifyMessageReceived(m)
       \/ \E status \in {"approved", "rejected"} :
            Pipeline!NotifyVerificationReviewed(RecipientOf[m], status)
       \/ Pipeline!Withdraw(SenderOf[m]) \/ Pipeline!Withdraw(RecipientOf[m])
       \/ \E wanted \in BOOLEAN, notices \in {"omitted", "on", "off"} :
            Pipeline!PutPreferences(RecipientOf[m], wanted, notices)

MCNext ==
  \/ TalkNext /\ UNCHANGED <<scene, hub, push>>
  \/ scene = "streams" /\ Hub!Next /\ UNCHANGED <<scene, talk, push>>
  \/ scene = "fan" /\ FanNext /\ UNCHANGED <<scene, talk, hub>>
  \/ scene = "direct" /\ DirectNext /\ UNCHANGED <<scene, talk, hub>>

MCSpec == MCInit /\ [][MCNext]_<<scene, talk, hub, push>>

(* RealtimeHub: a stream gets its member's events in order, without         *)
(* repetition and without a silent gap (realtime/hub.go).                   *)
StreamsAreFaithful == Hub!StreamsAreFaithful

(* PushDelivery: a broadcast reaches its recipients once, and what is queued *)
(* stops when its notice or its participant is gone (push_delivery.go).      *)
PushesAreSound == Pipeline!PushesAreSound
=============================================================================
