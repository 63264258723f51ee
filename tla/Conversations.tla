--------------------------- MODULE Conversations ---------------------------
(* Direct messages between members: sending with client retries, member     *)
(* blocks, the receiving preference, reading and paging, deletion, reports  *)
(* and the purge of suppressed messages (message_*.go, member_block_*.go,   *)
(* job/blocked_message_cleanup.go).  The notifications a send or a read     *)
(* publishes are counted here; RealtimeHub says how they travel.            *)
EXTENDS Integers, Sequences, FiniteSets, SequencesExt, FiniteSetsExt

CONSTANTS
  Users,
  Requests, RequestOf,     \* HTTP requests and their [from, to, client, text]
  blockedMessageCleanupBatchSize,
  PageSize,                \* the page size clients ask for
  ZoneShift,               \* how far the connection's zone is ahead of UTC
  MonthLength, MaxTime, MaxMessages

(* Requests are between members, a page has a row at least, and the month   *)
(* after which a suppressed message is purged takes some time.  The zone of *)
(* the connection (config.go, DSN: loc=Asia/Seoul) is ahead of UTC.         *)
ASSUME ConversationAssumption ==
  /\ \A r \in Requests : RequestOf[r].from \in Users /\ RequestOf[r].to \in Users
  /\ "all" \notin Users
  /\ blockedMessageCleanupBatchSize \in Nat \ {0} /\ PageSize \in Nat \ {0}
  /\ ZoneShift \in Nat
  /\ MonthLength \in Nat \ {0} /\ MaxTime \in Nat /\ MaxMessages \in Nat

VARIABLES
  clock,
  messages,      \* ALUMNI_MESSAGE: [AM_SEQ -> row], rows may be deleted
  nextSeq,       \* the next AM_SEQ
  blocks,        \* ALUMNI_MEMBER_BLOCK: <<blocker, blocked>>
  allowed,       \* USR_MESSAGE_ALLOWED
  approved,      \* approved alumni with an active account
  reports,       \* ALUMNI_MESSAGE_REPORT: [AM_SEQ -> status]
  send,          \* [Requests -> where the handler is]
  accepted,      \* [Requests -> AM_SEQ to announce, or 0]
  announced,     \* "message.created" events published, per sender and client id
  readEvents,    \* "message.read" events published, per sender
  suppressed,    \* messages accepted while the recipient blocked the sender
  shown,         \* [reader -> [peer -> newest message id on the screen]]
  reading        \* a reader paging through a conversation

vars == <<clock, messages, nextSeq, blocks, allowed, approved, reports, send, accepted,
          announced, readEvents, suppressed, shown, reading>>

Keys == {<<RequestOf[r].from, RequestOf[r].client>> : r \in Requests}
NoReading == [user |-> "none"]
AllPeers == "all"

\* A row of ALUMNI_MESSAGE; PURGE_AT is 0 where the column is NULL.
Message(r, visible) ==
  [from |-> r.from, to |-> r.to, client |-> r.client, at |-> clock, read |-> FALSE,
   visible |-> visible, delSender |-> FALSE, delRecvr |-> FALSE,
   purgeAt |-> IF visible THEN 0 ELSE clock + MonthLength, content |-> "text"]

(* The rows and counters keep their shape; a row has a purge date exactly   *)
(* when it is hidden from its recipient (message_repo.go, AcceptMessage).   *)
TypeOK ==
  /\ clock \in 0..MaxTime
  /\ nextSeq \in 1..(MaxMessages + 1)
  /\ DOMAIN messages \subseteq 1..(nextSeq - 1)
  /\ \A m \in DOMAIN messages :
       /\ messages[m].from \in Users /\ messages[m].to \in Users
       /\ messages[m].content \in {"text", "removed"}
       /\ messages[m].visible <=> messages[m].purgeAt = 0
  /\ blocks \subseteq Users \X Users
  /\ allowed \subseteq Users /\ approved \subseteq Users
  /\ \A m \in DOMAIN reports : reports[m] \in {"open", "removed", "dismissed"}
  /\ send \in [Requests -> {"idle", "check", "accept", "notify"}]
  /\ announced \in [Keys -> Nat]
  /\ readEvents \in [Users -> Nat]
  /\ suppressed \subseteq 1..(nextSeq - 1)
  /\ shown \in [Users -> [Users -> 0..MaxMessages]]

Init ==
  /\ clock = 0 /\ messages = <<>> /\ nextSeq = 1
  /\ blocks = {} /\ allowed = Users /\ approved = Users
  /\ reports = <<>>
  /\ send = [r \in Requests |-> "idle"]
  /\ accepted = [r \in Requests |-> 0]
  /\ announced = [k \in Keys |-> 0]
  /\ readEvents = [u \in Users |-> 0]
  /\ suppressed = {}
  /\ shown = [u \in Users |-> [o \in Users |-> 0]]
  /\ reading = NoReading

----------------------------------------------------------------------------
(* What members see *)

\* The condition every list puts on a message: the sender's copy, or the
\* recipient's if it is visible to them.
SentBy(m, u) == messages[m].from = u /\ ~messages[m].delSender
ReceivedBy(m, u) == messages[m].to = u /\ ~messages[m].delRecvr /\ messages[m].visible
VisibleTo(m, u) == SentBy(m, u) \/ ReceivedBy(m, u)

Between(m, u, o) == {messages[m].from, messages[m].to} = {u, o}

GetInboxRows(u) == {m \in DOMAIN messages : ReceivedBy(m, u)}
GetOutboxRows(u) == {m \in DOMAIN messages : SentBy(m, u)}

\* MessageRepository.GetUnreadCount, the badge.
GetUnreadCount(u) ==
  Cardinality({m \in DOMAIN messages : ReceivedBy(m, u) /\ ~messages[m].read})

\* Newest first: ORDER BY REG_DATE DESC, AM_SEQ DESC.
Newer(m, n) ==
  \/ messages[m].at > messages[n].at
  \/ messages[m].at = messages[n].at /\ m > n

\* MessageRepository.GetConversations: one row per peer with a message to show,
\* its newest message and its unread count.
GetConversationRows(u) ==
  LET peers == {o \in Users \ {u} : \E m \in DOMAIN messages : Between(m, u, o) /\ VisibleTo(m, u)}
      latest(o) == CHOOSE m \in DOMAIN messages :
                     /\ Between(m, u, o) /\ VisibleTo(m, u)
                     /\ \A n \in DOMAIN messages \ {m} :
                          Between(n, u, o) /\ VisibleTo(n, u) => Newer(m, n)
      unread(o) == Cardinality({m \in DOMAIN messages :
                     messages[m].from = o /\ ReceivedBy(m, u) /\ ~messages[m].read})
  IN {[peer |-> o, last |-> latest(o), unread |-> unread(o),
       blockedByMe |-> <<u, o>> \in blocks, available |-> o \in approved] : o \in peers}

\* REG_DATE is stored in UTC.  The list of conversations has the driver read it,
\* in the connection's zone; a conversation reads the text, labelled as UTC.
CreatedAt(o, m) == IF o = AllPeers THEN messages[m].at - ZoneShift ELSE messages[m].at

\* encodeMessageCursor / decodeMessageCursor keep both parts.
Cursor(o, m) == <<CreatedAt(o, m), m>>

\* The (created at, id) of the last row of the page before, compared in the program.
BeforeCursor(o, m, cursor) ==
  \/ cursor = <<>>
  \/ CreatedAt(o, m) < cursor[1]
  \/ CreatedAt(o, m) = cursor[1] /\ m < cursor[2]

(* A faulty variant of RowBefore: the tie within a second is forgotten. *)
RowBeforeTime(m, cursor) == cursor = <<>> \/ messages[m].at < cursor[1] + ZoneShift

\* The same comparison in the query, whose parameter the driver writes in the
\* connection's zone.
RowBefore(m, cursor) ==
  \/ cursor = <<>>
  \/ messages[m].at < cursor[1] + ZoneShift
  \/ messages[m].at = cursor[1] + ZoneShift /\ m < cursor[2]

\* The rows in that order: before a row stand the newer ones.
NewestFirst(rows) ==
  [i \in 1..Cardinality(rows) |->
     CHOOSE m \in rows : Cardinality({n \in rows : Newer(n, m)}) = i - 1]

\* The newest rows, at most limit of them.
Newest(rows, limit) == SubSeq(NewestFirst(rows), 1, Min({Cardinality(rows), limit}))

\* A page asks for one row more than its size to know whether there are more; of
\* the rows the query returns, those the program finds before the cursor are kept.
PageOf(o, rows, cursor) ==
  LET found == Newest({m \in rows : RowBefore(m, cursor)}, PageSize + 1)
      kept == {m \in ToSet(found) : BeforeCursor(o, m, cursor)}
      items == Newest(kept, PageSize)
      more == Cardinality(kept) > PageSize
  IN [items |-> items, more |-> more, next |-> IF more THEN Cursor(o, Last(items)) ELSE <<>>]

\* GetCanonicalConversationMessages: the messages of one conversation.
GetCanonicalConversationMessages(u, o) ==
  {m \in DOMAIN messages : Between(m, u, o) /\ VisibleTo(m, u)}

\* What a reader pages through: one conversation, or the list of all of them,
\* each standing for its newest message.
Listed(u, o) ==
  IF o = AllPeers THEN {c.last : c \in GetConversationRows(u)}
  ELSE GetCanonicalConversationMessages(u, o)

\* What lands on the screen.
Show(u, ids) ==
  shown' = [shown EXCEPT ![u] = [o \in Users |->
              Max({shown[u][o]} \cup {m \in ids : messages[m].from = o})]]

\* MessageService.GetInbox and GetOutbox: a page by offset; rows of one second
\* come in any order.
OffsetPages(rows) ==
  {ids \in SUBSET rows : Cardinality(ids) = Min({PageSize, Cardinality(rows)})}

\* MessageHandler.GetInbox and GetOutbox.
GetInbox(u) ==
  /\ \E ids \in OffsetPages(GetInboxRows(u)) \cup OffsetPages(GetOutboxRows(u)) : Show(u, ids)
  /\ UNCHANGED <<clock, messages, nextSeq, blocks, allowed, approved, reports, send, accepted,
                 announced, readEvents, suppressed, reading>>

\* A reader gets the first page ...
FirstPage(u, o) ==
  LET page == PageOf(o, Listed(u, o), <<>>)
  IN /\ reading = NoReading
     /\ page.items # <<>>
     /\ reading' = [user |-> u, peer |-> o, cursor |-> page.next, got |-> page.items,
                    more |-> page.more, wanted |-> Listed(u, o)]
     /\ Show(u, IF o = AllPeers THEN {} ELSE ToSet(page.items))
     /\ UNCHANGED <<clock, messages, nextSeq, blocks, allowed, approved, reports, send,
                    accepted, announced, readEvents, suppressed>>

\* ... of a conversation (MessageHandler.GetConversationMessages) ...
GetConversationMessages(u, o) == u # o /\ FirstPage(u, o)

\* ... or of the list of conversations (MessageHandler.GetConversations) ...
GetConversations(u) == FirstPage(u, AllPeers)

\* ... and goes on with the cursor the last answer gave.
NextPage ==
  LET rows == Listed(reading.user, reading.peer)
      page == PageOf(reading.peer, rows, reading.cursor)
  IN /\ reading # NoReading /\ reading.more
     /\ reading' = [reading EXCEPT !.cursor = page.next, !.got = @ \o page.items,
                                   !.more = page.more, !.wanted = @ \cap rows]
     /\ Show(reading.user, IF reading.peer = AllPeers THEN {} ELSE ToSet(page.items))
     /\ UNCHANGED <<clock, messages, nextSeq, blocks, allowed, approved, reports, send,
                    accepted, announced, readEvents, suppressed>>

StopReading ==
  /\ reading # NoReading
  /\ reading' = NoReading
  /\ UNCHANGED <<clock, messages, nextSeq, blocks, allowed, approved, reports, send, accepted,
                 announced, readEvents, suppressed, shown>>

----------------------------------------------------------------------------
(* Sending *)

\* MessageRepository.FindAcceptedMessage.
FindAcceptedMessage(r) ==
  {m \in DOMAIN messages : messages[m].from = r.from /\ messages[m].client = r.client}

\* MessageRepository.IsApprovedAlumni and CanReceiveMessages.
IsApprovedAlumni(o) == o \in approved
CanReceiveMessages(o) == o \in allowed

\* MessageService.isRecipientAvailable.
isRecipientAvailable(u, o) == o # u /\ IsApprovedAlumni(o)

\* A request has a text and a client id, neither of them too long.
validateSendMessageRequest(r) == r.text # "none"

\* MessageContentFilter.Allows: none of the blocked phrases, however spaced.
Allows(r) == r.text # "abuse"

\* MessageHandler.Send.  An accepted request is answered with its original
\* message before the text, the recipient or a block is looked at.
Send(q) ==
  /\ send[q] = "idle"
  /\ validateSendMessageRequest(RequestOf[q])
  /\ FindAcceptedMessage(RequestOf[q]) = {}
  /\ send' = [send EXCEPT ![q] = "check"]
  /\ UNCHANGED <<clock, messages, nextSeq, blocks, allowed, approved, reports, accepted,
                 announced, readEvents, suppressed, shown, reading>>

\* MessageService.SendMessage: the text passes, the recipient is available and receives, and
\* the sender has not blocked them; a refusal ends the request.
SendMessage(q) ==
  LET r == RequestOf[q]
      passes == /\ Allows(r)
                /\ isRecipientAvailable(r.from, r.to)
                /\ CanReceiveMessages(r.to)
                /\ <<r.from, r.to>> \notin blocks
  IN /\ send[q] = "check"
     /\ send' = [send EXCEPT ![q] = IF passes THEN "accept" ELSE "idle"]
     /\ UNCHANGED <<clock, messages, nextSeq, blocks, allowed, approved, reports, accepted,
                    announced, readEvents, suppressed, shown, reading>>

\* The block the INSERT itself evaluates: has the recipient blocked the sender?
VisibleRecipient(r) == <<r.to, r.from>> \notin blocks

(* A faulty variant of WasCreated: a replay counts as created. *)
WasCreatedOrFound(r) == TRUE

\* One affected row: the INSERT stored the message, the key was not there yet.
WasCreated(r) == FindAcceptedMessage(r) = {}

\* MessageRepository.AcceptMessage: store the message once per sender and client
\* id, hidden from a recipient who blocks the sender, if the recipient still
\* receives; read it back.
AcceptMessage(q) ==
  LET r == RequestOf[q]
      stores == FindAcceptedMessage(r) = {} /\ r.to \in allowed
      found == IF stores THEN {nextSeq} ELSE FindAcceptedMessage(r)
      visible == IF stores THEN VisibleRecipient(r)
                 ELSE \A m \in found : messages[m].visible
  IN /\ send[q] = "accept"
     /\ stores => nextSeq <= MaxMessages
     /\ messages' = IF stores
                    THEN [m \in DOMAIN messages \cup {nextSeq} |->
                            IF m = nextSeq THEN Message(r, VisibleRecipient(r)) ELSE messages[m]]
                    ELSE messages
     /\ nextSeq' = IF stores THEN nextSeq + 1 ELSE nextSeq
     /\ suppressed' = IF stores /\ <<r.to, r.from>> \in blocks
                      THEN suppressed \cup {nextSeq} ELSE suppressed
     /\ IF found # {} /\ visible /\ WasCreated(r)
        THEN /\ send' = [send EXCEPT ![q] = "notify"]
             /\ accepted' = [accepted EXCEPT ![q] = CHOOSE m \in found : TRUE]
        ELSE /\ send' = [send EXCEPT ![q] = "idle"]
             /\ UNCHANGED accepted
     /\ UNCHANGED <<clock, blocks, allowed, approved, reports, announced, readEvents, shown, reading>>

\* NotifyMessageReceived and NotifyMessageSent publish to the hub.
NotifyMessageReceived(q) ==
  LET r == RequestOf[q]
  IN /\ send[q] = "notify"
     /\ announced' = [announced EXCEPT ![<<r.from, r.client>>] = @ + 1]
     /\ send' = [send EXCEPT ![q] = "idle"]
     /\ accepted' = [accepted EXCEPT ![q] = 0]
     /\ UNCHANGED <<clock, messages, nextSeq, blocks, allowed, approved, reports, readEvents,
                    suppressed, shown, reading>>

\* The process stops or the connection breaks inside a request; the client
\* sends it again.
Abandon(q) ==
  /\ send[q] # "idle"
  /\ send' = [send EXCEPT ![q] = "idle"]
  /\ accepted' = [accepted EXCEPT ![q] = 0]
  /\ UNCHANGED <<clock, messages, nextSeq, blocks, allowed, approved, reports, announced, readEvents,
                 suppressed, shown, reading>>

----------------------------------------------------------------------------
(* Reading and deleting *)

\* RealtimeMessageNotifier.NotifyMessagesRead: the sender is told once a read
\* mark has changed a row.
NotifyMessagesRead(o, changed) ==
  readEvents' = IF changed THEN [readEvents EXCEPT ![o] = @ + 1] ELSE readEvents

\* MessageRepository.MarkAsRead: one visible message of the reader's.
MarkAsReadRow(m, u) == messages[m].to = u /\ ~messages[m].read /\ messages[m].visible

\* MessageService.MarkAsRead and MarkConversationRead: mark the rows, tell the
\* sender if there were any.
MarkRows(rows, o) ==
  /\ messages' = [m \in DOMAIN messages |-> IF m \in rows THEN [messages[m] EXCEPT !.read = TRUE]
                                            ELSE messages[m]]
  /\ NotifyMessagesRead(o, rows # {})
  /\ UNCHANGED <<clock, nextSeq, blocks, allowed, approved, reports, send, accepted,
                 announced, suppressed, shown, reading>>

\* MessageHandler.MarkAsRead; the client marks what it shows.
MarkAsRead(u, m) ==
  /\ m \in DOMAIN messages /\ messages[m].to = u
  /\ m <= shown[u][messages[m].from]
  /\ MarkRows({n \in {m} : MarkAsReadRow(n, u)}, messages[m].from)

\* MessageRepository.MarkConversationRead: the boundary message must be one the
\* reader can see in this conversation; what came after it stays unread.
ReadThrough(m, u, o, through) ==
  /\ through \in DOMAIN messages /\ Between(through, u, o) /\ VisibleTo(through, u)
  /\ messages[m].from = o /\ ~messages[m].read /\ ReceivedBy(m, u)
  /\ m <= through

\* MessageHandler.MarkConversationRead, up to the newest message on the screen.
MarkConversationRead(u, o) ==
  /\ u # o /\ shown[u][o] > 0
  /\ MarkRows({m \in DOMAIN messages : ReadThrough(m, u, o, shown[u][o])}, o)

\* MessageRepository.DeleteMessage hides the message from one side only.
DeleteMessageRow(u, m) ==
  messages' = [messages EXCEPT ![m].delSender = @ \/ messages[m].from = u,
                               ![m].delRecvr = @ \/ messages[m].to = u]

\* MessageHandler.Delete.
DeleteMessage(u, m) ==
  /\ m \in DOMAIN messages
  /\ DeleteMessageRow(u, m)
  /\ UNCHANGED <<clock, nextSeq, blocks, allowed, approved, reports, send, accepted,
                 announced, readEvents, suppressed, shown, reading>>

----------------------------------------------------------------------------
(* Blocks, preference, account state *)

\* MemberBlockService.Block and Unblock: not oneself.
validateBlockParticipants(u, o) == u # o

\* MemberBlockRepository.Block: the target must be an approved alumnus; a
\* repeated block changes nothing.
BlockRow(u, o) == IsApprovedAlumni(o) /\ blocks' = blocks \cup {<<u, o>>}
UnblockRow(u, o) == blocks' = blocks \ {<<u, o>>}

\* MemberBlockHandler.Put and Delete.
PutBlock(u, o, wanted) ==
  /\ validateBlockParticipants(u, o)
  /\ IF wanted THEN BlockRow(u, o) ELSE UnblockRow(u, o)
  /\ UNCHANGED <<clock, messages, nextSeq, allowed, approved, reports, send, accepted,
                 announced, readEvents, suppressed, shown, reading>>

\* MessagePreferencesRepository.Save.
SavePreferencesRow(u, allow) ==
  allowed' = IF allow THEN allowed \cup {u} ELSE allowed \ {u}

\* MessagePreferencesHandler.Put.
SavePreferences(u, allow) ==
  /\ SavePreferencesRow(u, allow)
  /\ UNCHANGED <<clock, messages, nextSeq, blocks, approved, reports, send, accepted,
                 announced, readEvents, suppressed, shown, reading>>

\* A member loses approval or leaves (AccountErasure and the back office).
LoseApproval(u) ==
  /\ approved' = approved \ {u}
  /\ UNCHANGED <<clock, messages, nextSeq, blocks, allowed, reports, send, accepted,
                 announced, readEvents, suppressed, shown, reading>>

----------------------------------------------------------------------------
(* Reports and purge *)

\* MessageReportRepository.Create: the recipient reports a message they can see,
\* once; a repeated report finds the first.
ReportRow(u, m) ==
  /\ ReceivedBy(m, u) /\ messages[m].from # u
  /\ m \notin DOMAIN reports
  /\ reports' = [n \in DOMAIN reports \cup {m} |-> IF n = m THEN "open" ELSE reports[n]]

\* MessageReportService.Create: one of the listed reasons.
ValidReason(reason) == reason \in {"harassment", "spam", "inappropriate", "other"}

\* MessageReportService.Resolve: one of the two decisions, with a note.
ValidResolution(status, note) == status \in {"removed", "dismissed"} /\ note # ""

\* MessageReportHandler.Create.
CreateReport(u, m, reason) ==
  /\ m \in DOMAIN messages
  /\ ValidReason(reason)
  /\ ReportRow(u, m)
  /\ UNCHANGED <<clock, messages, nextSeq, blocks, allowed, approved, send, accepted,
                 announced, readEvents, suppressed, shown, reading>>

\* MessageReportRepository.Resolve, one transaction: an open report is decided;
\* removal takes the text from both participants.
ResolveRow(m, status) ==
  /\ reports[m] = "open"
  /\ reports' = [reports EXCEPT ![m] = status]
  /\ messages' = IF status = "removed" /\ m \in DOMAIN messages
                 THEN [messages EXCEPT ![m].content = "removed"] ELSE messages

\* MessageReportHandler.Resolve.
ResolveReport(m, status, note) ==
  /\ m \in DOMAIN reports
  /\ ValidResolution(status, note)
  /\ ResolveRow(m, status)
  /\ UNCHANGED <<clock, nextSeq, blocks, allowed, approved, send, accepted,
                 announced, readEvents, suppressed, shown, reading>>

\* The rows DeleteExpiredSuppressedMessages may delete.
Purgeable(m) ==
  messages[m].purgeAt > 0 /\ messages[m].purgeAt <= clock /\ ~messages[m].visible

\* ORDER BY PURGE_AT, AM_SEQ.
PurgedBefore(m, n) ==
  \/ messages[m].purgeAt < messages[n].purgeAt
  \/ messages[m].purgeAt = messages[n].purgeAt /\ m < n

\* The oldest batch of them.
DeleteExpiredSuppressedMessages ==
  LET due == {m \in DOMAIN messages : Purgeable(m)}
      batch == {m \in due : Cardinality({n \in due : PurgedBefore(n, m)}) < blockedMessageCleanupBatchSize}
  IN messages' = [m \in DOMAIN messages \ batch |-> messages[m]]

\* BlockedMessageCleanupJob.runOnce, started by its timer.
CleanupRunOnce ==
  /\ DeleteExpiredSuppressedMessages
  /\ UNCHANGED <<clock, nextSeq, blocks, allowed, approved, reports, send, accepted,
                 announced, readEvents, suppressed, shown, reading>>

Tick ==
  /\ clock < MaxTime
  /\ clock' = clock + 1
  /\ UNCHANGED <<messages, nextSeq, blocks, allowed, approved, reports, send, accepted,
                 announced, readEvents, suppressed, shown, reading>>

SendNext ==
  \E q \in Requests : Send(q) \/ SendMessage(q) \/ AcceptMessage(q)
                      \/ NotifyMessageReceived(q) \/ Abandon(q)

PageNext ==
  \/ \E u \in Users : GetConversations(u) \/ \E o \in Users : GetConversationMessages(u, o)
  \/ NextPage \/ StopReading

ReadNext ==
  \/ \E u \in Users : GetInbox(u) \/ \E o \in Users : MarkConversationRead(u, o)
  \/ \E m \in DOMAIN messages, u \in Users : MarkAsRead(u, m)

DeleteNext == \E m \in DOMAIN messages, u \in Users : DeleteMessage(u, m)

ReportNext ==
  \/ \E m \in DOMAIN messages, u \in Users : CreateReport(u, m, "spam")
  \/ \E m \in DOMAIN reports, status \in {"open", "removed", "dismissed"} :
       ResolveReport(m, status, "checked")

MemberNext ==
  \/ \E u, o \in Users, wanted \in BOOLEAN : PutBlock(u, o, wanted)
  \/ \E u \in Users, allow \in BOOLEAN : SavePreferences(u, allow)
  \/ \E u \in Users : LoseApproval(u)

PurgeNext == CleanupRunOnce \/ Tick

Next == SendNext \/ PageNext \/ ReadNext \/ DeleteNext \/ ReportNext \/ MemberNext \/ PurgeNext

Spec == Init /\ [][Next]_vars

----------------------------------------------------------------------------
(* A message sent while its recipient blocks the sender never reaches the   *)
(* recipient: not by unblocking later, not through a read mark, a report or *)
(* an announcement (message_repo.go, AcceptMessage and every list).         *)
SuppressedNeverReaches ==
  \A m \in suppressed \cap DOMAIN messages :
    /\ ~VisibleTo(m, messages[m].to)
    /\ ~messages[m].read
    /\ m \notin DOMAIN reports
    /\ \A q \in Requests : accepted[q] # m

(* However often a client retries, and however its copies of a request      *)
(* overlap, a message is announced at most once (message_service.go,        *)
(* SendMessage, "a notification only for the first acceptance").            *)
AnnouncedOnce == \A k \in Keys : announced[k] <= 1

(* A read mark never covers a message newer than what its reader had on the *)
(* screen, even when it arrives while the mark is on its way                *)
(* (message_repo.go, MarkConversationRead's boundary).                      *)
NothingNewerIsRead ==
  \A m \in DOMAIN messages :
    messages[m].read => m <= shown[messages[m].to][messages[m].from]

(* A sender is told of reads that happened: however often clients repeat a  *)
(* read mark, there are never more "message.read" events than messages read *)
(* (message_service.go, MarkAsRead and MarkConversationRead, "changed").    *)
ReadEventsBacked ==
  \A u \in Users :
    readEvents[u] <= Cardinality({m \in DOMAIN messages : messages[m].from = u /\ messages[m].read})

(* While messages arrive, are deleted or purged between two requests, pages *)
(* of a conversation and of the conversation list return no row twice and   *)
(* leave no gap: of the rows that were there whenever a page was read, none *)
(* newer than a returned one is left out; and paging to the end of the list *)
(* leaves out none at all.  A conversation has no such end: the query is    *)
(* given the cursor in another zone than the rows', finds rows of the pages *)
(* before, and the program drops them and reports no more                   *)
(* (message_service.go and message_repo.go).                                *)
PagesLeaveNoGap ==
  reading # NoReading =>
    /\ Cardinality(ToSet(reading.got)) = Len(reading.got)
    /\ \A g \in ToSet(reading.got) \cap DOMAIN messages, w \in reading.wanted \cap DOMAIN messages :
         w \in ToSet(reading.got) \/ Newer(g, w)
    /\ reading.peer = AllPeers /\ ~reading.more => reading.wanted \subseteq ToSet(reading.got)

(* The badge and the conversation list never disagree: the unread counts of *)
(* the conversations add up to the badge (message_repo.go, GetUnreadCount   *)
(* and GetConversations).                                                   *)
UnreadCountsAgree ==
  \A u \in Users :
    GetUnreadCount(u) = FoldSet(LAMBDA c, sum : c.unread + sum, 0, GetConversationRows(u))

(* The rows are well formed, a suppressed message never reaches anybody and *)
(* an accepted one is announced once, through retries, blocks and purges.   *)
MessagesReachAsAccepted == TypeOK /\ SuppressedNeverReaches /\ AnnouncedOnce

(* Reading is exact: pages leave no gap, marks cover what was shown,        *)
(* read events are backed by reads, and the badge agrees with the list.     *)
ReadingIsExact == PagesLeaveNoGap /\ NothingNewerIsRead /\ ReadEventsBacked /\ UnreadCountsAgree
=============================================================================
