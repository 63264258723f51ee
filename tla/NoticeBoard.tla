---------------------------- MODULE NoticeBoard ----------------------------
(***************************************************************************)
(* Notices as the back office writes them and members read them: the       *)
(* editors' requests on WEO_BOARDBBS, feed categories, attachments, the    *)
(* feed with its cached hero, and the notification inbox with its          *)
(* last-seen marker.  No request here runs in one transaction: each        *)
(* statement is a step, and requests interleave between them.  The push    *)
(* broadcast of a published notice is module PushDelivery's.               *)
(***************************************************************************)
EXTENDS Integers, FiniteSets, FiniteSetsExt, Sequences, SequencesExt

CONSTANTS
    Editors,     \* administrators' requests
    Users,       \* members with an inbox
    Uploads,     \* attachment rows
    Names,       \* category names
    Cats,        \* category sequences; DefaultCat is the seeded default
    DefaultCat,
    NoNotice, NoCategory, NoCat, GoneCat, NoEdit, Nothing,
    PageSize,    \* rows on a page of the feed and of the inbox
    FeedCategoryMaxCount,
    MaxNotices   \* bound: WEO_BOARDBBS.SEQ

Seqs == 1..MaxNotices
Notices == [open : BOOLEAN, pinned : BOOLEAN, cat : Cats \cup {NoCategory}, recent : BOOLEAN,
            official : BOOLEAN, name : {"foundation", "author"}]
Drafts == [cat : Cats \cup {NoCategory}, pinned : BOOLEAN, official : {TRUE, FALSE, Nothing},
           keep : SUBSET Uploads]
Categories == [name : Names, open : BOOLEAN, pos : Nat]

ASSUME BoardAssumption ==
    /\ MaxNotices \in Nat /\ PageSize \in Nat \ {0}
    /\ IsFiniteSet(Cats) /\ DefaultCat \in Cats /\ NoCategory \notin Cats
    /\ NoNotice \notin Notices /\ NoCat \notin Categories /\ GoneCat \notin Categories
    /\ NoEdit \notin [pc : {"insert", "publish"}, seq : Seqs, d : Drafts]

VARIABLES
    notice,     \* SEQ -> [open, pinned, cat, official, name, recent] or NoNotice
    cats,       \* category -> [name, open, pos], NoCat before and GoneCat after it
    files,      \* upload -> [join, open]
    announced,  \* notices handed to the push broadcast
    edit,       \* editor -> the request at hand and what it has read
    heroCache,  \* "feed:hero"
    heroRead,   \* the hero a request has read and not cached yet
    seen,       \* ALUMNI_NOTIFICATION_INBOX_STATE: member -> marker
    marks       \* member -> clamped marks about to be written

boardVars == <<notice, cats, files, announced, edit, heroCache, heroRead, seen, marks>>

Posts == {s \in Seqs : notice[s] # NoNotice}
Live == {c \in Cats : cats[c] \notin {NoCat, GoneCat}}
OpenPosts == {s \in Posts : notice[s].open}

Goto(e, job) == edit' = [edit EXCEPT ![e] = job]

-----------------------------------------------------------------------------
(* Editing notices.                                                        *)

\* A missing category is allowed, an unknown one is refused.
checkCategory(c) == c = NoCategory \/ c \in Live

NewestSeq == Max({0} \cup Posts)

\* What a request asks for: fields of the post, attachments to keep.
Draft(c, pin, official, keep) ==
    [cat |-> c, pinned |-> pin, official |-> official, keep |-> keep]


\* The byline of a new post: the official profile unless the editor declines.
newNoticeByline(official) ==
    IF official # FALSE THEN [official |-> TRUE, name |-> "foundation"]
                        ELSE [official |-> FALSE, name |-> "author"]

\* Create: the category is checked, then MAX(SEQ) is read.
BeginCreate(e, d) ==
    /\ edit[e] = NoEdit /\ NewestSeq < MaxNotices
    /\ checkCategory(d.cat)
    /\ Goto(e, [pc |-> "insert", seq |-> NewestSeq + 1, d |-> d])
    /\ UNCHANGED <<notice, cats, files, announced, heroCache, heroRead, seen, marks>>

\* The row under the sequence that was read; a taken one is a duplicate key.
InsertNotice(s, d) ==
    notice' = [notice EXCEPT ![s] =
        [open |-> TRUE, pinned |-> d.pinned, cat |-> d.cat, recent |-> TRUE,
         official |-> newNoticeByline(d.official).official,
         name |-> newNoticeByline(d.official).name]]

Create(e) ==
    /\ edit[e] # NoEdit /\ edit[e].pc = "insert"
    /\ IF edit[e].seq \in Posts
       THEN Goto(e, NoEdit) /\ UNCHANGED notice
       ELSE InsertNotice(edit[e].seq, edit[e].d) /\ Goto(e, [edit[e] EXCEPT !.pc = "publish"])
    /\ UNCHANGED <<cats, files, announced, heroCache, heroRead, seen, marks>>

\* Open uploads that no notice has.
AttachFilesToNotice(s, keep) ==
    [u \in Uploads |-> IF u \in keep /\ files[u].open /\ files[u].join = 0
                       THEN [files[u] EXCEPT !.join = s] ELSE files[u]]

\* The attachments are linked, or that fails, and the notice is announced.
Publish(e) ==
    /\ edit[e] # NoEdit /\ edit[e].pc = "publish"
    /\ \E attached \in BOOLEAN :
         /\ files' = IF attached THEN AttachFilesToNotice(edit[e].seq, edit[e].d.keep) ELSE files
         /\ announced' = announced \cup {edit[e].seq}
    /\ Goto(e, NoEdit)
    /\ UNCHANGED <<notice, cats, heroCache, heroRead, seen, marks>>

\* The byline of an edited post, from what is stored when the request starts:
\* an empty name keeps the stored one.
editedNoticeByline(s, official) ==
    IF official = Nothing THEN [official |-> Nothing, name |-> ""]
    ELSE IF official THEN [official |-> TRUE, name |-> "foundation"]
         ELSE IF s \in Posts /\ notice[s].official
              THEN [official |-> FALSE, name |-> "author"]
              ELSE [official |-> FALSE, name |-> ""]

\* Update: the category is checked, then the stored byline is read.
BeginUpdate(e, s, d) ==
    /\ edit[e] = NoEdit
    /\ checkCategory(d.cat)
    /\ Goto(e, [pc |-> "update", seq |-> s, d |-> d, byline |-> editedNoticeByline(s, d.official)])
    /\ UNCHANGED <<notice, cats, files, announced, heroCache, heroRead, seen, marks>>

\* The row is rewritten, deleted or not; a missing row is no error.
UpdateNotice(s, d, byline) ==
    IF s \in Posts
    THEN LET row == notice[s]
         IN  notice' = [notice EXCEPT ![s] =
               [row EXCEPT !.pinned = d.pinned,
                           !.cat = IF d.cat = NoCategory THEN row.cat ELSE d.cat,
                           !.official = IF byline.official = Nothing THEN row.official ELSE byline.official,
                           !.name = IF byline.name = "" THEN row.name ELSE byline.name]]
    ELSE UNCHANGED notice

Update(e) ==
    /\ edit[e] # NoEdit /\ edit[e].pc = "update"
    /\ UpdateNotice(edit[e].seq, edit[e].d, edit[e].byline)
    /\ Goto(e, [pc |-> "trim", seq |-> edit[e].seq, d |-> edit[e].d])
    /\ UNCHANGED <<cats, files, announced, heroCache, heroRead, seen, marks>>

\* First the attachments that are not kept are closed, then the new ones linked.
ReconcileAttachments(e) ==
    /\ edit[e] # NoEdit
    /\ \/ /\ edit[e].pc = "trim"
          /\ files' = [u \in Uploads |->
                IF files[u].join = edit[e].seq /\ u \notin edit[e].d.keep
                THEN [files[u] EXCEPT !.open = FALSE] ELSE files[u]]
          /\ Goto(e, [edit[e] EXCEPT !.pc = "attach"])
       \/ /\ edit[e].pc = "attach"
          /\ files' = AttachFilesToNotice(edit[e].seq, edit[e].d.keep)
          /\ Goto(e, NoEdit)
    /\ UNCHANGED <<notice, cats, announced, heroCache, heroRead, seen, marks>>

\* SetCategory: check, then write.
BeginSetCategory(e, s, c) ==
    /\ edit[e] = NoEdit
    /\ checkCategory(c)
    /\ Goto(e, [pc |-> "category", seq |-> s, cat |-> c])
    /\ UNCHANGED <<notice, cats, files, announced, heroCache, heroRead, seen, marks>>

UpdateNoticeCategory(s, c) ==
    IF s \in Posts THEN notice' = [notice EXCEPT ![s].cat = c] ELSE UNCHANGED notice

SetCategory(e) ==
    /\ edit[e] # NoEdit /\ edit[e].pc = "category"
    /\ UpdateNoticeCategory(edit[e].seq, edit[e].cat)
    /\ Goto(e, NoEdit)
    /\ UNCHANGED <<cats, files, announced, heroCache, heroRead, seen, marks>>

DeleteNotice(s) == notice' = [notice EXCEPT ![s].open = FALSE]

\* SoftDeleteFilesByJoin
CloseFiles(s) == [u \in Uploads |-> IF files[u].join = s THEN [files[u] EXCEPT !.open = FALSE]
                                                         ELSE files[u]]

\* Delete hides the notice, then its attachments.
Delete(e) ==
    \/ /\ edit[e] = NoEdit
       /\ \E s \in OpenPosts : DeleteNotice(s) /\ Goto(e, [pc |-> "close", seq |-> s])
       /\ UNCHANGED <<cats, files, announced, heroCache, heroRead, seen, marks>>
    \/ /\ edit[e] # NoEdit /\ edit[e].pc = "close"
       /\ files' = CloseFiles(edit[e].seq)
       /\ Goto(e, NoEdit)
       /\ UNCHANGED <<notice, cats, announced, heroCache, heroRead, seen, marks>>

\* Every other notice is unpinned, then this one toggled.
UnpinOthers(s) == [t \in Seqs |-> IF t \in Posts /\ t # s THEN [notice[t] EXCEPT !.pinned = FALSE]
                                                         ELSE notice[t]]

TogglePin(e) ==
    \/ /\ edit[e] = NoEdit
       /\ \E s \in Posts : notice' = UnpinOthers(s) /\ Goto(e, [pc |-> "pin", seq |-> s])
       /\ UNCHANGED <<cats, files, announced, heroCache, heroRead, seen, marks>>
    \/ /\ edit[e] # NoEdit /\ edit[e].pc = "pin"
       /\ notice' = [notice EXCEPT ![edit[e].seq].pinned = ~@]
       /\ Goto(e, NoEdit)
       /\ UNCHANGED <<cats, files, announced, heroCache, heroRead, seen, marks>>

-----------------------------------------------------------------------------
(* Feed categories.                                                        *)

\* The category a notice is shown under: a missing or deleted one is the default.
feedCategorySeqExpr(s) == IF notice[s].cat \in Live THEN notice[s].cat ELSE DefaultCat

\* The back office's list, of one category or of all.
AdminNotices(c) == {s \in Posts : c = NoCategory \/ feedCategorySeqExpr(s) = c}

\* What the editing form is filled with: the row and its open attachments.
GetForEdit(s) == [row |-> notice[s], files |-> {u \in Uploads : files[u].join = s /\ files[u].open}]

\* Every category with its number of posts.
GetAll == [c \in Live |-> Cardinality({s \in Posts : feedCategorySeqExpr(s) = c})]

\* A blank name is refused.
normalizeFeedCategoryName(name) == name # ""

hasFeedCategoryName(name, except) == \E c \in Live \ {except} : cats[c].name = name

\* A new category passes the limit and the name check ...
BeginCreateCategory(e, name, open) ==
    /\ edit[e] = NoEdit
    /\ normalizeFeedCategoryName(name)
    /\ Cardinality(Live) < FeedCategoryMaxCount
    /\ ~hasFeedCategoryName(name, NoCategory)
    /\ Goto(e, [pc |-> "newCategory", name |-> name, open |-> open])
    /\ UNCHANGED <<notice, cats, files, announced, heroCache, heroRead, seen, marks>>

\* ... and is appended; sequences are not used twice.
InsertCategory(name, open) ==
    LET fresh == {c \in Cats : cats[c] = NoCat}
    IN  /\ fresh # {}
        /\ cats' = [cats EXCEPT ![Min(fresh)] =
              [name |-> name, open |-> open, pos |-> Max({cats[k].pos : k \in Live}) + 1]]

invalidateFeed == heroCache' = Nothing

CreateCategory(e) ==
    /\ edit[e] # NoEdit /\ edit[e].pc = "newCategory"
    /\ InsertCategory(edit[e].name, edit[e].open)
    /\ invalidateFeed
    /\ Goto(e, NoEdit)
    /\ UNCHANGED <<notice, files, announced, heroRead, seen, marks>>

\* Rename or hide: the default may not be hidden.
UpdateCategory(e, c, name, open) ==
    \/ /\ edit[e] = NoEdit
       /\ c \in Live /\ normalizeFeedCategoryName(name)
       /\ c = DefaultCat => open
       /\ ~hasFeedCategoryName(name, c)
       /\ Goto(e, [pc |-> "renameCategory", cat |-> c, name |-> name, open |-> open])
       /\ UNCHANGED <<notice, cats, files, announced, heroCache, heroRead, seen, marks>>
    \/ /\ edit[e] = [pc |-> "renameCategory", cat |-> c, name |-> name, open |-> open]
       /\ cats' = IF c \in Live THEN [cats EXCEPT ![c].name = name, ![c].open = open] ELSE cats
       /\ invalidateFeed
       /\ Goto(e, NoEdit)
       /\ UNCHANGED <<notice, files, announced, heroRead, seen, marks>>

isFeedCategoryPermutation(order) == Range(order) = Live /\ Len(order) = Cardinality(Live)

\* Reorder checks the order against the list that was read ...
BeginReorder(e, order) ==
    /\ edit[e] = NoEdit
    /\ isFeedCategoryPermutation(order)
    /\ Goto(e, [pc |-> "reorder", order |-> order])
    /\ UNCHANGED <<notice, cats, files, announced, heroCache, heroRead, seen, marks>>

\* ... and gives the categories their places in one transaction.
Reorder(e) ==
    /\ edit[e] # NoEdit /\ edit[e].pc = "reorder"
    /\ cats' = [c \in Cats |-> IF c \in Live \cap Range(edit[e].order)
                  THEN [cats[c] EXCEPT !.pos = CHOOSE i \in DOMAIN edit[e].order :
                                                  edit[e].order[i] = c]
                  ELSE cats[c]]
    /\ invalidateFeed
    /\ Goto(e, NoEdit)
    /\ UNCHANGED <<notice, files, announced, heroRead, seen, marks>>

\* Delete: the category and the target are checked ...
BeginDeleteCategory(e, c, moveTo) ==
    /\ edit[e] = NoEdit
    /\ c \in Live /\ c # DefaultCat
    /\ moveTo # NoCategory => moveTo # c /\ moveTo \in Live
    /\ Goto(e, [pc |-> "deleteCategory", cat |-> c, moveTo |-> moveTo])
    /\ UNCHANGED <<notice, cats, files, announced, heroCache, heroRead, seen, marks>>

\* ... then its posts are moved, or counted, and it goes: one transaction.
DeleteMoving(c, moveTo) ==
    /\ notice' = [s \in Seqs |-> IF s \in Posts /\ notice[s].cat = c
                                 THEN [notice[s] EXCEPT !.cat = moveTo] ELSE notice[s]]
    /\ cats' = [cats EXCEPT ![c] = GoneCat]
    /\ invalidateFeed

DeleteIfEmpty(c) ==
    IF \E s \in Posts : notice[s].cat = c
    THEN UNCHANGED <<notice, cats, heroCache>>
    ELSE cats' = [cats EXCEPT ![c] = GoneCat] /\ invalidateFeed /\ UNCHANGED notice

DeleteCategory(e) ==
    /\ edit[e] # NoEdit /\ edit[e].pc = "deleteCategory"
    /\ IF edit[e].cat \notin Live THEN UNCHANGED <<notice, cats, heroCache>>
       ELSE IF edit[e].moveTo = NoCategory THEN DeleteIfEmpty(edit[e].cat)
            ELSE DeleteMoving(edit[e].cat, edit[e].moveTo)
    /\ Goto(e, NoEdit)
    /\ UNCHANGED <<files, announced, heroRead, seen, marks>>

-----------------------------------------------------------------------------
(* The feed.                                                               *)

\* ORDER BY (IS_PINNED = 'Y') DESC, SEQ DESC: what is ordered by, highest first.
feedOrder == [s \in Posts |-> IF notice[s].pinned THEN MaxNotices + s ELSE s]

\* LIMIT: the first n of the rows.
Limit(rows, order, n) == {s \in rows : Cardinality({t \in rows : order[t] > order[s]}) < n}

\* Open notices below the cursor, without the excluded one.
NoticesBelow(cursor, exclude) == {s \in OpenPosts : s # exclude /\ (cursor > 0 => s < cursor)}

\* One row more than a page.
GetNotices(cursor, exclude) == Limit(NoticesBelow(cursor, exclude), feedOrder, PageSize + 1)

Page(rows, order) == Limit(rows, order, PageSize)

\* The last row that is shown.
NextCursor(rows, order) ==
    CHOOSE s \in Page(rows, order) : \A t \in Page(rows, order) : order[t] >= order[s]

GetFeed(cursor, exclude) ==
    LET rows == GetNotices(cursor, exclude)
    IN  [items |-> Page(rows, feedOrder), more |-> Cardinality(rows) > PageSize,
         next |-> IF rows = {} THEN 0 ELSE NextCursor(rows, feedOrder)]

\* What an application that follows the cursors shows.
Scroll(exclude) ==
    LET below[cursor \in 0..MaxNotices] ==
          LET page == GetFeed(cursor, exclude)
          IN  page.items \cup IF page.more THEN below[page.next] ELSE {}
    IN  below[0]

GetHeroNotice ==
    IF OpenPosts = {} THEN Nothing
    ELSE CHOOSE s \in OpenPosts : \A t \in OpenPosts : feedOrder[s] >= feedOrder[t]

\* The neighbours of a post by SEQ, pinned or not; 0 for none.
GetPrevPost(s) == Max({0} \cup {t \in OpenPosts : t < s})
GetNextPost(s) == IF \E t \in OpenPosts : t > s THEN Min({t \in OpenPosts : t > s}) ELSE 0

\* The posts met on the way down from one.
PrevPosts(s) ==
    LET from[t \in 0..MaxNotices] == IF t = 0 THEN {} ELSE {t} \cup from[GetPrevPost(t)]
    IN  from[GetPrevPost(s)]

\* GetHero without a cache entry reads the hero, then caches it.
GetHero ==
    \/ /\ heroCache = Nothing /\ GetHeroNotice # Nothing /\ heroRead # GetHeroNotice
       /\ heroRead' = GetHeroNotice
       /\ UNCHANGED <<notice, cats, files, announced, edit, heroCache, seen, marks>>
    \/ /\ heroRead # Nothing
       /\ heroCache' = heroRead /\ heroRead' = Nothing
       /\ UNCHANGED <<notice, cats, files, announced, edit, seen, marks>>

\* Two minutes pass.
HeroExpires ==
    /\ heroCache # Nothing
    /\ heroCache' = Nothing
    /\ UNCHANGED <<notice, cats, files, announced, edit, heroRead, seen, marks>>

-----------------------------------------------------------------------------
(* The notification inbox.                                                 *)

\* Published, and registered in the last ninety days.
noticeInboxFilter(s) == notice[s].open /\ notice[s].recent

\* ORDER BY SEQ DESC
inboxOrder == [s \in Posts |-> s]

InboxBelow(before) == {s \in Posts : noticeInboxFilter(s) /\ (before > 0 => s < before)}

ListNoticeNotifications(before) == Limit(InboxBelow(before), inboxOrder, PageSize + 1)

\* One page with the unread flags.
ListInbox(u, before) ==
    LET rows == ListNoticeNotifications(before)
    IN  [unread |-> {s \in Page(rows, inboxOrder) : s > seen[u]}, more |-> Cardinality(rows) > PageSize,
         next |-> IF rows = {} THEN 0 ELSE NextCursor(rows, inboxOrder)]

UnreadInPages(u) ==
    LET below[before \in 0..MaxNotices] ==
          LET page == ListInbox(u, before)
          IN  page.unread \cup IF page.more THEN below[page.next] ELSE {}
    IN  below[0]

CountUnseenNotices(u) == Cardinality({s \in Posts : noticeInboxFilter(s) /\ s > seen[u]})

\* A faulty variant of ClampToNewest: the application is believed.
Unclamped(n) == n

ClampToNewest(n) == Min({n, NewestSeq})

\* MarkSeenThrough reads the newest sequence ...
MarkSeen(u, n) ==
    /\ n > 0
    /\ Cardinality(marks[u]) < 2
    /\ marks' = [marks EXCEPT ![u] = @ \cup {ClampToNewest(n)}]
    /\ UNCHANGED <<notice, cats, files, announced, edit, heroCache, heroRead, seen>>

\* GREATEST(LAST_SEEN_POST_SEQ, VALUES(LAST_SEEN_POST_SEQ))
MarkerAfter(old, new) == Max({old, new})

\* ... and then moves the marker; requests overtake each other.
MarkSeenThrough(u) ==
    /\ \E n \in marks[u] :
         /\ seen' = [seen EXCEPT ![u] = MarkerAfter(@, n)]
         /\ marks' = [marks EXCEPT ![u] = @ \ {n}]
    /\ UNCHANGED <<notice, cats, files, announced, edit, heroCache, heroRead>>

\* Ninety days pass for a notice.
LeavesInbox(s) ==
    /\ s \in Posts /\ notice[s].recent
    /\ \A t \in Posts : t < s => ~notice[t].recent
    /\ notice' = [notice EXCEPT ![s].recent = FALSE]
    /\ UNCHANGED <<cats, files, announced, edit, heroCache, heroRead, seen, marks>>

-----------------------------------------------------------------------------
BoardInit ==
    /\ notice = [s \in Seqs |-> NoNotice]
    /\ \E name \in Names :
         cats = [c \in Cats |-> IF c = DefaultCat THEN [name |-> name, open |-> TRUE, pos |-> 1]
                                                  ELSE NoCat]
    /\ files = [u \in Uploads |-> [join |-> 0, open |-> TRUE]]
    /\ announced = {}
    /\ edit = [e \in Editors |-> NoEdit]
    /\ heroCache = Nothing /\ heroRead = Nothing
    /\ seen = [u \in Users |-> 0]
    /\ marks = [u \in Users |-> {}]

BoardNext ==
    \/ \E e \in Editors :
         \/ \E d \in Drafts : BeginCreate(e, d) \/ \E s \in Posts : BeginUpdate(e, s, d)
         \/ Create(e) \/ Publish(e) \/ Update(e) \/ ReconcileAttachments(e)
         \/ \E s \in Posts, c \in Cats : BeginSetCategory(e, s, c)
         \/ SetCategory(e) \/ Delete(e) \/ TogglePin(e)
         \/ \E name \in Names, open \in BOOLEAN :
              BeginCreateCategory(e, name, open) \/ \E c \in Cats : UpdateCategory(e, c, name, open)
         \/ CreateCategory(e) \/ Reorder(e)
         \/ \E order \in SetToAllKPermutations(Cats) : BeginReorder(e, order)
         \/ \E c \in Cats, to \in Cats \cup {NoCategory} : BeginDeleteCategory(e, c, to)
         \/ DeleteCategory(e)
    \/ GetHero \/ HeroExpires
    \/ \E u \in Users : MarkSeenThrough(u) \/ \E n \in 1..(MaxNotices + 1) : MarkSeen(u, n)
    \/ \E s \in Seqs : LeavesInbox(s)

BoardSpec == BoardInit /\ [][BoardNext]_boardVars

-----------------------------------------------------------------------------
(* Properties.                                                             *)

\* A notice whose creating request is over has been announced, also when linking
\* its attachments failed.
PublishedIsAnnounced ==
    \A s \in Posts : s \in announced \/ \E e \in Editors :
        edit[e] # NoEdit /\ edit[e].pc = "publish" /\ edit[e].seq = s

\* An attachment never moves from one notice to another, although two editors may
\* send the same upload.
AttachmentsStayPut ==
    [][\A u \in Uploads : files[u].join # 0 => files'[u].join = files[u].join]_boardVars

\* Each category counts the notices its list shows, and the counts add up to the
\* list of all: a category that was deleted while a save that had checked it was
\* under way leaves its notice counted, and listed, under the default.
EveryNoticeCounted ==
    /\ \A c \in Live : GetAll[c] = Cardinality(AdminNotices(c))
    /\ MapThenSumSet(LAMBDA c : GetAll[c], Live) = Cardinality(AdminNotices(NoCategory))

\* Following the feed's cursors beneath the hero - the current one, the cached one
\* or none - shows every other open notice, as long as those of them that are
\* pinned above the order the cursor counts on leave room on a page.  The links
\* from post to post reach them all, both ways.
FeedShowsEverything ==
    /\ PrevPosts(MaxNotices + 1) = OpenPosts
    /\ \A s \in OpenPosts : GetPrevPost(s) # 0 => GetNextPost(GetPrevPost(s)) = s
    /\ \A hero \in {GetHeroNotice, heroCache, Nothing} :
         Cardinality({s \in OpenPosts \ {hero} : notice[s].pinned}) < PageSize
           => Scroll(hero) = OpenPosts \ {hero}

\* The red dot counts exactly the unread notices on the inbox's pages.
InboxCountAgrees == \A u \in Users : CountUnseenNotices(u) = Cardinality(UnreadInPages(u))

\* A notice is unread for everyone when it is published, whatever sequence an
\* application claimed to have shown before.
BornUnread ==
    [][\A s \in Seqs : (notice[s] = NoNotice /\ notice'[s] # NoNotice)
          => \A u \in Users : seen'[u] < s /\ \A n \in marks'[u] : n < s]_boardVars

\* A late or repeated mark never brings the red dot back for a notice the member
\* has seen.
SeenStaysSeen == [][\A u \in Users : seen'[u] >= seen[u]]_boardVars

\* Every notice is found and stays what it was: announced, counted, listed and
\* reachable, unread until it was shown and read ever after, with its attachments.
NoticesAreFound ==
    /\ [](PublishedIsAnnounced /\ EveryNoticeCounted /\ FeedShowsEverything /\ InboxCountAgrees)
    /\ BornUnread
    /\ SeenStaysSeen
    /\ AttachmentsStayPut
=============================================================================
