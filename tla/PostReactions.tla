--------------------------- MODULE PostReactions ---------------------------
(***************************************************************************)
(* What members do to one published notice: likes, views, comments,        *)
(* reports of comments and the moderators' decisions, with the erasure of  *)
(* a member's account running beside them.  A like toggle, a view, a       *)
(* comment and a report are several steps; the report's transaction and    *)
(* the moderator's are atomic under the comment's lock.                    *)
(***************************************************************************)
EXTENDS Integers, FiniteSets, FiniteSetsExt

CONSTANTS
    Members, Moderators,
    Taps,        \* like requests of the members
    Views,       \* view requests
    Notes,       \* moderators' notes
    TapOwner,    \* like request -> the member who sends it
    NoComment, NoReport, GoneReport, Idle,
    MaxRows,     \* bound: like rows of one member
    MaxComments, MaxReports

VARIABLES
    active,    \* member -> not erased
    likes,     \* WEO_BOARDLIKE: member -> OPEN_YN of her rows, in order
    tap,       \* like request -> next statement
    hits,      \* WEO_BOARDBBS.HIT
    view,      \* view request -> [pc, read]
    counted,   \* history: views that were counted
    postOpen,  \* the notice is published
    comment,   \* WEO_BOARDCOMAND: [author, open] or NoComment
    report,    \* ALUMNI_COMMENT_REPORT: [on, by, about, status, note, mod], NoReport before
               \* and GoneReport after it
    hero,      \* the cached hero's counts, and those a request has read for the cache
    page,      \* member -> the feed item she is being sent
    filing,    \* member -> the comment whose report is past its lookup
    deciding,  \* moderator -> [report, on] past the lookup
    writing,   \* members whose comment is past the session's check
    late       \* history: comments inserted after their author's erasure

reactionVars == <<active, likes, tap, hits, view, counted, postOpen, comment, report,
                  hero, page, filing, deciding, writing, late>>

likeVars == <<likes, tap>>
viewVars == <<hits, view, counted>>
feedVars == <<hero, page>>
caseVars == <<filing, deciding, writing, late>>

Comments == 1..MaxComments
Reports == 1..MaxReports
Filed == {r \in Reports : report[r] \notin {NoReport, GoneReport}}

-----------------------------------------------------------------------------
(* Likes.                                                                  *)

Rows(m) == DOMAIN likes[m]
HasUserLiked(m) == \E k \in Rows(m) : likes[m][k]
HasAnyLikeRow(m) == Rows(m) # {}

\* The counts under a post: rows, not members.
GetLikeCount == MapThenSumSet(LAMBDA m : Cardinality({k \in Rows(m) : likes[m][k]}), Members)

\* A faulty variant of SetLikeOpenByUser: only the first row is changed.
SetFirstLikeOpen(m, open) == [k \in Rows(m) |-> IF k = 1 THEN open ELSE likes[m][k]]

\* All rows of the member, since there may be several.
SetLikeOpenByUser(m, open) == [k \in Rows(m) |-> open]

InsertLike(m) == [k \in 1..(Cardinality(Rows(m)) + 1) |-> k \in Rows(m) => likes[m][k]]

SetTap(t, pc) == tap' = [tap EXCEPT ![t] = pc]

LikeFrame == UNCHANGED <<active, viewVars, postOpen, comment, report, feedVars, caseVars>>

\* ToggleLike: is it liked, is there a row, and the write that follows from it.
ReadLiked(t) ==
    /\ tap[t] = "idle" /\ active[TapOwner[t]]
    /\ SetTap(t, IF HasUserLiked(TapOwner[t]) THEN "unlike" ELSE "lookup")
    /\ UNCHANGED likes /\ LikeFrame

LookupRow(t) ==
    /\ tap[t] = "lookup"
    /\ SetTap(t, IF HasAnyLikeRow(TapOwner[t]) THEN "relike" ELSE "insert")
    /\ UNCHANGED likes /\ LikeFrame

ToggleLike(t) ==
    /\ \/ tap[t] = "unlike"
          /\ likes' = [likes EXCEPT ![TapOwner[t]] = SetLikeOpenByUser(TapOwner[t], FALSE)]
       \/ tap[t] = "relike"
          /\ likes' = [likes EXCEPT ![TapOwner[t]] = SetLikeOpenByUser(TapOwner[t], TRUE)]
       \/ tap[t] = "insert" /\ Cardinality(Rows(TapOwner[t])) < MaxRows
          /\ likes' = [likes EXCEPT ![TapOwner[t]] = InsertLike(TapOwner[t])]
    /\ SetTap(t, "idle")
    /\ LikeFrame

-----------------------------------------------------------------------------
(* Views.                                                                  *)

SetView(v, f) == view' = [view EXCEPT ![v] = f]

\* The post is published: a view counts.
GetPublishedNoticeHit(v) ==
    /\ view[v].pc = "idle" /\ postOpen
    /\ SetView(v, [pc |-> "count", of |-> "expand", before |-> hits, shown |-> 0])
    /\ UNCHANGED <<active, likeVars, hits, counted, postOpen, comment, report, feedVars, caseVars>>

\* The page of the post counts a view as well, and shows the count it read first.
GetNoticeDetail(v) ==
    /\ view[v].pc = "idle" /\ postOpen
    /\ SetView(v, [pc |-> "count", of |-> "page", before |-> hits, shown |-> hits])
    /\ UNCHANGED <<active, likeVars, hits, counted, postOpen, comment, report, feedVars, caseVars>>

\* UPDATE ... SET HIT = HIT + 1
IncrementHit(v) == hits + 1

\* RecordView answers with the count read again after the increment.
RecordView(v) ==
    /\ \/ /\ view[v].pc = "count"
          /\ hits' = IncrementHit(v) /\ counted' = counted + 1
          /\ SetView(v, [view[v] EXCEPT !.pc = IF view[v].of = "page" THEN "done" ELSE "answer"])
       \/ /\ view[v].pc = "answer"
          /\ SetView(v, [view[v] EXCEPT !.pc = IF postOpen THEN "done" ELSE "gone", !.shown = hits])
          /\ UNCHANGED <<hits, counted>>
    /\ UNCHANGED <<active, likeVars, postOpen, comment, report, feedVars, caseVars>>

-----------------------------------------------------------------------------
(* Comments.                                                               *)

GetComments == {c \in Comments : comment[c] # NoComment /\ comment[c].open}
GetCommentCount == Cardinality(GetComments)

\* Not empty and at most five hundred characters.
validComment(text) == text \notin {"", "long"}

\* The session's check and the text's; the member's row is not locked.
BeginComment(m, text) ==
    /\ active[m] /\ m \notin writing
    /\ validComment(text)
    /\ writing' = writing \cup {m}
    /\ UNCHANGED <<active, likeVars, viewVars, postOpen, comment, report, feedVars,
                   filing, deciding, late>>

\* The insert does not look again, neither at the post nor at the member.
InsertComment(m, c) ==
    /\ comment[c] = NoComment /\ \A k \in Comments : k < c => comment[k] # NoComment
    /\ comment' = [comment EXCEPT ![c] = [author |-> m, open |-> TRUE]]
    /\ late' = IF active[m] THEN late ELSE late \cup {c}

AddComment(m) ==
    /\ m \in writing /\ writing' = writing \ {m}
    /\ \E c \in Comments : InsertComment(m, c)
    /\ UNCHANGED <<active, likeVars, viewVars, postOpen, report, feedVars, filing, deciding>>

SoftDeleteComment(m, c) == comment' = [comment EXCEPT ![c].open = FALSE]

\* Only the author's own.
DeleteComment(m, c) ==
    /\ active[m]
    /\ comment[c] # NoComment /\ comment[c].author = m /\ comment[c].open
    /\ SoftDeleteComment(m, c)
    /\ UNCHANGED <<active, likeVars, viewVars, postOpen, report, feedVars, caseVars>>

\* An editor withdraws the notice.
ClosePost ==
    /\ postOpen /\ postOpen' = FALSE
    /\ UNCHANGED <<active, likeVars, viewVars, comment, report, feedVars, caseVars>>

-----------------------------------------------------------------------------
(* The post in the feed: as an item of a page or as the cached hero, with   *)
(* the detail an application expands.                                      *)

\* GetHero counts likes and comments for the cache, then fills it for two minutes.
GetHero ==
    /\ \/ /\ hero.cached = Idle /\ postOpen
          /\ hero' = [hero EXCEPT !.read = [likes |-> GetLikeCount, comments |-> GetCommentCount]]
       \/ hero.read # Idle /\ hero' = [cached |-> hero.read, read |-> Idle]
       \/ hero.cached # Idle /\ hero' = [hero EXCEPT !.cached = Idle]
    /\ UNCHANGED <<active, likeVars, viewVars, postOpen, comment, report, page, caseVars>>

\* GetLikeStats: the count and the member's own like, in one query.
HeroLikeCount == GetLikeCount

\* The shared hero is copied and given the member's like stats.
HeroWithDetail(m) ==
    /\ hero.cached # Idle
    /\ page' = [page EXCEPT ![m] = [pc |-> "attach", likeCnt |-> HeroLikeCount,
                 liked |-> HasUserLiked(m), commentCnt |-> hero.cached.comments, comments |-> {}]]
    /\ UNCHANGED <<active, likeVars, viewVars, postOpen, comment, report, hero, caseVars>>

\* The page query counts likes and comments per post.
FeedItem(m) ==
    /\ postOpen
    /\ page' = [page EXCEPT ![m] = [pc |-> "attach", likeCnt |-> GetLikeCount,
                 liked |-> HasUserLiked(m), commentCnt |-> GetCommentCount, comments |-> {}]]
    /\ UNCHANGED <<active, likeVars, viewVars, postOpen, comment, report, hero, caseVars>>

\* The count is set from the comments returned.
AttachedCount(m, shown) == Cardinality(shown)

\* attach reads the comments and hangs them on the item.
AttachToFeed(m) ==
    /\ page[m].pc = "attach"
    /\ page' = [page EXCEPT ![m] = [@ EXCEPT !.pc = "shown", !.comments = GetComments,
                                             !.commentCnt = AttachedCount(m, GetComments)]]
    /\ UNCHANGED <<active, likeVars, viewVars, postOpen, comment, report, hero, caseVars>>

-----------------------------------------------------------------------------
(* Reports.                                                                *)

ReportOf(m, c) == {r \in Filed : report[r].by = m /\ report[r].on = c}

\* One of the reasons on the form.
validReason(reason) == reason \in {"harassment", "spam", "inappropriate", "other"}

\* Create looks for the member's earlier report: a retry is answered with it.
BeginReport(m, c, reason) ==
    /\ validReason(reason)
    /\ active[m] /\ filing[m] = Idle
    /\ comment[c] # NoComment /\ ReportOf(m, c) = {}
    /\ filing' = [filing EXCEPT ![m] = c]
    /\ UNCHANGED <<active, likeVars, viewVars, postOpen, comment, report, feedVars,
                   deciding, writing, late>>

\* LOCK IN SHARE MODE on the reporter's row, not erased.
ReporterStays(m) == active[m]

\* The published parent and the visible comment of someone else, locked.
CapturedEvidence(m, c) ==
    postOpen /\ comment[c] # NoComment /\ comment[c].open /\ comment[c].author # m

\* INSERT ... ON DUPLICATE KEY UPDATE
InsertReport(m, c) ==
    IF ReportOf(m, c) # {} THEN UNCHANGED report
    ELSE \E r \in Reports :
           /\ report[r] = NoReport /\ \A k \in Reports : k < r => report[k] # NoReport
           /\ report' = [report EXCEPT ![r] = [on |-> c, by |-> m, about |-> comment[c].author,
                                                status |-> "open", note |-> "", mod |-> Idle]]

\* The report's transaction; what is not reportable is a 404.
CreateReport(m) ==
    /\ filing[m] # Idle
    /\ IF ReporterStays(m) /\ CapturedEvidence(m, filing[m])
       THEN InsertReport(m, filing[m]) ELSE UNCHANGED report
    /\ filing' = [filing EXCEPT ![m] = Idle]
    /\ UNCHANGED <<active, likeVars, viewVars, postOpen, comment, feedVars, deciding, writing, late>>

\* The back office's lists, newest first.
List(status, before) == {r \in Filed : report[r].status = status /\ (before > 0 => r < before)}

\* A decision needs a verdict and a note.
validResolution(status, note) == status \in {"removed", "dismissed"} /\ note # ""

\* The moderator, a member of the staff, picks a report of a list; Resolve looks up
\* its comment.
BeginResolve(o, r) ==
    /\ active[o] /\ deciding[o] = Idle
    /\ \E status \in {"open", "removed", "dismissed"} : r \in List(status, 0)
    /\ deciding' = [deciding EXCEPT ![o] = [report |-> r, on |-> report[r].on]]
    /\ UNCHANGED <<active, likeVars, viewVars, postOpen, comment, report, feedVars,
                   filing, writing, late>>

Decided(r, status, note, o) == [report[r] EXCEPT !.status = status, !.note = note, !.mod = o]

\* A removal closes every open report of the comment.
CloseReportsOf(c, note, o) ==
    [r \in Reports |-> IF r \in Filed /\ report[r].on = c /\ report[r].status = "open"
                       THEN Decided(r, "removed", note, o) ELSE report[r]]

\* A faulty variant of MayDecide: the last decision stands.
MayAlwaysDecide(r) == r \in Filed

\* An earlier decision stands: the same one again is fine, another is a conflict.
MayDecide(r) == r \in Filed /\ report[r].status = "open"

\* The moderator's transaction, under the comment's lock.
ResolveReport(o, status, note) ==
    LET r == deciding[o].report
        c == deciding[o].on
    IN  IF ~MayDecide(r) THEN UNCHANGED <<comment, report>>
        ELSE IF status = "removed"
             THEN /\ comment' = [comment EXCEPT ![c] = IF @ = NoComment THEN @
                                                       ELSE [@ EXCEPT !.open = FALSE]]
                  /\ report' = CloseReportsOf(c, note, o)
             ELSE /\ report' = [report EXCEPT ![r] = Decided(r, "dismissed", note, o)]
                  /\ UNCHANGED comment

\* A removal, or the same removal once more.
ResolvedWithoutError(r, note) ==
    r \in Filed /\ (report[r].status = "open" \/ [report[r] EXCEPT !.status = "removed",
                                                                !.note = note] = report[r])

\* A removal also drops the cached hero, whose comment count is stale.
Resolve(o, status, note) ==
    /\ deciding[o] # Idle
    /\ validResolution(status, note)
    /\ ResolveReport(o, status, note)
    /\ hero' = IF status = "removed" /\ ResolvedWithoutError(deciding[o].report, note)
               THEN [hero EXCEPT !.cached = Idle] ELSE hero
    /\ deciding' = [deciding EXCEPT ![o] = Idle]
    /\ UNCHANGED <<active, likeVars, viewVars, postOpen, page, filing, writing, late>>

\* The erasure of an account takes the member's likes, comments and every report
\* she filed, is the subject of or decided.
EraseMember(m) ==
    /\ active[m]
    /\ active' = [active EXCEPT ![m] = FALSE]
    /\ likes' = [likes EXCEPT ![m] = <<>>]
    /\ comment' = [c \in Comments |-> IF comment[c] # NoComment /\ comment[c].author = m
                                      THEN [author |-> m, open |-> FALSE] ELSE comment[c]]
    /\ report' = [r \in Reports |-> IF r \in Filed /\ m \in {report[r].by, report[r].about, report[r].mod}
                                    THEN GoneReport ELSE report[r]]
    /\ UNCHANGED <<tap, viewVars, postOpen, feedVars, caseVars>>

-----------------------------------------------------------------------------
ReactionInit ==
    /\ active = [m \in Members |-> TRUE]
    /\ likes = [m \in Members |-> <<>>]
    /\ tap = [t \in Taps |-> "idle"]
    /\ hits = 0 /\ counted = 0
    /\ view = [v \in Views |-> [pc |-> "idle", of |-> "", before |-> 0, shown |-> 0]]
    /\ hero = [cached |-> Idle, read |-> Idle]
    /\ page = [m \in Members |-> [pc |-> "idle", likeCnt |-> 0, liked |-> FALSE,
                                  commentCnt |-> 0, comments |-> {}]]
    /\ postOpen = TRUE
    /\ comment = [c \in Comments |-> NoComment]
    /\ report = [r \in Reports |-> NoReport]
    /\ filing = [m \in Members |-> Idle]
    /\ deciding = [o \in Moderators |-> Idle]
    /\ writing = {} /\ late = {}

ReactionNext ==
    \/ \E t \in Taps : ReadLiked(t) \/ LookupRow(t) \/ ToggleLike(t)
    \/ \E v \in Views : GetPublishedNoticeHit(v) \/ GetNoticeDetail(v) \/ RecordView(v)
    \/ GetHero
    \/ \E m \in Members : \/ FeedItem(m) \/ HeroWithDetail(m) \/ AttachToFeed(m)
                          \/ \E text \in {"", "text", "long"} : BeginComment(m, text)
                          \/ AddComment(m) \/ CreateReport(m) \/ EraseMember(m)
    \/ \E m \in Members, c \in Comments :
         DeleteComment(m, c) \/ \E reason \in {"spam", "none"} : BeginReport(m, c, reason)
    \/ \E o \in Moderators : \/ \E r \in Reports : BeginResolve(o, r)
                             \/ \E status \in {"removed", "dismissed"}, note \in Notes :
                                  Resolve(o, status, note)
    \/ ClosePost

ReactionSpec == ReactionInit /\ [][ReactionNext]_reactionVars

-----------------------------------------------------------------------------
(* Properties.                                                             *)

\* An unlike leaves no like of the member behind, also when two first taps at once
\* had inserted two rows: the post shows as not liked and counts her no more.
UnlikeClearsEveryRow ==
    [][\A t \in Taps : (tap[t] = "unlike" /\ tap'[t] = "idle")
          => ~HasUserLiked(TapOwner[t])']_reactionVars

\* No view is lost when several are recorded at once, and the count a view is
\* answered with includes the view itself.
EveryViewCounts ==
    /\ hits = counted
    /\ \A v \in Views : (view[v].pc = "done" /\ view[v].of = "expand")
         => view[v].shown \in (view[v].before + 1)..hits

\* An expanded post says as many comments as it lists, although comments come and
\* go between the page's query, or the hero's cache, and the comments' query.
DetailAgrees ==
    \A m \in Members : page[m].pc = "shown" => page[m].commentCnt = Cardinality(page[m].comments)

\* A member who is shown her own like is shown a count that includes it, also on
\* the hero that was cached before she liked it.
LikedIsCounted == \A m \in Members : page[m].liked => page[m].likeCnt > 0

\* A comment that moderation removed stays hidden and has no open report left:
\* none of the reports in flight during the removal adds one.
RemovalSettlesEveryReport ==
    \A r \in Filed : report[r].status = "removed" =>
       /\ report[r].on \notin GetComments
       /\ \A q \in Filed : report[q].on = report[r].on => report[q].status # "open"

\* Two moderators cannot overwrite each other: a decision and its note stay until
\* an erasure takes the report away.
DecisionIsFinal ==
    [][\A r \in Filed : report[r].status # "open"
          => report'[r] \in {report[r], GoneReport}]_reactionVars

\* No report is on file by an erased member, and none about one, but on a comment
\* that was under way at the erasure and landed behind it: no report in flight
\* brings the data that the erasure took back.
NoReportOfErased ==
    \A r \in Filed : /\ active[report[r].by]
                     /\ active[report[r].about] \/ report[r].on \in late

\* What a page says of a notice agrees with the rows beneath it, whatever taps,
\* views and comments overlap: views, comments, likes, and an unlike that is whole.
ReactionsAgree ==
    /\ [](EveryViewCounts /\ DetailAgrees /\ LikedIsCounted)
    /\ UnlikeClearsEveryRow

\* Moderation holds: a removal settles every report of the comment, a decision is
\* not overwritten, and no report in flight brings back what an erasure took.
ModerationHolds ==
    /\ [](RemovalSettlesEveryReport /\ NoReportOfErased)
    /\ DecisionIsFinal
=============================================================================
