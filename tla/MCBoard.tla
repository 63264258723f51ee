------------------------------ MODULE MCBoard ------------------------------
(***************************************************************************)
(* The notice board and the reactions to a notice, model-checked together: *)
(* each initial state picks one scene, and only that scene's actions run.  *)
(***************************************************************************)
EXTENDS NoticeBoard

CONSTANTS e1, e2, u1, f1, a1, a2, a3, o1, o2, t1, t2, v1, v2
CONSTANTS Members, Moderators, Taps, Views, Notes, TapOwner, MaxRows, MaxComments, MaxReports,
          NoComment, NoReport, GoneReport, Idle

VARIABLES scene, active, likes, tap, hits, view, counted, postOpen, comment, report,
          hero, page, filing, deciding, writing, late

R == INSTANCE PostReactions

\* Both like requests are one member's.
MCTapOwner == [t \in Taps |-> a1]

\* A like request is a member's, and a moderator is a member.
ASSUME ReactionAssumption ==
    /\ IsFiniteSet(Members) /\ TapOwner \in [Taps -> Members]
    /\ Moderators \subseteq Members
    /\ MaxRows \in Nat /\ MaxComments \in Nat /\ MaxReports \in Nat

\* Absence is no comment, no report and no request.
ASSUME AbsenceAssumption ==
    /\ NoComment \notin [author : Members, open : BOOLEAN]
    /\ NoReport # GoneReport
    /\ {NoReport, GoneReport} \cap
         [on : R!Comments, by : Members, about : Members, status : {"open", "removed", "dismissed"},
          note : Notes \cup {""}, mod : Moderators \cup {Idle}] = {}
    /\ Idle \notin R!Comments \cup [likes : Nat, comments : Nat] \cup [report : R!Reports, on : R!Comments]

\* Who acts in the scenes.
ASSUME SceneAssumption ==
    /\ {a1, a2, a3, o1} \subseteq Members /\ {e1, e2} \subseteq Editors
    /\ {"n1", "n2"} \subseteq Notes /\ "n2" \in Names

reactions == <<active, likes, tap, hits, view, counted, postOpen, comment, report,
               hero, page, filing, deciding, writing, late>>

MCInit ==
    /\ BoardInit
    /\ R!ReactionInit
    /\ scene \in {"posts", "categories", "feed", "inbox", "likes", "views", "reports"}


\* Two editors on attachments and bylines.
PostScene ==
    \E e \in Editors :
      \/ Cardinality(Posts) < 2 /\ \E keep \in SUBSET Uploads :
           BeginCreate(e, Draft(NoCategory, FALSE, Nothing, keep))
      \/ \E s \in Posts, keep \in SUBSET Uploads, o \in BOOLEAN :
           BeginUpdate(e, s, Draft(NoCategory, FALSE, o, keep))
      \/ Create(e) \/ Publish(e) \/ Update(e) \/ ReconcileAttachments(e) \/ Delete(e)

\* One editor saves a post while the other works on the categories.
CategoryScene ==
    \/ Posts = {} /\ \E c \in Cats \cup {NoCategory} : BeginCreate(e1, Draft(c, FALSE, TRUE, {}))
    \/ Create(e1) \/ Publish(e1) \/ SetCategory(e1)
    \/ \E s \in Posts, c \in Cats : BeginSetCategory(e1, s, c)
    \/ \E s \in Posts, c \in Cats : BeginUpdate(e1, s, Draft(c, FALSE, TRUE, {}))
    \/ Update(e1) \/ ReconcileAttachments(e1)
    \/ \E name \in Names : BeginCreateCategory(e2, name, TRUE)
    \/ \E c \in Cats, open \in BOOLEAN : UpdateCategory(e2, c, "n2", open)
    \/ \E order \in SetToAllKPermutations(Cats) : BeginReorder(e2, order)
    \/ \E c \in Cats, to \in Cats \cup {NoCategory} : BeginDeleteCategory(e2, c, to)
    \/ CreateCategory(e2) \/ DeleteCategory(e2) \/ Reorder(e2)

\* Pins, deletions and the hero's cache beneath the pages of the feed.
FeedScene ==
    \/ \E pin \in BOOLEAN : BeginCreate(e1, Draft(NoCategory, pin, TRUE, {}))
    \/ Create(e1) \/ Publish(e1) \/ Delete(e2) \/ TogglePin(e2)
    \/ GetHero \/ HeroExpires

\* Marks of one member while notices come, go and age.
InboxScene ==
    \/ BeginCreate(e1, Draft(NoCategory, FALSE, TRUE, {}))
    \/ Create(e1) \/ Publish(e1) \/ Delete(e2)
    \/ \E u \in Users : MarkSeenThrough(u) \/ \E n \in 1..(MaxNotices + 1) : MarkSeen(u, n)
    \/ \E s \in Seqs : LeavesInbox(s)

LikeScene ==
    \/ \E t \in Taps : R!ReadLiked(t) \/ R!LookupRow(t) \/ R!ToggleLike(t)
    \/ R!GetHero \/ R!FeedItem(a1) \/ R!HeroWithDetail(a1) \/ R!AttachToFeed(a1)
    \/ comment[1] = NoComment /\ R!BeginComment(a2, "text")
    \/ R!AddComment(a2) \/ \E c \in R!Comments : R!DeleteComment(a2, c)
    \/ R!EraseMember(a1)

\* Two requests that count a view while the notice is withdrawn.
ViewScene ==
    \/ \E v \in Views : R!GetPublishedNoticeHit(v) \/ R!GetNoticeDetail(v) \/ R!RecordView(v)
    \/ R!ClosePost

\* Two members report the comments of a third; she, a reporter and a moderator are
\* erased, with a comment, a report or a decision of theirs under way.
ReportScene ==
    \/ R!AddComment(a1) \/ \E text \in {"text", "long"} : R!BeginComment(a1, text)
    \/ \E m \in {a2, a3} :
         R!CreateReport(m) \/ \E c \in R!Comments, reason \in {"spam", "none"} : R!BeginReport(m, c, reason)
    \/ \E c \in R!Comments : R!DeleteComment(a1, c)
    \/ \E m \in {a1, a2, o1} : R!EraseMember(m)
    \/ \E o \in Moderators : \/ \E r \in R!Reports : R!BeginResolve(o, r)
                           \/ \E status \in {"removed", "dismissed"} :
                                R!Resolve(o, status, IF o = o1 THEN "n1" ELSE "n2")
    \/ R!ClosePost

MCNext ==
    /\ UNCHANGED scene
    /\ \/ scene = "posts" /\ PostScene /\ UNCHANGED reactions
       \/ scene = "categories" /\ CategoryScene /\ UNCHANGED reactions
       \/ scene = "feed" /\ FeedScene /\ UNCHANGED reactions
       \/ scene = "inbox" /\ InboxScene /\ UNCHANGED reactions
       \/ scene = "likes" /\ LikeScene /\ UNCHANGED boardVars
       \/ scene = "views" /\ ViewScene /\ UNCHANGED boardVars
       \/ scene = "reports" /\ ReportScene /\ UNCHANGED boardVars

MCSpec == MCInit /\ [][MCNext]_<<scene, boardVars, reactions>>

\* Pages agree with the rows beneath them (PostReactions).
ReactionsAgree == R!ReactionsAgree

\* Removals and decisions hold, also against erasure (PostReactions).
ModerationHolds == R!ModerationHolds
=============================================================================
