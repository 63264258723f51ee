-------------------------- MODULE MessagingProofs --------------------------
(***************************************************************************)
(* Proofs about Conversations, RealtimeHub and PushDelivery, the last two  *)
(* as the instances Hub and Pipeline of MCMessaging, for any members,      *)
(* requests, streams, notices, messages, page and queue sizes, workers and *)
(* attempts: what was accepted reaches its recipient and is announced      *)
(* once, pages and marks cover what was shown; a stream gets its member's  *)
(* events in order, without repetition and without a silent gap; a         *)
(* broadcast reaches its recipients once, and late pushes are few.         *)
(***************************************************************************)
EXTENDS MCMessaging, FiniteSetTheorems, FunctionTheorems, SequenceTheorems, WellFoundedInduction, TLAPS

----------------------------------------------------------------------------
(* The inductive invariant *)

Clients == {RequestOf[q].client : q \in Requests}

Row ==
  [from : Users, to : Users, client : Clients, at : Nat, read : BOOLEAN, visible : BOOLEAN,
   delSender : BOOLEAN, delRecvr : BOOLEAN, purgeAt : Nat, content : {"text", "removed"}]

RowType ==
  /\ clock \in 0..MaxTime
  /\ nextSeq \in 1..(MaxMessages + 1)
  /\ DOMAIN messages \subseteq 1..(nextSeq - 1)
  /\ messages \in [DOMAIN messages -> Row]
  /\ \A m \in DOMAIN messages : messages[m].visible <=> messages[m].purgeAt = 0

MemberType ==
  /\ blocks \subseteq Users \X Users
  /\ allowed \subseteq Users
  /\ approved \subseteq Users

ReportType ==
  /\ DOMAIN reports \subseteq 1..(nextSeq - 1)
  /\ reports \in [DOMAIN reports -> {"open", "removed", "dismissed"}]

SendType ==
  /\ send \in [Requests -> {"idle", "check", "accept", "notify"}]
  /\ accepted \in [Requests -> 0..(nextSeq - 1)]
  /\ announced \in [Keys -> Nat]
  /\ suppressed \subseteq 1..(nextSeq - 1)

ReadType ==
  /\ readEvents \in [Users -> Nat]
  /\ shown \in [Users -> [Users -> 0..MaxMessages]]

\* Nobody writes to oneself: the service refuses it before a row is stored.
NotToOneself ==
  /\ \A m \in DOMAIN messages : messages[m].from # messages[m].to
  /\ \A q \in Requests : send[q] \in {"accept", "notify"} => RequestOf[q].from # RequestOf[q].to

\* A row hidden from its recipient is never marked as read, and one that was
\* accepted against a block is hidden.
HiddenStaysUnread ==
  \A m \in DOMAIN messages :
    /\ messages[m].read => messages[m].visible
    /\ m \in suppressed => ~messages[m].visible

SuppressedIsQuiet ==
  \A m \in suppressed :
    /\ m \notin DOMAIN reports
    /\ \A q \in Requests : accepted[q] # m

\* The sender and client id of a request, and whether a visible row holds them.
KeyOf(q) == <<RequestOf[q].from, RequestOf[q].client>>
RowHolds(k) ==
  \E m \in DOMAIN messages : messages[m].from = k[1] /\ messages[m].client = k[2] /\ messages[m].visible

\* A copy of a request announces only what it stored itself, and the row stays.
AnnouncedIsStored ==
  /\ \A q \in Requests : send[q] = "notify" => announced[KeyOf(q)] = 0 /\ RowHolds(KeyOf(q))
  /\ \A k \in Keys : announced[k] <= 1
  /\ \A k \in Keys : announced[k] # 0 => RowHolds(k)

OneAnnouncer ==
  \A q, p \in Requests :
    send[q] = "notify" /\ send[p] = "notify" /\ KeyOf(q) = KeyOf(p) => q = p

\* Between two pages: what was returned is not before the cursor, and what is
\* still owed is.
PageType ==
  [user : Users, peer : Users \cup {AllPeers}, cursor : {<<>>} \cup (Int \X Nat),
   got : Seq(1..(nextSeq - 1)), more : BOOLEAN, wanted : SUBSET (1..(nextSeq - 1))]

PageInv ==
  reading # NoReading =>
    /\ reading \in PageType
    /\ \A i, j \in 1..Len(reading.got) : reading.got[i] = reading.got[j] => i = j
    /\ \A g \in ToSet(reading.got) \cap DOMAIN messages, w \in reading.wanted \cap DOMAIN messages :
         w \in ToSet(reading.got) \/ Newer(g, w)
    /\ reading.more =>
         /\ reading.cursor \in Int \X Nat
         /\ \A g \in ToSet(reading.got) \cap DOMAIN messages : ~BeforeCursor(reading.peer, g, reading.cursor)
         /\ \A w \in reading.wanted \cap DOMAIN messages :
              w \in ToSet(reading.got) \/ BeforeCursor(reading.peer, w, reading.cursor)
    /\ reading.peer = AllPeers /\ ~reading.more => reading.wanted \subseteq ToSet(reading.got)

IInv ==
  /\ RowType /\ MemberType /\ ReportType /\ SendType /\ ReadType
  /\ NotToOneself /\ HiddenStaysUnread /\ SuppressedIsQuiet
  /\ AnnouncedIsStored /\ OneAnnouncer
  /\ NothingNewerIsRead /\ ReadEventsBacked
  /\ PageInv
----------------------------------------------------------------------------
(* The order of a list *)

\* Newest first is a strict order, and of two rows one is the newer.
LEMMA NewerOrder ==
    ASSUME RowType
    PROVE  /\ \A m \in DOMAIN messages : ~Newer(m, m)
           /\ \A m, n, k \in DOMAIN messages : Newer(m, n) /\ Newer(n, k) => Newer(m, k)
           /\ \A m, n \in DOMAIN messages : m = n \/ Newer(m, n) \/ Newer(n, m)
<1>1. \A m \in DOMAIN messages : m \in Int /\ messages[m].at \in Int
  BY DEF RowType, Row
<1> QED
  BY <1>1 DEF Newer

LEMMA RowsAreFinite ==
    ASSUME RowType
    PROVE  IsFiniteSet(DOMAIN messages)
<1>1. IsFiniteSet(1..(nextSeq - 1))
  <2>1. 1 \in Int /\ nextSeq - 1 \in Int
    BY DEF RowType
  <2> QED
    BY <2>1, FS_Interval
<1> QED
  BY <1>1, FS_Subset DEF RowType

\* How many rows of a set come before a row: different rows have different
\* numbers of them, so that every position of the list is taken.
LEMMA NewestFirstOrder ==
    ASSUME RowType, NEW S \in SUBSET (DOMAIN messages)
    PROVE  /\ Cardinality(S) \in Nat
           /\ NewestFirst(S) \in [1..Cardinality(S) -> S]
           /\ \A m \in S : \E i \in 1..Cardinality(S) : NewestFirst(S)[i] = m
           /\ \A i, j \in 1..Cardinality(S) : i < j => Newer(NewestFirst(S)[i], NewestFirst(S)[j])
<1> DEFINE N == Cardinality(S)
           Above(m) == {n \in S : Newer(n, m)}
           rank == [m \in S |-> Cardinality(Above(m)) + 1]
<1>1. IsFiniteSet(S) /\ N \in Nat
  BY RowsAreFinite, FS_Subset, FS_CardinalityType
<1>2. \A m \in S : /\ IsFiniteSet(Above(m)) /\ Cardinality(Above(m)) \in Nat
                   /\ Cardinality(Above(m)) < N
  <2> TAKE m \in S
  <2>1. Above(m) \in SUBSET S /\ m \notin Above(m)
    BY NewerOrder
  <2>2. IsFiniteSet(Above(m)) /\ Cardinality(Above(m)) \in Nat
    BY <1>1, <2>1, FS_Subset, FS_CardinalityType
  <2>3. Cardinality(Above(m)) <= N /\ Cardinality(Above(m)) # N
    BY <1>1, <2>1, FS_Subset
  <2> QED
    BY <1>1, <2>2, <2>3
<1>3. \A m, n \in S : Newer(m, n) => rank[m] < rank[n]
  <2> TAKE m, n \in S
  <2> HAVE Newer(m, n)
  <2>1. Above(m) \in SUBSET Above(n)
    BY NewerOrder
  <2>2. m \in Above(n) /\ m \notin Above(m)
    BY NewerOrder
  <2>3. Cardinality(Above(m)) <= Cardinality(Above(n)) /\ Cardinality(Above(m)) # Cardinality(Above(n))
    BY <1>2, <2>1, <2>2, FS_Subset
  <2>4. Cardinality(Above(m)) < Cardinality(Above(n))
    <3>1. Cardinality(Above(m)) \in Nat /\ Cardinality(Above(n)) \in Nat
      BY <1>2
    <3> QED
      BY <2>3, <3>1
  <2>5. rank[m] = Cardinality(Above(m)) + 1 /\ rank[n] = Cardinality(Above(n)) + 1
    OBVIOUS
  <2> HIDE DEF rank, Above
  <2> QED
    BY <1>2, <2>4, <2>5
<1>4. rank \in Injection(S, 1..N)
  <2>1. rank \in [S -> 1..N]
    BY <1>1, <1>2
  <2>2. ASSUME NEW m \in S, NEW n \in S, m # n
        PROVE  rank[m] # rank[n]
    <3>1. rank[m] \in 1..N /\ rank[n] \in 1..N
      BY <2>1
    <3>2. Newer(m, n) \/ Newer(n, m)
      BY <2>2, NewerOrder
    <3> HIDE DEF rank
    <3> QED
      BY <1>1, <1>3, <3>1, <3>2
  <2> HIDE DEF rank
  <2> QED
    BY <2>1, <2>2 DEF Injection, IsInjective
<1>5. rank \in Surjection(S, 1..N)
  <2>1. IsFiniteSet(1..N) /\ Cardinality(1..N) = N
    BY <1>1, FS_Interval
  <2> HIDE DEF rank
  <2> QED
    BY <1>1, <1>4, <2>1, FS_Injection
<1>6. ASSUME NEW i \in 1..N
      PROVE  NewestFirst(S)[i] \in S /\ rank[NewestFirst(S)[i]] = i
  <2>1. PICK m \in S : rank[m] = i
    BY <1>5 DEF Surjection
  <2>2. Cardinality(Above(m)) = i - 1
    BY <1>1, <1>2, <2>1
  <2>3. NewestFirst(S)[i] = CHOOSE k \in S : Cardinality(Above(k)) = i - 1
    BY DEF NewestFirst
  <2>4. NewestFirst(S)[i] \in S /\ Cardinality(Above(NewestFirst(S)[i])) = i - 1
    BY <2>2, <2>3
  <2> QED
    BY <1>1, <2>4
<1>7. NewestFirst(S) \in [1..N -> S]
  <2> DEFINE pick(i) == CHOOSE k \in S : Cardinality(Above(k)) = i - 1
  <2>1. NewestFirst(S) = [i \in 1..N |-> pick(i)]
    BY DEF NewestFirst
  <2> HIDE DEF pick
  <2>2. \A i \in 1..N : pick(i) \in S
    BY <1>6, <2>1
  <2> QED
    BY <2>1, <2>2
<1> HIDE DEF rank
<1>8. \A m \in S : \E i \in 1..N : NewestFirst(S)[i] = m
  <2> TAKE m \in S
  <2>1. rank[m] \in 1..N
    BY <1>4 DEF Injection
  <2>2. rank[NewestFirst(S)[rank[m]]] = rank[m] /\ NewestFirst(S)[rank[m]] \in S
    BY <1>6, <2>1
  <2>3. NewestFirst(S)[rank[m]] = m
    BY <1>4, <2>2 DEF Injection, IsInjective
  <2> QED
    BY <2>1, <2>3
<1>9. \A i, j \in 1..N : i < j => Newer(NewestFirst(S)[i], NewestFirst(S)[j])
  <2> TAKE i, j \in 1..N
  <2> HAVE i < j
  <2> DEFINE m == NewestFirst(S)[i]
             n == NewestFirst(S)[j]
  <2>1. m \in S /\ n \in S /\ rank[m] = i /\ rank[n] = j
    BY <1>6
  <2> HIDE DEF m, n
  <2>2. m # n /\ ~Newer(n, m)
    BY <1>1, <1>3, <2>1
  <2>3. Newer(m, n)
    BY <2>1, <2>2, NewerOrder
  <2> QED
    BY <2>3 DEF m, n
<1> QED
  BY <1>1, <1>7, <1>8, <1>9
----------------------------------------------------------------------------
(* Sums *)

SumUnread(C) == FoldSet(LAMBDA c, sum : c.unread + sum, 0, C)

\* The unread counts of rows whose messages are disjoint add up to the number
\* of all their messages, in whatever order the fold takes the rows.
LEMMA SumOfParts ==
    ASSUME NEW C, IsFiniteSet(C), NEW M, IsFiniteSet(M), NEW part \in [C -> SUBSET M],
           \A c, d \in C : c # d => part[c] \cap part[d] = {},
           \A c \in C : c.unread = Cardinality(part[c])
    PROVE  SumUnread(C) = Cardinality(UNION {part[c] : c \in C})
<1> DEFINE pick(s) == CHOOSE x \in s : TRUE
           step(g) == [s \in SUBSET C |-> IF s = {} THEN 0 ELSE pick(s).unread + g[s \ {pick(s)}]]
           all(s) == UNION {part[c] : c \in s}
           count == [s \in SUBSET C |-> Cardinality(all(s))]
<1>1. ASSUME NEW s \in SUBSET C, s # {}
      PROVE  /\ pick(s) \in s /\ s \ {pick(s)} \in SUBSET C
             /\ count[s] = pick(s).unread + count[s \ {pick(s)}]
  <2>1. pick(s) \in s
    BY <1>1
  <2> DEFINE rest == s \ {pick(s)}
  <2>2. all(s) = part[pick(s)] \cup all(rest) /\ part[pick(s)] \cap all(rest) = {}
    <3> HIDE DEF pick
    <3> QED
      BY <2>1
  <2>3. part[pick(s)] \in SUBSET M /\ all(rest) \in SUBSET M
    BY <2>1
  <2>4. /\ IsFiniteSet(part[pick(s)]) /\ IsFiniteSet(all(rest))
        /\ Cardinality(part[pick(s)]) \in Nat /\ Cardinality(all(rest)) \in Nat
    BY <2>3, FS_Subset, FS_CardinalityType
  <2> HIDE DEF pick, all, rest
  <2>5. Cardinality(all(s)) = Cardinality(part[pick(s)]) + Cardinality(all(rest))
                              - Cardinality(part[pick(s)] \cap all(rest))
    BY <2>2, <2>4, FS_Union
  <2>6. Cardinality(all(s)) = Cardinality(part[pick(s)]) + Cardinality(all(rest))
    <3>1. Cardinality(part[pick(s)] \cap all(rest)) = 0
      BY <2>2, FS_EmptySet
    <3> QED
      BY <2>4, <2>5, <3>1
  <2>7. pick(s).unread = Cardinality(part[pick(s)])
    BY <2>1
  <2> QED
    BY <2>1, <2>6, <2>7 DEF rest
<1>2. count[{}] = 0
  BY FS_EmptySet
<1>3. count = step(count)
  <2> HIDE DEF pick, count
  <2>1. \A s \in SUBSET C : step(count)[s] = count[s]
    BY <1>1, <1>2
  <2>2. count = [s \in SUBSET C |-> count[s]]
    BY DEF count
  <2> QED
    BY <2>1, <2>2
<1>4. ASSUME NEW g, g = step(g)
      PROVE  g[C] = count[C]
  <2> DEFINE Differ == {s \in SUBSET C : g[s] # count[s]}
  <2> HIDE DEF pick, count
  <2>1. Differ = {}
    <3>1. SUFFICES ASSUME Differ # {} PROVE FALSE
      OBVIOUS
    <3>2. IsWellFoundedOn(StrictSubsetOrdering(C), SUBSET C)
      BY FS_StrictSubsetOrderingWellFounded, FS_FiniteSubsetsOfFinite
    <3>3. PICK s \in Differ : \A t \in Differ : <<t, s>> \notin StrictSubsetOrdering(C)
      <4> HIDE DEF Differ
      <4>1. Differ \subseteq SUBSET C
        BY DEF Differ
      <4> QED
        BY <3>1, <3>2, <4>1, WFMin
    <3>4. s # {}
      <4>1. g[{}] = 0
        BY <1>4
      <4> QED
        BY <1>2, <3>3, <4>1
    <3>5. pick(s) \in s /\ s \ {pick(s)} \in SUBSET C
      BY <1>1, <3>3, <3>4
    <3>6. s \ {pick(s)} \notin Differ
      <4> DEFINE smaller == s \ {pick(s)}
      <4>1. <<smaller, s>> \in StrictSubsetOrdering(C)
        <5>1. smaller \in SUBSET C /\ s \in SUBSET C /\ smaller \subseteq s /\ smaller # s
          BY <3>3, <3>5
        <5> HIDE DEF smaller
        <5> QED
          BY <5>1 DEF StrictSubsetOrdering
      <4> HIDE DEF smaller, Differ
      <4> QED
        BY <3>3, <4>1 DEF smaller
    <3>7. g[s] = pick(s).unread + g[s \ {pick(s)}]
      <4>1. step(g)[s] = pick(s).unread + g[s \ {pick(s)}]
        BY <3>3, <3>4
      <4> QED
        BY <1>4, <4>1
    <3>8. count[s] = pick(s).unread + count[s \ {pick(s)}]
      BY <1>1, <3>3, <3>4
    <3>9. g[s \ {pick(s)}] = count[s \ {pick(s)}]
      BY <3>5, <3>6
    <3> QED
      BY <3>3, <3>7, <3>8, <3>9
  <2> QED
    BY <2>1
<1>5. SumUnread(C) = (CHOOSE g : g = step(g))[C]
  BY Zenon DEF SumUnread, FoldSet, MapThenFoldSet
<1>6. (CHOOSE g : g = step(g)) = step(CHOOSE g : g = step(g))
  <2> HIDE DEF step
  <2> QED
    BY <1>3
<1>7. SumUnread(C) = count[C]
  <2> HIDE DEF step, count
  <2> QED
    BY <1>4, <1>5, <1>6
<1> QED
  BY <1>7
----------------------------------------------------------------------------
(* The conversation list *)

Shared(u, o) == {m \in DOMAIN messages : Between(m, u, o) /\ VisibleTo(m, u)}
Unread(u, o) ==
  {m \in DOMAIN messages : messages[m].from = o /\ ReceivedBy(m, u) /\ ~messages[m].read}

\* One row stands for each peer, with its newest message and its unread ones.
LEMMA ConversationRows ==
    ASSUME RowType, NEW u \in Users
    PROVE  LET C == GetConversationRows(u)
           IN  /\ \A c \in C : /\ c.peer \in Users \ {u} /\ c.last \in Shared(u, c.peer)
                               /\ c.unread = Cardinality(Unread(u, c.peer))
               /\ \A c, d \in C : c.peer = d.peer => c = d
               /\ \A o \in Users \ {u} : Shared(u, o) # {} => \E c \in C : c.peer = o
<1> DEFINE peers == {o \in Users \ {u} : \E m \in DOMAIN messages : Between(m, u, o) /\ VisibleTo(m, u)}
           latest(o) == CHOOSE m \in DOMAIN messages :
                          /\ Between(m, u, o) /\ VisibleTo(m, u)
                          /\ \A n \in DOMAIN messages \ {m} :
                               Between(n, u, o) /\ VisibleTo(n, u) => Newer(m, n)
           row(o) == [peer |-> o, last |-> latest(o), unread |-> Cardinality(Unread(u, o)),
                      blockedByMe |-> <<u, o>> \in blocks, available |-> o \in approved]
           C == GetConversationRows(u)
<1>1. C = {row(o) : o \in peers}
  BY DEF GetConversationRows, Unread
<1>2. ASSUME NEW o \in peers
      PROVE  latest(o) \in Shared(u, o)
  <2> DEFINE S == Shared(u, o)
  <2>1. S \in SUBSET (DOMAIN messages) /\ S # {}
    BY DEF Shared
  <2>2. IsFiniteSet(S) /\ Cardinality(S) \in Nat /\ Cardinality(S) # 0
    BY <2>1, RowsAreFinite, FS_Subset, FS_CardinalityType, FS_EmptySet
  <2> DEFINE m == NewestFirst(S)[1]
  <2>3. m \in S /\ \A n \in S \ {m} : Newer(m, n)
    <3> HIDE DEF S
    <3>1. 1 \in 1..Cardinality(S)
      BY <2>2
    <3>2. m \in S
      BY <2>1, <3>1, NewestFirstOrder
    <3>3. ASSUME NEW n \in S \ {m} PROVE Newer(m, n)
      <4>1. PICK i \in 1..Cardinality(S) : NewestFirst(S)[i] = n
        BY <2>1, NewestFirstOrder
      <4>2. 1 < i
        BY <2>2, <4>1
      <4> QED
        BY <2>1, <3>1, <4>1, <4>2, NewestFirstOrder
    <3> QED
      BY <3>2, <3>3
  <2> HIDE DEF m
  <2>4. \A n \in DOMAIN messages \ {m} : Between(n, u, o) /\ VisibleTo(n, u) => Newer(m, n)
    BY <2>3 DEF Shared
  <2>5. m \in DOMAIN messages /\ Between(m, u, o) /\ VisibleTo(m, u)
    BY <2>3 DEF Shared
  <2> QED
    BY <2>4, <2>5 DEF Shared
<1> HIDE DEF latest, C
<1>3. \A o \in peers : row(o).peer = o /\ row(o).last = latest(o) /\ row(o).unread = Cardinality(Unread(u, o))
  OBVIOUS
<1> HIDE DEF row
<1>4. \A c \in C : /\ c.peer \in Users \ {u} /\ c.last \in Shared(u, c.peer)
                   /\ c.unread = Cardinality(Unread(u, c.peer))
  BY <1>1, <1>2, <1>3
<1>5. \A c, d \in C : c.peer = d.peer => c = d
  BY <1>1, <1>3
<1>6. \A o \in Users \ {u} : Shared(u, o) # {} => \E c \in C : c.peer = o
  <2> TAKE o \in Users \ {u}
  <2> HAVE Shared(u, o) # {}
  <2>1. o \in peers
    BY DEF Shared
  <2> QED
    BY <1>1, <1>3, <2>1
<1> QED
  BY <1>4, <1>5, <1>6 DEF C

LEMMA ListedRows ==
    ASSUME RowType, NEW u \in Users, NEW o
    PROVE  Listed(u, o) \in SUBSET (DOMAIN messages)
<1>1. CASE o = AllPeers
  <2>1. \A c \in GetConversationRows(u) : c.last \in DOMAIN messages
    BY ConversationRows DEF Shared
  <2> QED
    BY <1>1, <2>1 DEF Listed
<1>2. CASE o # AllPeers
  BY <1>2 DEF Listed, GetCanonicalConversationMessages
<1> QED
  BY <1>1, <1>2

\* The badge is the sum of the rows: every unread message is some peer's, and
\* that peer has a row.
LEMMA CountsAgree ==
    ASSUME RowType, NotToOneself
    PROVE  UnreadCountsAgree
<1> SUFFICES ASSUME NEW u \in Users
             PROVE  GetUnreadCount(u) = SumUnread(GetConversationRows(u))
  BY Zenon DEF UnreadCountsAgree, SumUnread
<1> DEFINE C == GetConversationRows(u)
           part == [c \in C |-> Unread(u, c.peer)]
<1>1. /\ \A c \in C : /\ c.peer \in Users \ {u} /\ c.last \in Shared(u, c.peer)
                      /\ c.unread = Cardinality(Unread(u, c.peer))
      /\ \A c, d \in C : c.peer = d.peer => c = d
      /\ \A o \in Users \ {u} : Shared(u, o) # {} => \E c \in C : c.peer = o
  BY ConversationRows
<1> HIDE DEF C
<1>2. IsFiniteSet(DOMAIN messages)
  BY RowsAreFinite
<1>3. IsFiniteSet(C)
  <2> DEFINE last == [c \in C |-> c.last]
  <2>1. last \in [C -> DOMAIN messages]
    BY <1>1 DEF Shared
  <2>2. \A c, d \in C : last[c] = last[d] => c = d
    BY <1>1 DEF Shared, Between
  <2> HIDE DEF last
  <2>3. last \in Injection(C, DOMAIN messages)
    BY <2>1, <2>2 DEF Injection, IsInjective
  <2> QED
    BY <1>2, <2>3, FS_Injection
<1>4. part \in [C -> SUBSET (DOMAIN messages)]
  BY DEF Unread
<1>5. \A c, d \in C : c # d => part[c] \cap part[d] = {}
  BY <1>1 DEF Unread
<1>6. \A c \in C : c.unread = Cardinality(part[c])
  BY <1>1
<1>7. {m \in DOMAIN messages : ReceivedBy(m, u) /\ ~messages[m].read} = UNION {part[c] : c \in C}
  <2>1. ASSUME NEW m \in DOMAIN messages, ReceivedBy(m, u), ~messages[m].read
        PROVE  \E c \in C : m \in part[c]
    <3> DEFINE o == messages[m].from
    <3>1. o \in Users \ {u}
      BY <2>1 DEF RowType, Row, NotToOneself, ReceivedBy
    <3>2. m \in Shared(u, o)
      BY <2>1 DEF Shared, Between, VisibleTo, ReceivedBy
    <3>3. m \in Unread(u, o)
      BY <2>1 DEF Unread
    <3> HIDE DEF o
    <3> QED
      BY <1>1, <3>1, <3>2, <3>3
  <2>2. \A c \in C : part[c] \subseteq {m \in DOMAIN messages : ReceivedBy(m, u) /\ ~messages[m].read}
    BY DEF Unread
  <2> HIDE DEF part
  <2> QED
    BY <2>1, <2>2
<1> HIDE DEF part
<1>8. SumUnread(C) = Cardinality(UNION {part[c] : c \in C})
  BY <1>2, <1>3, <1>4, <1>5, <1>6, SumOfParts
<1> QED
  BY <1>7, <1>8 DEF GetUnreadCount, C
----------------------------------------------------------------------------
(* Pages *)

Cursors == {<<>>} \cup (Int \X Nat)

\* A cursor that is a pair is not the one of the first page.
LEMMA PairCursor ==
    ASSUME NEW c \in Int \X Nat
    PROVE  c # <<>> /\ c[1] \in Int /\ c[2] \in Nat /\ c = <<c[1], c[2]>>
<1>1. PICK a \in Int, b \in Nat : c = <<a, b>>
  OBVIOUS
<1> QED
  BY <1>1

LEMMA Prefix ==
    ASSUME NEW S, NEW s \in Seq(S), NEW k \in 0..Len(s)
    PROVE  /\ SubSeq(s, 1, k) \in Seq(S) /\ Len(SubSeq(s, 1, k)) = k
           /\ \A i \in 1..k : SubSeq(s, 1, k)[i] = s[i]
OBVIOUS

\* The newest rows of a set: in order, all of them when they are not more than
\* asked for, and else so many that those left out are older.
LEMMA NewestRows ==
    ASSUME RowType, NEW S \in SUBSET (DOMAIN messages), NEW limit \in Nat
    PROVE  /\ Newest(S, limit) \in Seq(S) /\ Cardinality(S) \in Nat
           /\ Len(Newest(S, limit)) = IF Cardinality(S) > limit THEN limit ELSE Cardinality(S)
           /\ \A i, j \in 1..Len(Newest(S, limit)) : i < j => Newer(Newest(S, limit)[i], Newest(S, limit)[j])
           /\ \A i, j \in 1..Len(Newest(S, limit)) : Newest(S, limit)[i] = Newest(S, limit)[j] => i = j
           /\ \A m \in S :
                \/ m \in ToSet(Newest(S, limit))
                \/ Cardinality(S) > limit /\ \A n \in ToSet(Newest(S, limit)) : Newer(n, m)
<1> DEFINE sorted == NewestFirst(S)
           N == Cardinality(S)
           k == IF N > limit THEN limit ELSE N
           top == Newest(S, limit)
<1>1. /\ N \in Nat /\ sorted \in [1..N -> S]
      /\ \A m \in S : \E i \in 1..N : sorted[i] = m
      /\ \A i, j \in 1..N : i < j => Newer(sorted[i], sorted[j])
  BY NewestFirstOrder
<1> HIDE DEF sorted, N
<1>2. sorted \in Seq(S) /\ Len(sorted) = N
  BY <1>1
<1>3. Min({N, limit}) = k /\ k \in 0..N /\ k \in Nat
  BY <1>1 DEF Min
<1>4. top = SubSeq(sorted, 1, k)
  BY <1>3 DEF Newest, sorted, N
<1> HIDE DEF top
<1>5. top \in Seq(S) /\ Len(top) = k /\ \A i \in 1..k : top[i] = sorted[i]
  BY <1>2, <1>3, <1>4, Prefix
<1>6. \A i \in 1..k : i \in 1..N
  BY <1>1, <1>3
<1>7. \A i, j \in 1..k : i < j => Newer(top[i], top[j])
  BY <1>1, <1>5, <1>6
<1>8. ASSUME NEW i \in 1..k, NEW j \in 1..k, top[i] = top[j] PROVE i = j
  <2>1. top[i] \in S /\ ~Newer(top[i], top[i])
    BY <1>1, <1>5, <1>6, NewerOrder
  <2>2. ~(i < j) /\ ~(j < i)
    BY <1>7, <1>8, <2>1
  <2> QED
    BY <1>3, <2>2
<1>9. ASSUME NEW m \in S
      PROVE  \/ m \in ToSet(top)
             \/ N > limit /\ \A n \in ToSet(top) : Newer(n, m)
  <2>1. PICK i \in 1..N : sorted[i] = m
    BY <1>1
  <2>2. CASE i <= k
    <3>1. i \in 1..k /\ i \in DOMAIN top /\ top[i] = m
      BY <1>3, <1>5, <2>1, <2>2
    <3> QED
      BY <3>1 DEF ToSet
  <2>3. CASE k < i
    <3>1. N > limit
      BY <1>1, <1>3, <2>3
    <3>2. ASSUME NEW n \in ToSet(top) PROVE Newer(n, m)
      <4>1. PICK j \in 1..k : top[j] = n
        BY <1>5 DEF ToSet
      <4>2. j \in 1..N /\ j < i /\ n = sorted[j]
        BY <1>3, <1>5, <1>6, <2>3, <4>1
      <4> QED
        BY <1>1, <2>1, <4>2
    <3> QED
      BY <3>1, <3>2
  <2> QED
    BY <1>3, <2>2, <2>3
<1>10. \A i, j \in 1..k : top[i] = top[j] => i = j
  BY <1>8
<1> HIDE DEF k
<1>11. /\ \A i, j \in 1..Len(top) : i < j => Newer(top[i], top[j])
       /\ \A i, j \in 1..Len(top) : top[i] = top[j] => i = j
  BY <1>5, <1>7, <1>10
<1> QED
  BY <1>1, <1>5, <1>9, <1>11 DEF top, N, k

\* The query finds every row before the cursor; of the list's rows it finds no other.
LEMMA QueryFinds ==
    ASSUME RowType, ConversationAssumption, NEW o, NEW cursor \in Cursors, NEW m \in DOMAIN messages
    PROVE  /\ BeforeCursor(o, m, cursor) => RowBefore(m, cursor)
           /\ o = AllPeers \/ cursor = <<>> => (RowBefore(m, cursor) => BeforeCursor(o, m, cursor))
<1>1. m \in Nat /\ messages[m].at \in Nat /\ ZoneShift \in Nat
  BY DEF RowType, Row, ConversationAssumption
<1>2. CASE cursor = <<>>
  BY <1>2 DEF BeforeCursor, RowBefore
<1>3. CASE cursor # <<>>
  <2>1. cursor[1] \in Int /\ cursor[2] \in Nat
    BY <1>3, PairCursor DEF Cursors
  <2> DEFINE c1 == cursor[1]
             c2 == cursor[2]
             at == messages[m].at
  <2>2. /\ BeforeCursor(o, m, cursor) <=> CreatedAt(o, m) < c1 \/ (CreatedAt(o, m) = c1 /\ m < c2)
        /\ RowBefore(m, cursor) <=> at < c1 + ZoneShift \/ (at = c1 + ZoneShift /\ m < c2)
    BY <1>3 DEF BeforeCursor, RowBefore
  <2>3. CreatedAt(o, m) = IF o = AllPeers THEN at - ZoneShift ELSE at
    BY DEF CreatedAt
  <2>4. c1 \in Int /\ c2 \in Nat /\ at \in Nat
    BY <1>1, <2>1
  <2> HIDE DEF c1, c2, at
  <2>5. CASE o = AllPeers
    BY <1>1, <2>2, <2>3, <2>4, <2>5
  <2>6. CASE o # AllPeers
    <3>1. at < c1 => at < c1 + ZoneShift
      BY <1>1, <2>4
    <3>2. at = c1 /\ m < c2 => at < c1 + ZoneShift \/ (at = c1 + ZoneShift /\ m < c2)
      BY <1>1, <2>4
    <3> QED
      BY <1>3, <2>2, <2>3, <2>6, <3>1, <3>2
  <2> QED
    BY <2>5, <2>6
<1> QED
  BY <1>2, <1>3

LEMMA WiderSeq ==
    ASSUME NEW A, NEW B, A \subseteq B, NEW s \in Seq(A)
    PROVE  s \in Seq(B)
OBVIOUS

LEMMA ElementsOf ==
    ASSUME NEW S, NEW s \in Seq(S)
    PROVE  ToSet(s) \subseteq S
BY DEF ToSet

LEMMA DistinctElements ==
    ASSUME NEW S, NEW s \in Seq(S), \A i, j \in 1..Len(s) : s[i] = s[j] => i = j
    PROVE  Cardinality(ToSet(s)) = Len(s)
<1>1. Len(s) \in Nat /\ DOMAIN s = 1..Len(s)
  OBVIOUS
<1> DEFINE at == [i \in 1..Len(s) |-> s[i]]
<1>2. at \in Surjection(1..Len(s), ToSet(s)) /\ at \in Injection(1..Len(s), ToSet(s))
  <2>1. at \in [1..Len(s) -> ToSet(s)]
    BY <1>1 DEF ToSet
  <2>2. \A i, j \in 1..Len(s) : at[i] = at[j] => i = j
    OBVIOUS
  <2>3. \A x \in ToSet(s) : \E i \in 1..Len(s) : at[i] = x
    BY <1>1 DEF ToSet
  <2> HIDE DEF at
  <2> QED
    BY <2>1, <2>2, <2>3 DEF Injection, Surjection, IsInjective
<1>3. IsFiniteSet(1..Len(s)) /\ Cardinality(1..Len(s)) = Len(s)
  BY <1>1, FS_Interval
<1> HIDE DEF at
<1> QED
  BY <1>2, <1>3, FS_Surjection

\* What a page returns of the rows before its cursor: different rows, none of them
\* older than one it leaves out; when it is the last page, all of them if the query
\* compares as the program does; and else those that the next cursor leaves.
RowsBefore(o, rows, cursor) == {m \in rows : BeforeCursor(o, m, cursor)}
IsPageOf(o, page, before, whole) ==
  /\ page.more \in BOOLEAN
  /\ page.items \in Seq(before)
  /\ \A i, j \in 1..Len(page.items) : page.items[i] = page.items[j] => i = j
  /\ \A m \in before : m \in ToSet(page.items) \/ \A n \in ToSet(page.items) : Newer(n, m)
  /\ ~page.more => page.next = <<>> /\ (whole => \A m \in before : m \in ToSet(page.items))
  /\ page.more =>
       \E last \in before :
         /\ page.next = Cursor(o, last)
         /\ \A m \in ToSet(page.items) : m = last \/ Newer(m, last)
         /\ \A m \in before : m \in ToSet(page.items) \/ Newer(last, m)

LEMMA PageRows ==
    ASSUME RowType, ConversationAssumption, NEW rows \in SUBSET (DOMAIN messages), NEW cursor \in Cursors, NEW o
    PROVE  IsPageOf(o, PageOf(o, rows, cursor), RowsBefore(o, rows, cursor), o = AllPeers \/ cursor = <<>>)
<1> DEFINE before == RowsBefore(o, rows, cursor)
           whole == o = AllPeers \/ cursor = <<>>
           asked == {m \in rows : RowBefore(m, cursor)}
           found == Newest(asked, PageSize + 1)
           kept == {m \in ToSet(found) : BeforeCursor(o, m, cursor)}
           items == Newest(kept, PageSize)
           more == Cardinality(kept) > PageSize
           page == PageOf(o, rows, cursor)
<1>0. PageSize \in Nat /\ PageSize > 0 /\ PageSize + 1 \in Nat
  BY DEF ConversationAssumption
<1>1. /\ asked \in SUBSET (DOMAIN messages) /\ before \subseteq asked
      /\ whole => asked \subseteq before
  BY QueryFinds DEF RowsBefore
<1>2. \A m \in asked : m \in before <=> BeforeCursor(o, m, cursor)
  BY DEF RowsBefore
<1>3. page.items = items /\ page.more = more /\ page.next = IF more THEN Cursor(o, Last(items)) ELSE <<>>
  BY DEF PageOf
<1> HIDE DEF page, before, whole, asked
<1>4. /\ found \in Seq(asked) /\ Cardinality(asked) \in Nat
      /\ Len(found) = IF Cardinality(asked) > PageSize + 1 THEN PageSize + 1 ELSE Cardinality(asked)
      /\ \A i, j \in 1..Len(found) : found[i] = found[j] => i = j
      /\ \A m \in asked :
           \/ m \in ToSet(found)
           \/ Cardinality(asked) > PageSize + 1 /\ \A n \in ToSet(found) : Newer(n, m)
  BY <1>0, <1>1, NewestRows
<1> HIDE DEF found
<1>5. ToSet(found) \subseteq asked /\ Cardinality(ToSet(found)) = Len(found)
  BY <1>4, ElementsOf, DistinctElements
<1>6. kept \subseteq before /\ kept \in SUBSET (DOMAIN messages)
  BY <1>1, <1>2, <1>5
<1>7. \A m \in before : m \in kept \/ \A n \in kept : Newer(n, m)
  BY <1>1, <1>2, <1>4
<1>8. whole => kept = ToSet(found)
  BY <1>1, <1>2, <1>5
<1> HIDE DEF kept
<1>9. /\ items \in Seq(kept) /\ Cardinality(kept) \in Nat
      /\ Len(items) = IF Cardinality(kept) > PageSize THEN PageSize ELSE Cardinality(kept)
      /\ \A i, j \in 1..Len(items) : i < j => Newer(items[i], items[j])
      /\ \A i, j \in 1..Len(items) : items[i] = items[j] => i = j
      /\ \A m \in kept :
           \/ m \in ToSet(items)
           \/ Cardinality(kept) > PageSize /\ \A n \in ToSet(items) : Newer(n, m)
  BY <1>0, <1>6, NewestRows
<1> HIDE DEF items
<1>10. ToSet(items) \subseteq kept
  BY <1>9, ElementsOf
<1>11. \A m \in before : m \in ToSet(items) \/ \A n \in ToSet(items) : Newer(n, m)
  BY <1>7, <1>9, <1>10
<1>12. items \in Seq(before)
  BY <1>6, <1>9, WiderSeq
<1>13. ASSUME ~more, whole, NEW m \in before PROVE m \in ToSet(items)
  <2>1. Cardinality(asked) <= PageSize
    BY <1>0, <1>4, <1>5, <1>8, <1>9, <1>13
  <2>2. m \in ToSet(found)
    BY <1>0, <1>1, <1>4, <2>1
  <2> QED
    BY <1>8, <1>9, <1>13, <2>2
<1>14. ASSUME more
       PROVE  \E last \in before :
                /\ page.next = Cursor(o, last)
                /\ \A m \in ToSet(items) : m = last \/ Newer(m, last)
                /\ \A m \in before : m \in ToSet(items) \/ Newer(last, m)
  <2> DEFINE last == items[PageSize]
  <2>1. Len(items) = PageSize /\ PageSize \in 1..Len(items)
    BY <1>0, <1>9, <1>14
  <2>2. last \in before /\ last \in ToSet(items)
    BY <1>12, <2>1 DEF ToSet
  <2>3. page.next = Cursor(o, last)
    BY <1>3, <1>14, <2>1 DEF Last
  <2>4. ASSUME NEW m \in ToSet(items) PROVE m = last \/ Newer(m, last)
    <3>1. PICK i \in 1..Len(items) : items[i] = m
      BY <1>12 DEF ToSet
    <3>2. i = PageSize \/ i < PageSize
      BY <1>0, <2>1, <3>1
    <3> QED
      BY <1>9, <2>1, <3>1, <3>2
  <2> HIDE DEF last
  <2> QED
    BY <1>11, <2>2, <2>3, <2>4
<1>15. more \in BOOLEAN
  OBVIOUS
<1> HIDE DEF more
<1> QED
  BY <1>3, <1>9, <1>11, <1>12, <1>13, <1>14, <1>15 DEF page, before, whole, IsPageOf
----------------------------------------------------------------------------
(* What a step does to the stored rows *)

\* What a row never changes once it is stored.
Same(m) ==
  /\ messages'[m].from = messages[m].from /\ messages'[m].to = messages[m].to
  /\ messages'[m].client = messages[m].client /\ messages'[m].at = messages[m].at
  /\ messages'[m].visible = messages[m].visible

\* Rows are added with new numbers, keep what is fixed, and only hidden ones go.
RowsMove ==
  /\ RowType'
  /\ nextSeq <= nextSeq'
  /\ \A m \in DOMAIN messages' : m < nextSeq => m \in DOMAIN messages /\ Same(m)
  /\ \A m \in DOMAIN messages : messages[m].visible => m \in DOMAIN messages'

\* No read mark is set.
ReadsKept ==
  /\ \A m \in DOMAIN messages' : m < nextSeq => messages'[m].read = messages[m].read
  /\ \A m \in DOMAIN messages' : m >= nextSeq => ~messages'[m].read

LEMMA RowsUnchanged ==
    ASSUME RowType, UNCHANGED <<messages, nextSeq>>, clock' \in 0..MaxTime
    PROVE  RowsMove /\ ReadsKept
<1>1. nextSeq \in Nat /\ \A m \in DOMAIN messages : m \in Nat /\ m < nextSeq
  BY DEF RowType
<1> QED
  BY <1>1 DEF RowType, RowsMove, ReadsKept, Same

\* An edit that leaves the fixed columns alone.
LEMMA RowsEdited ==
    ASSUME RowType, UNCHANGED <<clock, nextSeq>>,
           messages' \in [DOMAIN messages -> Row],
           \A m \in DOMAIN messages : Same(m) /\ messages'[m].purgeAt = messages[m].purgeAt
    PROVE  /\ RowsMove
           /\ (\A m \in DOMAIN messages : messages'[m].read = messages[m].read) => ReadsKept
<1>1. nextSeq \in Nat /\ \A m \in DOMAIN messages : m \in Nat /\ m < nextSeq
  BY DEF RowType
<1>2. DOMAIN messages' = DOMAIN messages
  OBVIOUS
<1>3. RowType'
  BY <1>2 DEF RowType, Same
<1> QED
  BY <1>1, <1>2, <1>3 DEF RowsMove, ReadsKept

LEMMA MarkedRows ==
    ASSUME RowType, NEW rows, NEW o, MarkRows(rows, o)
    PROVE  /\ RowsMove
           /\ DOMAIN messages' = DOMAIN messages
           /\ \A m \in DOMAIN messages : messages'[m].read = (messages[m].read \/ m \in rows)
<1> DEFINE new(m) == IF m \in rows THEN [messages[m] EXCEPT !.read = TRUE] ELSE messages[m]
<1>1. messages' = [m \in DOMAIN messages |-> new(m)] /\ UNCHANGED <<clock, nextSeq>>
  BY DEF MarkRows
<1>2. ASSUME NEW m \in DOMAIN messages
      PROVE  /\ new(m) \in Row /\ new(m).from = messages[m].from /\ new(m).to = messages[m].to
             /\ new(m).client = messages[m].client /\ new(m).at = messages[m].at
             /\ new(m).visible = messages[m].visible /\ new(m).purgeAt = messages[m].purgeAt
             /\ new(m).read = (messages[m].read \/ m \in rows)
  <2>1. messages[m] \in Row
    BY DEF RowType
  <2>2. CASE m \in rows
    BY <2>1, <2>2 DEF Row
  <2>3. CASE m \notin rows
    BY <2>1, <2>3 DEF Row
  <2> QED
    BY <2>2, <2>3
<1> HIDE DEF new
<1>3. messages' \in [DOMAIN messages -> Row] /\ \A m \in DOMAIN messages : messages'[m] = new(m)
  BY <1>1, <1>2
<1>4. \A m \in DOMAIN messages : Same(m) /\ messages'[m].purgeAt = messages[m].purgeAt
  BY <1>2, <1>3 DEF Same
<1> QED
  BY <1>1, <1>2, <1>3, <1>4, RowsEdited

LEMMA DeletedRow ==
    ASSUME RowType, NEW u, NEW d \in DOMAIN messages, DeleteMessage(u, d)
    PROVE  RowsMove /\ ReadsKept
<1> DEFINE row == messages[d]
           new == [row EXCEPT !.delSender = @ \/ row.from = u, !.delRecvr = @ \/ row.to = u]
<1>0. row \in Row
  BY DEF RowType
<1>1. messages' = [messages EXCEPT ![d] = new] /\ UNCHANGED <<clock, nextSeq>>
  BY DEF DeleteMessage, DeleteMessageRow
<1>2. /\ new \in Row /\ new.from = row.from /\ new.to = row.to /\ new.client = row.client
      /\ new.at = row.at /\ new.visible = row.visible /\ new.purgeAt = row.purgeAt /\ new.read = row.read
  BY <1>0 DEF Row
<1> HIDE DEF new
<1>3. /\ messages' \in [DOMAIN messages -> Row]
      /\ \A m \in DOMAIN messages : messages'[m] = IF m = d THEN new ELSE messages[m]
  BY <1>1, <1>2 DEF RowType
<1>4. \A m \in DOMAIN messages : /\ Same(m) /\ messages'[m].purgeAt = messages[m].purgeAt
                                 /\ messages'[m].read = messages[m].read
  BY <1>2, <1>3 DEF Same
<1> QED
  BY <1>1, <1>3, <1>4, RowsEdited

LEMMA ResolvedRow ==
    ASSUME RowType, NEW r, NEW status, NEW note, ResolveReport(r, status, note)
    PROVE  RowsMove /\ ReadsKept
<1>0. UNCHANGED <<clock, nextSeq>> /\ clock \in 0..MaxTime
  BY DEF ResolveReport, RowType
<1>1. CASE messages' = messages
  BY <1>0, <1>1, RowsUnchanged
<1>2. CASE r \in DOMAIN messages /\ messages' = [messages EXCEPT ![r].content = "removed"]
  <2> DEFINE new == [messages[r] EXCEPT !.content = "removed"]
  <2>0. messages[r] \in Row
    BY <1>2 DEF RowType
  <2>1. messages' = [messages EXCEPT ![r] = new]
    BY <1>2
  <2>2. /\ new \in Row /\ new.from = messages[r].from /\ new.to = messages[r].to
        /\ new.client = messages[r].client /\ new.at = messages[r].at /\ new.visible = messages[r].visible
        /\ new.purgeAt = messages[r].purgeAt /\ new.read = messages[r].read
    BY <2>0 DEF Row
  <2> HIDE DEF new
  <2>3. /\ messages' \in [DOMAIN messages -> Row]
        /\ \A m \in DOMAIN messages : messages'[m] = IF m = r THEN new ELSE messages[m]
    BY <1>2, <2>1, <2>2 DEF RowType
  <2>4. \A m \in DOMAIN messages : /\ Same(m) /\ messages'[m].purgeAt = messages[m].purgeAt
                                   /\ messages'[m].read = messages[m].read
    BY <2>2, <2>3 DEF Same
  <2> QED
    BY <1>0, <2>3, <2>4, RowsEdited
<1> QED
  BY <1>1, <1>2 DEF ResolveReport, ResolveRow

\* The purge takes hidden rows only.
LEMMA PurgedRows ==
    ASSUME RowType, CleanupRunOnce
    PROVE  RowsMove /\ ReadsKept
<1> DEFINE due == {m \in DOMAIN messages : Purgeable(m)}
           batch == {m \in due : Cardinality({n \in due : PurgedBefore(n, m)}) < blockedMessageCleanupBatchSize}
<1>1. /\ \A m \in batch : Purgeable(m)
      /\ messages' = [m \in DOMAIN messages \ batch |-> messages[m]]
      /\ UNCHANGED <<clock, nextSeq>>
  BY DEF CleanupRunOnce, DeleteExpiredSuppressedMessages
<1> HIDE DEF batch
<1>2. DOMAIN messages' = DOMAIN messages \ batch /\ \A m \in DOMAIN messages' : messages'[m] = messages[m]
  BY <1>1
<1>3. messages' \in [DOMAIN messages' -> Row]
  BY <1>1, <1>2 DEF RowType
<1>4. RowType'
  BY <1>1, <1>2, <1>3 DEF RowType
<1>5. nextSeq \in Nat /\ \A m \in DOMAIN messages : m \in Nat /\ m < nextSeq
  BY DEF RowType
<1>6. \A m \in DOMAIN messages : messages[m].visible => m \notin batch
  BY <1>1 DEF Purgeable
<1> QED
  BY <1>1, <1>2, <1>4, <1>5, <1>6 DEF RowsMove, ReadsKept, Same

Stores(q) == FindAcceptedMessage(RequestOf[q]) = {} /\ RequestOf[q].to \in allowed

\* A row is stored for a request that has none.
LEMMA AcceptedRow ==
    ASSUME ConversationAssumption, RowType, NEW q \in Requests, AcceptMessage(q), Stores(q)
    PROVE  LET r == RequestOf[q]
           IN  /\ RowsMove /\ ReadsKept
               /\ nextSeq' = nextSeq + 1 /\ DOMAIN messages' = DOMAIN messages \cup {nextSeq}
               /\ messages'[nextSeq].from = r.from /\ messages'[nextSeq].to = r.to
               /\ messages'[nextSeq].client = r.client
               /\ messages'[nextSeq].visible = VisibleRecipient(r)
<1> DEFINE r == RequestOf[q]
           new == Message(r, VisibleRecipient(r))
           rows == DOMAIN messages \cup {nextSeq}
<1>1. /\ messages' = [m \in rows |-> IF m = nextSeq THEN new ELSE messages[m]]
      /\ nextSeq' = nextSeq + 1 /\ nextSeq <= MaxMessages /\ clock' = clock
  BY DEF AcceptMessage, Stores
<1>2. clock \in Nat /\ nextSeq \in Nat \ {0} /\ MonthLength \in Nat \ {0} /\ MaxMessages \in Nat
  BY DEF ConversationAssumption, RowType
<1>3. VisibleRecipient(r) \in BOOLEAN
  BY DEF VisibleRecipient
<1>4. /\ new \in Row /\ new.visible = VisibleRecipient(r) /\ (new.visible <=> new.purgeAt = 0)
      /\ new.from = r.from /\ new.to = r.to /\ new.client = r.client /\ new.read = FALSE
  <2>1. r.from \in Users /\ r.to \in Users /\ r.client \in Clients
    BY DEF ConversationAssumption, Clients
  <2> DEFINE purge == IF VisibleRecipient(r) THEN 0 ELSE clock + MonthLength
  <2>2. purge \in Nat /\ (VisibleRecipient(r) <=> purge = 0)
    BY <1>2, <1>3
  <2> HIDE DEF purge, r
  <2>3. new = [from |-> r.from, to |-> r.to, client |-> r.client, at |-> clock, read |-> FALSE,
               visible |-> VisibleRecipient(r), delSender |-> FALSE, delRecvr |-> FALSE,
               purgeAt |-> purge, content |-> "text"]
    BY DEF Message, purge
  <2> QED
    BY <1>2, <1>3, <2>1, <2>2, <2>3 DEF Row
<1> HIDE DEF new
<1>5. nextSeq \notin DOMAIN messages /\ \A m \in DOMAIN messages : m \in Nat /\ m < nextSeq
  BY DEF RowType
<1>6. /\ DOMAIN messages' = rows /\ messages'[nextSeq] = new
      /\ \A m \in DOMAIN messages : messages'[m] = messages[m]
  BY <1>1, <1>5
<1>7. RowType'
  <2>1. messages' \in [rows -> Row]
    BY <1>1, <1>4 DEF RowType
  <2>2. nextSeq' \in 1..(MaxMessages + 1) /\ clock' \in 0..MaxTime /\ rows \subseteq 1..(nextSeq' - 1)
    BY <1>1, <1>2 DEF RowType
  <2>3. \A m \in rows : messages'[m].visible <=> messages'[m].purgeAt = 0
    BY <1>4, <1>6 DEF RowType
  <2> QED
    BY <1>6, <2>1, <2>2, <2>3 DEF RowType
<1>8. RowsMove /\ ReadsKept
  BY <1>1, <1>2, <1>4, <1>5, <1>6, <1>7 DEF RowsMove, ReadsKept, Same
<1> QED
  BY <1>1, <1>4, <1>6, <1>8

LEMMA NotAccepted ==
    ASSUME RowType, NEW q \in Requests, AcceptMessage(q), ~Stores(q)
    PROVE  UNCHANGED <<messages, nextSeq, clock, suppressed>>
BY DEF AcceptMessage, Stores
----------------------------------------------------------------------------
(* Which group of actions changes what *)

sendVars == <<send, accepted, announced, suppressed>>
memberVars == <<blocks, allowed, approved>>

InboxNext == \E u \in Users : GetInbox(u)
MarkNext ==
  \/ \E u, o \in Users : MarkConversationRead(u, o)
  \/ \E m \in DOMAIN messages, u \in Users : MarkAsRead(u, m)

LEMMA ReadNextKinds == ReadNext => InboxNext \/ MarkNext
BY DEF ReadNext, InboxNext, MarkNext

LEMMA SendFrame == SendNext => UNCHANGED <<memberVars, reports, readEvents, shown, reading, clock>>
<1> SUFFICES ASSUME NEW q \in Requests,
                    Send(q) \/ SendMessage(q) \/ AcceptMessage(q) \/ NotifyMessageReceived(q) \/ Abandon(q)
             PROVE  UNCHANGED <<memberVars, reports, readEvents, shown, reading, clock>>
  BY DEF SendNext
<1>1. CASE Send(q)
  BY <1>1 DEF Send, memberVars
<1>2. CASE SendMessage(q)
  BY <1>2 DEF SendMessage, memberVars
<1>3. CASE AcceptMessage(q)
  BY <1>3 DEF AcceptMessage, memberVars
<1>4. CASE NotifyMessageReceived(q)
  BY <1>4 DEF NotifyMessageReceived, memberVars
<1>5. CASE Abandon(q)
  BY <1>5 DEF Abandon, memberVars
<1> QED
  BY <1>1, <1>2, <1>3, <1>4, <1>5

LEMMA PageFrame ==
    PageNext => UNCHANGED <<clock, messages, nextSeq, memberVars, reports, sendVars, readEvents>>
<1>1. \A u, o : FirstPage(u, o) => UNCHANGED <<clock, messages, nextSeq, memberVars, reports, sendVars, readEvents>>
  BY DEF FirstPage, memberVars, sendVars
<1>2. NextPage => UNCHANGED <<clock, messages, nextSeq, memberVars, reports, sendVars, readEvents>>
  BY DEF NextPage, memberVars, sendVars
<1>3. StopReading => UNCHANGED <<clock, messages, nextSeq, memberVars, reports, sendVars, readEvents>>
  BY DEF StopReading, memberVars, sendVars
<1> QED
  BY <1>1, <1>2, <1>3 DEF PageNext, GetConversations, GetConversationMessages

LEMMA InboxFrame ==
    InboxNext => UNCHANGED <<clock, messages, nextSeq, memberVars, reports, sendVars, readEvents, reading>>
<1>1. \A u : GetInbox(u) => UNCHANGED <<clock, messages, nextSeq, memberVars, reports, sendVars, readEvents, reading>>
  BY DEF GetInbox, memberVars, sendVars
<1> QED
  BY <1>1 DEF InboxNext

LEMMA MarkFrame ==
    MarkNext => UNCHANGED <<clock, nextSeq, memberVars, reports, sendVars, shown, reading>>
<1>1. \A rows, o : MarkRows(rows, o) => UNCHANGED <<clock, nextSeq, memberVars, reports, sendVars, shown, reading>>
  BY DEF MarkRows, memberVars, sendVars
<1> QED
  BY <1>1 DEF MarkNext, MarkConversationRead, MarkAsRead

LEMMA DeleteFrame ==
    DeleteNext => UNCHANGED <<clock, nextSeq, memberVars, reports, sendVars, readEvents, shown, reading>>
BY DEF DeleteNext, DeleteMessage, memberVars, sendVars

LEMMA ReportFrame ==
    ReportNext => UNCHANGED <<clock, nextSeq, memberVars, sendVars, readEvents, shown, reading>>
<1>1. \A u, m, reason : CreateReport(u, m, reason) => UNCHANGED <<clock, nextSeq, memberVars, sendVars, readEvents, shown, reading>>
  BY DEF CreateReport, memberVars, sendVars
<1>2. \A m, status, note : ResolveReport(m, status, note) => UNCHANGED <<clock, nextSeq, memberVars, sendVars, readEvents, shown, reading>>
  BY DEF ResolveReport, memberVars, sendVars
<1> QED
  BY <1>1, <1>2 DEF ReportNext

LEMMA MemberFrame ==
    MemberNext => UNCHANGED <<clock, messages, nextSeq, reports, sendVars, readEvents, shown, reading>>
<1>1. \A u, o, w : PutBlock(u, o, w) => UNCHANGED <<clock, messages, nextSeq, reports, sendVars, readEvents, shown, reading>>
  BY DEF PutBlock, sendVars
<1>2. \A u, w : SavePreferences(u, w) => UNCHANGED <<clock, messages, nextSeq, reports, sendVars, readEvents, shown, reading>>
  BY DEF SavePreferences, sendVars
<1>3. \A u : LoseApproval(u) => UNCHANGED <<clock, messages, nextSeq, reports, sendVars, readEvents, shown, reading>>
  BY DEF LoseApproval, sendVars
<1> QED
  BY <1>1, <1>2, <1>3 DEF MemberNext

LEMMA PurgeFrame ==
    PurgeNext => UNCHANGED <<nextSeq, memberVars, reports, sendVars, readEvents, shown, reading>>
BY DEF PurgeNext, CleanupRunOnce, Tick, memberVars, sendVars

\* Every step moves the rows, and only a read mark sets one.
LEMMA StepRows ==
    ASSUME ConversationAssumption, RowType, Next
    PROVE  RowsMove /\ (MarkNext \/ ReadsKept)
<1>c. clock \in 0..MaxTime
  BY DEF RowType
<1>1. CASE SendNext
  <2>1. clock' = clock
    BY <1>1, SendFrame
  <2> SUFFICES ASSUME NEW q \in Requests,
                      Send(q) \/ SendMessage(q) \/ AcceptMessage(q) \/ NotifyMessageReceived(q) \/ Abandon(q)
               PROVE  RowsMove /\ ReadsKept
    BY <1>1 DEF SendNext
  <2>2. CASE AcceptMessage(q) /\ Stores(q)
    BY <2>2, AcceptedRow
  <2>3. CASE AcceptMessage(q) /\ ~Stores(q)
    BY <1>c, <2>1, <2>3, NotAccepted, RowsUnchanged
  <2>4. CASE Send(q) \/ SendMessage(q) \/ NotifyMessageReceived(q) \/ Abandon(q)
    <3>1. UNCHANGED <<messages, nextSeq>>
      BY <2>4 DEF Send, SendMessage, NotifyMessageReceived, Abandon
    <3> QED
      BY <1>c, <2>1, <3>1, RowsUnchanged
  <2> QED
    BY <2>2, <2>3, <2>4
<1>2. CASE PageNext \/ InboxNext \/ MemberNext
  BY <1>c, <1>2, PageFrame, InboxFrame, MemberFrame, RowsUnchanged
<1>3. CASE MarkNext
  <2>1. PICK rows, o : MarkRows(rows, o)
    BY <1>3, Zenon DEF MarkNext, MarkConversationRead, MarkAsRead
  <2> QED
    BY <1>3, <2>1, MarkedRows
<1>4. CASE DeleteNext
  BY <1>4, DeletedRow DEF DeleteNext
<1>5. CASE ReportNext
  <2>1. ASSUME NEW m \in DOMAIN messages, NEW u \in Users, CreateReport(u, m, "spam")
        PROVE  RowsMove /\ ReadsKept
    BY <1>c, <2>1, RowsUnchanged DEF CreateReport
  <2>2. ASSUME NEW m, NEW status, ResolveReport(m, status, "checked")
        PROVE  RowsMove /\ ReadsKept
    BY <2>2, ResolvedRow
  <2> QED
    BY <1>5, <2>1, <2>2 DEF ReportNext
<1>6. CASE PurgeNext
  <2>1. CASE CleanupRunOnce
    BY <2>1, PurgedRows
  <2>2. CASE Tick
    <3>1. clock' \in 0..MaxTime
      BY <1>c, <2>2 DEF Tick, ConversationAssumption
    <3> QED
      BY <2>2, <3>1, RowsUnchanged DEF Tick
  <2> QED
    BY <1>6, <2>1, <2>2 DEF PurgeNext
<1> QED
  BY <1>1, <1>2, <1>3, <1>4, <1>5, <1>6, ReadNextKinds DEF Next
----------------------------------------------------------------------------
(* Types *)

\* A finite set of numbers that is not empty has a greatest element.
LEMMA FiniteHasMax ==
    ASSUME NEW S \in SUBSET Int, IsFiniteSet(S), S # {}
    PROVE  Max(S) \in S /\ \A y \in S : Max(S) >= y
<1> DEFINE Greatest(x, T) == x \in T /\ \A y \in T : x >= y
           Without == {T \in SUBSET S : T # {} /\ ~\E x \in T : Greatest(x, T)}
<1>1. Without = {}
  <2>1. SUFFICES ASSUME Without # {} PROVE FALSE
    OBVIOUS
  <2>2. IsWellFoundedOn(StrictSubsetOrdering(S), SUBSET S)
    BY FS_StrictSubsetOrderingWellFounded, FS_FiniteSubsetsOfFinite
  <2>3. PICK T \in Without : \A U \in Without : <<U, T>> \notin StrictSubsetOrdering(S)
    <3>1. Without \subseteq SUBSET S
      OBVIOUS
    <3> HIDE DEF Without
    <3> QED
      BY <2>1, <2>2, <3>1, WFMin
  <2>4. PICK x \in T : TRUE
    OBVIOUS
  <2>5. T \ {x} \notin Without
    BY <2>3, <2>4 DEF StrictSubsetOrdering
  <2>6. CASE T \ {x} = {}
    BY <2>4, <2>6
  <2>7. CASE T \ {x} # {}
    <3>1. PICK z \in T \ {x} : \A y \in T \ {x} : z >= y
      BY <2>5, <2>7
    <3>2. z \in Int /\ x \in Int
      BY <2>4, <3>1
    <3>3. CASE x >= z
      <4>1. \A y \in T : x >= y
        BY <3>1, <3>2, <3>3
      <4> QED
        BY <2>4, <4>1
    <3>4. CASE z >= x
      BY <3>1, <3>4
    <3> QED
      BY <3>2, <3>3, <3>4
  <2> QED
    BY <2>6, <2>7
<1>2. \E x \in S : \A y \in S : x >= y
  BY <1>1
<1> QED
  BY <1>2 DEF Max

\* What is on a screen only moves on.
LEMMA ShownGrows ==
    ASSUME ConversationAssumption, RowType, ReadType, NEW u \in Users, NEW ids \in SUBSET (DOMAIN messages),
           Show(u, ids)
    PROVE  /\ shown' \in [Users -> [Users -> 0..MaxMessages]]
           /\ \A v, o \in Users : shown[v][o] <= shown'[v][o]
<1> DEFINE on(o) == {shown[u][o]} \cup {m \in ids : messages[m].from = o}
<1>1. ASSUME NEW o \in Users
      PROVE  Max(on(o)) \in 0..MaxMessages /\ shown[u][o] <= Max(on(o))
  <2>1. shown[u][o] \in 0..MaxMessages /\ ids \subseteq 0..MaxMessages
    <3>1. nextSeq - 1 <= MaxMessages /\ MaxMessages \in Nat
      BY DEF RowType, ConversationAssumption
    <3> QED
      BY <3>1 DEF RowType, ReadType
  <2>2. on(o) \subseteq 0..MaxMessages /\ shown[u][o] \in on(o) /\ on(o) # {}
    BY <2>1
  <2>3. IsFiniteSet(0..MaxMessages)
    <3>1. 0 \in Int /\ MaxMessages \in Int
      BY DEF ConversationAssumption
    <3> QED
      BY <3>1, FS_Interval
  <2> HIDE DEF on
  <2>4. on(o) \in SUBSET Int /\ IsFiniteSet(on(o))
    <3>1. on(o) \in SUBSET Int
      BY <2>2 DEF ConversationAssumption
    <3> QED
      BY <2>2, <2>3, <3>1, FS_Subset
  <2>5. Max(on(o)) \in on(o) /\ Max(on(o)) >= shown[u][o]
    BY <2>2, <2>4, FiniteHasMax
  <2> QED
    BY <2>1, <2>2, <2>5 DEF ConversationAssumption
<1>2. shown' = [shown EXCEPT ![u] = [o \in Users |-> Max(on(o))]]
  BY DEF Show
<1> HIDE DEF on
<1>3. [o \in Users |-> Max(on(o))] \in [Users -> 0..MaxMessages]
  BY <1>1
<1>4. shown' \in [Users -> [Users -> 0..MaxMessages]]
  BY <1>2, <1>3 DEF ReadType
<1>5. ASSUME NEW v \in Users, NEW o \in Users PROVE shown[v][o] <= shown'[v][o]
  <2>1. CASE v = u
    BY <1>1, <1>2, <2>1 DEF ReadType
  <2>2. CASE v # u
    <3>1. shown'[v] = shown[v] /\ shown[v][o] \in 0..MaxMessages
      BY <1>2, <2>2 DEF ReadType
    <3> QED
      BY <3>1 DEF ConversationAssumption
  <2> QED
    BY <2>1, <2>2
<1> QED
  BY <1>4, <1>5

\* The rows a page puts on the screen are rows of the table.
LEMMA PagesShowRows ==
    ASSUME ConversationAssumption, RowType, PageInv, PageNext
    PROVE  UNCHANGED shown \/ \E u \in Users : \E ids \in SUBSET (DOMAIN messages) : Show(u, ids)
<1>1. ASSUME NEW u \in Users, NEW o, NEW c \in Cursors
      PROVE  ToSet(PageOf(o, Listed(u, o), c).items) \in SUBSET (DOMAIN messages)
  <2> DEFINE rows == Listed(u, o)
  <2>1. rows \in SUBSET (DOMAIN messages)
    BY ListedRows
  <2> HIDE DEF rows
  <2>2. PageOf(o, rows, c).items \in Seq(RowsBefore(o, rows, c))
    BY <2>1, PageRows DEF IsPageOf
  <2> QED
    BY <2>1, <2>2 DEF ToSet, RowsBefore, rows
<1>2. ASSUME NEW u \in Users, NEW o, FirstPage(u, o)
      PROVE  \E ids \in SUBSET (DOMAIN messages) : Show(u, ids)
  <2> DEFINE items == PageOf(o, Listed(u, o), <<>>).items
             ids == IF o = AllPeers THEN {} ELSE ToSet(items)
  <2>1. Show(u, ids)
    BY <1>2 DEF FirstPage
  <2>2. ids \in SUBSET (DOMAIN messages)
    BY <1>1 DEF Cursors
  <2> HIDE DEF ids
  <2> QED
    BY <2>1, <2>2
<1>3. ASSUME NextPage
      PROVE  \E u \in Users : \E ids \in SUBSET (DOMAIN messages) : Show(u, ids)
  <2> DEFINE u == reading.user
             items == PageOf(reading.peer, Listed(u, reading.peer), reading.cursor).items
             ids == IF reading.peer = AllPeers THEN {} ELSE ToSet(items)
  <2>1. Show(u, ids) /\ reading # NoReading
    BY <1>3 DEF NextPage
  <2>2. u \in Users /\ reading.cursor \in Cursors
    BY <2>1 DEF PageInv, PageType, Cursors
  <2>3. ids \in SUBSET (DOMAIN messages)
    BY <1>1, <2>2
  <2> HIDE DEF ids, u
  <2> QED
    BY <2>1, <2>2, <2>3
<1>4. CASE StopReading
  BY <1>4 DEF StopReading
<1> QED
  BY <1>2, <1>3, <1>4 DEF PageNext, GetConversations, GetConversationMessages

LEMMA InboxShowsRows ==
    ASSUME RowType, InboxNext
    PROVE  \E u \in Users : \E ids \in SUBSET (DOMAIN messages) : Show(u, ids)
BY DEF InboxNext, GetInbox, OffsetPages, GetInboxRows, GetOutboxRows

LEMMA ShownKept ==
    ASSUME ConversationAssumption, RowType, ReadType, PageInv, Next
    PROVE  /\ shown' \in [Users -> [Users -> 0..MaxMessages]]
           /\ \A v, o \in Users : shown[v][o] <= shown'[v][o]
<1>1. CASE UNCHANGED shown
  BY <1>1 DEF ReadType, ConversationAssumption
<1>2. CASE \E u \in Users : \E ids \in SUBSET (DOMAIN messages) : Show(u, ids)
  BY <1>2, ShownGrows
<1>3. UNCHANGED shown \/ PageNext \/ InboxNext
  BY SendFrame, MarkFrame, DeleteFrame, ReportFrame, MemberFrame, PurgeFrame, ReadNextKinds DEF Next
<1> QED
  BY <1>1, <1>2, <1>3, PagesShowRows, InboxShowsRows

LEMMA MemberTypes ==
    ASSUME MemberType, Next
    PROVE  MemberType'
<1>1. UNCHANGED memberVars \/ MemberNext
  BY SendFrame, PageFrame, InboxFrame, MarkFrame, DeleteFrame, ReportFrame, PurgeFrame, ReadNextKinds DEF Next
<1>2. CASE UNCHANGED memberVars
  BY <1>2 DEF MemberType, memberVars
<1>3. CASE MemberNext
  <2>1. ASSUME NEW u \in Users, NEW o \in Users, NEW w \in BOOLEAN, PutBlock(u, o, w)
        PROVE  MemberType'
    BY <2>1 DEF PutBlock, BlockRow, UnblockRow, MemberType
  <2>2. ASSUME NEW u \in Users, NEW w \in BOOLEAN, SavePreferences(u, w)
        PROVE  MemberType'
    BY <2>2 DEF SavePreferences, SavePreferencesRow, MemberType
  <2>3. ASSUME NEW u \in Users, LoseApproval(u)
        PROVE  MemberType'
    BY <2>3 DEF LoseApproval, MemberType
  <2> QED
    BY <1>3, <2>1, <2>2, <2>3 DEF MemberNext
<1> QED
  BY <1>1, <1>2, <1>3

\* A report is of a row that is there, visible to its recipient.
LEMMA ReportSteps ==
    ASSUME RowType, ReportType, Next
    PROVE  \/ DOMAIN reports' = DOMAIN reports /\ ReportType'
           \/ /\ UNCHANGED <<sendVars, nextSeq>> /\ ReportType'
              /\ \E m \in DOMAIN messages : messages[m].visible /\ DOMAIN reports' = DOMAIN reports \cup {m}
<1>0. ASSUME UNCHANGED reports, nextSeq' >= nextSeq, nextSeq' \in Nat
      PROVE  DOMAIN reports' = DOMAIN reports /\ ReportType'
  BY <1>0 DEF ReportType, RowType
<1>n. nextSeq \in Nat
  BY DEF RowType
<1>1. CASE ReportNext
  <2>1. UNCHANGED <<nextSeq, sendVars>>
    BY <1>1, ReportFrame
  <2>2. ASSUME NEW m \in DOMAIN messages, NEW u \in Users, CreateReport(u, m, "spam")
        PROVE  /\ ReportType' /\ messages[m].visible /\ DOMAIN reports' = DOMAIN reports \cup {m}
    <3>1. /\ messages[m].visible
          /\ reports' = [n \in DOMAIN reports \cup {m} |-> IF n = m THEN "open" ELSE reports[n]]
      BY <2>2 DEF CreateReport, ReportRow, ReceivedBy
    <3> QED
      BY <2>1, <3>1 DEF ReportType, RowType
  <2>3. ASSUME NEW m \in DOMAIN reports, NEW status \in {"open", "removed", "dismissed"},
               ResolveReport(m, status, "checked")
        PROVE  DOMAIN reports' = DOMAIN reports /\ ReportType'
    <3>1. reports' = [reports EXCEPT ![m] = status]
      BY <2>3 DEF ResolveReport, ResolveRow
    <3> QED
      BY <2>1, <3>1 DEF ReportType
  <2> QED
    BY <1>1, <2>1, <2>2, <2>3 DEF ReportNext
<1>2. CASE ~ReportNext /\ ~SendNext
  <2>1. UNCHANGED <<reports, nextSeq>>
    BY <1>2, PageFrame, InboxFrame, MarkFrame, DeleteFrame, MemberFrame, PurgeFrame, ReadNextKinds DEF Next
  <2> QED
    BY <1>0, <1>n, <2>1
<1>3. CASE SendNext
  <2>1. UNCHANGED reports
    BY <1>3, SendFrame
  <2>2. nextSeq' = nextSeq \/ nextSeq' = nextSeq + 1
    BY <1>3 DEF SendNext, Send, SendMessage, AcceptMessage, NotifyMessageReceived, Abandon
  <2> QED
    BY <1>0, <1>n, <2>1, <2>2
<1> QED
  BY <1>1, <1>2, <1>3

----------------------------------------------------------------------------
(* Sending *)

\* A request that stores its message is the one that announces it, unless the
\* recipient blocks the sender.
LEMMA StoredOutcome ==
    ASSUME ConversationAssumption, RowType, SendType, NEW q \in Requests, AcceptMessage(q), Stores(q)
    PROVE  LET r == RequestOf[q]
           IN  /\ send[q] = "accept" /\ announced' = announced
               /\ suppressed' = IF <<r.to, r.from>> \in blocks THEN suppressed \cup {nextSeq} ELSE suppressed
               /\ \/ /\ VisibleRecipient(r)
                     /\ send' = [send EXCEPT ![q] = "notify"]
                     /\ accepted' = [accepted EXCEPT ![q] = nextSeq]
                  \/ /\ ~VisibleRecipient(r)
                     /\ send' = [send EXCEPT ![q] = "idle"] /\ accepted' = accepted
<1>1. (CHOOSE m \in {nextSeq} : TRUE) = nextSeq
  OBVIOUS
<1> QED
  BY <1>1 DEF AcceptMessage, Stores, WasCreated

\* A copy that finds the key taken, or its recipient no longer receiving, ends.
LEMMA FoundOutcome ==
    ASSUME RowType, SendType, NEW q \in Requests, AcceptMessage(q), ~Stores(q)
    PROVE  /\ announced' = announced /\ suppressed' = suppressed /\ accepted' = accepted
           /\ send' = [send EXCEPT ![q] = "idle"]
<1>1. ~(FindAcceptedMessage(RequestOf[q]) # {} /\ WasCreated(RequestOf[q]))
  BY DEF WasCreated
<1> QED
  BY <1>1 DEF AcceptMessage, Stores

LEMMA LongerInterval ==
    ASSUME NEW a \in Nat, NEW b \in Nat, a <= b
    PROVE  0..(a - 1) \subseteq 0..(b - 1) /\ 1..(a - 1) \subseteq 1..(b - 1)
OBVIOUS

LEMMA SendTypes ==
    ASSUME ConversationAssumption, RowType, SendType, RowsMove, Next
    PROVE  SendType'
<1>n. nextSeq \in Nat \ {0} /\ nextSeq' \in Nat /\ nextSeq <= nextSeq'
  BY DEF RowType, RowsMove
<1>m. 0..(nextSeq - 1) \subseteq 0..(nextSeq' - 1) /\ 1..(nextSeq - 1) \subseteq 1..(nextSeq' - 1)
  BY <1>n, LongerInterval
<1>1. CASE ~SendNext
  <2>1. UNCHANGED sendVars
    BY <1>1, PageFrame, InboxFrame, MarkFrame, DeleteFrame, ReportFrame, MemberFrame, PurgeFrame, ReadNextKinds DEF Next
  <2> QED
    BY <1>m, <2>1 DEF SendType, sendVars
<1>2. CASE SendNext
  <2> PICK q \in Requests : Send(q) \/ SendMessage(q) \/ AcceptMessage(q) \/ NotifyMessageReceived(q) \/ Abandon(q)
    BY <1>2 DEF SendNext
  <2>1. CASE Send(q) \/ SendMessage(q)
    BY <2>1, <1>n DEF Send, SendMessage, SendType
  <2>2. CASE AcceptMessage(q) /\ Stores(q)
    <3>1. nextSeq' = nextSeq + 1
      BY <2>2, AcceptedRow
    <3>2. /\ announced' = announced /\ suppressed' \in SUBSET (suppressed \cup {nextSeq})
          /\ \/ send' = [send EXCEPT ![q] = "notify"]
             \/ send' = [send EXCEPT ![q] = "idle"]
          /\ \/ accepted' = [accepted EXCEPT ![q] = nextSeq]
             \/ accepted' = accepted
      BY <2>2, StoredOutcome
    <3>3. nextSeq \in 0..(nextSeq' - 1) /\ nextSeq \in 1..(nextSeq' - 1)
      BY <1>n, <3>1
    <3>4. send' \in [Requests -> {"idle", "check", "accept", "notify"}]
      BY <3>2 DEF SendType
    <3>5. accepted' \in [Requests -> 0..(nextSeq' - 1)]
      <4> DEFINE old == 0..(nextSeq - 1)
                 new == 0..(nextSeq' - 1)
      <4>1. accepted \in [Requests -> old] /\ old \subseteq new /\ nextSeq \in new
        BY <1>m, <3>3 DEF SendType
      <4> HIDE DEF old, new
      <4>2. accepted' \in [Requests -> new]
        BY <3>2, <4>1
      <4> QED
        BY <4>2 DEF new
    <3>6. suppressed' \subseteq 1..(nextSeq' - 1)
      BY <1>m, <3>2, <3>3 DEF SendType
    <3> QED
      BY <3>2, <3>4, <3>5, <3>6 DEF SendType
  <2>3. CASE AcceptMessage(q) /\ ~Stores(q)
    <3>1. /\ announced' = announced /\ suppressed' = suppressed /\ accepted' = accepted
          /\ send' = [send EXCEPT ![q] = "idle"]
      BY <2>3, FoundOutcome
    <3>2. accepted' \in [Requests -> 0..(nextSeq' - 1)]
      <4>1. accepted' \in [Requests -> 0..(nextSeq - 1)]
        BY <3>1 DEF SendType
      <4> QED
        BY <1>m, <4>1
    <3>3. suppressed' \subseteq 1..(nextSeq' - 1)
      BY <1>m, <3>1 DEF SendType
    <3>4. send' \in [Requests -> {"idle", "check", "accept", "notify"}] /\ announced' \in [Keys -> Nat]
      BY <3>1 DEF SendType
    <3> QED
      BY <3>2, <3>3, <3>4 DEF SendType
  <2>4. CASE NotifyMessageReceived(q)
    <3> DEFINE k == <<RequestOf[q].from, RequestOf[q].client>>
    <3>1. /\ announced' = [announced EXCEPT ![k] = @ + 1] /\ send' = [send EXCEPT ![q] = "idle"]
          /\ accepted' = [accepted EXCEPT ![q] = 0] /\ suppressed' = suppressed
      BY <2>4 DEF NotifyMessageReceived
    <3>2. k \in Keys
      BY DEF Keys
    <3> HIDE DEF k
    <3>3. announced' \in [Keys -> Nat]
      BY <3>1, <3>2 DEF SendType
    <3>4. accepted' \in [Requests -> 0..(nextSeq' - 1)]
      <4>1. 0 \in 0..(nextSeq - 1)
        BY <1>n
      <4>2. accepted' \in [Requests -> 0..(nextSeq - 1)]
        BY <3>1, <4>1 DEF SendType
      <4> QED
        BY <1>m, <4>2
    <3>5. suppressed' \subseteq 1..(nextSeq' - 1) /\ send' \in [Requests -> {"idle", "check", "accept", "notify"}]
      BY <1>m, <3>1 DEF SendType
    <3> QED
      BY <3>3, <3>4, <3>5 DEF SendType
  <2>5. CASE Abandon(q)
    BY <1>n, <2>5 DEF Abandon, SendType
  <2> QED
    BY <2>1, <2>2, <2>3, <2>4, <2>5
<1> QED
  BY <1>1, <1>2

LEMMA NobodyWritesToThemselves ==
    ASSUME ConversationAssumption, RowType, SendType, NotToOneself, RowsMove, Next
    PROVE  NotToOneself'
<1>1. CASE ~SendNext
  <2>1. UNCHANGED <<sendVars, nextSeq>>
    BY <1>1, PageFrame, InboxFrame, MarkFrame, DeleteFrame, ReportFrame, MemberFrame, PurgeFrame, ReadNextKinds DEF Next
  <2>2. \A m \in DOMAIN messages' : m < nextSeq
    BY <2>1 DEF RowsMove, RowType
  <2> QED
    BY <2>1, <2>2 DEF NotToOneself, RowsMove, Same, sendVars
<1>2. CASE SendNext
  <2> PICK q \in Requests : Send(q) \/ SendMessage(q) \/ AcceptMessage(q) \/ NotifyMessageReceived(q) \/ Abandon(q)
    BY <1>2 DEF SendNext
  <2>1. \A p \in Requests : p # q => send'[p] = send[p]
    BY DEF Send, SendMessage, AcceptMessage, NotifyMessageReceived, Abandon, SendType
  <2>2. send'[q] \in {"accept", "notify"} => RequestOf[q].from # RequestOf[q].to
    <3>1. CASE Send(q) \/ NotifyMessageReceived(q) \/ Abandon(q)
      BY <3>1 DEF Send, NotifyMessageReceived, Abandon, SendType
    <3>2. CASE SendMessage(q)
      BY <3>2 DEF SendMessage, SendType, isRecipientAvailable
    <3>3. CASE AcceptMessage(q)
      BY <3>3 DEF AcceptMessage, SendType, NotToOneself
    <3> QED
      BY <3>1, <3>2, <3>3
  <2>3. \A m \in DOMAIN messages' : messages'[m].from # messages'[m].to
    <3>1. \A m \in DOMAIN messages' : m < nextSeq => messages'[m].from # messages'[m].to
      BY DEF RowsMove, Same, NotToOneself
    <3>2. CASE AcceptMessage(q) /\ Stores(q)
      <4>1. messages'[nextSeq].from # messages'[nextSeq].to
        BY <3>2, AcceptedRow, StoredOutcome DEF NotToOneself
      <4>2. DOMAIN messages' = DOMAIN messages \cup {nextSeq}
        BY <3>2, AcceptedRow
      <4>3. \A m \in DOMAIN messages : m < nextSeq
        BY DEF RowType
      <4> QED
        BY <3>1, <4>1, <4>2, <4>3
    <3>3. CASE ~(AcceptMessage(q) /\ Stores(q))
      <4>1. UNCHANGED <<messages, nextSeq>>
        BY <3>3, NotAccepted DEF Send, SendMessage, NotifyMessageReceived, Abandon
      <4> QED
        BY <4>1 DEF NotToOneself
    <3> QED
      BY <3>2, <3>3
  <2> QED
    BY <2>1, <2>2, <2>3 DEF NotToOneself
<1> QED
  BY <1>1, <1>2

\* A row keeps its sender, its client id and whether it is visible, so that a
\* visible holder of a key stays.
LEMMA HoldersStay ==
    ASSUME RowType, RowsMove, NEW k, RowHolds(k)
    PROVE  RowHolds(k)'
<1>1. PICK m \in DOMAIN messages :
         messages[m].from = k[1] /\ messages[m].client = k[2] /\ messages[m].visible
  BY DEF RowHolds
<1>2. m < nextSeq /\ m \in DOMAIN messages'
  BY <1>1 DEF RowType, RowsMove
<1>3. Same(m)
  BY <1>2 DEF RowsMove
<1>4. messages'[m].from = k[1] /\ messages'[m].client = k[2] /\ messages'[m].visible
  BY <1>1, <1>3 DEF Same
<1> QED
  BY <1>2, <1>4 DEF RowHolds

\* While a row holds the key of a request, no copy of it stores another one.
LEMMA HeldIsFound ==
    ASSUME NEW q \in Requests, RowHolds(KeyOf(q))
    PROVE  ~Stores(q)
BY DEF RowHolds, KeyOf, Stores, FindAcceptedMessage

\* A copy that stored its message is alone with its key: nobody announced it,
\* and no other copy is about to.
LEMMA AnnouncersStep ==
    ASSUME ConversationAssumption, RowType, SendType, AnnouncedIsStored, OneAnnouncer, RowsMove, Next
    PROVE  AnnouncedIsStored' /\ OneAnnouncer'
<1>h. \A k : RowHolds(k) => RowHolds(k)'
  BY HoldersStay
<1>k. \A q \in Requests : KeyOf(q) \in Keys /\ KeyOf(q) = <<RequestOf[q].from, RequestOf[q].client>>
  BY DEF KeyOf, Keys
<1>1. ASSUME announced' = announced,
             \A p \in Requests : send'[p] = "notify" => send[p] = "notify"
      PROVE  AnnouncedIsStored' /\ OneAnnouncer'
  BY <1>h, <1>1 DEF AnnouncedIsStored, OneAnnouncer, KeyOf
<1>2. CASE ~SendNext
  <2>1. UNCHANGED sendVars
    BY <1>2, PageFrame, InboxFrame, MarkFrame, DeleteFrame, ReportFrame, MemberFrame, PurgeFrame, ReadNextKinds DEF Next
  <2> QED
    BY <1>1, <2>1 DEF sendVars
<1>3. CASE SendNext
  <2> PICK q \in Requests : Send(q) \/ SendMessage(q) \/ AcceptMessage(q) \/ NotifyMessageReceived(q) \/ Abandon(q)
    BY <1>3 DEF SendNext
  <2>1. CASE Send(q) \/ SendMessage(q) \/ Abandon(q)
    BY <1>1, <2>1 DEF Send, SendMessage, Abandon, SendType
  <2>2. CASE AcceptMessage(q) /\ ~Stores(q)
    BY <1>1, <2>2, FoundOutcome DEF SendType
  <2>3. CASE AcceptMessage(q) /\ Stores(q)
    <3>1. /\ announced' = announced
          /\ \/ VisibleRecipient(RequestOf[q]) /\ send' = [send EXCEPT ![q] = "notify"]
             \/ send' = [send EXCEPT ![q] = "idle"]
      BY <2>3, StoredOutcome
    <3>2. CASE send' = [send EXCEPT ![q] = "idle"]
      BY <1>1, <3>1, <3>2 DEF SendType
    <3>3. CASE VisibleRecipient(RequestOf[q]) /\ send' = [send EXCEPT ![q] = "notify"]
      <4>1. ~RowHolds(KeyOf(q))
        BY <2>3, HeldIsFound
      <4>2. announced[KeyOf(q)] = 0
        BY <1>k, <4>1 DEF AnnouncedIsStored
      <4>3. \A p \in Requests : send[p] = "notify" => KeyOf(p) # KeyOf(q)
        BY <4>1 DEF AnnouncedIsStored
      <4>4. \A p \in Requests : send'[p] = "notify" <=> p = q \/ send[p] = "notify"
        BY <3>3 DEF SendType
      <4>5. RowHolds(KeyOf(q))'
        <5>1. /\ nextSeq \in DOMAIN messages' /\ messages'[nextSeq].from = RequestOf[q].from
              /\ messages'[nextSeq].client = RequestOf[q].client /\ messages'[nextSeq].visible
          BY <2>3, <3>3, AcceptedRow
        <5>2. KeyOf(q)[1] = RequestOf[q].from /\ KeyOf(q)[2] = RequestOf[q].client /\ KeyOf(q)' = KeyOf(q)
          BY DEF KeyOf
        <5> QED
          BY <5>1, <5>2 DEF RowHolds
      <4>6. AnnouncedIsStored'
        <5>1. \A p \in Requests : send'[p] = "notify" => announced'[KeyOf(p)] = 0 /\ RowHolds(KeyOf(p))'
          <6> TAKE p \in Requests
          <6> HAVE send'[p] = "notify"
          <6>1. CASE p = q
            BY <3>1, <4>2, <4>5, <6>1
          <6>2. CASE send[p] = "notify"
            BY <1>h, <3>1, <6>2 DEF AnnouncedIsStored
          <6> QED
            BY <4>4, <6>1, <6>2
        <5>2. \A k \in Keys : announced'[k] <= 1 /\ (announced'[k] # 0 => RowHolds(k)')
          BY <1>h, <3>1 DEF AnnouncedIsStored
        <5> QED
          BY <5>1, <5>2 DEF AnnouncedIsStored, KeyOf
      <4>7. OneAnnouncer'
        BY <4>3, <4>4 DEF OneAnnouncer, KeyOf
      <4> QED
        BY <4>6, <4>7
    <3> QED
      BY <3>1, <3>2, <3>3
  <2>4. CASE NotifyMessageReceived(q)
    <3>1. /\ send[q] = "notify" /\ send' = [send EXCEPT ![q] = "idle"]
          /\ announced' = [announced EXCEPT ![KeyOf(q)] = @ + 1]
      BY <1>k, <2>4 DEF NotifyMessageReceived
    <3>2. announced[KeyOf(q)] = 0 /\ RowHolds(KeyOf(q)) /\ KeyOf(q) \in Keys
      BY <1>k, <3>1 DEF AnnouncedIsStored
    <3>3. \A k \in Keys : announced'[k] = IF k = KeyOf(q) THEN 1 ELSE announced[k]
      BY <3>1, <3>2 DEF SendType
    <3>4. \A p \in Requests : send'[p] = "notify" <=> p # q /\ send[p] = "notify"
      BY <3>1 DEF SendType
    <3>5. \A p \in Requests : send'[p] = "notify" => KeyOf(p) # KeyOf(q)
      BY <3>1, <3>4 DEF OneAnnouncer
    <3>6. \A p \in Requests : send'[p] = "notify" => announced'[KeyOf(p)] = 0 /\ RowHolds(KeyOf(p))'
      BY <1>h, <1>k, <3>3, <3>4, <3>5 DEF AnnouncedIsStored
    <3>7. \A k \in Keys : announced'[k] <= 1 /\ (announced'[k] # 0 => RowHolds(k)')
      BY <1>h, <3>2, <3>3 DEF AnnouncedIsStored
    <3>8. AnnouncedIsStored'
      BY <3>6, <3>7 DEF AnnouncedIsStored, KeyOf
    <3>9. OneAnnouncer'
      BY <3>4 DEF OneAnnouncer, KeyOf
    <3> QED
      BY <3>8, <3>9
  <2> QED
    BY <2>1, <2>2, <2>3, <2>4
<1> QED
  BY <1>2, <1>3

----------------------------------------------------------------------------
(* Suppressed messages and read marks *)

\* A read mark is set on unread rows that their reader can see and has seen.
LEMMA MarkIsOfShown ==
    ASSUME RowType, MarkNext
    PROVE  \E rows \in SUBSET (DOMAIN messages) : \E o \in Users :
             /\ MarkRows(rows, o)
             /\ \A m \in rows : /\ messages[m].from = o /\ messages[m].visible /\ ~messages[m].read
                                /\ m <= shown[messages[m].to][messages[m].from]
<1>1. ASSUME NEW u \in Users, NEW o \in Users, MarkConversationRead(u, o)
      PROVE  \E rows \in SUBSET (DOMAIN messages) :
               /\ MarkRows(rows, o)
               /\ \A m \in rows : /\ messages[m].from = o /\ messages[m].visible /\ ~messages[m].read
                                  /\ m <= shown[messages[m].to][messages[m].from]
  <2> DEFINE rows == {m \in DOMAIN messages : ReadThrough(m, u, o, shown[u][o])}
  <2>1. MarkRows(rows, o)
    BY <1>1 DEF MarkConversationRead
  <2>2. \A m \in rows : /\ messages[m].from = o /\ messages[m].visible /\ ~messages[m].read
                        /\ m <= shown[messages[m].to][messages[m].from]
    BY DEF ReadThrough, ReceivedBy
  <2>3. rows \in SUBSET (DOMAIN messages)
    OBVIOUS
  <2> HIDE DEF rows
  <2> QED
    BY <2>1, <2>2, <2>3
<1>2. ASSUME NEW d \in DOMAIN messages, NEW u \in Users, MarkAsRead(u, d)
      PROVE  \E rows \in SUBSET (DOMAIN messages) : \E o \in Users :
               /\ MarkRows(rows, o)
               /\ \A m \in rows : /\ messages[m].from = o /\ messages[m].visible /\ ~messages[m].read
                                  /\ m <= shown[messages[m].to][messages[m].from]
  <2> DEFINE rows == {n \in {d} : MarkAsReadRow(n, u)}
             o == messages[d].from
  <2>1. MarkRows(rows, o)
    BY <1>2 DEF MarkAsRead
  <2>2. \A m \in rows : /\ messages[m].from = o /\ messages[m].visible /\ ~messages[m].read
                        /\ m <= shown[messages[m].to][messages[m].from]
    BY <1>2 DEF MarkAsRead, MarkAsReadRow
  <2>3. rows \in SUBSET (DOMAIN messages) /\ o \in Users
    BY DEF RowType, Row
  <2> HIDE DEF rows, o
  <2> QED
    BY <2>1, <2>2, <2>3
<1> QED
  BY <1>1, <1>2 DEF MarkNext

\* What becomes suppressed is a row just stored against a block: it is hidden,
\* nobody has reported it and nobody is about to announce it.
LEMMA SuppressionStep ==
    ASSUME ConversationAssumption, RowType, SendType, Next
    PROVE  \/ /\ suppressed' = suppressed
              /\ \A q \in Requests : accepted'[q] \in {accepted[q], 0, nextSeq}
           \/ /\ suppressed' = suppressed \cup {nextSeq} /\ accepted' = accepted /\ SendNext
              /\ nextSeq \in DOMAIN messages' /\ ~messages'[nextSeq].visible
<1>1. CASE ~SendNext
  <2>1. UNCHANGED sendVars
    BY <1>1, PageFrame, InboxFrame, MarkFrame, DeleteFrame, ReportFrame, MemberFrame, PurgeFrame, ReadNextKinds DEF Next
  <2> QED
    BY <2>1 DEF sendVars
<1>2. CASE SendNext
  <2> PICK q \in Requests : Send(q) \/ SendMessage(q) \/ AcceptMessage(q) \/ NotifyMessageReceived(q) \/ Abandon(q)
    BY <1>2 DEF SendNext
  <2>1. CASE Send(q) \/ SendMessage(q) \/ NotifyMessageReceived(q) \/ Abandon(q)
    BY <2>1 DEF Send, SendMessage, NotifyMessageReceived, Abandon, SendType
  <2>2. CASE AcceptMessage(q) /\ ~Stores(q)
    BY <2>2, FoundOutcome
  <2>3. CASE AcceptMessage(q) /\ Stores(q)
    <3> DEFINE r == RequestOf[q]
    <3>1. nextSeq \in DOMAIN messages' /\ messages'[nextSeq].visible = VisibleRecipient(r)
      BY <2>3, AcceptedRow
    <3>2. /\ suppressed' = IF <<r.to, r.from>> \in blocks THEN suppressed \cup {nextSeq} ELSE suppressed
          /\ \/ VisibleRecipient(r) /\ accepted' = [accepted EXCEPT ![q] = nextSeq]
             \/ ~VisibleRecipient(r) /\ accepted' = accepted
      BY <2>3, StoredOutcome
    <3> QED
      BY <1>2, <3>1, <3>2 DEF VisibleRecipient, SendType
  <2> QED
    BY <2>1, <2>2, <2>3
<1> QED
  BY <1>1, <1>2

LEMMA HiddenStep ==
    ASSUME ConversationAssumption, RowType, SendType, HiddenStaysUnread, RowsMove, Next
    PROVE  HiddenStaysUnread'
<1>1. ASSUME NEW m \in DOMAIN messages', messages'[m].read
      PROVE  messages'[m].visible
  <2>0. m \in Int /\ nextSeq \in Int
    BY DEF RowsMove, RowType
  <2>1. CASE ReadsKept
    <3>1. m < nextSeq
      BY <1>1, <2>0, <2>1 DEF ReadsKept
    <3> QED
      BY <1>1, <2>1, <3>1 DEF ReadsKept, RowsMove, Same, HiddenStaysUnread
  <2>2. CASE MarkNext
    <3>1. PICK rows \in SUBSET (DOMAIN messages), o \in Users :
             MarkRows(rows, o) /\ \A n \in rows : messages[n].visible
      BY <2>2, MarkIsOfShown
    <3>2. m \in DOMAIN messages /\ m < nextSeq /\ (messages[m].read \/ m \in rows)
      <4>1. /\ DOMAIN messages' = DOMAIN messages
            /\ \A n \in DOMAIN messages : messages'[n].read = (messages[n].read \/ n \in rows)
        BY <3>1, MarkedRows
      <4>2. \A n \in DOMAIN messages : n < nextSeq
        BY DEF RowType
      <4> QED
        BY <1>1, <4>1, <4>2
    <3> QED
      BY <3>1, <3>2 DEF RowsMove, Same, HiddenStaysUnread
  <2> QED
    BY <2>1, <2>2, StepRows
<1>2. ASSUME NEW m \in DOMAIN messages', m \in suppressed'
      PROVE  ~messages'[m].visible
  <2>1. CASE m \in suppressed
    <3>1. m < nextSeq
      BY <2>1 DEF SendType, RowType
    <3> QED
      BY <2>1, <3>1 DEF RowsMove, Same, HiddenStaysUnread
  <2>2. CASE m \notin suppressed
    BY <1>2, <2>2, SuppressionStep
  <2> QED
    BY <2>1, <2>2
<1> QED
  BY <1>1, <1>2 DEF HiddenStaysUnread

LEMMA QuietStep ==
    ASSUME ConversationAssumption, RowType, ReportType, SendType, HiddenStaysUnread, SuppressedIsQuiet, Next
    PROVE  SuppressedIsQuiet'
<1>0. /\ nextSeq \in Int
      /\ \A m \in suppressed : m # 0 /\ m # nextSeq
      /\ nextSeq \notin DOMAIN reports /\ \A q \in Requests : accepted[q] # nextSeq
  BY DEF RowType, ReportType, SendType
<1>1. ASSUME NEW m \in suppressed'
      PROVE  m \notin DOMAIN reports'
  <2>1. m \notin DOMAIN reports
    BY <1>0, <1>1, SuppressionStep DEF SuppressedIsQuiet
  <2>2. CASE DOMAIN reports' = DOMAIN reports
    BY <2>1, <2>2
  <2>3. ASSUME UNCHANGED sendVars, NEW n \in DOMAIN messages, messages[n].visible,
               DOMAIN reports' = DOMAIN reports \cup {n}
        PROVE  m \notin DOMAIN reports'
    BY <1>1, <2>1, <2>3 DEF sendVars, HiddenStaysUnread
  <2> QED
    BY <2>2, <2>3, ReportSteps
<1>2. ASSUME NEW m \in suppressed', NEW q \in Requests
      PROVE  accepted'[q] # m
  BY <1>0, <1>2, SuppressionStep DEF SuppressedIsQuiet
<1> QED
  BY <1>1, <1>2 DEF SuppressedIsQuiet

LEMMA ReadTypes ==
    ASSUME ConversationAssumption, RowType, ReadType, PageInv, Next
    PROVE  ReadType'
<1>1. readEvents' \in [Users -> Nat]
  <2>1. CASE MarkNext
    <3>1. PICK rows \in SUBSET (DOMAIN messages), o \in Users : MarkRows(rows, o)
      BY <2>1, MarkIsOfShown
    <3> QED
      BY <3>1 DEF MarkRows, NotifyMessagesRead, ReadType
  <2>2. CASE ~MarkNext
    <3>1. UNCHANGED readEvents
      BY <2>2, SendFrame, PageFrame, InboxFrame, DeleteFrame, ReportFrame, MemberFrame, PurgeFrame, ReadNextKinds DEF Next
    <3> QED
      BY <3>1 DEF ReadType
  <2> QED
    BY <2>1, <2>2
<1> QED
  BY <1>1, ShownKept DEF ReadType

\* What is on the screen covers every read mark, and the screen only moves on.
LEMMA NothingNewerStep ==
    ASSUME ConversationAssumption, RowType, ReadType, PageInv, NothingNewerIsRead, RowsMove, Next
    PROVE  NothingNewerIsRead'
<1> SUFFICES ASSUME NEW m \in DOMAIN messages', messages'[m].read
             PROVE  m <= shown'[messages'[m].to][messages'[m].from]
  BY DEF NothingNewerIsRead
<1>0. m \in Int /\ nextSeq \in Int
  BY DEF RowsMove, RowType
<1>1. m < nextSeq /\ m \in DOMAIN messages /\ m <= shown[messages[m].to][messages[m].from]
  <2>1. CASE ReadsKept
    <3>1. m < nextSeq
      BY <1>0, <2>1 DEF ReadsKept
    <3> QED
      BY <2>1, <3>1 DEF ReadsKept, RowsMove, NothingNewerIsRead
  <2>2. CASE MarkNext
    <3>1. PICK rows \in SUBSET (DOMAIN messages), o \in Users :
             MarkRows(rows, o) /\ \A n \in rows : n <= shown[messages[n].to][messages[n].from]
      BY <2>2, MarkIsOfShown
    <3>2. m \in DOMAIN messages /\ m < nextSeq /\ (messages[m].read \/ m \in rows)
      <4>1. /\ DOMAIN messages' = DOMAIN messages
            /\ \A n \in DOMAIN messages : messages'[n].read = (messages[n].read \/ n \in rows)
        BY <3>1, MarkedRows
      <4>2. \A n \in DOMAIN messages : n < nextSeq
        BY DEF RowType
      <4> QED
        BY <4>1, <4>2
    <3> QED
      BY <3>1, <3>2 DEF NothingNewerIsRead
  <2> QED
    BY <2>1, <2>2, StepRows
<1>2. messages'[m].to = messages[m].to /\ messages'[m].from = messages[m].from
  BY <1>1 DEF RowsMove, Same
<1>3. messages[m].to \in Users /\ messages[m].from \in Users
  BY <1>1 DEF RowType, Row
<1> DEFINE u == messages[m].to
           o == messages[m].from
<1>4. /\ shown[u][o] \in Int /\ shown'[u][o] \in Int /\ shown[u][o] <= shown'[u][o]
  BY <1>3, ShownKept DEF ReadType, ConversationAssumption
<1> QED
  BY <1>0, <1>1, <1>2, <1>4

ReadFrom(u) == {m \in DOMAIN messages : messages[m].from = u /\ messages[m].read}

\* A read row stays, so that the reads of a sender only grow, and grow when an
\* event is published.
LEMMA ReadEventsStep ==
    ASSUME ConversationAssumption, RowType, ReadType, HiddenStaysUnread, ReadEventsBacked, RowsMove, Next
    PROVE  ReadEventsBacked'
<1> SUFFICES ASSUME NEW u \in Users
             PROVE  readEvents'[u] <= Cardinality(ReadFrom(u)')
  BY DEF ReadEventsBacked, ReadFrom
<1>1. \A m \in DOMAIN messages : messages[m].read => m < nextSeq /\ m \in DOMAIN messages' /\ Same(m)
  BY DEF RowsMove, RowType, HiddenStaysUnread
<1>2. /\ IsFiniteSet(ReadFrom(u)) /\ Cardinality(ReadFrom(u)) \in Nat
      /\ IsFiniteSet(ReadFrom(u)') /\ Cardinality(ReadFrom(u)') \in Nat
  <2>1. IsFiniteSet(DOMAIN messages)
    BY RowsAreFinite
  <2>2. IsFiniteSet(DOMAIN messages')
    <3>1. 1 \in Int /\ nextSeq' - 1 \in Int /\ DOMAIN messages' \subseteq 1..(nextSeq' - 1)
      BY DEF RowsMove, RowType
    <3> QED
      BY <3>1, FS_Interval, FS_Subset
  <2>3. ReadFrom(u) \subseteq DOMAIN messages /\ ReadFrom(u)' \subseteq DOMAIN messages'
    BY DEF ReadFrom
  <2> QED
    BY <2>1, <2>2, <2>3, FS_Subset, FS_CardinalityType
<1>3. readEvents[u] \in Nat /\ readEvents[u] <= Cardinality(ReadFrom(u))
  BY DEF ReadType, ReadEventsBacked, ReadFrom
<1>4. CASE ~MarkNext
  <2>1. readEvents' = readEvents
    BY <1>4, SendFrame, PageFrame, InboxFrame, DeleteFrame, ReportFrame, MemberFrame, PurgeFrame, ReadNextKinds DEF Next
  <2>2. ReadsKept
    BY <1>4, StepRows
  <2>3. ReadFrom(u) \subseteq ReadFrom(u)'
    BY <1>1, <2>2 DEF ReadsKept, ReadFrom, Same
  <2>4. Cardinality(ReadFrom(u)) <= Cardinality(ReadFrom(u)')
    BY <1>2, <2>3, FS_Subset
  <2> QED
    BY <1>2, <1>3, <2>1, <2>4
<1>5. CASE MarkNext
  <2>1. PICK rows \in SUBSET (DOMAIN messages), o \in Users :
           MarkRows(rows, o) /\ \A m \in rows : messages[m].from = o /\ ~messages[m].read
    BY <1>5, MarkIsOfShown
  <2>2. /\ DOMAIN messages' = DOMAIN messages
        /\ \A m \in DOMAIN messages : messages'[m].read = (messages[m].read \/ m \in rows)
    BY <2>1, MarkedRows
  <2>3. readEvents' = IF rows # {} THEN [readEvents EXCEPT ![o] = @ + 1] ELSE readEvents
    BY <2>1 DEF MarkRows, NotifyMessagesRead
  <2>4. ReadFrom(u) \subseteq ReadFrom(u)'
    BY <1>1, <2>2 DEF ReadFrom, Same
  <2>5. Cardinality(ReadFrom(u)) <= Cardinality(ReadFrom(u)')
    BY <1>2, <2>4, FS_Subset
  <2>6. CASE rows = {} \/ u # o
    <3>1. readEvents'[u] = readEvents[u]
      BY <2>3, <2>6 DEF ReadType
    <3> QED
      BY <1>2, <1>3, <2>5, <3>1
  <2>7. CASE rows # {} /\ u = o
    <3>1. PICK m \in rows : TRUE
      BY <2>7
    <3>2. m < nextSeq /\ m \in DOMAIN messages' /\ messages[m].from = u /\ ~messages[m].read
      BY <2>1, <2>2, <2>7 DEF RowType
    <3>3. m \in ReadFrom(u)' /\ m \notin ReadFrom(u)
      BY <2>2, <3>2 DEF ReadFrom, RowsMove, Same
    <3>4. Cardinality(ReadFrom(u)) # Cardinality(ReadFrom(u)')
      BY <1>2, <2>4, <3>3, FS_Subset
    <3>5. readEvents'[u] = readEvents[u] + 1
      BY <2>3, <2>7 DEF ReadType
    <3> QED
      BY <1>2, <1>3, <2>5, <3>4, <3>5
  <2> QED
    BY <2>6, <2>7
<1> QED
  BY <1>4, <1>5

----------------------------------------------------------------------------
(* Between two pages *)

\* A cursor is the place of its row: newer rows are not before it, older ones are.
LEMMA CursorCuts ==
    ASSUME RowType, ConversationAssumption, NEW o, NEW last \in DOMAIN messages
    PROVE  /\ Cursor(o, last) \in Int \X Nat
           /\ ~BeforeCursor(o, last, Cursor(o, last))
           /\ \A m \in DOMAIN messages : Newer(m, last) => ~BeforeCursor(o, m, Cursor(o, last))
           /\ \A m \in DOMAIN messages : Newer(last, m) => BeforeCursor(o, m, Cursor(o, last))
           /\ \A m \in DOMAIN messages, c \in Cursors :
                BeforeCursor(o, last, c) /\ ~BeforeCursor(o, m, c) => ~BeforeCursor(o, m, Cursor(o, last))
<1> DEFINE read(m) == CreatedAt(o, m)
<1>1. \A m \in DOMAIN messages : /\ m \in Nat /\ messages[m].at \in Nat /\ read(m) \in Int
                                 /\ read(m) = messages[m].at - (IF o = AllPeers THEN ZoneShift ELSE 0)
  BY DEF RowType, Row, CreatedAt, ConversationAssumption
<1>6. \A m, n \in DOMAIN messages : Newer(m, n) <=> read(m) > read(n) \/ (read(m) = read(n) /\ m > n)
  <2> TAKE m, n \in DOMAIN messages
  <2>1. PICK z \in Nat : z = IF o = AllPeers THEN ZoneShift ELSE 0
    BY DEF ConversationAssumption
  <2>2. read(m) = messages[m].at - z /\ read(n) = messages[n].at - z
    BY <1>1, <2>1
  <2> HIDE DEF read
  <2> QED
    BY <1>1, <2>1, <2>2 DEF Newer
<1>2. Cursor(o, last) \in Int \X Nat
  BY <1>1 DEF Cursor
<1>3. Cursor(o, last)[1] = read(last) /\ Cursor(o, last)[2] = last /\ Cursor(o, last) # <<>>
  BY <1>2, PairCursor DEF Cursor
<1>7. \A m, c : BeforeCursor(o, m, c) <=> c = <<>> \/ read(m) < c[1] \/ (read(m) = c[1] /\ m < c[2])
  BY DEF BeforeCursor
<1> HIDE DEF read
<1>4. /\ ~BeforeCursor(o, last, Cursor(o, last))
      /\ \A m \in DOMAIN messages : Newer(m, last) => ~BeforeCursor(o, m, Cursor(o, last))
      /\ \A m \in DOMAIN messages : Newer(last, m) => BeforeCursor(o, m, Cursor(o, last))
  <2> DEFINE c == Cursor(o, last)
  <2> HIDE DEF c
  <2>1. c[1] = read(last) /\ c[2] = last /\ c # <<>>
    BY <1>3 DEF c
  <2>2. /\ ~BeforeCursor(o, last, c)
        /\ \A m \in DOMAIN messages : Newer(m, last) => ~BeforeCursor(o, m, c)
        /\ \A m \in DOMAIN messages : Newer(last, m) => BeforeCursor(o, m, c)
    BY <1>1, <1>6, <1>7, <2>1
  <2> QED
    BY <2>2 DEF c
<1>5. ASSUME NEW m \in DOMAIN messages, NEW c \in Cursors, BeforeCursor(o, last, c), ~BeforeCursor(o, m, c)
      PROVE  ~BeforeCursor(o, m, Cursor(o, last))
  <2>1. c # <<>> /\ c[1] \in Int /\ c[2] \in Nat
    <3>1. c # <<>>
      BY <1>5, <1>7
    <3> QED
      BY <3>1, PairCursor DEF Cursors
  <2> DEFINE d == Cursor(o, last)
  <2>2. d[1] = read(last) /\ d[2] = last /\ d # <<>>
    BY <1>3
  <2> HIDE DEF d
  <2>3. ~BeforeCursor(o, m, d)
    BY <1>1, <1>5, <1>7, <2>1, <2>2
  <2> QED
    BY <2>3 DEF d
<1> QED
  BY <1>2, <1>4, <1>5

\* Two sequences without repetition and without a common element, one after
\* the other.
LEMMA JoinedDistinct ==
    ASSUME NEW S, NEW s \in Seq(S), NEW t \in Seq(S),
           \A i, j \in 1..Len(s) : s[i] = s[j] => i = j,
           \A i, j \in 1..Len(t) : t[i] = t[j] => i = j,
           ToSet(s) \cap ToSet(t) = {}
    PROVE  /\ s \o t \in Seq(S) /\ ToSet(s \o t) = ToSet(s) \cup ToSet(t)
           /\ \A i, j \in 1..Len(s \o t) : (s \o t)[i] = (s \o t)[j] => i = j
<1>1. /\ s \o t \in Seq(S) /\ Len(s \o t) = Len(s) + Len(t)
      /\ Len(s) \in Nat /\ Len(t) \in Nat
      /\ \A i \in 1..Len(s) : (s \o t)[i] = s[i]
      /\ \A i \in 1..Len(t) : (s \o t)[Len(s) + i] = t[i]
  OBVIOUS
<1> DEFINE w == s \o t
<1> HIDE DEF w
<1>2. ASSUME NEW i \in 1..Len(w)
      PROVE  \/ i \in 1..Len(s) /\ w[i] = s[i] /\ w[i] \in ToSet(s)
             \/ \E k \in 1..Len(t) : i = Len(s) + k /\ w[i] = t[k] /\ w[i] \in ToSet(t)
  <2>1. CASE i <= Len(s)
    <3>1. i \in 1..Len(s) /\ i \in DOMAIN s
      BY <1>1, <2>1 DEF w
    <3> QED
      BY <1>1, <3>1 DEF w, ToSet
  <2>2. CASE Len(s) < i
    <3>1. i - Len(s) \in 1..Len(t) /\ i - Len(s) \in DOMAIN t /\ i = Len(s) + (i - Len(s))
      BY <1>1, <2>2 DEF w
    <3>2. w[i] = t[i - Len(s)]
      BY <1>1, <3>1 DEF w
    <3> QED
      BY <3>1, <3>2 DEF ToSet
  <2> QED
    BY <1>1, <2>1, <2>2 DEF w
<1>3. \A i, j \in 1..Len(w) : w[i] = w[j] => i = j
  BY <1>2
<1>4. ToSet(w) = ToSet(s) \cup ToSet(t)
  <2>1. ToSet(w) \subseteq ToSet(s) \cup ToSet(t)
    <3> SUFFICES ASSUME NEW x \in ToSet(w) PROVE x \in ToSet(s) \cup ToSet(t)
      OBVIOUS
    <3>1. w \in Seq(S)
      BY <1>1 DEF w
    <3>2. PICK i \in 1..Len(w) : w[i] = x
      BY <3>1 DEF ToSet
    <3> QED
      BY <1>2, <3>2
  <2>2. ASSUME NEW x \in ToSet(s) PROVE x \in ToSet(w)
    <3>1. PICK i \in 1..Len(s) : s[i] = x
      BY DEF ToSet
    <3>2. i \in DOMAIN w /\ w[i] = x
      BY <1>1, <3>1 DEF w
    <3> QED
      BY <3>2 DEF ToSet
  <2>3. ASSUME NEW x \in ToSet(t) PROVE x \in ToSet(w)
    <3>1. PICK i \in 1..Len(t) : t[i] = x
      BY DEF ToSet
    <3>2. Len(s) + i \in DOMAIN w /\ w[Len(s) + i] = x
      BY <1>1, <3>1 DEF w
    <3> QED
      BY <3>2 DEF ToSet
  <2> QED
    BY <2>1, <2>2, <2>3
<1> QED
  BY <1>1, <1>3, <1>4 DEF w

\* What a reader has got and is owed does not depend on what else moves.
LEMMA PageStays ==
    ASSUME RowType, RowsMove, PageInv, UNCHANGED reading
    PROVE  PageInv'
<1> SUFFICES ASSUME reading # NoReading
             PROVE  PageInv'
  BY DEF PageInv
<1>0. nextSeq \in Nat /\ nextSeq' \in Nat /\ nextSeq <= nextSeq'
  BY DEF RowType, RowsMove
<1>1. 1..(nextSeq - 1) \subseteq 1..(nextSeq' - 1)
  BY <1>0, LongerInterval
<1>2. reading \in PageType
  BY DEF PageInv
<1>d. reading.got \in Seq(1..(nextSeq - 1)) /\ reading.wanted \in SUBSET (1..(nextSeq - 1))
  BY <1>2 DEF PageType
<1>3. reading \in PageType'
  <2>1. reading.got \in Seq(1..(nextSeq' - 1)) /\ reading.wanted \in SUBSET (1..(nextSeq' - 1))
    BY <1>1, <1>d, WiderSeq
  <2> QED
    BY <1>2, <2>1 DEF PageType
<1>4. \A m \in ToSet(reading.got) \cup reading.wanted : m \in DOMAIN messages' =>
        m \in DOMAIN messages /\ messages'[m].at = messages[m].at
  <2>1. \A m \in ToSet(reading.got) \cup reading.wanted : m \in 1..(nextSeq - 1)
    <3>1. ToSet(reading.got) \subseteq 1..(nextSeq - 1)
      BY <1>d, ElementsOf
    <3> QED
      BY <1>d, <3>1
  <2>2. \A m \in 1..(nextSeq - 1) : m < nextSeq
    BY <1>0
  <2> QED
    BY <2>1, <2>2 DEF RowsMove, Same
<1>5. /\ \A m \in ToSet(reading.got) \cup reading.wanted : m \in DOMAIN messages' =>
           (BeforeCursor(reading.peer, m, reading.cursor)' <=> BeforeCursor(reading.peer, m, reading.cursor))
      /\ \A m, n \in ToSet(reading.got) \cup reading.wanted :
           m \in DOMAIN messages' /\ n \in DOMAIN messages' => (Newer(m, n)' <=> Newer(m, n))
  BY <1>4 DEF BeforeCursor, CreatedAt, Newer
<1>6. /\ \A i, j \in 1..Len(reading.got) : reading.got[i] = reading.got[j] => i = j
      /\ reading.peer = AllPeers /\ ~reading.more => reading.wanted \subseteq ToSet(reading.got)
      /\ reading.more => reading.cursor \in Int \X Nat
  BY DEF PageInv
<1>7. ASSUME reading.more, NEW g \in ToSet(reading.got) \cap DOMAIN messages'
      PROVE  ~BeforeCursor(reading.peer, g, reading.cursor)'
  BY <1>4, <1>5, <1>7 DEF PageInv
<1>8. ASSUME reading.more, NEW w \in reading.wanted \cap DOMAIN messages'
      PROVE  w \in ToSet(reading.got) \/ BeforeCursor(reading.peer, w, reading.cursor)'
  BY <1>4, <1>5, <1>8 DEF PageInv
<1>9. ASSUME NEW g \in ToSet(reading.got) \cap DOMAIN messages', NEW w \in reading.wanted \cap DOMAIN messages'
      PROVE  w \in ToSet(reading.got) \/ Newer(g, w)'
  <2>1. g \in DOMAIN messages /\ w \in DOMAIN messages
    BY <1>4
  <2>2. w \in ToSet(reading.got) \/ Newer(g, w)
    BY <2>1 DEF PageInv
  <2> QED
    BY <1>5, <2>2
<1> QED
  BY <1>3, <1>6, <1>7, <1>8, <1>9 DEF PageInv

\* Where a page leaves its reader: the next cursor cuts between what was
\* returned, now or before, and what is still to come.
LEMMA PageCuts ==
    ASSUME RowType, ConversationAssumption, NEW rows \in SUBSET (DOMAIN messages), NEW cursor \in Cursors,
           NEW o, NEW page, page = PageOf(o, rows, cursor)
    PROVE  /\ page.next \in Cursors /\ page.more \in BOOLEAN
           /\ page.items \in Seq(RowsBefore(o, rows, cursor))
           /\ \A i, j \in 1..Len(page.items) : page.items[i] = page.items[j] => i = j
           /\ \A m \in RowsBefore(o, rows, cursor) :
                m \in ToSet(page.items) \/ \A n \in ToSet(page.items) : Newer(n, m)
           /\ page.more =>
                /\ page.next \in Int \X Nat
                /\ \A m \in ToSet(page.items) : ~BeforeCursor(o, m, page.next)
                /\ \A m \in RowsBefore(o, rows, cursor) : m \in ToSet(page.items) \/ BeforeCursor(o, m, page.next)
                /\ \A m \in DOMAIN messages : ~BeforeCursor(o, m, cursor) => ~BeforeCursor(o, m, page.next)
           /\ (o = AllPeers \/ cursor = <<>>) /\ ~page.more => \A m \in RowsBefore(o, rows, cursor) : m \in ToSet(page.items)
<1> DEFINE before == RowsBefore(o, rows, cursor)
           whole == o = AllPeers \/ cursor = <<>>
<1>1. IsPageOf(o, page, before, whole)
  BY PageRows
<1>2. before \in SUBSET (DOMAIN messages) /\ \A m \in before : BeforeCursor(o, m, cursor)
  BY DEF RowsBefore
<1> HIDE DEF before, whole
<1>3. /\ page.more \in BOOLEAN /\ page.items \in Seq(before) /\ ToSet(page.items) \subseteq before
      /\ \A i, j \in 1..Len(page.items) : page.items[i] = page.items[j] => i = j
      /\ \A m \in before : m \in ToSet(page.items) \/ \A n \in ToSet(page.items) : Newer(n, m)
  BY <1>1, ElementsOf DEF IsPageOf
<1>4. ASSUME page.more
      PROVE  /\ page.next \in Cursors /\ page.next \in Int \X Nat
             /\ \A m \in ToSet(page.items) : ~BeforeCursor(o, m, page.next)
             /\ \A m \in before : m \in ToSet(page.items) \/ BeforeCursor(o, m, page.next)
             /\ \A m \in DOMAIN messages : ~BeforeCursor(o, m, cursor) => ~BeforeCursor(o, m, page.next)
  <2>1. PICK last \in before : /\ page.next = Cursor(o, last)
                               /\ \A m \in ToSet(page.items) : m = last \/ Newer(m, last)
                               /\ \A m \in before : m \in ToSet(page.items) \/ Newer(last, m)
    BY <1>1, <1>4 DEF IsPageOf
  <2>2. last \in DOMAIN messages /\ BeforeCursor(o, last, cursor)
    BY <1>2
  <2>3. /\ page.next \in Int \X Nat
        /\ ~BeforeCursor(o, last, page.next)
        /\ \A m \in DOMAIN messages : Newer(m, last) => ~BeforeCursor(o, m, page.next)
        /\ \A m \in DOMAIN messages : Newer(last, m) => BeforeCursor(o, m, page.next)
        /\ \A m \in DOMAIN messages : ~BeforeCursor(o, m, cursor) => ~BeforeCursor(o, m, page.next)
    BY <2>1, <2>2, CursorCuts
  <2>4. page.next \in Cursors
    BY <2>3 DEF Cursors
  <2>5. \A m \in ToSet(page.items) : ~BeforeCursor(o, m, page.next)
    BY <1>2, <1>3, <2>1, <2>3
  <2>6. \A m \in before : m \in ToSet(page.items) \/ BeforeCursor(o, m, page.next)
    BY <1>2, <2>1, <2>3
  <2> QED
    BY <2>3, <2>4, <2>5, <2>6
<1>5. ASSUME ~page.more
      PROVE  page.next \in Cursors /\ (whole => \A m \in before : m \in ToSet(page.items))
  BY <1>1, <1>5 DEF IsPageOf, Cursors
<1> QED
  BY <1>3, <1>4, <1>5 DEF before, whole

\* The first page starts from everything that is listed.
LEMMA FirstPageKeeps ==
    ASSUME RowType, ConversationAssumption, NEW u \in Users, NEW o \in Users \cup {AllPeers}, FirstPage(u, o)
    PROVE  PageInv'
<1> DEFINE rows == Listed(u, o)
           page == PageOf(o, rows, <<>>)
<1>1. rows \in SUBSET (DOMAIN messages)
  BY ListedRows
<1>2. /\ reading' = [user |-> u, peer |-> o, cursor |-> page.next, got |-> page.items,
                     more |-> page.more, wanted |-> rows]
      /\ UNCHANGED <<messages, nextSeq>>
  BY DEF FirstPage
<1> HIDE DEF rows, page
<1>3. /\ page.next \in Cursors /\ page.more \in BOOLEAN
      /\ page.items \in Seq(RowsBefore(o, rows, <<>>))
      /\ \A i, j \in 1..Len(page.items) : page.items[i] = page.items[j] => i = j
      /\ \A m \in RowsBefore(o, rows, <<>>) : m \in ToSet(page.items) \/ \A k \in ToSet(page.items) : Newer(k, m)
      /\ page.more =>
           /\ page.next \in Int \X Nat
           /\ \A m \in ToSet(page.items) : ~BeforeCursor(o, m, page.next)
           /\ \A m \in RowsBefore(o, rows, <<>>) : m \in ToSet(page.items) \/ BeforeCursor(o, m, page.next)
      /\ ~page.more => \A m \in RowsBefore(o, rows, <<>>) : m \in ToSet(page.items)
  <2> DEFINE start == <<>>
             first == PageOf(o, rows, start)
  <2>1. start \in Cursors
    BY DEF Cursors
  <2>2. start = <<>> /\ page = first
    BY DEF page
  <2>3. first.next \in Cursors /\ first.more \in BOOLEAN /\ first.items \in Seq(RowsBefore(o, rows, start))
    <3> HIDE DEF start
    <3> QED
      BY <1>1, <2>1, PageCuts
  <2>4. \A i, j \in 1..Len(first.items) : first.items[i] = first.items[j] => i = j
    <3> DEFINE before == RowsBefore(o, rows, start)
               whole == o = AllPeers \/ start = <<>>
    <3> HIDE DEF start
    <3>1. IsPageOf(o, first, before, whole)
      BY <1>1, <2>1, PageRows
    <3> HIDE DEF first, before, whole
    <3> QED
      BY <3>1 DEF IsPageOf
  <2>5. \A m \in RowsBefore(o, rows, start) :
          m \in ToSet(first.items) \/ \A k \in ToSet(first.items) : Newer(k, m)
    <3> HIDE DEF start
    <3> QED
      BY <1>1, <2>1, PageCuts
  <2>6. first.more =>
          /\ first.next \in Int \X Nat
          /\ \A m \in ToSet(first.items) : ~BeforeCursor(o, m, first.next)
          /\ \A m \in RowsBefore(o, rows, start) : m \in ToSet(first.items) \/ BeforeCursor(o, m, first.next)
    <3> HIDE DEF start
    <3> QED
      BY <1>1, <2>1, PageCuts
  <2>7. ~first.more => \A m \in RowsBefore(o, rows, start) : m \in ToSet(first.items)
    <3> DEFINE whole == start = <<>>
    <3>1. whole /\ ~first.more => \A m \in RowsBefore(o, rows, start) : m \in ToSet(first.items)
      <4> HIDE DEF start
      <4> QED
        BY <1>1, <2>1, PageCuts
    <3> QED
      BY <2>2, <3>1
  <2> HIDE DEF start, first
  <2> QED
    BY <2>2, <2>3, <2>4, <2>5, <2>6, <2>7
<1>4. RowsBefore(o, rows, <<>>) = rows
  BY DEF RowsBefore, BeforeCursor
<1>5. /\ reading'.user = u /\ reading'.peer = o /\ reading'.cursor = page.next /\ reading'.got = page.items
      /\ reading'.more = page.more /\ reading'.wanted = rows
  BY <1>2
<1>6. rows \subseteq 1..(nextSeq - 1)
  BY <1>1 DEF RowType
<1>7. reading' \in PageType'
  <2>1. page.items \in Seq(1..(nextSeq - 1))
    <3> DEFINE ids == 1..(nextSeq - 1)
    <3>1. page.items \in Seq(rows) /\ rows \subseteq ids
      BY <1>3, <1>4, <1>6
    <3> HIDE DEF ids
    <3>2. page.items \in Seq(ids)
      BY <3>1, WiderSeq
    <3> QED
      BY <3>2 DEF ids
  <2> QED
    BY <1>2, <1>3, <1>6, <2>1 DEF PageType, Cursors
<1>8. \A m : BeforeCursor(reading.peer, m, reading.cursor)' <=> BeforeCursor(o, m, page.next)
  BY <1>2, <1>5 DEF BeforeCursor, CreatedAt
<1>10. ASSUME reading'.more
       PROVE  /\ reading'.cursor \in Int \X Nat
              /\ \A g \in ToSet(reading'.got) \cap DOMAIN messages' : ~BeforeCursor(reading.peer, g, reading.cursor)'
              /\ \A w \in reading'.wanted \cap DOMAIN messages' :
                   w \in ToSet(reading'.got) \/ BeforeCursor(reading.peer, w, reading.cursor)'
  BY <1>2, <1>3, <1>4, <1>5, <1>8, <1>10
<1>11. \A g \in ToSet(reading'.got) \cap DOMAIN messages', w \in reading'.wanted \cap DOMAIN messages' :
         w \in ToSet(reading'.got) \/ Newer(g, w)'
  BY <1>2, <1>3, <1>4, <1>5 DEF Newer
<1> QED
  BY <1>3, <1>4, <1>5, <1>7, <1>10, <1>11 DEF PageInv

\* A further page returns rows the reader has not got, and owes nothing that
\* was listed now and before unless the next cursor leaves it.
LEMMA NextPageKeeps ==
    ASSUME RowType, ConversationAssumption, PageInv, NextPage
    PROVE  PageInv'
<1> DEFINE peer == reading.peer
           rows == Listed(reading.user, reading.peer)
           cursor == reading.cursor
           page == PageOf(peer, rows, cursor)
<1>1. /\ reading # NoReading /\ reading.more
      /\ reading' = [reading EXCEPT !.cursor = page.next, !.got = @ \o page.items,
                                    !.more = page.more, !.wanted = @ \cap rows]
      /\ UNCHANGED <<messages, nextSeq>>
  BY DEF NextPage
<1>2. /\ reading \in PageType /\ cursor \in Int \X Nat
      /\ \A i, j \in 1..Len(reading.got) : reading.got[i] = reading.got[j] => i = j
      /\ \A g \in ToSet(reading.got) \cap DOMAIN messages, w \in reading.wanted \cap DOMAIN messages :
           w \in ToSet(reading.got) \/ Newer(g, w)
      /\ \A g \in ToSet(reading.got) \cap DOMAIN messages : ~BeforeCursor(peer, g, cursor)
      /\ \A w \in reading.wanted \cap DOMAIN messages : w \in ToSet(reading.got) \/ BeforeCursor(peer, w, cursor)
  BY <1>1 DEF PageInv
<1>3. rows \in SUBSET (DOMAIN messages)
  <2>1. reading.user \in Users
    BY <1>2 DEF PageType
  <2> QED
    BY <2>1, ListedRows
<1>4. /\ page.next \in Cursors /\ page.more \in BOOLEAN
      /\ page.items \in Seq(RowsBefore(peer, rows, cursor))
      /\ \A i, j \in 1..Len(page.items) : page.items[i] = page.items[j] => i = j
      /\ \A m \in RowsBefore(peer, rows, cursor) : m \in ToSet(page.items) \/ \A k \in ToSet(page.items) : Newer(k, m)
      /\ page.more =>
           /\ page.next \in Int \X Nat
           /\ \A m \in ToSet(page.items) : ~BeforeCursor(peer, m, page.next)
           /\ \A m \in RowsBefore(peer, rows, cursor) : m \in ToSet(page.items) \/ BeforeCursor(peer, m, page.next)
           /\ \A m \in DOMAIN messages : ~BeforeCursor(peer, m, cursor) => ~BeforeCursor(peer, m, page.next)
      /\ peer = AllPeers /\ ~page.more => \A m \in RowsBefore(peer, rows, cursor) : m \in ToSet(page.items)
  <2>1. cursor \in Cursors
    BY <1>2 DEF Cursors
  <2> HIDE DEF rows, cursor, peer
  <2> QED
    BY <1>3, <2>1, PageCuts
<1> HIDE DEF rows, page
<1>5. /\ reading'.user = reading.user /\ reading'.peer = reading.peer
      /\ reading'.cursor = page.next /\ reading'.got = reading.got \o page.items
      /\ reading'.more = page.more /\ reading'.wanted = reading.wanted \cap rows
  BY <1>1, <1>2 DEF PageType
<1> DEFINE ids == 1..(nextSeq - 1)
<1>6. reading.got \in Seq(ids) /\ page.items \in Seq(ids) /\ RowsBefore(peer, rows, cursor) \subseteq rows
  <2>1. RowsBefore(peer, rows, cursor) \subseteq ids
    BY <1>3 DEF RowsBefore, RowType
  <2> HIDE DEF ids
  <2>2. page.items \in Seq(ids)
    BY <1>4, <2>1, WiderSeq
  <2> QED
    BY <1>2, <2>2 DEF PageType, RowsBefore, ids
<1> HIDE DEF ids
<1>7. ToSet(page.items) \subseteq DOMAIN messages /\ \A m \in ToSet(page.items) : BeforeCursor(peer, m, cursor)
  <2>1. ToSet(page.items) \subseteq RowsBefore(peer, rows, cursor)
    BY <1>4, ElementsOf
  <2> QED
    BY <1>3, <2>1 DEF RowsBefore
<1>8. /\ reading'.got \in Seq(ids) /\ ToSet(reading'.got) = ToSet(reading.got) \cup ToSet(page.items)
      /\ \A i, j \in 1..Len(reading'.got) : reading'.got[i] = reading'.got[j] => i = j
  <2>1. ToSet(reading.got) \cap ToSet(page.items) = {}
    BY <1>2, <1>7
  <2>2. \A i, j \in 1..Len(reading.got) : reading.got[i] = reading.got[j] => i = j
    BY <1>2
  <2>3. \A i, j \in 1..Len(page.items) : page.items[i] = page.items[j] => i = j
    BY <1>4
  <2> DEFINE s == reading.got
             t == page.items
  <2> HIDE DEF s, t
  <2>4. /\ s \o t \in Seq(ids) /\ ToSet(s \o t) = ToSet(s) \cup ToSet(t)
        /\ \A i, j \in 1..Len(s \o t) : (s \o t)[i] = (s \o t)[j] => i = j
    BY <1>6, <2>1, <2>2, <2>3, JoinedDistinct DEF s, t
  <2> QED
    BY <1>5, <2>4 DEF s, t
<1>9. reading' \in PageType'
  <2>1. reading'.got \in Seq(1..(nextSeq' - 1)) /\ reading'.cursor \in {<<>>} \cup (Int \X Nat)
    BY <1>1, <1>4, <1>5, <1>8 DEF ids, Cursors
  <2>2. reading' = [user |-> reading.user, peer |-> reading.peer, cursor |-> reading'.cursor,
                    got |-> reading'.got, more |-> page.more, wanted |-> reading.wanted \cap rows]
    BY <1>1, <1>2, <1>5 DEF PageType
  <2> QED
    BY <1>1, <1>2, <1>4, <2>1, <2>2 DEF PageType
<1>10. ASSUME page.more
       PROVE  /\ reading'.cursor \in Int \X Nat
              /\ \A g \in ToSet(reading'.got) \cap DOMAIN messages : ~BeforeCursor(peer, g, page.next)
              /\ \A w \in reading'.wanted \cap DOMAIN messages :
                   w \in ToSet(reading'.got) \/ BeforeCursor(peer, w, page.next)
  <2>1. page.next \in Int \X Nat
    BY <1>4, <1>10
  <2>2. ASSUME NEW g \in ToSet(reading'.got) \cap DOMAIN messages PROVE ~BeforeCursor(peer, g, page.next)
    BY <1>2, <1>4, <1>8, <1>10
  <2>3. ASSUME NEW w \in reading'.wanted \cap DOMAIN messages
        PROVE  w \in ToSet(reading'.got) \/ BeforeCursor(peer, w, page.next)
    <3>1. w \in rows /\ (w \in ToSet(reading.got) \/ BeforeCursor(peer, w, cursor))
      BY <1>2, <1>5
    <3>2. BeforeCursor(peer, w, cursor) => w \in RowsBefore(peer, rows, cursor)
      BY <3>1 DEF RowsBefore
    <3> QED
      BY <1>4, <1>8, <1>10, <3>1, <3>2
  <2> QED
    BY <1>5, <2>1, <2>2, <2>3
<1>11. ASSUME reading'.peer = AllPeers, ~page.more
       PROVE  reading'.wanted \subseteq ToSet(reading'.got)
  <2> SUFFICES ASSUME NEW w \in reading'.wanted PROVE w \in ToSet(reading'.got)
    OBVIOUS
  <2>1. w \in rows /\ w \in reading.wanted /\ w \in DOMAIN messages
    BY <1>3, <1>5
  <2>2. w \in ToSet(reading.got) \/ BeforeCursor(peer, w, cursor)
    BY <1>2, <2>1
  <2>3. BeforeCursor(peer, w, cursor) => w \in RowsBefore(peer, rows, cursor)
    BY <2>1 DEF RowsBefore
  <2> QED
    BY <1>4, <1>5, <1>8, <1>11, <2>2, <2>3
<1>12. \A m : BeforeCursor(reading.peer, m, reading.cursor)' <=> BeforeCursor(peer, m, page.next)
  BY <1>1, <1>5 DEF BeforeCursor, CreatedAt
<1>13. reading'.more = page.more /\ DOMAIN messages' = DOMAIN messages
  BY <1>1, <1>5
<1>14. ASSUME NEW g \in ToSet(reading'.got) \cap DOMAIN messages, NEW w \in reading'.wanted \cap DOMAIN messages
       PROVE  w \in ToSet(reading'.got) \/ Newer(g, w)
  <2>1. w \in reading.wanted /\ w \in rows /\ w \in DOMAIN messages
    BY <1>5
  <2>2. CASE g \in ToSet(reading.got)
    BY <1>2, <1>8, <2>1, <2>2
  <2>3. CASE g \in ToSet(page.items)
    <3>1. w \in ToSet(reading.got) \/ BeforeCursor(peer, w, cursor)
      BY <1>2, <2>1
    <3>2. BeforeCursor(peer, w, cursor) => w \in RowsBefore(peer, rows, cursor)
      BY <2>1 DEF RowsBefore
    <3> QED
      BY <1>4, <1>8, <2>3, <3>1, <3>2
  <2> QED
    BY <1>8, <2>2, <2>3
<1>15. \A g \in ToSet(reading'.got) \cap DOMAIN messages', w \in reading'.wanted \cap DOMAIN messages' :
         w \in ToSet(reading'.got) \/ Newer(g, w)'
  BY <1>1, <1>14 DEF Newer
<1> QED
  BY <1>8, <1>9, <1>10, <1>11, <1>12, <1>13, <1>15 DEF PageInv

LEMMA PageStep ==
    ASSUME ConversationAssumption, RowType, RowsMove, PageInv, Next
    PROVE  PageInv'
<1>1. CASE ~PageNext
  <2>1. UNCHANGED reading
    BY <1>1, SendFrame, InboxFrame, MarkFrame, DeleteFrame, ReportFrame, MemberFrame, PurgeFrame, ReadNextKinds DEF Next
  <2> QED
    BY <2>1, PageStays
<1>2. CASE PageNext
  <2>1. ASSUME NEW u \in Users, GetConversations(u)
        PROVE  PageInv'
    BY <2>1, FirstPageKeeps DEF GetConversations
  <2>2. ASSUME NEW u \in Users, NEW o \in Users, GetConversationMessages(u, o)
        PROVE  PageInv'
    BY <2>2, FirstPageKeeps DEF GetConversationMessages
  <2>3. CASE StopReading
    BY <2>3 DEF StopReading, PageInv
  <2> QED
    BY <1>2, <2>1, <2>2, <2>3, NextPageKeeps DEF PageNext
<1> QED
  BY <1>1, <1>2

----------------------------------------------------------------------------
(* The theorems *)

LEMMA InitHolds == ConversationAssumption /\ Init => IInv
<1> SUFFICES ASSUME ConversationAssumption, Init
             PROVE  IInv
  OBVIOUS
<1>1. DOMAIN messages = {} /\ DOMAIN reports = {} /\ messages \in [{} -> Row]
      /\ reports \in [{} -> {"open", "removed", "dismissed"}]
  BY DEF Init
<1>2. MaxTime \in Nat /\ MaxMessages \in Nat /\ clock = 0 /\ nextSeq = 1
  BY DEF Init, ConversationAssumption
<1>3. RowType /\ ReportType
  BY <1>1, <1>2 DEF RowType, ReportType
<1>4. MemberType
  BY DEF Init, MemberType
<1>5. SendType /\ ReadType
  BY <1>2 DEF Init, SendType, ReadType
<1>6. \A q \in Requests : send[q] = "idle"
  BY DEF Init
<1>7. NotToOneself /\ HiddenStaysUnread /\ OneAnnouncer /\ NothingNewerIsRead
  BY <1>1, <1>6 DEF NotToOneself, HiddenStaysUnread, OneAnnouncer, NothingNewerIsRead
<1>8. SuppressedIsQuiet
  BY DEF Init, SuppressedIsQuiet
<1>9. AnnouncedIsStored
  BY <1>6 DEF Init, AnnouncedIsStored
<1>10. ReadEventsBacked
  <2> SUFFICES ASSUME NEW u \in Users
               PROVE  readEvents[u] <= Cardinality({m \in DOMAIN messages : messages[m].from = u /\ messages[m].read})
    BY DEF ReadEventsBacked
  <2>1. {m \in DOMAIN messages : messages[m].from = u /\ messages[m].read} = {}
    BY <1>1
  <2>2. readEvents[u] = 0
    BY DEF Init
  <2> QED
    BY <2>1, <2>2, FS_EmptySet
<1>11. PageInv
  BY DEF Init, PageInv
<1> QED
  BY <1>3, <1>4, <1>5, <1>7, <1>8, <1>9, <1>10, <1>11 DEF IInv

LEMMA StepHolds == ConversationAssumption /\ IInv /\ [Next]_vars => IInv'
<1>1. ASSUME ConversationAssumption, IInv, Next
      PROVE  IInv'
  <2> USE <1>1
  <2>1. RowsMove /\ RowType'
    BY StepRows DEF IInv, RowsMove
  <2>2. MemberType'
    BY MemberTypes DEF IInv
  <2>3. ReportType'
    BY ReportSteps DEF IInv
  <2>4. SendType'
    BY <2>1, SendTypes DEF IInv
  <2>5. ReadType'
    BY ReadTypes DEF IInv
  <2>6. NotToOneself'
    BY <2>1, NobodyWritesToThemselves DEF IInv
  <2>7. HiddenStaysUnread'
    BY <2>1, HiddenStep DEF IInv
  <2>8. SuppressedIsQuiet'
    BY QuietStep DEF IInv
  <2>9. AnnouncedIsStored' /\ OneAnnouncer'
    BY <2>1, AnnouncersStep DEF IInv
  <2>10. NothingNewerIsRead'
    BY <2>1, NothingNewerStep DEF IInv
  <2>11. ReadEventsBacked'
    BY <2>1, ReadEventsStep DEF IInv
  <2>12. PageInv'
    BY <2>1, PageStep DEF IInv
  <2> QED
    BY <2>1, <2>2, <2>3, <2>4, <2>5, <2>6, <2>7, <2>8, <2>9, <2>10, <2>11, <2>12 DEF IInv
<1>2. ASSUME IInv, UNCHANGED vars
      PROVE  IInv'
  <2>1. UNCHANGED <<clock, messages, nextSeq, blocks, allowed, approved, reports, send, accepted,
                    announced, readEvents, suppressed, shown, reading>>
    BY <1>2 DEF vars
  <2>2. RowType' /\ MemberType' /\ ReportType'
    BY <1>2, <2>1 DEF IInv, RowType, MemberType, ReportType
  <2>3. SendType' /\ ReadType' /\ NotToOneself' /\ HiddenStaysUnread' /\ SuppressedIsQuiet'
    BY <1>2, <2>1 DEF IInv, SendType, ReadType, NotToOneself, HiddenStaysUnread, SuppressedIsQuiet
  <2>4. AnnouncedIsStored' /\ OneAnnouncer'
    BY <1>2, <2>1 DEF IInv, AnnouncedIsStored, OneAnnouncer, RowHolds, KeyOf
  <2>5. NothingNewerIsRead' /\ ReadEventsBacked'
    BY <1>2, <2>1 DEF IInv, NothingNewerIsRead, ReadEventsBacked
  <2>6. PageInv'
    BY <1>2, <2>1 DEF IInv, PageInv, PageType, BeforeCursor, CreatedAt, Newer
  <2> QED
    BY <2>2, <2>3, <2>4, <2>5, <2>6 DEF IInv
<1> QED
  BY <1>1, <1>2

(* The inductive invariant: the conjuncts above, of every state the members *)
(* and the jobs can reach (message_repo.go and message_service.go).         *)
THEOREM Invariance == Spec => []IInv
<1>1. ConversationAssumption
  BY ConversationAssumption
<1>2. Init => IInv
  BY <1>1, InitHolds
<1>3. IInv /\ [Next]_vars => IInv'
  BY <1>1, StepHolds
<1> QED
  BY <1>2, <1>3, PTL DEF Spec

LEMMA TypesHold ==
    ASSUME ConversationAssumption, IInv
    PROVE  TypeOK
<1>1. /\ clock \in 0..MaxTime /\ nextSeq \in 1..(MaxMessages + 1) /\ DOMAIN messages \subseteq 1..(nextSeq - 1)
      /\ \A m \in DOMAIN messages :
           /\ messages[m].from \in Users /\ messages[m].to \in Users
           /\ messages[m].content \in {"text", "removed"}
           /\ messages[m].visible <=> messages[m].purgeAt = 0
  BY DEF IInv, RowType, Row
<1>2. \A m \in DOMAIN reports : reports[m] \in {"open", "removed", "dismissed"}
  BY DEF IInv, ReportType
<1> QED
  BY <1>1, <1>2 DEF IInv, TypeOK, MemberType, SendType, ReadType

(* However clients retry and however copies of a request overlap with      *)
(* blocks, preferences, deletions, reports and purges, a message accepted   *)
(* while its recipient blocks its sender never reaches the recipient, and   *)
(* an accepted one is announced at most once (message_repo.go,              *)
(* AcceptMessage; message_service.go, SendMessage).                         *)
THEOREM MessagesReach == Spec => []MessagesReachAsAccepted
<1>1. ConversationAssumption
  BY ConversationAssumption
<1>2. ASSUME IInv
      PROVE  MessagesReachAsAccepted
  <2>1. TypeOK
    BY <1>1, <1>2, TypesHold
  <2>2. SuppressedNeverReaches
    <3> SUFFICES ASSUME NEW m \in suppressed \cap DOMAIN messages
                 PROVE  /\ ~VisibleTo(m, messages[m].to) /\ ~messages[m].read
                        /\ m \notin DOMAIN reports /\ \A q \in Requests : accepted[q] # m
      BY DEF SuppressedNeverReaches
    <3>1. ~messages[m].visible /\ ~messages[m].read /\ messages[m].from # messages[m].to
      BY <1>2 DEF IInv, HiddenStaysUnread, NotToOneself
    <3>2. m \notin DOMAIN reports /\ \A q \in Requests : accepted[q] # m
      BY <1>2 DEF IInv, SuppressedIsQuiet
    <3> QED
      BY <3>1, <3>2 DEF VisibleTo, SentBy, ReceivedBy
  <2>3. AnnouncedOnce
    BY <1>2 DEF IInv, AnnouncedIsStored, AnnouncedOnce
  <2> QED
    BY <2>1, <2>2, <2>3 DEF MessagesReachAsAccepted
<1> QED
  BY <1>2, Invariance, PTL

(* Whatever members send, delete and report between two requests of a       *)
(* reader: pages return no row twice and leave out none that was there      *)
(* whenever one was read and is newer than a returned one, whatever the     *)
(* connection's zone adds to a cursor, and the conversation list's leave    *)
(* out none at all; a read mark covers what its reader had on the screen,   *)
(* read events are backed by reads, and the badge is the sum of the         *)
(* conversation list (message_repo.go, message_service.go).                 *)
THEOREM ReadingExact == Spec => []ReadingIsExact
<1>1. ConversationAssumption
  BY ConversationAssumption
<1>2. ASSUME IInv
      PROVE  ReadingIsExact
  <2>1. PagesLeaveNoGap
    <3> SUFFICES ASSUME reading # NoReading
                 PROVE  /\ Cardinality(ToSet(reading.got)) = Len(reading.got)
                        /\ \A g \in ToSet(reading.got) \cap DOMAIN messages, w \in reading.wanted \cap DOMAIN messages :
                             w \in ToSet(reading.got) \/ Newer(g, w)
                        /\ reading.peer = AllPeers /\ ~reading.more => reading.wanted \subseteq ToSet(reading.got)
      BY DEF PagesLeaveNoGap
    <3>1. /\ reading.got \in Seq(1..(nextSeq - 1))
          /\ \A i, j \in 1..Len(reading.got) : reading.got[i] = reading.got[j] => i = j
          /\ \A g \in ToSet(reading.got) \cap DOMAIN messages, w \in reading.wanted \cap DOMAIN messages :
               w \in ToSet(reading.got) \/ Newer(g, w)
          /\ reading.peer = AllPeers /\ ~reading.more => reading.wanted \subseteq ToSet(reading.got)
      BY <1>2 DEF IInv, PageInv, PageType
    <3> QED
      BY <3>1, DistinctElements
  <2>2. UnreadCountsAgree
    BY <1>2, CountsAgree DEF IInv
  <2> QED
    BY <1>2, <2>1, <2>2 DEF IInv, ReadingIsExact
<1> QED
  BY <1>2, Invariance, PTL

-----------------------------------------------------------------------------
(* The realtime hub *)

\* Ids grow along the sequence.
Increasing(s) == \A i, j \in 1..Len(s) : i < j => s[i] < s[j]

\* The history of a member: short, in order, and of ids that were given out.
HistoryInOrder ==
  \A u \in Connected :
    /\ Len(history[u]) <= eventHistoryLimit /\ Increasing(history[u])
    /\ \A e \in Hub!ToSet(history[u]) : e <= nextEventID

\* A channel holds, in order, ids given out after the last one the client saw;
\* only a registered stream has one.
ChannelsInOrder ==
  \A s \in Streams :
    /\ Increasing(chan[s])
    /\ \A e \in Hub!ToSet(chan[s]) : lastEventID[s] < e /\ e <= nextEventID
    /\ s \notin subscribers => chan[s] = <<>>

\* The last id a client names is the newest it has seen.
ClientsInOrder ==
  \A s \in Streams :
    /\ Increasing(received[s]) /\ lastEventID[s] <= nextEventID
    /\ \A e \in Hub!ToSet(received[s]) : e <= lastEventID[s]

\* Nothing is owed to a client that cannot name an event, but for what a
\* restart has taken.
NothingOwedUnseen ==
  \A s \in Streams : s \notin subscribers /\ lastEventID[s] = 0 => owed[s] \subseteq missed[s]

HubInv ==
  /\ Hub!TypeOK /\ lock = "free" /\ HistoryInOrder /\ ChannelsInOrder /\ ClientsInOrder
  /\ NothingOwedUnseen /\ Hub!NoSilentGap

-----------------------------------------------------------------------------
(* Sequences of ids *)

\* Induction over an interval: the library's theorems take an operator, this
\* one a set.
LEMMA Upward ==
  ASSUME NEW N \in Nat, NEW T, T \subseteq 0..N, 0 \in T, \A n \in T : n < N => n + 1 \in T
  PROVE  T = 0..N
<1> DEFINE B == (0..N) \ T
<1> SUFFICES ASSUME B # {} PROVE FALSE
  OBVIOUS
<1>1. B \subseteq Nat
  OBVIOUS
<1>2. PICK x \in B : \A y \in B : ~(<<y, x>> \in OpToRel(<, Nat))
  <2> HIDE DEF B
  <2> QED  BY <1>1, NatLessThanWellFounded, WFMin
<1>3. \A y \in B : ~(y < x)
  BY <1>1, <1>2 DEF OpToRel
<1>4. x # 0 /\ x \in 0..N
  OBVIOUS
<1>5. x - 1 \in 0..N /\ x - 1 < x /\ x - 1 < N /\ (x - 1) + 1 = x
  BY <1>4
<1>6. x - 1 \in T
  BY <1>3, <1>5
<1> QED  BY <1>5, <1>6

\* What a sequence of ids holds, by position.
LEMMA HeldIds == ASSUME NEW s \in Seq(Nat) PROVE Hub!ToSet(s) = {s[i] : i \in 1..Len(s)}
BY LenProperties DEF Hub!ToSet

LEMMA HeldNumbers == ASSUME NEW s \in Seq(Nat) PROVE Hub!ToSet(s) \subseteq Nat
<1>1. \A i \in 1..Len(s) : s[i] \in Nat
  BY LenProperties
<1> QED  BY <1>1, HeldIds

\* A new id at the end.
LEMMA AppendedId ==
  ASSUME NEW s \in Seq(Nat), NEW x \in Nat
  PROVE  /\ Append(s, x) \in Seq(Nat) /\ Len(Append(s, x)) = Len(s) + 1
         /\ Append(s, x)[Len(s) + 1] = x
         /\ Hub!ToSet(Append(s, x)) = Hub!ToSet(s) \cup {x}
         /\ Increasing(s) /\ (\A e \in Hub!ToSet(s) : e < x) => Increasing(Append(s, x))
<1> DEFINE t == Append(s, x)
<1>1. /\ t \in Seq(Nat) /\ Len(s) \in Nat /\ Len(t) = Len(s) + 1 /\ t[Len(s) + 1] = x
      /\ \A i \in 1..Len(s) : t[i] = s[i]
  OBVIOUS
<1> HIDE DEF t
<1>2. 1..Len(t) = (1..Len(s)) \cup {Len(s) + 1}
  BY <1>1
<1>3. Hub!ToSet(t) = Hub!ToSet(s) \cup {x}
  <2>1. Hub!ToSet(s) = {s[i] : i \in 1..Len(s)} /\ Hub!ToSet(t) = {t[i] : i \in 1..Len(t)}
    BY <1>1, HeldIds
  <2>2. Hub!ToSet(t) = {t[i] : i \in 1..Len(s)} \cup {t[Len(s) + 1]}
    BY <1>2, <2>1
  <2>3. {t[i] : i \in 1..Len(s)} = {s[i] : i \in 1..Len(s)}
    BY <1>1
  <2> QED  BY <1>1, <2>1, <2>2, <2>3
<1>4. ASSUME Increasing(s), \A e \in Hub!ToSet(s) : e < x PROVE Increasing(t)
  <2>1. \A i \in 1..Len(s) : s[i] < x
    BY <1>4, HeldIds
  <2> SUFFICES ASSUME NEW i \in 1..Len(t), NEW j \in 1..Len(t), i < j PROVE t[i] < t[j]
    BY DEF Increasing
  <2>2. i \in 1..Len(s) /\ t[i] = s[i]
    BY <1>1
  <2>3. CASE j \in 1..Len(s)
    BY <1>1, <1>4, <2>2, <2>3 DEF Increasing
  <2>4. CASE j = Len(s) + 1
    BY <1>1, <2>1, <2>2, <2>4
  <2> QED  BY <1>2, <2>3, <2>4
<1> QED  BY <1>1, <1>3, <1>4 DEF t

\* The first id and the rest.
LEMMA FirstId ==
  ASSUME NEW s \in Seq(Nat), s # <<>>
  PROVE  /\ Head(s) \in Nat /\ Tail(s) \in Seq(Nat) /\ Len(Tail(s)) = Len(s) - 1
         /\ Hub!ToSet(s) = {Head(s)} \cup Hub!ToSet(Tail(s))
         /\ Increasing(s) => Increasing(Tail(s)) /\ \A e \in Hub!ToSet(Tail(s)) : Head(s) < e
<1> DEFINE t == Tail(s)
<1>1. /\ Len(s) \in Nat \ {0} /\ Head(s) = s[1] /\ Head(s) \in Nat
      /\ t \in Seq(Nat) /\ Len(t) = Len(s) - 1 /\ \A i \in 1..Len(t) : t[i] = s[i + 1]
  OBVIOUS
<1> HIDE DEF t
<1>2. Hub!ToSet(s) = {Head(s)} \cup Hub!ToSet(t)
  <2>1. ASSUME NEW i \in 1..Len(s) PROVE s[i] \in {Head(s)} \cup Hub!ToSet(t)
    <3>1. CASE i = 1
      BY <1>1, <3>1
    <3>2. CASE i # 1
      <4>1. i - 1 \in 1..Len(t) /\ t[i - 1] = s[i]
        BY <1>1, <3>2
      <4> QED  BY <1>1, <4>1, HeldIds
    <3> QED  BY <3>1, <3>2
  <2>2. ASSUME NEW i \in 1..Len(t) PROVE t[i] \in Hub!ToSet(s)
    <3>1. i + 1 \in 1..Len(s) /\ t[i] = s[i + 1]
      BY <1>1
    <3> QED  BY <3>1, HeldIds
  <2>3. Head(s) \in Hub!ToSet(s)
    BY <1>1, HeldIds
  <2>4. Hub!ToSet(s) = {s[i] : i \in 1..Len(s)} /\ Hub!ToSet(t) = {t[i] : i \in 1..Len(t)}
    BY <1>1, HeldIds
  <2> QED  BY <2>1, <2>2, <2>3, <2>4
<1>3. ASSUME Increasing(s) PROVE Increasing(t)
  <2> SUFFICES ASSUME NEW i \in 1..Len(t), NEW j \in 1..Len(t), i < j PROVE t[i] < t[j]
    BY DEF Increasing
  <2>1. i + 1 \in 1..Len(s) /\ j + 1 \in 1..Len(s) /\ i + 1 < j + 1
    BY <1>1
  <2> QED  BY <1>1, <1>3, <2>1 DEF Increasing
<1>4. ASSUME Increasing(s), NEW e \in Hub!ToSet(t) PROVE Head(s) < e
  <2>1. PICK i \in 1..Len(t) : e = t[i]
    BY <1>1, HeldIds
  <2>2. 1 \in 1..Len(s) /\ i + 1 \in 1..Len(s) /\ 1 < i + 1 /\ e = s[i + 1]
    BY <1>1, <2>1
  <2> QED  BY <1>1, <1>4, <2>2 DEF Increasing
<1> QED  BY <1>1, <1>2, <1>3, <1>4 DEF t

\* The newest ids of a history, the very newest among them.
LEMMA TrimmedIds ==
  ASSUME NEW h \in Seq(Nat)
  PROVE  /\ Hub!Trim(h) \in Seq(Nat) /\ Len(Hub!Trim(h)) <= eventHistoryLimit
         /\ Hub!ToSet(Hub!Trim(h)) \subseteq Hub!ToSet(h)
         /\ Increasing(h) => Increasing(Hub!Trim(h))
         /\ h # <<>> => h[Len(h)] \in Hub!ToSet(Hub!Trim(h))
<1>0. Len(h) \in Nat /\ eventHistoryLimit \in Nat \ {0}
  BY HubAssumption
<1>1. CASE Len(h) <= eventHistoryLimit
  <2>1. Hub!Trim(h) = h
    BY <1>0, <1>1 DEF Hub!Trim
  <2>2. h # <<>> => Len(h) \in 1..Len(h)
    BY <1>0
  <2> QED  BY <1>1, <2>1, <2>2, HeldIds
<1>2. CASE Len(h) > eventHistoryLimit
  <2> DEFINE m == Len(h) - eventHistoryLimit
             t == SubSeq(h, m + 1, Len(h))
  <2>1. Hub!Trim(h) = t /\ m \in Nat
    BY <1>0, <1>2 DEF Hub!Trim
  <2>2. t \in Seq(Nat) /\ Len(t) = eventHistoryLimit /\ \A i \in 1..eventHistoryLimit : t[i] = h[m + i]
    <3>1. m + 1 \in 1..Len(h) + 1 /\ Len(h) \in m..Len(h) /\ Len(h) - (m + 1) + 1 = eventHistoryLimit
      BY <1>0, <1>2
    <3>2. /\ t \in Seq(Nat) /\ Len(t) = Len(h) - (m + 1) + 1
          /\ \A i \in 1..(Len(h) - (m + 1) + 1) : t[i] = h[(m + 1) + i - 1]
      BY <3>1, SubSeqProperties, LenProperties, <1>0
    <3> HIDE DEF t
    <3>3. \A i \in 1..eventHistoryLimit : (m + 1) + i - 1 = m + i
      BY <1>0
    <3> QED
      BY <3>1, <3>2, <3>3
  <2> HIDE DEF t
  <2>3. \A i \in 1..eventHistoryLimit : m + i \in 1..Len(h)
    BY <1>0, <1>2
  <2>4. Hub!ToSet(t) \subseteq Hub!ToSet(h)
    <3>1. Hub!ToSet(h) = {h[i] : i \in 1..Len(h)} /\ Hub!ToSet(t) = {t[i] : i \in 1..eventHistoryLimit}
      BY <2>2, HeldIds
    <3> HIDE DEF m
    <3> QED  BY <2>2, <2>3, <3>1
  <2>5. ASSUME Increasing(h) PROVE Increasing(t)
    <3> SUFFICES ASSUME NEW i \in 1..eventHistoryLimit, NEW j \in 1..eventHistoryLimit, i < j PROVE t[i] < t[j]
      BY <2>2 DEF Increasing
    <3>1. m + i < m + j
      BY <1>0, <1>2
    <3> QED  BY <2>2, <2>3, <2>5, <3>1 DEF Increasing
  <2>6. t[eventHistoryLimit] = h[Len(h)] /\ eventHistoryLimit \in 1..Len(t)
    <3>1. eventHistoryLimit \in 1..eventHistoryLimit /\ m + eventHistoryLimit = Len(h)
      BY <1>0, <1>2
    <3> HIDE DEF m
    <3> QED  BY <2>2, <3>1
  <2>7. h[Len(h)] \in Hub!ToSet(t)
    BY <2>2, <2>6, HeldIds
  <2> QED  BY <1>0, <2>1, <2>2, <2>4, <2>5, <2>7
<1> QED  BY <1>0, <1>1, <1>2

-----------------------------------------------------------------------------
(* The replay: a loop over the history, so an induction over it *)

\* What the loop has sent after event i, f being what it had sent before.
Sent(f, i, h, last) ==
  IF i = 0 THEN <<>> ELSE IF h[i] > last THEN Append(f[i - 1], h[i]) ELSE f[i - 1]

\* The recursion of Replay has a solution.
LEMMA LoopRuns ==
  ASSUME NEW h \in Seq(Nat), NEW last \in Nat
  PROVE  \E f : f = [i \in 0..Len(h) |-> Sent(f, i, h, last)]
<1> DEFINE N == Len(h)
           Good(n, f) == f \in [0..n -> Seq(Nat)] /\ \A i \in 0..n : f[i] = Sent(f, i, h, last)
           T == {n \in 0..N : \E f : Good(n, f)}
<1>0. N \in Nat
  OBVIOUS
<1>1. 0 \in T
  <2> DEFINE f0 == [i \in 0..0 |-> <<>>]
  <2>1. f0 \in [0..0 -> Seq(Nat)]
    OBVIOUS
  <2>2. Good(0, f0)
    BY <2>1 DEF Sent
  <2> HIDE DEF f0, Good
  <2> QED  BY <1>0, <2>2
<1>2. ASSUME NEW n \in T, n < N PROVE n + 1 \in T
  <2>1. PICK f : Good(n, f)
    OBVIOUS
  <2>2. n \in 0..N /\ n + 1 \in 0..N /\ n + 1 \in 1..N
    BY <1>0, <1>2
  <2> DEFINE g == [i \in 0..(n + 1) |-> IF i = n + 1 THEN Sent(f, n + 1, h, last) ELSE f[i]]
  <2>3. f[n] \in Seq(Nat) /\ h[n + 1] \in Nat
    BY <2>1, <2>2
  <2>4. Sent(f, n + 1, h, last) \in Seq(Nat)
    BY <2>2, <2>3 DEF Sent
  <2>5. g \in [0..(n + 1) -> Seq(Nat)]
    BY <2>1, <2>2, <2>4
  <2>6. ASSUME NEW i \in 0..(n + 1) PROVE g[i] = Sent(g, i, h, last)
    <3>1. CASE i = n + 1
      <4>1. g[i - 1] = f[i - 1]
        BY <3>1, <2>2
      <4> QED  BY <3>1, <4>1, <2>2 DEF Sent
    <3>2. CASE i # n + 1
      <4>0. i \in 0..n
        BY <3>2, <2>2
      <4>1. i = 0 \/ g[i - 1] = f[i - 1]
        BY <4>0, <2>2
      <4>2. g[i] = Sent(f, i, h, last)
        BY <4>0, <2>1, <2>2
      <4> QED  BY <4>1, <4>2 DEF Sent
    <3> QED  BY <3>1, <3>2
  <2>7. Good(n + 1, g)
    BY <2>5, <2>6
  <2> QED  BY <2>2, <2>7
<1>3. T = 0..N
  <2> HIDE DEF T
  <2>1. T \subseteq 0..N
    BY DEF T
  <2> QED  BY <1>0, <1>1, <1>2, <2>1, Upward
<1>4. PICK f : Good(N, f)
  <2>1. N \in T
    <3> HIDE DEF T, N
    <3> QED  BY <1>0, <1>3
  <2> QED  BY <2>1
<1>5. f = [i \in 0..N |-> Sent(f, i, h, last)]
  BY <1>4
<1> QED  BY <1>5

\* Replay is the last value of that recursion.
LEMMA ReplayIsTheLoop ==
  ASSUME NEW h \in Seq(Nat), NEW last \in Nat
  PROVE  \E f : /\ Hub!Replay(h, last) = f[Len(h)]
                /\ \A i \in 0..Len(h) : f[i] = Sent(f, i, h, last)
<1> DEFINE sent == CHOOSE f : f = [i \in 0..Len(h) |-> Sent(f, i, h, last)]
<1>1. sent = [i \in 0..Len(h) |-> Sent(sent, i, h, last)]
  BY LoopRuns
<1>2. Hub!Replay(h, last) = sent[Len(h)]
  BY DEF Hub!Replay, Hub!eventID, Sent
<1> HIDE DEF sent
<1>3. \A i \in 0..Len(h) : sent[i] = Sent(sent, i, h, last)
  BY <1>1
<1> QED  BY <1>2, <1>3

\* The replay of a history in order is in order, no longer than the history,
\* and is what is newer than the client's last event.
LEMMA ReplayedIds ==
  ASSUME NEW h \in Seq(Nat), NEW last \in Nat, Increasing(h)
  PROVE  /\ Hub!Replay(h, last) \in Seq(Nat) /\ Len(Hub!Replay(h, last)) <= Len(h)
         /\ Increasing(Hub!Replay(h, last))
         /\ Hub!ToSet(Hub!Replay(h, last)) = {e \in Hub!ToSet(h) : e > last}
<1>0. PICK f : /\ Hub!Replay(h, last) = f[Len(h)]
               /\ \A i \in 0..Len(h) : f[i] = Sent(f, i, h, last)
  BY ReplayIsTheLoop
<1> DEFINE N == Len(h)
           Right(i) == /\ f[i] \in Seq(Nat) /\ Len(f[i]) <= i /\ Increasing(f[i])
                       /\ Hub!ToSet(f[i]) = {e \in {h[j] : j \in 1..i} : e > last}
           T == {i \in 0..N : Right(i)}
<1>1. N \in Nat /\ \A i \in 1..N : h[i] \in Nat
  OBVIOUS
<1>2. 0 \in T
  <2>1. f[0] = <<>>
    BY <1>0, <1>1 DEF Sent
  <2>2. <<>> \in Seq(Nat) /\ Len(<<>>) = 0 /\ Increasing(<<>>)
    BY DEF Increasing
  <2>3. Hub!ToSet(f[0]) = {}
    <3>1. Hub!ToSet(f[0]) = {f[0][i] : i \in 1..Len(f[0])}
      BY <2>1, <2>2, HeldIds
    <3> QED  BY <2>1, <2>2, <3>1
  <2>4. {e \in {h[j] : j \in 1..0} : e > last} = {}
    OBVIOUS
  <2>5. Right(0)
    BY <2>1, <2>2, <2>3, <2>4
  <2> HIDE DEF Right
  <2> QED  BY <1>1, <2>5
<1>3. ASSUME NEW i \in T, i < N PROVE i + 1 \in T
  <2>1. Right(i) /\ i \in 0..N /\ i + 1 \in 0..N /\ i + 1 \in 1..N /\ i \in Nat
    BY <1>1, <1>3
  <2>2. f[i + 1] = IF h[i + 1] > last THEN Append(f[i], h[i + 1]) ELSE f[i]
    BY <1>0, <2>1 DEF Sent
  <2>3. {h[j] : j \in 1..(i + 1)} = {h[j] : j \in 1..i} \cup {h[i + 1]}
    <3>1. 1..(i + 1) = (1..i) \cup {i + 1}
      BY <2>1
    <3> QED  BY <3>1
  <2>4. CASE h[i + 1] > last
    <3>1. \A e \in Hub!ToSet(f[i]) : e < h[i + 1]
      <4> SUFFICES ASSUME NEW j \in 1..i PROVE h[j] < h[i + 1]
        BY <2>1
      <4>1. j \in 1..N /\ j < i + 1
        BY <1>1, <2>1
      <4> QED  BY <2>1, <4>1 DEF Increasing
    <3>2. /\ f[i + 1] \in Seq(Nat) /\ Len(f[i + 1]) = Len(f[i]) + 1 /\ Increasing(f[i + 1])
          /\ Hub!ToSet(f[i + 1]) = Hub!ToSet(f[i]) \cup {h[i + 1]}
      BY <1>1, <2>1, <2>2, <2>4, <3>1, AppendedId
    <3>3. Len(f[i + 1]) <= i + 1
      <4>1. Len(f[i]) \in Nat /\ Len(f[i]) <= i
        BY <2>1
      <4> QED  BY <2>1, <3>2, <4>1
    <3>4. Hub!ToSet(f[i + 1]) = {e \in {h[j] : j \in 1..(i + 1)} : e > last}
      BY <2>1, <2>3, <2>4, <3>2
    <3> QED  BY <2>1, <3>2, <3>3, <3>4
  <2>5. CASE ~(h[i + 1] > last)
    <3>1. f[i + 1] = f[i]
      BY <2>2, <2>5
    <3>2. Len(f[i]) \in Nat /\ Len(f[i + 1]) <= i + 1
      <4>1. Len(f[i]) \in Nat /\ Len(f[i]) <= i
        BY <2>1
      <4> QED  BY <2>1, <3>1, <4>1
    <3>3. Hub!ToSet(f[i + 1]) = {e \in {h[j] : j \in 1..(i + 1)} : e > last}
      BY <2>1, <2>3, <2>5, <3>1
    <3> QED  BY <2>1, <3>1, <3>2, <3>3
  <2> QED  BY <2>4, <2>5
<1>4. T = 0..N
  <2> HIDE DEF T
  <2>1. T \subseteq 0..N
    BY DEF T
  <2> QED  BY <1>1, <1>2, <1>3, <2>1, Upward
<1>5. Right(N)
  <2>1. N \in T
    <3> HIDE DEF T, N
    <3> QED  BY <1>1, <1>4
  <2> QED  BY <2>1
<1> QED  BY <1>0, <1>5, HeldIds

-----------------------------------------------------------------------------
(* The hub *)

\* Everything starts empty.
LEMMA HubInitially == Hub!Init => HubInv
<1> SUFFICES ASSUME Hub!Init PROVE HubInv
  OBVIOUS
<1> USE DEF Hub!Init, Hub!NewHub
<1>0. <<>> \in Seq(Nat) /\ Len(<<>>) = 0 /\ Hub!ToSet(<<>>) = {} /\ Increasing(<<>>)
  BY DEF Hub!ToSet, Increasing
<1>1. Hub!TypeOK
  BY <1>0, HubAssumption DEF Hub!TypeOK
<1>2. HistoryInOrder
  BY <1>0, HubAssumption DEF HistoryInOrder
<1>3. ChannelsInOrder
  BY <1>0 DEF ChannelsInOrder
<1>4. ClientsInOrder
  BY <1>0 DEF ClientsInOrder
<1>5. NothingOwedUnseen
  BY DEF NothingOwedUnseen
<1>6. Hub!NoSilentGap
  BY DEF Hub!NoSilentGap
<1> QED  BY <1>1, <1>2, <1>3, <1>4, <1>5, <1>6 DEF HubInv

\* A subscription: the replay fits the channel, and holds what waits for the
\* client in the history.
LEMMA StreamStep ==
  ASSUME HubInv, NEW s \in Streams, Hub!Stream(s)
  PROVE  HubInv'
<1>0. /\ Hub!TypeOK /\ lock = "free" /\ HistoryInOrder /\ ChannelsInOrder /\ ClientsInOrder
      /\ NothingOwedUnseen /\ Hub!NoSilentGap
  BY DEF HubInv
<1> DEFINE h == history[UserOf[s]]
           last == lastEventID[s]
           replay == IF last > 0 THEN Hub!Replay(h, last) ELSE <<>>
<1>1. UserOf[s] \in Connected /\ eventHistoryLimit \in Nat
  BY HubAssumption
<1>2. /\ h \in Seq(Nat) /\ Len(h) <= eventHistoryLimit /\ Increasing(h) /\ last \in Nat
      /\ nextEventID \in Nat /\ \A e \in Hub!ToSet(h) : e <= nextEventID
  BY <1>0, <1>1 DEF Hub!TypeOK, HistoryInOrder
<1>3. /\ replay \in Seq(Nat) /\ Len(replay) <= eventHistoryLimit /\ Increasing(replay)
      /\ Hub!ToSet(replay) = IF last > 0 THEN {e \in Hub!ToSet(h) : e > last} ELSE {}
  <2>1. CASE last > 0
    <3>1. /\ replay = Hub!Replay(h, last) /\ replay \in Seq(Nat) /\ Len(replay) <= Len(h) /\ Increasing(replay)
          /\ Hub!ToSet(replay) = {e \in Hub!ToSet(h) : e > last}
      BY <1>2, <2>1, ReplayedIds
    <3> HIDE DEF h, last, replay
    <3>2. Len(replay) \in Nat /\ Len(h) \in Nat
      BY <1>2, <3>1
    <3> QED  BY <1>1, <1>2, <2>1, <3>1, <3>2
  <2>2. CASE ~(last > 0)
    BY <1>1, <2>2 DEF Hub!ToSet, Increasing
  <2> QED  BY <2>1, <2>2
<1>4. /\ s \notin subscribers /\ subscribers' = subscribers \cup {s}
      /\ chan' = [chan EXCEPT ![s] = SubSeq(replay, 1,
                    IF Len(replay) > Hub!subscriberBuffer THEN Hub!subscriberBuffer ELSE Len(replay))]
      /\ lock' = IF Len(replay) > Hub!subscriberBuffer THEN "held" ELSE "free"
      /\ UNCHANGED <<history, nextEventID, hubBroadcast, restarts, lastEventID, received, owed, missed>>
  BY DEF Hub!Stream, Hub!Subscribe, Hub!clientVars
<1> HIDE DEF replay
<1>5. chan' = [chan EXCEPT ![s] = replay] /\ lock' = "free"
  <2>1. ~(Len(replay) > Hub!subscriberBuffer)
    <3>1. Len(replay) \in Nat
      BY <1>3
    <3> QED  BY <1>1, <1>3, <3>1 DEF Hub!subscriberBuffer
  <2>2. SubSeq(replay, 1, Len(replay)) = replay
    BY <1>3
  <2> QED  BY <1>4, <2>1, <2>2
<1>6. chan'[s] = replay /\ \A k \in Streams : k # s => chan'[k] = chan[k]
  BY <1>0, <1>5 DEF Hub!TypeOK
<1>7. Hub!TypeOK'
  BY <1>0, <1>3, <1>4, <1>5 DEF Hub!TypeOK
<1>8. HistoryInOrder' /\ ClientsInOrder'
  BY <1>0, <1>4 DEF HistoryInOrder, ClientsInOrder
<1>9. ChannelsInOrder'
  <2>1. \A e \in Hub!ToSet(replay) : last < e /\ e <= nextEventID
    BY <1>2, <1>3
  <2> SUFFICES ASSUME NEW k \in Streams
               PROVE  /\ Increasing(chan'[k])
                      /\ \A e \in Hub!ToSet(chan'[k]) : lastEventID[k] < e /\ e <= nextEventID
                      /\ k \notin subscribers' => chan'[k] = <<>>
    BY <1>4 DEF ChannelsInOrder
  <2>2. CASE k = s
    BY <1>3, <1>4, <1>6, <2>1, <2>2
  <2>3. CASE k # s
    BY <1>0, <1>4, <1>6, <2>3 DEF ChannelsInOrder
  <2> QED  BY <2>2, <2>3
<1>10. NothingOwedUnseen'
  BY <1>0, <1>4 DEF NothingOwedUnseen
<1>11. Hub!NoSilentGap'
  <2> SUFFICES ASSUME NEW k \in Streams, NEW e \in owed[k]
               PROVE  \/ e \in Hub!ToSet(received[k]) \cup missed[k]
                      \/ k \in subscribers' /\ e \in Hub!ToSet(chan'[k])
                      \/ k \notin subscribers' /\ e \in Hub!ToSet(history[UserOf[k]]) /\ e > lastEventID[k]
    BY <1>4 DEF Hub!NoSilentGap
  <2>1. CASE k # s
    BY <1>0, <1>4, <1>6, <2>1 DEF Hub!NoSilentGap
  <2>2. CASE k = s
    <3>1. CASE last > 0
      BY <1>0, <1>3, <1>4, <1>6, <2>2, <3>1 DEF Hub!NoSilentGap
    <3>2. CASE last = 0
      BY <1>0, <1>4, <2>2, <3>2 DEF NothingOwedUnseen
    <3> QED  BY <1>2, <3>1, <3>2
  <2> QED  BY <2>1, <2>2
<1> QED  BY <1>5, <1>7, <1>8, <1>9, <1>10, <1>11 DEF HubInv

\* An event is written: it is newer than everything the client has seen, and
\* older than everything left in the channel.
LEMMA DeliverStep ==
  ASSUME HubInv, NEW s \in Streams, Hub!Deliver(s)
  PROVE  HubInv'
<1>0. /\ Hub!TypeOK /\ lock = "free" /\ HistoryInOrder /\ ChannelsInOrder /\ ClientsInOrder
      /\ NothingOwedUnseen /\ Hub!NoSilentGap
  BY DEF HubInv
<1> DEFINE x == Head(chan[s])
<1>1. /\ s \in subscribers /\ chan[s] # <<>>
      /\ chan' = [chan EXCEPT ![s] = Tail(@)]
      /\ lastEventID' = [lastEventID EXCEPT ![s] = x]
      /\ received' = [received EXCEPT ![s] = Append(@, x)]
      /\ UNCHANGED <<subscribers, history, nextEventID, lock, hubBroadcast, restarts, owed, missed>>
  BY DEF Hub!Deliver
<1>2. /\ chan \in [Streams -> Seq(Nat)] /\ lastEventID \in [Streams -> Nat] /\ received \in [Streams -> Seq(Nat)]
      /\ nextEventID \in Nat
  BY <1>0 DEF Hub!TypeOK
<1>3. /\ chan'[s] = Tail(chan[s]) /\ lastEventID'[s] = x /\ received'[s] = Append(received[s], x)
      /\ \A k \in Streams : k # s =>
            chan'[k] = chan[k] /\ lastEventID'[k] = lastEventID[k] /\ received'[k] = received[k]
  BY <1>1, <1>2
<1>4. /\ Increasing(chan[s]) /\ \A e \in Hub!ToSet(chan[s]) : lastEventID[s] < e /\ e <= nextEventID
  BY <1>0 DEF ChannelsInOrder
<1>5. /\ x \in Nat /\ Tail(chan[s]) \in Seq(Nat) /\ Hub!ToSet(chan[s]) = {x} \cup Hub!ToSet(Tail(chan[s]))
      /\ Increasing(Tail(chan[s])) /\ \A e \in Hub!ToSet(Tail(chan[s])) : x < e
  BY <1>1, <1>2, <1>4, FirstId
<1>6. lastEventID[s] < x /\ x <= nextEventID
  BY <1>4, <1>5
<1>7. /\ Append(received[s], x) \in Seq(Nat) /\ Increasing(Append(received[s], x))
      /\ Hub!ToSet(Append(received[s], x)) = Hub!ToSet(received[s]) \cup {x}
      /\ \A e \in Hub!ToSet(received[s]) : e <= x
  <2>1. received[s] \in Seq(Nat) /\ Increasing(received[s]) /\ lastEventID[s] \in Nat
    BY <1>0, <1>2 DEF ClientsInOrder
  <2>2. \A e \in Hub!ToSet(received[s]) : e \in Nat /\ e <= lastEventID[s]
    BY <1>0, <2>1, HeldIds DEF ClientsInOrder
  <2>3. \A e \in Hub!ToSet(received[s]) : e < x /\ e <= x
    <3> HIDE DEF x
    <3> QED  BY <1>5, <1>6, <2>1, <2>2
  <2> QED  BY <1>5, <2>1, <2>3, AppendedId
<1> HIDE DEF x
<1>8. Hub!TypeOK'
  BY <1>0, <1>1, <1>2, <1>5, <1>7 DEF Hub!TypeOK
<1>9. HistoryInOrder' /\ lock' = "free"
  BY <1>0, <1>1 DEF HistoryInOrder
<1>10. ChannelsInOrder'
  <2> SUFFICES ASSUME NEW k \in Streams
               PROVE  /\ Increasing(chan'[k])
                      /\ \A e \in Hub!ToSet(chan'[k]) : lastEventID'[k] < e /\ e <= nextEventID
                      /\ k \notin subscribers => chan'[k] = <<>>
    BY <1>1 DEF ChannelsInOrder
  <2>1. CASE k = s
    BY <1>1, <1>3, <1>4, <1>5, <2>1
  <2>2. CASE k # s
    BY <1>0, <1>3, <2>2 DEF ChannelsInOrder
  <2> QED  BY <2>1, <2>2
<1>11. ClientsInOrder'
  <2> SUFFICES ASSUME NEW k \in Streams
               PROVE  /\ Increasing(received'[k]) /\ lastEventID'[k] <= nextEventID
                      /\ \A e \in Hub!ToSet(received'[k]) : e <= lastEventID'[k]
    BY <1>1 DEF ClientsInOrder
  <2>1. CASE k = s
    <3>1. \A e \in Hub!ToSet(received[s]) \cup {x} : e <= x
      BY <1>5, <1>7
    <3> QED  BY <1>3, <1>6, <1>7, <2>1, <3>1
  <2>2. CASE k # s
    BY <1>0, <1>3, <2>2 DEF ClientsInOrder
  <2> QED  BY <2>1, <2>2
<1>12. NothingOwedUnseen'
  BY <1>0, <1>1, <1>3 DEF NothingOwedUnseen
<1>13. Hub!NoSilentGap'
  <2> SUFFICES ASSUME NEW k \in Streams, NEW e \in owed[k]
               PROVE  \/ e \in Hub!ToSet(received'[k]) \cup missed[k]
                      \/ k \in subscribers /\ e \in Hub!ToSet(chan'[k])
                      \/ k \notin subscribers /\ e \in Hub!ToSet(history[UserOf[k]]) /\ e > lastEventID'[k]
    BY <1>1 DEF Hub!NoSilentGap
  <2>1. CASE k # s
    BY <1>0, <1>3, <2>1 DEF Hub!NoSilentGap
  <2>2. CASE k = s
    BY <1>0, <1>1, <1>3, <1>5, <1>7, <2>2 DEF Hub!NoSilentGap
  <2> QED  BY <2>1, <2>2
<1> QED  BY <1>8, <1>9, <1>10, <1>11, <1>12, <1>13 DEF HubInv

\* A stream ends: what its channel held waits in the history or is given up.
LEMMA DisconnectStep ==
  ASSUME HubInv, NEW s \in Streams, Hub!Disconnect(s)
  PROVE  HubInv'
<1>0. /\ Hub!TypeOK /\ lock = "free" /\ HistoryInOrder /\ ChannelsInOrder /\ ClientsInOrder
      /\ NothingOwedUnseen /\ Hub!NoSilentGap
  BY DEF HubInv
<1>1. /\ s \in subscribers /\ subscribers' = subscribers \ {s}
      /\ chan' = [chan EXCEPT ![s] = <<>>]
      /\ owed' = IF lastEventID[s] = 0 THEN [owed EXCEPT ![s] = {}] ELSE owed
      /\ missed' = [missed EXCEPT ![s] = @ \cup (Hub!ToSet(chan[s]) \ Hub!ToSet(history[UserOf[s]]))]
      /\ UNCHANGED <<history, nextEventID, lock, hubBroadcast, restarts, lastEventID, received>>
  BY DEF Hub!Disconnect, Hub!Unsubscribe
<1>2. /\ chan \in [Streams -> Seq(Nat)] /\ owed \in [Streams -> SUBSET Nat] /\ missed \in [Streams -> SUBSET Nat]
      /\ lastEventID \in [Streams -> Nat] /\ nextEventID \in Nat
  BY <1>0 DEF Hub!TypeOK
<1>3. Hub!ToSet(chan[s]) \subseteq Nat
  <2>1. chan[s] \in Seq(Nat)
    BY <1>2
  <2> QED  BY <2>1, HeldNumbers
<1>4. <<>> \in Seq(Nat) /\ Hub!ToSet(<<>>) = {} /\ Increasing(<<>>)
  BY DEF Hub!ToSet, Increasing
<1>5. /\ chan' \in [Streams -> Seq(Nat)] /\ owed' \in [Streams -> SUBSET Nat] /\ missed' \in [Streams -> SUBSET Nat]
  BY <1>1, <1>2, <1>3, <1>4
<1>6. /\ chan'[s] = <<>> /\ missed'[s] = missed[s] \cup (Hub!ToSet(chan[s]) \ Hub!ToSet(history[UserOf[s]]))
      /\ owed'[s] = IF lastEventID[s] = 0 THEN {} ELSE owed[s]
      /\ \A k \in Streams : k # s => chan'[k] = chan[k] /\ owed'[k] = owed[k] /\ missed'[k] = missed[k]
  BY <1>1, <1>2
<1>7. Hub!TypeOK'
  BY <1>0, <1>1, <1>5 DEF Hub!TypeOK
<1>8. HistoryInOrder' /\ ClientsInOrder' /\ lock' = "free"
  BY <1>0, <1>1 DEF HistoryInOrder, ClientsInOrder
<1>9. ChannelsInOrder'
  <2> SUFFICES ASSUME NEW k \in Streams
               PROVE  /\ Increasing(chan'[k])
                      /\ \A e \in Hub!ToSet(chan'[k]) : lastEventID[k] < e /\ e <= nextEventID
                      /\ k \notin subscribers' => chan'[k] = <<>>
    BY <1>1 DEF ChannelsInOrder
  <2>1. CASE k = s
    BY <1>4, <1>6, <2>1
  <2>2. CASE k # s
    BY <1>0, <1>1, <1>6, <2>2 DEF ChannelsInOrder
  <2> QED  BY <2>1, <2>2
<1>10. NothingOwedUnseen'
  <2> SUFFICES ASSUME NEW k \in Streams, k \notin subscribers', lastEventID[k] = 0 PROVE owed'[k] \subseteq missed'[k]
    BY <1>1 DEF NothingOwedUnseen
  <2>1. CASE k = s
    BY <1>6, <2>1
  <2>2. CASE k # s
    BY <1>0, <1>1, <1>6, <2>2 DEF NothingOwedUnseen
  <2> QED  BY <2>1, <2>2
<1>11. Hub!NoSilentGap'
  <2> SUFFICES ASSUME NEW k \in Streams, NEW e \in owed'[k]
               PROVE  \/ e \in Hub!ToSet(received[k]) \cup missed'[k]
                      \/ k \in subscribers' /\ e \in Hub!ToSet(chan'[k])
                      \/ k \notin subscribers' /\ e \in Hub!ToSet(history[UserOf[k]]) /\ e > lastEventID[k]
    BY <1>1 DEF Hub!NoSilentGap
  <2>1. CASE k # s
    BY <1>0, <1>1, <1>6, <2>1 DEF Hub!NoSilentGap
  <2>2. CASE k = s
    <3>1. e \in owed[s]
      BY <1>6, <2>2
    <3>2. e \in Hub!ToSet(chan[s]) => lastEventID[s] < e /\ e \in Nat
      BY <1>0, <1>3 DEF ChannelsInOrder
    <3>3. e \in Hub!ToSet(chan[s]) => e > lastEventID[s]
      BY <1>2, <3>2
    <3>4. e \in Hub!ToSet(received[s]) \cup missed[s] \/ e \in Hub!ToSet(chan[s])
      BY <1>0, <1>1, <3>1 DEF Hub!NoSilentGap
    <3> QED  BY <1>1, <1>6, <2>2, <3>3, <3>4
  <2> QED  BY <2>1, <2>2
<1> QED  BY <1>7, <1>8, <1>9, <1>10, <1>11 DEF HubInv

\* An event is published: it is newer than all, so everything stays in order;
\* a full channel gives it up, and the history gives up its oldest.
LEMMA PublishStep ==
  ASSUME HubInv, NEW u \in Connected, Hub!Publish(u), hubBroadcast' \subseteq Connected,
         UNCHANGED <<subscribers, lock, restarts, lastEventID, received>>
  PROVE  HubInv'
<1>0. /\ Hub!TypeOK /\ lock = "free" /\ HistoryInOrder /\ ChannelsInOrder /\ ClientsInOrder
      /\ NothingOwedUnseen /\ Hub!NoSilentGap
  BY DEF HubInv
<1> DEFINE id == nextEventID + 1
           kept == Hub!Trim(Append(history[u], id))
           gone(s) == {e \in owed[s] : s \notin subscribers /\ e > lastEventID[s] /\ e \notin Hub!ToSet(kept)}
           full(s) == IF s \in subscribers /\ Len(chan[s]) >= Hub!subscriberBuffer THEN {id} ELSE {}
           theirs(s) == UserOf[s] = u
<1>1. /\ chan \in [Streams -> Seq(Nat)] /\ history \in [Connected -> Seq(Nat)] /\ nextEventID \in Nat
      /\ lastEventID \in [Streams -> Nat] /\ received \in [Streams -> Seq(Nat)]
      /\ owed \in [Streams -> SUBSET Nat] /\ missed \in [Streams -> SUBSET Nat] /\ subscribers \subseteq Streams
  BY <1>0 DEF Hub!TypeOK
<1>2. /\ nextEventID' = id /\ history' = [history EXCEPT ![u] = kept]
      /\ chan' = [s \in Streams |-> IF s \in {k \in Streams : theirs(k)} \cap subscribers
                                    THEN Hub!Offer(chan[s], id) ELSE chan[s]]
      /\ owed' = [s \in Streams |-> IF s \in {k \in Streams : theirs(k)} /\ (s \in subscribers \/ lastEventID[s] > 0)
                                    THEN owed[s] \cup {id} ELSE owed[s]]
      /\ missed' = [s \in Streams |-> IF s \in {k \in Streams : theirs(k)}
                                      THEN missed[s] \cup gone(s) \cup full(s) ELSE missed[s]]
  BY DEF Hub!Publish
<1>3. id \in Nat /\ nextEventID < id /\ eventHistoryLimit \in Nat \ {0}
  BY <1>1, HubAssumption
<1>4. /\ kept \in Seq(Nat) /\ Len(kept) <= eventHistoryLimit /\ Increasing(kept)
      /\ Hub!ToSet(kept) \subseteq Hub!ToSet(history[u]) \cup {id} /\ id \in Hub!ToSet(kept)
      /\ \A e \in Hub!ToSet(kept) : e <= id
  <2> DEFINE h == history[u]
  <2>1. h \in Seq(Nat) /\ Increasing(h) /\ \A e \in Hub!ToSet(h) : e \in Nat /\ e <= nextEventID
    BY <1>0, <1>1, HeldIds DEF HistoryInOrder
  <2> HIDE DEF h, id
  <2>2. \A e \in Hub!ToSet(h) : e < id /\ e <= id
    BY <1>1, <1>3, <2>1
  <2>3. /\ Append(h, id) \in Seq(Nat) /\ Len(Append(h, id)) = Len(h) + 1 /\ Append(h, id)[Len(h) + 1] = id
        /\ Hub!ToSet(Append(h, id)) = Hub!ToSet(h) \cup {id} /\ Increasing(Append(h, id))
    BY <1>3, <2>1, <2>2, AppendedId
  <2>4. Append(h, id) # <<>>
    BY <1>3, <2>1
  <2>5. /\ kept \in Seq(Nat) /\ Len(kept) <= eventHistoryLimit /\ Increasing(kept)
        /\ Hub!ToSet(kept) \subseteq Hub!ToSet(h) \cup {id} /\ id \in Hub!ToSet(kept)
    BY <2>3, <2>4, TrimmedIds DEF h
  <2>6. \A e \in Hub!ToSet(kept) : e <= id
    BY <1>3, <2>2, <2>5
  <2> QED  BY <2>5, <2>6 DEF h
<1> HIDE DEF id, kept
<1>5. ASSUME NEW s \in Streams
      PROVE  /\ Hub!Offer(chan[s], id) \in Seq(Nat) /\ Increasing(Hub!Offer(chan[s], id))
             /\ \A e \in Hub!ToSet(Hub!Offer(chan[s], id)) : lastEventID[s] < e /\ e <= id
             /\ Hub!ToSet(chan[s]) \subseteq Hub!ToSet(Hub!Offer(chan[s], id))
             /\ s \in subscribers => id \in Hub!ToSet(Hub!Offer(chan[s], id)) \cup full(s)
  <2>1. /\ chan[s] \in Seq(Nat) /\ Increasing(chan[s])
        /\ \A e \in Hub!ToSet(chan[s]) : e \in Nat /\ lastEventID[s] < e /\ e <= nextEventID
    BY <1>0, <1>1, HeldIds DEF ChannelsInOrder
  <2>2. \A e \in Hub!ToSet(chan[s]) : e < id /\ lastEventID[s] < e /\ e <= id
    BY <1>1, <1>3, <2>1
  <2>3. lastEventID[s] < id /\ id <= id
    <3>1. lastEventID[s] <= nextEventID /\ lastEventID[s] \in Nat
      BY <1>0, <1>1 DEF ClientsInOrder
    <3> QED  BY <1>1, <1>3, <3>1
  <2>4. CASE Len(chan[s]) < Hub!subscriberBuffer
    <3>1. Hub!Offer(chan[s], id) = Append(chan[s], id)
      BY <2>4 DEF Hub!Offer
    <3>2. /\ Append(chan[s], id) \in Seq(Nat) /\ Hub!ToSet(Append(chan[s], id)) = Hub!ToSet(chan[s]) \cup {id}
          /\ Increasing(Append(chan[s], id))
      BY <1>3, <2>1, <2>2, AppendedId
    <3> QED  BY <2>2, <2>3, <3>1, <3>2
  <2>5. CASE ~(Len(chan[s]) < Hub!subscriberBuffer)
    <3>1. Hub!Offer(chan[s], id) = chan[s]
      BY <2>5 DEF Hub!Offer
    <3>2. Len(chan[s]) >= Hub!subscriberBuffer
      <4>1. Len(chan[s]) \in Nat /\ Hub!subscriberBuffer \in Nat
        BY <1>3, <2>1 DEF Hub!subscriberBuffer
      <4> QED  BY <2>5, <4>1
    <3> QED  BY <2>1, <2>2, <3>1, <3>2
  <2> QED  BY <2>4, <2>5
<1>6. ASSUME NEW s \in Streams
      PROVE  /\ chan'[s] = IF theirs(s) /\ s \in subscribers THEN Hub!Offer(chan[s], id) ELSE chan[s]
             /\ owed'[s] = IF theirs(s) /\ (s \in subscribers \/ lastEventID[s] > 0)
                           THEN owed[s] \cup {id} ELSE owed[s]
             /\ missed'[s] = IF theirs(s) THEN missed[s] \cup gone(s) \cup full(s) ELSE missed[s]
             /\ history'[UserOf[s]] = IF theirs(s) THEN kept ELSE history[UserOf[s]]
  <2>1. UserOf[s] \in Connected
    BY HubAssumption
  <2> QED  BY <1>1, <1>2, <2>1
<1>7. Hub!TypeOK'
  <2>1. chan' \in [Streams -> Seq(Nat)]
    BY <1>1, <1>2, <1>5
  <2>2. history' \in [Connected -> Seq(Nat)]
    BY <1>1, <1>2, <1>4
  <2>3. owed' \in [Streams -> SUBSET Nat]
    BY <1>1, <1>2, <1>3
  <2>4. missed' \in [Streams -> SUBSET Nat]
    <3>1. \A s \in Streams : gone(s) \subseteq Nat /\ full(s) \subseteq Nat
      BY <1>1, <1>3
    <3> QED  BY <1>1, <1>2, <3>1
  <2> QED  BY <1>0, <1>2, <1>3, <2>1, <2>2, <2>3, <2>4 DEF Hub!TypeOK
<1>8. HistoryInOrder'
  <2> SUFFICES ASSUME NEW v \in Connected
               PROVE  /\ Len(history'[v]) <= eventHistoryLimit /\ Increasing(history'[v])
                      /\ \A e \in Hub!ToSet(history'[v]) : e <= id
    BY <1>2 DEF HistoryInOrder
  <2>1. CASE v = u
    BY <1>1, <1>2, <1>4, <2>1
  <2>2. CASE v # u
    <3>1. history'[v] = history[v]
      BY <1>1, <1>2, <2>2
    <3>2. \A e \in Hub!ToSet(history[v]) : e \in Nat /\ e <= nextEventID
      <4>1. history[v] \in Seq(Nat)
        BY <1>0 DEF Hub!TypeOK
      <4>2. Hub!ToSet(history[v]) \subseteq Nat
        BY <4>1, HeldNumbers
      <4> QED  BY <1>0, <4>2 DEF HistoryInOrder
    <3>3. \A e \in Hub!ToSet(history[v]) : e <= id
      BY <1>1, <1>3, <3>2
    <3> QED  BY <1>0, <3>1, <3>3 DEF HistoryInOrder
  <2> QED  BY <2>1, <2>2
<1>9. ChannelsInOrder'
  <2> SUFFICES ASSUME NEW s \in Streams
               PROVE  /\ Increasing(chan'[s])
                      /\ \A e \in Hub!ToSet(chan'[s]) : lastEventID[s] < e /\ e <= id
                      /\ s \notin subscribers => chan'[s] = <<>>
    BY <1>2 DEF ChannelsInOrder
  <2>1. CASE theirs(s) /\ s \in subscribers
    BY <1>5, <1>6, <2>1
  <2>2. CASE ~(theirs(s) /\ s \in subscribers)
    <3>1. chan'[s] = chan[s]
      BY <1>6, <2>2
    <3>2. Hub!ToSet(chan[s]) \subseteq Nat /\ \A e \in Hub!ToSet(chan[s]) : lastEventID[s] < e /\ e <= nextEventID
      <4>1. chan[s] \in Seq(Nat)
        BY <1>1
      <4>2. Hub!ToSet(chan[s]) \subseteq Nat
        BY <4>1, HeldIds
      <4> QED  BY <1>0, <4>2 DEF ChannelsInOrder
    <3>3. \A e \in Hub!ToSet(chan[s]) : lastEventID[s] < e /\ e <= id
      BY <1>1, <1>3, <3>2
    <3> QED  BY <1>0, <3>1, <3>3 DEF ChannelsInOrder
  <2> QED  BY <2>1, <2>2
<1>10. ClientsInOrder'
  <2>1. \A s \in Streams : lastEventID[s] <= id
    <3>1. \A s \in Streams : lastEventID[s] \in Nat /\ lastEventID[s] <= nextEventID
      BY <1>0, <1>1 DEF ClientsInOrder
    <3> QED  BY <1>1, <1>3, <3>1
  <2> QED  BY <1>0, <1>2, <2>1 DEF ClientsInOrder
<1>11. NothingOwedUnseen'
  <2> SUFFICES ASSUME NEW s \in Streams, s \notin subscribers, lastEventID[s] = 0 PROVE owed'[s] \subseteq missed'[s]
    BY DEF NothingOwedUnseen
  <2>1. owed'[s] = owed[s]
    <3>1. ~(s \in subscribers \/ lastEventID[s] > 0)
      OBVIOUS
    <3>2. owed'[s] = IF theirs(s) /\ (s \in subscribers \/ lastEventID[s] > 0) THEN owed[s] \cup {id} ELSE owed[s]
      BY <1>6
    <3> HIDE DEF theirs
    <3> QED  BY <3>1, <3>2
  <2>2. missed[s] \subseteq missed'[s]
    BY <1>6
  <2> QED  BY <1>0, <2>1, <2>2 DEF NothingOwedUnseen
<1>12. Hub!NoSilentGap'
  <2> SUFFICES ASSUME NEW s \in Streams, NEW e \in owed'[s]
               PROVE  \/ e \in Hub!ToSet(received[s]) \cup missed'[s]
                      \/ s \in subscribers /\ e \in Hub!ToSet(chan'[s])
                      \/ s \notin subscribers /\ e \in Hub!ToSet(history'[UserOf[s]]) /\ e > lastEventID[s]
    BY DEF Hub!NoSilentGap
  <2>1. missed[s] \subseteq missed'[s]
    BY <1>6
  <2>2. ~theirs(s) =>
          chan'[s] = chan[s] /\ owed'[s] = owed[s] /\ missed'[s] = missed[s] /\ history'[UserOf[s]] = history[UserOf[s]]
    BY <1>6
  <2>3. CASE ~theirs(s)
    BY <1>0, <2>2, <2>3 DEF Hub!NoSilentGap
  <2>4. CASE theirs(s) /\ s \in subscribers
    <3>1. chan'[s] = Hub!Offer(chan[s], id) /\ owed'[s] = owed[s] \cup {id} /\ full(s) \subseteq missed'[s]
      BY <1>6, <2>4
    <3>2. CASE e = id
      BY <1>5, <2>4, <3>1, <3>2
    <3>3. CASE e \in owed[s]
      BY <1>0, <1>5, <2>1, <2>4, <3>1, <3>3 DEF Hub!NoSilentGap
    <3> QED  BY <3>1, <3>2, <3>3
  <2>5. CASE theirs(s) /\ s \notin subscribers
    <3>1. history'[UserOf[s]] = kept /\ gone(s) \subseteq missed'[s]
      BY <1>6, <2>5
    <3>2. CASE e \in owed[s]
      <4>1. \/ e \in Hub!ToSet(received[s]) \cup missed[s]
            \/ e > lastEventID[s]
        BY <1>0, <2>5, <3>2 DEF Hub!NoSilentGap
      <4>2. e > lastEventID[s] => e \in gone(s) \/ e \in Hub!ToSet(kept)
        BY <2>5, <3>2
      <4> HIDE DEF gone
      <4> QED  BY <2>1, <2>5, <3>1, <4>1, <4>2
    <3>3. CASE e \notin owed[s]
      <4>1. e = id
        BY <1>6, <3>3
      <4>2. id > lastEventID[s]
        <5>1. lastEventID[s] \in Nat /\ lastEventID[s] <= nextEventID
          BY <1>0, <1>1 DEF ClientsInOrder
        <5> QED  BY <1>1, <1>3, <5>1
      <4> QED  BY <1>4, <2>5, <3>1, <4>1, <4>2
    <3> QED  BY <3>2, <3>3
  <2> QED  BY <2>3, <2>4, <2>5
<1> QED  BY <1>0, <1>7, <1>8, <1>9, <1>10, <1>11, <1>12 DEF HubInv

\* A restart gives up everything owed and goes on from a later id.
LEMMA RestartStep ==
  ASSUME HubInv, Hub!Restart
  PROVE  HubInv'
<1>0. Hub!TypeOK /\ ClientsInOrder
  BY DEF HubInv
<1>1. /\ restarts < MaxRestarts /\ restarts' = restarts + 1
      /\ subscribers' = {} /\ hubBroadcast' = {} /\ lock' = "free"
      /\ chan' = [s \in Streams |-> <<>>] /\ history' = [v \in Connected |-> <<>>]
      /\ nextEventID' = nextEventID + 1 /\ missed' = owed
      /\ UNCHANGED <<lastEventID, received, owed>>
  BY DEF Hub!Restart
<1>2. <<>> \in Seq(Nat) /\ Len(<<>>) = 0 /\ Hub!ToSet(<<>>) = {} /\ Increasing(<<>>)
  BY DEF Hub!ToSet, Increasing
<1>3. restarts' \in 0..MaxRestarts /\ nextEventID' \in Nat
  BY <1>0, <1>1, HubAssumption DEF Hub!TypeOK
<1>4. Hub!TypeOK'
  BY <1>0, <1>1, <1>2, <1>3 DEF Hub!TypeOK
<1>5. HistoryInOrder'
  BY <1>1, <1>2, HubAssumption DEF HistoryInOrder
<1>6. ChannelsInOrder'
  BY <1>1, <1>2 DEF ChannelsInOrder
<1>7. ClientsInOrder'
  <2>1. nextEventID \in Nat /\ \A s \in Streams : lastEventID[s] \in Nat /\ lastEventID[s] <= nextEventID
    BY <1>0 DEF ClientsInOrder, Hub!TypeOK
  <2>2. \A s \in Streams : lastEventID[s] <= nextEventID'
    BY <1>1, <2>1
  <2> QED  BY <1>0, <1>1, <2>2 DEF ClientsInOrder
<1>8. NothingOwedUnseen' /\ Hub!NoSilentGap'
  BY <1>1 DEF NothingOwedUnseen, Hub!NoSilentGap
<1> QED  BY <1>1, <1>4, <1>5, <1>6, <1>7, <1>8 DEF HubInv

\* One step for every action of the hub.
LEMMA HubStep == HubInv /\ [Hub!Next]_hub => HubInv'
<1> SUFFICES ASSUME HubInv, [Hub!Next]_hub PROVE HubInv'
  OBVIOUS
<1>0. hubBroadcast \subseteq Connected /\ subscribers \subseteq Streams
  BY DEF HubInv, Hub!TypeOK
<1>1. ASSUME NEW s \in Streams, Hub!Stream(s) PROVE HubInv'
  BY <1>1, StreamStep
<1>2. ASSUME NEW s \in Streams, Hub!Deliver(s) PROVE HubInv'
  BY <1>2, DeliverStep
<1>3. ASSUME NEW s \in Streams, Hub!Disconnect(s) PROVE HubInv'
  BY <1>3, DisconnectStep
<1>4. ASSUME NEW u \in Connected, Hub!PublishTo(u) PROVE HubInv'
  <2>1. /\ Hub!Publish(u) /\ hubBroadcast' \subseteq Connected
        /\ UNCHANGED <<subscribers, lock, restarts, lastEventID, received>>
    BY <1>0, <1>4 DEF Hub!PublishTo
  <2> QED  BY <2>1, PublishStep
<1>5. ASSUME NEW u \in Connected, Hub!PublishNext(u) PROVE HubInv'
  <2>1. /\ Hub!Publish(u) /\ hubBroadcast' \subseteq Connected
        /\ UNCHANGED <<subscribers, lock, restarts, lastEventID, received>>
    BY <1>0, <1>5 DEF Hub!PublishNext
  <2> QED  BY <2>1, PublishStep
<1>6. CASE Hub!PublishToConnected
  <2>1. hubBroadcast' \subseteq Connected
    BY <1>0, <1>6, HubAssumption DEF Hub!PublishToConnected
  <2>2. UNCHANGED <<subscribers, chan, history, nextEventID, lock, restarts, lastEventID, received, owed, missed>>
    BY <1>6 DEF Hub!PublishToConnected, Hub!clientVars
  <2> QED
    BY <2>1, <2>2 DEF HubInv, Hub!TypeOK, HistoryInOrder, ChannelsInOrder, ClientsInOrder, NothingOwedUnseen,
                      Hub!NoSilentGap
<1>7. CASE Hub!Restart
  BY <1>7, RestartStep
<1>8. CASE UNCHANGED hub
  BY <1>8 DEF hub, HubInv, Hub!TypeOK, HistoryInOrder, ChannelsInOrder, ClientsInOrder, NothingOwedUnseen,
              Hub!NoSilentGap
<1> QED
  BY <1>1, <1>2, <1>3, <1>4, <1>5, <1>6, <1>7, <1>8 DEF Hub!Next

\* What the run checks follows.
LEMMA HubInvSuffices == HubInv => Hub!StreamsAreFaithful
BY DEF HubInv, ClientsInOrder, Increasing, Hub!StreamsAreFaithful, Hub!HubNeverWedged, Hub!SeenInOrder

(***************************************************************************)
(* A stream gets its member's events in order, none twice and none lost in *)
(* silence (RealtimeHub by itself): the ids of Publish grow, Subscribe     *)
(* replays exactly what is newer than the Last-Event-ID, and a history no  *)
(* longer than a channel always fits, so that Subscribe never waits under  *)
(* the hub's lock.                                                         *)
(***************************************************************************)
THEOREM StreamsFaithful == Hub!Spec => []Hub!StreamsAreFaithful
<1>1. Hub!Init => HubInv
  BY HubInitially
<1>2. HubInv /\ [Hub!Next]_(Hub!vars) => HubInv'
  BY HubStep DEF Hub!vars, hub
<1>3. HubInv => Hub!StreamsAreFaithful
  BY HubInvSuffices
<1> QED  BY <1>1, <1>2, <1>3, PTL DEF Hub!Spec

(***************************************************************************)
(* The same of the specification that the run checks, where the hub        *)
(* (Subscribe, Publish, Unsubscribe) is one scene beside the messages and  *)
(* the pushes.                                                             *)
(***************************************************************************)
THEOREM StreamsFaithfulAlways == MCSpec => []StreamsAreFaithful
<1>1. MCInit => HubInv
  BY HubInitially DEF MCInit
<1>2. HubInv /\ [MCNext]_<<scene, talk, hub, push>> => HubInv'
  <2>1. [MCNext]_<<scene, talk, hub, push>> => [Hub!Next]_hub
    BY DEF MCNext
  <2> QED  BY <2>1, HubStep
<1>3. HubInv => StreamsAreFaithful
  BY HubInvSuffices DEF StreamsAreFaithful
<1> QED  BY <1>1, <1>2, <1>3, PTL DEF MCSpec

-----------------------------------------------------------------------------
(* The push pipeline *)

NoticeItems == [kind : {"notice"}, of : Notices, to : Members]
Carriers ==
  {Pipeline!Idle}
    \union [item : Pipeline!Items, step : {"guard", "attempt", "send"}, device : Nat, attempt : Nat]
Fans ==
  [step : {"none", "list", "enqueue", "done", "failed"}, cursor : Nat, page : SUBSET Members,
   tries : Nat, dropped : BOOLEAN]

PushTypes ==
  /\ Pipeline!TypeOK
  /\ shards \in [Pipeline!Shards -> Seq(Pipeline!Items)] /\ broadcast \in Seq(NoticeItems)
  /\ worker \in [Pipeline!Workers -> Carriers] /\ fan \in [Notices -> Fans]
  /\ throughout \in [Notices -> SUBSET Members] /\ told \subseteq Messages
  /\ lateNotice \in [Notices -> SUBSET Members] /\ lateMessage \in [Messages -> Nat]

\* Notices are the broadcast workers' and everything else is in the shard of its
\* recipient, or with that shard's worker.
ItemsAtHome ==
  /\ \A i \in Pipeline!Shards : \A j \in 1..Len(shards[i]) :
       shards[i][j].kind # "notice" /\ shards[i][j].to % pushShardCount = i
  /\ \A w \in Pipeline!Workers : worker[w] # Pipeline!Idle =>
       \/ w \in Pipeline!BroadcastWorkers /\ worker[w].item.kind = "notice"
       \/ /\ w = <<"shard", worker[w].item.to % pushShardCount>>
          /\ worker[w].item.kind # "notice"

Walking(n) == fan[n].step \in {"list", "enqueue"}

\* A fan-out begins with its notice, and its page lies after its cursor.
WalkInOrder ==
  \A n \in Notices :
    /\ fan[n].step = "none" => fan[n] = Pipeline!NoFan
    /\ fan[n].step # "none" => n \in published \union removed
    /\ fan[n].step = "enqueue" <=> fan[n].page # {}
    /\ fan[n].step \in {"list", "done"} => ~fan[n].dropped
    /\ \A u \in fan[n].page : u > fan[n].cursor
    /\ \A u \in Members : enqueued[n][u] <= 1
    /\ \A u \in Members : u > fan[n].cursor => enqueued[n][u] = 0

\* The member is on the page that is being walked, or behind all of it.
StillToCome(n, u) ==
  u > fan[n].cursor /\ (u \in fan[n].page \/ \A v \in fan[n].page : v < u)

\* Who was a recipient all the time is one now, and is enqueued or still to come.
WalkComplete ==
  \A n \in Notices :
    /\ Walking(n) => throughout[n] \subseteq Pipeline!NoticeRecipients
    /\ Walking(n) /\ ~fan[n].dropped =>
         \A u \in throughout[n] : enqueued[n][u] = 1 \/ StillToCome(n, u)
    /\ fan[n].step = "done" => \A u \in throughout[n] : enqueued[n][u] = 1

\* The workers that are past the guard with an item of the notice.
Passed(n) ==
  {w \in Pipeline!BroadcastWorkers :
     worker[w].step \in {"attempt", "send"} /\ worker[w].item.of = n}
LateOnes(n) == lateNotice[n] \union {worker[w].item.to : w \in Passed(n)}

\* Once a notice is deleted nobody else passes the guard for it.
LateOnesFew ==
  /\ published \intersect removed = {}
  /\ \A n \in Notices :
       /\ n \in removed => Cardinality(LateOnes(n)) <= pushBroadcastWorkerCount
       /\ n \notin removed => lateNotice[n] = {}

\* A message is one item: in its recipient's shard or with that shard's worker.
Holds(item, m) == item.kind = "message" /\ item.of = m
HomeOf(m) == RecipientOf[m] % pushShardCount
Waiting(m) == {j \in 1..Len(shards[HomeOf(m)]) : Holds(shards[HomeOf(m)][j], m)}
CarrierOf(m) == worker[<<"shard", HomeOf(m)>>]
Carried(m) == Holds(CarrierOf(m).item, m)

OneItemEach ==
  \A m \in Messages :
    /\ \A j, k \in Waiting(m) : j = k
    /\ Carried(m) => Waiting(m) = {}
    /\ m \notin told => Waiting(m) = {} /\ ~Carried(m)

\* A late send is the last: the next guard finds the participant gone.
LateOnce ==
  \A m \in Messages :
    /\ lateMessage[m] <= 1
    /\ lateMessage[m] = 1 =>
         /\ ~Pipeline!MessageStillAvailable(m) /\ m \in told /\ Waiting(m) = {}
         /\ Carried(m) => CarrierOf(m).step = "attempt"

PushInv ==
  /\ PushTypes /\ ItemsAtHome /\ Pipeline!NoSendOnClosedQueue /\ WalkInOrder /\ WalkComplete
  /\ LateOnesFew /\ OneItemEach /\ LateOnce

-----------------------------------------------------------------------------
(* Pages, shards and workers *)

\* The instance counts like everybody else.
LEMMA SameCardinality == ASSUME NEW S PROVE Pipeline!Cardinality(S) = Cardinality(S)
BY Zenon DEF Pipeline!Cardinality, Cardinality

\* A set of numbers has a least one.
LEMMA NextIsLeast ==
  ASSUME NEW S, S \subseteq Nat, S # {}
  PROVE  Pipeline!NextOf(S) \in S /\ \A u \in S : Pipeline!NextOf(S) <= u
<1>1. PICK x \in S : \A y \in S : ~(<<y, x>> \in OpToRel(<, Nat))
  BY NatLessThanWellFounded, WFMin
<1>2. \A y \in S : ~(y < x)
  BY <1>1 DEF OpToRel
<1>3. \A y \in S : x <= y
  BY <1>2
<1> QED
  BY <1>3 DEF Pipeline!NextOf, Pipeline!Min

\* A page is the first of the recipients after the cursor: nobody who is left
\* out comes before one of the page, and an empty page leaves nobody out.
LEMMA PageIsFirst ==
  ASSUME NEW cursor \in Nat, PushTypes
  PROVE  LET page == Pipeline!ListNoticeRecipientSeqs(cursor)
         IN  /\ page \subseteq Pipeline!NoticeRecipients /\ \A u \in page : u > cursor
             /\ \A u \in Pipeline!NoticeRecipients : u > cursor =>
                  page # {} /\ (u \in page \/ \A v \in page : v < u)
<1> DEFINE left == {u \in Pipeline!NoticeRecipients : u > cursor}
           Before(u) == {v \in left : v < u}
           page == {u \in left : Cardinality(Before(u)) < noticeBroadcastPageSize}
<1>1. Pipeline!ListNoticeRecipientSeqs(cursor) = page
  BY SameCardinality DEF Pipeline!ListNoticeRecipientSeqs, Pipeline!After
<1>2. left \subseteq Members /\ left \subseteq Nat /\ IsFiniteSet(left)
  <2>1. left \subseteq Members
    BY DEF PushTypes, Pipeline!TypeOK, Pipeline!NoticeRecipients
  <2> QED
    BY <2>1, PushAssumption, FS_Subset
<1>3. ASSUME NEW u \in left, NEW v \in page, u <= v PROVE u \in page
  <2>1. Before(u) \subseteq Before(v)
    BY <1>2, <1>3
  <2>2. IsFiniteSet(Before(v)) /\ Before(v) \subseteq left
    BY <1>2, FS_Subset
  <2>3. Cardinality(Before(u)) <= Cardinality(Before(v))
    BY <2>1, <2>2, FS_Subset
  <2>4. Cardinality(Before(u)) \in Nat /\ Cardinality(Before(v)) \in Nat
    BY <2>1, <2>2, FS_Subset, FS_CardinalityType
  <2> QED
    BY <2>3, <2>4, PushAssumption
<1>4. ASSUME left # {} PROVE page # {}
  <2>1. PICK x \in left : \A y \in left : ~(<<y, x>> \in OpToRel(<, Nat))
    <3> HIDE DEF left
    <3> QED
      BY <1>2, <1>4, NatLessThanWellFounded, WFMin
  <2>2. Before(x) = {}
    BY <2>1, <1>2 DEF OpToRel
  <2>3. Cardinality(Before(x)) = 0
    BY <2>2, FS_EmptySet
  <2> QED
    BY <2>3, PushAssumption
<1>5. \A u \in left : page # {} /\ (u \in page \/ \A v \in page : v < u)
  <2> SUFFICES ASSUME NEW u \in left PROVE page # {} /\ (u \in page \/ \A v \in page : v < u)
    OBVIOUS
  <2>1. page # {}
    BY <1>4
  <2>2. ASSUME u \notin page, NEW v \in page PROVE v < u
    <3>1. ~(u <= v)
      BY <1>3, <2>2
    <3>2. u \in Nat /\ v \in Nat
      BY <1>2
    <3> QED
      BY <3>1, <3>2
  <2> QED
    BY <2>1, <2>2
<1> QED
  BY <1>1, <1>5

\* The workers of a shard and of the broadcast are different ones.
LEMMA WorkersApart ==
  /\ \A w \in Pipeline!Workers :
       \/ w \in Pipeline!BroadcastWorkers /\ w[1] = "broadcast"
       \/ \E i \in Pipeline!Shards : w = <<"shard", i>> /\ w \notin Pipeline!BroadcastWorkers
  /\ \A i \in Pipeline!Shards : <<"shard", i>> \in Pipeline!Workers \ Pipeline!BroadcastWorkers
BY DEF Pipeline!Workers, Pipeline!BroadcastWorkers

LEMMA ImageIsNoLarger ==
  ASSUME NEW S, IsFiniteSet(S), NEW f, DOMAIN f = S, f = [x \in S |-> f[x]]
  PROVE  /\ IsFiniteSet({f[x] : x \in S})
         /\ Cardinality({f[x] : x \in S}) <= Cardinality(S)
<1>1. f \in Surjection(S, {f[x] : x \in S})
  BY DEF Surjection
<1> QED
  BY <1>1, FS_Surjection

LEMMA BroadcastWorkersCounted ==
  /\ IsFiniteSet(Pipeline!BroadcastWorkers)
  /\ Cardinality(Pipeline!BroadcastWorkers) <= pushBroadcastWorkerCount
<1> DEFINE S == 1..pushBroadcastWorkerCount
           f == [i \in S |-> <<"broadcast", i>>]
<1>1. IsFiniteSet(S) /\ Cardinality(S) = pushBroadcastWorkerCount
  BY PushAssumption, FS_Interval
<1>2. DOMAIN f = S /\ f = [x \in S |-> f[x]]
  OBVIOUS
<1>3. Pipeline!BroadcastWorkers = {f[x] : x \in S}
  BY DEF Pipeline!BroadcastWorkers
<1> HIDE DEF S, f
<1>4. IsFiniteSet({f[x] : x \in S}) /\ Cardinality({f[x] : x \in S}) <= Cardinality(S)
  BY <1>1, <1>2, ImageIsNoLarger
<1> QED
  BY <1>1, <1>3, <1>4

\* Every member and every message has a shard.
LEMMA ShardsExist ==
  /\ \A u \in Members : u % pushShardCount \in Pipeline!Shards
  /\ \A m \in Messages : HomeOf(m) \in Pipeline!Shards
<1>1. \A u \in Nat, k \in Nat \ {0} : u % k \in 0..(k - 1)
  OBVIOUS
<1>2. Members \subseteq Nat /\ pushShardCount \in Nat \ {0}
  BY PushAssumption
<1>3. \A m \in Messages : RecipientOf[m] \in Members
  BY PushAssumption
<1> QED
  BY <1>1, <1>2, <1>3 DEF Pipeline!Shards, HomeOf

LEMMA ItemFacts ==
  /\ \A item \in Pipeline!Items :
       /\ item.to \in Members /\ item.kind \in {"message", "review", "notice"}
       /\ item.kind = "message" => item.of \in Messages /\ item.to = RecipientOf[item.of]
       /\ item.kind = "notice" => item.of \in Notices
  /\ NoticeItems \subseteq Pipeline!Items
  /\ \A m \in Messages : [kind |-> "message", of |-> m, to |-> RecipientOf[m]] \in Pipeline!Items
BY PushAssumption DEF Pipeline!Items, NoticeItems

\* A queue of notices is a queue of items.
LEMMA QueueOfNotices == ASSUME NEW s \in Seq(NoticeItems) PROVE Pipeline!ToSet(s) \subseteq Pipeline!Items
<1>1. \A i \in DOMAIN s : s[i] \in NoticeItems
  OBVIOUS
<1> QED
  BY <1>1, ItemFacts DEF Pipeline!ToSet

\* What an offer does: the recipient's shard gets the item or is full.
LEMMA OfferTypes ==
  ASSUME PushTypes, NEW item \in Pipeline!Items, Pipeline!Offer(item)
  PROVE  LET i == item.to % pushShardCount
         IN  /\ i \in Pipeline!Shards
             /\ shards' = shards \/ shards' = [shards EXCEPT ![i] = Append(shards[i], item)]
             /\ shards' \in [Pipeline!Shards -> Seq(Pipeline!Items)]
             /\ \A k \in Pipeline!Shards : Len(shards'[k]) <= pushShardCapacity
<1> DEFINE i == item.to % pushShardCount
<1>1. i \in Pipeline!Shards
  BY ItemFacts, ShardsExist
<1>2. shards \in [Pipeline!Shards -> Seq(Pipeline!Items)]
        /\ \A k \in Pipeline!Shards : Len(shards[k]) <= pushShardCapacity
  BY DEF PushTypes, Pipeline!TypeOK
<1>3. shards' = IF Len(shards[i]) < pushShardCapacity
                THEN [shards EXCEPT ![i] = Append(shards[i], item)] ELSE shards
  BY DEF Pipeline!Offer
<1> HIDE DEF i
<1>4. shards[i] \in Seq(Pipeline!Items)
  BY <1>1, <1>2
<1>5. Append(shards[i], item) \in Seq(Pipeline!Items) /\ Len(Append(shards[i], item)) = Len(shards[i]) + 1
  BY <1>4
<1>6. CASE Len(shards[i]) < pushShardCapacity
  <2>1. shards' = [shards EXCEPT ![i] = Append(shards[i], item)]
    BY <1>3, <1>6
  <2>2. Len(shards[i]) \in Nat
    BY <1>4
  <2>3. Len(Append(shards[i], item)) <= pushShardCapacity
    BY <1>5, <1>6, <2>2, PushAssumption
  <2> QED
    BY <1>1, <1>2, <1>5, <2>1, <2>3 DEF i
<1>7. CASE ~(Len(shards[i]) < pushShardCapacity)
  BY <1>1, <1>2, <1>3, <1>7 DEF i
<1> QED
  BY <1>6, <1>7

Sends == [item : Pipeline!Items, step : {"guard", "attempt", "send"}, device : Nat, attempt : Nat]

\* The next device or none.
LEMMA NextDeviceMoves ==
  ASSUME NEW d \in Sends
  PROVE  \/ Pipeline!NextDevice(d) = Pipeline!Idle
         \/ /\ Pipeline!NextDevice(d) \in Sends
            /\ Pipeline!NextDevice(d).item = d.item /\ Pipeline!NextDevice(d).step = "attempt"
<1> DEFINE e == [d EXCEPT !.device = @ + 1, !.attempt = 1, !.step = "attempt"]
<1>0. d.device + 1 \in Nat /\ d.item \in Pipeline!Items
  BY DEF Sends
<1>1. e \in Sends /\ e.item = d.item /\ e.step = "attempt"
  BY <1>0 DEF Sends
<1>2. Pipeline!NextDevice(d) = e \/ Pipeline!NextDevice(d) = Pipeline!Idle
  BY DEF Pipeline!NextDevice
<1> QED
  BY <1>1, <1>2

\* A delivery either lets its item go or goes on with it.
LEMMA DeliveryMoves ==
  ASSUME PushTypes, NEW w \in Pipeline!Workers, NEW answer,
         Pipeline!Deliver(w) \/ Pipeline!Attempt(w) \/ Pipeline!SendPush(w, answer)
  PROVE  /\ worker[w] # Pipeline!Idle
         /\ worker'[w] \in Carriers
         /\ worker' = [worker EXCEPT ![w] = worker'[w]]
         /\ worker'[w] = Pipeline!Idle \/ worker'[w].item = worker[w].item
         /\ worker'[w] = Pipeline!Idle \/ worker'[w].step \in {"attempt", "send"}
<1>1. worker \in [Pipeline!Workers -> Carriers] /\ worker[w] \in Carriers /\ DOMAIN worker = Pipeline!Workers
  BY DEF PushTypes
<1>2. worker[w].step \in {"guard", "attempt", "send"}
  BY DEF Pipeline!Deliver, Pipeline!Attempt, Pipeline!SendPush
<1>3. worker[w] # Pipeline!Idle
  BY <1>2 DEF Pipeline!Idle
<1>4. PICK d \in Sends : d = worker[w]
  BY <1>1, <1>3 DEF Carriers, Sends
<1>5. Sends \subseteq Carriers /\ Pipeline!Idle \in Carriers
  BY DEF Carriers, Sends
<1>6. CASE Pipeline!Deliver(w)
  <2> DEFINE e == [d EXCEPT !.step = "attempt", !.device = 1, !.attempt = 1]
  <2>1. e \in Sends /\ e.item = d.item /\ e.step = "attempt"
    BY DEF Sends
  <2>2. worker' = [worker EXCEPT ![w] = e] \/ worker' = [worker EXCEPT ![w] = Pipeline!Idle]
    BY <1>4, <1>6 DEF Pipeline!Deliver
  <2> HIDE DEF e
  <2> QED
    BY <1>1, <1>3, <1>4, <1>5, <2>1, <2>2
<1>7. CASE Pipeline!Attempt(w)
  <2> DEFINE e == [d EXCEPT !.step = "send"]
  <2>1. e \in Sends /\ e.item = d.item /\ e.step = "send"
    BY DEF Sends
  <2>2. \/ worker' = [worker EXCEPT ![w] = e] \/ worker' = [worker EXCEPT ![w] = Pipeline!Idle]
        \/ worker' = [worker EXCEPT ![w] = Pipeline!NextDevice(d)]
    BY <1>4, <1>7 DEF Pipeline!Attempt
  <2> HIDE DEF e
  <2> QED
    BY <1>1, <1>3, <1>4, <1>5, <2>1, <2>2, NextDeviceMoves
<1>8. CASE Pipeline!SendPush(w, answer)
  <2> DEFINE e == [d EXCEPT !.step = "attempt", !.attempt = @ + 1]
  <2>0. d.attempt + 1 \in Nat
    BY DEF Sends
  <2>1. e \in Sends /\ e.item = d.item /\ e.step = "attempt"
    BY <2>0 DEF Sends
  <2>2. worker' = [worker EXCEPT ![w] = e] \/ worker' = [worker EXCEPT ![w] = Pipeline!NextDevice(d)]
    BY <1>4, <1>8 DEF Pipeline!SendPush
  <2> HIDE DEF e
  <2> QED
    BY <1>1, <1>3, <1>4, <1>5, <2>1, <2>2, NextDeviceMoves
<1> QED
  BY <1>6, <1>7, <1>8

\* After a send a worker is before the next attempt or done.
LEMMA SendGoesOn ==
  ASSUME PushTypes, NEW w \in Pipeline!Workers, NEW answer, Pipeline!SendPush(w, answer)
  PROVE  worker'[w] = Pipeline!Idle \/ worker'[w].step = "attempt"
<1>1. worker[w] \in Carriers /\ DOMAIN worker = Pipeline!Workers /\ worker[w].step = "send"
  BY DEF PushTypes, Pipeline!SendPush
<1>2. PICK d \in Sends : d = worker[w]
  BY <1>1 DEF Carriers, Sends, Pipeline!Idle
<1> DEFINE e == [d EXCEPT !.step = "attempt", !.attempt = @ + 1]
<1>3. e.step = "attempt"
  BY DEF Sends
<1>4. worker' = [worker EXCEPT ![w] = e] \/ worker' = [worker EXCEPT ![w] = Pipeline!NextDevice(d)]
  BY <1>2 DEF Pipeline!SendPush
<1> HIDE DEF e
<1> QED
  BY <1>1, <1>3, <1>4, NextDeviceMoves

\* A worker takes the first item of its own queue.
LEMMA TakeMoves ==
  ASSUME PushTypes, NEW w \in Pipeline!Workers, Pipeline!Take(w)
  PROVE  /\ worker[w] = Pipeline!Idle
         /\ worker' = [worker EXCEPT ![w] = worker'[w]] /\ worker'[w] \in Carriers
         /\ worker'[w].step = "guard" /\ worker'[w] # Pipeline!Idle
         /\ \/ /\ w \in Pipeline!BroadcastWorkers /\ UNCHANGED shards
               /\ broadcast # <<>> /\ broadcast' = Tail(broadcast)
               /\ worker'[w].item = Head(broadcast)
            \/ \E i \in Pipeline!Shards :
                 /\ w = <<"shard", i>> /\ UNCHANGED broadcast
                 /\ shards[i] # <<>> /\ shards' = [shards EXCEPT ![i] = Tail(shards[i])]
                 /\ worker'[w].item = Head(shards[i])
<1> DEFINE taken(q) == [Pipeline!Idle EXCEPT !.item = Head(q), !.step = "guard"]
<1>0. ASSUME NEW q, Head(q) \in Pipeline!Items
      PROVE  taken(q) \in Sends /\ taken(q).step = "guard" /\ taken(q).item = Head(q)
  BY <1>0 DEF Pipeline!Idle, Sends
<1>1. worker \in [Pipeline!Workers -> Carriers]
        /\ shards \in [Pipeline!Shards -> Seq(Pipeline!Items)] /\ broadcast \in Seq(NoticeItems)
  BY DEF PushTypes
<1>2. CASE w \in Pipeline!BroadcastWorkers
  <2>1. /\ worker[w] = Pipeline!Idle /\ broadcast # <<>> /\ UNCHANGED shards
        /\ broadcast' = Tail(broadcast) /\ worker' = [worker EXCEPT ![w] = taken(broadcast)]
    BY <1>2 DEF Pipeline!Take
  <2>2. Head(broadcast) \in Pipeline!Items
    BY <1>1, <2>1, ItemFacts, HeadTailProperties
  <2>3. taken(broadcast) \in Carriers /\ taken(broadcast).step = "guard" /\ taken(broadcast) # Pipeline!Idle
    BY <1>0, <2>2 DEF Carriers, Sends, Pipeline!Idle
  <2>4. worker'[w] = taken(broadcast)
    BY <1>1, <2>1
  <2> QED
    BY <1>0, <1>1, <1>2, <2>1, <2>2, <2>3, <2>4
<1>3. CASE w \notin Pipeline!BroadcastWorkers
  <2>0. PICK i \in Pipeline!Shards : w = <<"shard", i>>
    BY <1>3, WorkersApart
  <2>1. /\ worker[w] = Pipeline!Idle /\ shards[i] # <<>> /\ UNCHANGED broadcast
        /\ shards' = [shards EXCEPT ![i] = Tail(shards[i])] /\ worker' = [worker EXCEPT ![w] = taken(shards[i])]
    BY <1>3, <2>0, w[2] = i DEF Pipeline!Take
  <2>2. Head(shards[i]) \in Pipeline!Items
    BY <1>1, <2>1, HeadTailProperties
  <2>3. taken(shards[i]) \in Carriers /\ taken(shards[i]).step = "guard" /\ taken(shards[i]) # Pipeline!Idle
    BY <1>0, <2>2 DEF Carriers, Sends, Pipeline!Idle
  <2>4. worker'[w] = taken(shards[i])
    BY <1>1, <2>1
  <2> QED
    BY <1>0, <1>1, <2>0, <2>1, <2>2, <2>3, <2>4
<1> QED
  BY <1>2, <1>3

\* What a walk of a page does to its fan-out.
LEMMA AdvanceMoves ==
  ASSUME PushTypes, WalkInOrder, NEW n \in Notices, NEW dropped \in BOOLEAN,
         fan[n].step = "enqueue", Pipeline!Advance(n, dropped)
  PROVE  LET u == Pipeline!NextOf(fan[n].page)
             rest == fan[n].page \ {u}
         IN  /\ u \in fan[n].page /\ u \in Members /\ u > fan[n].cursor
             /\ \A v \in rest : v \in Members /\ v > u
             /\ fan' = [fan EXCEPT ![n] = fan'[n]] /\ fan'[n] \in Fans
             /\ fan'[n].cursor = u /\ fan'[n].page = rest
             /\ fan'[n].dropped = (fan[n].dropped \/ dropped)
             /\ fan'[n].step = IF rest # {} THEN "enqueue"
                               ELSE IF fan'[n].dropped THEN "failed" ELSE "list"
<1> DEFINE u == Pipeline!NextOf(fan[n].page)
           rest == fan[n].page \ {u}
<1>1. fan \in [Notices -> Fans] /\ fan[n] \in Fans
  BY DEF PushTypes
<1>2. fan[n].page # {} /\ fan[n].page \subseteq Members /\ fan[n].page \subseteq Nat
        /\ \A v \in fan[n].page : v > fan[n].cursor
  BY <1>1, PushAssumption DEF WalkInOrder, Fans
<1>3. u \in fan[n].page /\ \A v \in fan[n].page : u <= v
  BY <1>2, NextIsLeast
<1>4. u \in Nat /\ fan[n].cursor \in Nat /\ u > fan[n].cursor
  BY <1>1, <1>2, <1>3 DEF Fans
<1>5. \A v \in rest : v > u
  BY <1>2, <1>3, <1>4
<1>6. Pipeline!Max({fan[n].cursor, u}) = u
  BY <1>4 DEF Pipeline!Max
<1>7. fan' = [fan EXCEPT ![n].cursor = u, ![n].page = rest, ![n].dropped = fan[n].dropped \/ dropped,
                         ![n].step = IF rest # {} THEN "enqueue"
                                     ELSE IF fan[n].dropped \/ dropped THEN "failed" ELSE "list"]
  BY <1>6 DEF Pipeline!Advance
<1> HIDE DEF u, rest
<1>8. rest \in SUBSET Members /\ fan[n].dropped \in BOOLEAN /\ u \in Members
  BY <1>1, <1>2, <1>3 DEF rest, Fans
<1>9. fan'[n] = [fan[n] EXCEPT !.cursor = u, !.page = rest, !.dropped = fan[n].dropped \/ dropped,
                         !.step = IF rest # {} THEN "enqueue"
                                  ELSE IF fan[n].dropped \/ dropped THEN "failed" ELSE "list"]
  BY <1>1, <1>7
<1>10. fan' = [fan EXCEPT ![n] = fan'[n]]
  BY <1>1, <1>7
<1>11. fan'[n] \in Fans
  BY <1>1, <1>4, <1>8, <1>9 DEF Fans
<1>12. /\ fan'[n].cursor = u /\ fan'[n].page = rest /\ fan'[n].dropped = (fan[n].dropped \/ dropped)
       /\ fan'[n].step = IF rest # {} THEN "enqueue"
                         ELSE IF fan[n].dropped \/ dropped THEN "failed" ELSE "list"
  BY <1>1, <1>9 DEF Fans
<1> QED
  BY <1>2, <1>3, <1>4, <1>5, <1>8, <1>10, <1>11, <1>12 DEF u, rest

\* Each part of the invariant rests on some of the variables.
LEMMA PushFrame ==
  /\ UNCHANGED <<shards, worker>> /\ ItemsAtHome => ItemsAtHome'
  /\ UNCHANGED <<phase, fan>> /\ Pipeline!NoSendOnClosedQueue => Pipeline!NoSendOnClosedQueue'
  /\ UNCHANGED <<fan, published, removed, enqueued>> /\ WalkInOrder => WalkInOrder'
  /\ UNCHANGED <<fan, throughout, enqueued, reachable, noticeOff>> /\ WalkComplete => WalkComplete'
  /\ UNCHANGED <<published, removed, lateNotice, worker>> /\ LateOnesFew => LateOnesFew'
  /\ UNCHANGED <<shards, worker, told>> /\ OneItemEach => OneItemEach'
  /\ UNCHANGED <<shards, worker, told, withdrawn, lateMessage>> /\ LateOnce => LateOnce'
<1>1. UNCHANGED <<shards, worker>> /\ ItemsAtHome => ItemsAtHome'
  BY DEF ItemsAtHome
<1>2. UNCHANGED <<phase, fan>> /\ Pipeline!NoSendOnClosedQueue => Pipeline!NoSendOnClosedQueue'
  BY DEF Pipeline!NoSendOnClosedQueue
<1>3. UNCHANGED <<fan, published, removed, enqueued>> /\ WalkInOrder => WalkInOrder'
  BY DEF WalkInOrder
<1>4. UNCHANGED <<fan, throughout, enqueued, reachable, noticeOff>> /\ WalkComplete => WalkComplete'
  BY DEF WalkComplete, Walking, StillToCome, Pipeline!NoticeRecipients
<1>5. UNCHANGED <<published, removed, lateNotice, worker>> /\ LateOnesFew => LateOnesFew'
  <2>1. ASSUME UNCHANGED <<published, removed, lateNotice, worker>>
        PROVE  \A n : LateOnes(n)' = LateOnes(n)
    BY <2>1 DEF LateOnes, Passed
  <2> QED
    BY <2>1 DEF LateOnesFew
<1>6. UNCHANGED <<shards, worker, told>> /\ OneItemEach => OneItemEach'
  BY DEF OneItemEach, Waiting, Carried, CarrierOf
<1>7. UNCHANGED <<shards, worker, told, withdrawn, lateMessage>> /\ LateOnce => LateOnce'
  BY DEF LateOnce, Waiting, Carried, CarrierOf, Pipeline!MessageStillAvailable
<1> QED
  BY <1>1, <1>2, <1>3, <1>4, <1>5, <1>6, <1>7

(***************************************************************************)
(* The fan-out of a notice                                                 *)
(***************************************************************************)
\* A notice is published: its walk begins unless the shutdown has.
LEMMA PublishNoticeStep == ASSUME PushInv, NEW n \in Notices, Pipeline!NotifyNoticePublished(n) PROVE PushInv'
<1>0. /\ n \notin published \union removed /\ published' = published \union {n}
      /\ fan' = IF Pipeline!Closing THEN fan ELSE [fan EXCEPT ![n].step = "list"]
      /\ throughout' = [throughout EXCEPT ![n] = Pipeline!NoticeRecipients]
      /\ UNCHANGED <<removed, reachable, noticeOff, messageOff, withdrawn, reviewed, shards,
                     broadcast, worker, phase, enqueued, told, lateNotice, lateMessage>>
  BY DEF Pipeline!NotifyNoticePublished, Pipeline!startProducer, Pipeline!lateVars
<1>1. /\ fan \in [Notices -> Fans] /\ fan[n] \in Fans /\ fan[n] = Pipeline!NoFan
      /\ throughout \in [Notices -> SUBSET Members] /\ Pipeline!NoticeRecipients \subseteq Members
      /\ enqueued \in [Notices -> [Members -> Nat]]
  BY <1>0 DEF PushInv, PushTypes, Pipeline!TypeOK, WalkInOrder, Fans, Pipeline!NoticeRecipients
<1>2. /\ fan[n].cursor = 0 /\ fan[n].page = {} /\ ~fan[n].dropped /\ fan[n].step = "none"
  BY <1>1 DEF Pipeline!NoFan
<1>3. fan' \in [Notices -> Fans] /\ \A k \in Notices : k # n => fan'[k] = fan[k]
  BY <1>0, <1>1 DEF Fans
<1>4. \/ Pipeline!Closing /\ fan' = fan
      \/ /\ ~Pipeline!Closing /\ fan'[n].step = "list"
         /\ fan'[n].cursor = 0 /\ fan'[n].page = {} /\ ~fan'[n].dropped
  BY <1>0, <1>1, <1>2 DEF Fans
<1>5. PushTypes'
  BY ZenonT(60), <1>0, <1>1, <1>3 DEF PushInv, PushTypes, Pipeline!TypeOK, Fans
<1>6. Pipeline!NoSendOnClosedQueue'
  BY <1>0, <1>4, <1>3 DEF PushInv, Pipeline!NoSendOnClosedQueue, Pipeline!Closing, Pipeline!Running,
                    Pipeline!NotifyNoticePublished
<1>7. \A u \in Members : enqueued'[n][u] <= 1 /\ (u > 0 => enqueued'[n][u] = 0)
  BY <1>0, <1>2 DEF PushInv, WalkInOrder
<1>8. WalkInOrder'
  BY <1>0, <1>2, <1>3, <1>4, <1>7 DEF PushInv, WalkInOrder
<1>9. WalkComplete'
  <2> SUFFICES ASSUME NEW k \in Notices
               PROVE  /\ Walking(k)' => throughout'[k] \subseteq Pipeline!NoticeRecipients'
                      /\ Walking(k)' /\ ~fan'[k].dropped =>
                           \A u \in throughout'[k] : enqueued'[k][u] = 1 \/ StillToCome(k, u)'
                      /\ fan'[k].step = "done" => \A u \in throughout'[k] : enqueued'[k][u] = 1
    BY DEF WalkComplete
  <2>1. CASE k # n
    <3>1. fan'[k] = fan[k] /\ throughout'[k] = throughout[k] /\ enqueued'[k] = enqueued[k]
           /\ Pipeline!NoticeRecipients' = Pipeline!NoticeRecipients
      BY <1>0, <1>1, <1>3, <2>1 DEF Pipeline!NoticeRecipients
    <3> QED
      BY <3>1 DEF PushInv, WalkComplete, Walking, StillToCome
  <2>2. CASE k = n
    <3>1. throughout'[n] = Pipeline!NoticeRecipients /\ Pipeline!NoticeRecipients' = Pipeline!NoticeRecipients
      BY <1>0, <1>1 DEF Pipeline!NoticeRecipients
    <3>2. Pipeline!NoticeRecipients \subseteq Members
      BY <1>1
    <3>3. \A u \in Members : u > 0
      BY PushAssumption
    <3>4. \A u \in throughout'[n] : u > 0
      BY <3>1, <3>2, <3>3
    <3> QED
      BY <1>2, <1>4, <2>2, <3>1, <3>4 DEF Walking, StillToCome
  <2> QED
    BY <2>1, <2>2
<1>10. LateOnesFew'
  BY <1>0 DEF PushInv, LateOnesFew, LateOnes, Passed
<1> QED
  BY <1>0, <1>5, <1>6, <1>8, <1>9, <1>10, PushFrame DEF PushInv

\* Another page is read, or the walk is over.
LEMMA ListPageStep == ASSUME PushInv, NEW n \in Notices, Pipeline!ListPage(n) PROVE PushInv'
<1> DEFINE page == Pipeline!ListNoticeRecipientSeqs(fan[n].cursor)
<1>0. /\ fan[n].step = "list" /\ Pipeline!Running
      /\ fan' = [fan EXCEPT ![n].step = IF page = {} THEN "done" ELSE "enqueue",
                            ![n].page = page, ![n].tries = 0]
      /\ UNCHANGED <<published, removed, reachable, noticeOff, messageOff, withdrawn, reviewed, shards,
                     broadcast, worker, phase, enqueued, throughout, told, lateNotice, lateMessage>>
  BY DEF Pipeline!ListPage, Pipeline!lateVars, Pipeline!dbVars
<1>1. fan \in [Notices -> Fans] /\ fan[n] \in Fans /\ fan[n].cursor \in Nat
  BY DEF PushInv, PushTypes, Fans
<1>2. /\ page \subseteq Pipeline!NoticeRecipients /\ \A u \in page : u > fan[n].cursor
      /\ \A u \in Pipeline!NoticeRecipients : u > fan[n].cursor =>
           page # {} /\ (u \in page \/ \A v \in page : v < u)
  BY <1>1, PageIsFirst DEF PushInv
<1> HIDE DEF page
<1>3. page \subseteq Members
  BY <1>2 DEF PushInv, PushTypes, Pipeline!TypeOK, Pipeline!NoticeRecipients
<1>4. /\ fan' \in [Notices -> Fans] /\ \A k \in Notices : k # n => fan'[k] = fan[k]
      /\ fan'[n].step = (IF page = {} THEN "done" ELSE "enqueue") /\ fan'[n].page = page
      /\ fan'[n].cursor = fan[n].cursor /\ fan'[n].dropped = fan[n].dropped
  BY <1>0, <1>1, <1>3 DEF Fans
<1>5. PushTypes'
  BY <1>0, <1>4 DEF PushInv, PushTypes, Pipeline!TypeOK, Fans
<1>6. Pipeline!NoSendOnClosedQueue'
  BY <1>0, <1>4 DEF PushInv, Pipeline!NoSendOnClosedQueue
<1>7. WalkInOrder'
  <2>1. /\ n \in published \union removed /\ ~fan[n].dropped
        /\ \A u \in Members : enqueued[n][u] <= 1 /\ (u > fan[n].cursor => enqueued[n][u] = 0)
    BY <1>0 DEF PushInv, WalkInOrder
  <2>2. ASSUME NEW k \in Notices, k # n PROVE fan'[k] = fan[k]
    BY <1>4, <2>2
  <2> QED
    <3> SUFFICES ASSUME NEW k \in Notices
                 PROVE  /\ fan'[k].step = "none" => fan'[k] = Pipeline!NoFan
                        /\ fan'[k].step # "none" => k \in published' \union removed'
                        /\ fan'[k].step = "enqueue" <=> fan'[k].page # {}
                        /\ fan'[k].step \in {"list", "done"} => ~fan'[k].dropped
                        /\ \A u \in fan'[k].page : u > fan'[k].cursor
                        /\ \A u \in Members : enqueued'[k][u] <= 1
                        /\ \A u \in Members : u > fan'[k].cursor => enqueued'[k][u] = 0
      BY DEF WalkInOrder
    <3>1. CASE k = n
      <4>1. \/ page = {} /\ fan'[n].step = "done"
            \/ page # {} /\ fan'[n].step = "enqueue"
        BY <1>4
      <4>2. /\ n \in published' \union removed' /\ ~fan'[n].dropped /\ fan'[n].page = page
            /\ \A u \in page : u > fan'[n].cursor
            /\ \A u \in Members : enqueued'[n][u] <= 1 /\ (u > fan'[n].cursor => enqueued'[n][u] = 0)
        BY <1>0, <1>2, <1>4, <2>1
      <4> QED
        BY <3>1, <4>1, <4>2
    <3>2. CASE k # n
      BY <1>0, <2>2, <3>2 DEF PushInv, WalkInOrder
    <3> QED
      BY <3>1, <3>2
<1>8. WalkComplete'
  <2>1. \A k \in Notices : k # n => Walking(k)' = Walking(k) /\ \A u : StillToCome(k, u)' = StillToCome(k, u)
    BY <1>4 DEF Walking, StillToCome
  <2>2. ~fan[n].dropped /\ throughout[n] \subseteq Pipeline!NoticeRecipients
    BY <1>0 DEF PushInv, WalkInOrder, WalkComplete, Walking
  <2>3. \A u \in throughout[n] : enqueued[n][u] = 1 \/ (page # {} /\ StillToCome(n, u)')
    BY <1>0, <1>2, <1>4, <2>2 DEF PushInv, WalkComplete, Walking, StillToCome
  <2>4. Pipeline!NoticeRecipients' = Pipeline!NoticeRecipients
    BY <1>0 DEF Pipeline!NoticeRecipients
  <2> QED
    <3>1. ASSUME NEW k \in Notices, k # n
          PROVE  /\ Walking(k)' => throughout'[k] \subseteq Pipeline!NoticeRecipients'
                 /\ Walking(k)' /\ ~fan'[k].dropped =>
                      \A u \in throughout'[k] : enqueued'[k][u] = 1 \/ StillToCome(k, u)'
                 /\ fan'[k].step = "done" => \A u \in throughout'[k] : enqueued'[k][u] = 1
      BY <1>0, <1>4, <2>1, <2>4, <3>1 DEF PushInv, WalkComplete
    <3>2. /\ throughout'[n] \subseteq Pipeline!NoticeRecipients'
          /\ \A u \in throughout'[n] : enqueued'[n][u] = 1 \/ StillToCome(n, u)'
      BY <1>0, <2>2, <2>3, <2>4
    <3>3. fan'[n].step = "done" => \A u \in throughout'[n] : enqueued'[n][u] = 1
      <4>1. fan'[n].step = "done" => page = {}
        BY <1>4
      <4> QED
        BY <1>0, <2>3, <4>1
    <3> QED
      BY <3>1, <3>2, <3>3 DEF WalkComplete
<1> QED
  BY <1>0, <1>5, <1>6, <1>7, <1>8, PushFrame DEF PushInv

\* The page cannot be read: nothing moves but the walk may end.
LEMMA ListFailsStep ==
  ASSUME PushInv, NEW n \in Notices, Pipeline!ListPageFails(n) \/ Pipeline!ListPageInterrupted(n)
  PROVE  PushInv'
<1>0. /\ fan[n].step = "list"
      /\ \/ fan' = [fan EXCEPT ![n].tries = @ + 1]
         \/ fan' = [fan EXCEPT ![n].step = "failed"]
      /\ UNCHANGED <<published, removed, reachable, noticeOff, messageOff, withdrawn, reviewed, shards,
                     broadcast, worker, phase, enqueued, throughout, told, lateNotice, lateMessage>>
  BY DEF Pipeline!ListPageFails, Pipeline!ListPageInterrupted, Pipeline!lateVars, Pipeline!dbVars
<1>1. fan \in [Notices -> Fans] /\ fan[n] \in Fans /\ fan[n].tries + 1 \in Nat
  BY DEF PushInv, PushTypes, Fans
<1>2. /\ fan' \in [Notices -> Fans] /\ \A k \in Notices : k # n => fan'[k] = fan[k]
      /\ fan'[n].step \in {"list", "failed"} /\ fan'[n].page = fan[n].page
      /\ fan'[n].cursor = fan[n].cursor /\ fan'[n].dropped = fan[n].dropped
  BY <1>0, <1>1 DEF Fans
<1>3. PushTypes'
  BY <1>0, <1>2 DEF PushInv, PushTypes, Pipeline!TypeOK, Fans
<1>4. Pipeline!NoSendOnClosedQueue'
  BY <1>0, <1>2 DEF PushInv, Pipeline!NoSendOnClosedQueue
<1>5. WalkInOrder'
  BY <1>0, <1>2 DEF PushInv, WalkInOrder
<1>6. WalkComplete'
  <2>1. Pipeline!NoticeRecipients' = Pipeline!NoticeRecipients
    BY <1>0 DEF Pipeline!NoticeRecipients
  <2>2. \A k \in Notices : Walking(k)' => Walking(k) /\ \A u : StillToCome(k, u)' = StillToCome(k, u)
    BY <1>0, <1>2 DEF Walking, StillToCome
  <2>3. \A k \in Notices : fan'[k].dropped = fan[k].dropped /\ (fan'[k].step = "done" => fan[k].step = "done")
    BY <1>2
  <2> QED
    BY <1>0, <2>1, <2>2, <2>3 DEF PushInv, WalkComplete
<1> QED
  BY <1>0, <1>3, <1>4, <1>5, <1>6, PushFrame DEF PushInv

\* The next member of the page is enqueued or dropped.
LEMMA EnqueueStep ==
  ASSUME PushInv, NEW n \in Notices, Pipeline!EnqueueNotice(n) \/ Pipeline!EnqueueDropped(n)
  PROVE  PushInv'
<1> DEFINE u == Pipeline!NextOf(fan[n].page)
           rest == fan[n].page \ {u}
           item == [kind |-> "notice", of |-> n, to |-> u]
           Put == /\ broadcast' = Append(broadcast, item) /\ Len(broadcast) < pushBroadcastCapacity
                  /\ enqueued' = [enqueued EXCEPT ![n][u] = @ + 1]
<1>0. /\ fan[n].step = "enqueue"
      /\ \E dropped \in BOOLEAN :
           /\ Pipeline!Advance(n, dropped)
           /\ IF dropped THEN UNCHANGED <<broadcast, enqueued>> ELSE Put
      /\ UNCHANGED <<published, removed, reachable, noticeOff, messageOff, withdrawn, reviewed, shards,
                     worker, phase, throughout, told, lateNotice, lateMessage>>
  BY DEF Pipeline!EnqueueNotice, Pipeline!EnqueueDropped, Pipeline!lateVars, Pipeline!dbVars
<1>1. PICK dropped \in BOOLEAN : /\ Pipeline!Advance(n, dropped)
                                 /\ IF dropped THEN UNCHANGED <<broadcast, enqueued>> ELSE Put
  BY <1>0
<1>2. /\ u \in fan[n].page /\ u \in Members /\ u > fan[n].cursor
      /\ \A v \in rest : v \in Members /\ v > u
      /\ fan' = [fan EXCEPT ![n] = fan'[n]] /\ fan'[n] \in Fans
      /\ fan'[n].cursor = u /\ fan'[n].page = rest
      /\ fan'[n].dropped = (fan[n].dropped \/ dropped)
      /\ fan'[n].step = IF rest # {} THEN "enqueue" ELSE IF fan'[n].dropped THEN "failed" ELSE "list"
  BY <1>0, <1>1, AdvanceMoves DEF PushInv
<1> HIDE DEF u
<1>3. /\ fan \in [Notices -> Fans] /\ enqueued \in [Notices -> [Members -> Nat]]
      /\ broadcast \in Seq(NoticeItems) /\ Len(broadcast) <= pushBroadcastCapacity
      /\ Len(broadcast) \in Nat
  BY DEF PushInv, PushTypes, Pipeline!TypeOK
<1>4. fan' \in [Notices -> Fans] /\ \A k \in Notices : k # n => fan'[k] = fan[k]
  BY <1>2, <1>3
<1>5. enqueued[n][u] = 0 /\ enqueued[n] \in [Members -> Nat]
  BY <1>2, <1>3 DEF PushInv, WalkInOrder
<1>6. /\ enqueued' \in [Notices -> [Members -> Nat]]
      /\ \A k \in Notices : k # n => enqueued'[k] = enqueued[k]
      /\ \A v \in Members : v # u => enqueued'[n][v] = enqueued[n][v]
      /\ enqueued'[n][u] = IF dropped THEN 0 ELSE 1
  <2>1. CASE dropped
    BY <1>1, <1>3, <1>5, <2>1
  <2>2. CASE ~dropped
    <3>1. enqueued' = [enqueued EXCEPT ![n] = [enqueued[n] EXCEPT ![u] = 1]]
      BY <1>1, <1>3, <1>5, <2>2
    <3> QED
      BY <1>2, <1>3, <1>5, <2>2, <3>1
  <2> QED
    BY <2>1, <2>2
<1>7. broadcast' \in Seq(NoticeItems) /\ Len(broadcast') <= pushBroadcastCapacity
  <2>1. item \in NoticeItems
    BY <1>2 DEF NoticeItems
  <2> HIDE DEF item
  <2>2. CASE dropped
    BY <1>1, <1>3, <2>2
  <2>3. CASE ~dropped
    <3>1. Len(Append(broadcast, item)) = Len(broadcast) + 1 /\ Append(broadcast, item) \in Seq(NoticeItems)
      BY <1>3, <2>1, AppendProperties
    <3> QED
      BY SMTT(30), <1>1, <1>3, <2>3, <3>1, PushAssumption
  <2> QED
    BY <2>2, <2>3
<1>8. PushTypes'
  <2>1. Pipeline!ToSet(broadcast') \subseteq Pipeline!Items
    BY <1>7, QueueOfNotices
  <2> QED
    BY <1>0, <1>4, <1>6, <1>7, <2>1 DEF PushInv, PushTypes, Pipeline!TypeOK, Fans, Pipeline!ToSet
<1>9. Pipeline!NoSendOnClosedQueue'
  BY <1>0, <1>4 DEF PushInv, Pipeline!NoSendOnClosedQueue
<1>10. WalkInOrder'
  <2>1. \A v \in Members : v > u => v > fan[n].cursor
    BY <1>2, <1>3, PushAssumption DEF Fans
  <2>2. \A v \in Members : enqueued'[n][v] <= 1 /\ (v > u => enqueued'[n][v] = 0)
    BY <1>2, <1>5, <1>6, <2>1, PushAssumption DEF PushInv, WalkInOrder
  <2>3. fan[n].step = "enqueue" /\ (n \in published \union removed)
    BY <1>0 DEF PushInv, WalkInOrder
  <2> QED
    BY <1>0, <1>2, <1>4, <1>6, <2>2, <2>3 DEF PushInv, WalkInOrder
<1>11. WalkComplete'
  <2>1. Pipeline!NoticeRecipients' = Pipeline!NoticeRecipients
    BY <1>0 DEF Pipeline!NoticeRecipients
  <2>2. \A k \in Notices : k # n => Walking(k)' = Walking(k) /\ \A v : StillToCome(k, v)' = StillToCome(k, v)
    BY <1>4 DEF Walking, StillToCome
  <2>3. throughout[n] \subseteq Pipeline!NoticeRecipients /\ throughout[n] \subseteq Members
    BY <1>0 DEF PushInv, WalkComplete, Walking, PushTypes
  <2>4. ASSUME ~fan'[n].dropped, NEW v \in throughout[n]
        PROVE  enqueued'[n][v] = 1 \/ StillToCome(n, v)'
    <3>1. ~dropped /\ ~fan[n].dropped
      BY <1>2, <2>4
    <3>2. enqueued[n][v] = 1 \/ StillToCome(n, v)
      BY <1>0, <2>4, <3>1 DEF PushInv, WalkComplete, Walking
    <3>3. CASE v = u
      BY <1>6, <3>1, <3>3
    <3>4. CASE v # u /\ enqueued[n][v] = 1
      BY <1>6, <2>3, <3>4
    <3>5. CASE v # u /\ StillToCome(n, v)
      <4>1. v \in rest \/ \A x \in fan[n].page : x < v
        BY <3>5 DEF StillToCome
      <4>2. v > u
        BY <1>2, <2>3, <4>1, PushAssumption
      <4> QED
        BY <1>2, <4>1, <4>2 DEF StillToCome
    <3> QED
      BY <3>2, <3>3, <3>4, <3>5
  <2>5. fan'[n].step # "done"
    BY <1>2
  <2> QED
    BY <1>0, <1>4, <1>6, <2>1, <2>2, <2>3, <2>4, <2>5 DEF PushInv, WalkComplete
<1> QED
  BY <1>0, <1>8, <1>9, <1>10, <1>11, PushFrame DEF PushInv

(***************************************************************************)
(* Items on their way                                                      *)
(***************************************************************************)
\* The workers that carry messages are no broadcast workers.
LEMMA CarriersOfMessages ==
  ASSUME PushTypes, ItemsAtHome, NEW w \in Pipeline!Workers, NEW m \in Messages
  PROVE  /\ <<"shard", HomeOf(m)>> \in Pipeline!Workers \ Pipeline!BroadcastWorkers
         /\ Holds(worker[w].item, m) => w = <<"shard", HomeOf(m)>>
<1>1. worker[w] \in Carriers
  BY DEF PushTypes
<1>2. ASSUME Holds(worker[w].item, m) PROVE w = <<"shard", HomeOf(m)>>
  <2>1. worker[w] # Pipeline!Idle
    BY <1>2 DEF Holds, Pipeline!Idle, Pipeline!NoItem
  <2>2. worker[w].item \in Pipeline!Items
    BY <1>1, <2>1 DEF Carriers
  <2>3. worker[w].item.to = RecipientOf[m]
    BY <1>2, <2>2, ItemFacts DEF Holds
  <2> QED
    BY <1>2, <2>1, <2>3 DEF ItemsAtHome, Holds, HomeOf
<1> QED
  BY <1>2, WorkersApart, ShardsExist

\* An item is put at the end of a shard.
LEMMA WaitingAfterOffer ==
  ASSUME PushTypes, NEW i \in Pipeline!Shards, NEW item \in Pipeline!Items, NEW m \in Messages,
         shards' = [shards EXCEPT ![i] = Append(shards[i], item)]
  PROVE  Waiting(m)' = IF HomeOf(m) = i /\ Holds(item, m)
                       THEN Waiting(m) \union {Len(shards[i]) + 1} ELSE Waiting(m)
<1>1. shards \in [Pipeline!Shards -> Seq(Pipeline!Items)] /\ HomeOf(m) \in Pipeline!Shards
  BY ShardsExist DEF PushTypes
<1>2. CASE HomeOf(m) # i
  <2>1. shards'[HomeOf(m)] = shards[HomeOf(m)]
    BY <1>1, <1>2
  <2> QED
    BY <1>2, <2>1 DEF Waiting, HomeOf
<1>3. CASE HomeOf(m) = i
  <2> DEFINE s == shards[i]
  <2>1. s \in Seq(Pipeline!Items) /\ shards'[HomeOf(m)] = Append(s, item)
    BY <1>1, <1>3
  <2>2. /\ Len(Append(s, item)) = Len(s) + 1 /\ Len(s) \in Nat
        /\ \A j \in 1..Len(s) : Append(s, item)[j] = s[j]
        /\ Append(s, item)[Len(s) + 1] = item
    BY <2>1, AppendProperties
  <2>3. Waiting(m) = {j \in 1..Len(s) : Holds(s[j], m)}
    BY <1>3 DEF Waiting
  <2>4. Waiting(m)' = {j \in 1..Len(Append(s, item)) : Holds(Append(s, item)[j], m)}
    BY <2>1 DEF Waiting, HomeOf
  <2> HIDE DEF s
  <2>5. 1..(Len(s) + 1) = (1..Len(s)) \union {Len(s) + 1}
    BY <2>2
  <2>6. Waiting(m)' = Waiting(m) \union {j \in {Len(s) + 1} : Holds(item, m)}
    BY <2>2, <2>3, <2>4, <2>5
  <2> QED
    BY <1>3, <2>6 DEF s
<1> QED
  BY <1>2, <1>3

\* The first item of a shard is taken.
LEMMA WaitingAfterTake ==
  ASSUME PushTypes, NEW i \in Pipeline!Shards, NEW m \in Messages, shards[i] # <<>>,
         shards' = [shards EXCEPT ![i] = Tail(shards[i])]
  PROVE  IF HomeOf(m) = i
         THEN /\ Waiting(m)' = {j \in 1..(Len(shards[i]) - 1) : j + 1 \in Waiting(m)}
              /\ Holds(Head(shards[i]), m) <=> 1 \in Waiting(m)
         ELSE Waiting(m)' = Waiting(m)
<1>1. shards \in [Pipeline!Shards -> Seq(Pipeline!Items)] /\ HomeOf(m) \in Pipeline!Shards
  BY ShardsExist DEF PushTypes
<1>2. CASE HomeOf(m) # i
  <2>1. shards'[HomeOf(m)] = shards[HomeOf(m)]
    BY <1>1, <1>2
  <2> QED
    BY <1>2, <2>1 DEF Waiting, HomeOf
<1>3. CASE HomeOf(m) = i
  <2> DEFINE s == shards[i]
  <2>1. s \in Seq(Pipeline!Items) /\ shards'[HomeOf(m)] = Tail(s) /\ s # <<>>
    BY <1>1, <1>3
  <2>2. /\ Len(Tail(s)) = Len(s) - 1 /\ Len(s) \in Nat \ {0} /\ Head(s) = s[1]
        /\ \A j \in 1..(Len(s) - 1) : Tail(s)[j] = s[j + 1]
    BY <2>1, HeadTailProperties, EmptySeq
  <2>3. Waiting(m) = {j \in 1..Len(s) : Holds(s[j], m)}
    BY <1>3 DEF Waiting
  <2>4. Waiting(m)' = {j \in 1..Len(Tail(s)) : Holds(Tail(s)[j], m)}
    BY <2>1 DEF Waiting, HomeOf
  <2> HIDE DEF s
  <2>5. \A j \in 1..(Len(s) - 1) : j + 1 \in 1..Len(s)
    BY <2>2
  <2>6. Waiting(m)' = {j \in 1..(Len(s) - 1) : j + 1 \in Waiting(m)}
    BY <2>2, <2>3, <2>4, <2>5
  <2>7. Holds(Head(s), m) <=> 1 \in Waiting(m)
    BY <2>2, <2>3
  <2> QED
    BY <1>3, <2>6, <2>7 DEF s
<1> QED
  BY <1>2, <1>3

\* An item is offered to the shard of its recipient.
LEMMA OfferedAtHome ==
  ASSUME PushInv, NEW item \in Pipeline!Items, item.kind # "notice", Pipeline!Offer(item), UNCHANGED worker
  PROVE  ItemsAtHome'
<1> DEFINE i == item.to % pushShardCount
<1>1. /\ i \in Pipeline!Shards
      /\ shards' = shards \/ shards' = [shards EXCEPT ![i] = Append(shards[i], item)]
  BY OfferTypes DEF PushInv
<1>2. shards \in [Pipeline!Shards -> Seq(Pipeline!Items)]
  BY DEF PushInv, PushTypes
<1> HIDE DEF i
<1>3. CASE shards' = shards
  BY <1>3, PushFrame DEF PushInv
<1>4. CASE shards' = [shards EXCEPT ![i] = Append(shards[i], item)]
  <2> DEFINE s == shards[i]
  <2>1. s \in Seq(Pipeline!Items) /\ shards'[i] = Append(s, item) /\ \A k \in Pipeline!Shards \ {i} : shards'[k] = shards[k]
    BY <1>1, <1>2, <1>4
  <2>2. /\ Len(Append(s, item)) = Len(s) + 1 /\ Len(s) \in Nat
        /\ \A j \in 1..Len(s) : Append(s, item)[j] = s[j]
        /\ Append(s, item)[Len(s) + 1] = item
    BY <2>1, AppendProperties
  <2>3. \A j \in 1..Len(s) : s[j].kind # "notice" /\ s[j].to % pushShardCount = i
    BY <1>1 DEF PushInv, ItemsAtHome
  <2> HIDE DEF s
  <2>4. \A j \in 1..Len(Append(s, item)) :
          Append(s, item)[j].kind # "notice" /\ Append(s, item)[j].to % pushShardCount = i
    <3> SUFFICES ASSUME NEW j \in 1..Len(Append(s, item))
                 PROVE  Append(s, item)[j].kind # "notice" /\ Append(s, item)[j].to % pushShardCount = i
      OBVIOUS
    <3>1. j \in 1..Len(s) \/ j = Len(s) + 1
      BY <2>2
    <3> QED
      BY <2>2, <2>3, <3>1 DEF i
  <2>5. \A k \in Pipeline!Shards : \A j \in 1..Len(shards'[k]) :
          shards'[k][j].kind # "notice" /\ shards'[k][j].to % pushShardCount = k
    BY <2>1, <2>4 DEF PushInv, ItemsAtHome
  <2> QED
    BY <2>5 DEF PushInv, ItemsAtHome
<1> QED
  BY <1>1, <1>3, <1>4

\* A message is announced once: its item is the only one.
LEMMA MessageStep ==
  ASSUME PushInv, NEW m \in Messages, Pipeline!NotifyMessageReceived(m)
  PROVE  PushInv'
<1> DEFINE item == [kind |-> "message", of |-> m, to |-> RecipientOf[m]]
<1>0. /\ m \notin told /\ told' = told \union {m} /\ Pipeline!Offer(item)
      /\ UNCHANGED <<published, removed, reachable, noticeOff, messageOff, withdrawn, reviewed,
                     broadcast, fan, worker, phase, enqueued, throughout, lateNotice, lateMessage>>
  BY DEF Pipeline!NotifyMessageReceived, Pipeline!lateVars, Pipeline!dbVars
<1>1. item \in Pipeline!Items /\ item.kind # "notice" /\ item.to % pushShardCount = HomeOf(m)
  BY ItemFacts DEF HomeOf
<1>2. \A k \in Messages : Holds(item, k) <=> k = m
  BY DEF Holds
<1> HIDE DEF item
<1>3. /\ HomeOf(m) \in Pipeline!Shards
      /\ shards' = shards \/ shards' = [shards EXCEPT ![HomeOf(m)] = Append(shards[HomeOf(m)], item)]
      /\ shards' \in [Pipeline!Shards -> Seq(Pipeline!Items)]
      /\ \A k \in Pipeline!Shards : Len(shards'[k]) <= pushShardCapacity
  BY <1>0, <1>1, OfferTypes DEF PushInv
<1>4. PushTypes'
  BY <1>0, <1>3 DEF PushInv, PushTypes, Pipeline!TypeOK, Pipeline!ToSet
<1>5. ItemsAtHome'
  BY <1>0, <1>1, OfferedAtHome
<1>6. \A k \in Messages : Waiting(k)' = Waiting(k) \/ (k = m /\ \E j : Waiting(k)' = Waiting(k) \union {j})
  BY <1>1, <1>2, <1>3, WaitingAfterOffer DEF PushInv, Waiting
<1>7. \A k \in Messages : Carried(k)' = Carried(k) /\ CarrierOf(k)' = CarrierOf(k)
  BY <1>0 DEF Carried, CarrierOf, HomeOf
<1>8. Waiting(m) = {} /\ ~Carried(m)
  BY <1>0 DEF PushInv, OneItemEach
<1>9. OneItemEach'
  <2> SUFFICES ASSUME NEW k \in Messages
               PROVE  /\ \A x, y \in Waiting(k)' : x = y
                      /\ Carried(k)' => Waiting(k)' = {}
                      /\ k \notin told' => Waiting(k)' = {} /\ ~Carried(k)'
    BY DEF OneItemEach
  <2>1. CASE k = m
    BY <1>0, <1>6, <1>7, <1>8, <2>1
  <2>2. CASE k # m
    <3>1. Waiting(k)' = Waiting(k) /\ Carried(k)' = Carried(k) /\ (k \notin told' => k \notin told)
      BY <1>0, <1>6, <1>7, <2>2
    <3> QED
      BY <3>1 DEF PushInv, OneItemEach
  <2> QED
    BY <2>1, <2>2
<1>10. LateOnce'
  <2> SUFFICES ASSUME NEW k \in Messages
               PROVE  /\ lateMessage'[k] <= 1
                      /\ lateMessage'[k] = 1 =>
                           /\ ~Pipeline!MessageStillAvailable(k)' /\ k \in told' /\ Waiting(k)' = {}
                           /\ Carried(k)' => CarrierOf(k)'.step = "attempt"
    BY DEF LateOnce
  <2>1. lateMessage'[k] = 1 => k # m
    BY <1>0 DEF PushInv, LateOnce
  <2>2. Pipeline!MessageStillAvailable(k)' = Pipeline!MessageStillAvailable(k)
    BY <1>0 DEF Pipeline!MessageStillAvailable
  <2> QED
    BY <1>0, <1>6, <1>7, <2>1, <2>2 DEF PushInv, LateOnce
<1> QED
  BY <1>0, <1>4, <1>5, <1>9, <1>10, PushFrame DEF PushInv

\* A review is stored and offered; no message moves.
LEMMA ReviewStep ==
  ASSUME PushInv, NEW u \in Members, NEW status \in {"approved", "rejected"},
         Pipeline!NotifyVerificationReviewed(u, status)
  PROVE  PushInv'
<1> DEFINE item == [kind |-> "review", of |-> status, to |-> u]
<1>0. /\ reviewed' = [reviewed EXCEPT ![u] = status] /\ Pipeline!Offer(item)
      /\ UNCHANGED <<published, removed, reachable, noticeOff, messageOff, withdrawn, told,
                     broadcast, fan, worker, phase, enqueued, throughout, lateNotice, lateMessage>>
  BY DEF Pipeline!NotifyVerificationReviewed, Pipeline!lateVars
<1>1. item \in Pipeline!Items /\ item.kind # "notice" /\ item.to = u
  BY DEF Pipeline!Items
<1>2. \A k \in Messages : ~Holds(item, k)
  BY DEF Holds
<1> HIDE DEF item
<1>3. /\ u % pushShardCount \in Pipeline!Shards
      /\ shards' = shards
           \/ shards' = [shards EXCEPT ![u % pushShardCount] = Append(shards[u % pushShardCount], item)]
      /\ shards' \in [Pipeline!Shards -> Seq(Pipeline!Items)]
      /\ \A k \in Pipeline!Shards : Len(shards'[k]) <= pushShardCapacity
  BY <1>0, <1>1, OfferTypes DEF PushInv
<1>4. PushTypes'
  BY <1>0, <1>3 DEF PushInv, PushTypes, Pipeline!TypeOK, Pipeline!ToSet
<1>5. ItemsAtHome'
  BY <1>0, <1>1, OfferedAtHome
<1>6. \A k \in Messages : Waiting(k)' = Waiting(k)
  BY <1>1, <1>2, <1>3, WaitingAfterOffer DEF PushInv, Waiting
<1>7. \A k \in Messages : /\ Carried(k)' = Carried(k) /\ CarrierOf(k)' = CarrierOf(k)
                          /\ Pipeline!MessageStillAvailable(k)' = Pipeline!MessageStillAvailable(k)
  BY <1>0 DEF Carried, CarrierOf, HomeOf, Pipeline!MessageStillAvailable
<1>8. OneItemEach'
  BY <1>0, <1>6, <1>7 DEF PushInv, OneItemEach
<1>9. LateOnce'
  BY <1>0, <1>6, <1>7 DEF PushInv, LateOnce
<1> QED
  BY <1>0, <1>4, <1>5, <1>8, <1>9, PushFrame DEF PushInv

\* The notices the workers are past the guard with are among those of before,
\* and nobody is late anew: the bound on late members stays.
LEMMA LateOnesShrink ==
  ASSUME PushInv, PushTypes', UNCHANGED removed, published' = published,
         \A n \in Notices : n \in removed => LateOnes(n)' \subseteq LateOnes(n),
         \A n \in Notices : n \notin removed => lateNotice'[n] = lateNotice[n]
  PROVE  LateOnesFew'
<1> SUFFICES ASSUME NEW n \in Notices, n \in removed
             PROVE  Cardinality(LateOnes(n)') <= pushBroadcastWorkerCount
  BY DEF PushInv, LateOnesFew
<1>1. LateOnes(n) \subseteq Members
  <2>1. \A w \in Passed(n) : worker[w].item.to \in Members
    <3> SUFFICES ASSUME NEW w \in Passed(n) PROVE worker[w].item.to \in Members
      OBVIOUS
    <3>1. w \in Pipeline!Workers /\ worker[w].step \in {"attempt", "send"}
      BY DEF Passed, Pipeline!Workers
    <3>2. worker[w] \in Carriers /\ worker[w] # Pipeline!Idle
      BY <3>1 DEF PushInv, PushTypes, Pipeline!Idle
    <3> QED
      BY <3>2, ItemFacts DEF Carriers
  <2>2. lateNotice[n] \subseteq Members
    BY DEF PushInv, PushTypes
  <2> QED
    BY <2>1, <2>2 DEF LateOnes
<1>2. IsFiniteSet(LateOnes(n))
  BY <1>1, PushAssumption, FS_Subset
<1>3. LateOnes(n)' \subseteq LateOnes(n)
  OBVIOUS
<1>4. Cardinality(LateOnes(n)') <= Cardinality(LateOnes(n)) /\ IsFiniteSet(LateOnes(n)')
  BY <1>2, <1>3, FS_Subset
<1>5. Cardinality(LateOnes(n)) <= pushBroadcastWorkerCount
  BY DEF PushInv, LateOnesFew
<1>6. Cardinality(LateOnes(n)) \in Nat /\ Cardinality(LateOnes(n)') \in Nat
  BY <1>2, <1>4, FS_CardinalityType
<1> QED
  BY <1>4, <1>5, <1>6, PushAssumption

\* A worker takes an item: it is in one place before and after.
LEMMA TakeStep == ASSUME PushInv, NEW w \in Pipeline!Workers, Pipeline!Take(w) PROVE PushInv'
<1>0. UNCHANGED <<published, removed, reachable, noticeOff, messageOff, withdrawn, reviewed, told,
                  fan, phase, enqueued, throughout, lateNotice, lateMessage>>
  BY DEF Pipeline!Take, Pipeline!lateVars, Pipeline!dbVars
<1>1. /\ worker[w] = Pipeline!Idle
      /\ worker' = [worker EXCEPT ![w] = worker'[w]] /\ worker'[w] \in Carriers
      /\ worker'[w].step = "guard" /\ worker'[w] # Pipeline!Idle
      /\ \/ /\ w \in Pipeline!BroadcastWorkers /\ UNCHANGED shards
            /\ broadcast # <<>> /\ broadcast' = Tail(broadcast)
            /\ worker'[w].item = Head(broadcast)
         \/ \E i \in Pipeline!Shards :
              /\ w = <<"shard", i>> /\ UNCHANGED broadcast
              /\ shards[i] # <<>> /\ shards' = [shards EXCEPT ![i] = Tail(shards[i])]
              /\ worker'[w].item = Head(shards[i])
  BY TakeMoves DEF PushInv
<1>2. /\ worker \in [Pipeline!Workers -> Carriers] /\ broadcast \in Seq(NoticeItems)
      /\ shards \in [Pipeline!Shards -> Seq(Pipeline!Items)]
      /\ \A i \in Pipeline!Shards : Len(shards[i]) <= pushShardCapacity
      /\ Len(broadcast) <= pushBroadcastCapacity
  BY DEF PushInv, PushTypes, Pipeline!TypeOK
<1>3. worker' \in [Pipeline!Workers -> Carriers] /\ \A v \in Pipeline!Workers : v # w => worker'[v] = worker[v]
  BY <1>1, <1>2
<1>4. /\ broadcast' \in Seq(NoticeItems) /\ Len(broadcast') <= pushBroadcastCapacity
      /\ shards' \in [Pipeline!Shards -> Seq(Pipeline!Items)]
      /\ \A i \in Pipeline!Shards : Len(shards'[i]) <= pushShardCapacity
  <2>1. \A S : \A s \in Seq(S) : s # <<>> => Tail(s) \in Seq(S) /\ Len(Tail(s)) <= Len(s) /\ Len(s) \in Nat
    BY HeadTailProperties
  <2>2. CASE w \in Pipeline!BroadcastWorkers
    <3>1. UNCHANGED shards /\ broadcast # <<>> /\ broadcast' = Tail(broadcast)
      BY <1>1, <2>2, WorkersApart
    <3>2. Tail(broadcast) \in Seq(NoticeItems) /\ Len(Tail(broadcast)) <= Len(broadcast) /\ Len(broadcast) \in Nat
            /\ Len(Tail(broadcast)) \in Nat
      BY <1>2, <2>1, <3>1
    <3> QED
      BY <1>2, <3>1, <3>2, PushAssumption
  <2>3. CASE w \notin Pipeline!BroadcastWorkers
    <3>1. PICK i \in Pipeline!Shards : /\ UNCHANGED broadcast /\ shards[i] # <<>>
                                       /\ shards' = [shards EXCEPT ![i] = Tail(shards[i])]
      BY <1>1, <2>3
    <3>2. Tail(shards[i]) \in Seq(Pipeline!Items) /\ Len(Tail(shards[i])) <= Len(shards[i])
            /\ Len(shards[i]) \in Nat /\ Len(Tail(shards[i])) \in Nat
      BY <1>2, <2>1, <3>1
    <3>3. Len(Tail(shards[i])) <= pushShardCapacity
      BY <1>2, <3>2, PushAssumption
    <3> QED
      BY <1>2, <3>1, <3>2, <3>3
  <2> QED
    BY <2>2, <2>3
<1>5. PushTypes'
  <2>1. Pipeline!ToSet(broadcast') \subseteq Pipeline!Items
    BY <1>4, QueueOfNotices
  <2>2. \A v \in Pipeline!Workers : worker'[v].step \in {"idle", "guard", "attempt", "send"}
    BY <1>3 DEF Carriers, Pipeline!Idle
  <2> QED
    BY <1>0, <1>3, <1>4, <2>1, <2>2 DEF PushInv, PushTypes, Pipeline!TypeOK, Pipeline!ToSet
<1>6. ItemsAtHome'
  <2>1. CASE w \in Pipeline!BroadcastWorkers
    <3>1. UNCHANGED shards /\ broadcast # <<>> /\ worker'[w].item = Head(broadcast)
      BY <1>1, <2>1, WorkersApart
    <3>2. worker'[w].item.kind = "notice"
      <4>1. Head(broadcast) \in NoticeItems
        BY <1>2, <3>1, HeadTailProperties
      <4> QED
        BY <3>1, <4>1 DEF NoticeItems
    <3> QED
      BY <1>3, <2>1, <3>1, <3>2 DEF PushInv, ItemsAtHome
  <2>2. CASE w \notin Pipeline!BroadcastWorkers
    <3>1. PICK i \in Pipeline!Shards :
            /\ w = <<"shard", i>> /\ shards[i] # <<>> /\ shards' = [shards EXCEPT ![i] = Tail(shards[i])]
            /\ worker'[w].item = Head(shards[i])
      BY <1>1, <2>2
    <3> DEFINE s == shards[i]
    <3>2. s \in Seq(Pipeline!Items) /\ s # <<>>
            /\ \A j \in 1..Len(s) : s[j].kind # "notice" /\ s[j].to % pushShardCount = i
      BY <1>2, <3>1 DEF PushInv, ItemsAtHome
    <3>3. /\ Len(Tail(s)) = Len(s) - 1 /\ Len(s) \in Nat \ {0} /\ Head(s) = s[1]
          /\ \A j \in 1..(Len(s) - 1) : Tail(s)[j] = s[j + 1]
      BY <3>2, HeadTailProperties, EmptySeq
    <3> HIDE DEF s
    <3>4. Head(s).kind # "notice" /\ Head(s).to % pushShardCount = i
      BY <3>2, <3>3
    <3>5. \A j \in 1..(Len(s) - 1) : j + 1 \in 1..Len(s)
      BY <3>3
    <3>6. \A j \in 1..Len(Tail(s)) : Tail(s)[j].kind # "notice" /\ Tail(s)[j].to % pushShardCount = i
      BY <3>2, <3>3, <3>5
    <3>7. shards'[i] = Tail(s) /\ \A k \in Pipeline!Shards \ {i} : shards'[k] = shards[k]
      BY <1>2, <3>1 DEF s
    <3>8. \A k \in Pipeline!Shards : \A j \in 1..Len(shards'[k]) :
            shards'[k][j].kind # "notice" /\ shards'[k][j].to % pushShardCount = k
      BY <3>6, <3>7 DEF PushInv, ItemsAtHome
    <3>9. worker'[w].item.kind # "notice" /\ w = <<"shard", worker'[w].item.to % pushShardCount>>
      BY <3>1, <3>4 DEF s
    <3> QED
      BY <1>3, <3>8, <3>9 DEF PushInv, ItemsAtHome
  <2> QED
    BY <2>1, <2>2
<1>7. LateOnesFew'
  <2>1. \A n \in Notices : Passed(n)' \subseteq Passed(n) /\ \A v \in Passed(n)' : worker'[v] = worker[v]
    BY <1>1, <1>3 DEF Passed, Pipeline!Workers
  <2>2. \A n \in Notices : LateOnes(n)' \subseteq LateOnes(n)
    BY <1>0, <2>1 DEF LateOnes
  <2> QED
    BY <1>0, <1>5, <2>2, LateOnesShrink
<1>8. ASSUME NEW m \in Messages
      PROVE  \/ Waiting(m)' = Waiting(m) /\ Carried(m)' = Carried(m) /\ CarrierOf(m)' = CarrierOf(m)
             \/ /\ \A x \in Waiting(m)' : x \in Nat /\ x + 1 \in Waiting(m) /\ x # 0
                /\ ~Carried(m) /\ (Carried(m)' <=> 1 \in Waiting(m))
  <2>0. <<"shard", HomeOf(m)>> \in Pipeline!Workers \ Pipeline!BroadcastWorkers
    BY ShardsExist, WorkersApart
  <2>1. CASE w # <<"shard", HomeOf(m)>>
    <3>1. CarrierOf(m)' = CarrierOf(m)
      BY <1>3, <2>0, <2>1 DEF CarrierOf, HomeOf
    <3>2. Waiting(m)' = Waiting(m)
      <4>1. CASE w \in Pipeline!BroadcastWorkers
        BY <1>1, <4>1, WorkersApart DEF Waiting, HomeOf
      <4>2. CASE w \notin Pipeline!BroadcastWorkers
        <5>1. PICK i \in Pipeline!Shards :
                /\ w = <<"shard", i>> /\ shards[i] # <<>> /\ shards' = [shards EXCEPT ![i] = Tail(shards[i])]
          BY <1>1, <4>2
        <5> QED
          BY <2>1, <5>1, WaitingAfterTake DEF PushInv
      <4> QED
        BY <4>1, <4>2
    <3> QED
      BY <3>1, <3>2 DEF Carried
  <2>2. CASE w = <<"shard", HomeOf(m)>>
    <3>1. PICK i \in Pipeline!Shards :
            /\ w = <<"shard", i>> /\ shards[i] # <<>> /\ shards' = [shards EXCEPT ![i] = Tail(shards[i])]
            /\ worker'[w].item = Head(shards[i])
      BY <1>1, <2>0, <2>2
    <3>2. i = HomeOf(m)
      BY <2>2, <3>1
    <3>3. /\ Waiting(m)' = {j \in 1..(Len(shards[i]) - 1) : j + 1 \in Waiting(m)}
          /\ Holds(Head(shards[i]), m) <=> 1 \in Waiting(m)
      BY <3>1, <3>2, WaitingAfterTake DEF PushInv
    <3>4. ~Carried(m)
      BY <1>1, <2>2 DEF Carried, CarrierOf, Holds, Pipeline!Idle, Pipeline!NoItem
    <3>5. Carried(m)' <=> Holds(worker'[w].item, m)
      BY <2>2 DEF Carried, CarrierOf, HomeOf
    <3>6. \A x \in 1..(Len(shards[i]) - 1) : x \in Nat /\ x # 0
      <4>1. Len(shards[i]) \in Nat
        BY <1>2
      <4> QED
        BY <4>1
    <3> QED
      BY <3>1, <3>3, <3>4, <3>5, <3>6
  <2> QED
    BY <2>1, <2>2
<1>9. OneItemEach'
  <2> SUFFICES ASSUME NEW m \in Messages
               PROVE  /\ \A x, y \in Waiting(m)' : x = y
                      /\ Carried(m)' => Waiting(m)' = {}
                      /\ m \notin told' => Waiting(m)' = {} /\ ~Carried(m)'
    BY DEF OneItemEach
  <2>0. /\ \A x, y \in Waiting(m) : x = y
        /\ Carried(m) => Waiting(m) = {}
        /\ m \notin told' => Waiting(m) = {} /\ ~Carried(m)
    BY <1>0 DEF PushInv, OneItemEach
  <2>1. CASE Waiting(m)' = Waiting(m) /\ Carried(m)' = Carried(m) /\ CarrierOf(m)' = CarrierOf(m)
    BY <2>0, <2>1
  <2>2. CASE /\ \A x \in Waiting(m)' : x \in Nat /\ x + 1 \in Waiting(m) /\ x # 0
             /\ ~Carried(m) /\ (Carried(m)' <=> 1 \in Waiting(m))
    <3>1. \A x, y \in Waiting(m)' : x = y
      BY <2>0, <2>2
    <3>2. Carried(m)' => Waiting(m)' = {}
      BY <2>0, <2>2
    <3> QED
      BY <2>0, <2>2, <3>1, <3>2
  <2> QED
    BY <1>8, <2>1, <2>2
<1>10. LateOnce'
  <2> SUFFICES ASSUME NEW m \in Messages
               PROVE  /\ lateMessage'[m] <= 1
                      /\ lateMessage'[m] = 1 =>
                           /\ ~Pipeline!MessageStillAvailable(m)' /\ m \in told' /\ Waiting(m)' = {}
                           /\ Carried(m)' => CarrierOf(m)'.step = "attempt"
    BY DEF LateOnce
  <2>1. /\ lateMessage[m] <= 1
        /\ lateMessage[m] = 1 =>
             /\ ~Pipeline!MessageStillAvailable(m) /\ m \in told /\ Waiting(m) = {}
             /\ Carried(m) => CarrierOf(m).step = "attempt"
    BY DEF PushInv, LateOnce
  <2>2. Pipeline!MessageStillAvailable(m)' = Pipeline!MessageStillAvailable(m)
    BY <1>0 DEF Pipeline!MessageStillAvailable
  <2> QED
    BY <1>0, <1>8, <2>1, <2>2
<1> QED
  BY <1>0, <1>5, <1>6, <1>7, <1>9, <1>10, PushFrame DEF PushInv

\* A worker goes on with its item or lets it go.
LEMMA DeliveryStep ==
  ASSUME PushInv, NEW w \in Pipeline!Workers, NEW answer,
         Pipeline!Deliver(w) \/ Pipeline!Attempt(w) \/ Pipeline!SendPush(w, answer)
  PROVE  PushInv'
<1> DEFINE i == worker[w].item
<1>0. /\ UNCHANGED <<published, removed, reachable, noticeOff, messageOff, withdrawn, reviewed, told,
                     shards, broadcast, fan, phase, enqueued, throughout>>
      /\ \/ UNCHANGED <<lateNotice, lateMessage>>
         \/ /\ worker[w].step = "send"
            /\ lateNotice' = IF i.kind = "notice" /\ i.of \in removed
                             THEN [lateNotice EXCEPT ![i.of] = @ \union {i.to}] ELSE lateNotice
            /\ lateMessage' = IF i.kind = "message" /\ {SenderOf[i.of], i.to} \intersect withdrawn # {}
                              THEN [lateMessage EXCEPT ![i.of] = @ + 1] ELSE lateMessage
  BY DEF Pipeline!Deliver, Pipeline!Attempt, Pipeline!SendPush, Pipeline!lateVars, Pipeline!dbVars
<1>1. /\ worker[w] # Pipeline!Idle /\ worker'[w] \in Carriers
      /\ worker' = [worker EXCEPT ![w] = worker'[w]]
      /\ worker'[w] = Pipeline!Idle \/ worker'[w].item = i
      /\ worker'[w] = Pipeline!Idle \/ worker'[w].step \in {"attempt", "send"}
  BY DeliveryMoves DEF PushInv
<1>2. /\ worker \in [Pipeline!Workers -> Carriers] /\ i \in Pipeline!Items
      /\ lateNotice \in [Notices -> SUBSET Members] /\ lateMessage \in [Messages -> Nat]
  BY <1>1 DEF PushInv, PushTypes, Carriers
<1>3. /\ i.to \in Members
      /\ i.kind = "notice" => i.of \in Notices
      /\ i.kind = "message" => i.of \in Messages /\ i.to = RecipientOf[i.of]
  BY <1>2, ItemFacts
<1>4. worker' \in [Pipeline!Workers -> Carriers] /\ \A v \in Pipeline!Workers : v # w => worker'[v] = worker[v]
  BY <1>1, <1>2
<1> HIDE DEF i
<1>5. \A n \in Notices :
        /\ lateNotice'[n] \subseteq Members
        /\ lateNotice'[n] \subseteq lateNotice[n] \union (IF n \in removed /\ i.kind = "notice" /\ i.of = n
                                                             /\ worker[w].step = "send" THEN {i.to} ELSE {})
        /\ n \notin removed => lateNotice'[n] = lateNotice[n]
  <2>1. CASE lateNotice' = lateNotice
    BY <1>2, <2>1
  <2>2. CASE /\ worker[w].step = "send" /\ i.kind = "notice" /\ i.of \in removed
             /\ lateNotice' = [lateNotice EXCEPT ![i.of] = @ \union {i.to}]
    <3>1. i.of \in Notices /\ \A n \in Notices : n # i.of => lateNotice'[n] = lateNotice[n]
      BY <1>2, <1>3, <2>2
    <3>2. lateNotice'[i.of] = lateNotice[i.of] \union {i.to}
      BY <1>2, <2>2, <3>1
    <3> QED
      BY <1>2, <1>3, <2>2, <3>1, <3>2
  <2> QED
    BY <1>0, <2>1, <2>2
<1>6. \A m \in Messages :
        /\ lateMessage'[m] \in Nat
        /\ lateMessage'[m] # lateMessage[m] =>
             /\ lateMessage'[m] = lateMessage[m] + 1 /\ i.kind = "message" /\ i.of = m
             /\ worker[w].step = "send" /\ {SenderOf[m], RecipientOf[m]} \intersect withdrawn # {}
  BY <1>0, <1>2, <1>3
<1>7. lateNotice' \in [Notices -> SUBSET Members] /\ lateMessage' \in [Messages -> Nat]
  BY <1>0, <1>2, <1>3, <1>5, <1>6
<1>8. PushTypes'
  <2>1. \A v \in Pipeline!Workers : worker'[v].step \in {"idle", "guard", "attempt", "send"}
    BY <1>4 DEF Carriers, Pipeline!Idle
  <2> QED
    BY <1>0, <1>4, <1>7, <2>1 DEF PushInv, PushTypes, Pipeline!TypeOK, Pipeline!ToSet
<1>9. ItemsAtHome'
  BY <1>0, <1>1, <1>4 DEF PushInv, ItemsAtHome, i
<1>10. LateOnesFew'
  <2> SUFFICES ASSUME NEW n \in Notices, n \in removed PROVE LateOnes(n)' \subseteq LateOnes(n)
    BY <1>0, <1>5, <1>8, LateOnesShrink
  <2>1. ASSUME w \in Passed(n)' PROVE w \in Passed(n) /\ worker'[w].item = worker[w].item
    <3>1. w \in Pipeline!BroadcastWorkers /\ worker'[w].step \in {"attempt", "send"} /\ worker'[w].item.of = n
      BY <2>1 DEF Passed
    <3>2. worker'[w].item = i /\ i.of = n
      BY <1>1, <3>1 DEF Pipeline!Idle
    <3>3. i.kind = "notice"
      BY <1>1, <3>1, WorkersApart DEF PushInv, ItemsAtHome, i
    <3>4. n \notin published
      BY DEF PushInv, LateOnesFew
    <3>5. worker[w].step # "guard"
      <4> SUFFICES ASSUME worker[w].step = "guard" PROVE FALSE
        OBVIOUS
      <4>1. Pipeline!Deliver(w)
        BY DEF Pipeline!Attempt, Pipeline!SendPush
      <4>2. ~Pipeline!stillDeliverable(i)
        BY <3>2, <3>3, <3>4 DEF Pipeline!stillDeliverable, Pipeline!NoticeStillPublished
      <4>3. worker' = [worker EXCEPT ![w] = Pipeline!Idle]
        BY <4>1, <4>2 DEF Pipeline!Deliver, i
      <4>4. worker'[w] = Pipeline!Idle
        BY <1>2, <4>3
      <4> QED
        BY <3>1, <4>4 DEF Pipeline!Idle
    <3>6. worker[w].step \in {"attempt", "send"}
      BY <1>1, <1>2, <3>5 DEF Carriers
    <3> QED
      BY <3>1, <3>2, <3>6 DEF Passed, i
  <2>2. \A v \in Passed(n)' : v # w => v \in Passed(n) /\ worker'[v] = worker[v]
    BY <1>4 DEF Passed, Pipeline!Workers
  <2>3. {worker[v].item.to : v \in Passed(n)}' \subseteq {worker[v].item.to : v \in Passed(n)}
    BY <2>1, <2>2
  <2>4. ASSUME i.kind = "notice", i.of = n, worker[w].step = "send" PROVE i.to \in LateOnes(n)
    <3>1. w \in Pipeline!BroadcastWorkers
      BY <1>1, <2>4 DEF PushInv, ItemsAtHome, i
    <3> QED
      BY <2>4, <3>1 DEF LateOnes, Passed, i
  <2> QED
    BY <1>5, <2>3, <2>4 DEF LateOnes
<1>11. ASSUME NEW m \in Messages
       PROVE  /\ Waiting(m)' = Waiting(m) /\ (Carried(m)' => Carried(m))
              /\ w # <<"shard", HomeOf(m)>> => CarrierOf(m)' = CarrierOf(m)
              /\ i.kind = "message" /\ i.of = m => w = <<"shard", HomeOf(m)>> /\ Carried(m)
  <2>1. <<"shard", HomeOf(m)>> \in Pipeline!Workers
    BY ShardsExist, WorkersApart
  <2>2. Waiting(m)' = Waiting(m)
    BY <1>0 DEF Waiting, HomeOf
  <2>3. w # <<"shard", HomeOf(m)>> => CarrierOf(m)' = CarrierOf(m)
    BY <1>4, <2>1 DEF CarrierOf, HomeOf
  <2>4. i.kind = "message" /\ i.of = m => w = <<"shard", HomeOf(m)>>
    BY CarriersOfMessages DEF PushInv, Holds, i
  <2>5. i.kind = "message" /\ i.of = m => Carried(m)
    BY <2>4 DEF Carried, CarrierOf, Holds, i
  <2>6. CASE w = <<"shard", HomeOf(m)>>
    <3>1. Carried(m)' => Holds(worker'[w].item, m)
      BY <2>6 DEF Carried, CarrierOf, HomeOf
    <3>2. Holds(worker'[w].item, m) => Holds(i, m)
      BY <1>1 DEF Holds, Pipeline!Idle, Pipeline!NoItem
    <3>3. Holds(i, m) => Carried(m)
      BY <2>6 DEF Carried, CarrierOf, i
    <3> QED
      BY <2>2, <2>3, <2>4, <2>5, <3>1, <3>2, <3>3
  <2>7. CASE w # <<"shard", HomeOf(m)>>
    BY <2>2, <2>3, <2>4, <2>5, <2>7 DEF Carried
  <2> QED
    BY <2>6, <2>7
<1>12. OneItemEach'
  BY <1>0, <1>11 DEF PushInv, OneItemEach
<1>13. LateOnce'
  <2> SUFFICES ASSUME NEW m \in Messages
               PROVE  /\ lateMessage'[m] <= 1
                      /\ lateMessage'[m] = 1 =>
                           /\ ~Pipeline!MessageStillAvailable(m)' /\ m \in told' /\ Waiting(m)' = {}
                           /\ Carried(m)' => CarrierOf(m)'.step = "attempt"
    BY DEF LateOnce
  <2>0. Pipeline!MessageStillAvailable(m)' = Pipeline!MessageStillAvailable(m)
    BY <1>0 DEF Pipeline!MessageStillAvailable
  <2>1. /\ lateMessage[m] <= 1 /\ lateMessage[m] \in Nat
        /\ lateMessage[m] = 1 =>
             /\ ~Pipeline!MessageStillAvailable(m) /\ m \in told /\ Waiting(m) = {}
             /\ Carried(m) => CarrierOf(m).step = "attempt"
        /\ Carried(m) => Waiting(m) = {} /\ m \in told
    BY <1>2 DEF PushInv, LateOnce, OneItemEach
  <2>2. CASE lateMessage'[m] # lateMessage[m]
    <3>1. /\ lateMessage'[m] = lateMessage[m] + 1 /\ i.kind = "message" /\ i.of = m
          /\ worker[w].step = "send" /\ {SenderOf[m], RecipientOf[m]} \intersect withdrawn # {}
      BY <1>6, <2>2
    <3>2. w = <<"shard", HomeOf(m)>> /\ Carried(m)
      BY <1>11, <3>1
    <3>3. CarrierOf(m).step = "send"
      BY <3>1, <3>2 DEF CarrierOf
    <3>4. lateMessage[m] = 0
      BY <2>1, <3>2, <3>3
    <3>5. Pipeline!SendPush(w, answer)
      BY <3>1 DEF Pipeline!Deliver, Pipeline!Attempt
    <3>6. worker'[w] = Pipeline!Idle \/ worker'[w].step = "attempt"
      BY SendGoesOn, <3>5 DEF PushInv
    <3>7. Carried(m)' => CarrierOf(m)'.step = "attempt"
      <4>1. CarrierOf(m)' = worker'[w]
        BY <3>2 DEF CarrierOf, HomeOf
      <4>2. Carried(m)' => worker'[w] # Pipeline!Idle
        BY <4>1 DEF Carried, Holds, Pipeline!Idle, Pipeline!NoItem
      <4> QED
        BY <3>6, <4>1, <4>2
    <3> QED
      BY <1>0, <1>11, <2>0, <2>1, <3>1, <3>2, <3>4, <3>7 DEF Pipeline!MessageStillAvailable
  <2>3. CASE lateMessage'[m] = lateMessage[m]
    <3> SUFFICES ASSUME lateMessage[m] = 1, Carried(m)' PROVE CarrierOf(m)'.step = "attempt"
      BY <1>0, <1>11, <2>0, <2>1, <2>3
    <3>1. CarrierOf(m).step = "attempt" /\ ~Pipeline!MessageStillAvailable(m) /\ Carried(m)
      BY <1>11, <2>1
    <3>2. CASE w # <<"shard", HomeOf(m)>>
      BY <1>11, <3>1, <3>2
    <3>3. CASE w = <<"shard", HomeOf(m)>>
      <4>1. worker[w].step = "attempt" /\ i.kind = "message" /\ i.of = m
        BY <3>1, <3>3 DEF CarrierOf, Carried, Holds, i
      <4>2. Pipeline!Attempt(w)
        BY <4>1 DEF Pipeline!Deliver, Pipeline!SendPush
      <4>3. ~Pipeline!messageStillAvailable(i, worker[w].device)
        BY <3>1, <4>1 DEF Pipeline!messageStillAvailable
      <4>4. worker' = [worker EXCEPT ![w] = Pipeline!Idle]
        BY <4>2, <4>3 DEF Pipeline!Attempt, i
      <4>5. worker'[w] = Pipeline!Idle
        BY <1>2, <4>4
      <4>6. ~Carried(m)'
        BY <3>3, <4>5 DEF Carried, CarrierOf, HomeOf, Holds, Pipeline!Idle, Pipeline!NoItem
      <4> QED
        BY <4>6
    <3> QED
      BY <3>2, <3>3
  <2> QED
    BY <2>2, <2>3
<1> QED
  BY <1>0, <1>8, <1>9, <1>10, <1>12, <1>13, PushFrame DEF PushInv

\* A notice is deleted: who was past its guard then is one member per worker.
LEMMA DeleteNoticeStep == ASSUME PushInv, NEW n \in Notices, Pipeline!DeleteNotice(n) PROVE PushInv'
<1>0. /\ n \in published /\ published' = published \ {n} /\ removed' = removed \union {n}
      /\ UNCHANGED <<reachable, noticeOff, messageOff, withdrawn, reviewed, shards, broadcast, fan,
                     worker, phase, enqueued, throughout, told, lateNotice, lateMessage>>
  BY DEF Pipeline!DeleteNotice, Pipeline!lateVars
<1>1. PushTypes'
  BY <1>0 DEF PushInv, PushTypes, Pipeline!TypeOK, Pipeline!ToSet
<1>2. WalkInOrder'
  BY <1>0 DEF PushInv, WalkInOrder
<1>3. \A k \in Notices : LateOnes(k)' = LateOnes(k)
  BY <1>0 DEF LateOnes, Passed
<1>4. Cardinality(LateOnes(n)) <= pushBroadcastWorkerCount
  <2> DEFINE S == Passed(n)
             f == [w \in S |-> worker[w].item.to]
  <2>1. LateOnes(n) = {f[w] : w \in S}
    BY <1>0 DEF PushInv, LateOnesFew, LateOnes
  <2>2. IsFiniteSet(S) /\ Cardinality(S) <= Cardinality(Pipeline!BroadcastWorkers)
    BY BroadcastWorkersCounted, FS_Subset DEF Passed
  <2>3. DOMAIN f = S /\ f = [w \in S |-> f[w]]
    OBVIOUS
  <2> HIDE DEF S, f
  <2>4. IsFiniteSet({f[w] : w \in S}) /\ Cardinality({f[w] : w \in S}) <= Cardinality(S)
    BY <2>2, <2>3, ImageIsNoLarger
  <2>5. /\ Cardinality({f[w] : w \in S}) \in Nat /\ Cardinality(S) \in Nat
        /\ Cardinality(Pipeline!BroadcastWorkers) \in Nat
    BY <2>2, <2>4, BroadcastWorkersCounted, FS_CardinalityType
  <2> QED
    BY <2>1, <2>2, <2>4, <2>5, BroadcastWorkersCounted, PushAssumption
<1>5. LateOnesFew'
  <2>1. published' \intersect removed' = {}
    BY <1>0 DEF PushInv, LateOnesFew
  <2>2. ASSUME NEW k \in Notices, k \in removed' PROVE Cardinality(LateOnes(k)') <= pushBroadcastWorkerCount
    BY <1>0, <1>3, <1>4, <2>2 DEF PushInv, LateOnesFew
  <2>3. ASSUME NEW k \in Notices, k \notin removed' PROVE lateNotice'[k] = {}
    BY <1>0, <2>3 DEF PushInv, LateOnesFew
  <2> QED
    BY <2>1, <2>2, <2>3 DEF LateOnesFew
<1> QED
  BY <1>0, <1>1, <1>2, <1>5, PushFrame DEF PushInv

\* Members come and go as recipients: who was one all the time is remembered.
LEMMA RecipientsChange ==
  ASSUME PushInv, Pipeline!Remember(Pipeline!NoticeRecipients'), UNCHANGED <<fan, enqueued>>
  PROVE  throughout' \in [Notices -> SUBSET Members] /\ WalkComplete'
<1>1. throughout' = [n \in Notices |-> IF fan[n].step \in {"list", "enqueue"}
                                       THEN throughout[n] \intersect Pipeline!NoticeRecipients' ELSE throughout[n]]
  BY DEF Pipeline!Remember
<1>2. throughout' \in [Notices -> SUBSET Members] /\ \A n \in Notices : throughout'[n] \subseteq throughout[n]
  BY <1>1 DEF PushInv, PushTypes
<1>3. \A n \in Notices : Walking(n)' = Walking(n) /\ \A u : StillToCome(n, u)' = StillToCome(n, u)
  BY DEF Walking, StillToCome
<1>4. \A n \in Notices : Walking(n) => throughout'[n] \subseteq Pipeline!NoticeRecipients'
  BY <1>1 DEF Walking
<1> QED
  BY <1>2, <1>3, <1>4 DEF PushInv, WalkComplete

\* Preferences, devices and withdrawals; who is gone stays gone.
LEMMA MemberStep ==
  ASSUME PushInv, NEW u \in Members,
         \/ \E wanted \in BOOLEAN, notices \in {"omitted", "on", "off"} :
              Pipeline!PutPreferences(u, wanted, notices)
         \/ Pipeline!ChangeDevices(u) \/ Pipeline!Withdraw(u)
  PROVE  PushInv'
<1>0. /\ UNCHANGED <<published, removed, reviewed, shards, broadcast, fan, worker, phase, enqueued, told,
                     lateNotice, lateMessage>>
      /\ reachable' \subseteq Members /\ noticeOff' \subseteq Members /\ messageOff' \subseteq Members
      /\ withdrawn' \subseteq Members /\ withdrawn \subseteq withdrawn'
      /\ Pipeline!Remember(Pipeline!NoticeRecipients')
  <2>0. reachable \subseteq Members /\ noticeOff \subseteq Members /\ messageOff \subseteq Members /\ withdrawn \subseteq Members
    BY DEF PushInv, PushTypes, Pipeline!TypeOK
  <2>1. ASSUME NEW p \in BOOLEAN, NEW q \in {"omitted", "on", "off"}, Pipeline!PutPreferences(u, p, q)
        PROVE  /\ UNCHANGED <<published, removed, reachable, withdrawn, reviewed, shards, broadcast, fan, worker,
                              phase, enqueued, told, lateNotice, lateMessage>>
               /\ noticeOff' \subseteq Members /\ messageOff' \subseteq Members
               /\ Pipeline!Remember(Pipeline!NoticeRecipients')
    BY <2>0, <2>1 DEF Pipeline!PutPreferences, Pipeline!UpsertPreferences, Pipeline!NoticeRecipients, Pipeline!lateVars
  <2>2. CASE Pipeline!ChangeDevices(u)
    BY <2>0, <2>2 DEF Pipeline!ChangeDevices, Pipeline!NoticeRecipients, Pipeline!lateVars
  <2>3. CASE Pipeline!Withdraw(u)
    BY <2>0, <2>3 DEF Pipeline!Withdraw, Pipeline!NoticeRecipients, Pipeline!lateVars
  <2> QED
    BY <2>0, <2>1, <2>2, <2>3
<1>1. throughout' \in [Notices -> SUBSET Members] /\ WalkComplete'
  BY <1>0, RecipientsChange
<1>2. PushTypes'
  BY <1>0, <1>1 DEF PushInv, PushTypes, Pipeline!TypeOK, Pipeline!ToSet
<1>3. LateOnce'
  <2>1. \A m \in Messages : /\ Waiting(m)' = Waiting(m) /\ Carried(m)' = Carried(m) /\ CarrierOf(m)' = CarrierOf(m)
                            /\ Pipeline!MessageStillAvailable(m)' => Pipeline!MessageStillAvailable(m)
    BY <1>0 DEF Waiting, Carried, CarrierOf, HomeOf, Pipeline!MessageStillAvailable
  <2> QED
    BY <1>0, <2>1 DEF PushInv, LateOnce
<1> QED
  BY <1>0, <1>1, <1>2, <1>3, PushFrame DEF PushInv

\* The queues are closed when every fan-out is over.
LEMMA StopStep == ASSUME PushInv, Pipeline!StopNext PROVE PushInv'
<1>0. /\ UNCHANGED <<published, removed, reachable, noticeOff, messageOff, withdrawn, reviewed, shards,
                     broadcast, fan, worker, enqueued, throughout, told, lateNotice, lateMessage>>
      /\ phase' \in {"closing", "closed", "stopped", "abandoned"}
      /\ phase' = "closed" => \A n \in Notices : fan[n].step \notin {"list", "enqueue"}
      /\ phase' = "stopped" => phase = "closed"
  BY DEF Pipeline!StopNext, Pipeline!BeginShutdown, Pipeline!CloseQueues, Pipeline!Stopped, Pipeline!Abandon,
         Pipeline!lateVars, Pipeline!dbVars
<1>1. Pipeline!NoSendOnClosedQueue'
  BY <1>0 DEF PushInv, Pipeline!NoSendOnClosedQueue
<1>2. PushTypes'
  BY <1>0 DEF PushInv, PushTypes, Pipeline!TypeOK, Pipeline!ToSet
<1> QED
  BY <1>0, <1>1, <1>2, PushFrame DEF PushInv

-----------------------------------------------------------------------------
(* Pushes are sound *)

LEMMA PushInitially == Pipeline!Init => PushInv
<1> SUFFICES ASSUME Pipeline!Init PROVE PushInv
  OBVIOUS
<1>1. /\ shards = [i \in Pipeline!Shards |-> <<>>] /\ broadcast = <<>>
      /\ worker = [w \in Pipeline!Workers |-> Pipeline!Idle] /\ fan = [n \in Notices |-> Pipeline!NoFan]
      /\ enqueued = [n \in Notices |-> [u \in Members |-> 0]]
  BY DEF Pipeline!Init
<1>2. /\ Pipeline!NoFan \in Fans /\ Pipeline!NoFan.step = "none" /\ Pipeline!NoFan.page = {}
      /\ Pipeline!Idle \in Carriers /\ Pipeline!Idle.step = "idle"
      /\ \A m : ~Holds(Pipeline!Idle.item, m)
  BY DEF Pipeline!NoFan, Fans, Carriers, Pipeline!Idle, Pipeline!NoItem, Holds
<1>3. PushTypes
  <2>1. Pipeline!ToSet(broadcast) = {}
    BY <1>1 DEF Pipeline!ToSet
  <2>2. /\ published = {} /\ removed = {} /\ reachable = Members /\ noticeOff = {} /\ messageOff = {} /\ withdrawn = {}
        /\ reviewed = [u \in Members |-> "pending"] /\ phase = "running" /\ told = {}
        /\ throughout = [n \in Notices |-> {}] /\ lateNotice = [n \in Notices |-> {}]
        /\ lateMessage = [m \in Messages |-> 0]
    BY DEF Pipeline!Init
  <2>3. Len(<<>>) = 0
    OBVIOUS
  <2>4. /\ \A i \in Pipeline!Shards : Len(shards[i]) <= pushShardCapacity
        /\ Len(broadcast) <= pushBroadcastCapacity
    BY <1>1, <2>3, PushAssumption
  <2>5. Pipeline!TypeOK
    BY <1>1, <1>2, <2>1, <2>2, <2>4 DEF Pipeline!TypeOK
  <2> QED
    BY <1>1, <1>2, <2>2, <2>5 DEF PushTypes
<1>4. ItemsAtHome
  <2>1. \A i \in Pipeline!Shards : 1..Len(shards[i]) = {}
    BY <1>1
  <2> QED
    BY <1>1, <2>1 DEF ItemsAtHome
<1>5. WalkInOrder /\ WalkComplete /\ Pipeline!NoSendOnClosedQueue
  BY <1>1, <1>2 DEF Pipeline!Init, WalkInOrder, WalkComplete, Walking, Pipeline!NoSendOnClosedQueue, Pipeline!NoFan
<1>6. LateOnesFew
  BY DEF Pipeline!Init, LateOnesFew
<1>7. \A m \in Messages : Waiting(m) = {} /\ ~Carried(m) /\ lateMessage[m] = 0
  <2>1. \A m \in Messages : shards[HomeOf(m)] = <<>> /\ CarrierOf(m) = Pipeline!Idle
    BY <1>1, ShardsExist, WorkersApart DEF CarrierOf
  <2>2. 1..Len(<<>>) = {}
    OBVIOUS
  <2> QED
    BY <1>2, <2>1, <2>2 DEF Waiting, Carried, Pipeline!Init
<1> QED
  BY <1>3, <1>4, <1>5, <1>6, <1>7 DEF PushInv, OneItemEach, LateOnce

LEMMA PushStep == ASSUME PushInv, [Pipeline!Next]_push PROVE PushInv'
<1>1. ASSUME NEW n \in Notices,
             \/ Pipeline!NotifyNoticePublished(n) \/ Pipeline!ListPage(n) \/ Pipeline!ListPageFails(n)
             \/ Pipeline!ListPageInterrupted(n) \/ Pipeline!EnqueueNotice(n) \/ Pipeline!EnqueueDropped(n)
             \/ Pipeline!DeleteNotice(n)
      PROVE  PushInv'
  BY <1>1, PublishNoticeStep, ListPageStep, ListFailsStep, EnqueueStep, DeleteNoticeStep
<1>2. ASSUME NEW w \in Pipeline!Workers,
             \/ Pipeline!Take(w) \/ Pipeline!Deliver(w) \/ Pipeline!Attempt(w)
             \/ \E answer \in Pipeline!Answers : Pipeline!SendPush(w, answer)
      PROVE  PushInv'
  BY <1>2, TakeStep, DeliveryStep
<1>3. CASE Pipeline!NotifyNext
  BY <1>3, MessageStep, ReviewStep DEF Pipeline!NotifyNext
<1>4. CASE Pipeline!PreferenceNext \/ Pipeline!DeviceNext \/ Pipeline!WithdrawNext
  BY <1>4, MemberStep DEF Pipeline!PreferenceNext, Pipeline!DeviceNext, Pipeline!WithdrawNext
<1>5. CASE Pipeline!StopNext
  BY <1>5, StopStep
<1>6. CASE UNCHANGED push
  <2>1. PushTypes'
    BY <1>6 DEF push, PushInv, PushTypes, Pipeline!TypeOK, Pipeline!ToSet
  <2> QED
    BY <1>6, <2>1, PushFrame DEF push, PushInv
<1> QED
  BY <1>1, <1>2, <1>3, <1>4, <1>5, <1>6 DEF Pipeline!Next, Pipeline!FanNext, Pipeline!WorkNext

\* What the run checks follows.
LEMMA PushInvSuffices == PushInv => Pipeline!PushesAreSound
<1> SUFFICES ASSUME PushInv PROVE Pipeline!PushesAreSound
  OBVIOUS
<1>1. Pipeline!BroadcastReachesOnce
  BY DEF PushInv, WalkInOrder, WalkComplete, Pipeline!BroadcastReachesOnce
<1>2. Pipeline!LateNoticeBound
  <2> SUFFICES ASSUME NEW n \in Notices PROVE Cardinality(lateNotice[n]) <= pushBroadcastWorkerCount
    BY SameCardinality DEF Pipeline!LateNoticeBound
  <2>1. CASE n \notin removed
    <3>1. lateNotice[n] = {}
      BY <2>1 DEF PushInv, LateOnesFew
    <3> QED
      BY <3>1, FS_EmptySet, PushAssumption
  <2>2. CASE n \in removed
    <3>1. Cardinality(LateOnes(n)) <= pushBroadcastWorkerCount
      BY <2>2 DEF PushInv, LateOnesFew
    <3>2. IsFiniteSet(Passed(n))
      BY BroadcastWorkersCounted, FS_Subset DEF Passed
    <3> DEFINE f == [w \in Passed(n) |-> worker[w].item.to]
    <3>3. IsFiniteSet({f[w] : w \in Passed(n)})
      <4>1. DOMAIN f = Passed(n) /\ f = [w \in Passed(n) |-> f[w]]
        OBVIOUS
      <4> HIDE DEF f
      <4> QED
        BY <3>2, <4>1, ImageIsNoLarger
    <3>4. IsFiniteSet(lateNotice[n])
      BY PushAssumption, FS_Subset DEF PushInv, PushTypes
    <3>5. LateOnes(n) = lateNotice[n] \union {f[w] : w \in Passed(n)}
      BY DEF LateOnes
    <3> HIDE DEF f
    <3>6. IsFiniteSet(LateOnes(n)) /\ lateNotice[n] \subseteq LateOnes(n)
      BY <3>3, <3>4, <3>5, FS_Union
    <3>7. /\ Cardinality(lateNotice[n]) <= Cardinality(LateOnes(n))
          /\ Cardinality(lateNotice[n]) \in Nat /\ Cardinality(LateOnes(n)) \in Nat
      BY <3>4, <3>6, FS_Subset, FS_CardinalityType
    <3> QED
      BY <3>1, <3>7, PushAssumption
  <2> QED
    BY <2>1, <2>2
<1>3. Pipeline!LateMessageOnce
  BY DEF PushInv, LateOnce, Pipeline!LateMessageOnce
<1> QED
  BY <1>1, <1>2, <1>3 DEF PushInv, PushTypes, Pipeline!PushesAreSound

(***************************************************************************)
(* A broadcast reaches its recipients once and the shutdown never closes a *)
(* queue under a sender (fanOutNotice, startProducer, Stop); after a       *)
(* notice is deleted its broadcast reaches at most one member per worker   *)
(* and after a participant withdraws a message is sent at most once more   *)
(* (stillDeliverable, messageStillAvailable).  PushDelivery by itself.     *)
(***************************************************************************)
THEOREM PushesSound == Pipeline!Spec => []Pipeline!PushesAreSound
<1>1. PushInv /\ [Pipeline!Next]_(Pipeline!vars) => PushInv'
  BY PushStep DEF Pipeline!vars, push
<1> QED
  BY <1>1, PushInitially, PushInvSuffices, PTL DEF Pipeline!Spec

(***************************************************************************)
(* The same of the specification that the run checks: the broadcast with   *)
(* its shutdown, and the messages and reviews, are scenes of it.           *)
(***************************************************************************)
THEOREM PushesSoundAlways == MCSpec => []PushesAreSound
<1>1. MCInit => PushInv
  BY PushInitially DEF MCInit
<1>2. PushInv /\ [MCNext]_<<scene, talk, hub, push>> => PushInv'
  <2>1. FanNext => Pipeline!Next
    BY DEF FanNext, Pipeline!Next, Pipeline!WorkNext
  <2>2. DirectNext => Pipeline!Next
    <3>1. \A m \in Messages : SenderOf[m] \in Members /\ RecipientOf[m] \in Members
      BY PushAssumption
    <3> QED
      BY <3>1 DEF DirectNext, Pipeline!Next, Pipeline!NotifyNext, Pipeline!WithdrawNext, Pipeline!PreferenceNext
  <2>3. [MCNext]_<<scene, talk, hub, push>> => [Pipeline!Next]_push
    BY <2>1, <2>2 DEF MCNext
  <2> QED
    BY <2>3, PushStep
<1>3. PushInv => PushesAreSound
  BY PushInvSuffices DEF PushesAreSound
<1> QED
  BY <1>1, <1>2, <1>3, PTL DEF MCSpec

=============================================================================
