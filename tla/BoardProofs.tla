---------------------------- MODULE BoardProofs ----------------------------
(***************************************************************************)
(* The notice board: every notice is found and stays what it was, every    *)
(* count a page shows agrees with the rows beneath it, and moderation      *)
(* holds, for any number of editors, members, moderators and requests, of  *)
(* notices, categories, attachments, rows, comments and reports, and for   *)
(* any length of a page.                                                   *)
(***************************************************************************)
EXTENDS MCBoard, FiniteSetTheorems, FunctionTheorems, WellFoundedInduction, TLAPS

-----------------------------------------------------------------------------
(* Sums                                                                    *)

Chosen(s) == CHOOSE x \in s : TRUE

FoldStep(part, C, g) ==
    [s \in SUBSET C |-> IF s = {} THEN 0 ELSE Cardinality(part[Chosen(s)]) + g[s \ {Chosen(s)}]]

\* What a fold adds up over a set whose members have disjoint parts is the
\* number of elements of those parts, whatever order the fold takes them in.
LEMMA FoldOfParts ==
    ASSUME NEW C, IsFiniteSet(C), NEW part,
           \A c \in C : IsFiniteSet(part[c]),
           \A c, d \in C : c # d => part[c] \cap part[d] = {}
    PROVE  /\ \E g : g = FoldStep(part, C, g)
           /\ \A g : g = FoldStep(part, C, g) => g[C] = Cardinality(UNION {part[c] : c \in C})
<1> DEFINE step(g) == FoldStep(part, C, g)
           all(s) == UNION {part[c] : c \in s}
           count == [s \in SUBSET C |-> Cardinality(all(s))]
<1>1. ASSUME NEW s \in SUBSET C, s # {}
      PROVE  /\ Chosen(s) \in s /\ s \ {Chosen(s)} \in SUBSET C
             /\ count[s] = Cardinality(part[Chosen(s)]) + count[s \ {Chosen(s)}]
  <2>1. Chosen(s) \in s
    BY <1>1 DEF Chosen
  <2> DEFINE rest == s \ {Chosen(s)}
  <2>2. all(s) = part[Chosen(s)] \cup all(rest) /\ part[Chosen(s)] \cap all(rest) = {}
    BY <2>1
  <2>3. IsFiniteSet(all(rest))
    <3>1. IsFiniteSet(rest)
      BY FS_Subset
    <3> DEFINE parts == {part[c] : c \in rest}
               f == [c \in rest |-> part[c]]
    <3>2. f \in Surjection(rest, parts)
      BY DEF Surjection
    <3>3. IsFiniteSet(parts)
      <4> HIDE DEF f, parts, rest
      <4> QED
        BY <3>1, <3>2, FS_Surjection
    <3>4. \A T \in parts : IsFiniteSet(T)
      OBVIOUS
    <3> HIDE DEF parts
    <3>5. IsFiniteSet(UNION parts)
      BY <3>3, <3>4, FS_UNION
    <3> QED
      BY <3>5 DEF parts
  <2>4. /\ IsFiniteSet(part[Chosen(s)])
        /\ Cardinality(part[Chosen(s)]) \in Nat /\ Cardinality(all(rest)) \in Nat
    BY <2>1, <2>3, FS_CardinalityType
  <2> HIDE DEF all, rest
  <2>5. Cardinality(all(s)) = Cardinality(part[Chosen(s)]) + Cardinality(all(rest))
                              - Cardinality(part[Chosen(s)] \cap all(rest))
    BY <2>2, <2>3, <2>4, FS_Union
  <2>6. Cardinality(all(s)) = Cardinality(part[Chosen(s)]) + Cardinality(all(rest))
    <3>1. Cardinality(part[Chosen(s)] \cap all(rest)) = 0
      BY <2>2, FS_EmptySet
    <3> QED
      BY <2>4, <2>5, <3>1
  <2>7. rest \in SUBSET C
    BY DEF rest
  <2> QED
    BY <2>1, <2>6, <2>7 DEF rest
<1>2. count[{}] = 0
  BY FS_EmptySet
<1>3. count = step(count)
  <2> HIDE DEF count
  <2>1. \A s \in SUBSET C : step(count)[s] = count[s]
    BY <1>1, <1>2 DEF FoldStep
  <2>2. count = [s \in SUBSET C |-> count[s]]
    BY DEF count
  <2> QED
    BY <2>1, <2>2 DEF FoldStep
<1>4. ASSUME NEW g, g = step(g)
      PROVE  g[C] = count[C]
  <2> DEFINE Differ == {s \in SUBSET C : g[s] # count[s]}
  <2> HIDE DEF count
  <2>1. Differ = {}
    <3>1. SUFFICES ASSUME Differ # {} PROVE FALSE
      OBVIOUS
    <3>2. IsWellFoundedOn(StrictSubsetOrdering(C), SUBSET C)
      BY FS_StrictSubsetOrderingWellFounded, FS_FiniteSubsetsOfFinite
    <3>3. PICK s \in Differ : \A t \in Differ : <<t, s>> \notin StrictSubsetOrdering(C)
      <4> HIDE DEF Differ
      <4>1. Differ \subseteq SUBSET C
        BY DEF Differ
      <4> QED
        BY <3>1, <3>2, <4>1, WFMin
    <3>4. s # {}
      <4>1. g[{}] = 0
        BY <1>4 DEF FoldStep
      <4> QED
        BY <1>2, <3>3, <4>1
    <3>5. Chosen(s) \in s /\ s \ {Chosen(s)} \in SUBSET C
      BY <1>1, <3>3, <3>4
    <3>6. s \ {Chosen(s)} \notin Differ
      <4> DEFINE smaller == s \ {Chosen(s)}
      <4>1. <<smaller, s>> \in StrictSubsetOrdering(C)
        <5>1. smaller \in SUBSET C /\ s \in SUBSET C /\ smaller \subseteq s /\ smaller # s
          BY <3>3, <3>5
        <5> HIDE DEF smaller
        <5> QED
          BY <5>1 DEF StrictSubsetOrdering
      <4> HIDE DEF smaller, Differ
      <4> QED
        BY <3>3, <4>1 DEF smaller
    <3>7. g[s] = Cardinality(part[Chosen(s)]) + g[s \ {Chosen(s)}]
      <4>1. step(g)[s] = Cardinality(part[Chosen(s)]) + g[s \ {Chosen(s)}]
        BY <3>3, <3>4 DEF FoldStep
      <4> QED
        BY <1>4, <4>1
    <3>8. count[s] = Cardinality(part[Chosen(s)]) + count[s \ {Chosen(s)}]
      BY <1>1, <3>3, <3>4
    <3>9. g[s \ {Chosen(s)}] = count[s \ {Chosen(s)}]
      BY <3>5, <3>6
    <3> QED
      BY <3>3, <3>7, <3>8, <3>9
  <2> QED
    BY <2>1
<1> QED
  BY <1>3, <1>4

-----------------------------------------------------------------------------
(* Greatest and least                                                      *)

\* A finite set of integers that is not empty has a greatest element: take a
\* smallest subset that has none and one of its elements away.
LEMMA FiniteHasMax ==
    ASSUME NEW S \in SUBSET Int, IsFiniteSet(S), S # {}
    PROVE  Max(S) \in S /\ \A y \in S : Max(S) >= y
<1> DEFINE Greatest(x, T) == x \in T /\ \A y \in T : x >= y
           Without == {T \in SUBSET S : T # {} /\ ~\E x \in T : Greatest(x, T)}
<1>1. Without = {}
  <2>1. SUFFICES ASSUME Without # {} PROVE FALSE
    OBVIOUS
  <2>2. IsWellFoundedOn(StrictSubsetOrdering(S), SUBSET S)
    BY FS_StrictSubsetOrderingWellFounded, FS_FiniteSubsetsOfFinite
  <2>3. PICK T \in Without : \A U \in Without : <<U, T>> \notin StrictSubsetOrdering(S)
    <3> HIDE DEF Without
    <3>1. Without \subseteq SUBSET S
      BY DEF Without
    <3> QED
      BY <2>1, <2>2, <3>1, WFMin
  <2>4. PICK x \in T : TRUE
    OBVIOUS
  <2>5. T \ {x} \notin Without
    BY <2>3, <2>4 DEF StrictSubsetOrdering
  <2>6. CASE T \ {x} = {}
    BY <2>4, <2>6
  <2>7. CASE T \ {x} # {}
    <3>1. PICK z \in T \ {x} : \A y \in T \ {x} : z >= y
      BY <2>5, <2>7
    <3>2. CASE x >= z
      BY <3>1, <3>2, <2>4
    <3>3. CASE z >= x
      BY <3>1, <3>3, <2>4
    <3> QED
      BY <3>1, <3>2, <3>3, <2>4
  <2> QED
    BY <2>6, <2>7
<1>2. \E x \in S : \A y \in S : x >= y
  BY <1>1
<1> QED
  BY <1>2 DEF Max

\* A set of naturals that is not empty has a least element.
LEMMA NaturalsHaveMin ==
    ASSUME NEW S \in SUBSET Nat, S # {}
    PROVE  Min(S) \in S /\ \A y \in S : Min(S) <= y
<1>1. PICK x \in S : \A y \in S : ~(<<y, x>> \in OpToRel(<, Nat))
  BY NatLessThanWellFounded, WFMin
<1>2. \A y \in S : ~(y < x)
  BY <1>1 DEF OpToRel
<1>3. \A y \in S : x <= y
  BY <1>2
<1> QED
  BY <1>3 DEF Min

\* The lesser and the greater of two numbers.
LEMMA OfTwo ==
    ASSUME NEW m \in Nat, NEW n \in Nat
    PROVE  /\ Min({m, n}) \in {m, n} /\ Min({m, n}) <= m /\ Min({m, n}) <= n
           /\ Max({m, n}) \in {m, n} /\ Max({m, n}) >= m /\ Max({m, n}) >= n
<1>1. IsFiniteSet({m, n})
  <2>1. {m, n} = {m} \cup {n}
    OBVIOUS
  <2>2. IsFiniteSet({m})
    BY FS_Singleton
  <2>3. IsFiniteSet({m} \cup {n})
    BY <2>2, FS_AddElement
  <2> QED
    BY <2>1, <2>3
<1>2. {m, n} \in SUBSET Nat /\ {m, n} \in SUBSET Int /\ {m, n} # {}
  OBVIOUS
<1> QED
  BY <1>1, <1>2, FiniteHasMax, NaturalsHaveMin

-----------------------------------------------------------------------------
(* Pages                                                                   *)

\* Rows that an order tells apart, and those of them before a row.
Ordered(rows, order) ==
    /\ IsFiniteSet(rows) /\ \A s \in rows : order[s] \in Nat
    /\ \A s, t \in rows : order[s] = order[t] => s = t
Before(rows, order, s) == {t \in rows : order[t] > order[s]}

LEMMA BeforeIsFinite ==
    ASSUME NEW rows, NEW order, Ordered(rows, order), NEW s
    PROVE  IsFiniteSet(Before(rows, order, s)) /\ Cardinality(Before(rows, order, s)) \in Nat
<1>1. Before(rows, order, s) \subseteq rows /\ IsFiniteSet(rows)
  BY DEF Before, Ordered
<1>2. IsFiniteSet(Before(rows, order, s))
  BY <1>1, FS_Subset
<1> QED
  BY <1>2, FS_CardinalityType

\* Some rows have a first and a last one.
LEMMA FirstAndLast ==
    ASSUME NEW rows, NEW order, Ordered(rows, order), NEW S \in SUBSET rows, S # {}
    PROVE  /\ \E x \in S : \A y \in S : order[x] >= order[y]
           /\ \E x \in S : \A y \in S : order[y] >= order[x]
<1> DEFINE places == {order[x] : x \in S}
           f == [x \in S |-> order[x]]
<1>1. IsFiniteSet(S)
  BY FS_Subset DEF Ordered
<1>2. f \in Surjection(S, places)
  BY DEF Surjection
<1>3. IsFiniteSet(places)
  <2> HIDE DEF f, places
  <2> QED
    BY <1>1, <1>2, FS_Surjection
<1>4. places \in SUBSET Nat /\ places \in SUBSET Int /\ places # {}
  BY DEF Ordered
<1>5. Max(places) \in places /\ \A y \in places : Max(places) >= y
  <2> HIDE DEF places
  <2> QED
    BY <1>3, <1>4, FiniteHasMax
<1>6. Min(places) \in places /\ \A y \in places : Min(places) <= y
  <2> HIDE DEF places
  <2> QED
    BY <1>4, NaturalsHaveMin
<1>7. \A x \in S : order[x] \in places
  OBVIOUS
<1>8. PICK x \in S : order[x] = Max(places)
  BY <1>5
<1>9. PICK z \in S : order[z] = Min(places)
  BY <1>6
<1>10. \A y \in S : order[z] <= order[y] /\ order[y] \in Nat /\ order[z] \in Nat
  BY <1>4, <1>6, <1>7, <1>9
<1> QED
  BY <1>5, <1>7, <1>8, <1>10

\* What comes before a row on a page is on the page.
LEMMA LimitIsFirst ==
    ASSUME NEW rows, NEW order, Ordered(rows, order), NEW n \in Nat,
           NEW s \in Limit(rows, order, n), NEW t \in rows, order[t] > order[s]
    PROVE  /\ t \in Limit(rows, order, n)
           /\ Before(rows, order, t) \subseteq Limit(rows, order, n)
<1>1. ASSUME NEW x \in rows, order[x] > order[s]
      PROVE  x \in Limit(rows, order, n)
  <2>1. s \in rows /\ Cardinality(Before(rows, order, s)) < n
    BY DEF Limit, Before
  <2>2. Before(rows, order, x) \subseteq Before(rows, order, s)
    BY <1>1, <2>1 DEF Before, Ordered
  <2>3. IsFiniteSet(Before(rows, order, s)) /\ Cardinality(Before(rows, order, s)) \in Nat
        /\ Cardinality(Before(rows, order, x)) \in Nat
    BY BeforeIsFinite
  <2>4. Cardinality(Before(rows, order, x)) <= Cardinality(Before(rows, order, s))
    BY <2>2, <2>3, FS_Subset
  <2>5. Cardinality(Before(rows, order, x)) < n
    BY <2>1, <2>3, <2>4
  <2> QED
    BY <1>1, <2>5 DEF Limit, Before
<1>2. \A x \in Before(rows, order, t) : x \in rows /\ order[x] > order[s]
  BY DEF Before, Ordered, Limit
<1> QED
  BY <1>1, <1>2

\* When rows are cut off, the first of them comes right after a full page.
LEMMA FirstCutOff ==
    ASSUME NEW rows, NEW order, Ordered(rows, order), NEW n \in Nat, Limit(rows, order, n) # rows
    PROVE  \E s \in rows : /\ s \notin Limit(rows, order, n)
                           /\ Before(rows, order, s) \subseteq Limit(rows, order, n)
                           /\ Cardinality(Before(rows, order, s)) = n
<1> DEFINE cut == rows \ Limit(rows, order, n)
<1>1. cut # {} /\ cut \in SUBSET rows
  BY DEF Limit
<1>2. PICK s \in cut : \A y \in cut : order[s] >= order[y]
  <2> HIDE DEF cut
  <2> QED
    BY <1>1, FirstAndLast
<1>3. Before(rows, order, s) \subseteq Limit(rows, order, n)
  <2>1. ASSUME NEW t \in rows, order[t] > order[s], t \notin Limit(rows, order, n) PROVE FALSE
    <3>1. order[s] >= order[t] /\ order[s] \in Nat /\ order[t] \in Nat
      BY <1>2, <2>1 DEF Ordered
    <3> QED
      BY <2>1, <3>1
  <2> QED
    BY <2>1 DEF Before
<1>4. Cardinality(Before(rows, order, s)) \in Nat /\ ~(Cardinality(Before(rows, order, s)) < n)
  <2>1. s \in rows /\ s \notin Limit(rows, order, n)
    BY <1>2
  <2> QED
    BY <2>1, BeforeIsFinite DEF Limit, Before
<1>5. CASE Before(rows, order, s) = {}
  BY <1>2, <1>3, <1>4, <1>5, FS_EmptySet
<1>6. CASE Before(rows, order, s) # {}
  <2>1. Before(rows, order, s) \in SUBSET rows
    BY DEF Before
  <2>2. PICK t \in Before(rows, order, s) : \A y \in Before(rows, order, s) : order[y] >= order[t]
    BY <1>6, <2>1, FirstAndLast
  <2>3. t \in rows /\ order[t] > order[s] /\ s \in rows
    BY <1>2, <2>2 DEF Before
  <2>4. Before(rows, order, s) = Before(rows, order, t) \cup {t}
    <3>1. ASSUME NEW x \in Before(rows, order, s) PROVE x \in Before(rows, order, t) \cup {t}
      <4>1. x \in rows /\ order[x] >= order[t] /\ order[x] \in Nat /\ order[t] \in Nat
        BY <2>2, <2>3, <3>1 DEF Before, Ordered
      <4>2. x = t \/ order[x] > order[t]
        BY <2>3, <4>1 DEF Ordered
      <4> QED
        BY <4>1, <4>2 DEF Before
    <3>2. ASSUME NEW x \in Before(rows, order, t) PROVE x \in Before(rows, order, s)
      <4>1. x \in rows /\ order[x] > order[t] /\ order[x] \in Nat /\ order[t] \in Nat /\ order[s] \in Nat
        BY <2>3, <3>2 DEF Before, Ordered
      <4> QED
        BY <2>3, <4>1 DEF Before
    <3> QED
      BY <2>2, <3>1, <3>2
  <2>5. t \notin Before(rows, order, t)
    BY <2>3 DEF Before, Ordered
  <2>6. /\ IsFiniteSet(Before(rows, order, t)) /\ Cardinality(Before(rows, order, t)) \in Nat
    BY BeforeIsFinite
  <2>7. Cardinality(Before(rows, order, s)) = Cardinality(Before(rows, order, t)) + 1
    BY <2>4, <2>5, <2>6, FS_AddElement
  <2>8. Cardinality(Before(rows, order, t)) < n
    BY <1>3, <2>2 DEF Limit, Before
  <2>9. Cardinality(Before(rows, order, s)) = n
    BY <1>4, <2>6, <2>7, <2>8
  <2> QED
    BY <1>2, <1>3, <2>9
<1> QED
  BY <1>5, <1>6

(* One page of a query that asks for a row more: the page is the first rows, *)
(* it is all of them unless there is that row, and otherwise its last row    *)
(* comes before everything that is cut off.                                  *)
LEMMA PageCovers ==
    ASSUME NEW rows, NEW order, Ordered(rows, order)
    PROVE  LET got   == Limit(rows, order, PageSize + 1)
               items == Page(got, order)
           IN  /\ items \subseteq rows
               /\ items # rows => Cardinality(got) > PageSize
               /\ Cardinality(got) > PageSize =>
                    /\ got # {} /\ NextCursor(got, order) \in items
                    /\ \A t \in items : order[t] >= order[NextCursor(got, order)]
                    /\ \A t \in rows \ items : order[t] < order[NextCursor(got, order)]
               /\ \A P \in SUBSET rows :
                    Cardinality(P) < PageSize /\ items # rows => ~(items \subseteq P)
<1> DEFINE got   == Limit(rows, order, PageSize + 1)
           items == Page(got, order)
           first == Limit(rows, order, PageSize)
<1>0. PageSize \in Nat /\ PageSize # 0 /\ PageSize + 1 \in Nat /\ IsFiniteSet(rows)
  BY BoardAssumption DEF Ordered
<1>1. first \subseteq got /\ got \subseteq rows
  <2>1. \A s \in rows : Cardinality(Before(rows, order, s)) \in Nat
    BY BeforeIsFinite
  <2> QED
    BY <1>0, <2>1 DEF Limit, Before
<1>2. \A s \in got : Before(got, order, s) = Before(rows, order, s)
  <2> SUFFICES ASSUME NEW s \in got, NEW t \in rows, order[t] > order[s] PROVE t \in got
    BY <1>1 DEF Before
  <2> QED
    BY <1>0, LimitIsFirst
<1>3. items = first
  <2>1. items = {s \in got : Cardinality(Before(got, order, s)) < PageSize}
    BY DEF Page, Limit, Before
  <2>2. first = {s \in rows : Cardinality(Before(rows, order, s)) < PageSize}
    BY DEF Limit, Before
  <2> HIDE DEF got, items, first
  <2> QED
    BY <1>1, <1>2, <2>1, <2>2
<1>4. IsFiniteSet(got) /\ IsFiniteSet(first) /\ Cardinality(got) \in Nat /\ Cardinality(first) \in Nat
  <2> HIDE DEF got, first
  <2>1. first \subseteq rows
    BY <1>1
  <2> QED
    BY <1>0, <1>1, <2>1, FS_Subset, FS_CardinalityType
<1>5. ASSUME first # rows
      PROVE  PageSize <= Cardinality(first) /\ Cardinality(got) > PageSize
  <2>1. PICK s \in rows : /\ s \notin first
                          /\ Before(rows, order, s) \subseteq first
                          /\ Cardinality(Before(rows, order, s)) = PageSize
    BY <1>0, <1>5, FirstCutOff
  <2>2. s \in got
    BY <1>0, <2>1 DEF Limit, Before
  <2>3. IsFiniteSet(Before(rows, order, s))
    BY BeforeIsFinite
  <2> HIDE DEF first, got
  <2>4. PageSize <= Cardinality(first)
    BY <1>4, <2>1, FS_Subset
  <2>5. Cardinality(Before(rows, order, s) \cup {s}) = PageSize + 1
    BY <2>1, <2>3, FS_AddElement
  <2>6. Before(rows, order, s) \cup {s} \subseteq got
    BY <1>1, <2>1, <2>2
  <2>7. PageSize + 1 <= Cardinality(got)
    BY <1>4, <2>5, <2>6, FS_Subset
  <2> QED
    BY <1>0, <1>4, <2>4, <2>7
<1>6. ASSUME Cardinality(got) > PageSize
      PROVE  /\ got # {} /\ NextCursor(got, order) \in items
             /\ \A t \in items : order[t] >= order[NextCursor(got, order)]
             /\ \A t \in rows \ items : order[t] < order[NextCursor(got, order)]
  <2>1. got # {} /\ rows # {}
    <3> HIDE DEF got
    <3> QED
      BY <1>0, <1>1, <1>6, FS_EmptySet
  <2>2. items # {}
    <3>1. PICK x \in rows : \A y \in rows : order[x] >= order[y]
      <4>1. rows \in SUBSET rows
        OBVIOUS
      <4> QED
        BY <2>1, <4>1, FirstAndLast
    <3>2. Before(rows, order, x) = {}
      BY <3>1 DEF Before, Ordered
    <3>3. x \in first
      BY <1>0, <3>2, FS_EmptySet DEF Limit, Before
    <3> QED
      BY <1>3, <3>3
  <2>3. \E x \in items : \A y \in items : order[y] >= order[x]
    <3> HIDE DEF items, first
    <3>1. items \in SUBSET rows
      BY <1>1, <1>3
    <3> QED
      BY <2>2, <3>1, FirstAndLast
  <2> DEFINE last == NextCursor(got, order)
  <2>4. last \in items /\ \A y \in items : order[y] >= order[last]
    BY <2>3 DEF NextCursor
  <2>5. ASSUME NEW t \in rows \ items PROVE order[t] < order[last]
    <3>1. last \in first /\ t \notin first
      BY <1>3, <2>4, <2>5
    <3>2. last \in rows
      BY <1>1, <3>1
    <3> HIDE DEF last
    <3>3. ~(order[t] > order[last])
      BY <1>0, <3>1, <2>5, LimitIsFirst
    <3>4. t # last /\ order[t] \in Nat /\ order[last] \in Nat /\ order[t] # order[last]
      BY <3>1, <3>2, <2>5 DEF Ordered
    <3> QED
      BY <3>3, <3>4
  <2> QED
    BY <2>1, <2>4, <2>5
<1>7. ASSUME NEW P \in SUBSET rows, Cardinality(P) < PageSize, first # rows, first \subseteq P
      PROVE  FALSE
  <2>1. IsFiniteSet(P) /\ Cardinality(P) \in Nat
    BY <1>0, FS_Subset, FS_CardinalityType
  <2> HIDE DEF first, got
  <2>2. Cardinality(first) <= Cardinality(P)
    BY <1>7, <2>1, FS_Subset
  <2> QED
    BY <1>0, <1>4, <1>5, <1>7, <2>1, <2>2
<1>8. items \subseteq rows
  BY <1>1, <1>3
<1> HIDE DEF got, items, first
<1>9. /\ items \subseteq rows
      /\ items # rows => Cardinality(got) > PageSize
      /\ Cardinality(got) > PageSize =>
           /\ got # {} /\ NextCursor(got, order) \in items
           /\ \A t \in items : order[t] >= order[NextCursor(got, order)]
           /\ \A t \in rows \ items : order[t] < order[NextCursor(got, order)]
      /\ \A P \in SUBSET rows :
           Cardinality(P) < PageSize /\ items # rows => ~(items \subseteq P)
  BY <1>3, <1>5, <1>6, <1>7, <1>8
<1> QED
  BY <1>9 DEF got, items

-----------------------------------------------------------------------------
(* Following pages                                                         *)

\* A walk that collects got[c] at c and goes on to next[c], as long as there is more.
Walk(N, got, more, next, g) ==
    [c \in 0..N |-> got[c] \cup IF more[c] THEN g[next[c]] ELSE {}]

\* A walk that descends collects whatever satisfies its equation.
LEMMA WalkCollects ==
    ASSUME NEW N \in Nat, NEW got, NEW more, NEW next, NEW depth, NEW whole,
           whole = Walk(N, got, more, next, whole),
           \A c \in 0..N : depth[c] \in Nat,
           \A c \in 0..N : more[c] => next[c] \in 0..N /\ depth[next[c]] < depth[c]
    PROVE  \A g : g = Walk(N, got, more, next, g) => g = whole
<1> SUFFICES ASSUME NEW g, g = Walk(N, got, more, next, g) PROVE g = whole
  OBVIOUS
<1>1. /\ \A c \in 0..N : g[c] = got[c] \cup IF more[c] THEN g[next[c]] ELSE {}
      /\ \A c \in 0..N : whole[c] = got[c] \cup IF more[c] THEN whole[next[c]] ELSE {}
      /\ DOMAIN g = 0..N /\ DOMAIN whole = 0..N
      /\ g = [c \in DOMAIN g |-> g[c]] /\ whole = [c \in DOMAIN whole |-> whole[c]]
  BY DEF Walk
<1>2. ASSUME NEW b \in 0..N, g[b] # whole[b] PROVE FALSE
  <2> DEFINE depths == {depth[c] : c \in {k \in 0..N : g[k] # whole[k]}}
  <2>1. depths \in SUBSET Nat /\ depths # {}
    BY <1>2
  <2>2. Min(depths) \in depths /\ \A d \in depths : Min(depths) <= d
    <3> HIDE DEF depths
    <3> QED
      BY <2>1, NaturalsHaveMin
  <2>3. PICK c \in 0..N : g[c] # whole[c] /\ depth[c] = Min(depths)
    BY <2>2
  <2>4. more[c] /\ g[next[c]] # whole[next[c]] /\ next[c] \in 0..N
    BY <1>1, <2>3
  <2>5. depth[next[c]] \in depths /\ depth[next[c]] < depth[c]
    BY <2>4
  <2>6. Min(depths) <= depth[next[c]] /\ depth[c] \in Nat /\ depth[next[c]] \in Nat
    BY <2>2, <2>4, <2>5
  <2> HIDE DEF depths
  <2> QED
    BY <2>3, <2>5, <2>6
<1>3. \A c \in 0..N : g[c] = whole[c]
  BY <1>2
<1> QED
  BY <1>1, <1>3

-----------------------------------------------------------------------------
(* Notices                                                                 *)

\* Sequences are given out one after the other.
NoticeInv ==
    /\ notice \in [Seqs -> Notices \cup {NoNotice}]
    /\ \A s \in Posts, t \in Seqs : t < s => t \in Posts

LEMMA PostsAreNotices ==
    ASSUME NoticeInv
    PROVE  /\ IsFiniteSet(Posts) /\ Posts \subseteq 1..MaxNotices /\ Posts \in SUBSET Nat /\ Posts \in SUBSET Int
           /\ OpenPosts \subseteq Posts
           /\ \A s \in Posts : notice[s] \in Notices /\ notice[s].pinned \in BOOLEAN
<1>1. Posts \subseteq 1..MaxNotices
  BY DEF Posts, Seqs
<1>2. IsFiniteSet(1..MaxNotices)
  <2>1. MaxNotices \in Int /\ 1 \in Int
    BY BoardAssumption
  <2> QED
    BY <2>1, FS_Interval
<1>3. IsFiniteSet(Posts)
  BY <1>1, <1>2, FS_Subset
<1>4. \A s \in Posts : notice[s] \in Notices
  BY DEF NoticeInv, Posts
<1>5. \A s \in Posts : notice[s].pinned \in BOOLEAN
  BY <1>4 DEF Notices
<1>6. Posts \in SUBSET Nat /\ Posts \in SUBSET Int
  BY <1>1
<1> QED
  BY <1>1, <1>3, <1>4, <1>5, <1>6 DEF OpenPosts

LEMMA OpenOrdered ==
    ASSUME NoticeInv, NEW cursor, NEW exclude
    PROVE  /\ Ordered(NoticesBelow(cursor, exclude), feedOrder)
           /\ \A s \in Posts : feedOrder[s] = IF notice[s].pinned THEN MaxNotices + s ELSE s
<1>1. /\ IsFiniteSet(Posts) /\ Posts \subseteq 1..MaxNotices
      /\ OpenPosts \subseteq Posts /\ \A s \in Posts : notice[s].pinned \in BOOLEAN
  BY PostsAreNotices
<1>2. NoticesBelow(cursor, exclude) \subseteq Posts
  BY <1>1 DEF NoticesBelow
<1>3. IsFiniteSet(NoticesBelow(cursor, exclude))
  BY <1>1, <1>2, FS_Subset
<1>4. \A s \in Posts : feedOrder[s] = IF notice[s].pinned THEN MaxNotices + s ELSE s
  BY DEF feedOrder
<1>5. \A s, t \in Posts : feedOrder[s] \in Nat /\ (feedOrder[s] = feedOrder[t] => s = t)
  <2> TAKE s, t \in Posts
  <2>1. s \in 1..MaxNotices /\ t \in 1..MaxNotices /\ MaxNotices \in Nat
    BY <1>1, BoardAssumption
  <2>2. feedOrder[s] \in {s, MaxNotices + s} /\ feedOrder[t] \in {t, MaxNotices + t}
    BY <1>4
  <2> QED
    BY <2>1, <2>2
<1> QED
  BY <1>2, <1>3, <1>4, <1>5 DEF Ordered

\* One page of the feed: what it leaves out is below its cursor.
LEMMA FeedPage ==
    ASSUME NoticeInv, NEW cursor \in 0..MaxNotices, NEW exclude,
           Cardinality({s \in OpenPosts \ {exclude} : notice[s].pinned}) < PageSize
    PROVE  LET shown == GetFeed(cursor, exclude)
           IN  /\ ~shown.more => shown.items = NoticesBelow(cursor, exclude)
               /\ shown.more => /\ shown.next \in 1..MaxNotices /\ (cursor > 0 => shown.next < cursor)
                               /\ NoticesBelow(cursor, exclude) = shown.items \cup NoticesBelow(shown.next, exclude)
<1> DEFINE rows  == NoticesBelow(cursor, exclude)
           got   == GetNotices(cursor, exclude)
           items == Page(got, feedOrder)
           next  == NextCursor(got, feedOrder)
           P     == {s \in rows : notice[s].pinned}
<1>1. /\ Posts \subseteq 1..MaxNotices /\ OpenPosts \subseteq Posts /\ IsFiniteSet(Posts)
      /\ \A s \in Posts : notice[s].pinned \in BOOLEAN
  BY PostsAreNotices
<1>2. /\ Ordered(rows, feedOrder)
      /\ \A s \in Posts : feedOrder[s] = IF notice[s].pinned THEN MaxNotices + s ELSE s
  BY OpenOrdered
<1>3. /\ items \subseteq rows
      /\ items # rows => Cardinality(got) > PageSize
      /\ Cardinality(got) > PageSize =>
           /\ got # {} /\ next \in items
           /\ \A t \in items : feedOrder[t] >= feedOrder[next]
           /\ \A t \in rows \ items : feedOrder[t] < feedOrder[next]
      /\ \A Q \in SUBSET rows : Cardinality(Q) < PageSize /\ items # rows => ~(items \subseteq Q)
  BY <1>2, PageCovers DEF GetNotices
<1>4. Cardinality(P) < PageSize
  <2> DEFINE pinned == {s \in OpenPosts \ {exclude} : notice[s].pinned}
  <2>1. P \subseteq pinned /\ pinned \subseteq Posts
    BY <1>1 DEF NoticesBelow
  <2> HIDE DEF P
  <2>2. IsFiniteSet(pinned) /\ Cardinality(pinned) \in Nat /\ Cardinality(pinned) < PageSize
    BY <1>1, <2>1, FS_Subset, FS_CardinalityType
  <2> HIDE DEF pinned
  <2>3. IsFiniteSet(P) /\ Cardinality(P) <= Cardinality(pinned) /\ Cardinality(P) \in Nat
    BY <2>1, <2>2, FS_Subset, FS_CardinalityType
  <2> QED
    BY <2>2, <2>3, BoardAssumption
<1>5. /\ GetFeed(cursor, exclude).items = items
      /\ GetFeed(cursor, exclude).more <=> Cardinality(got) > PageSize
      /\ got # {} => GetFeed(cursor, exclude).next = next
  BY DEF GetFeed
<1>6. ASSUME Cardinality(got) > PageSize
      PROVE  /\ next \in 1..MaxNotices /\ (cursor > 0 => next < cursor)
             /\ rows = items \cup NoticesBelow(next, exclude)
  <2>1. next \in rows /\ next \in Posts /\ next \in 1..MaxNotices
    <3>1. rows \subseteq OpenPosts
      BY DEF NoticesBelow
    <3> HIDE DEF rows, items, next, got
    <3> QED
      BY <1>1, <1>3, <1>6, <3>1
  <2>2. cursor > 0 => next < cursor
    <3> HIDE DEF next
    <3> QED
      BY <2>1 DEF NoticesBelow
  <2>3. NoticesBelow(next, exclude) \subseteq rows
    <3> HIDE DEF next
    <3>1. \A s \in OpenPosts : s < next => (cursor > 0 => s < cursor)
      BY <1>1, <2>1, <2>2
    <3>2. next > 0
      BY <2>1
    <3> QED
      BY <3>1, <3>2 DEF NoticesBelow
  <2>4. ASSUME NEW t \in rows \ items PROVE t \in NoticesBelow(next, exclude)
    <3> HIDE DEF next, items, got
    <3>1. feedOrder[t] < feedOrder[next]
      BY <1>3, <1>6, <2>4
    <3>2. PICK u \in items : ~notice[u].pinned
      <4>1. items # rows /\ P \in SUBSET rows
        BY <2>4
      <4>2. ~(items \subseteq P)
        <5> HIDE DEF P, rows
        <5> QED
          BY <1>3, <1>4, <4>1
      <4> QED
        BY <1>3, <4>2
    <3>3. u \in Posts /\ feedOrder[u] = u /\ feedOrder[u] >= feedOrder[next]
      BY <1>1, <1>2, <1>3, <1>6, <3>2 DEF NoticesBelow
    <3>4. t \in Posts /\ t \in OpenPosts
      BY <1>1, <2>4 DEF NoticesBelow
    <3>5. MaxNotices \in Nat /\ u \in 1..MaxNotices /\ t \in 1..MaxNotices
      BY <1>1, <3>3, <3>4, BoardAssumption
    <3>6. ~notice[next].pinned
      <4>1. notice[next].pinned => feedOrder[next] = MaxNotices + next
        BY <1>2, <2>1
      <4> QED
        BY <2>1, <3>3, <3>5, <4>1
    <3>7. feedOrder[next] = next
      BY <1>2, <2>1, <3>6
    <3>8. ~notice[t].pinned
      <4>1. notice[t].pinned => feedOrder[t] = MaxNotices + t
        BY <1>2, <3>4
      <4> QED
        BY <2>1, <3>1, <3>5, <3>7, <4>1
    <3>9. t < next /\ t # exclude
      BY <1>2, <2>4, <3>1, <3>4, <3>7, <3>8 DEF NoticesBelow
    <3> QED
      BY <3>4, <3>9 DEF NoticesBelow
  <2> HIDE DEF rows, items, next
  <2> QED
    BY <1>3, <2>1, <2>2, <2>3, <2>4
<1> HIDE DEF rows, items, next, got
<1>7. /\ ~GetFeed(cursor, exclude).more => GetFeed(cursor, exclude).items = rows
      /\ GetFeed(cursor, exclude).more =>
           /\ GetFeed(cursor, exclude).next \in 1..MaxNotices
           /\ cursor > 0 => GetFeed(cursor, exclude).next < cursor
           /\ rows = GetFeed(cursor, exclude).items \cup NoticesBelow(GetFeed(cursor, exclude).next, exclude)
  BY <1>3, <1>5, <1>6
<1> QED
  BY <1>7 DEF rows

\* The walk over the pages shows every notice.
LEMMA ScrollShows ==
    ASSUME NoticeInv, NEW exclude,
           Cardinality({s \in OpenPosts \ {exclude} : notice[s].pinned}) < PageSize
    PROVE  Scroll(exclude) = OpenPosts \ {exclude}
<1> DEFINE got == [c \in 0..MaxNotices |-> GetFeed(c, exclude).items]
           more == [c \in 0..MaxNotices |-> GetFeed(c, exclude).more]
           next == [c \in 0..MaxNotices |-> GetFeed(c, exclude).next]
           depth == [c \in 0..MaxNotices |-> IF c = 0 THEN MaxNotices + 1 ELSE c]
           whole == [c \in 0..MaxNotices |-> NoticesBelow(c, exclude)]
           below(g) == [cursor \in 0..MaxNotices |->
                          LET shown == GetFeed(cursor, exclude)
                          IN  shown.items \cup IF shown.more THEN g[shown.next] ELSE {}]
<1>0. MaxNotices \in Nat
  BY BoardAssumption
<1>1. \A g : below(g) = Walk(MaxNotices, got, more, next, g)
  BY DEF Walk
<1>2. Scroll(exclude) = (CHOOSE g : g = below(g))[0]
  BY Zenon DEF Scroll
<1>3. \A c \in 0..MaxNotices :
        /\ ~more[c] => whole[c] = got[c]
        /\ more[c] => next[c] \in 0..MaxNotices /\ depth[next[c]] < depth[c] /\ whole[c] = got[c] \cup whole[next[c]]
  <2> TAKE c \in 0..MaxNotices
  <2>1. /\ ~GetFeed(c, exclude).more => GetFeed(c, exclude).items = NoticesBelow(c, exclude)
        /\ GetFeed(c, exclude).more =>
             /\ GetFeed(c, exclude).next \in 1..MaxNotices
             /\ c > 0 => GetFeed(c, exclude).next < c
             /\ NoticesBelow(c, exclude) = GetFeed(c, exclude).items \cup NoticesBelow(GetFeed(c, exclude).next, exclude)
    BY FeedPage
  <2> QED
    BY <1>0, <2>1
<1>4. whole = Walk(MaxNotices, got, more, next, whole)
  <2>1. \A c \in 0..MaxNotices : whole[c] = got[c] \cup IF more[c] THEN whole[next[c]] ELSE {}
    <3> HIDE DEF got, more, next, depth, whole
    <3> QED
      BY <1>3
  <2> HIDE DEF got, more, next
  <2> QED
    BY <2>1 DEF Walk
<1>5. \A c \in 0..MaxNotices : depth[c] \in Nat
  BY <1>0
<1>6. whole[0] = OpenPosts \ {exclude}
  <2>1. whole[0] = NoticesBelow(0, exclude)
    BY <1>0
  <2> QED
    BY <2>1 DEF NoticesBelow
<1> HIDE DEF got, more, next, depth, whole, below
<1>7. \A g : g = Walk(MaxNotices, got, more, next, g) => g = whole
  BY <1>0, <1>3, <1>4, <1>5, WalkCollects
<1>8. (CHOOSE g : g = below(g)) = below(CHOOSE g : g = below(g))
  BY <1>1, <1>4
<1>9. (CHOOSE g : g = below(g)) = whole
  BY <1>1, <1>7, <1>8
<1> QED
  BY <1>2, <1>6, <1>9

\* The post before one, and the way back.
LEMMA Neighbours ==
    ASSUME NoticeInv
    PROVE  /\ \A s \in Nat : /\ GetPrevPost(s) \in {0} \cup OpenPosts
                             /\ GetPrevPost(s) # 0 => GetPrevPost(s) < s
                             /\ \A t \in OpenPosts : t < s => t <= GetPrevPost(s)
           /\ \A s \in OpenPosts : GetPrevPost(s) # 0 => GetNextPost(GetPrevPost(s)) = s
<1>1. /\ IsFiniteSet(Posts) /\ Posts \subseteq 1..MaxNotices /\ OpenPosts \subseteq Posts
      /\ OpenPosts \subseteq 1..MaxNotices /\ OpenPosts \subseteq Nat /\ MaxNotices \in Nat
  BY PostsAreNotices, BoardAssumption
<1>2. ASSUME NEW s \in Nat
      PROVE  /\ GetPrevPost(s) \in {0} \cup OpenPosts
             /\ GetPrevPost(s) # 0 => GetPrevPost(s) < s
             /\ \A t \in OpenPosts : t < s => t <= GetPrevPost(s)
  <2> DEFINE below == {t \in OpenPosts : t < s}
             S == {0} \cup below
  <2>1. IsFiniteSet(below) /\ below \subseteq Nat
    <3>1. below \subseteq Posts
      BY <1>1
    <3>2. IsFiniteSet(below)
      BY <1>1, <3>1, FS_Subset
    <3> QED
      BY <1>1, <3>2
  <2>2. IsFiniteSet(S) /\ S \in SUBSET Int /\ S # {}
    <3>1. S = below \cup {0}
      OBVIOUS
    <3> HIDE DEF below
    <3> QED
      BY <2>1, <3>1, FS_AddElement
  <2>3. Max(S) \in S /\ \A y \in S : Max(S) >= y
    <3> HIDE DEF S
    <3> QED
      BY <2>2, FiniteHasMax
  <2>4. GetPrevPost(s) = Max(S)
    BY DEF GetPrevPost
  <2>5. \A t \in OpenPosts : t < s => t \in S
    OBVIOUS
  <2>6. \A y \in S : y \in {0} \cup OpenPosts /\ (y # 0 => y < s) /\ y \in Int
    BY <1>1
  <2> HIDE DEF S
  <2> QED
    BY <2>3, <2>4, <2>5, <2>6
<1>3. ASSUME NEW s \in OpenPosts, GetPrevPost(s) # 0
      PROVE  GetNextPost(GetPrevPost(s)) = s
  <2> DEFINE p == GetPrevPost(s)
             S == {t \in OpenPosts : t > p}
  <2>1. s \in Nat /\ p \in OpenPosts /\ p < s /\ \A t \in OpenPosts : t < s => t <= p
    BY <1>1, <1>2, <1>3
  <2> HIDE DEF p
  <2>2. s \in S /\ \A t \in S : s <= t /\ t \in Nat
    BY <1>1, <2>1
  <2>3. GetNextPost(p) = Min(S)
    BY <2>2 DEF GetNextPost
  <2>4. Min(S) \in S /\ \A t \in S : Min(S) <= t
    <3>1. S \in SUBSET Nat /\ S # {}
      BY <2>2
    <3> HIDE DEF S
    <3> QED
      BY <3>1, NaturalsHaveMin
  <2>5. Min(S) = s
    <3> HIDE DEF S
    <3>1. s <= Min(S) /\ Min(S) <= s /\ Min(S) \in Nat
      BY <2>2, <2>4
    <3> QED
      BY <2>1, <3>1
  <2> QED
    BY <2>3, <2>5 DEF p
<1> QED
  BY <1>2, <1>3

LEMMA LinksReach ==
    ASSUME NoticeInv
    PROVE  PrevPosts(MaxNotices + 1) = OpenPosts
<1> DEFINE got == [t \in 0..MaxNotices |-> IF t = 0 THEN {} ELSE {t}]
           more == [t \in 0..MaxNotices |-> t # 0]
           next == [t \in 0..MaxNotices |-> GetPrevPost(t)]
           depth == [t \in 0..MaxNotices |-> t]
           whole == [t \in 0..MaxNotices |-> IF t = 0 THEN {} ELSE {t} \cup {s \in OpenPosts : s < t}]
           from(g) == [t \in 0..MaxNotices |-> IF t = 0 THEN {} ELSE {t} \cup g[GetPrevPost(t)]]
           top == GetPrevPost(MaxNotices + 1)
<1>0. MaxNotices \in Nat /\ MaxNotices + 1 \in Nat /\ OpenPosts \subseteq 1..MaxNotices
  BY BoardAssumption, PostsAreNotices
<1>1. \A g : from(g) = Walk(MaxNotices, got, more, next, g)
  BY DEF Walk
<1>2. PrevPosts(MaxNotices + 1) = (CHOOSE g : g = from(g))[top]
  BY Zenon DEF PrevPosts
<1>3. \A t \in 0..MaxNotices :
        t # 0 => /\ next[t] \in 0..MaxNotices /\ depth[next[t]] < depth[t]
                 /\ whole[t] = {t} \cup whole[next[t]]
  <2> SUFFICES ASSUME NEW t \in 0..MaxNotices, t # 0
               PROVE  /\ next[t] \in 0..MaxNotices /\ depth[next[t]] < depth[t]
                      /\ whole[t] = {t} \cup whole[next[t]]
    OBVIOUS
  <2> DEFINE p == GetPrevPost(t)
  <2>1. /\ p \in {0} \cup OpenPosts /\ (p # 0 => p < t)
        /\ \A s \in OpenPosts : s < t => s <= p
    <3>1. t \in Nat
      BY <1>0
    <3> QED
      BY <3>1, Neighbours
  <2>2. next[t] = p
    BY <1>0
  <2> HIDE DEF p
  <2>3. p \in 0..MaxNotices /\ p < t
    BY <1>0, <2>1
  <2>4. {s \in OpenPosts : s < t} = IF p = 0 THEN {} ELSE {p} \cup {s \in OpenPosts : s < p}
    <3>1. CASE p = 0
      <4>1. \A s \in OpenPosts : ~(s < t)
        BY <1>0, <2>1, <3>1
      <4> QED
        BY <3>1, <4>1
    <3>2. CASE p # 0
      <4>1. p \in OpenPosts /\ p < t /\ p \in Nat /\ t \in Nat
        BY <1>0, <2>1, <3>2
      <4>2. \A s \in OpenPosts : s \in Nat /\ (s < t <=> s = p \/ s < p)
        BY <1>0, <2>1, <4>1
      <4> QED
        BY <3>2, <4>1, <4>2
    <3> QED
      BY <3>1, <3>2
  <2> QED
    BY <2>2, <2>3, <2>4
<1>4. \A t \in 0..MaxNotices : (t = 0 => whole[t] = {} /\ got[t] = {} /\ ~more[t])
                               /\ (t # 0 => got[t] = {t} /\ more[t])
  BY <1>0
<1>5. whole[top] = OpenPosts
  <2>1. /\ top \in {0} \cup OpenPosts
        /\ \A t \in OpenPosts : t < MaxNotices + 1 => t <= top
    BY <1>0, Neighbours
  <2> HIDE DEF top
  <2>2. \A t \in OpenPosts : t <= top /\ t \in Nat /\ t > 0
    BY <1>0, <2>1
  <2>3. top \in 0..MaxNotices
    BY <1>0, <2>1
  <2>4. CASE top = 0
    BY <2>2, <2>3, <2>4
  <2>5. CASE top # 0
    <3>1. whole[top] = {top} \cup {s \in OpenPosts : s < top}
      BY <2>3, <2>5
    <3>2. \A s \in OpenPosts : s = top \/ s < top
      BY <2>2, <2>3
    <3> QED
      BY <2>1, <2>5, <3>1, <3>2
  <2> QED
    BY <2>4, <2>5
<1>6. whole = Walk(MaxNotices, got, more, next, whole)
  <2>1. \A t \in 0..MaxNotices : whole[t] = got[t] \cup IF more[t] THEN whole[next[t]] ELSE {}
    <3> HIDE DEF got, more, next, depth, whole
    <3> QED
      BY <1>3, <1>4
  <2> HIDE DEF got, more, next
  <2> QED
    BY <2>1 DEF Walk
<1>7. \A t \in 0..MaxNotices : depth[t] \in Nat
  BY <1>0
<1> HIDE DEF got, more, next, depth, whole, from
<1>8. \A g : g = Walk(MaxNotices, got, more, next, g) => g = whole
  <2>1. \A t \in 0..MaxNotices : more[t] => next[t] \in 0..MaxNotices /\ depth[next[t]] < depth[t]
    BY <1>3, <1>4
  <2> QED
    BY <1>0, <1>6, <1>7, <2>1, WalkCollects
<1>9. (CHOOSE g : g = from(g)) = from(CHOOSE g : g = from(g))
  BY <1>1, <1>6
<1>10. (CHOOSE g : g = from(g)) = whole
  BY <1>1, <1>8, <1>9
<1> QED
  BY <1>2, <1>5, <1>10

\* Whatever is open is shown by the feed and reached by the links.
LEMMA FeedIsWhole == NoticeInv => FeedShowsEverything
BY ScrollShows, LinksReach, Neighbours DEF FeedShowsEverything

\* One page of the inbox: what it leaves out is below its cursor.
LEMMA InboxPage ==
    ASSUME NoticeInv, NEW u \in Users, NEW before \in 0..MaxNotices
    PROVE  LET shown == ListInbox(u, before)
               unread(b) == {s \in InboxBelow(b) : s > seen[u]}
           IN  /\ ~shown.more => shown.unread = unread(before)
               /\ shown.more => /\ shown.next \in 1..MaxNotices /\ (before > 0 => shown.next < before)
                               /\ unread(before) = shown.unread \cup unread(shown.next)
<1> DEFINE rows  == InboxBelow(before)
           got   == ListNoticeNotifications(before)
           items == Page(got, inboxOrder)
           next  == NextCursor(got, inboxOrder)
           unread(b) == {s \in InboxBelow(b) : s > seen[u]}
<1>1. IsFiniteSet(Posts) /\ Posts \subseteq 1..MaxNotices /\ Posts \in SUBSET Nat /\ MaxNotices \in Nat
  BY PostsAreNotices, BoardAssumption
<1>2. rows \subseteq Posts /\ \A s \in Posts : inboxOrder[s] = s
  BY DEF InboxBelow, inboxOrder
<1>3. Ordered(rows, inboxOrder)
  <2>1. IsFiniteSet(rows)
    BY <1>1, <1>2, FS_Subset
  <2>2. \A s \in rows : s \in Nat /\ inboxOrder[s] = s
    BY <1>1, <1>2
  <2> QED
    BY <2>1, <2>2 DEF Ordered
<1>4. /\ items \subseteq rows
      /\ items # rows => Cardinality(got) > PageSize
      /\ Cardinality(got) > PageSize =>
           /\ got # {} /\ next \in items
           /\ \A t \in rows \ items : inboxOrder[t] < inboxOrder[next]
  BY <1>3, PageCovers DEF ListNoticeNotifications
<1>5. /\ ListInbox(u, before).unread = {s \in items : s > seen[u]}
      /\ ListInbox(u, before).more <=> Cardinality(got) > PageSize
      /\ got # {} => ListInbox(u, before).next = next
  BY DEF ListInbox
<1>6. ASSUME Cardinality(got) > PageSize
      PROVE  /\ next \in 1..MaxNotices /\ (before > 0 => next < before)
             /\ rows = items \cup InboxBelow(next)
  <2> HIDE DEF next, items, got
  <2>1. next \in rows /\ next \in Posts /\ next \in 1..MaxNotices /\ next \in OpenPosts \cup Posts
    BY <1>1, <1>2, <1>4, <1>6
  <2>2. before > 0 => next < before
    BY <2>1 DEF InboxBelow
  <2>3. InboxBelow(next) \subseteq rows
    <3>1. \A s \in Posts : s < next => (before > 0 => s < before)
      BY <1>1, <2>1, <2>2
    <3>2. next > 0
      BY <2>1
    <3> QED
      BY <3>1, <3>2 DEF InboxBelow
  <2>4. ASSUME NEW t \in rows \ items PROVE t \in InboxBelow(next)
    <3>1. inboxOrder[t] < inboxOrder[next] /\ t \in Posts
      BY <1>2, <1>4, <1>6, <2>4
    <3>2. t < next
      BY <1>2, <2>1, <3>1
    <3> QED
      BY <2>4, <3>2 DEF InboxBelow
  <2> HIDE DEF rows
  <2> QED
    BY <1>4, <2>1, <2>2, <2>3, <2>4
<1>7. /\ ~ListInbox(u, before).more => ListInbox(u, before).unread = unread(before)
      /\ ListInbox(u, before).more =>
           /\ ListInbox(u, before).next \in 1..MaxNotices
           /\ before > 0 => ListInbox(u, before).next < before
           /\ unread(before) = ListInbox(u, before).unread \cup unread(ListInbox(u, before).next)
  <2>1. CASE ListInbox(u, before).more
    <3>1. /\ next \in 1..MaxNotices /\ (before > 0 => next < before)
          /\ rows = items \cup InboxBelow(next) /\ ListInbox(u, before).next = next
      BY <1>4, <1>5, <1>6, <2>1
    <3> HIDE DEF next, items
    <3>2. unread(before) = {s \in items : s > seen[u]} \cup unread(next)
      BY <3>1
    <3> QED
      BY <1>5, <2>1, <3>1, <3>2
  <2>2. CASE ~ListInbox(u, before).more
    <3>1. items = rows
      BY <1>4, <1>5, <2>2
    <3> QED
      BY <1>5, <2>2, <3>1
  <2> QED
    BY <2>1, <2>2
<1> QED
  BY <1>7

\* The red dot counts what the pages show as unread.
LEMMA InboxAgrees == NoticeInv => InboxCountAgrees
<1> SUFFICES ASSUME NoticeInv, NEW u \in Users
             PROVE  UnreadInPages(u) = {s \in Posts : noticeInboxFilter(s) /\ s > seen[u]}
  BY DEF InboxCountAgrees, CountUnseenNotices
<1> DEFINE got == [b \in 0..MaxNotices |-> ListInbox(u, b).unread]
           more == [b \in 0..MaxNotices |-> ListInbox(u, b).more]
           next == [b \in 0..MaxNotices |-> ListInbox(u, b).next]
           depth == [b \in 0..MaxNotices |-> IF b = 0 THEN MaxNotices + 1 ELSE b]
           unread(b) == {s \in InboxBelow(b) : s > seen[u]}
           whole == [b \in 0..MaxNotices |-> unread(b)]
           below(g) == [before \in 0..MaxNotices |->
                          LET shown == ListInbox(u, before)
                          IN  shown.unread \cup IF shown.more THEN g[shown.next] ELSE {}]
<1>0. MaxNotices \in Nat
  BY BoardAssumption
<1>1. \A g : below(g) = Walk(MaxNotices, got, more, next, g)
  BY DEF Walk
<1>2. UnreadInPages(u) = (CHOOSE g : g = below(g))[0]
  BY Zenon DEF UnreadInPages
<1>3. \A b \in 0..MaxNotices :
        /\ ~more[b] => whole[b] = got[b]
        /\ more[b] => next[b] \in 0..MaxNotices /\ depth[next[b]] < depth[b] /\ whole[b] = got[b] \cup whole[next[b]]
  <2> TAKE b \in 0..MaxNotices
  <2> HIDE DEF unread
  <2>1. /\ ~ListInbox(u, b).more => ListInbox(u, b).unread = unread(b)
        /\ ListInbox(u, b).more =>
             /\ ListInbox(u, b).next \in 1..MaxNotices
             /\ b > 0 => ListInbox(u, b).next < b
             /\ unread(b) = ListInbox(u, b).unread \cup unread(ListInbox(u, b).next)
    BY InboxPage DEF unread
  <2> QED
    BY <1>0, <2>1
<1>4. whole = Walk(MaxNotices, got, more, next, whole)
  <2>1. \A b \in 0..MaxNotices : whole[b] = got[b] \cup IF more[b] THEN whole[next[b]] ELSE {}
    <3> HIDE DEF got, more, next, depth, whole
    <3> QED
      BY <1>3
  <2> HIDE DEF got, more, next, unread
  <2> QED
    BY <2>1 DEF Walk
<1>5. \A b \in 0..MaxNotices : depth[b] \in Nat
  BY <1>0
<1>6. whole[0] = {s \in Posts : noticeInboxFilter(s) /\ s > seen[u]}
  <2>1. whole[0] = {s \in InboxBelow(0) : s > seen[u]}
    BY <1>0
  <2>2. InboxBelow(0) = {s \in Posts : noticeInboxFilter(s)}
    BY DEF InboxBelow
  <2> QED
    BY <2>1, <2>2
<1> HIDE DEF got, more, next, depth, whole, below
<1>7. \A g : g = Walk(MaxNotices, got, more, next, g) => g = whole
  BY <1>0, <1>3, <1>4, <1>5, WalkCollects
<1>8. (CHOOSE g : g = below(g)) = below(CHOOSE g : g = below(g))
  BY <1>1, <1>4
<1>9. (CHOOSE g : g = below(g)) = whole
  BY <1>1, <1>7, <1>8
<1> QED
  BY <1>2, <1>6, <1>9

-----------------------------------------------------------------------------
(* Categories                                                              *)

\* The default category is never deleted.
CatInv == cats \in [Cats -> Categories \cup {NoCat, GoneCat}] /\ DefaultCat \in Live

LEMMA LiveCategories ==
    ASSUME CatInv
    PROVE  /\ IsFiniteSet(Live) /\ Live \subseteq Cats
           /\ \A c \in Live : cats[c] \in Categories
<1>1. Live \subseteq Cats
  BY DEF Live
<1>2. IsFiniteSet(Live)
  BY <1>1, BoardAssumption, FS_Subset
<1>3. \A c \in Live : cats[c] \in Categories
  BY DEF CatInv, Live
<1> QED
  BY <1>1, <1>2, <1>3

\* Every notice is listed under one live category, and counted there.
LEMMA NoticesAreCounted == NoticeInv /\ CatInv => EveryNoticeCounted
<1> SUFFICES ASSUME NoticeInv, CatInv PROVE EveryNoticeCounted
  OBVIOUS
<1> DEFINE part == [c \in Live |-> {s \in Posts : feedCategorySeqExpr(s) = c}]
           step(g) == FoldStep(part, Live, g)
           sums(g) == [S \in SUBSET Live |-> IF S = {} THEN 0
                         ELSE GetAll[Chosen(S)] + g[S \ {Chosen(S)}]]
<1>1. IsFiniteSet(Live) /\ Live \subseteq Cats /\ DefaultCat \in Live /\ IsFiniteSet(Posts)
  BY LiveCategories, PostsAreNotices DEF CatInv
<1>2. \A c \in Live : GetAll[c] = Cardinality(part[c])
  BY DEF GetAll
<1>3. \A c \in Live : IsFiniteSet(part[c]) /\ part[c] \subseteq Posts
  BY <1>1, FS_Subset
<1>4. \A c, d \in Live : c # d => part[c] \cap part[d] = {}
  OBVIOUS
<1>5. \A c \in Live : AdminNotices(c) = part[c]
  BY <1>1, BoardAssumption DEF AdminNotices
<1>6. UNION {part[c] : c \in Live} = Posts
  <2>1. \A s \in Posts : feedCategorySeqExpr(s) \in Live /\ s \in part[feedCategorySeqExpr(s)]
    BY <1>1 DEF feedCategorySeqExpr
  <2> HIDE DEF part
  <2> QED
    BY <1>3, <2>1
<1>7. AdminNotices(NoCategory) = Posts
  BY DEF AdminNotices
<1> HIDE DEF part
<1>8. \A g : sums(g) = step(g)
  <2> TAKE g
  <2>1. \A S \in SUBSET Live : S # {} => Chosen(S) \in Live
    BY DEF Chosen
  <2> QED
    BY <1>2, <2>1 DEF FoldStep
<1>9. MapThenSumSet(LAMBDA c : GetAll[c], Live) = (CHOOSE g : g = sums(g))[Live]
  BY Zenon DEF MapThenSumSet, MapThenFoldSet, Chosen
<1>10. /\ \E g : g = step(g)
       /\ \A g : g = step(g) => g[Live] = Cardinality(UNION {part[c] : c \in Live})
  BY <1>1, <1>3, <1>4, FoldOfParts
<1> HIDE DEF step, sums
<1>11. (CHOOSE g : g = sums(g)) = sums(CHOOSE g : g = sums(g))
  BY <1>8, <1>10
<1>12. MapThenSumSet(LAMBDA c : GetAll[c], Live) = Cardinality(Posts)
  BY <1>6, <1>8, <1>9, <1>10, <1>11
<1> QED
  BY <1>2, <1>5, <1>7, <1>12 DEF EveryNoticeCounted

-----------------------------------------------------------------------------
(* The board: the inductive invariant                                      *)

FileInv == files \in [Uploads -> [join : Nat, open : BOOLEAN]]

\* Only sequences that exist are marked as seen.
MarkInv ==
    /\ seen \in [Users -> {0} \cup Posts]
    /\ marks \in [Users -> SUBSET ({0} \cup Posts)]

\* What a request carries, by what it is about to do.
Creating == [pc : {"insert", "publish"}, seq : Seqs, d : Drafts]
Bylines == [official : {TRUE, FALSE, Nothing}, name : {"", "foundation", "author"}]
SoundJob(j) ==
    /\ j.pc \in {"insert", "publish"} => j \in Creating
    /\ j.pc = "update" => j.seq \in Seqs /\ j.d \in Drafts /\ j.byline \in Bylines
    /\ j.pc \in {"trim", "attach"} => j.seq \in Seqs
    /\ j.pc = "category" => j.cat \in Cats
    /\ j.pc = "newCategory" => j.name \in Names /\ j.open \in BOOLEAN
    /\ j.pc = "reorder" => DOMAIN j.order \subseteq Nat
    /\ j.pc = "deleteCategory" => j.cat # DefaultCat /\ j.moveTo \in Cats \cup {NoCategory}

\* The sequence a new notice will have follows existing ones; a pin is of a notice.
Placed(j, posts) ==
    /\ j.pc = "insert" => \A t \in Seqs : t < j.seq => t \in posts
    /\ j.pc = "pin" => j.seq \in posts

EditInv ==
    /\ edit = [e \in Editors |-> edit[e]]
    /\ \A e \in Editors : edit[e] # NoEdit => SoundJob(edit[e]) /\ Placed(edit[e], Posts)

BoardInv == NoticeInv /\ CatInv /\ FileInv /\ MarkInv /\ EditInv /\ PublishedIsAnnounced

\* What a step may do to sequences, markers and attachments.
Born ==
    \A s \in Seqs : (notice[s] = NoNotice /\ notice'[s] # NoNotice)
       => \A u \in Users : seen'[u] < s /\ \A n \in marks'[u] : n < s
Onward == \A u \in Users : seen'[u] >= seen[u]
Attached == \A u \in Uploads : files[u].join # 0 => files'[u].join = files[u].join

-----------------------------------------------------------------------------
(* The board: writes                                                       *)

\* Rewriting notices neither adds nor removes one.
LEMMA NoticesRewritten ==
    ASSUME NoticeInv, notice' \in [Seqs -> Notices \cup {NoNotice}],
           \A s \in Seqs : notice'[s] = NoNotice <=> notice[s] = NoNotice
    PROVE  NoticeInv' /\ Posts' = Posts
<1>1. Posts' = Posts
  BY DEF Posts
<1> QED
  BY <1>1 DEF NoticeInv

LEMMA NoticeRewritten ==
    ASSUME NoticeInv, NEW s \in Posts, NEW n \in Notices, notice' = [notice EXCEPT ![s] = n]
    PROVE  NoticeInv' /\ Posts' = Posts
<1>1. notice' \in [Seqs -> Notices \cup {NoNotice}]
  BY DEF NoticeInv
<1>2. \A t \in Seqs : notice'[t] = NoNotice <=> notice[t] = NoNotice
  BY BoardAssumption DEF NoticeInv, Posts
<1> QED
  BY <1>1, <1>2, NoticesRewritten

LEMMA NoticesStay == ASSUME NoticeInv, UNCHANGED notice PROVE NoticeInv' /\ Posts' = Posts
BY DEF NoticeInv, Posts

LEMMA CatsStay == ASSUME CatInv, UNCHANGED cats PROVE CatInv'
BY DEF CatInv, Live

LEMMA CatsRewritten ==
    ASSUME CatInv, cats' \in [Cats -> Categories \cup {NoCat, GoneCat}], cats'[DefaultCat] \in Categories
    PROVE  CatInv'
BY BoardAssumption DEF CatInv, Live

LEMMA FilesStay == ASSUME FileInv, UNCHANGED files PROVE FileInv' /\ Attached
BY DEF FileInv, Attached

\* Closing attachments, whichever they are.
LEMMA FilesClosed ==
    ASSUME FileInv, NEW closed,
           files' = [u \in Uploads |-> IF closed[u] THEN [files[u] EXCEPT !.open = FALSE] ELSE files[u]]
    PROVE  FileInv' /\ Attached
BY DEF FileInv, Attached

\* Linking open uploads that no notice has.
LEMMA FilesLinked ==
    ASSUME FileInv, NEW s \in Nat, NEW keep, files' = AttachFilesToNotice(s, keep)
    PROVE  FileInv' /\ Attached
BY DEF FileInv, Attached, AttachFilesToNotice

\* A request goes on, or is over.
LEMMA EditorMoves ==
    ASSUME EditInv, NEW e \in Editors, NEW job, Goto(e, job), Posts \subseteq Posts',
           job # NoEdit => SoundJob(job) /\ Placed(job, Posts)
    PROVE  /\ EditInv' /\ edit'[e] = job
           /\ \A f \in Editors : f # e => edit'[f] = edit[f]
<1>1. edit'[e] = job /\ \A f \in Editors : f # e => edit'[f] = edit[f]
  BY DEF Goto, EditInv
<1>2. edit' = [f \in Editors |-> edit'[f]]
  BY DEF Goto, EditInv
<1>3. \A j : Placed(j, Posts) => Placed(j, Posts')
  BY DEF Placed
<1>4. ASSUME NEW f \in Editors, edit'[f] # NoEdit PROVE SoundJob(edit'[f]) /\ Placed(edit'[f], Posts')
  BY <1>1, <1>3, <1>4 DEF EditInv
<1> QED
  BY <1>1, <1>2, <1>4 DEF EditInv

\* A request that is not about to announce goes on: the rest is what it wrote.
LEMMA BoardEdited ==
    ASSUME BoardInv, NEW e \in Editors, NEW job, Goto(e, job),
           edit[e] = NoEdit \/ edit[e].pc # "publish",
           job # NoEdit => SoundJob(job) /\ Placed(job, Posts),
           NoticeInv', Posts' = Posts, CatInv', FileInv', Attached, UNCHANGED <<announced, seen, marks>>
    PROVE  BoardInv' /\ Born /\ Onward /\ Attached
<1>1. /\ EditInv' /\ \A f \in Editors : f # e => edit'[f] = edit[f]
  BY EditorMoves DEF BoardInv
<1>2. PublishedIsAnnounced'
  <2> SUFFICES ASSUME NEW s \in Posts, s \notin announced
               PROVE  \E f \in Editors : edit'[f] # NoEdit /\ edit'[f].pc = "publish" /\ edit'[f].seq = s
    BY DEF PublishedIsAnnounced
  <2>1. PICK f \in Editors : edit[f] # NoEdit /\ edit[f].pc = "publish" /\ edit[f].seq = s
    BY DEF BoardInv, PublishedIsAnnounced
  <2> QED
    BY <1>1, <2>1
<1>3. MarkInv' /\ Onward
  <2>1. \A u \in Users : seen[u] \in Nat
    BY PostsAreNotices DEF BoardInv, MarkInv
  <2> QED
    BY <2>1 DEF BoardInv, MarkInv, Onward
<1>4. Born
  BY DEF Born, Posts
<1> QED
  BY <1>1, <1>2, <1>3, <1>4 DEF BoardInv

-----------------------------------------------------------------------------
(* The board: requests on notices                                          *)

\* What a request under way carries.
LEMMA JobAtHand ==
    ASSUME BoardInv, NEW e \in Editors, edit[e] # NoEdit
    PROVE  SoundJob(edit[e]) /\ Placed(edit[e], Posts)
BY DEF BoardInv, EditInv

LEMMA NewestIsLast ==
    ASSUME NoticeInv
    PROVE  /\ NewestSeq \in {0} \cup Posts /\ NewestSeq \in Nat
           /\ \A s \in Posts : s <= NewestSeq
<1>1. IsFiniteSet(Posts) /\ Posts \in SUBSET Nat
  BY PostsAreNotices
<1>2. IsFiniteSet({0} \cup Posts)
  <2>1. {0} \cup Posts = Posts \cup {0}
    OBVIOUS
  <2> QED
    BY <1>1, <2>1, FS_AddElement
<1>3. {0} \cup Posts \in SUBSET Int /\ {0} \cup Posts # {}
  BY <1>1
<1>4. Max({0} \cup Posts) \in {0} \cup Posts /\ \A s \in {0} \cup Posts : Max({0} \cup Posts) >= s
  BY <1>2, <1>3, FiniteHasMax
<1>5. NewestSeq \in {0} \cup Posts /\ \A s \in Posts : NewestSeq >= s
  BY <1>4 DEF NewestSeq
<1>6. NewestSeq \in Nat
  BY <1>1, <1>5
<1> QED
  BY <1>1, <1>5, <1>6

LEMMA BeginCreateStep ==
    ASSUME BoardInv, NEW e \in Editors, NEW d \in Drafts, BeginCreate(e, d)
    PROVE  BoardInv' /\ Born /\ Onward /\ Attached
<1> DEFINE job == [pc |-> "insert", seq |-> NewestSeq + 1, d |-> d]
<1>1. /\ edit[e] = NoEdit /\ NewestSeq < MaxNotices /\ Goto(e, job)
      /\ UNCHANGED <<notice, cats, files, announced, heroCache, heroRead, seen, marks>>
  BY DEF BeginCreate
<1>2. /\ NewestSeq \in {0} \cup Posts /\ NewestSeq \in Nat /\ Posts \in SUBSET Nat
      /\ \A s \in Posts : s <= NewestSeq
  BY NewestIsLast, PostsAreNotices DEF BoardInv
<1>3. job.seq \in Seqs
  BY <1>1, <1>2, BoardAssumption DEF Seqs
<1>4. SoundJob(job)
  BY <1>3 DEF SoundJob, Creating
<1>5. Placed(job, Posts)
  <2>1. \A t \in Seqs : t < NewestSeq + 1 => t \in Posts
    <3> SUFFICES ASSUME NEW t \in Seqs, t < NewestSeq + 1 PROVE t \in Posts
      OBVIOUS
    <3>1. t \in Nat /\ t > 0
      BY BoardAssumption DEF Seqs
    <3>2. t = NewestSeq \/ t < NewestSeq
      BY <1>2, <3>1
    <3> QED
      BY <1>2, <3>1, <3>2 DEF BoardInv, NoticeInv
  <2> QED
    BY <2>1 DEF Placed
<1> HIDE DEF job
<1>6. NoticeInv' /\ Posts' = Posts /\ CatInv' /\ FileInv' /\ Attached
  BY <1>1, NoticesStay, CatsStay, FilesStay DEF BoardInv
<1> QED
  BY <1>1, <1>4, <1>5, <1>6, BoardEdited

LEMMA CreateStep ==
    ASSUME BoardInv, NEW e \in Editors, Create(e)
    PROVE  BoardInv' /\ Born /\ Onward /\ Attached
<1> DEFINE s == edit[e].seq
<1>1. /\ edit[e] # NoEdit /\ edit[e].pc = "insert"
      /\ UNCHANGED <<cats, files, announced, heroCache, heroRead, seen, marks>>
  BY DEF Create
<1>2. /\ edit[e] \in Creating /\ s \in Seqs /\ edit[e].d \in Drafts
      /\ \A t \in Seqs : t < s => t \in Posts
  <2>1. edit[e] \in Creating /\ \A t \in Seqs : t < s => t \in Posts
    BY <1>1, JobAtHand DEF SoundJob, Placed
  <2> QED
    BY <2>1 DEF Creating
<1>3. CatInv' /\ FileInv' /\ Attached
  BY <1>1, CatsStay, FilesStay DEF BoardInv
<1>4. CASE s \in Posts
  <2>1. Goto(e, NoEdit) /\ UNCHANGED notice
    BY <1>4 DEF Create
  <2>2. NoticeInv' /\ Posts' = Posts
    BY <2>1, NoticesStay DEF BoardInv
  <2> QED
    BY <1>1, <1>3, <2>1, <2>2, BoardEdited
<1>5. CASE s \notin Posts
  <2> DEFINE n == [open |-> TRUE, pinned |-> edit[e].d.pinned, cat |-> edit[e].d.cat, recent |-> TRUE,
                   official |-> newNoticeByline(edit[e].d.official).official,
                   name |-> newNoticeByline(edit[e].d.official).name]
             job == [edit[e] EXCEPT !.pc = "publish"]
  <2>1. notice' = [notice EXCEPT ![s] = n] /\ Goto(e, job)
    BY <1>5 DEF Create, InsertNotice
  <2>2. n \in Notices
    BY <1>2 DEF Notices, Drafts, newNoticeByline
  <2>3. job \in Creating /\ job.pc = "publish" /\ job.seq = s
    BY <1>2 DEF Creating
  <2>4. job # NoEdit
    BY <2>3, BoardAssumption DEF Creating
  <2>5. SoundJob(job) /\ Placed(job, Posts)
    BY <2>3 DEF SoundJob, Placed
  <2> HIDE DEF n, job
  <2>6. /\ notice' \in [Seqs -> Notices \cup {NoNotice}]
        /\ \A t \in Seqs : notice'[t] = IF t = s THEN n ELSE notice[t]
    BY <1>2, <2>1, <2>2 DEF BoardInv, NoticeInv
  <2>7. Posts' = Posts \cup {s}
    BY <1>2, <2>2, <2>6, BoardAssumption DEF Posts
  <2>8. NoticeInv'
    <3> SUFFICES ASSUME NEW p \in Posts \cup {s}, NEW t \in Seqs, t < p PROVE t \in Posts \cup {s}
      BY <2>6, <2>7 DEF NoticeInv
    <3> QED
      BY <1>2 DEF BoardInv, NoticeInv
  <2>9. EditInv' /\ edit'[e] = job /\ \A f \in Editors : f # e => edit'[f] = edit[f]
    BY <2>1, <2>4, <2>5, <2>7, EditorMoves DEF BoardInv
  <2>10. PublishedIsAnnounced'
    <3> SUFFICES ASSUME NEW p \in Posts \cup {s}, p \notin announced
                 PROVE  \E f \in Editors : edit'[f] # NoEdit /\ edit'[f].pc = "publish" /\ edit'[f].seq = p
      BY <1>1, <2>7 DEF PublishedIsAnnounced
    <3>1. CASE p = s
      BY <2>3, <2>4, <2>9, <3>1
    <3>2. CASE p \in Posts
      <4>1. PICK f \in Editors : edit[f] # NoEdit /\ edit[f].pc = "publish" /\ edit[f].seq = p
        BY <3>2 DEF BoardInv, PublishedIsAnnounced
      <4> QED
        BY <1>1, <2>9, <4>1
    <3> QED
      BY <3>1, <3>2
  <2>11. MarkInv' /\ Onward
    <3>1. \A u \in Users : seen[u] \in Nat
      BY PostsAreNotices DEF BoardInv, MarkInv
    <3>2. UNCHANGED <<seen, marks>>
      BY <1>1
    <3> QED
      BY <2>7, <3>1, <3>2 DEF BoardInv, MarkInv, Onward
  <2>12. Born
    <3>1. \A p \in {0} \cup Posts : p < s
      <4> SUFFICES ASSUME NEW p \in {0} \cup Posts PROVE p < s
        OBVIOUS
      <4>1. s \in Nat /\ s > 0 /\ p \in Nat /\ (p = 0 \/ p \in Posts) /\ p # s
        BY <1>2, <1>5, BoardAssumption, PostsAreNotices DEF Seqs, BoardInv
      <4>2. ~(p \in Posts /\ s < p)
        BY <1>2, <1>5 DEF BoardInv, NoticeInv
      <4> QED
        BY <4>1, <4>2
    <3>2. \A u \in Users : seen'[u] \in {0} \cup Posts /\ marks'[u] \subseteq {0} \cup Posts
      BY <1>1 DEF BoardInv, MarkInv
    <3>3. \A t \in Seqs : notice[t] = NoNotice /\ notice'[t] # NoNotice => t = s
      BY <2>6
    <3> QED
      BY <3>1, <3>2, <3>3 DEF Born
  <2> QED
    BY <1>3, <2>8, <2>9, <2>10, <2>11, <2>12 DEF BoardInv
<1> QED
  BY <1>4, <1>5

LEMMA PublishStep ==
    ASSUME BoardInv, NEW e \in Editors, Publish(e)
    PROVE  BoardInv' /\ Born /\ Onward /\ Attached
<1>1. /\ edit[e] # NoEdit /\ edit[e].pc = "publish" /\ Goto(e, NoEdit)
      /\ announced' = announced \cup {edit[e].seq}
      /\ UNCHANGED <<notice, cats, heroCache, heroRead, seen, marks>>
  BY DEF Publish
<1>2. NoticeInv' /\ Posts' = Posts /\ CatInv'
  BY <1>1, NoticesStay, CatsStay DEF BoardInv
<1>3. FileInv' /\ Attached
  <2>1. edit[e].seq \in Nat
    <3>1. edit[e] \in Creating
      BY <1>1, JobAtHand DEF SoundJob
    <3> QED
      BY <3>1, BoardAssumption DEF Creating, Seqs
  <2>2. files' = AttachFilesToNotice(edit[e].seq, edit[e].d.keep) \/ files' = files
    BY DEF Publish
  <2> QED
    BY <2>1, <2>2, FilesLinked, FilesStay DEF BoardInv
<1>4. EditInv' /\ \A f \in Editors : f # e => edit'[f] = edit[f]
  BY <1>1, <1>2, EditorMoves DEF BoardInv
<1>5. PublishedIsAnnounced'
  <2> SUFFICES ASSUME NEW s \in Posts, s \notin announced'
               PROVE  \E f \in Editors : edit'[f] # NoEdit /\ edit'[f].pc = "publish" /\ edit'[f].seq = s
    BY <1>2 DEF PublishedIsAnnounced
  <2>1. PICK f \in Editors : edit[f] # NoEdit /\ edit[f].pc = "publish" /\ edit[f].seq = s
    BY <1>1 DEF BoardInv, PublishedIsAnnounced
  <2>2. f # e
    BY <1>1, <2>1
  <2> QED
    BY <1>4, <2>1, <2>2
<1>6. MarkInv' /\ Onward
  <2>1. \A u \in Users : seen[u] \in Nat
    BY PostsAreNotices DEF BoardInv, MarkInv
  <2> QED
    BY <1>1, <1>2, <2>1 DEF BoardInv, MarkInv, Onward
<1>7. Born
  BY <1>1 DEF Born
<1> QED
  BY <1>2, <1>3, <1>4, <1>5, <1>6, <1>7 DEF BoardInv

LEMMA BeginUpdateStep ==
    ASSUME BoardInv, NEW e \in Editors, NEW s \in Posts, NEW d \in Drafts, BeginUpdate(e, s, d)
    PROVE  BoardInv' /\ Born /\ Onward /\ Attached
<1> DEFINE job == [pc |-> "update", seq |-> s, d |-> d, byline |-> editedNoticeByline(s, d.official)]
<1>1. /\ edit[e] = NoEdit /\ Goto(e, job)
      /\ UNCHANGED <<notice, cats, files, announced, heroCache, heroRead, seen, marks>>
  BY DEF BeginUpdate
<1>2. editedNoticeByline(s, d.official) \in Bylines
  BY DEF editedNoticeByline, Bylines
<1>3. SoundJob(job) /\ Placed(job, Posts)
  <2>1. s \in Seqs
    BY DEF Posts
  <2>2. job.pc = "update" /\ job.seq = s /\ job.d = d /\ job.byline = editedNoticeByline(s, d.official)
    OBVIOUS
  <2> HIDE DEF job
  <2> QED
    BY <1>2, <2>1, <2>2 DEF SoundJob, Placed
<1> HIDE DEF job
<1>4. NoticeInv' /\ Posts' = Posts /\ CatInv' /\ FileInv' /\ Attached
  BY <1>1, NoticesStay, CatsStay, FilesStay DEF BoardInv
<1> QED
  BY <1>1, <1>3, <1>4, BoardEdited

LEMMA UpdateStep ==
    ASSUME BoardInv, NEW e \in Editors, Update(e)
    PROVE  BoardInv' /\ Born /\ Onward /\ Attached
<1> DEFINE s == edit[e].seq
           d == edit[e].d
           byline == edit[e].byline
           job == [pc |-> "trim", seq |-> s, d |-> d]
<1>1. /\ edit[e] # NoEdit /\ edit[e].pc = "update" /\ Goto(e, job) /\ UpdateNotice(s, d, byline)
      /\ UNCHANGED <<cats, files, announced, heroCache, heroRead, seen, marks>>
  BY DEF Update
<1>2. s \in Seqs /\ d \in Drafts /\ byline \in Bylines
  BY <1>1, JobAtHand DEF SoundJob
<1>3. SoundJob(job) /\ Placed(job, Posts)
  BY <1>2 DEF SoundJob, Placed
<1> HIDE DEF s, d, byline, job
<1>4. NoticeInv' /\ Posts' = Posts
  <2>1. CASE s \in Posts
    <3> DEFINE n == [notice[s] EXCEPT !.pinned = d.pinned,
                       !.cat = IF d.cat = NoCategory THEN notice[s].cat ELSE d.cat,
                       !.official = IF byline.official = Nothing THEN notice[s].official
                                                                 ELSE byline.official,
                       !.name = IF byline.name = "" THEN notice[s].name ELSE byline.name]
    <3>1. notice' = [notice EXCEPT ![s] = n]
      BY <1>1, <2>1 DEF UpdateNotice
    <3>2. notice[s] \in Notices
      BY <2>1, PostsAreNotices DEF BoardInv
    <3>3. /\ d.pinned \in BOOLEAN /\ d.cat \in Cats \cup {NoCategory}
          /\ byline.official # Nothing => byline.official \in BOOLEAN
          /\ byline.name # "" => byline.name \in {"foundation", "author"}
      BY <1>2 DEF Drafts, Bylines
    <3>4. n \in Notices
      BY <3>2, <3>3 DEF Notices
    <3> HIDE DEF n
    <3> QED
      BY <2>1, <3>1, <3>4, NoticeRewritten DEF BoardInv
  <2>2. CASE s \notin Posts
    BY <1>1, <2>2, NoticesStay DEF UpdateNotice, BoardInv
  <2> QED
    BY <2>1, <2>2
<1>5. CatInv' /\ FileInv' /\ Attached
  BY <1>1, CatsStay, FilesStay DEF BoardInv
<1> QED
  BY <1>1, <1>3, <1>4, <1>5, BoardEdited

LEMMA ReconcileStep ==
    ASSUME BoardInv, NEW e \in Editors, ReconcileAttachments(e)
    PROVE  BoardInv' /\ Born /\ Onward /\ Attached
<1>1. /\ edit[e] # NoEdit /\ edit[e].pc \in {"trim", "attach"}
      /\ UNCHANGED <<notice, cats, announced, heroCache, heroRead, seen, marks>>
  BY DEF ReconcileAttachments
<1>2. edit[e].seq \in Seqs /\ edit[e].seq \in Nat
  BY <1>1, JobAtHand, BoardAssumption DEF SoundJob, Seqs
<1>3. NoticeInv' /\ Posts' = Posts /\ CatInv'
  BY <1>1, NoticesStay, CatsStay DEF BoardInv
<1>4. CASE edit[e].pc = "trim"
  <2> DEFINE job == [edit[e] EXCEPT !.pc = "attach"]
             closed == [u \in Uploads |-> files[u].join = edit[e].seq /\ u \notin edit[e].d.keep]
  <2>1. /\ files' = [u \in Uploads |-> IF files[u].join = edit[e].seq /\ u \notin edit[e].d.keep
                                       THEN [files[u] EXCEPT !.open = FALSE] ELSE files[u]]
        /\ Goto(e, job)
    BY <1>4 DEF ReconcileAttachments
  <2>2. files' = [u \in Uploads |-> IF closed[u] THEN [files[u] EXCEPT !.open = FALSE] ELSE files[u]]
    BY <2>1
  <2> HIDE DEF closed
  <2>3. FileInv' /\ Attached
    BY <2>2, FilesClosed DEF BoardInv
  <2>4. job # NoEdit => SoundJob(job) /\ Placed(job, Posts)
    <3>1. job.seq = edit[e].seq /\ (job.pc = "attach" \/ job.pc = edit[e].pc)
      OBVIOUS
    <3> HIDE DEF job
    <3> QED
      BY <1>2, <1>4, <3>1 DEF SoundJob, Placed
  <2> HIDE DEF job
  <2> QED
    BY <1>1, <1>3, <2>1, <2>3, <2>4, BoardEdited
<1>5. CASE edit[e].pc = "attach"
  <2>1. files' = AttachFilesToNotice(edit[e].seq, edit[e].d.keep) /\ Goto(e, NoEdit)
    BY <1>5 DEF ReconcileAttachments
  <2>2. FileInv' /\ Attached
    BY <1>2, <2>1, FilesLinked DEF BoardInv
  <2> QED
    BY <1>1, <1>3, <2>1, <2>2, BoardEdited
<1> QED
  BY <1>1, <1>4, <1>5

LEMMA BeginSetCategoryStep ==
    ASSUME BoardInv, NEW e \in Editors, NEW s \in Posts, NEW c \in Cats, BeginSetCategory(e, s, c)
    PROVE  BoardInv' /\ Born /\ Onward /\ Attached
<1> DEFINE job == [pc |-> "category", seq |-> s, cat |-> c]
<1>1. /\ edit[e] = NoEdit /\ Goto(e, job)
      /\ UNCHANGED <<notice, cats, files, announced, heroCache, heroRead, seen, marks>>
  BY DEF BeginSetCategory
<1>2. SoundJob(job) /\ Placed(job, Posts)
  BY DEF SoundJob, Placed
<1> HIDE DEF job
<1>3. NoticeInv' /\ Posts' = Posts /\ CatInv' /\ FileInv' /\ Attached
  BY <1>1, NoticesStay, CatsStay, FilesStay DEF BoardInv
<1> QED
  BY <1>1, <1>2, <1>3, BoardEdited

LEMMA SetCategoryStep ==
    ASSUME BoardInv, NEW e \in Editors, SetCategory(e)
    PROVE  BoardInv' /\ Born /\ Onward /\ Attached
<1> DEFINE s == edit[e].seq
           c == edit[e].cat
<1>1. /\ edit[e] # NoEdit /\ edit[e].pc = "category" /\ Goto(e, NoEdit) /\ UpdateNoticeCategory(s, c)
      /\ UNCHANGED <<cats, files, announced, heroCache, heroRead, seen, marks>>
  BY DEF SetCategory
<1>2. c \in Cats
  BY <1>1, JobAtHand DEF SoundJob
<1> HIDE DEF s, c
<1>3. NoticeInv' /\ Posts' = Posts
  <2>1. CASE s \in Posts
    <3> DEFINE n == [notice[s] EXCEPT !.cat = c]
    <3>1. notice' = [notice EXCEPT ![s] = n]
      BY <1>1, <2>1 DEF UpdateNoticeCategory
    <3>2. notice[s] \in Notices
      BY <2>1, PostsAreNotices DEF BoardInv
    <3>3. n \in Notices
      BY <1>2, <3>2 DEF Notices
    <3> HIDE DEF n
    <3> QED
      BY <2>1, <3>1, <3>3, NoticeRewritten DEF BoardInv
  <2>2. CASE s \notin Posts
    BY <1>1, <2>2, NoticesStay DEF UpdateNoticeCategory, BoardInv
  <2> QED
    BY <2>1, <2>2
<1>4. CatInv' /\ FileInv' /\ Attached
  BY <1>1, CatsStay, FilesStay DEF BoardInv
<1> QED
  BY <1>1, <1>3, <1>4, BoardEdited

LEMMA DeleteStep ==
    ASSUME BoardInv, NEW e \in Editors, Delete(e)
    PROVE  BoardInv' /\ Born /\ Onward /\ Attached
<1>1. CASE /\ edit[e] = NoEdit
           /\ \E s \in OpenPosts : DeleteNotice(s) /\ Goto(e, [pc |-> "close", seq |-> s])
           /\ UNCHANGED <<cats, files, announced, heroCache, heroRead, seen, marks>>
  <2>1. PICK s \in OpenPosts : DeleteNotice(s) /\ Goto(e, [pc |-> "close", seq |-> s])
    BY <1>1
  <2> DEFINE n == [notice[s] EXCEPT !.open = FALSE]
             job == [pc |-> "close", seq |-> s]
  <2>2. s \in Posts /\ notice[s] \in Notices /\ notice' = [notice EXCEPT ![s] = n]
    BY <2>1, PostsAreNotices DEF BoardInv, DeleteNotice
  <2>3. n \in Notices
    BY <2>2 DEF Notices
  <2>4. SoundJob(job) /\ Placed(job, Posts)
    BY DEF SoundJob, Placed
  <2>5. Goto(e, job)
    BY <2>1
  <2> HIDE DEF n, job
  <2>6. NoticeInv' /\ Posts' = Posts
    BY <2>2, <2>3, NoticeRewritten DEF BoardInv
  <2>7. CatInv' /\ FileInv' /\ Attached
    BY <1>1, CatsStay, FilesStay DEF BoardInv
  <2> QED
    BY <1>1, <2>4, <2>5, <2>6, <2>7, BoardEdited
<1>2. CASE /\ edit[e] # NoEdit /\ edit[e].pc = "close"
           /\ files' = CloseFiles(edit[e].seq)
           /\ Goto(e, NoEdit)
           /\ UNCHANGED <<notice, cats, announced, heroCache, heroRead, seen, marks>>
  <2> DEFINE closed == [u \in Uploads |-> files[u].join = edit[e].seq]
  <2>1. files' = [u \in Uploads |-> IF closed[u] THEN [files[u] EXCEPT !.open = FALSE] ELSE files[u]]
    BY <1>2 DEF CloseFiles
  <2> HIDE DEF closed
  <2>2. FileInv' /\ Attached
    BY <2>1, FilesClosed DEF BoardInv
  <2>3. NoticeInv' /\ Posts' = Posts /\ CatInv'
    BY <1>2, NoticesStay, CatsStay DEF BoardInv
  <2> QED
    BY <1>2, <2>2, <2>3, BoardEdited
<1> QED
  BY <1>1, <1>2 DEF Delete

LEMMA TogglePinStep ==
    ASSUME BoardInv, NEW e \in Editors, TogglePin(e)
    PROVE  BoardInv' /\ Born /\ Onward /\ Attached
<1>1. CASE /\ edit[e] = NoEdit
           /\ \E s \in Posts : notice' = UnpinOthers(s) /\ Goto(e, [pc |-> "pin", seq |-> s])
           /\ UNCHANGED <<cats, files, announced, heroCache, heroRead, seen, marks>>
  <2>1. PICK s \in Posts : notice' = UnpinOthers(s) /\ Goto(e, [pc |-> "pin", seq |-> s])
    BY <1>1
  <2> DEFINE job == [pc |-> "pin", seq |-> s]
  <2>2. Goto(e, job) /\ SoundJob(job) /\ Placed(job, Posts)
    BY <2>1 DEF SoundJob, Placed
  <2> HIDE DEF job
  <2>3. NoticeInv' /\ Posts' = Posts
    <3>1. \A t \in Posts : notice[t] \in Notices /\ [notice[t] EXCEPT !.pinned = FALSE] \in Notices
      <4>1. \A t \in Posts : notice[t] \in Notices
        BY PostsAreNotices DEF BoardInv
      <4> QED
        BY <4>1 DEF Notices
    <3>2. \A t \in Seqs : notice'[t] = IF t \in Posts /\ t # s THEN [notice[t] EXCEPT !.pinned = FALSE]
                                                               ELSE notice[t]
      BY <2>1 DEF UnpinOthers
    <3>3. notice' = [t \in Seqs |-> notice'[t]]
      BY <2>1 DEF UnpinOthers
    <3>4. notice' \in [Seqs -> Notices \cup {NoNotice}]
      BY <3>1, <3>2, <3>3 DEF BoardInv, NoticeInv
    <3>5. \A t \in Seqs : notice'[t] = NoNotice <=> notice[t] = NoNotice
      BY <3>1, <3>2, BoardAssumption DEF Posts
    <3> QED
      BY <3>4, <3>5, NoticesRewritten DEF BoardInv
  <2>4. CatInv' /\ FileInv' /\ Attached
    BY <1>1, CatsStay, FilesStay DEF BoardInv
  <2> QED
    BY <1>1, <2>2, <2>3, <2>4, BoardEdited
<1>2. CASE /\ edit[e] # NoEdit /\ edit[e].pc = "pin"
           /\ notice' = [notice EXCEPT ![edit[e].seq].pinned = ~@]
           /\ Goto(e, NoEdit)
           /\ UNCHANGED <<cats, files, announced, heroCache, heroRead, seen, marks>>
  <2> DEFINE s == edit[e].seq
             n == [notice[s] EXCEPT !.pinned = ~notice[s].pinned]
  <2>1. s \in Posts
    BY <1>2, JobAtHand DEF Placed
  <2>2. notice[s] \in Notices /\ notice[s].pinned \in BOOLEAN
    BY <2>1, PostsAreNotices DEF BoardInv
  <2>3. notice' = [notice EXCEPT ![s] = n]
    BY <1>2
  <2> HIDE DEF s
  <2>4. n \in Notices
    BY <2>2 DEF Notices
  <2> HIDE DEF n
  <2>5. NoticeInv' /\ Posts' = Posts
    BY <2>1, <2>3, <2>4, NoticeRewritten DEF BoardInv
  <2>6. CatInv' /\ FileInv' /\ Attached
    BY <1>2, CatsStay, FilesStay DEF BoardInv
  <2> QED
    BY <1>2, <2>5, <2>6, BoardEdited
<1> QED
  BY <1>1, <1>2 DEF TogglePin

-----------------------------------------------------------------------------
(* The board: requests on categories                                       *)

\* A place after every category's.
LEMMA LastPlace ==
    ASSUME CatInv
    PROVE  Max({cats[k].pos : k \in Live}) \in Nat
<1> DEFINE places == {cats[k].pos : k \in Live}
<1>1. IsFiniteSet(Live) /\ \A k \in Live : cats[k].pos \in Nat
  BY LiveCategories DEF Categories
<1>2. places \in SUBSET Nat /\ places \in SUBSET Int /\ places # {}
  BY <1>1 DEF CatInv
<1>3. IsFiniteSet(places)
  <2> DEFINE pos == [k \in Live |-> cats[k].pos]
  <2>1. pos \in Surjection(Live, places)
    BY DEF Surjection
  <2> HIDE DEF pos, places
  <2> QED
    BY <1>1, <2>1, FS_Surjection
<1> HIDE DEF places
<1>4. Max(places) \in places
  BY <1>2, <1>3, FiniteHasMax
<1>5. Max(places) \in Nat
  BY <1>2, <1>4
<1> QED
  BY <1>5 DEF places

LEMMA BeginCreateCategoryStep ==
    ASSUME BoardInv, NEW e \in Editors, NEW name \in Names, NEW open \in BOOLEAN,
           BeginCreateCategory(e, name, open)
    PROVE  BoardInv' /\ Born /\ Onward /\ Attached
<1> DEFINE job == [pc |-> "newCategory", name |-> name, open |-> open]
<1>1. /\ edit[e] = NoEdit /\ Goto(e, job)
      /\ UNCHANGED <<notice, cats, files, announced, heroCache, heroRead, seen, marks>>
  BY DEF BeginCreateCategory
<1>2. SoundJob(job) /\ Placed(job, Posts)
  BY DEF SoundJob, Placed
<1> HIDE DEF job
<1>3. NoticeInv' /\ Posts' = Posts /\ CatInv' /\ FileInv' /\ Attached
  BY <1>1, NoticesStay, CatsStay, FilesStay DEF BoardInv
<1> QED
  BY <1>1, <1>2, <1>3, BoardEdited

LEMMA CreateCategoryStep ==
    ASSUME BoardInv, NEW e \in Editors, CreateCategory(e)
    PROVE  BoardInv' /\ Born /\ Onward /\ Attached
<1>1. /\ edit[e] # NoEdit /\ edit[e].pc = "newCategory" /\ Goto(e, NoEdit)
      /\ InsertCategory(edit[e].name, edit[e].open)
      /\ UNCHANGED <<notice, files, announced, heroRead, seen, marks>>
  BY DEF CreateCategory
<1>2. edit[e].name \in Names /\ edit[e].open \in BOOLEAN
  BY <1>1, JobAtHand DEF SoundJob
<1> DEFINE fresh == {c \in Cats : cats[c] = NoCat}
           place == Max({cats[k].pos : k \in Live})
           new == [name |-> edit[e].name, open |-> edit[e].open, pos |-> place + 1]
<1>3. cats' = [cats EXCEPT ![Min(fresh)] = new]
  BY <1>1 DEF InsertCategory
<1>4. place \in Nat
  BY LastPlace DEF BoardInv
<1> HIDE DEF place
<1>5. place + 1 \in Nat
  BY <1>4
<1>6. new \in Categories
  BY <1>2, <1>5 DEF Categories
<1> HIDE DEF new, fresh
<1>7. cats[DefaultCat] \in Categories
  BY LiveCategories DEF BoardInv, CatInv
<1>8. cats' \in [Cats -> Categories \cup {NoCat, GoneCat}] /\ cats'[DefaultCat] \in Categories
  BY <1>3, <1>6, <1>7, BoardAssumption DEF BoardInv, CatInv
<1>9. CatInv'
  BY <1>8, CatsRewritten DEF BoardInv
<1>10. NoticeInv' /\ Posts' = Posts /\ FileInv' /\ Attached
  BY <1>1, NoticesStay, FilesStay DEF BoardInv
<1> QED
  BY <1>1, <1>9, <1>10, BoardEdited

LEMMA UpdateCategoryStep ==
    ASSUME BoardInv, NEW e \in Editors, NEW c \in Cats, NEW name \in Names, NEW open \in BOOLEAN,
           UpdateCategory(e, c, name, open)
    PROVE  BoardInv' /\ Born /\ Onward /\ Attached
<1> DEFINE job == [pc |-> "renameCategory", cat |-> c, name |-> name, open |-> open]
<1>1. CASE /\ edit[e] = NoEdit /\ Goto(e, job)
           /\ UNCHANGED <<notice, cats, files, announced, heroCache, heroRead, seen, marks>>
  <2>1. SoundJob(job) /\ Placed(job, Posts)
    BY DEF SoundJob, Placed
  <2> HIDE DEF job
  <2>2. NoticeInv' /\ Posts' = Posts /\ CatInv' /\ FileInv' /\ Attached
    BY <1>1, NoticesStay, CatsStay, FilesStay DEF BoardInv
  <2> QED
    BY <1>1, <2>1, <2>2, BoardEdited
<1>2. CASE /\ edit[e] = job /\ Goto(e, NoEdit)
           /\ cats' = IF c \in Live THEN [cats EXCEPT ![c].name = name, ![c].open = open] ELSE cats
           /\ UNCHANGED <<notice, files, announced, heroRead, seen, marks>>
  <2>1. edit[e].pc # "publish"
    BY <1>2
  <2>2. CatInv'
    <3>1. CASE c \in Live
      <4>1. \A k \in Cats : cats'[k] = IF k = c THEN [cats[c] EXCEPT !.name = name, !.open = open] ELSE cats[k]
        BY <1>2, <3>1 DEF BoardInv, CatInv
      <4>2. cats' = [k \in Cats |-> cats'[k]]
        BY <1>2, <3>1 DEF BoardInv, CatInv
      <4>3. cats[c] \in Categories /\ cats[DefaultCat] \in Categories
        BY <3>1, LiveCategories DEF BoardInv, CatInv
      <4>4. [cats[c] EXCEPT !.name = name, !.open = open] \in Categories
        BY <4>3 DEF Categories
      <4>5. cats' \in [Cats -> Categories \cup {NoCat, GoneCat}] /\ cats'[DefaultCat] \in Categories
        BY <4>1, <4>2, <4>3, <4>4, BoardAssumption DEF BoardInv, CatInv
      <4> QED
        BY <4>5, CatsRewritten DEF BoardInv
    <3>2. CASE c \notin Live
      BY <1>2, <3>2, CatsStay DEF BoardInv
    <3> QED
      BY <3>1, <3>2
  <2>3. NoticeInv' /\ Posts' = Posts /\ FileInv' /\ Attached
    BY <1>2, NoticesStay, FilesStay DEF BoardInv
  <2> QED
    BY <1>2, <2>1, <2>2, <2>3, BoardEdited
<1> QED
  BY <1>1, <1>2 DEF UpdateCategory

LEMMA BeginReorderStep ==
    ASSUME BoardInv, NEW e \in Editors, NEW order \in SetToAllKPermutations(Cats), BeginReorder(e, order)
    PROVE  BoardInv' /\ Born /\ Onward /\ Attached
<1> DEFINE job == [pc |-> "reorder", order |-> order]
<1>1. /\ edit[e] = NoEdit /\ Goto(e, job)
      /\ UNCHANGED <<notice, cats, files, announced, heroCache, heroRead, seen, marks>>
  BY DEF BeginReorder
<1>2. DOMAIN order \subseteq Nat
  <2>1. PICK S \in SUBSET Cats : order \in SetToSeqs(S)
    BY DEF SetToAllKPermutations
  <2>2. DOMAIN order = 1..Cardinality(S)
    BY <2>1 DEF SetToSeqs
  <2>3. Cardinality(S) \in Nat
    BY BoardAssumption, FS_Subset, FS_CardinalityType
  <2> QED
    BY <2>2, <2>3
<1>3. SoundJob(job) /\ Placed(job, Posts)
  BY <1>2 DEF SoundJob, Placed
<1> HIDE DEF job
<1>4. NoticeInv' /\ Posts' = Posts /\ CatInv' /\ FileInv' /\ Attached
  BY <1>1, NoticesStay, CatsStay, FilesStay DEF BoardInv
<1> QED
  BY <1>1, <1>3, <1>4, BoardEdited

LEMMA ReorderStep ==
    ASSUME BoardInv, NEW e \in Editors, Reorder(e)
    PROVE  BoardInv' /\ Born /\ Onward /\ Attached
<1> DEFINE order == edit[e].order
           Place(c) == CHOOSE i \in DOMAIN order : order[i] = c
           placed == Live \cap Range(order)
<1>1. /\ edit[e] # NoEdit /\ edit[e].pc = "reorder" /\ Goto(e, NoEdit)
      /\ cats' = [c \in Cats |-> IF c \in placed THEN [cats[c] EXCEPT !.pos = Place(c)] ELSE cats[c]]
      /\ UNCHANGED <<notice, files, announced, heroRead, seen, marks>>
  BY DEF Reorder
<1>2. DOMAIN order \subseteq Nat
  BY <1>1, JobAtHand DEF SoundJob
<1>3. \A c \in placed : c \in Live /\ Place(c) \in Nat
  BY <1>2 DEF Range
<1> HIDE DEF Place, placed, order
<1>4. \A c \in placed : [cats[c] EXCEPT !.pos = Place(c)] \in Categories
  <2>1. \A c \in placed : cats[c] \in Categories
    BY <1>3, LiveCategories DEF BoardInv
  <2> QED
    BY <1>3, <2>1 DEF Categories
<1>5. cats[DefaultCat] \in Categories
  BY LiveCategories DEF BoardInv, CatInv
<1>6. cats' \in [Cats -> Categories \cup {NoCat, GoneCat}] /\ cats'[DefaultCat] \in Categories
  BY <1>1, <1>4, <1>5, BoardAssumption DEF BoardInv, CatInv
<1>7. CatInv'
  BY <1>6, CatsRewritten DEF BoardInv
<1>8. NoticeInv' /\ Posts' = Posts /\ FileInv' /\ Attached
  BY <1>1, NoticesStay, FilesStay DEF BoardInv
<1> QED
  BY <1>1, <1>7, <1>8, BoardEdited

LEMMA BeginDeleteCategoryStep ==
    ASSUME BoardInv, NEW e \in Editors, NEW c \in Cats, NEW moveTo \in Cats \cup {NoCategory},
           BeginDeleteCategory(e, c, moveTo)
    PROVE  BoardInv' /\ Born /\ Onward /\ Attached
<1> DEFINE job == [pc |-> "deleteCategory", cat |-> c, moveTo |-> moveTo]
<1>1. /\ edit[e] = NoEdit /\ Goto(e, job) /\ c # DefaultCat
      /\ UNCHANGED <<notice, cats, files, announced, heroCache, heroRead, seen, marks>>
  BY DEF BeginDeleteCategory
<1>2. SoundJob(job) /\ Placed(job, Posts)
  BY <1>1 DEF SoundJob, Placed
<1> HIDE DEF job
<1>3. NoticeInv' /\ Posts' = Posts /\ CatInv' /\ FileInv' /\ Attached
  BY <1>1, NoticesStay, CatsStay, FilesStay DEF BoardInv
<1> QED
  BY <1>1, <1>2, <1>3, BoardEdited

LEMMA DeleteCategoryStep ==
    ASSUME BoardInv, NEW e \in Editors, DeleteCategory(e)
    PROVE  BoardInv' /\ Born /\ Onward /\ Attached
<1> DEFINE c == edit[e].cat
           to == edit[e].moveTo
<1>1. /\ edit[e] # NoEdit /\ edit[e].pc = "deleteCategory" /\ Goto(e, NoEdit)
      /\ UNCHANGED <<files, announced, heroRead, seen, marks>>
      /\ \/ UNCHANGED <<notice, cats, heroCache>>
         \/ DeleteIfEmpty(c)
         \/ to # NoCategory /\ DeleteMoving(c, to)
  BY DEF DeleteCategory
<1>2. c # DefaultCat /\ to \in Cats \cup {NoCategory}
  BY <1>1, JobAtHand DEF SoundJob
<1> HIDE DEF c, to
<1>3. UNCHANGED cats \/ cats' = [cats EXCEPT ![c] = GoneCat]
  BY <1>1 DEF DeleteIfEmpty, DeleteMoving
<1>4. CatInv'
  <2>1. CASE cats' = [cats EXCEPT ![c] = GoneCat]
    <3>1. cats[DefaultCat] \in Categories
      BY LiveCategories DEF BoardInv, CatInv
    <3>2. cats' \in [Cats -> Categories \cup {NoCat, GoneCat}] /\ cats'[DefaultCat] \in Categories
      BY <1>2, <2>1, <3>1, BoardAssumption DEF BoardInv, CatInv
    <3> QED
      BY <3>2, CatsRewritten DEF BoardInv
  <2> QED
    BY <1>3, <2>1, CatsStay DEF BoardInv
<1>5. NoticeInv' /\ Posts' = Posts
  <2>1. CASE DeleteMoving(c, to)
    <3>1. \A t \in Posts : notice[t] \in Notices /\ [notice[t] EXCEPT !.cat = to] \in Notices
      <4>1. \A t \in Posts : notice[t] \in Notices
        BY PostsAreNotices DEF BoardInv
      <4> QED
        BY <1>2, <4>1 DEF Notices
    <3>2. \A t \in Seqs : notice'[t] = IF t \in Posts /\ notice[t].cat = c THEN [notice[t] EXCEPT !.cat = to]
                                                                           ELSE notice[t]
      BY <2>1 DEF DeleteMoving
    <3>3. notice' = [t \in Seqs |-> notice'[t]]
      BY <2>1 DEF DeleteMoving
    <3>4. notice' \in [Seqs -> Notices \cup {NoNotice}]
      BY <3>1, <3>2, <3>3 DEF BoardInv, NoticeInv
    <3>5. \A t \in Seqs : notice'[t] = NoNotice <=> notice[t] = NoNotice
      BY <3>1, <3>2, BoardAssumption DEF Posts
    <3> QED
      BY <3>4, <3>5, NoticesRewritten DEF BoardInv
  <2>2. CASE UNCHANGED notice
    BY <2>2, NoticesStay DEF BoardInv
  <2> QED
    BY <1>1, <2>1, <2>2 DEF DeleteIfEmpty
<1>6. FileInv' /\ Attached
  BY <1>1, FilesStay DEF BoardInv
<1> QED
  BY <1>1, <1>4, <1>5, <1>6, BoardEdited

-----------------------------------------------------------------------------
(* The board: the feed's hero, the inbox                                   *)

\* Nothing of what a request writes has changed.
LEMMA BoardAtRest ==
    ASSUME BoardInv, NoticeInv', Posts' = Posts, UNCHANGED <<cats, files, announced, edit>>
    PROVE  /\ NoticeInv' /\ CatInv' /\ FileInv' /\ EditInv' /\ PublishedIsAnnounced'
           /\ Attached /\ Born
<1>1. CatInv' /\ FileInv' /\ Attached
  BY CatsStay, FilesStay DEF BoardInv
<1>2. EditInv' /\ PublishedIsAnnounced'
  BY DEF BoardInv, EditInv, PublishedIsAnnounced
<1>3. Born
  BY DEF Born, Posts
<1> QED
  BY <1>1, <1>2, <1>3

LEMMA FeedHeroStep ==
    ASSUME BoardInv, UNCHANGED <<notice, cats, files, announced, edit, seen, marks>>
    PROVE  BoardInv' /\ Born /\ Onward /\ Attached
<1>1. NoticeInv' /\ Posts' = Posts
  BY NoticesStay DEF BoardInv
<1>2. CatInv' /\ FileInv' /\ EditInv' /\ PublishedIsAnnounced' /\ Attached /\ Born
  BY <1>1, BoardAtRest
<1>3. MarkInv' /\ Onward
  <2>1. \A u \in Users : seen[u] \in Nat
    BY PostsAreNotices DEF BoardInv, MarkInv
  <2> QED
    BY <1>1, <2>1 DEF BoardInv, MarkInv, Onward
<1> QED
  BY <1>1, <1>2, <1>3 DEF BoardInv

\* A mark is of a sequence that exists: none that is not newer than the newest is missing.
LEMMA MarkSeenStep ==
    ASSUME BoardInv, NEW u \in Users, NEW n \in 1..(MaxNotices + 1), MarkSeen(u, n)
    PROVE  BoardInv' /\ Born /\ Onward /\ Attached
<1> DEFINE m == ClampToNewest(n)
<1>1. /\ marks' = [marks EXCEPT ![u] = marks[u] \cup {m}]
      /\ UNCHANGED <<notice, cats, files, announced, edit, heroCache, heroRead, seen>>
  BY DEF MarkSeen
<1>2. NoticeInv' /\ Posts' = Posts
  BY <1>1, NoticesStay DEF BoardInv
<1>3. CatInv' /\ FileInv' /\ EditInv' /\ PublishedIsAnnounced' /\ Attached /\ Born
  BY <1>1, <1>2, BoardAtRest
<1>4. m \in {0} \cup Posts
  <2>1. NewestSeq \in {0} \cup Posts /\ NewestSeq \in Nat /\ Posts \subseteq 1..MaxNotices
    BY NewestIsLast, PostsAreNotices DEF BoardInv
  <2>2. n \in Nat /\ n > 0
    BY BoardAssumption
  <2>3. m \in {n, NewestSeq} /\ m <= NewestSeq
    BY <2>1, <2>2, OfTwo DEF ClampToNewest
  <2>4. CASE m = NewestSeq
    BY <2>1, <2>4
  <2>5. CASE m = n /\ m < NewestSeq
    <3>1. NewestSeq \in Posts
      BY <2>1, <2>2, <2>5
    <3>2. m \in Seqs
      <4>1. NewestSeq \in 1..MaxNotices
        BY <2>1, <3>1
      <4> HIDE DEF m
      <4> QED
        BY <2>2, <2>5, <4>1, BoardAssumption DEF Seqs
    <3> QED
      BY <2>5, <3>1, <3>2 DEF BoardInv, NoticeInv
  <2> HIDE DEF m
  <2> QED
    BY <2>1, <2>2, <2>3, <2>4, <2>5
<1> HIDE DEF m
<1>5. MarkInv'
  BY <1>1, <1>2, <1>4 DEF BoardInv, MarkInv
<1>6. Onward
  <2>1. \A v \in Users : seen[v] \in Nat
    BY PostsAreNotices DEF BoardInv, MarkInv
  <2> QED
    BY <1>1, <2>1 DEF Onward
<1> QED
  BY <1>2, <1>3, <1>5, <1>6 DEF BoardInv

\* The marker moves on only, to a sequence that was marked or to where it was.
LEMMA MarkSeenThroughStep ==
    ASSUME BoardInv, NEW u \in Users, MarkSeenThrough(u)
    PROVE  BoardInv' /\ Born /\ Onward /\ Attached
<1>1. PICK n \in marks[u] : /\ seen' = [seen EXCEPT ![u] = MarkerAfter(seen[u], n)]
                            /\ marks' = [marks EXCEPT ![u] = marks[u] \ {n}]
  BY DEF MarkSeenThrough
<1>2. UNCHANGED <<notice, cats, files, announced, edit, heroCache, heroRead>>
  BY DEF MarkSeenThrough
<1>3. NoticeInv' /\ Posts' = Posts
  BY <1>2, NoticesStay DEF BoardInv
<1>4. CatInv' /\ FileInv' /\ EditInv' /\ PublishedIsAnnounced' /\ Attached /\ Born
  BY <1>2, <1>3, BoardAtRest
<1>5. n \in {0} \cup Posts /\ \A v \in Users : seen[v] \in {0} \cup Posts /\ seen[v] \in Nat
  BY PostsAreNotices DEF BoardInv, MarkInv
<1>6. n \in Nat
  BY <1>5, PostsAreNotices DEF BoardInv
<1>7. MarkerAfter(seen[u], n) \in {seen[u], n} /\ MarkerAfter(seen[u], n) >= seen[u]
  BY <1>5, <1>6, OfTwo DEF MarkerAfter
<1>8. MarkInv'
  BY <1>1, <1>3, <1>5, <1>7 DEF BoardInv, MarkInv
<1>9. Onward
  <2>1. \A v \in Users : seen'[v] = IF v = u THEN MarkerAfter(seen[u], n) ELSE seen[v]
    BY <1>1 DEF BoardInv, MarkInv
  <2> QED
    BY <1>5, <1>7, <2>1 DEF Onward
<1> QED
  BY <1>3, <1>4, <1>8, <1>9 DEF BoardInv

LEMMA LeavesInboxStep ==
    ASSUME BoardInv, NEW s \in Seqs, LeavesInbox(s)
    PROVE  BoardInv' /\ Born /\ Onward /\ Attached
<1> DEFINE n == [notice[s] EXCEPT !.recent = FALSE]
<1>1. /\ s \in Posts /\ notice' = [notice EXCEPT ![s] = n]
      /\ UNCHANGED <<cats, files, announced, edit, heroCache, heroRead, seen, marks>>
  BY DEF LeavesInbox
<1>2. notice[s] \in Notices
  BY <1>1, PostsAreNotices DEF BoardInv
<1>3. n \in Notices
  BY <1>2 DEF Notices
<1> HIDE DEF n
<1>4. NoticeInv' /\ Posts' = Posts
  BY <1>1, <1>3, NoticeRewritten DEF BoardInv
<1>5. CatInv' /\ FileInv' /\ EditInv' /\ PublishedIsAnnounced' /\ Attached /\ Born
  BY <1>1, <1>4, BoardAtRest
<1>6. MarkInv' /\ Onward
  <2>1. \A u \in Users : seen[u] \in Nat
    BY PostsAreNotices DEF BoardInv, MarkInv
  <2> QED
    BY <1>1, <1>4, <2>1 DEF BoardInv, MarkInv, Onward
<1> QED
  BY <1>4, <1>5, <1>6 DEF BoardInv

-----------------------------------------------------------------------------
(* The board: every step                                                   *)

LEMMA BoardInitially == BoardInit => BoardInv
<1> SUFFICES ASSUME BoardInit PROVE BoardInv
  OBVIOUS
<1>1. NoticeInv /\ Posts = {}
  BY DEF BoardInit, NoticeInv, Posts
<1>2. CatInv
  <2>1. PICK name \in Names :
          cats = [c \in Cats |-> IF c = DefaultCat THEN [name |-> name, open |-> TRUE, pos |-> 1] ELSE NoCat]
    BY DEF BoardInit
  <2>2. [name |-> name, open |-> TRUE, pos |-> 1] \in Categories
    BY DEF Categories
  <2> QED
    BY <2>1, <2>2, BoardAssumption DEF CatInv, Live
<1>3. FileInv
  BY DEF BoardInit, FileInv
<1>4. MarkInv
  BY DEF BoardInit, MarkInv
<1>5. EditInv
  BY DEF BoardInit, EditInv
<1>6. PublishedIsAnnounced
  BY <1>1 DEF PublishedIsAnnounced
<1> QED
  BY <1>1, <1>2, <1>3, <1>4, <1>5, <1>6 DEF BoardInv

LEMMA BoardStep == BoardInv /\ [BoardNext]_boardVars => BoardInv' /\ Born /\ Onward /\ Attached
<1> SUFFICES ASSUME BoardInv, [BoardNext]_boardVars PROVE BoardInv' /\ Born /\ Onward /\ Attached
  OBVIOUS
<1>1. CASE UNCHANGED boardVars
  BY <1>1, FeedHeroStep DEF boardVars
<1>2. CASE GetHero \/ HeroExpires
  BY <1>2, FeedHeroStep DEF GetHero, HeroExpires
<1>3. CASE \E u \in Users : MarkSeenThrough(u) \/ \E n \in 1..(MaxNotices + 1) : MarkSeen(u, n)
  BY <1>3, MarkSeenStep, MarkSeenThroughStep
<1>4. CASE \E s \in Seqs : LeavesInbox(s)
  BY <1>4, LeavesInboxStep
<1>5. ASSUME NEW e \in Editors,
             \/ \E d \in Drafts : BeginCreate(e, d) \/ \E s \in Posts : BeginUpdate(e, s, d)
             \/ Create(e) \/ Publish(e) \/ Update(e) \/ ReconcileAttachments(e)
             \/ \E s \in Posts, c \in Cats : BeginSetCategory(e, s, c)
             \/ SetCategory(e) \/ Delete(e) \/ TogglePin(e)
      PROVE  BoardInv' /\ Born /\ Onward /\ Attached
  BY <1>5, BeginCreateStep, BeginUpdateStep, CreateStep, PublishStep, UpdateStep, ReconcileStep,
     BeginSetCategoryStep, SetCategoryStep, DeleteStep, TogglePinStep
<1>6. ASSUME NEW e \in Editors,
             \/ \E name \in Names, open \in BOOLEAN :
                  BeginCreateCategory(e, name, open) \/ \E c \in Cats : UpdateCategory(e, c, name, open)
             \/ CreateCategory(e) \/ Reorder(e)
             \/ \E order \in SetToAllKPermutations(Cats) : BeginReorder(e, order)
             \/ \E c \in Cats, to \in Cats \cup {NoCategory} : BeginDeleteCategory(e, c, to)
             \/ DeleteCategory(e)
      PROVE  BoardInv' /\ Born /\ Onward /\ Attached
  BY <1>6, BeginCreateCategoryStep, UpdateCategoryStep, CreateCategoryStep, ReorderStep, BeginReorderStep,
     BeginDeleteCategoryStep, DeleteCategoryStep
<1> QED
  BY <1>1, <1>2, <1>3, <1>4, <1>5, <1>6 DEF BoardNext

LEMMA BoardIsSound == BoardSpec => []BoardInv /\ [][Born /\ Onward /\ Attached]_boardVars
<1>1. BoardSpec => []BoardInv
  BY BoardInitially, BoardStep, PTL DEF BoardSpec
<1>2. BoardInv /\ [BoardNext]_boardVars => [Born /\ Onward /\ Attached]_boardVars
  BY BoardStep
<1> QED
  BY <1>1, <1>2, PTL DEF BoardSpec

(***************************************************************************)
(* Editors, members and the clock do what they will to the notices: each   *)
(* that is saved is announced, counted under one category, shown by the    *)
(* feed's pages and links and counted by the inbox's dot, is unread until  *)
(* it was shown and read ever after, and keeps its attachments.            *)
(***************************************************************************)
THEOREM NoticesAreFoundAlone == BoardSpec => NoticesAreFound
<1>1. BoardInv => PublishedIsAnnounced /\ EveryNoticeCounted /\ FeedShowsEverything /\ InboxCountAgrees
  BY NoticesAreCounted, FeedIsWhole, InboxAgrees DEF BoardInv
<1>2. [Born /\ Onward /\ Attached]_boardVars =>
        /\ [\A s \in Seqs : (notice[s] = NoNotice /\ notice'[s] # NoNotice)
             => \A u \in Users : seen'[u] < s /\ \A n \in marks'[u] : n < s]_boardVars
        /\ [\A u \in Users : seen'[u] >= seen[u]]_boardVars
        /\ [\A u \in Uploads : files[u].join # 0 => files'[u].join = files[u].join]_boardVars
  BY DEF Born, Onward, Attached
<1>3. BoardSpec => BornUnread /\ SeenStaysSeen /\ AttachmentsStayPut
  BY <1>2, BoardIsSound, PTL DEF BornUnread, SeenStaysSeen, AttachmentsStayPut
<1> QED
  BY <1>1, <1>3, BoardIsSound, PTL DEF NoticesAreFound


-----------------------------------------------------------------------------
(* Reactions: the inductive invariant                                      *)

Counts == [likes : Nat, comments : Nat]
LikeTypes ==
    /\ likes = [m \in Members |-> likes[m]] /\ \A m \in Members : IsFiniteSet(R!Rows(m))
    /\ tap \in [Taps -> {"idle", "unlike", "lookup", "relike", "insert"}]
PageTypes ==
    /\ hero \in [cached : Counts \cup {Idle}, read : Counts \cup {Idle}]
    /\ page \in [Members -> [pc : {"idle", "attach", "shown"}, likeCnt : Nat, liked : BOOLEAN,
                             commentCnt : Nat, comments : SUBSET R!Comments]]

\* What a view has read and shows, when the count stands at n: a view reads the
\* count before it adds to it, and again after.
Viewed ==
    [pc : {"idle", "count", "answer", "done", "gone"}, of : {"", "expand", "page"}, before : Nat, shown : Nat]
SoundView(f, n) ==
    /\ f \in Viewed /\ f.before <= n
    /\ f.pc = "answer" => f.before < n
    /\ f.pc = "done" /\ f.of = "expand" => f.shown \in (f.before + 1)..n

ViewInv ==
    /\ hits \in Nat /\ hits = counted /\ view \in [Views -> Viewed]
    /\ \A v \in Views : SoundView(view[v], hits)
PageInv == PageTypes /\ R!DetailAgrees /\ R!LikedIsCounted

ReactionInv == LikeTypes /\ ViewInv /\ PageInv

-----------------------------------------------------------------------------
(* Reactions: what is counted                                              *)

LEMMA SameCardinality == ASSUME NEW S PROVE R!Cardinality(S) = Cardinality(S)
BY Zenon DEF R!Cardinality, Cardinality

\* A member's rows that are open, each with the member.
OpenRows(m) == {k \in R!Rows(m) : likes[m][k]}

\* The likes of a post are its open rows.
LEMMA LikesCounted ==
    ASSUME LikeTypes
    PROVE  /\ R!GetLikeCount \in Nat
           /\ \A m \in Members : R!HasUserLiked(m) => R!GetLikeCount > 0
<1> DEFINE part == [m \in Members |-> {m} \X OpenRows(m)]
           step(g) == FoldStep(part, Members, g)
           sums(g) == [s \in SUBSET Members |-> IF s = {} THEN 0
                         ELSE R!Cardinality({k \in R!Rows(Chosen(s)) : likes[Chosen(s)][k]})
                                + g[s \ {Chosen(s)}]]
           all == UNION {part[m] : m \in Members}
<1>1. \A m \in Members : IsFiniteSet(OpenRows(m))
  <2> TAKE m \in Members
  <2>1. IsFiniteSet(R!Rows(m)) /\ OpenRows(m) \subseteq R!Rows(m)
    BY DEF LikeTypes, OpenRows
  <2> QED
    BY <2>1, FS_Subset
<1>2. \A m \in Members : IsFiniteSet(part[m]) /\ Cardinality(part[m]) = R!Cardinality(OpenRows(m))
  <2> TAKE m \in Members
  <2>1. IsFiniteSet({m}) /\ Cardinality({m}) = 1
    BY FS_Singleton
  <2>2. IsFiniteSet({m} \X OpenRows(m)) /\ Cardinality({m} \X OpenRows(m)) = 1 * Cardinality(OpenRows(m))
    BY <1>1, <2>1, FS_Product
  <2>3. Cardinality(OpenRows(m)) \in Nat
    BY <1>1, FS_CardinalityType
  <2>4. R!Cardinality(OpenRows(m)) = Cardinality(OpenRows(m))
    BY SameCardinality
  <2> QED
    BY <2>2, <2>3, <2>4
<1>3. \A m, n \in Members : m # n => part[m] \cap part[n] = {}
  OBVIOUS
<1>4. \A g : sums(g) = step(g)
  <2> TAKE g
  <2>1. \A s \in SUBSET Members : s # {} => Chosen(s) \in Members
    BY DEF Chosen
  <2> HIDE DEF part
  <2>2. \A s \in SUBSET Members : s # {} =>
          R!Cardinality({k \in R!Rows(Chosen(s)) : likes[Chosen(s)][k]}) = Cardinality(part[Chosen(s)])
    BY <1>2, <2>1 DEF OpenRows
  <2> QED
    BY <2>2 DEF FoldStep
<1>5. R!GetLikeCount = (CHOOSE g : g = sums(g))[Members]
  BY Zenon DEF R!GetLikeCount, R!MapThenSumSet, R!MapThenFoldSet, Chosen
<1>6. IsFiniteSet(all)
  <2> DEFINE parts == {part[m] : m \in Members}
             f == [m \in Members |-> part[m]]
  <2>1. f \in Surjection(Members, parts)
    BY DEF Surjection
  <2>2. IsFiniteSet(parts)
    <3> HIDE DEF f, parts, part
    <3> QED
      BY <2>1, ReactionAssumption, FS_Surjection
  <2>3. \A T \in parts : IsFiniteSet(T)
    BY <1>2
  <2> HIDE DEF parts
  <2>4. IsFiniteSet(UNION parts)
    BY <2>2, <2>3, FS_UNION
  <2> QED
    BY <2>4 DEF parts
<1>7. \A m \in Members : R!HasUserLiked(m) => all # {}
  <2> SUFFICES ASSUME NEW m \in Members, R!HasUserLiked(m) PROVE all # {}
    OBVIOUS
  <2>1. PICK k \in R!Rows(m) : likes[m][k]
    BY DEF R!HasUserLiked
  <2>2. <<m, k>> \in part[m]
    BY <2>1 DEF OpenRows
  <2> QED
    BY <2>2
<1> HIDE DEF part
<1>8. /\ \E g : g = step(g)
      /\ \A g : g = step(g) => g[Members] = Cardinality(UNION {part[m] : m \in Members})
  <2>1. IsFiniteSet(Members) /\ \A m \in Members : IsFiniteSet(part[m])
    BY <1>2, ReactionAssumption
  <2> QED
    BY <1>3, <2>1, FoldOfParts
<1> HIDE DEF step, sums, all
<1>9. (CHOOSE g : g = sums(g)) = sums(CHOOSE g : g = sums(g))
  BY <1>4, <1>8
<1>10. R!GetLikeCount = Cardinality(all)
  BY <1>4, <1>5, <1>8, <1>9 DEF all
<1>11. Cardinality(all) \in Nat /\ (all # {} => Cardinality(all) # 0)
  BY <1>6, FS_CardinalityType, FS_EmptySet
<1> QED
  BY <1>7, <1>10, <1>11

LEMMA CommentsCounted ==
    /\ R!GetComments \in SUBSET R!Comments
    /\ R!GetCommentCount \in Nat /\ R!AttachedCount(0, R!GetComments) \in Nat
<1>1. IsFiniteSet(R!Comments)
  <2>1. MaxComments \in Int /\ 1 \in Int
    BY ReactionAssumption
  <2> QED
    BY <2>1, FS_Interval DEF R!Comments
<1>2. R!GetComments \in SUBSET R!Comments
  BY DEF R!GetComments
<1>3. Cardinality(R!GetComments) \in Nat
  BY <1>1, <1>2, FS_Subset, FS_CardinalityType
<1> QED
  BY <1>2, <1>3, SameCardinality DEF R!GetCommentCount, R!AttachedCount

-----------------------------------------------------------------------------
(* Reactions: the steps                                                    *)

\* An unlike that was decided on leaves the member without a like.
Unliked == \A t \in Taps : (tap[t] = "unlike" /\ tap'[t] = "idle") => ~R!HasUserLiked(TapOwner[t])'

\* Writing the rows of one member.
LEMMA RowsWritten ==
    ASSUME LikeTypes, NEW m \in Members, NEW rows, likes' = [likes EXCEPT ![m] = rows], IsFiniteSet(DOMAIN rows)
    PROVE  /\ likes' = [n \in Members |-> likes'[n]] /\ likes'[m] = rows
           /\ \A n \in Members : IsFiniteSet(R!Rows(n)')
<1>1. likes = [n \in Members |-> likes[n]]
  BY DEF LikeTypes
<1>2. likes'[m] = rows /\ \A n \in Members : n # m => likes'[n] = likes[n]
  BY <1>1
<1>3. likes' = [n \in Members |-> likes'[n]]
  BY <1>1
<1>4. \A n \in Members : IsFiniteSet(R!Rows(n)')
  BY <1>2 DEF LikeTypes, R!Rows
<1> QED
  BY <1>2, <1>3, <1>4

LEMMA TapStep ==
    ASSUME LikeTypes, NEW t \in Taps, R!ReadLiked(t) \/ R!LookupRow(t) \/ R!ToggleLike(t)
    PROVE  LikeTypes' /\ Unliked
<1> DEFINE m == TapOwner[t]
<1>1. m \in Members
  BY ReactionAssumption
<1>2. CASE R!ReadLiked(t)
  <2>1. /\ UNCHANGED likes /\ tap[t] = "idle"
        /\ \E pc \in {"unlike", "lookup"} : tap' = [tap EXCEPT ![t] = pc]
    BY <1>2 DEF R!ReadLiked, R!SetTap
  <2> QED
    BY <2>1 DEF LikeTypes, Unliked, R!Rows
<1>3. CASE R!LookupRow(t)
  <2>1. /\ UNCHANGED likes /\ tap[t] = "lookup"
        /\ \E pc \in {"relike", "insert"} : tap' = [tap EXCEPT ![t] = pc]
    BY <1>3 DEF R!LookupRow, R!SetTap
  <2> QED
    BY <2>1 DEF LikeTypes, Unliked, R!Rows
<1>4. CASE R!ToggleLike(t)
  <2>1. PICK rows : /\ likes' = [likes EXCEPT ![m] = rows]
                    /\ \/ tap[t] = "unlike" /\ rows = [k \in R!Rows(m) |-> FALSE]
                       \/ tap[t] # "unlike" /\ DOMAIN rows = R!Rows(m)
                       \/ tap[t] # "unlike" /\ DOMAIN rows = 1..(R!Cardinality(R!Rows(m)) + 1)
    BY <1>4 DEF R!ToggleLike, R!SetLikeOpenByUser, R!InsertLike
  <2>2. tap' = [tap EXCEPT ![t] = "idle"]
    BY <1>4 DEF R!ToggleLike, R!SetTap
  <2>3. IsFiniteSet(DOMAIN rows)
    <3>1. IsFiniteSet(R!Rows(m)) /\ Cardinality(R!Rows(m)) \in Nat
      BY <1>1, FS_CardinalityType DEF LikeTypes
    <3>2. R!Cardinality(R!Rows(m)) + 1 \in Int /\ 1 \in Int
      BY <3>1, SameCardinality
    <3>3. IsFiniteSet(1..(R!Cardinality(R!Rows(m)) + 1))
      BY <3>2, FS_Interval
    <3> QED
      BY <2>1, <3>1, <3>3
  <2> HIDE DEF m
  <2>4. /\ likes' = [n \in Members |-> likes'[n]] /\ likes'[m] = rows
        /\ \A n \in Members : IsFiniteSet(R!Rows(n)')
    BY <1>1, <2>1, <2>3, RowsWritten
  <2>5. LikeTypes'
    BY <2>2, <2>4 DEF LikeTypes
  <2>6. tap[t] = "unlike" => ~R!HasUserLiked(m)'
    BY <2>1, <2>4 DEF R!HasUserLiked, R!Rows
  <2>7. \A s \in Taps : s # t => tap'[s] = tap[s]
    BY <2>2 DEF LikeTypes
  <2> QED
    BY <2>5, <2>6, <2>7 DEF Unliked, m
<1> QED
  BY <1>2, <1>3, <1>4

LEMMA LikesErased ==
    ASSUME LikeTypes, NEW m \in Members, R!EraseMember(m)
    PROVE  LikeTypes' /\ Unliked
<1>1. likes' = [likes EXCEPT ![m] = <<>>] /\ UNCHANGED tap
  BY DEF R!EraseMember
<1>2. IsFiniteSet(DOMAIN <<>>)
  <2>1. DOMAIN <<>> = {}
    OBVIOUS
  <2> QED
    BY <2>1, FS_EmptySet
<1>3. /\ likes' = [n \in Members |-> likes'[n]]
      /\ \A n \in Members : IsFiniteSet(R!Rows(n)')
  BY <1>1, <1>2, RowsWritten
<1> QED
  BY <1>1, <1>3 DEF LikeTypes, Unliked

\* Every view is counted, since none has read or shows a count that is not there.
LEMMA ViewsAreCounted == ViewInv => R!EveryViewCounts
BY DEF ViewInv, SoundView, R!EveryViewCounts

LEMMA SoundStays ==
    ASSUME NEW n \in Nat, NEW k \in Nat, n <= k, NEW f, SoundView(f, n)
    PROVE  SoundView(f, k)
<1>1. f.before \in Nat /\ f.shown \in Nat
  BY DEF SoundView, Viewed
<1> QED
  BY <1>1 DEF SoundView

\* Writing the state of one view.
LEMMA ViewWritten ==
    ASSUME ViewInv, NEW v \in Views, NEW f, view' = [view EXCEPT ![v] = f],
           hits' \in {hits, hits + 1}, hits' = counted', SoundView(f, hits')
    PROVE  ViewInv'
<1>1. /\ hits \in Nat /\ hits' \in Nat /\ hits <= hits' /\ view \in [Views -> Viewed]
      /\ \A w \in Views : SoundView(view[w], hits)
  BY DEF ViewInv
<1>2. view' \in [Views -> Viewed] /\ view'[v] = f /\ \A w \in Views : w # v => view'[w] = view[w]
  <2>1. f \in Viewed
    BY DEF SoundView
  <2> QED
    BY <1>1, <2>1
<1>3. \A w \in Views : SoundView(view[w], hits')
  BY <1>1, SoundStays
<1>4. \A w \in Views : SoundView(view'[w], hits')
  BY <1>2, <1>3
<1> QED
  BY <1>1, <1>2, <1>4 DEF ViewInv

LEMMA ViewStep ==
    ASSUME ViewInv, NEW v \in Views,
           R!GetPublishedNoticeHit(v) \/ R!GetNoticeDetail(v) \/ R!RecordView(v)
    PROVE  ViewInv'
<1>0. hits \in Nat /\ hits = counted /\ view[v] \in Viewed /\ SoundView(view[v], hits)
  BY DEF ViewInv
<1>1. ASSUME NEW of \in {"expand", "page"}, NEW shown \in Nat,
             view' = [view EXCEPT ![v] = [pc |-> "count", of |-> of, before |-> hits, shown |-> shown]],
             UNCHANGED <<hits, counted>>
      PROVE  ViewInv'
  <2> DEFINE f == [pc |-> "count", of |-> of, before |-> hits, shown |-> shown]
  <2>1. f \in Viewed /\ f.pc = "count" /\ f.before = hits
    BY <1>0 DEF Viewed
  <2>2. view' = [view EXCEPT ![v] = f]
    BY <1>1
  <2> HIDE DEF f
  <2>3. SoundView(f, hits')
    BY <1>0, <1>1, <2>1 DEF SoundView
  <2> QED
    BY <1>0, <1>1, <2>2, <2>3, ViewWritten
<1>2. CASE R!GetPublishedNoticeHit(v) \/ R!GetNoticeDetail(v)
  BY <1>0, <1>1, <1>2 DEF R!GetPublishedNoticeHit, R!GetNoticeDetail, R!SetView
<1>3. CASE view[v].pc = "count" /\ R!RecordView(v)
  <2> DEFINE f == [view[v] EXCEPT !.pc = IF view[v].of = "page" THEN "done" ELSE "answer"]
  <2>1. view' = [view EXCEPT ![v] = f] /\ hits' = hits + 1 /\ counted' = counted + 1
    BY <1>3 DEF R!RecordView, R!SetView, R!IncrementHit
  <2>2. f \in Viewed /\ f.before = view[v].before /\ (f.pc = "done" => f.of = "page")
    BY <1>0 DEF Viewed
  <2>3. view[v].before \in Nat /\ view[v].before <= hits
    BY <1>0 DEF SoundView, Viewed
  <2> HIDE DEF f
  <2>4. SoundView(f, hits')
    BY <1>0, <2>1, <2>2, <2>3 DEF SoundView
  <2> QED
    BY <1>0, <2>1, <2>4, ViewWritten
<1>4. CASE view[v].pc = "answer" /\ R!RecordView(v)
  <2> DEFINE f == [view[v] EXCEPT !.pc = IF postOpen THEN "done" ELSE "gone", !.shown = hits]
  <2>1. view' = [view EXCEPT ![v] = f] /\ hits' = hits /\ counted' = counted
    BY <1>4 DEF R!RecordView, R!SetView
  <2>2. f \in Viewed /\ f.before = view[v].before /\ f.shown = hits /\ f.pc # "answer"
    BY <1>0 DEF Viewed
  <2>3. view[v].before \in Nat /\ view[v].before < hits
    BY <1>0, <1>4 DEF SoundView, Viewed
  <2> HIDE DEF f
  <2>4. hits \in (f.before + 1)..hits
    BY <1>0, <2>2, <2>3
  <2>5. SoundView(f, hits')
    BY <1>0, <2>1, <2>2, <2>3, <2>4 DEF SoundView
  <2> QED
    BY <1>0, <2>1, <2>5, ViewWritten
<1> QED
  BY <1>2, <1>3, <1>4 DEF R!RecordView

LEMMA PageStep ==
    ASSUME LikeTypes, PageInv, NEW m \in Members, R!FeedItem(m) \/ R!HeroWithDetail(m) \/ R!AttachToFeed(m)
    PROVE  PageInv'
<1> DEFINE Item == [pc : {"idle", "attach", "shown"}, likeCnt : Nat, liked : BOOLEAN,
                    commentCnt : Nat, comments : SUBSET R!Comments]
<1>0. page \in [Members -> Item] /\ hero \in [cached : Counts \cup {Idle}, read : Counts \cup {Idle}]
  BY DEF PageInv, PageTypes
<1>1. /\ R!GetLikeCount \in Nat /\ R!HasUserLiked(m) \in BOOLEAN
      /\ R!HasUserLiked(m) => R!GetLikeCount > 0
  BY LikesCounted DEF R!HasUserLiked
<1>2. /\ R!GetComments \in SUBSET R!Comments /\ R!GetCommentCount \in Nat
      /\ R!AttachedCount(m, R!GetComments) \in Nat
      /\ R!AttachedCount(m, R!GetComments) = R!Cardinality(R!GetComments)
  BY CommentsCounted DEF R!AttachedCount
<1>3. PICK f \in Item :
        /\ page' = [page EXCEPT ![m] = f] /\ UNCHANGED hero
        /\ f.liked => f.likeCnt > 0
        /\ f.pc = "shown" => f.commentCnt = R!Cardinality(f.comments)
  <2>1. ASSUME NEW n \in Nat,
               page' = [page EXCEPT ![m] = [pc |-> "attach", likeCnt |-> R!GetLikeCount,
                          liked |-> R!HasUserLiked(m), commentCnt |-> n, comments |-> {}]],
               UNCHANGED hero
        PROVE  \E f \in Item :
                 /\ page' = [page EXCEPT ![m] = f] /\ UNCHANGED hero
                 /\ f.liked => f.likeCnt > 0
                 /\ f.pc = "shown" => f.commentCnt = R!Cardinality(f.comments)
    <3> DEFINE f == [pc |-> "attach", likeCnt |-> R!GetLikeCount,
                     liked |-> R!HasUserLiked(m), commentCnt |-> n, comments |-> {}]
    <3>1. f \in Item /\ f.pc = "attach" /\ (f.liked <=> R!HasUserLiked(m)) /\ f.likeCnt = R!GetLikeCount
      BY <1>1
    <3>2. page' = [page EXCEPT ![m] = f] /\ UNCHANGED hero
      BY <2>1
    <3> HIDE DEF f, Item
    <3>3. f.pc # "shown" /\ (f.liked => f.likeCnt > 0)
      BY <1>1, <3>1
    <3> QED
      BY <3>1, <3>2, <3>3
  <2>2. CASE R!FeedItem(m)
    BY <1>2, <2>1, <2>2 DEF R!FeedItem
  <2>3. CASE R!HeroWithDetail(m)
    <3>1. hero.cached.comments \in Nat
      BY <1>0, <2>3 DEF R!HeroWithDetail, Counts
    <3> QED
      BY <2>1, <2>3, <3>1 DEF R!HeroWithDetail, R!HeroLikeCount
  <2>4. CASE R!AttachToFeed(m)
    <3> DEFINE f == [page[m] EXCEPT !.pc = "shown", !.comments = R!GetComments,
                                    !.commentCnt = R!AttachedCount(m, R!GetComments)]
    <3>1. page' = [page EXCEPT ![m] = f] /\ UNCHANGED hero
      BY <2>4 DEF R!AttachToFeed
    <3>2. /\ f \in Item /\ f.liked = page[m].liked /\ f.likeCnt = page[m].likeCnt
          /\ f.commentCnt = R!AttachedCount(m, R!GetComments) /\ f.comments = R!GetComments
      BY <1>0, <1>2
    <3>3. page[m].liked => page[m].likeCnt > 0
      BY DEF PageInv, R!LikedIsCounted
    <3> HIDE DEF f, Item
    <3> QED
      BY <1>2, <3>1, <3>2, <3>3
  <2> QED
    BY <2>2, <2>3, <2>4
<1> HIDE DEF Item
<1>4. /\ page' \in [Members -> Item] /\ page'[m] = f
      /\ \A n \in Members : n # m => page'[n] = page[n]
  BY <1>0, <1>3
<1>5. PageTypes'
  BY <1>0, <1>3, <1>4 DEF PageTypes, Item
<1>6. R!DetailAgrees' /\ R!LikedIsCounted'
  <2>1. \A n \in Members : /\ page'[n].pc = "shown" => page'[n].commentCnt = R!Cardinality(page'[n].comments)
                           /\ page'[n].liked => page'[n].likeCnt > 0
    <3> TAKE n \in Members
    <3>1. CASE n = m
      BY <1>3, <1>4, <3>1
    <3>2. CASE n # m
      BY <1>4, <3>2 DEF PageInv, R!DetailAgrees, R!LikedIsCounted
    <3> QED
      BY <3>1, <3>2
  <2> QED
    BY <2>1 DEF R!DetailAgrees, R!LikedIsCounted
<1> QED
  BY <1>5, <1>6 DEF PageInv

LEMMA HeroStep ==
    ASSUME LikeTypes, PageInv,
           \/ R!GetHero
           \/ \E o \in Moderators : \E status, note : R!Resolve(o, status, note)
    PROVE  PageInv'
<1> DEFINE Heroes == [cached : Counts \cup {Idle}, read : Counts \cup {Idle}]
<1>0. hero \in Heroes
  BY DEF PageInv, PageTypes
<1>1. UNCHANGED page
  BY DEF R!GetHero, R!Resolve
<1>2. hero' \in Heroes
  <2>1. CASE R!GetHero
    <3>1. [likes |-> R!GetLikeCount, comments |-> R!GetCommentCount] \in Counts
      BY LikesCounted, CommentsCounted DEF Counts
    <3> DEFINE new == [likes |-> R!GetLikeCount, comments |-> R!GetCommentCount]
    <3>2. \/ hero' = [hero EXCEPT !.read = new]
          \/ hero.read # Idle /\ hero' = [cached |-> hero.read, read |-> Idle]
          \/ hero' = [hero EXCEPT !.cached = Idle]
      BY <2>1 DEF R!GetHero
    <3> HIDE DEF new
    <3> QED
      BY <1>0, <3>1, <3>2 DEF new
  <2>2. CASE \E o \in Moderators : \E status, note : R!Resolve(o, status, note)
    <3>1. hero' = hero \/ hero' = [hero EXCEPT !.cached = Idle]
      BY <2>2 DEF R!Resolve
    <3> QED
      BY <1>0, <3>1
  <2> QED
    BY <2>1, <2>2
<1>3. PageTypes'
  BY <1>1, <1>2 DEF PageInv, PageTypes
<1> QED
  BY <1>1, <1>3 DEF PageInv, R!DetailAgrees, R!LikedIsCounted

\* Whatever else happens to the notice leaves these alone.
LEMMA LikesStay == ASSUME LikeTypes, UNCHANGED <<likes, tap>> PROVE LikeTypes' /\ Unliked
BY DEF LikeTypes, Unliked, R!Rows

LEMMA ViewsStay == ASSUME ViewInv, UNCHANGED <<hits, view, counted>> PROVE ViewInv'
BY DEF ViewInv

LEMMA PagesStay == ASSUME PageInv, UNCHANGED <<hero, page>> PROVE PageInv'
BY DEF PageInv, PageTypes, R!DetailAgrees, R!LikedIsCounted

LEMMA ReactionStep ==
    ASSUME ReactionInv, [R!ReactionNext]_(R!reactionVars)
    PROVE  ReactionInv' /\ Unliked
<1>0. LikeTypes /\ ViewInv /\ PageInv
  BY DEF ReactionInv
<1>1. ASSUME NEW t \in Taps, R!ReadLiked(t) \/ R!LookupRow(t) \/ R!ToggleLike(t)
      PROVE  ReactionInv' /\ Unliked
  <2>1. UNCHANGED <<hits, view, counted, hero, page>>
    BY <1>1 DEF R!ReadLiked, R!LookupRow, R!ToggleLike, R!LikeFrame, R!viewVars, R!feedVars
  <2> QED
    BY <1>0, <1>1, <2>1, TapStep, ViewsStay, PagesStay DEF ReactionInv
<1>2. ASSUME NEW v \in Views, R!GetPublishedNoticeHit(v) \/ R!GetNoticeDetail(v) \/ R!RecordView(v)
      PROVE  ReactionInv' /\ Unliked
  <2>1. UNCHANGED <<likes, tap, hero, page>>
    BY <1>2 DEF R!GetPublishedNoticeHit, R!GetNoticeDetail, R!RecordView, R!likeVars, R!feedVars
  <2> QED
    BY <1>0, <1>2, <2>1, LikesStay, ViewStep, PagesStay DEF ReactionInv
<1>3. CASE R!GetHero
  <2>1. UNCHANGED <<likes, tap, hits, view, counted>>
    BY <1>3 DEF R!GetHero, R!likeVars, R!viewVars
  <2> QED
    BY <1>0, <1>3, <2>1, LikesStay, ViewsStay, HeroStep DEF ReactionInv
<1>4. ASSUME NEW m \in Members, R!FeedItem(m) \/ R!HeroWithDetail(m) \/ R!AttachToFeed(m)
      PROVE  ReactionInv' /\ Unliked
  <2>1. UNCHANGED <<likes, tap, hits, view, counted>>
    BY <1>4 DEF R!FeedItem, R!HeroWithDetail, R!AttachToFeed, R!likeVars, R!viewVars
  <2> QED
    BY <1>0, <1>4, <2>1, LikesStay, ViewsStay, PageStep DEF ReactionInv
<1>5. ASSUME NEW m \in Members, R!EraseMember(m)
      PROVE  ReactionInv' /\ Unliked
  <2>1. UNCHANGED <<hits, view, counted, hero, page>>
    BY <1>5 DEF R!EraseMember, R!viewVars, R!feedVars
  <2> QED
    BY <1>0, <1>5, <2>1, LikesErased, ViewsStay, PagesStay DEF ReactionInv
<1>6. ASSUME NEW o \in Moderators, NEW status, NEW note, R!Resolve(o, status, note)
      PROVE  ReactionInv' /\ Unliked
  <2>1. UNCHANGED <<likes, tap, hits, view, counted>>
    BY <1>6 DEF R!Resolve, R!likeVars, R!viewVars
  <2> QED
    BY <1>0, <1>6, <2>1, LikesStay, ViewsStay, HeroStep DEF ReactionInv
<1>7. ASSUME UNCHANGED <<likes, tap, hits, view, counted, hero, page>>
      PROVE  ReactionInv' /\ Unliked
  BY <1>0, <1>7, LikesStay, ViewsStay, PagesStay DEF ReactionInv
<1>8. ASSUME NEW m \in Members,
             \/ R!CreateReport(m) \/ R!AddComment(m)
             \/ \E text \in {"", "text", "long"} : R!BeginComment(m, text)
             \/ \E c \in R!Comments :
                  R!DeleteComment(m, c) \/ \E reason \in {"spam", "none"} : R!BeginReport(m, c, reason)
      PROVE  ReactionInv' /\ Unliked
  BY <1>7, <1>8 DEF R!CreateReport, R!BeginComment, R!AddComment, R!DeleteComment, R!BeginReport,
                    R!likeVars, R!viewVars, R!feedVars
<1>9. CASE R!ClosePost \/ (\E o \in Moderators, r \in R!Reports : R!BeginResolve(o, r))
             \/ UNCHANGED R!reactionVars
  BY <1>7, <1>9 DEF R!ClosePost, R!BeginResolve, R!reactionVars, R!likeVars, R!viewVars, R!feedVars
<1> QED
  BY <1>1, <1>2, <1>3, <1>4, <1>5, <1>6, <1>8, <1>9 DEF R!ReactionNext

LEMMA ReactionInitially == R!ReactionInit => ReactionInv
<1> SUFFICES ASSUME R!ReactionInit PROVE ReactionInv
  OBVIOUS
<1>1. LikeTypes
  <2>1. \A m \in Members : R!Rows(m) = {}
    <3>1. DOMAIN <<>> = {}
      OBVIOUS
    <3>2. \A m \in Members : likes[m] = <<>>
      BY DEF R!ReactionInit
    <3> QED
      BY <3>1, <3>2 DEF R!Rows
  <2>2. \A m \in Members : IsFiniteSet(R!Rows(m))
    BY <2>1, FS_EmptySet
  <2>3. likes = [m \in Members |-> likes[m]]
    BY DEF R!ReactionInit
  <2>4. tap \in [Taps -> {"idle", "unlike", "lookup", "relike", "insert"}]
    BY DEF R!ReactionInit
  <2> QED
    BY <2>2, <2>3, <2>4 DEF LikeTypes
<1>2. ViewInv
  <2> DEFINE idle == [pc |-> "idle", of |-> "", before |-> 0, shown |-> 0]
  <2>1. hits = 0 /\ counted = 0 /\ view = [v \in Views |-> idle]
    BY DEF R!ReactionInit
  <2>2. idle \in Viewed /\ idle.pc = "idle" /\ idle.before = 0
    BY DEF Viewed
  <2> HIDE DEF idle
  <2>3. SoundView(idle, 0)
    BY <2>2 DEF SoundView
  <2> QED
    BY <2>1, <2>2, <2>3 DEF ViewInv
<1>3. PageInv
  BY DEF R!ReactionInit, PageInv, PageTypes, R!DetailAgrees, R!LikedIsCounted
<1> QED
  BY <1>1, <1>2, <1>3 DEF ReactionInv

(***************************************************************************)
(* What a page says of a notice agrees with the rows beneath it, whatever  *)
(* taps, views and comments overlap, and an unlike leaves no like behind   *)
(* (feed_service.go, like_repo.go and feed_repo.go).                       *)
(***************************************************************************)
THEOREM ReactionsAgreeAlone == R!ReactionSpec => R!ReactionsAgree
<1>1. ReactionInv /\ [R!ReactionNext]_(R!reactionVars) => ReactionInv'
  BY ReactionStep
<1>2. ReactionInv /\ [R!ReactionNext]_(R!reactionVars) =>
        [\A t \in Taps : (tap[t] = "unlike" /\ tap'[t] = "idle") => ~R!HasUserLiked(TapOwner[t])']_(R!reactionVars)
  BY ReactionStep DEF Unliked
<1>3. ReactionInv => R!EveryViewCounts /\ R!DetailAgrees /\ R!LikedIsCounted
  BY ViewsAreCounted DEF ReactionInv, PageInv
<1> QED
  BY <1>1, <1>2, <1>3, ReactionInitially, PTL DEF R!ReactionSpec, R!ReactionsAgree, R!UnlikeClearsEveryRow

-----------------------------------------------------------------------------
(* Moderation: the inductive invariant                                     *)

Kept == [author : Members, open : BOOLEAN]
Reported ==
    [on : R!Comments, by : Members, about : Members, status : {"open", "removed", "dismissed"},
     note : Notes \cup {""}, mod : Moderators \cup {Idle}]
Cases == [report : R!Reports, on : R!Comments]

CaseTypes ==
    /\ active \in [Members -> BOOLEAN]
    /\ comment \in [R!Comments -> Kept \cup {NoComment}]
    /\ report \in [R!Reports -> Reported \cup {NoReport, GoneReport}]
    /\ filing \in [Members -> R!Comments \cup {Idle}]
    /\ deciding \in [Moderators -> Cases \cup {Idle}]
    /\ writing \subseteq Members

\* What is shown was written by a member who is still there, or landed late.
ShownByActive ==
    \A c \in R!Comments : comment[c] # NoComment /\ comment[c].open
                         => active[comment[c].author] \/ c \in late

\* A report is on a comment that exists, open or not.
ReportsHaveComments == \A r \in R!Filed : comment[report[r].on] # NoComment

\* A moderator's request knows the comment of its report, for as long as there is one.
CasesMatch ==
    \A o \in Moderators : deciding[o] # Idle =>
       /\ report[deciding[o].report] # NoReport
       /\ deciding[o].report \in R!Filed => report[deciding[o].report].on = deciding[o].on

ModerationInv ==
    /\ CaseTypes /\ ShownByActive /\ ReportsHaveComments /\ CasesMatch
    /\ R!RemovalSettlesEveryReport /\ R!NoReportOfErased

cases == <<active, comment, report, filing, deciding, writing, late>>

-----------------------------------------------------------------------------
(* Moderation: reports and comments                                        *)

\* What a filed report is.
LEMMA FiledReports ==
    ASSUME CaseTypes, NEW r
    PROVE  /\ r \in R!Filed <=> r \in R!Reports /\ report[r] \in Reported
           /\ r \in R!Filed => /\ report[r].on \in R!Comments /\ report[r].by \in Members
                               /\ report[r].about \in Members
                               /\ report[r].status \in {"open", "removed", "dismissed"}
<1>1. r \in R!Reports => report[r] \in Reported \cup {NoReport, GoneReport}
  BY DEF CaseTypes
<1>2. NoReport \notin Reported /\ GoneReport \notin Reported
  BY AbsenceAssumption DEF Reported
<1>3. r \in R!Filed <=> r \in R!Reports /\ report[r] \in Reported
  BY <1>1, <1>2 DEF R!Filed
<1>4. report[r] \in Reported => /\ report[r].on \in R!Comments /\ report[r].by \in Members
                                /\ report[r].about \in Members
                                /\ report[r].status \in {"open", "removed", "dismissed"}
  BY DEF Reported
<1> QED
  BY <1>3, <1>4

\* An absent comment is none that is kept.
LEMMA KeptComments ==
    ASSUME CaseTypes, NEW c \in R!Comments, comment[c] # NoComment
    PROVE  comment[c] \in Kept /\ comment[c].author \in Members /\ comment[c].open \in BOOLEAN
BY DEF CaseTypes, Kept

\* A step keeps every decision, or an erasure takes the report away.
Final == \A r \in R!Filed : report[r].status # "open" => report'[r] \in {report[r], GoneReport}

\* A comment past the session's check is not there yet.
LEMMA WritingStep ==
    ASSUME ModerationInv, NEW m \in Members, NEW text, R!BeginComment(m, text)
    PROVE  ModerationInv' /\ Final
<1>1. writing' = writing \cup {m} /\ UNCHANGED <<active, comment, report, filing, deciding, late>>
  BY DEF R!BeginComment
<1>2. R!Filed' = R!Filed
  BY <1>1 DEF R!Filed
<1> QED
  BY <1>1, <1>2 DEF ModerationInv, CaseTypes, CasesMatch, ShownByActive, ReportsHaveComments,
                    R!RemovalSettlesEveryReport, R!NoReportOfErased, R!GetComments, Final

LEMMA CommentStep ==
    ASSUME ModerationInv, NEW m \in Members, R!AddComment(m)
    PROVE  ModerationInv' /\ Final
<1>1. PICK c \in R!Comments :
        /\ comment[c] = NoComment /\ comment' = [comment EXCEPT ![c] = [author |-> m, open |-> TRUE]]
        /\ late' = IF active[m] THEN late ELSE late \cup {c}
  BY DEF R!AddComment, R!InsertComment
<1>2. /\ UNCHANGED <<active, report, filing, deciding>> /\ writing' \subseteq writing
      /\ late \subseteq late' /\ (active[m] \/ c \in late')
  BY <1>1 DEF R!AddComment
<1>3. /\ comment'[c] = [author |-> m, open |-> TRUE] /\ comment'[c] # NoComment
      /\ \A k \in R!Comments : k # c => comment'[k] = comment[k]
      /\ comment' \in [R!Comments -> Kept \cup {NoComment}]
  <2>1. [author |-> m, open |-> TRUE] \in Kept
    BY DEF Kept
  <2>2. NoComment \notin Kept
    BY AbsenceAssumption DEF Kept
  <2>3. comment \in [R!Comments -> Kept \cup {NoComment}]
    BY DEF ModerationInv, CaseTypes
  <2> DEFINE new == [author |-> m, open |-> TRUE]
  <2> HIDE DEF new
  <2>4. comment' = [comment EXCEPT ![c] = new] /\ new \in Kept
    BY <1>1, <2>1 DEF new
  <2>5. comment'[c] = new
    BY <2>3, <2>4
  <2>6. /\ \A k \in R!Comments : k # c => comment'[k] = comment[k]
        /\ comment' \in [R!Comments -> Kept \cup {NoComment}]
    BY <2>3, <2>4
  <2> QED
    BY <2>2, <2>4, <2>5, <2>6 DEF new
<1>4. CaseTypes' /\ R!Filed' = R!Filed
  BY <1>2, <1>3 DEF ModerationInv, CaseTypes, R!Filed
<1>5. ShownByActive'
  BY <1>2, <1>3 DEF ModerationInv, ShownByActive
<1>6. \A r \in R!Filed : report[r].on # c /\ report[r].on \in R!Comments
  BY <1>1, FiledReports DEF ModerationInv, ReportsHaveComments
<1>7. ReportsHaveComments' /\ CasesMatch'
  BY <1>2, <1>3, <1>4, <1>6 DEF ModerationInv, ReportsHaveComments, CasesMatch
<1>8. R!RemovalSettlesEveryReport'
  BY <1>2, <1>3, <1>4, <1>6 DEF ModerationInv, R!RemovalSettlesEveryReport, R!GetComments
<1>9. R!NoReportOfErased' /\ Final
  BY <1>2, <1>4 DEF ModerationInv, R!NoReportOfErased, Final
<1> QED
  BY <1>4, <1>5, <1>7, <1>8, <1>9 DEF ModerationInv

\* A comment that is closed stays one, with its author.
LEMMA ClosedComment ==
    ASSUME ModerationInv, NEW c \in R!Comments, comment[c] # NoComment,
           comment' = [comment EXCEPT ![c].open = FALSE]
    PROVE  /\ comment' \in [R!Comments -> Kept \cup {NoComment}]
           /\ comment'[c] # NoComment /\ ~comment'[c].open
           /\ \A k \in R!Comments : k # c => comment'[k] = comment[k]
<1>1. /\ comment \in [R!Comments -> Kept \cup {NoComment}]
      /\ comment[c] \in Kept /\ NoComment \notin Kept
  BY AbsenceAssumption, KeptComments DEF ModerationInv, CaseTypes, Kept
<1> DEFINE closed == [comment[c] EXCEPT !.open = FALSE]
<1>2. closed \in Kept /\ ~closed.open
  BY <1>1 DEF Kept
<1>3. comment' = [comment EXCEPT ![c] = closed]
  OBVIOUS
<1> HIDE DEF closed
<1> QED
  BY <1>1, <1>2, <1>3

LEMMA DeletionStep ==
    ASSUME ModerationInv, NEW m \in Members, NEW c \in R!Comments, R!DeleteComment(m, c)
    PROVE  ModerationInv' /\ Final
<1>1. /\ comment[c] # NoComment /\ comment' = [comment EXCEPT ![c].open = FALSE]
      /\ UNCHANGED <<active, report, filing, deciding, writing, late>>
  BY DEF R!DeleteComment, R!SoftDeleteComment, R!caseVars
<1>2. /\ comment' \in [R!Comments -> Kept \cup {NoComment}]
      /\ comment'[c] # NoComment /\ ~comment'[c].open
      /\ \A k \in R!Comments : k # c => comment'[k] = comment[k]
  BY <1>1, ClosedComment
<1>3. CaseTypes' /\ R!Filed' = R!Filed
  BY <1>1, <1>2 DEF ModerationInv, CaseTypes, R!Filed
<1>4. ShownByActive'
  BY <1>1, <1>2 DEF ModerationInv, ShownByActive
<1>5. \A r \in R!Filed : report[r].on \in R!Comments
  BY FiledReports DEF ModerationInv
<1>6. ReportsHaveComments' /\ CasesMatch'
  BY <1>1, <1>2, <1>3, <1>5 DEF ModerationInv, ReportsHaveComments, CasesMatch
<1>7. R!RemovalSettlesEveryReport'
  BY <1>1, <1>2, <1>3, <1>5 DEF ModerationInv, R!RemovalSettlesEveryReport, R!GetComments
<1>8. R!NoReportOfErased' /\ Final
  BY <1>1, <1>3 DEF ModerationInv, R!NoReportOfErased, Final
<1> QED
  BY <1>3, <1>4, <1>6, <1>7, <1>8 DEF ModerationInv

\* Requests that are past their lookup.
LEMMA LookupStep ==
    ASSUME ModerationInv,
           \/ \E m \in Members, c \in R!Comments : \E reason : R!BeginReport(m, c, reason)
           \/ \E o \in Moderators, r \in R!Reports : R!BeginResolve(o, r)
    PROVE  ModerationInv' /\ Final
<1>1. UNCHANGED <<active, comment, report, writing, late>>
  BY DEF R!BeginReport, R!BeginResolve
<1>2. CaseTypes' /\ CasesMatch'
  <2>1. ASSUME NEW m \in Members, NEW c \in R!Comments, NEW reason, R!BeginReport(m, c, reason)
        PROVE  CaseTypes' /\ CasesMatch'
    <3>1. filing' = [filing EXCEPT ![m] = c] /\ UNCHANGED deciding
      BY <2>1 DEF R!BeginReport
    <3> QED
      BY <1>1, <3>1 DEF ModerationInv, CaseTypes, CasesMatch, R!Filed
  <2>2. ASSUME NEW o \in Moderators, NEW r \in R!Reports, R!BeginResolve(o, r)
        PROVE  CaseTypes' /\ CasesMatch'
    <3>1. /\ r \in R!Filed /\ UNCHANGED filing
          /\ deciding' = [deciding EXCEPT ![o] = [report |-> r, on |-> report[r].on]]
      BY <2>2 DEF R!BeginResolve, R!List
    <3>2. report[r].on \in R!Comments /\ report[r] # NoReport
      BY <3>1, FiledReports DEF ModerationInv, R!Filed
    <3> DEFINE new == [report |-> r, on |-> report[r].on]
    <3>3. new \in Cases /\ new.report = r /\ new.on = report[r].on
      BY <3>2 DEF Cases
    <3> HIDE DEF new
    <3>4. deciding' = [deciding EXCEPT ![o] = new]
      BY <3>1 DEF new
    <3>5. /\ deciding' \in [Moderators -> Cases \cup {Idle}] /\ deciding'[o] = new
          /\ \A k \in Moderators : k # o => deciding'[k] = deciding[k]
      BY <3>3, <3>4 DEF ModerationInv, CaseTypes
    <3> QED
      BY <1>1, <3>1, <3>2, <3>3, <3>5 DEF ModerationInv, CaseTypes, CasesMatch, R!Filed
  <2> QED
    BY <2>1, <2>2
<1> QED
  BY <1>1, <1>2 DEF ModerationInv, ShownByActive, ReportsHaveComments, R!RemovalSettlesEveryReport,
                    R!NoReportOfErased, R!GetComments, R!Filed, Final

\* A report that was under way finds its comment shown and both members there,
\* under the locks, or is not made.
LEMMA FilingStep ==
    ASSUME ModerationInv, NEW m \in Members, R!CreateReport(m)
    PROVE  ModerationInv' /\ Final
<1> DEFINE c == filing[m]
<1>1. /\ c # Idle /\ filing' = [filing EXCEPT ![m] = Idle]
      /\ UNCHANGED <<active, comment, deciding, writing, late>>
  BY DEF R!CreateReport
<1>2. c \in R!Comments /\ filing' \in [Members -> R!Comments \cup {Idle}]
  BY <1>1 DEF ModerationInv, CaseTypes
<1>3. CASE UNCHANGED report
  <2>1. R!Filed' = R!Filed
    BY <1>3 DEF R!Filed
  <2> QED
    BY <1>1, <1>2, <1>3, <2>1
       DEF ModerationInv, CaseTypes, CasesMatch, ShownByActive, ReportsHaveComments,
           R!RemovalSettlesEveryReport, R!NoReportOfErased, R!GetComments, Final
<1>4. CASE ~UNCHANGED report
  <2>1. /\ active[m] /\ comment[c] # NoComment /\ comment[c].open
        /\ \E r \in R!Reports :
             /\ report[r] = NoReport
             /\ report' = [report EXCEPT ![r] = [on |-> c, by |-> m, about |-> comment[c].author,
                                                 status |-> "open", note |-> "", mod |-> Idle]]
    BY <1>4 DEF R!CreateReport, R!ReporterStays, R!CapturedEvidence, R!InsertReport
  <2>2. PICK r \in R!Reports :
          /\ report[r] = NoReport
          /\ report' = [report EXCEPT ![r] = [on |-> c, by |-> m, about |-> comment[c].author,
                                              status |-> "open", note |-> "", mod |-> Idle]]
    BY <2>1
  <2>3. comment[c].author \in Members /\ (active[comment[c].author] \/ c \in late)
    BY <1>2, <2>1, KeptComments DEF ModerationInv, ShownByActive
  <2> DEFINE new == [on |-> c, by |-> m, about |-> comment[c].author,
                     status |-> "open", note |-> "", mod |-> Idle]
  <2>4. /\ new \in Reported /\ new.on = c /\ new.by = m /\ new.about = comment[c].author
        /\ new.status = "open"
    BY <1>2, <2>3 DEF Reported
  <2>5. report' = [report EXCEPT ![r] = new]
    BY <2>2
  <2> HIDE DEF new
  <2>6. /\ report'[r] = new /\ report' \in [R!Reports -> Reported \cup {NoReport, GoneReport}]
        /\ \A q \in R!Reports : q # r => report'[q] = report[q]
    BY <2>4, <2>5 DEF ModerationInv, CaseTypes
  <2>7. CaseTypes'
    BY <1>1, <1>2, <2>6 DEF ModerationInv, CaseTypes
  <2>8. r \notin R!Filed /\ R!Filed' = R!Filed \cup {r}
    <3>1. new \notin {NoReport, GoneReport}
      BY <2>4, AbsenceAssumption DEF Reported
    <3> QED
      BY <2>2, <2>6, <3>1 DEF R!Filed
  <2>9. ShownByActive' /\ ReportsHaveComments'
    <3>1. ShownByActive'
      BY <1>1 DEF ModerationInv, ShownByActive
    <3>2. \A q \in R!Filed : q # r /\ q \in R!Reports /\ report'[q] = report[q]
      BY <2>6, <2>8 DEF R!Filed
    <3>3. \A q \in R!Filed : comment[report[q].on] # NoComment
      BY DEF ModerationInv, ReportsHaveComments
    <3>4. ASSUME NEW q \in R!Filed' PROVE comment'[report'[q].on] # NoComment
      <4>1. CASE q = r
        <5>1. report'[q].on = c
          BY <2>4, <2>6, <4>1
        <5> QED
          BY <1>1, <2>1, <5>1
      <4>2. CASE q # r
        BY <1>1, <2>8, <3>2, <3>3, <4>2
      <4> QED
        BY <4>1, <4>2
    <3> QED
      BY <3>1, <3>4 DEF ReportsHaveComments
  <2>10. CasesMatch'
    <3> SUFFICES ASSUME NEW o \in Moderators, deciding[o] # Idle
                 PROVE  /\ report'[deciding[o].report] # NoReport
                        /\ deciding[o].report \in R!Filed' =>
                             report'[deciding[o].report].on = deciding[o].on
      BY <1>1 DEF CasesMatch
    <3>1. deciding[o].report \in R!Reports /\ deciding[o].report # r
      BY <2>2 DEF ModerationInv, CaseTypes, Cases, CasesMatch
    <3> QED
      BY <2>6, <2>8, <3>1 DEF ModerationInv, CasesMatch
  <2>11. R!RemovalSettlesEveryReport'
    <3>1. R!GetComments' = R!GetComments /\ c \in R!GetComments
      BY <1>1, <1>2, <2>1 DEF R!GetComments
    <3>2. \A q \in R!Filed : q # r /\ q \in R!Reports /\ report'[q] = report[q]
      BY <2>6, <2>8 DEF R!Filed
    <3>3. \A q \in R!Filed : report[q].status = "removed" => report[q].on # c
      BY <3>1 DEF ModerationInv, R!RemovalSettlesEveryReport
    <3> QED
      BY <2>4, <2>6, <2>8, <3>1, <3>2, <3>3 DEF ModerationInv, R!RemovalSettlesEveryReport
  <2>12. R!NoReportOfErased'
    BY <1>1, <2>1, <2>3, <2>4, <2>6, <2>8 DEF ModerationInv, R!NoReportOfErased, R!Filed
  <2>13. Final
    BY <2>6, <2>8 DEF Final, R!Filed
  <2> QED
    BY <2>7, <2>9, <2>10, <2>11, <2>12, <2>13 DEF ModerationInv
<1> QED
  BY <1>3, <1>4

\* A decision closes what is open and leaves what was decided; a removal closes
\* the comment and every open report on it, under the comment's lock.
LEMMA ResolveStep ==
    ASSUME ModerationInv, NEW o \in Moderators, NEW status \in {"removed", "dismissed"}, NEW note \in Notes,
           R!Resolve(o, status, note)
    PROVE  ModerationInv' /\ Final
<1> DEFINE r == deciding[o].report
           c == deciding[o].on
<1>1. /\ deciding[o] # Idle /\ R!ResolveReport(o, status, note)
      /\ deciding' = [deciding EXCEPT ![o] = Idle] /\ UNCHANGED <<active, filing, writing, late>>
  BY DEF R!Resolve
<1>2. r \in R!Reports /\ c \in R!Comments
  BY <1>1 DEF ModerationInv, CaseTypes, Cases
<1>3. r \in R!Filed => report[r].on = c /\ comment[c] # NoComment
  BY <1>1 DEF ModerationInv, CasesMatch, ReportsHaveComments
<1>4. /\ deciding' \in [Moderators -> Cases \cup {Idle}] /\ deciding'[o] = Idle
      /\ \A k \in Moderators : k # o => deciding'[k] = deciding[k]
  BY <1>1 DEF ModerationInv, CaseTypes
\* A decided report keeps its comment and its members.
<1>5. \A q \in R!Filed :
        /\ \A s \in {"removed", "dismissed"} :
             LET d == R!Decided(q, s, note, o)
             IN  /\ d \in Reported /\ d.on = report[q].on /\ d.by = report[q].by
                 /\ d.about = report[q].about /\ d.status = s
  <2> SUFFICES ASSUME NEW q \in R!Filed, NEW s \in {"removed", "dismissed"}
               PROVE  LET d == R!Decided(q, s, note, o)
                      IN  /\ d \in Reported /\ d.on = report[q].on /\ d.by = report[q].by
                          /\ d.about = report[q].about /\ d.status = s
    OBVIOUS
  <2>1. report[q] \in Reported
    BY FiledReports DEF ModerationInv
  <2> QED
    BY <2>1 DEF Reported, R!Decided
<1>6. CASE ~R!MayDecide(r)
  <2>1. UNCHANGED <<comment, report>>
    BY <1>1, <1>6 DEF R!ResolveReport
  <2>2. R!Filed' = R!Filed
    BY <2>1 DEF R!Filed
  <2> QED
    BY <1>1, <1>4, <2>1, <2>2
       DEF ModerationInv, CaseTypes, CasesMatch, ShownByActive, ReportsHaveComments,
           R!RemovalSettlesEveryReport, R!NoReportOfErased, R!GetComments, Final
<1>7. CASE R!MayDecide(r) /\ status = "dismissed"
  <2> DEFINE new == R!Decided(r, "dismissed", note, o)
  <2>1. r \in R!Filed /\ report[r].status = "open" /\ UNCHANGED comment /\ report' = [report EXCEPT ![r] = new]
    BY <1>1, <1>7 DEF R!ResolveReport, R!MayDecide
  <2>2. /\ new \in Reported /\ new.on = c /\ new.by = report[r].by
        /\ new.about = report[r].about /\ new.status = "dismissed"
    BY <1>3, <1>5, <2>1
  <2> HIDE DEF new
  <2>3. /\ report' \in [R!Reports -> Reported \cup {NoReport, GoneReport}] /\ report'[r] = new
        /\ \A q \in R!Reports : q # r => report'[q] = report[q]
    BY <1>2, <2>1, <2>2 DEF ModerationInv, CaseTypes
  <2>4. new \notin {NoReport, GoneReport}
    BY <2>2, AbsenceAssumption DEF Reported
  <2>5. R!Filed' = R!Filed /\ R!Filed \subseteq R!Reports
    BY <2>1, <2>3, <2>4 DEF R!Filed
  <2>6. CaseTypes' /\ ShownByActive'
    BY <1>1, <1>4, <2>1, <2>3 DEF ModerationInv, CaseTypes, ShownByActive
  <2>7. \A q \in R!Filed : /\ report'[q].on = report[q].on /\ report'[q].by = report[q].by
                           /\ report'[q].about = report[q].about
                           /\ q # r => report'[q] = report[q]
    BY <1>3, <2>1, <2>2, <2>3, <2>5
  <2>8. ReportsHaveComments'
    BY <2>1, <2>5, <2>7 DEF ModerationInv, ReportsHaveComments
  <2>9. CasesMatch'
    <3> SUFFICES ASSUME NEW k \in Moderators, deciding[k] # Idle, k # o
                 PROVE  /\ report'[deciding[k].report] # NoReport
                        /\ deciding[k].report \in R!Filed' =>
                             report'[deciding[k].report].on = deciding[k].on
      BY <1>4 DEF CasesMatch
    <3>1. deciding[k].report \in R!Reports
      BY DEF ModerationInv, CaseTypes, Cases
    <3> QED
      BY <2>3, <2>4, <2>5, <2>7, <3>1 DEF ModerationInv, CasesMatch
  <2>10. R!RemovalSettlesEveryReport'
    <3>1. R!GetComments' = R!GetComments
      BY <2>1 DEF R!GetComments
    <3>2. \A q \in R!Filed : report'[q].status = "removed" => report[q].status = "removed"
      BY <2>2, <2>3, <2>7
    <3>3. \A q \in R!Filed : report'[q].status = "open" => report[q].status = "open"
      BY <2>2, <2>3, <2>7
    <3> QED
      BY <2>5, <2>7, <3>1, <3>2, <3>3 DEF ModerationInv, R!RemovalSettlesEveryReport
  <2>11. R!NoReportOfErased' /\ Final
    BY <1>1, <2>1, <2>5, <2>7 DEF ModerationInv, R!NoReportOfErased, Final
  <2> QED
    BY <2>6, <2>8, <2>9, <2>10, <2>11 DEF ModerationInv
<1>8. CASE R!MayDecide(r) /\ status = "removed"
  <2> DEFINE Settled(q) == q \in R!Filed /\ report[q].on = c /\ report[q].status = "open"
             new(q) == R!Decided(q, "removed", note, o)
  <2>1. /\ r \in R!Filed /\ report[r].status = "open" /\ report[r].on = c /\ comment[c] # NoComment
        /\ report' = [q \in R!Reports |-> IF Settled(q) THEN new(q) ELSE report[q]]
        /\ comment' = [comment EXCEPT ![c] = IF @ = NoComment THEN @ ELSE [@ EXCEPT !.open = FALSE]]
    BY <1>1, <1>3, <1>8 DEF R!ResolveReport, R!MayDecide, R!CloseReportsOf
  <2>2. /\ comment' \in [R!Comments -> Kept \cup {NoComment}]
        /\ comment'[c] # NoComment /\ ~comment'[c].open
        /\ \A k \in R!Comments : k # c => comment'[k] = comment[k]
    <3>1. comment' = [comment EXCEPT ![c].open = FALSE]
      BY <1>2, <2>1
    <3> QED
      BY <1>2, <2>1, <3>1, ClosedComment
  <2>3. \A q \in R!Reports : Settled(q) =>
          /\ new(q) \in Reported /\ new(q).on = report[q].on /\ new(q).by = report[q].by
          /\ new(q).about = report[q].about /\ new(q).status = "removed"
    BY <1>5
  <2> HIDE DEF new
  <2>4. \A q \in R!Reports : report'[q] = IF Settled(q) THEN new(q) ELSE report[q]
    BY <2>1
  <2>5. report' \in [R!Reports -> Reported \cup {NoReport, GoneReport}]
    <3>1. \A q \in R!Reports : report'[q] \in Reported \cup {NoReport, GoneReport}
      BY <2>3, <2>4 DEF ModerationInv, CaseTypes
    <3> QED
      BY <2>1, <3>1
  <2>6. R!Filed' = R!Filed /\ R!Filed \subseteq R!Reports
    <3>1. NoReport \notin Reported /\ GoneReport \notin Reported
      BY AbsenceAssumption DEF Reported
    <3> QED
      BY <2>3, <2>4, <3>1 DEF R!Filed
  <2>7. \A q \in R!Filed :
          /\ report'[q].on = report[q].on /\ report'[q].by = report[q].by /\ report'[q].about = report[q].about
          /\ report[q].on \in R!Comments
          /\ report[q].status # "open" => report'[q] = report[q]
          /\ report'[q].status = "open" => report[q].status = "open" /\ report[q].on # c
          /\ report'[q].status = "removed" => report[q].status = "removed" \/ report[q].on = c
    <3>1. \A q \in R!Filed : report[q].on \in R!Comments
      BY FiledReports DEF ModerationInv
    <3> QED
      BY <2>3, <2>4, <2>6, <3>1
  <2>8. CaseTypes' /\ ShownByActive'
    BY <1>1, <1>4, <2>2, <2>5 DEF ModerationInv, CaseTypes, ShownByActive
  <2>9. ReportsHaveComments'
    BY <2>2, <2>6, <2>7 DEF ModerationInv, ReportsHaveComments
  <2>10. CasesMatch'
    <3> SUFFICES ASSUME NEW k \in Moderators, deciding[k] # Idle, k # o
                 PROVE  /\ report'[deciding[k].report] # NoReport
                        /\ deciding[k].report \in R!Filed' =>
                             report'[deciding[k].report].on = deciding[k].on
      BY <1>4 DEF CasesMatch
    <3>1. deciding[k].report \in R!Reports
      BY DEF ModerationInv, CaseTypes, Cases
    <3>2. NoReport \notin Reported
      BY AbsenceAssumption DEF Reported
    <3> QED
      BY <2>3, <2>4, <2>6, <2>7, <3>1, <3>2 DEF ModerationInv, CasesMatch
  <2>11. R!RemovalSettlesEveryReport'
    <3> SUFFICES ASSUME NEW q \in R!Filed, report'[q].status = "removed"
                 PROVE  /\ report[q].on \notin R!GetComments'
                        /\ \A p \in R!Filed : report[p].on = report[q].on => report'[p].status # "open"
      BY <2>6, <2>7 DEF R!RemovalSettlesEveryReport
    <3>1. CASE report[q].on = c
      BY <2>2, <2>7, <3>1 DEF R!GetComments
    <3>2. CASE report[q].on # c
      <4>1. report[q].status = "removed" /\ report[q].on \in R!Comments
        BY <2>7, <3>2
      <4> QED
        BY <2>2, <2>7, <3>2, <4>1 DEF ModerationInv, R!RemovalSettlesEveryReport, R!GetComments
    <3> QED
      BY <3>1, <3>2
  <2>12. R!NoReportOfErased' /\ Final
    BY <1>1, <2>6, <2>7 DEF ModerationInv, R!NoReportOfErased, Final
  <2> QED
    BY <2>8, <2>9, <2>10, <2>11, <2>12 DEF ModerationInv
<1> QED
  BY <1>6, <1>7, <1>8

\* An erasure closes the member's comments and takes her reports away.
LEMMA ErasureStep ==
    ASSUME ModerationInv, NEW m \in Members, R!EraseMember(m)
    PROVE  ModerationInv' /\ Final
<1> DEFINE Hers(c) == comment[c] # NoComment /\ comment[c].author = m
           Gone(r) == r \in R!Filed /\ m \in {report[r].by, report[r].about, report[r].mod}
<1>1. /\ active' = [active EXCEPT ![m] = FALSE]
      /\ comment' = [c \in R!Comments |-> IF Hers(c) THEN [author |-> m, open |-> FALSE] ELSE comment[c]]
      /\ report' = [r \in R!Reports |-> IF Gone(r) THEN GoneReport ELSE report[r]]
      /\ UNCHANGED <<filing, deciding, writing, late>>
  BY DEF R!EraseMember, R!caseVars
<1>2. /\ active' \in [Members -> BOOLEAN] /\ ~active'[m] /\ \A k \in Members : k # m => active'[k] = active[k]
  BY <1>1 DEF ModerationInv, CaseTypes
<1> DEFINE closed == [author |-> m, open |-> FALSE]
<1>3. closed \in Kept /\ closed.author = m /\ ~closed.open /\ closed # NoComment
  <2>1. closed \in Kept /\ closed.author = m /\ ~closed.open
    BY DEF Kept
  <2>2. NoComment \notin Kept
    BY AbsenceAssumption DEF Kept
  <2> HIDE DEF closed
  <2> QED
    BY <2>1, <2>2
<1>4. \A c \in R!Comments : comment'[c] = IF Hers(c) THEN closed ELSE comment[c]
  BY <1>1
<1> HIDE DEF closed
<1>5. comment' \in [R!Comments -> Kept \cup {NoComment}]
  <2>1. \A c \in R!Comments : comment'[c] \in Kept \cup {NoComment}
    BY <1>3, <1>4 DEF ModerationInv, CaseTypes
  <2> QED
    BY <1>1, <2>1
<1>6. \A c \in R!Comments :
        /\ comment'[c] = NoComment <=> comment[c] = NoComment
        /\ comment[c] # NoComment => comment'[c].author = comment[c].author
        /\ comment[c] # NoComment /\ comment'[c].open => comment[c].open /\ comment[c].author # m
  BY <1>3, <1>4
<1>7. /\ report' \in [R!Reports -> Reported \cup {NoReport, GoneReport}]
      /\ \A r \in R!Reports : report'[r] = IF Gone(r) THEN GoneReport ELSE report[r]
  BY <1>1 DEF ModerationInv, CaseTypes
<1>8. /\ \A r \in R!Filed' : r \in R!Filed /\ report'[r] = report[r] /\ ~Gone(r)
      /\ R!Filed \subseteq R!Reports
  BY <1>7 DEF R!Filed
<1>9. CaseTypes'
  BY <1>1, <1>2, <1>5, <1>7 DEF ModerationInv, CaseTypes
<1>10. ShownByActive'
  <2> SUFFICES ASSUME NEW c \in R!Comments, comment'[c] # NoComment, comment'[c].open
               PROVE  active'[comment'[c].author] \/ c \in late'
    BY DEF ShownByActive
  <2>1. comment[c] # NoComment /\ comment[c].author \in Members
    BY <1>6, KeptComments DEF ModerationInv
  <2> QED
    BY <1>1, <1>2, <1>6, <2>1 DEF ModerationInv, ShownByActive
<1>11. \A r \in R!Filed : report[r].on \in R!Comments
  BY FiledReports DEF ModerationInv
<1>12. ReportsHaveComments'
  BY <1>6, <1>8, <1>11 DEF ModerationInv, ReportsHaveComments
<1>13. CasesMatch'
  <2> SUFFICES ASSUME NEW k \in Moderators, deciding[k] # Idle
               PROVE  /\ report'[deciding[k].report] # NoReport
                      /\ deciding[k].report \in R!Filed' =>
                           report'[deciding[k].report].on = deciding[k].on
    BY <1>1 DEF CasesMatch
  <2>1. deciding[k].report \in R!Reports
    BY DEF ModerationInv, CaseTypes, Cases
  <2>2. NoReport # GoneReport
    BY AbsenceAssumption
  <2> QED
    BY <1>7, <1>8, <2>1, <2>2 DEF ModerationInv, CasesMatch
<1>14. R!RemovalSettlesEveryReport'
  <2>1. R!GetComments' \subseteq R!GetComments
    BY <1>6 DEF R!GetComments
  <2> QED
    BY <1>8, <2>1 DEF ModerationInv, R!RemovalSettlesEveryReport
<1>15. R!NoReportOfErased'
  <2>1. \A r \in R!Filed : report[r].by \in Members /\ report[r].about \in Members
    BY FiledReports DEF ModerationInv
  <2> QED
    BY <1>1, <1>2, <1>8, <2>1 DEF ModerationInv, R!NoReportOfErased
<1>16. Final
  BY <1>7, <1>8 DEF Final
<1> QED
  BY <1>9, <1>10, <1>12, <1>13, <1>14, <1>15, <1>16 DEF ModerationInv

\* Whatever else happens to the notice leaves comments and reports alone.
LEMMA OtherStep ==
    ASSUME ModerationInv, UNCHANGED cases
    PROVE  ModerationInv' /\ Final
<1>1. R!Filed' = R!Filed
  BY DEF R!Filed, cases
<1> QED
  BY <1>1 DEF cases, ModerationInv, CaseTypes, CasesMatch, ShownByActive, ReportsHaveComments,
              R!RemovalSettlesEveryReport, R!NoReportOfErased, R!GetComments, Final

LEMMA ModerationStep ==
    ASSUME ModerationInv, [R!ReactionNext]_(R!reactionVars)
    PROVE  ModerationInv' /\ Final
<1>1. ASSUME NEW t \in Taps, R!ReadLiked(t) \/ R!LookupRow(t) \/ R!ToggleLike(t)
      PROVE  UNCHANGED cases
  BY <1>1 DEF R!ReadLiked, R!LookupRow, R!ToggleLike, R!LikeFrame, R!caseVars, cases
<1>2. ASSUME NEW v \in Views, R!GetPublishedNoticeHit(v) \/ R!GetNoticeDetail(v) \/ R!RecordView(v)
      PROVE  UNCHANGED cases
  BY <1>2 DEF R!GetPublishedNoticeHit, R!GetNoticeDetail, R!RecordView, R!caseVars, cases
<1>3. ASSUME NEW m \in Members, R!FeedItem(m) \/ R!HeroWithDetail(m) \/ R!AttachToFeed(m)
      PROVE  UNCHANGED cases
  BY <1>3 DEF R!FeedItem, R!HeroWithDetail, R!AttachToFeed, R!caseVars, cases
<1>4. CASE R!GetHero \/ R!ClosePost \/ UNCHANGED R!reactionVars
  <2>1. UNCHANGED cases
    BY <1>4 DEF R!GetHero, R!ClosePost, R!reactionVars, R!caseVars, cases
  <2> QED
    BY <2>1, OtherStep
<1> QED
  BY <1>1, <1>2, <1>3, <1>4, OtherStep, WritingStep, CommentStep, DeletionStep, LookupStep, FilingStep, ResolveStep,
     ErasureStep DEF R!ReactionNext

LEMMA ModerationInitially == R!ReactionInit => ModerationInv
<1> SUFFICES ASSUME R!ReactionInit PROVE ModerationInv
  OBVIOUS
<1>1. R!Filed = {} /\ \A o \in Moderators : deciding[o] = Idle
  BY DEF R!ReactionInit, R!Filed
<1>2. CaseTypes
  BY DEF R!ReactionInit, CaseTypes
<1>3. ShownByActive
  BY DEF R!ReactionInit, ShownByActive
<1> QED
  BY <1>1, <1>2, <1>3 DEF ModerationInv, ReportsHaveComments, CasesMatch, R!RemovalSettlesEveryReport,
                          R!NoReportOfErased

(***************************************************************************)
(* A removal settles every report of the comment, a decision is not        *)
(* overwritten, and no report in flight brings back what an erasure took;  *)
(* what can be reported of an erased member is a comment of hers that      *)
(* landed behind the erasure (comment_report_repo.go, the transactions of  *)
(* Create and Resolve; comment_repo.go, the insert without a lock).        *)
(***************************************************************************)
THEOREM ModerationHoldsAlone == R!ReactionSpec => R!ModerationHolds
<1>1. ModerationInv /\ [R!ReactionNext]_(R!reactionVars) => ModerationInv'
  BY ModerationStep
<1>2. ModerationInv /\ [R!ReactionNext]_(R!reactionVars) =>
        [\A r \in R!Filed : report[r].status # "open" => report'[r] \in {report[r], GoneReport}]_(R!reactionVars)
  BY ModerationStep DEF Final
<1>3. ModerationInv => R!RemovalSettlesEveryReport /\ R!NoReportOfErased
  BY DEF ModerationInv
<1> QED
  BY <1>1, <1>2, <1>3, ModerationInitially, PTL DEF R!ReactionSpec, R!ModerationHolds, R!DecisionIsFinal

-----------------------------------------------------------------------------
(* The scenes                                                              *)

\* What a scene does to the notice is what members and moderators may do to it.
LEMMA ScenesAreReactions == ASSUME [MCNext]_<<scene, boardVars, reactions>> PROVE [R!ReactionNext]_(R!reactionVars)
<1>1. CASE LikeScene
  <2>1. CASE (\E t \in Taps : R!ReadLiked(t) \/ R!LookupRow(t) \/ R!ToggleLike(t)) \/ R!GetHero
    BY <2>1 DEF R!ReactionNext
  <2>2. CASE R!FeedItem(a1) \/ R!HeroWithDetail(a1) \/ R!AttachToFeed(a1) \/ R!EraseMember(a1)
    BY <2>2, SceneAssumption DEF R!ReactionNext
  <2>3. CASE R!BeginComment(a2, "text") \/ R!AddComment(a2) \/ \E c \in R!Comments : R!DeleteComment(a2, c)
    BY <2>3, SceneAssumption DEF R!ReactionNext
  <2> QED
    BY <1>1, <2>1, <2>2, <2>3 DEF LikeScene
<1>2. CASE ViewScene
  BY <1>2 DEF ViewScene, R!ReactionNext
<1>3. CASE ReportScene
  <2>1. CASE R!AddComment(a1) \/ \E text \in {"text", "long"} : R!BeginComment(a1, text)
    <3>1. \E m \in Members : R!AddComment(m) \/ \E text \in {"", "text", "long"} : R!BeginComment(m, text)
      BY <2>1, SceneAssumption
    <3> QED
      BY <3>1 DEF R!ReactionNext
  <2>2. CASE \E m \in {a2, a3} :
               R!CreateReport(m) \/ \E c \in R!Comments, reason \in {"spam", "none"} : R!BeginReport(m, c, reason)
    BY <2>2, SceneAssumption DEF R!ReactionNext
  <2>0. {a1, a2, a3, o1} \subseteq Members
    BY SceneAssumption
  <2>3. CASE \/ \E c \in R!Comments : R!DeleteComment(a1, c)
             \/ \E m \in {a1, a2, o1} : R!EraseMember(m)
    BY <2>0, <2>3 DEF R!ReactionNext
  <2>4. CASE \E o \in Moderators : \/ \E r \in R!Reports : R!BeginResolve(o, r)
                                   \/ \E status \in {"removed", "dismissed"} :
                                        R!Resolve(o, status, IF o = o1 THEN "n1" ELSE "n2")
    <3>1. \E o \in Moderators : \/ \E r \in R!Reports : R!BeginResolve(o, r)
                                \/ \E status \in {"removed", "dismissed"}, note \in Notes : R!Resolve(o, status, note)
      BY <2>4, SceneAssumption
    <3> QED
      BY <3>1 DEF R!ReactionNext
  <2>5. CASE R!ClosePost
    BY <2>5 DEF R!ReactionNext
  <2> QED
    BY <1>3, <2>1, <2>2, <2>3, <2>4, <2>5 DEF ReportScene
<1>4. CASE UNCHANGED reactions
  BY <1>4 DEF reactions, R!reactionVars
<1> QED
  BY <1>1, <1>2, <1>3, <1>4 DEF MCNext

LEMMA BoardReactions == MCSpec => R!ReactionSpec
<1>1. MCInit => R!ReactionInit
  BY DEF MCInit
<1> QED
  BY <1>1, ScenesAreReactions, PTL DEF MCSpec, R!ReactionSpec

(***************************************************************************)
(* The same for the notice beside the board, as it is model-checked: what  *)
(* pages say of it agrees with its rows.                                   *)
(***************************************************************************)
THEOREM ReactionsAgreeAlways == MCSpec => ReactionsAgree
<1>1. R!ReactionSpec => ReactionsAgree
  BY ReactionsAgreeAlone DEF ReactionsAgree
<1> QED
  BY <1>1, BoardReactions

(***************************************************************************)
(* And removals and decisions hold, also against erasure.                  *)
(***************************************************************************)
THEOREM ModerationHoldsAlways == MCSpec => ModerationHolds
<1>1. R!ReactionSpec => ModerationHolds
  BY ModerationHoldsAlone DEF ModerationHolds
<1> QED
  BY <1>1, BoardReactions

\* What a scene does to the board is what editors, members and the clock may do.
LEMMA ScenesAreBoards == ASSUME [MCNext]_<<scene, boardVars, reactions>> PROVE [BoardNext]_boardVars
<1>1. \A pin \in BOOLEAN, o \in {TRUE, FALSE, Nothing}, c \in Cats \cup {NoCategory}, keep \in SUBSET Uploads :
        Draft(c, pin, o, keep) \in Drafts
  BY DEF Draft, Drafts
<1>2. CASE PostScene
  <2>1. PICK e \in Editors :
          \/ \E keep \in SUBSET Uploads : BeginCreate(e, Draft(NoCategory, FALSE, Nothing, keep))
          \/ \E s \in Posts, keep \in SUBSET Uploads, o \in BOOLEAN :
               BeginUpdate(e, s, Draft(NoCategory, FALSE, o, keep))
          \/ Create(e) \/ Publish(e) \/ Update(e) \/ ReconcileAttachments(e) \/ Delete(e)
    BY <1>2 DEF PostScene
  <2>2. \/ \E d \in Drafts : BeginCreate(e, d) \/ \E s \in Posts : BeginUpdate(e, s, d)
        \/ Create(e) \/ Publish(e) \/ Update(e) \/ ReconcileAttachments(e) \/ Delete(e)
    BY <1>1, <2>1
  <2> QED
    BY <2>2 DEF BoardNext
<1>3. CASE CategoryScene
  <2>1. e1 \in Editors /\ e2 \in Editors /\ "n2" \in Names
    BY SceneAssumption
  <2>2. CASE \/ \E c \in Cats \cup {NoCategory} : BeginCreate(e1, Draft(c, FALSE, TRUE, {}))
             \/ Create(e1) \/ Publish(e1) \/ SetCategory(e1)
             \/ \E s \in Posts, c \in Cats : BeginSetCategory(e1, s, c)
             \/ \E s \in Posts, c \in Cats : BeginUpdate(e1, s, Draft(c, FALSE, TRUE, {}))
             \/ Update(e1) \/ ReconcileAttachments(e1)
    <3>1. \/ \E d \in Drafts : BeginCreate(e1, d) \/ \E s \in Posts : BeginUpdate(e1, s, d)
          \/ Create(e1) \/ Publish(e1) \/ SetCategory(e1)
          \/ \E s \in Posts, c \in Cats : BeginSetCategory(e1, s, c)
          \/ Update(e1) \/ ReconcileAttachments(e1)
      BY <1>1, <2>2
    <3> QED
      BY <2>1, <3>1 DEF BoardNext
  <2>3. CASE \/ \E name \in Names : BeginCreateCategory(e2, name, TRUE)
             \/ \E c \in Cats, open \in BOOLEAN : UpdateCategory(e2, c, "n2", open)
             \/ \E order \in SetToAllKPermutations(Cats) : BeginReorder(e2, order)
             \/ \E c \in Cats, to \in Cats \cup {NoCategory} : BeginDeleteCategory(e2, c, to)
             \/ CreateCategory(e2) \/ DeleteCategory(e2) \/ Reorder(e2)
    <3>1. \/ \E name \in Names, open \in BOOLEAN :
               BeginCreateCategory(e2, name, open) \/ \E c \in Cats : UpdateCategory(e2, c, name, open)
          \/ \E order \in SetToAllKPermutations(Cats) : BeginReorder(e2, order)
          \/ \E c \in Cats, to \in Cats \cup {NoCategory} : BeginDeleteCategory(e2, c, to)
          \/ CreateCategory(e2) \/ DeleteCategory(e2) \/ Reorder(e2)
      BY <2>1, <2>3
    <3> QED
      BY <2>1, <3>1 DEF BoardNext
  <2> QED
    BY <1>3, <2>2, <2>3 DEF CategoryScene
<1>4. CASE FeedScene
  <2>1. e1 \in Editors /\ e2 \in Editors
    BY SceneAssumption
  <2>2. CASE GetHero \/ HeroExpires
    BY <2>2 DEF BoardNext
  <2>3. CASE \/ \E pin \in BOOLEAN : BeginCreate(e1, Draft(NoCategory, pin, TRUE, {}))
             \/ Create(e1) \/ Publish(e1)
    <3>1. \/ \E d \in Drafts : BeginCreate(e1, d)
          \/ Create(e1) \/ Publish(e1)
      BY <1>1, <2>3
    <3> QED
      BY <2>1, <3>1 DEF BoardNext
  <2>4. CASE Delete(e2) \/ TogglePin(e2)
    BY <2>1, <2>4 DEF BoardNext
  <2> QED
    BY <1>4, <2>2, <2>3, <2>4 DEF FeedScene
<1>5. CASE InboxScene
  <2>1. e1 \in Editors /\ e2 \in Editors
    BY SceneAssumption
  <2>2. CASE \/ BeginCreate(e1, Draft(NoCategory, FALSE, TRUE, {}))
             \/ Create(e1) \/ Publish(e1)
    <3>1. \/ \E d \in Drafts : BeginCreate(e1, d)
          \/ Create(e1) \/ Publish(e1)
      BY <1>1, <2>2
    <3> QED
      BY <2>1, <3>1 DEF BoardNext
  <2>3. CASE Delete(e2)
    BY <2>1, <2>3 DEF BoardNext
  <2>4. CASE \E u \in Users : MarkSeenThrough(u) \/ \E n \in 1..(MaxNotices + 1) : MarkSeen(u, n)
    BY <2>4 DEF BoardNext
  <2>5. CASE \E s \in Seqs : LeavesInbox(s)
    BY <2>5 DEF BoardNext
  <2> QED
    BY <1>5, <2>2, <2>3, <2>4, <2>5 DEF InboxScene
<1>6. CASE UNCHANGED boardVars
  BY <1>6
<1>7. \/ PostScene \/ CategoryScene \/ FeedScene \/ InboxScene \/ UNCHANGED boardVars
  BY DEF MCNext
<1> QED
  BY <1>2, <1>3, <1>4, <1>5, <1>6, <1>7

(***************************************************************************)
(* The same for the board beside the reactions, as it is model-checked.    *)
(***************************************************************************)
THEOREM NoticesAreFoundAlways == MCSpec => NoticesAreFound
<1>1. MCInit => BoardInit
  BY DEF MCInit
<1>2. MCSpec => BoardSpec
  BY <1>1, ScenesAreBoards, PTL DEF MCSpec, BoardSpec
<1> QED
  BY <1>2, NoticesAreFoundAlone

=============================================================================
