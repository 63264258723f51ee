-------------------------- MODULE BackOfficeProofs --------------------------
(***************************************************************************)
(* Proofs about the back office, for any number of accounts, operators,    *)
(* administrators, orders, texts and policies: the app update policy and   *)
(* its gate, the notification texts, the donation ledger, and what each of *)
(* them contributes to the run in which they are checked.                  *)
(***************************************************************************)
EXTENDS MCBackOffice, FiniteSetTheorems, WellFoundedInduction, SequenceTheorems, TLAPS

-----------------------------------------------------------------------------
(* The app update policy and its gate *)

Values == Policies \union {Gate!Seed("ios"), Gate!Seed("android"), Broken}
Entries == [before : Values, after : Values]
ReadStates ==
    [pc : {"idle", "load", "set"}, value : Values \union {Nil}, saves : Nat, floor : Nat, late : BOOLEAN]
FormStates ==
    {Gate!Closed}
        \union [pc : {"open"}, seen : Values, at : Nat]
        \union [pc : {"saving"}, seen : Values, at : Nat, new : Policies, allow : BOOLEAN, checked : BOOLEAN]
        \union [pc : {"invalidate"}, saves : Nat]

StoreType ==
    /\ platform \in {"ios", "android"} /\ policy \in [value : Values, at : Nat] /\ second \in Nat
    /\ trail \in Seq(Entries) /\ observed \subseteq Gate!Builds /\ saved \in Nat
FormType == form \in [Admins -> FormStates]
ReadType ==
    /\ client \in [Clients -> ReadStates]
    /\ \A r \in Clients : client[r].pc = "set" => client[r].value \in Values
    /\ public # Nil => public \in [value : Values, saves : Nat, pinned : BOOLEAN]
    /\ shown \in [Clients -> {Nil} \union [value : Values, saves : Nat, floor : Nat, pinned : BOOLEAN]]

\* A policy that forces an update names the store on iOS, and its threshold is a
\* build clients reported, unless an administrator took that upon herself, or
\* the policy came past its screen.
Judged(v, excused) ==
    v # Broken /\ v.force /\ v \notin outside =>
        /\ platform = "ios" => v.store = "apple"
        /\ excused \/ \E b \in observed : v.min <= b

\* Wherever a policy is held, it was judged: in the row, in the cache, by a read
\* under way, on a client, in a save under way.
PoliciesAreJudged ==
    /\ Judged(policy.value, policy.value \in confirmed)
    /\ public # Nil => Judged(public.value, public.value \in confirmed)
    /\ \A r \in Clients :
         /\ client[r].pc = "set" => Judged(client[r].value, client[r].value \in confirmed)
         /\ shown[r] # Nil => Judged(shown[r].value, shown[r].value \in confirmed)
    /\ \A a \in Admins : form[a].pc = "saving" => Judged(form[a].new, form[a].allow)

\* An answered save is on the trail.
AnswersAreSaved ==
    /\ saved <= Len(trail)
    /\ \A a \in Admins : form[a].pc = "invalidate" => form[a].saves <= Len(trail)

\* What a read must show was answered when it began, and it has that or more;
\* it stands behind an answered save only if it was under way when it was made.
ReadsAreCurrent ==
    \A r \in Clients :
        /\ client[r].pc = "load" => client[r].floor <= saved
        /\ client[r].pc = "set" =>
             /\ client[r].floor <= client[r].saves
             /\ client[r].late \/ saved <= client[r].saves

CacheIsCurrent == public # Nil => public.pinned \/ saved <= public.saves

PolicyInv ==
    /\ StoreType /\ FormType /\ ReadType
    /\ PoliciesAreJudged /\ Gate!HistoryIsAChain /\ Gate!ThrottledIsRecorded
    /\ AnswersAreSaved /\ ReadsAreCurrent /\ CacheIsCurrent /\ Gate!ReadsShowAnsweredSaves

-----------------------------------------------------------------------------
(* The greatest of a finite set of integers *)

\* A finite set of integers that is not empty has a greatest element: take a
\* smallest subset that has none and one of its elements away.
LEMMA FiniteHasMax ==
    ASSUME NEW S \in SUBSET Int, IsFiniteSet(S), S # {}
    PROVE  Gate!Max(S) \in S /\ \A y \in S : Gate!Max(S) >= y
<1> DEFINE Greatest(x, T) == x \in T /\ \A y \in T : x >= y
<1> DEFINE Without == {T \in SUBSET S : T # {} /\ ~\E x \in T : Greatest(x, T)}
<1>1. Without = {}
  <2>1. SUFFICES ASSUME Without # {} PROVE FALSE
    OBVIOUS
  <2>2. IsWellFoundedOn(StrictSubsetOrdering(S), SUBSET S)
    BY FS_StrictSubsetOrderingWellFounded, FS_FiniteSubsetsOfFinite
  <2>3. PICK T \in Without : \A U \in Without : <<U, T>> \notin StrictSubsetOrdering(S)
    <3> HIDE DEF Without
    <3>1. Without \subseteq SUBSET S
      BY DEF Without
    <3> QED
      BY <2>1, <2>2, <3>1, WFMin
  <2>4. PICK x \in T : TRUE
    OBVIOUS
  <2>5. T \ {x} \notin Without
    BY <2>3, <2>4 DEF StrictSubsetOrdering
  <2>6. CASE T \ {x} = {}
    BY <2>4, <2>6
  <2>7. CASE T \ {x} # {}
    <3>1. PICK z \in T \ {x} : \A y \in T \ {x} : z >= y
      BY <2>5, <2>7
    <3>2. CASE x >= z
      BY <3>1, <3>2, <2>4
    <3>3. CASE z >= x
      BY <3>1, <3>3, <2>4
    <3> QED
      BY <3>1, <3>2, <3>3, <2>4
  <2> QED
    BY <2>6, <2>7
<1>2. \E x \in S : \A y \in S : x >= y
  BY <1>1
<1> QED
  BY <1>2 DEF Gate!Max

\* The newest build is one a client reported, or there is none yet.
LEMMA LatestBuildIsObserved ==
    ASSUME Gate!PolicyAssumption, observed \subseteq Gate!Builds
    PROVE  Gate!LatestBuild \in {0} \union observed
<1>1. IsFiniteSet(observed)
  <2>1. MaxBuild \in Int /\ 1 \in Int
    BY DEF Gate!PolicyAssumption
  <2>2. IsFiniteSet(1..MaxBuild)
    BY <2>1, FS_Interval
  <2> QED
    BY <2>2, FS_Subset DEF Gate!Builds
<1>2. IsFiniteSet(observed \union {0})
  BY <1>1, FS_AddElement
<1>3. {0} \union observed = observed \union {0} /\ {0} \union observed \in SUBSET Int
  BY DEF Gate!Builds
<1>4. Gate!Max({0} \union observed) \in {0} \union observed
  BY <1>2, <1>3, FiniteHasMax
<1> QED
  BY <1>4 DEF Gate!LatestBuild

\* The greater of two numbers.
LEMMA MaxOfTwo ==
    ASSUME NEW m \in Nat, NEW n \in Nat
    PROVE  Gate!Max({m, n}) \in {m, n} /\ Gate!Max({m, n}) >= m /\ Gate!Max({m, n}) >= n
<1>1. IsFiniteSet({m, n})
  <2>1. {m, n} = {m} \union {n}
    OBVIOUS
  <2>2. IsFiniteSet({m})
    BY FS_Singleton
  <2>3. IsFiniteSet({m} \union {n})
    BY <2>2, FS_AddElement
  <2> QED
    BY <2>1, <2>3
<1> QED
  BY <1>1, FiniteHasMax

-----------------------------------------------------------------------------
(* Types *)

LEMMA StoreTypeStep ==
    ASSUME Gate!PolicyAssumption, StoreType, FormType, [Gate!PolicyNext]_Gate!policyVars
    PROVE  StoreType'
<1> USE DEF StoreType
<1>f. UNCHANGED <<platform, policy, second, trail, observed, saved>> => StoreType'
  OBVIOUS
<1>1. ASSUME NEW a \in Admins, Gate!Save(a) PROVE StoreType'
  <2>1. form[a].new \in Values
    BY <1>1 DEF Gate!Save, FormType, FormStates, Gate!Closed, Values
  <2>2. Gate!Entry(form[a]) \in Entries
    BY <2>1 DEF Gate!Entry, Entries
  <2>3. trail' \in Seq(Entries)
    BY <1>1, <2>2 DEF Gate!Save
  <2> QED
    BY <1>1, <2>1, <2>3 DEF Gate!Save
<1>2. ASSUME NEW a \in Admins, Gate!Invalidate(a) PROVE StoreType'
  <2>1. form[a].saves \in Nat
    BY <1>2 DEF Gate!Invalidate, FormType, FormStates, Gate!Closed
  <2> QED
    BY <1>2, <2>1, MaxOfTwo DEF Gate!Invalidate
<1>3. ASSUME NEW k \in Gate!SettingKeys, NEW v \in Policies \union {Broken}, Gate!UpdateValue(k, v) PROVE StoreType'
  <2>1. policy' \in {policy, [value |-> v, at |-> second]}
    BY <1>3 DEF Gate!UpdateValue
  <2> QED
    BY <1>3, <2>1 DEF Gate!UpdateValue, Values
<1>4. ASSUME NEW b \in Gate!Builds, NEW written \in BOOLEAN, Gate!Observe(b, written) PROVE StoreType'
  BY <1>4 DEF Gate!Observe, Gate!Upsert
<1>5. ASSUME Gate!Tick PROVE StoreType'
  BY <1>5 DEF Gate!Tick
<1>6. ASSUME NEW a \in Admins,
             \/ Gate!OpenScreen(a)
             \/ Gate!SaveRefused(a)
             \/ \E p \in Policies, allow \in BOOLEAN, checked \in BOOLEAN : Gate!BeginSave(a, p, allow, checked)
      PROVE  StoreType'
  BY <1>f, <1>6 DEF Gate!OpenScreen, Gate!SaveRefused, Gate!BeginSave
<1>7. ASSUME NEW r \in Clients, Gate!ReadFromCache(r) \/ Gate!ReadMisses(r) \/ Gate!ReadRows(r) \/ Gate!CacheRows(r)
      PROVE  StoreType'
  BY <1>f, <1>7 DEF Gate!ReadFromCache, Gate!ReadMisses, Gate!ReadRows, Gate!CacheRows
<1>8. ASSUME Gate!CacheExpires \/ (\E b \in Gate!Builds : Gate!ThrottleExpires(b)) \/ UNCHANGED Gate!policyVars
      PROVE  StoreType'
  BY <1>f, <1>8 DEF Gate!CacheExpires, Gate!ThrottleExpires, Gate!policyVars
<1> QED
  BY <1>1, <1>2, <1>3, <1>4, <1>5, <1>6, <1>7, <1>8 DEF Gate!PolicyNext

LEMMA FormTypeStep ==
    ASSUME StoreType, FormType, [Gate!PolicyNext]_Gate!policyVars
    PROVE  FormType'
<1> USE DEF FormType
<1>f. UNCHANGED form => FormType'
  OBVIOUS
<1>1. ASSUME NEW a \in Admins, Gate!OpenScreen(a) PROVE FormType'
  <2>1. Gate!getPolicyRecord \in FormStates
    BY DEF Gate!getPolicyRecord, FormStates, StoreType
  <2> QED
    BY <1>1, <2>1 DEF Gate!OpenScreen
<1>2. ASSUME NEW a \in Admins, NEW p \in Policies, NEW allow \in BOOLEAN, NEW checked \in BOOLEAN,
             Gate!BeginSave(a, p, allow, checked)
      PROVE  FormType'
  <2>1. Gate!SaveRequest(form[a], p, allow, checked) \in FormStates
    BY <1>2 DEF Gate!BeginSave, Gate!SaveRequest, FormStates, Gate!Closed
  <2> QED
    BY <1>2, <2>1 DEF Gate!BeginSave
<1>3. ASSUME NEW a \in Admins, Gate!Save(a) PROVE FormType'
  <2>1. [pc |-> "invalidate", saves |-> Len(trail) + 1] \in FormStates
    BY DEF FormStates, StoreType
  <2> QED
    BY <1>3, <2>1 DEF Gate!Save
<1>4. ASSUME NEW a \in Admins, Gate!SaveRefused(a) \/ Gate!Invalidate(a) PROVE FormType'
  <2>1. Gate!Closed \in FormStates
    BY DEF FormStates
  <2> QED
    BY <1>4, <2>1 DEF Gate!SaveRefused, Gate!Invalidate
<1>5. ASSUME NEW k \in Gate!SettingKeys, NEW v \in Policies \union {Broken}, Gate!UpdateValue(k, v) PROVE FormType'
  BY <1>f, <1>5 DEF Gate!UpdateValue
<1>6. ASSUME NEW r \in Clients, Gate!ReadFromCache(r) \/ Gate!ReadMisses(r) \/ Gate!ReadRows(r) \/ Gate!CacheRows(r)
      PROVE  FormType'
  BY <1>f, <1>6 DEF Gate!ReadFromCache, Gate!ReadMisses, Gate!ReadRows, Gate!CacheRows
<1>7. ASSUME NEW b \in Gate!Builds, Gate!ThrottleExpires(b) \/ \E written \in BOOLEAN : Gate!Observe(b, written)
      PROVE  FormType'
  BY <1>f, <1>7 DEF Gate!ThrottleExpires, Gate!Observe
<1>8. ASSUME Gate!CacheExpires \/ Gate!Tick \/ UNCHANGED Gate!policyVars PROVE FormType'
  BY <1>f, <1>8 DEF Gate!CacheExpires, Gate!Tick, Gate!policyVars
<1> QED
  BY <1>1, <1>2, <1>3, <1>4, <1>5, <1>6, <1>7, <1>8 DEF Gate!PolicyNext

\* The reads, the cache and what clients were shown; the cache is emptied by
\* many, filled by CacheRows.
LEMMA ReadTypeStep ==
    ASSUME StoreType, ReadType, [Gate!PolicyNext]_Gate!policyVars
    PROVE  ReadType'
<1> USE DEF ReadType
<1>f. ASSUME UNCHANGED <<client, shown>>, public' \in {public, Nil} PROVE ReadType'
  BY <1>f
<1>0. Gate!NoRead \in ReadStates /\ Gate!NoRead.pc # "set"
  BY DEF Gate!NoRead, ReadStates
<1>1. ASSUME NEW a \in Admins, Gate!Invalidate(a) PROVE ReadType'
  <2>1. \A r \in Clients : client'[r] \in ReadStates /\ client'[r].pc = client[r].pc
                             /\ client'[r].value = client[r].value
    BY <1>1 DEF Gate!Invalidate, Gate!ReadsUnderWay, ReadStates
  <2>2. client' \in [Clients -> ReadStates]
    BY <1>1, <2>1 DEF Gate!Invalidate, Gate!ReadsUnderWay
  <2> QED
    BY <1>1, <2>1, <2>2 DEF Gate!Invalidate, Gate!CacheAfterSave
<1>2. ASSUME NEW r \in Clients, Gate!ReadFromCache(r) PROVE ReadType'
  <2>1. public \in [value : Values, saves : Nat, pinned : BOOLEAN] /\ saved \in Nat
    BY <1>2 DEF Gate!ReadFromCache, StoreType
  <2> QED
    BY <1>0, <1>2, <2>1 DEF Gate!ReadFromCache, Gate!Answer
<1>3. ASSUME NEW r \in Clients, Gate!ReadMisses(r) PROVE ReadType'
  <2>0. client[r] \in ReadStates /\ saved \in Nat
    BY DEF StoreType
  <2>1. [client[r] EXCEPT !.pc = "load", !.floor = saved] \in ReadStates
    BY <2>0 DEF ReadStates
  <2>2. client' = [client EXCEPT ![r] = [client[r] EXCEPT !.pc = "load", !.floor = saved]]
    BY <1>3 DEF Gate!ReadMisses
  <2> QED
    BY <1>3, <2>1, <2>2 DEF Gate!ReadMisses, ReadStates
<1>4. ASSUME NEW r \in Clients, Gate!ReadRows(r) PROVE ReadType'
  <2>0. client[r] \in ReadStates /\ policy.value \in Values /\ Len(trail) \in Nat
    BY DEF StoreType
  <2>1. [client[r] EXCEPT !.pc = "set", !.value = policy.value, !.saves = Len(trail)] \in ReadStates
    BY <2>0 DEF ReadStates
  <2>2. CASE client' = [client EXCEPT ![r].pc = "set", ![r].value = policy.value, ![r].saves = Len(trail)]
    <3>1. client' = [client EXCEPT ![r] = [client[r] EXCEPT !.pc = "set", !.value = policy.value,
                                                            !.saves = Len(trail)]]
      BY <2>2
    <3> QED
      BY <1>4, <2>1, <3>1 DEF Gate!ReadRows, ReadStates, StoreType
  <2>3. CASE client' = [client EXCEPT ![r] = Gate!NoRead]
    BY <1>0, <1>4, <2>3 DEF Gate!ReadRows
  <2> QED
    BY <1>4, <2>2, <2>3 DEF Gate!ReadRows
<1>5. ASSUME NEW r \in Clients, Gate!CacheRows(r) PROVE ReadType'
  <2>1. client[r].value \in Values /\ client[r].saves \in Nat /\ client[r].floor \in Nat /\ client[r].late \in BOOLEAN
    BY <1>5 DEF Gate!CacheRows, ReadStates
  <2> QED
    BY <1>0, <1>5, <2>1 DEF Gate!CacheRows, Gate!Answer
<1>6. ASSUME NEW a \in Admins,
             \/ Gate!OpenScreen(a)
             \/ Gate!Save(a)
             \/ Gate!SaveRefused(a)
             \/ \E p \in Policies, allow \in BOOLEAN, checked \in BOOLEAN : Gate!BeginSave(a, p, allow, checked)
      PROVE  ReadType'
  BY <1>f, <1>6 DEF Gate!OpenScreen, Gate!Save, Gate!SaveRefused, Gate!BeginSave
<1>7. ASSUME NEW k \in Gate!SettingKeys, NEW v \in Policies \union {Broken}, Gate!UpdateValue(k, v) PROVE ReadType'
  BY <1>f, <1>7 DEF Gate!UpdateValue
<1>8. ASSUME NEW b \in Gate!Builds, Gate!ThrottleExpires(b) \/ \E written \in BOOLEAN : Gate!Observe(b, written)
      PROVE  ReadType'
  BY <1>f, <1>8 DEF Gate!ThrottleExpires, Gate!Observe
<1>9. ASSUME Gate!CacheExpires \/ Gate!Tick \/ UNCHANGED Gate!policyVars PROVE ReadType'
  BY <1>f, <1>9 DEF Gate!CacheExpires, Gate!Tick, Gate!policyVars
<1> QED
  BY <1>1, <1>2, <1>3, <1>4, <1>5, <1>6, <1>7, <1>8, <1>9 DEF Gate!PolicyNext

-----------------------------------------------------------------------------
(* The judgement of a policy *)

\* What ValidateAppUpdatePolicy lets through is judged.
LEMMA ValidIsJudged ==
    ASSUME Gate!PolicyAssumption, StoreType, NEW p \in Policies, NEW allow \in BOOLEAN,
           Gate!ValidateAppUpdatePolicy(p, Gate!LatestBuild, allow)
    PROVE  Judged(p, allow)
<1>1. Gate!LatestBuild \in {0} \union observed
  BY LatestBuildIsObserved DEF StoreType
<1>2. p.min \in Int /\ p.force \in BOOLEAN
  BY DEF Gate!PolicyAssumption
<1>3. ASSUME p.force PROVE platform = "ios" => p.store = "apple"
  BY <1>3 DEF Gate!ValidateAppUpdatePolicy, Gate!validateIOSStoreURL
<1>4. ASSUME p.force, ~allow PROVE \E b \in observed : p.min <= b
  <2>1. p.min > 0 /\ p.min <= Gate!LatestBuild
    BY <1>4 DEF Gate!ValidateAppUpdatePolicy, Gate!Observed
  <2> QED
    BY <1>1, <1>2, <2>1
<1> QED
  BY <1>3, <1>4 DEF Judged

\* The seeded policies force nothing.
LEMMA SeedIsJudged == ASSUME NEW p, NEW excused PROVE Judged(Gate!Seed(p), excused)
  BY DEF Judged, Gate!Seed

\* A judgement stays when builds and confirmations are added; a policy is judged
\* when its save begins, and enters the row with its judgement.
LEMMA JudgedStep ==
    ASSUME Gate!PolicyAssumption, StoreType, FormType, ReadType, PoliciesAreJudged, [Gate!PolicyNext]_Gate!policyVars
    PROVE  PoliciesAreJudged'
<1> USE DEF PoliciesAreJudged
<1> DEFINE Grown == /\ platform' = platform /\ observed \subseteq observed'
                    /\ confirmed \subseteq confirmed' /\ outside \subseteq outside'
<1>r. Grown /\ policy'.value = policy.value => Judged(policy.value, policy.value \in confirmed)'
  BY DEF Judged
<1>c. Grown /\ public' \in {public, Nil}
        => (public # Nil => Judged(public.value, public.value \in confirmed))'
  BY DEF Judged
<1>s. ASSUME Grown, NEW r \in Clients, client'[r].pc = "set", client[r].pc = "set",
             client'[r].value = client[r].value
      PROVE  Judged(client[r].value, client[r].value \in confirmed)'
  BY <1>s DEF Judged
<1>d. ASSUME Grown, NEW r \in Clients, shown'[r] # Nil, shown'[r] = shown[r]
      PROVE  Judged(shown[r].value, shown[r].value \in confirmed)'
  BY <1>d DEF Judged
<1>a. ASSUME Grown, NEW a \in Admins, form'[a].pc = "saving", form'[a] = form[a]
      PROVE  Judged(form[a].new, form[a].allow)'
  BY <1>a DEF Judged
<1>m. ASSUME Grown, policy' = policy, public' = public, UNCHANGED <<client, shown>>,
             \A x \in Admins : form'[x] = form[x] \/ form'[x].pc # "saving"
      PROVE  PoliciesAreJudged'
  BY <1>m, <1>r, <1>c, <1>s, <1>d, <1>a
<1>f. ASSUME Grown, policy' = policy, public' \in {public, Nil}, UNCHANGED <<client, shown, form>>
      PROVE  PoliciesAreJudged'
  BY <1>f, <1>r, <1>c, <1>s, <1>d, <1>a
<1>1. ASSUME NEW a \in Admins, Gate!OpenScreen(a) \/ Gate!SaveRefused(a) PROVE PoliciesAreJudged'
  <2>1. \A x \in Admins : form'[x] = form[x] \/ form'[x].pc # "saving"
    BY <1>1 DEF Gate!OpenScreen, Gate!SaveRefused, FormType, Gate!getPolicyRecord, Gate!Closed
  <2> QED
    BY <1>m, <1>1, <2>1 DEF Gate!OpenScreen, Gate!SaveRefused
<1>2. ASSUME NEW a \in Admins, NEW p \in Policies, NEW allow \in BOOLEAN, NEW checked \in BOOLEAN,
             Gate!BeginSave(a, p, allow, checked)
      PROVE  PoliciesAreJudged'
  <2>1. Grown /\ policy' = policy /\ public' = public /\ UNCHANGED <<client, shown>>
    BY <1>2 DEF Gate!BeginSave
  <2>2. Judged(p, allow)
    BY <1>2, ValidIsJudged DEF Gate!BeginSave
  <2>3. form'[a].new = p /\ form'[a].allow = allow
    BY <1>2 DEF Gate!BeginSave, Gate!SaveRequest, FormType
  <2>4. \A x \in Admins : x = a \/ form'[x] = form[x]
    BY <1>2 DEF Gate!BeginSave, FormType
  <2>5. Judged(form[a].new, form[a].allow)'
    BY <2>1, <2>2, <2>3 DEF Judged
  <2> QED
    BY <2>1, <2>4, <2>5, <1>r, <1>c, <1>s, <1>d, <1>a
<1>3. ASSUME NEW a \in Admins, Gate!Save(a) PROVE PoliciesAreJudged'
  <2>1. Grown /\ public' = public /\ UNCHANGED <<client, shown>> /\ policy'.value = form[a].new
    BY <1>3 DEF Gate!Save
  <2>2. Judged(form[a].new, form[a].allow) /\ form[a].allow \in BOOLEAN
    BY <1>3 DEF Gate!Save, FormType, FormStates, Gate!Closed
  <2>3. form[a].allow => policy'.value \in confirmed'
    BY <1>3 DEF Gate!Save
  <2>4. Judged(policy.value, policy.value \in confirmed)'
    BY <2>1, <2>2, <2>3 DEF Judged
  <2>5. \A x \in Admins : form'[x] = form[x] \/ form'[x].pc # "saving"
    BY <1>3 DEF Gate!Save, FormType
  <2> QED
    BY <2>1, <2>4, <2>5, <1>c, <1>s, <1>d, <1>a
<1>4. ASSUME NEW a \in Admins, Gate!Invalidate(a) PROVE PoliciesAreJudged'
  <2>1. Grown /\ policy' = policy /\ public' = Nil /\ shown' = shown
    BY <1>4 DEF Gate!Invalidate, Gate!CacheAfterSave
  <2>2. \A r \in Clients : client'[r].pc = client[r].pc /\ client'[r].value = client[r].value
    BY <1>4 DEF Gate!Invalidate, Gate!ReadsUnderWay, ReadType, ReadStates
  <2>3. \A x \in Admins : form'[x] = form[x] \/ form'[x].pc # "saving"
    BY <1>4 DEF Gate!Invalidate, FormType, Gate!Closed
  <2> QED
    BY <2>1, <2>2, <2>3, <1>r, <1>c, <1>s, <1>d, <1>a
<1>5. ASSUME NEW k \in Gate!SettingKeys, NEW v \in Policies \union {Broken}, Gate!UpdateValue(k, v) PROVE PoliciesAreJudged'
  <2>1. Grown /\ public' \in {public, Nil} /\ UNCHANGED <<client, shown, form>>
    BY <1>5 DEF Gate!UpdateValue
  <2>2. CASE policy' = policy
    BY <1>f, <2>1, <2>2
  <2>3. CASE policy' # policy
    <3>1. policy'.value = v /\ v \in outside'
      BY <1>5, <2>3 DEF Gate!UpdateValue, Gate!ReadOnly
    <3>2. Judged(policy.value, policy.value \in confirmed)'
      BY <3>1 DEF Judged
    <3> QED
      BY <2>1, <3>2, <1>c, <1>s, <1>d, <1>a
  <2> QED
    BY <2>2, <2>3
<1>6. ASSUME NEW r \in Clients, Gate!ReadFromCache(r) PROVE PoliciesAreJudged'
  <2>1. Grown /\ policy' = policy /\ public' = public /\ form' = form
    BY <1>6 DEF Gate!ReadFromCache
  <2>2. \A x \in Clients : client'[x].pc = "set" => client'[x] = client[x]
    BY <1>6 DEF Gate!ReadFromCache, Gate!Answer, ReadType, Gate!NoRead
  <2>3. \A x \in Clients : shown'[x] = shown[x] \/ shown'[x].value = public.value
    BY <1>6 DEF Gate!ReadFromCache, Gate!Answer, ReadType
  <2>4. Judged(public.value, public.value \in confirmed)'
    BY <1>6, <2>1 DEF Gate!ReadFromCache, Judged
  <2>5. ASSUME NEW x \in Clients, shown'[x].value = public.value
        PROVE  Judged(shown[x].value, shown[x].value \in confirmed)'
    BY <2>1, <2>4, <2>5 DEF Judged
  <2> QED
    BY <2>1, <2>2, <2>3, <2>5, <1>r, <1>c, <1>s, <1>d, <1>a
<1>7. ASSUME NEW r \in Clients, Gate!ReadMisses(r) PROVE PoliciesAreJudged'
  <2>1. Grown /\ policy' = policy /\ public' = public /\ UNCHANGED <<shown, form>>
    BY <1>7 DEF Gate!ReadMisses
  <2>2. \A x \in Clients : client'[x].pc = "set" => client'[x] = client[x]
    BY <1>7 DEF Gate!ReadMisses, ReadType, ReadStates
  <2> QED
    BY <2>1, <2>2, <1>r, <1>c, <1>s, <1>d, <1>a
<1>8. ASSUME NEW r \in Clients, Gate!ReadRows(r) PROVE PoliciesAreJudged'
  <2>1. Grown /\ policy' = policy /\ public' = public /\ UNCHANGED <<shown, form>>
    BY <1>8 DEF Gate!ReadRows
  <2>2. \A x \in Clients : client'[x].pc = "set" => client'[x] = client[x] \/ client'[x].value = policy.value
    BY <1>8 DEF Gate!ReadRows, ReadType, ReadStates, Gate!NoRead
  <2>3. ASSUME NEW x \in Clients, client'[x].value = policy.value
        PROVE  Judged(client[x].value, client[x].value \in confirmed)'
    BY <2>1, <2>3 DEF Judged
  <2> QED
    BY <2>1, <2>2, <2>3, <1>r, <1>c, <1>s, <1>d, <1>a
<1>9. ASSUME NEW r \in Clients, Gate!CacheRows(r) PROVE PoliciesAreJudged'
  <2>1. Grown /\ policy' = policy /\ form' = form /\ public'.value = client[r].value
    BY <1>9 DEF Gate!CacheRows
  <2>2. \A x \in Clients : client'[x].pc = "set" => client'[x] = client[x]
    BY <1>9 DEF Gate!CacheRows, Gate!Answer, ReadType, Gate!NoRead
  <2>3. \A x \in Clients : shown'[x] = shown[x] \/ shown'[x].value = client[r].value
    BY <1>9 DEF Gate!CacheRows, Gate!Answer, ReadType
  <2>4. Judged(public.value, public.value \in confirmed)'
    BY <1>9, <2>1 DEF Gate!CacheRows, Judged
  <2>5. ASSUME NEW x \in Clients, shown'[x].value = client[r].value
        PROVE  Judged(shown[x].value, shown[x].value \in confirmed)'
    BY <2>1, <2>4, <2>5 DEF Judged
  <2> QED
    BY <2>1, <2>2, <2>3, <2>4, <2>5, <1>r, <1>s, <1>d, <1>a
<1>10. ASSUME NEW b \in Gate!Builds, Gate!ThrottleExpires(b) \/ \E written \in BOOLEAN : Gate!Observe(b, written)
       PROVE  PoliciesAreJudged'
  BY <1>f, <1>10 DEF Gate!ThrottleExpires, Gate!Observe, Gate!Upsert
<1>11. ASSUME Gate!CacheExpires \/ Gate!Tick \/ UNCHANGED Gate!policyVars PROVE PoliciesAreJudged'
  BY <1>f, <1>11 DEF Gate!CacheExpires, Gate!Tick, Gate!policyVars
<1> QED
  BY <1>1, <1>2, <1>3, <1>4, <1>5, <1>6, <1>7, <1>8, <1>9, <1>10, <1>11 DEF Gate!PolicyNext

-----------------------------------------------------------------------------
(* The trail, the observations and what reads show *)

LEMMA ChainStep ==
    ASSUME Gate!PolicyAssumption, StoreType, FormType, Gate!HistoryIsAChain, [Gate!PolicyNext]_Gate!policyVars
    PROVE  Gate!HistoryIsAChain'
<1> USE DEF Gate!HistoryIsAChain
<1>f. UNCHANGED <<policy, trail, outside>> => Gate!HistoryIsAChain'
  OBVIOUS
<1>1. ASSUME NEW a \in Admins, Gate!Save(a) PROVE Gate!HistoryIsAChain'
  <2>1. trail \in Seq(Entries) /\ trail' = Append(trail, Gate!Entry(form[a]))
    BY <1>1 DEF Gate!Save, StoreType
  <2>2. Len(trail) \in Nat /\ DOMAIN trail = 1..Len(trail)
    BY <2>1
  <2>3. Len(trail') = Len(trail) + 1 /\ trail'[Len(trail) + 1] = Gate!Entry(form[a])
    BY <2>1
  <2>4. \A i \in 1..Len(trail) : trail'[i] = trail[i]
    BY <2>1
  <2>5. Gate!Entry(form[a]).before = policy.value /\ Gate!Entry(form[a]).after = policy'.value
    BY <1>1 DEF Gate!Entry, Gate!Save
  <2>6. ASSUME NEW i \in 2..Len(trail') PROVE trail'[i].before \in {trail'[i - 1].after} \union outside
    <3>1. CASE i = Len(trail) + 1
      <4>1. i - 1 \in 1..Len(trail) /\ trail # <<>> /\ i - 1 = Len(trail)
        BY <2>2, <3>1
      <4> QED
        BY <2>3, <2>4, <2>5, <3>1, <4>1
    <3>2. CASE i # Len(trail) + 1
      <4>1. i \in 2..Len(trail) /\ i \in 1..Len(trail) /\ i - 1 \in 1..Len(trail)
        BY <2>2, <2>3, <3>2
      <4> QED
        BY <2>4, <4>1
    <3> QED
      BY <3>1, <3>2
  <2>7. outside' = outside
    BY <1>1 DEF Gate!Save
  <2> QED
    BY <2>3, <2>5, <2>6, <2>7
<1>2. ASSUME NEW k \in Gate!SettingKeys, NEW v \in Policies \union {Broken}, Gate!UpdateValue(k, v) PROVE Gate!HistoryIsAChain'
  <2>1. trail' = trail /\ outside \subseteq outside'
    BY <1>2 DEF Gate!UpdateValue
  <2>2. CASE policy' = policy
    BY <2>1, <2>2
  <2>3. CASE policy' # policy
    <3>1. policy'.value \in outside'
      BY <1>2, <2>3 DEF Gate!UpdateValue, Gate!ReadOnly
    <3> QED
      BY <2>1, <3>1
  <2> QED
    BY <2>2, <2>3
<1>3. ASSUME NEW a \in Admins,
             \/ Gate!OpenScreen(a)
             \/ Gate!SaveRefused(a)
             \/ Gate!Invalidate(a)
             \/ \E p \in Policies, allow \in BOOLEAN, checked \in BOOLEAN : Gate!BeginSave(a, p, allow, checked)
      PROVE  Gate!HistoryIsAChain'
  BY <1>f, <1>3 DEF Gate!OpenScreen, Gate!SaveRefused, Gate!Invalidate, Gate!BeginSave
<1>4. ASSUME NEW r \in Clients, Gate!ReadFromCache(r) \/ Gate!ReadMisses(r) \/ Gate!ReadRows(r) \/ Gate!CacheRows(r)
      PROVE  Gate!HistoryIsAChain'
  BY <1>f, <1>4 DEF Gate!ReadFromCache, Gate!ReadMisses, Gate!ReadRows, Gate!CacheRows
<1>5. ASSUME NEW b \in Gate!Builds, Gate!ThrottleExpires(b) \/ \E written \in BOOLEAN : Gate!Observe(b, written)
      PROVE  Gate!HistoryIsAChain'
  BY <1>f, <1>5 DEF Gate!ThrottleExpires, Gate!Observe
<1>6. ASSUME Gate!CacheExpires \/ Gate!Tick \/ UNCHANGED Gate!policyVars PROVE Gate!HistoryIsAChain'
  BY <1>f, <1>6 DEF Gate!CacheExpires, Gate!Tick, Gate!policyVars
<1> QED
  BY <1>1, <1>2, <1>3, <1>4, <1>5, <1>6 DEF Gate!PolicyNext

LEMMA ThrottleStep ==
    ASSUME Gate!ThrottledIsRecorded, [Gate!PolicyNext]_Gate!policyVars
    PROVE  Gate!ThrottledIsRecorded'
<1> USE DEF Gate!ThrottledIsRecorded
<1>f. UNCHANGED <<throttle, observed>> => Gate!ThrottledIsRecorded'
  OBVIOUS
<1>1. ASSUME NEW b \in Gate!Builds, NEW written \in BOOLEAN, Gate!Observe(b, written) PROVE Gate!ThrottledIsRecorded'
  BY <1>1 DEF Gate!Observe, Gate!Upsert, Gate!ThrottleAfter
<1>2. ASSUME NEW b \in Gate!Builds, Gate!ThrottleExpires(b) PROVE Gate!ThrottledIsRecorded'
  BY <1>2 DEF Gate!ThrottleExpires
<1>3. ASSUME NEW a \in Admins,
             \/ Gate!OpenScreen(a)
             \/ Gate!Save(a)
             \/ Gate!SaveRefused(a)
             \/ Gate!Invalidate(a)
             \/ \E p \in Policies, allow \in BOOLEAN, checked \in BOOLEAN : Gate!BeginSave(a, p, allow, checked)
      PROVE  Gate!ThrottledIsRecorded'
  BY <1>f, <1>3 DEF Gate!OpenScreen, Gate!Save, Gate!SaveRefused, Gate!Invalidate, Gate!BeginSave
<1>4. ASSUME NEW r \in Clients, Gate!ReadFromCache(r) \/ Gate!ReadMisses(r) \/ Gate!ReadRows(r) \/ Gate!CacheRows(r)
      PROVE  Gate!ThrottledIsRecorded'
  BY <1>f, <1>4 DEF Gate!ReadFromCache, Gate!ReadMisses, Gate!ReadRows, Gate!CacheRows
<1>5. ASSUME Gate!CacheExpires \/ Gate!Tick \/ (\E k \in Gate!SettingKeys, v \in Policies \union {Broken} : Gate!UpdateValue(k, v)) \/ UNCHANGED Gate!policyVars
      PROVE  Gate!ThrottledIsRecorded'
  BY <1>f, <1>5 DEF Gate!CacheExpires, Gate!Tick, Gate!UpdateValue, Gate!policyVars
<1> QED
  BY <1>1, <1>2, <1>3, <1>4, <1>5 DEF Gate!PolicyNext

\* Saves number the trail, and answered saves are among them.
LEMMA AnswersStep ==
    ASSUME Gate!PolicyAssumption, StoreType, FormType, AnswersAreSaved, [Gate!PolicyNext]_Gate!policyVars
    PROVE  AnswersAreSaved'
<1> USE DEF AnswersAreSaved
<1>0. Len(trail) \in Nat
  BY DEF StoreType
<1>f. ASSUME UNCHANGED <<trail, saved>>,
             \A x \in Admins : form'[x] = form[x] \/ form'[x].pc # "invalidate"
      PROVE  AnswersAreSaved'
  BY <1>f
<1>1. ASSUME NEW a \in Admins, Gate!Save(a) PROVE AnswersAreSaved'
  <2>1. Len(trail') = Len(trail) + 1
    BY <1>1 DEF Gate!Save, StoreType
  <2>2. \A x \in Admins : form'[x].pc = "invalidate" =>
            form'[x].saves = Len(trail) + 1 \/ form'[x] = form[x]
    BY <1>1 DEF Gate!Save, FormType
  <2>3. \A x \in Admins : form[x].pc = "invalidate" => form[x].saves \in Nat
    BY DEF FormType, FormStates, Gate!Closed
  <2> QED
    BY <1>0, <1>1, <2>1, <2>2, <2>3 DEF Gate!Save, StoreType
<1>2. ASSUME NEW a \in Admins, Gate!Invalidate(a) PROVE AnswersAreSaved'
  <2>1. form[a].saves \in Nat /\ form[a].saves <= Len(trail)
    BY <1>2 DEF Gate!Invalidate, FormType, FormStates, Gate!Closed
  <2>2. saved' \in {saved, form[a].saves}
    BY <1>2, <2>1, MaxOfTwo DEF Gate!Invalidate, StoreType
  <2>3. \A x \in Admins : form'[x] = form[x] \/ form'[x].pc # "invalidate"
    BY <1>2 DEF Gate!Invalidate, FormType, Gate!Closed
  <2> QED
    BY <1>2, <2>1, <2>2, <2>3 DEF Gate!Invalidate
<1>3. ASSUME NEW a \in Admins,
             \/ Gate!OpenScreen(a)
             \/ Gate!SaveRefused(a)
             \/ \E p \in Policies, allow \in BOOLEAN, checked \in BOOLEAN : Gate!BeginSave(a, p, allow, checked)
      PROVE  AnswersAreSaved'
  <2>1. \A x \in Admins : form'[x] = form[x] \/ form'[x].pc # "invalidate"
    BY <1>3 DEF Gate!OpenScreen, Gate!SaveRefused, Gate!BeginSave, Gate!SaveRequest, Gate!getPolicyRecord, FormType, Gate!Closed
  <2> QED
    BY <1>f, <1>3, <2>1 DEF Gate!OpenScreen, Gate!SaveRefused, Gate!BeginSave
<1>4. ASSUME NEW r \in Clients, Gate!ReadFromCache(r) \/ Gate!ReadMisses(r) \/ Gate!ReadRows(r) \/ Gate!CacheRows(r)
      PROVE  AnswersAreSaved'
  BY <1>f, <1>4 DEF Gate!ReadFromCache, Gate!ReadMisses, Gate!ReadRows, Gate!CacheRows
<1>5. ASSUME NEW b \in Gate!Builds, Gate!ThrottleExpires(b) \/ \E written \in BOOLEAN : Gate!Observe(b, written)
      PROVE  AnswersAreSaved'
  BY <1>f, <1>5 DEF Gate!ThrottleExpires, Gate!Observe
<1>6. ASSUME Gate!CacheExpires \/ Gate!Tick \/ (\E k \in Gate!SettingKeys, v \in Policies \union {Broken} : Gate!UpdateValue(k, v)) \/ UNCHANGED Gate!policyVars
      PROVE  AnswersAreSaved'
  BY <1>f, <1>6 DEF Gate!CacheExpires, Gate!Tick, Gate!UpdateValue, Gate!policyVars
<1> QED
  BY <1>1, <1>2, <1>3, <1>4, <1>5, <1>6 DEF Gate!PolicyNext

LEMMA ReadsStep ==
    ASSUME StoreType, FormType, ReadType, AnswersAreSaved, ReadsAreCurrent, [Gate!PolicyNext]_Gate!policyVars
    PROVE  ReadsAreCurrent'
<1> USE DEF ReadsAreCurrent
<1>f. ASSUME saved' = saved,
             \A x \in Clients : client'[x] = client[x] \/ client'[x].pc = "idle"
      PROVE  ReadsAreCurrent'
  BY <1>f
<1>1. ASSUME NEW a \in Admins, Gate!Invalidate(a) PROVE ReadsAreCurrent'
  <2>1. form[a].saves \in Nat
    BY <1>1 DEF Gate!Invalidate, FormType, FormStates, Gate!Closed
  <2>2. saved' \in Nat /\ saved' >= saved
    BY <1>1, <2>1, MaxOfTwo DEF Gate!Invalidate, StoreType
  <2>3. ASSUME NEW x \in Clients
        PROVE  /\ client'[x].pc = client[x].pc /\ client'[x].floor = client[x].floor
               /\ client'[x].saves = client[x].saves /\ client[x].floor \in Nat
               /\ client[x].pc = "set" => client'[x].late
    BY <1>1 DEF Gate!Invalidate, Gate!ReadsUnderWay, ReadType, ReadStates
  <2> QED
    BY <2>2, <2>3 DEF StoreType
<1>2. ASSUME NEW r \in Clients, Gate!ReadMisses(r) PROVE ReadsAreCurrent'
  <2>1. client'[r].pc = "load" /\ client'[r].floor = saved /\ \A x \in Clients : x = r \/ client'[x] = client[x]
    BY <1>2 DEF Gate!ReadMisses, ReadType, ReadStates
  <2>2. saved' = saved /\ saved <= saved
    BY <1>2 DEF Gate!ReadMisses, StoreType
  <2> QED
    BY <2>1, <2>2
<1>3. ASSUME NEW r \in Clients, Gate!ReadRows(r) PROVE ReadsAreCurrent'
  <2>1. \A x \in Clients : x = r \/ client'[x] = client[x]
    BY <1>3 DEF Gate!ReadRows, ReadType
  <2>2. CASE client' = [client EXCEPT ![r] = Gate!NoRead]
    BY <1>3, <2>1, <2>2 DEF Gate!ReadRows, Gate!NoRead, ReadType
  <2>3. CASE client' = [client EXCEPT ![r].pc = "set", ![r].value = policy.value, ![r].saves = Len(trail)]
    <3>1. client'[r].pc = "set" /\ client'[r].saves = Len(trail) /\ client'[r].floor = client[r].floor
      BY <2>3 DEF ReadType, ReadStates
    <3>2. client[r].floor <= saved /\ client[r].floor \in Nat /\ saved \in Nat /\ Len(trail) \in Nat
      BY <1>3 DEF Gate!ReadRows, ReadType, ReadStates, StoreType
    <3> QED
      BY <1>3, <2>1, <3>1, <3>2 DEF Gate!ReadRows, AnswersAreSaved
  <2> QED
    BY <1>3, <2>2, <2>3 DEF Gate!ReadRows
<1>4. ASSUME NEW r \in Clients, Gate!ReadFromCache(r) \/ Gate!CacheRows(r) PROVE ReadsAreCurrent'
  <2>1. \A x \in Clients : client'[x] = client[x] \/ client'[x].pc = "idle"
    BY <1>4 DEF Gate!ReadFromCache, Gate!CacheRows, Gate!Answer, Gate!NoRead, ReadType
  <2> QED
    BY <1>4, <1>f, <2>1 DEF Gate!ReadFromCache, Gate!CacheRows
<1>5. ASSUME NEW a \in Admins,
             \/ Gate!OpenScreen(a)
             \/ Gate!Save(a)
             \/ Gate!SaveRefused(a)
             \/ \E p \in Policies, allow \in BOOLEAN, checked \in BOOLEAN : Gate!BeginSave(a, p, allow, checked)
      PROVE  ReadsAreCurrent'
  BY <1>f, <1>5 DEF Gate!OpenScreen, Gate!Save, Gate!SaveRefused, Gate!BeginSave
<1>6. ASSUME NEW b \in Gate!Builds, Gate!ThrottleExpires(b) \/ \E written \in BOOLEAN : Gate!Observe(b, written)
      PROVE  ReadsAreCurrent'
  BY <1>f, <1>6 DEF Gate!ThrottleExpires, Gate!Observe
<1>7. ASSUME Gate!CacheExpires \/ Gate!Tick \/ (\E k \in Gate!SettingKeys, v \in Policies \union {Broken} : Gate!UpdateValue(k, v)) \/ UNCHANGED Gate!policyVars
      PROVE  ReadsAreCurrent'
  BY <1>f, <1>7 DEF Gate!CacheExpires, Gate!Tick, Gate!UpdateValue, Gate!policyVars
<1> QED
  BY <1>1, <1>2, <1>3, <1>4, <1>5, <1>6, <1>7 DEF Gate!PolicyNext

LEMMA CacheStep ==
    ASSUME StoreType, ReadType, ReadsAreCurrent, CacheIsCurrent, [Gate!PolicyNext]_Gate!policyVars
    PROVE  CacheIsCurrent'
<1> USE DEF CacheIsCurrent
<1>f. public' = Nil \/ UNCHANGED <<public, saved>> => CacheIsCurrent'
  OBVIOUS
<1>1. ASSUME NEW r \in Clients, Gate!CacheRows(r) PROVE CacheIsCurrent'
  <2>1. public'.pinned = client[r].late /\ public'.saves = client[r].saves /\ saved' = saved
    BY <1>1 DEF Gate!CacheRows
  <2> QED
    BY <1>1, <2>1 DEF Gate!CacheRows, ReadsAreCurrent
<1>2. ASSUME NEW r \in Clients, Gate!ReadFromCache(r) \/ Gate!ReadMisses(r) \/ Gate!ReadRows(r) PROVE CacheIsCurrent'
  BY <1>f, <1>2 DEF Gate!ReadFromCache, Gate!ReadMisses, Gate!ReadRows
<1>3. ASSUME NEW a \in Admins,
             \/ Gate!OpenScreen(a)
             \/ Gate!Save(a)
             \/ Gate!SaveRefused(a)
             \/ Gate!Invalidate(a)
             \/ \E p \in Policies, allow \in BOOLEAN, checked \in BOOLEAN : Gate!BeginSave(a, p, allow, checked)
      PROVE  CacheIsCurrent'
  BY <1>f, <1>3 DEF Gate!OpenScreen, Gate!Save, Gate!SaveRefused, Gate!Invalidate, Gate!CacheAfterSave, Gate!BeginSave
<1>4. ASSUME NEW b \in Gate!Builds, Gate!ThrottleExpires(b) \/ \E written \in BOOLEAN : Gate!Observe(b, written)
      PROVE  CacheIsCurrent'
  BY <1>f, <1>4 DEF Gate!ThrottleExpires, Gate!Observe
<1>5. ASSUME Gate!CacheExpires \/ Gate!Tick \/ (\E k \in Gate!SettingKeys, v \in Policies \union {Broken} : Gate!UpdateValue(k, v)) \/ UNCHANGED Gate!policyVars
      PROVE  CacheIsCurrent'
  BY <1>f, <1>5 DEF Gate!CacheExpires, Gate!Tick, Gate!UpdateValue, Gate!policyVars
<1> QED
  BY <1>1, <1>2, <1>3, <1>4, <1>5 DEF Gate!PolicyNext

LEMMA ShownStep ==
    ASSUME StoreType, ReadType, ReadsAreCurrent, CacheIsCurrent, Gate!ReadsShowAnsweredSaves, [Gate!PolicyNext]_Gate!policyVars
    PROVE  Gate!ReadsShowAnsweredSaves'
<1> USE DEF Gate!ReadsShowAnsweredSaves
<1>f. UNCHANGED shown => Gate!ReadsShowAnsweredSaves'
  OBVIOUS
<1>1. ASSUME NEW r \in Clients, Gate!ReadFromCache(r) PROVE Gate!ReadsShowAnsweredSaves'
  <2>1. shown'[r].saves = public.saves /\ shown'[r].floor = saved /\ shown'[r].pinned = public.pinned
    BY <1>1 DEF Gate!ReadFromCache, Gate!Answer, ReadType
  <2>2. \A x \in Clients : x = r \/ shown'[x] = shown[x]
    BY <1>1 DEF Gate!ReadFromCache, Gate!Answer, ReadType
  <2>3. public.saves \in Nat /\ saved \in Nat /\ (public.pinned \/ saved <= public.saves)
    BY <1>1 DEF Gate!ReadFromCache, CacheIsCurrent, ReadType, StoreType
  <2> QED
    BY <2>1, <2>2, <2>3
<1>2. ASSUME NEW r \in Clients, Gate!CacheRows(r) PROVE Gate!ReadsShowAnsweredSaves'
  <2>1. shown'[r].saves = client[r].saves /\ shown'[r].floor = client[r].floor
    BY <1>2 DEF Gate!CacheRows, Gate!Answer, ReadType
  <2>2. \A x \in Clients : x = r \/ shown'[x] = shown[x]
    BY <1>2 DEF Gate!CacheRows, Gate!Answer, ReadType
  <2>3. client[r].saves \in Nat /\ client[r].floor \in Nat /\ client[r].floor <= client[r].saves
    BY <1>2 DEF Gate!CacheRows, ReadsAreCurrent, ReadType, ReadStates
  <2> QED
    BY <2>1, <2>2, <2>3
<1>3. ASSUME NEW r \in Clients, Gate!ReadMisses(r) \/ Gate!ReadRows(r) PROVE Gate!ReadsShowAnsweredSaves'
  BY <1>f, <1>3 DEF Gate!ReadMisses, Gate!ReadRows
<1>4. ASSUME NEW a \in Admins,
             \/ Gate!OpenScreen(a)
             \/ Gate!Save(a)
             \/ Gate!SaveRefused(a)
             \/ Gate!Invalidate(a)
             \/ \E p \in Policies, allow \in BOOLEAN, checked \in BOOLEAN : Gate!BeginSave(a, p, allow, checked)
      PROVE  Gate!ReadsShowAnsweredSaves'
  BY <1>f, <1>4 DEF Gate!OpenScreen, Gate!Save, Gate!SaveRefused, Gate!Invalidate, Gate!BeginSave
<1>5. ASSUME NEW b \in Gate!Builds, Gate!ThrottleExpires(b) \/ \E written \in BOOLEAN : Gate!Observe(b, written)
      PROVE  Gate!ReadsShowAnsweredSaves'
  BY <1>f, <1>5 DEF Gate!ThrottleExpires, Gate!Observe
<1>6. ASSUME Gate!CacheExpires \/ Gate!Tick \/ (\E k \in Gate!SettingKeys, v \in Policies \union {Broken} : Gate!UpdateValue(k, v)) \/ UNCHANGED Gate!policyVars
      PROVE  Gate!ReadsShowAnsweredSaves'
  BY <1>f, <1>6 DEF Gate!CacheExpires, Gate!Tick, Gate!UpdateValue, Gate!policyVars
<1> QED
  BY <1>1, <1>2, <1>3, <1>4, <1>5, <1>6 DEF Gate!PolicyNext

-----------------------------------------------------------------------------
(* The invariant *)

LEMMA PolicyStarts == Gate!PolicyInit => PolicyInv
<1> SUFFICES ASSUME Gate!PolicyInit PROVE PolicyInv
  OBVIOUS
<1> USE DEF Gate!PolicyInit
<1>1. StoreType
  BY DEF StoreType, Values
<1>2. FormType
  BY DEF FormType, FormStates, Gate!Closed
<1>3. ReadType
  BY DEF ReadType, ReadStates, Gate!NoRead
<1>4. PoliciesAreJudged
  <2>1. Judged(policy.value, policy.value \in confirmed)
    BY DEF Judged, Gate!Seed
  <2> QED
    BY <2>1 DEF PoliciesAreJudged, Gate!NoRead, Gate!Closed
<1>5. Gate!HistoryIsAChain /\ Gate!ThrottledIsRecorded
  BY DEF Gate!HistoryIsAChain, Gate!ThrottledIsRecorded
<1>6. AnswersAreSaved /\ ReadsAreCurrent /\ CacheIsCurrent /\ Gate!ReadsShowAnsweredSaves
  BY DEF AnswersAreSaved, ReadsAreCurrent, CacheIsCurrent, Gate!ReadsShowAnsweredSaves, Gate!Closed, Gate!NoRead
<1> QED
  BY <1>1, <1>2, <1>3, <1>4, <1>5, <1>6 DEF PolicyInv

(***************************************************************************)
(* Every reachable state of the policy, its cache, its readers and its     *)
(* administrators satisfies the inductive invariant.                       *)
(***************************************************************************)
THEOREM PolicyInvariance == Gate!PolicySpec => []PolicyInv
<1>1. PolicyInv /\ [Gate!PolicyNext]_Gate!policyVars => PolicyInv'
  BY StoreTypeStep, FormTypeStep, ReadTypeStep, JudgedStep, ChainStep, ThrottleStep, AnswersStep, ReadsStep,
     CacheStep, ShownStep, PolicyTypes DEF PolicyInv
<1> QED
  BY <1>1, PolicyStarts, PTL DEF Gate!PolicySpec

\* A judged policy that refuses a client lets it update.
LEMMA JudgedLetsUpdate ==
    ASSUME Gate!PolicyAssumption, StoreType, NEW v \in Values \ outside, Judged(v, v \in confirmed),
           NEW b \in Gate!Builds, NEW os \in OSVersions, Gate!AppVersionGate(v, b, os)
    PROVE  /\ ~Gate!isOSVersionBelow(os, v.os)
           /\ platform = "ios" => v.store = "apple"
           /\ v \in confirmed \/ \E newer \in observed : ~Gate!AppVersionGate(v, newer, os)
<1>1. v # Broken /\ Gate!EvaluateAppUpdate(v, b, os) = "force"
  BY DEF Gate!AppVersionGate
<1>2. v \in Policies
  BY <1>1 DEF Values, Gate!Seed, Gate!EvaluateAppUpdate
<1>3. v.min \in Int /\ b > 0
  BY <1>2 DEF Gate!PolicyAssumption, Gate!Builds
<1>4. v.force /\ ~Gate!isOSVersionBelow(os, v.os)
  BY <1>1, <1>3 DEF Gate!EvaluateAppUpdate
<1>5. ASSUME NEW newer \in observed, v.min <= newer PROVE ~Gate!AppVersionGate(v, newer, os)
  <2>1. newer \in Int /\ newer > 0 /\ ~(newer < v.min)
    BY <1>3, <1>5 DEF StoreType, Gate!Builds
  <2> QED
    BY <2>1 DEF Gate!AppVersionGate, Gate!EvaluateAppUpdate
<1> QED
  BY <1>1, <1>4, <1>5 DEF Judged

(***************************************************************************)
(* The gate never locks a client out for good, reads show the answered     *)
(* saves, every change is on the trail and skipped observations are        *)
(* recorded (SavePolicy, ValidateAppUpdatePolicy, AppVersionGate,          *)
(* GetPublicSettings, Observe), whatever the administrators, the readers   *)
(* and the cache do meanwhile.                                             *)
(***************************************************************************)
THEOREM GateIsSound == Gate!PolicySpec => []Gate!PolicyIsSound
<1>1. ASSUME PolicyInv PROVE Gate!RefusedClientsCanUpdate
  <2> SUFFICES ASSUME NEW r \in Clients, shown[r] # Nil, shown[r].value \notin outside,
                      NEW b \in Gate!Builds, NEW os \in OSVersions, Gate!AppVersionGate(shown[r].value, b, os)
               PROVE  /\ ~Gate!isOSVersionBelow(os, shown[r].value.os)
                      /\ platform = "ios" => shown[r].value.store = "apple"
                      /\ \/ shown[r].value \in confirmed
                         \/ \E newer \in observed : ~Gate!AppVersionGate(shown[r].value, newer, os)
    BY DEF Gate!RefusedClientsCanUpdate
  <2>1. shown[r].value \in Values /\ Judged(shown[r].value, shown[r].value \in confirmed)
    BY <1>1 DEF PolicyInv, ReadType, PoliciesAreJudged
  <2> QED
    BY <1>1, <2>1, JudgedLetsUpdate, PolicyTypes DEF PolicyInv
<1>2. PolicyInv => Gate!PolicyIsSound
  BY <1>1 DEF PolicyInv, Gate!PolicyIsSound
<1> QED
  BY <1>2, PolicyInvariance, PTL

(***************************************************************************)
(* A save that names the policy it was made on replaces exactly that one,  *)
(* also when two saves carry the same second (SavePolicy's comparison      *)
(* under the row's lock).                                                  *)
(***************************************************************************)
THEOREM PolicyEditsAreNotLost == Gate!PolicySpec => Gate!PolicyEditsNotLost
<1> DEFINE Kept == \A a \in Admins :
                      (form[a].pc = "saving" /\ form'[a].pc = "invalidate" /\ form[a].checked)
                         => form[a].seen = policy.value
<1>1. PolicyInv /\ [Gate!PolicyNext]_Gate!policyVars => Kept
  <2> SUFFICES ASSUME PolicyInv, [Gate!PolicyNext]_Gate!policyVars,
                      NEW a \in Admins, form[a].pc = "saving", form'[a].pc = "invalidate", form[a].checked
               PROVE  form[a].seen = policy.value
    OBVIOUS
  <2>0. FormType
    BY DEF PolicyInv
  <2>1. CASE UNCHANGED form
    BY <2>1
  <2>2. ASSUME NEW x \in Admins,
               Gate!OpenScreen(x) \/ Gate!SaveRefused(x) \/ Gate!Invalidate(x)
                 \/ \E p \in Policies, allow \in BOOLEAN, checked \in BOOLEAN : Gate!BeginSave(x, p, allow, checked)
        PROVE  FALSE
    BY <2>0, <2>2
       DEF Gate!OpenScreen, Gate!SaveRefused, Gate!Invalidate, Gate!BeginSave, Gate!SaveRequest, Gate!getPolicyRecord, Gate!Closed, FormType
  <2>3. ASSUME NEW x \in Admins, Gate!Save(x) PROVE form[a].seen = policy.value
    <3>1. x = a
      BY <2>0, <2>3 DEF Gate!Save, FormType
    <3> QED
      BY <2>3, <3>1 DEF Gate!Save, Gate!NotChangedSince, Gate!storedPolicyMatcher
  <2>4. ASSUME NEW r \in Clients, Gate!ReadFromCache(r) \/ Gate!ReadMisses(r) \/ Gate!ReadRows(r) \/ Gate!CacheRows(r)
        PROVE  UNCHANGED form
    BY <2>4 DEF Gate!ReadFromCache, Gate!ReadMisses, Gate!ReadRows, Gate!CacheRows
  <2>5. ASSUME NEW b \in Gate!Builds, Gate!ThrottleExpires(b) \/ \E written \in BOOLEAN : Gate!Observe(b, written)
        PROVE  UNCHANGED form
    BY <2>5 DEF Gate!ThrottleExpires, Gate!Observe
  <2>6. ASSUME Gate!CacheExpires \/ Gate!Tick \/ (\E k \in Gate!SettingKeys, v \in Policies \union {Broken} : Gate!UpdateValue(k, v)) \/ UNCHANGED Gate!policyVars
        PROVE  UNCHANGED form
    BY <2>6 DEF Gate!CacheExpires, Gate!Tick, Gate!UpdateValue, Gate!policyVars
  <2> QED
    BY <2>1, <2>2, <2>3, <2>4, <2>5, <2>6 DEF Gate!PolicyNext
<1>2. Gate!PolicyEditsNotLost <=> [][Kept]_Gate!policyVars
  BY DEF Gate!PolicyEditsNotLost
<1> QED
  BY <1>1, <1>2, PolicyInvariance, PTL DEF Gate!PolicySpec
-----------------------------------------------------------------------------
(* The notification texts *)

KnownTexts == Texts \union {Templates!Catalog["sms"].default, Templates!Catalog["push"].default}
TextRows == [text : Texts, version : Nat \ {0}, channel : {"sms", "push"}]
GotTexts == [text : KnownTexts, version : Nat]
Renders ==
    [pc : {"idle", "generation", "load", "check", "set"}, gen : Nat, got : GotTexts \union {Nil},
     floor : Nat, late : BOOLEAN]
TextForms == [pc : {"none", "open", "bump", "drop"}, text : KnownTexts \union {Nil}, version : Nat]
CachedTexts == [text : KnownTexts, version : Nat, pinned : BOOLEAN]
SentTexts == [text : KnownTexts, version : Nat, floor : Nat, pinned : BOOLEAN]

\* What a text that reaches a member looks like.
Presentable(t) ==
    LET out == Templates!renderTemplateText(t)
    IN  /\ ~out.braces
        /\ Templates!definition.required \subseteq out.shows
        /\ Templates!definition.channel = "sms" =>
             out.bytes <= Templates!SMSTemplateMaxEUCKRBytes /\ t.encodable

TextType ==
    /\ key \in {"sms", "push"} /\ text \in TextRows \union {Nil} /\ gen \in Nat
    /\ cached \in CachedTexts \union {Nil} /\ sent \in [Requests -> SentTexts \union {Nil}]
    /\ render \in [Requests -> Renders] /\ edit \in [Editors -> TextForms]
    /\ answered \in Nat

RowVersion == IF text = Nil THEN 0 ELSE text.version

\* A form is the row or an earlier version of it, or the default.
FormsFollowTheRow ==
    /\ answered <= RowVersion
    /\ \A e \in Editors :
         /\ edit[e].pc \in {"bump", "drop"} => edit[e].version > 0
         /\ edit[e].pc # "none" /\ edit[e].version > 0 =>
              /\ text # Nil /\ edit[e].version <= text.version
              /\ edit[e].version = text.version => edit[e].text = text.text

\* A version no older than what is answered, or about to be.
Settled(v) ==
    v = 0 \/ (v >= answered /\ \A e \in Editors : edit[e].pc = "drop" => v >= edit[e].version)

\* A render under way has a text that covers what it must show; an edit since it
\* read the generation is noticed, or the render is known to be late.
RendersCover ==
    \A r \in Requests :
        /\ render[r].gen <= gen
        /\ render[r].pc # "idle" => render[r].floor <= answered
        /\ render[r].pc \in {"check", "set"} =>
             /\ render[r].got \in GotTexts /\ Presentable(render[r].got.text)
             /\ render[r].got.version = 0 \/ render[r].got.version >= render[r].floor
        /\ render[r].pc = "check" /\ render[r].gen = gen => Settled(render[r].got.version)
        /\ render[r].pc = "set" /\ ~render[r].late => Settled(render[r].got.version)

CachedCovers ==
    cached # Nil =>
        /\ Presentable(cached.text)
        /\ cached.pinned \/ cached.version = 0 \/ cached.version >= answered

SentCovers ==
    /\ Templates!SendsUseAnsweredEdits
    /\ \A r \in Requests : sent[r] # Nil => Presentable(sent[r].text)

TextInv == TextType /\ FormsFollowTheRow /\ RendersCover /\ CachedCovers /\ SentCovers

-----------------------------------------------------------------------------
(* The rules of a text *)

\* The one placeholder of the verification code's default text is six bytes.
LEMMA CodeIsSixBytes == Templates!MapThenSumSet(Templates!SampleBytes, {"code"}) = 6
<1> DEFINE pick(s) == CHOOSE x \in s : TRUE
           step(g) == [s \in SUBSET {"code"} |->
                         IF s = {} THEN 0 ELSE Templates!SampleBytes(pick(s)) + g[s \ {pick(s)}]]
           size == [s \in SUBSET {"code"} |-> IF s = {} THEN 0 ELSE 6]
<1>1. \A s \in SUBSET {"code"} : s # {} => s = {"code"}
  OBVIOUS
<1>2. pick({"code"}) = "code" /\ {"code"} \ {pick({"code"})} = {}
  OBVIOUS
<1>3. Templates!SampleBytes("code") = 6
  BY DEF Templates!SampleBytes
<1> HIDE DEF pick
<1>4. size = step(size)
  BY <1>1, <1>2, <1>3
<1>5. ASSUME NEW g, g = step(g) PROVE g[{"code"}] = 6
  <2>1. g[{}] = 0
    BY <1>5
  <2>2. g[{"code"}] = Templates!SampleBytes(pick({"code"})) + g[{"code"} \ {pick({"code"})}]
    BY <1>5
  <2> QED
    BY <1>2, <1>3, <2>1, <2>2
<1>6. Templates!MapThenSumSet(Templates!SampleBytes, {"code"}) = (CHOOSE g : g = step(g))[{"code"}]
  BY Zenon DEF Templates!MapThenSumSet, Templates!MapThenFoldSet, pick
<1>7. (CHOOSE g : g = step(g)) = step(CHOOSE g : g = step(g))
  <2> HIDE DEF step, size
  <2> QED
    BY <1>4
<1> QED
  <2> HIDE DEF step
  <2> QED
    BY <1>5, <1>6, <1>7

LEMMA NothingIsSpelled == Templates!MapThenSumSet(Templates!SpelledRunes, {}) = 0
<1> DEFINE pick(s) == CHOOSE x \in s : TRUE
           step(g) == [s \in SUBSET {} |->
                         IF s = {} THEN 0 ELSE Templates!SpelledRunes(pick(s)) + g[s \ {pick(s)}]]
           size == [s \in SUBSET {} |-> 0]
<1> HIDE DEF pick
<1>1. size = step(size)
  OBVIOUS
<1>2. ASSUME NEW g, g = step(g) PROVE g[{}] = 0
  BY <1>2
<1>3. Templates!MapThenSumSet(Templates!SpelledRunes, {}) = (CHOOSE g : g = step(g))[{}]
  BY Zenon DEF Templates!MapThenSumSet, Templates!MapThenFoldSet, pick
<1>4. (CHOOSE g : g = step(g)) = step(CHOOSE g : g = step(g))
  <2> HIDE DEF step, size
  <2> QED
    BY <1>1
<1> QED
  <2> HIDE DEF step
  <2> QED
    BY <1>2, <1>3, <1>4

\* A text that validation accepts may be sent.
LEMMA ValidIsPresentable ==
    ASSUME NEW t, Templates!ValidateNotificationTemplate(t)
    PROVE  Presentable(t)
<1> DEFINE out == Templates!renderTemplateText(t)
           allowed == Templates!definition.allowed
           required == Templates!definition.required
<1>1. t.titleTokens \cup t.tokens \subseteq allowed /\ ~t.stray /\ required \subseteq t.tokens
  BY DEF Templates!ValidateNotificationTemplate, Templates!validateTemplatePlaceholders
<1>2. Templates!definition.channel = "sms" => t.encodable /\ out.bytes <= Templates!SMSTemplateMaxEUCKRBytes
  BY DEF Templates!ValidateNotificationTemplate, Templates!validateSMSTemplateLength
<1>3. /\ out.braces = (t.stray \/ (t.titleTokens \cup t.tokens) \ allowed # {})
      /\ out.shows = t.tokens \cap allowed
  BY DEF Templates!renderTemplateText
<1> HIDE DEF out, allowed, required
<1>4. ~out.braces /\ required \subseteq out.shows
  BY <1>1, <1>3
<1> QED
  BY <1>2, <1>4 DEF Presentable, out, allowed, required

\* And so may the default of either entry of the catalog.
LEMMA DefaultIsPresentable ==
    ASSUME key \in {"sms", "push"}
    PROVE  /\ Templates!definition.default \in KnownTexts
           /\ Presentable(Templates!definition.default)
<1> DEFINE def == Templates!definition.default
           out == Templates!renderTemplateText(def)
           allowed == Templates!definition.allowed
<1> DEFINE samples == Templates!MapThenSumSet(Templates!SampleBytes, def.tokens \cap allowed)
           spelled == Templates!MapThenSumSet(Templates!SpelledRunes, def.tokens \ allowed)
<1>1. /\ out.braces = (def.stray \/ (def.titleTokens \cup def.tokens) \ allowed # {})
      /\ out.shows = def.tokens \cap allowed
      /\ out.bytes = def.body + samples + spelled
  <2>1. out = [braces |-> def.stray \/ (def.titleTokens \cup def.tokens) \ allowed # {},
               shows |-> def.tokens \cap allowed, bytes |-> def.body + samples + spelled]
    BY Zenon DEF Templates!renderTemplateText
  <2> HIDE DEF out, samples, spelled
  <2> QED
    BY <2>1
<1>2. CASE key = "sms"
  <2>1. /\ def.titleTokens = {} /\ def.tokens = {"code"} /\ def.stray = FALSE /\ def.body = 41
        /\ def.encodable = TRUE /\ allowed = {"code"} /\ Templates!definition.required = {"code"}
        /\ def = Templates!Catalog["sms"].default
    BY <1>2 DEF Templates!definition, Templates!Catalog
  <2>2. def.tokens \cap allowed = {"code"} /\ def.tokens \ allowed = {}
    BY <2>1
  <2> HIDE DEF out, def, allowed
  <2>a. samples = 6 /\ spelled = 0
    BY Zenon, <2>2, CodeIsSixBytes, NothingIsSpelled
  <2> HIDE DEF samples, spelled
  <2>3. out.bytes = 41 + 6 + 0
    BY <1>1, <2>1, <2>a
  <2>4. out.bytes <= Templates!SMSTemplateMaxEUCKRBytes
    BY <2>3 DEF Templates!SMSTemplateMaxEUCKRBytes
  <2>5. ~out.braces /\ Templates!definition.required \subseteq out.shows
    BY <1>1, <2>1
  <2> QED
    BY <2>1, <2>4, <2>5 DEF Presentable, KnownTexts, def, out
<1>3. CASE key = "push"
  <2>1. /\ def.titleTokens = {"senderName"} /\ def.tokens = {"content"} /\ def.stray = FALSE
        /\ allowed = {"senderName", "content"} /\ Templates!definition.required = {"content"}
        /\ Templates!definition.channel = "push" /\ def = Templates!Catalog["push"].default
    BY <1>3 DEF Templates!definition, Templates!Catalog
  <2> HIDE DEF out, def, allowed, samples, spelled
  <2>2. ~out.braces /\ Templates!definition.required \subseteq out.shows
    BY <1>1, <2>1
  <2> QED
    BY <2>1, <2>2 DEF Presentable, KnownTexts, def, out
<1> QED
  BY <1>2, <1>3

-----------------------------------------------------------------------------
(* The steps of the texts *)

\* What a render reads: the row, when it is usable, or the default.
LEMMA LoadedText ==
    ASSUME TextType, FormsFollowTheRow, NEW got, got = Templates!loadOrDefault \/ got = Templates!Fallback
    PROVE  /\ got \in GotTexts /\ Presentable(got.text) /\ Settled(got.version)
           /\ got.version = 0 \/ got.version >= answered
<1>1. CASE got = Templates!Fallback
  <2>1. got = [text |-> Templates!definition.default, version |-> 0]
    BY <1>1 DEF Templates!Fallback
  <2>2. Templates!definition.default \in KnownTexts /\ Presentable(Templates!definition.default)
    BY DefaultIsPresentable DEF TextType
  <2> QED
    BY <2>1, <2>2 DEF GotTexts, Settled
<1>2. CASE got # Templates!Fallback
  <2>1. Templates!Usable(text) /\ got = [text |-> text.text, version |-> text.version]
    BY <1>2 DEF Templates!loadOrDefault
  <2>2. text # Nil /\ Templates!ValidateNotificationTemplate(text.text)
    BY <2>1 DEF Templates!Usable
  <2>3. text \in TextRows
    BY <2>2 DEF TextType
  <2>4. got \in GotTexts /\ got.text = text.text /\ got.version = text.version /\ text.version \in Nat
    BY <2>1, <2>3 DEF GotTexts, TextRows, KnownTexts
  <2>5. answered <= text.version /\ \A e \in Editors : edit[e].pc = "drop" => edit[e].version <= text.version
    <3>1. \A e \in Editors : edit[e].pc = "drop" => edit[e].pc # "none" /\ edit[e].version > 0
      BY DEF FormsFollowTheRow
    <3> QED
      BY <2>2, <3>1 DEF FormsFollowTheRow, RowVersion
  <2>6. \A e \in Editors : edit[e].version \in Nat
    BY DEF TextType, TextForms
  <2>7. Settled(got.version) /\ got.version >= answered
    BY <2>4, <2>5, <2>6 DEF Settled, TextType
  <2> QED
    BY <2>2, <2>4, <2>7, ValidIsPresentable
<1> QED
  BY <1>1, <1>2

\* A text is sent: what it shows covers what it had to.
LEMMA DeliveredText ==
    ASSUME TextInv, NEW r \in Requests, NEW got, NEW floor \in Nat, NEW pinned \in BOOLEAN,
           got.text \in KnownTexts, got.version \in Nat, Presentable(got.text), key' = key,
           pinned \/ got.version = 0 \/ got.version >= floor,
           Templates!Deliver(r, got, floor, pinned)
    PROVE  /\ sent' \in [Requests -> SentTexts \union {Nil}] /\ render' \in [Requests -> Renders]
           /\ render'[r].pc = "idle" /\ render'[r].gen = 0
           /\ \A q \in Requests : q # r => render'[q] = render[q]
           /\ SentCovers'
<1>1. /\ sent' = [sent EXCEPT ![r] = [text |-> got.text, version |-> got.version,
                                     floor |-> floor, pinned |-> pinned]]
      /\ render' = [render EXCEPT ![r] = Templates!NoRender]
  BY DEF Templates!Deliver
<1>2. sent \in [Requests -> SentTexts \union {Nil}] /\ render \in [Requests -> Renders]
  BY DEF TextInv, TextType
<1>3. [text |-> got.text, version |-> got.version, floor |-> floor, pinned |-> pinned] \in SentTexts
  BY DEF SentTexts
<1>4. Templates!NoRender \in Renders /\ Templates!NoRender.pc = "idle" /\ Templates!NoRender.gen = 0
  BY DEF Templates!NoRender, Renders
<1>5. \A t : Presentable(t)' <=> Presentable(t)
  BY DEF Presentable, Templates!renderTemplateText, Templates!definition
<1>6. SentCovers'
  <2>1. ASSUME NEW q \in Requests, sent'[q] # Nil
        PROVE  /\ sent'[q].version = 0 \/ sent'[q].version >= sent'[q].floor \/ sent'[q].pinned
               /\ Presentable(sent'[q].text)
    <3>1. CASE q = r
      BY <1>1, <1>2, <3>1
    <3>2. CASE q # r
      BY <1>1, <1>2, <2>1, <3>2 DEF TextInv, SentCovers, Templates!SendsUseAnsweredEdits
    <3> QED
      BY <3>1, <3>2
  <2> QED
    BY <1>5, <2>1 DEF SentCovers, Templates!SendsUseAnsweredEdits
<1> QED
  BY <1>1, <1>2, <1>3, <1>4, <1>6

\* A render's own step: the row, the forms and what is answered do not move.
LEMMA RenderStepKeeps ==
    ASSUME TextInv, NEW r \in Requests, UNCHANGED <<key, text, gen, edit, answered>>,
           cached' \in CachedTexts \union {Nil}, CachedCovers',
           sent' \in [Requests -> SentTexts \union {Nil}], SentCovers',
           render' \in [Requests -> Renders], \A q \in Requests : q # r => render'[q] = render[q],
           render'[r].gen <= gen,
           render'[r].pc # "idle" => render'[r].floor <= answered,
           render'[r].pc \in {"check", "set"} =>
             /\ render'[r].got \in GotTexts /\ Presentable(render'[r].got.text)
             /\ render'[r].got.version = 0 \/ render'[r].got.version >= render'[r].floor,
           render'[r].pc = "check" /\ render'[r].gen = gen => Settled(render'[r].got.version),
           render'[r].pc = "set" /\ ~render'[r].late => Settled(render'[r].got.version)
    PROVE  TextInv'
<1>1. TextType' /\ FormsFollowTheRow'
  BY DEF TextInv, TextType, FormsFollowTheRow, RowVersion
<1>2. \A t : Presentable(t)' <=> Presentable(t)
  BY DEF Presentable, Templates!renderTemplateText, Templates!definition
<1>3. \A v : Settled(v)' <=> Settled(v)
  BY DEF Settled
<1>4. RendersCover'
  <2> SUFFICES ASSUME NEW q \in Requests
               PROVE  /\ render'[q].gen <= gen'
                      /\ render'[q].pc # "idle" => render'[q].floor <= answered'
                      /\ render'[q].pc \in {"check", "set"} =>
                           /\ render'[q].got \in GotTexts /\ Presentable(render[q].got.text)'
                           /\ render'[q].got.version = 0 \/ render'[q].got.version >= render'[q].floor
                      /\ render'[q].pc = "check" /\ render'[q].gen = gen' => Settled(render[q].got.version)'
                      /\ render'[q].pc = "set" /\ ~render'[q].late => Settled(render[q].got.version)'
    BY DEF RendersCover
  <2>1. Presentable(render'[q].got.text) <=> Presentable(render[q].got.text)'
    BY DEF Presentable, Templates!renderTemplateText, Templates!definition
  <2>2. Settled(render'[q].got.version) <=> Settled(render[q].got.version)'
    BY DEF Settled
  <2>3. CASE q = r
    BY <2>1, <2>2, <2>3
  <2>4. CASE q # r
    BY <2>1, <2>2, <2>4 DEF TextInv, RendersCover
  <2> QED
    BY <2>3, <2>4
<1> QED
  BY <1>1, <1>4 DEF TextInv

LEMMA RenderFromCacheKeeps ==
    ASSUME TextInv, NEW r \in Requests, Templates!RenderFromCache(r)
    PROVE  TextInv'
<1>1. /\ cached # Nil /\ Templates!Deliver(r, cached, answered, cached.pinned)
      /\ UNCHANGED <<key, text, cached, gen, edit, answered>>
  BY DEF Templates!RenderFromCache
<1>2. cached \in CachedTexts /\ answered \in Nat /\ gen \in Nat
  BY <1>1 DEF TextInv, TextType
<1>3. /\ cached.text \in KnownTexts /\ cached.version \in Nat /\ cached.pinned \in BOOLEAN
      /\ Presentable(cached.text) /\ (cached.pinned \/ cached.version = 0 \/ cached.version >= answered)
  BY <1>1, <1>2 DEF TextInv, CachedCovers, CachedTexts
<1>4. /\ sent' \in [Requests -> SentTexts \union {Nil}] /\ render' \in [Requests -> Renders]
      /\ render'[r].pc = "idle" /\ render'[r].gen = 0 /\ SentCovers'
      /\ \A q \in Requests : q # r => render'[q] = render[q]
  BY <1>1, <1>2, <1>3, DeliveredText
<1>5. CachedCovers'
  BY <1>1 DEF TextInv, CachedCovers, Presentable, Templates!renderTemplateText, Templates!definition
<1>6. 0 <= gen
  BY <1>2
<1> QED
  BY <1>1, <1>2, <1>4, <1>5, <1>6, RenderStepKeeps

\* A step that sends nothing and leaves the cache.
LEMMA NothingIsSent ==
    ASSUME TextInv, UNCHANGED <<key, cached, sent, answered>>
    PROVE  /\ cached' \in CachedTexts \union {Nil} /\ CachedCovers'
           /\ sent' \in [Requests -> SentTexts \union {Nil}] /\ SentCovers'
<1>1. CachedCovers'
  BY DEF TextInv, CachedCovers, Presentable, Templates!renderTemplateText, Templates!definition
<1>2. SentCovers'
  BY DEF TextInv, SentCovers, Presentable, Templates!renderTemplateText, Templates!definition,
         Templates!SendsUseAnsweredEdits
<1> QED
  BY <1>1, <1>2 DEF TextInv, TextType

LEMMA RenderMissesKeeps ==
    ASSUME TextInv, NEW r \in Requests, Templates!RenderMisses(r) \/ Templates!ReadGeneration(r)
    PROVE  TextInv'
<1>0. /\ UNCHANGED <<key, text, cached, gen, sent, edit, answered>>
      /\ render \in [Requests -> Renders] /\ answered \in Nat /\ gen \in Nat
  BY DEF Templates!RenderMisses, Templates!ReadGeneration, TextInv, TextType
<1>1. render' \in [Requests -> Renders] /\ \A q \in Requests : q # r => render'[q] = render[q]
  BY <1>0 DEF Templates!RenderMisses, Templates!ReadGeneration, Renders
<1>2. /\ render'[r].pc \in {"generation", "load"} /\ render'[r].gen <= gen
      /\ render'[r].floor <= answered
  <2>1. render[r] \in Renders /\ render[r].gen <= gen /\ (render[r].pc # "idle" => render[r].floor <= answered)
    BY <1>0 DEF TextInv, RendersCover
  <2>2. answered <= answered /\ gen <= gen
    BY <1>0
  <2>3. CASE Templates!RenderMisses(r)
    BY <1>0, <2>1, <2>2, <2>3 DEF Templates!RenderMisses, Renders
  <2>4. CASE Templates!ReadGeneration(r)
    BY <1>0, <2>1, <2>2, <2>4 DEF Templates!ReadGeneration, Renders
  <2> QED
    BY <2>3, <2>4
<1> QED
  BY <1>0, <1>1, <1>2, NothingIsSent, RenderStepKeeps

LEMMA LoadKeeps ==
    ASSUME TextInv, NEW r \in Requests, Templates!Load(r)
    PROVE  TextInv'
<1>0. /\ UNCHANGED <<key, text, cached, gen, sent, edit, answered>>
      /\ render \in [Requests -> Renders] /\ render[r] \in Renders /\ answered \in Nat /\ gen \in Nat
      /\ render[r].pc = "load"
  BY DEF Templates!Load, TextInv, TextType
<1>1. PICK got \in {Templates!loadOrDefault, Templates!Fallback} :
         render' = [render EXCEPT ![r].pc = "check", ![r].got = got]
  BY DEF Templates!Load
<1>2. /\ got \in GotTexts /\ Presentable(got.text) /\ Settled(got.version)
      /\ got.version = 0 \/ got.version >= answered
  BY <1>1, LoadedText DEF TextInv
<1>3. render[r].gen <= gen /\ render[r].floor <= answered /\ render[r].floor \in Nat
  BY <1>0 DEF TextInv, RendersCover, Renders
<1>4. got.version \in Nat /\ (got.version = 0 \/ got.version >= render[r].floor)
  BY <1>0, <1>2, <1>3 DEF GotTexts
<1>5. /\ render' \in [Requests -> Renders] /\ \A q \in Requests : q # r => render'[q] = render[q]
      /\ render'[r].pc = "check" /\ render'[r].got = got /\ render'[r].gen = render[r].gen
      /\ render'[r].floor = render[r].floor
  BY <1>0, <1>1, <1>2 DEF Renders
<1> QED
  BY <1>0, <1>2, <1>3, <1>4, <1>5, NothingIsSent, RenderStepKeeps

\* The comparison: an edit since the generation was read is noticed.
LEMMA CheckKeeps ==
    ASSUME TextInv, NEW r \in Requests, Templates!Check(r)
    PROVE  TextInv'
<1> DEFINE got == render[r].got
<1>0. /\ UNCHANGED <<key, text, cached, gen, edit, answered>> /\ render[r].pc = "check"
      /\ render \in [Requests -> Renders] /\ render[r] \in Renders /\ answered \in Nat /\ gen \in Nat
      /\ sent \in [Requests -> SentTexts \union {Nil}] /\ cached \in CachedTexts \union {Nil}
  BY DEF Templates!Check, TextInv, TextType
<1>1. /\ got \in GotTexts /\ Presentable(got.text) /\ (got.version = 0 \/ got.version >= render[r].floor)
      /\ render[r].gen <= gen /\ render[r].floor <= answered
      /\ render[r].gen = gen => Settled(got.version)
  BY <1>0 DEF TextInv, RendersCover
<1>2. got.text \in KnownTexts /\ got.version \in Nat /\ render[r].floor \in Nat /\ 0 <= gen
  BY <1>0, <1>1 DEF GotTexts, Renders
<1>3. CachedCovers'
  BY <1>0 DEF TextInv, CachedCovers, Presentable, Templates!renderTemplateText, Templates!definition
<1>4. CASE render[r].gen = gen
  <2>1. render' = [render EXCEPT ![r].pc = "set"] /\ UNCHANGED sent
    BY <1>4 DEF Templates!Check, Templates!SameGeneration
  <2>2. /\ render' \in [Requests -> Renders] /\ \A q \in Requests : q # r => render'[q] = render[q]
        /\ render'[r].pc = "set" /\ render'[r].got = got /\ render'[r].gen = render[r].gen
        /\ render'[r].floor = render[r].floor
    BY <1>0, <2>1 DEF Renders
  <2>3. SentCovers'
    BY <1>0, <2>1, NothingIsSent
  <2> HIDE DEF got
  <2> QED
    BY <1>0, <1>1, <1>3, <1>4, <2>1, <2>2, <2>3, RenderStepKeeps
<1>5. CASE render[r].gen # gen
  <2>1. Templates!Deliver(r, got, render[r].floor, FALSE)
    BY <1>5 DEF Templates!Check, Templates!SameGeneration
  <2> HIDE DEF got
  <2>2. /\ sent' \in [Requests -> SentTexts \union {Nil}] /\ render' \in [Requests -> Renders]
        /\ render'[r].pc = "idle" /\ render'[r].gen = 0 /\ SentCovers'
        /\ \A q \in Requests : q # r => render'[q] = render[q]
    BY <1>0, <1>1, <1>2, <2>1, DeliveredText
  <2> QED
    BY <1>0, <1>2, <1>3, <2>2, RenderStepKeeps
<1> QED
  BY <1>4, <1>5

\* The result enters the cache, pinned when an edit came after the comparison.
LEMMA SetCacheKeeps ==
    ASSUME TextInv, NEW r \in Requests, Templates!SetCache(r)
    PROVE  TextInv'
<1> DEFINE got == render[r].got
<1>0. /\ UNCHANGED <<key, text, gen, edit, answered>> /\ render[r].pc = "set"
      /\ render \in [Requests -> Renders] /\ render[r] \in Renders /\ answered \in Nat /\ gen \in Nat
  BY DEF Templates!SetCache, TextInv, TextType
<1>1. /\ got \in GotTexts /\ Presentable(got.text) /\ (got.version = 0 \/ got.version >= render[r].floor)
      /\ ~render[r].late => Settled(got.version)
  BY <1>0 DEF TextInv, RendersCover
<1>2. /\ got.text \in KnownTexts /\ got.version \in Nat /\ render[r].floor \in Nat /\ 0 <= gen
      /\ render[r].late \in BOOLEAN
  BY <1>0, <1>1 DEF GotTexts, Renders
<1>3. /\ cached' = [text |-> got.text, version |-> got.version, pinned |-> render[r].late]
      /\ Templates!Deliver(r, got, render[r].floor, FALSE)
  BY DEF Templates!SetCache
<1> HIDE DEF got
<1>4. cached' \in CachedTexts
  BY <1>2, <1>3 DEF CachedTexts
<1>5. CachedCovers'
  <2>1. cached'.text = got.text /\ cached'.version = got.version /\ cached'.pinned = render[r].late
    BY <1>3
  <2>2. Presentable(got.text) => Presentable(cached.text)'
    BY <1>0, <2>1 DEF Presentable, Templates!renderTemplateText, Templates!definition
  <2> QED
    BY <1>0, <1>1, <2>1, <2>2 DEF CachedCovers, Settled
<1>6. /\ sent' \in [Requests -> SentTexts \union {Nil}] /\ render' \in [Requests -> Renders]
      /\ render'[r].pc = "idle" /\ render'[r].gen = 0 /\ SentCovers'
      /\ \A q \in Requests : q # r => render'[q] = render[q]
  BY <1>0, <1>1, <1>2, <1>3, DeliveredText
<1> QED
  BY <1>0, <1>2, <1>4, <1>5, <1>6, RenderStepKeeps

LEMMA TextExpiresKeeps == ASSUME TextInv, Templates!CacheExpires PROVE TextInv'
<1>0. cached' = Nil /\ UNCHANGED <<key, text, gen, render, sent, edit, answered>>
  BY DEF Templates!CacheExpires
<1>1. TextType' /\ FormsFollowTheRow' /\ CachedCovers'
  BY <1>0 DEF TextInv, TextType, FormsFollowTheRow, RowVersion, CachedCovers
<1>2. RendersCover' /\ SentCovers'
  BY ZenonT(60), <1>0 DEF TextInv, RendersCover, SentCovers, Presentable, Templates!renderTemplateText,
              Templates!definition, Templates!SendsUseAnsweredEdits, Settled
<1> QED
  BY <1>1, <1>2 DEF TextInv

\* An editor's step that answers nothing: what renders, the cache and the sent
\* texts must cover stays.
LEMMA EditorStepKeeps ==
    ASSUME TextInv, UNCHANGED <<key, cached, gen, render, sent, answered>>,
           TextType', FormsFollowTheRow',
           \A e \in Editors : edit'[e].pc = "drop" => edit[e].pc = "drop" /\ edit'[e].version = edit[e].version
    PROVE  TextInv'
<1>1. \A v : Settled(v) => Settled(v)'
  BY DEF Settled
<1>2. RendersCover'
  <2>1. \A r \in Requests : Settled(render[r].got.version) => Settled(render[r].got.version)'
    BY DEF Settled
  <2> QED
    BY <2>1 DEF TextInv, RendersCover, Presentable, Templates!renderTemplateText, Templates!definition
<1>3. CachedCovers' /\ SentCovers'
  BY NothingIsSent
<1> QED
  BY <1>2, <1>3 DEF TextInv

LEMMA ListKeeps ==
    ASSUME TextInv, NEW e \in Editors, Templates!List(e)
    PROVE  TextInv'
<1> DEFINE view == Templates!buildTemplateView
<1>0. /\ UNCHANGED <<key, text, cached, gen, render, sent, answered>> /\ edit' = [edit EXCEPT ![e] = view]
      /\ edit \in [Editors -> TextForms] /\ TextType
  BY DEF Templates!List, TextInv, TextType
<1>1. /\ view \in TextForms /\ view.pc = "open"
      /\ view.version > 0 => text # Nil /\ view.version <= text.version /\ view.text = text.text
  <2>1. Templates!definition.default \in KnownTexts
    BY <1>0, DefaultIsPresentable DEF TextType
  <2>2. CASE text = Nil
    BY <2>1, <2>2 DEF Templates!buildTemplateView, TextForms
  <2>3. CASE text # Nil
    <3>1. text \in TextRows
      BY <1>0, <2>3 DEF TextType
    <3> QED
      BY <2>3, <3>1 DEF Templates!buildTemplateView, TextForms, TextRows, KnownTexts
  <2> QED
    BY <2>2, <2>3
<1> HIDE DEF view
<1>2. edit'[e] = view /\ \A f \in Editors : f # e => edit'[f] = edit[f]
  BY <1>0
<1>3. TextType'
  BY <1>0, <1>1 DEF TextType
<1>4. FormsFollowTheRow'
  BY <1>0, <1>1, <1>2 DEF TextInv, FormsFollowTheRow, RowVersion
<1>5. \A f \in Editors : edit'[f].pc = "drop" => edit[f].pc = "drop" /\ edit'[f].version = edit[f].version
  BY <1>1, <1>2
<1> QED
  BY <1>0, <1>3, <1>4, <1>5, EditorStepKeeps

\* A save raises the row above every other form.
LEMMA TextSaveKeeps ==
    ASSUME TextInv, NEW e \in Editors, NEW t \in Texts, Templates!Save(e, t)
    PROVE  TextInv'
<1>0. /\ text # Nil /\ text.version = edit[e].version
      /\ text' = [text EXCEPT !.text = t, !.version = @ + 1]
      /\ edit' = [edit EXCEPT ![e] = [pc |-> "bump", text |-> t, version |-> text.version + 1]]
      /\ UNCHANGED <<key, cached, gen, render, sent, answered>>
      /\ edit \in [Editors -> TextForms] /\ TextType
  BY DEF Templates!Save, Templates!StillCurrent, Templates!UpdatedRow, Templates!SavedView, TextInv, TextType
<1>1. text \in TextRows
  BY <1>0 DEF TextType
<1>2. /\ text' \in TextRows /\ text'.version = text.version + 1 /\ text'.text = t
      /\ text.version \in Nat /\ text' # Nil
  <2>a. text.version \in Nat /\ text.version + 1 \in Nat \ {0}
    BY <1>1 DEF TextRows
  <2>b. text'.version = text.version + 1 /\ text'.text = t
    BY <1>0, <1>1 DEF TextRows
  <2>c. text' \in TextRows
    <3> DEFINE next == text.version + 1
    <3>1. text' = [text EXCEPT !.text = t, !.version = next] /\ next \in Nat \ {0}
      BY <1>0, <2>a
    <3> HIDE DEF next
    <3> QED
      BY <1>1, <3>1 DEF TextRows
  <2>1. /\ text' \in TextRows /\ text'.version = text.version + 1 /\ text'.text = t /\ text.version \in Nat
    BY <2>a, <2>b, <2>c
  <2>2. text' \in [text : Texts, version : Nat, channel : {"sms", "push"}]
    BY <2>1 DEF TextRows
  <2> QED
    BY <2>1, <2>2, TextAssumption
<1>3. /\ edit'[e] = [pc |-> "bump", text |-> t, version |-> text.version + 1]
      /\ \A f \in Editors : f # e => edit'[f] = edit[f]
  BY <1>0
<1>4. TextType'
  <2>1. [pc |-> "bump", text |-> t, version |-> text.version + 1] \in TextForms
    BY <1>2 DEF TextForms, KnownTexts
  <2> QED
    BY <1>0, <1>2, <2>1 DEF TextType
<1>5. FormsFollowTheRow'
  <2>1. answered' <= RowVersion'
    BY <1>0, <1>2 DEF TextInv, FormsFollowTheRow, RowVersion, TextType
  <2>2. ASSUME NEW f \in Editors
        PROVE  /\ edit'[f].pc \in {"bump", "drop"} => edit'[f].version > 0
               /\ edit'[f].pc # "none" /\ edit'[f].version > 0 =>
                    /\ text' # Nil /\ edit'[f].version <= text'.version
                    /\ edit'[f].version = text'.version => edit'[f].text = text'.text
    <3>1. CASE f = e
      BY <1>2, <1>3, <3>1
    <3>2. CASE f # e
      <4>1. edit'[f] = edit[f] /\ edit[f].version \in Nat
        BY <1>0, <1>3, <3>2 DEF TextForms
      <4>2. edit[f].pc # "none" /\ edit[f].version > 0 => edit[f].version <= text.version
        BY DEF TextInv, FormsFollowTheRow
      <4> QED
        BY <1>2, <4>1, <4>2 DEF TextInv, FormsFollowTheRow
    <3> QED
      BY <3>1, <3>2
  <2> QED
    BY <2>1, <2>2 DEF FormsFollowTheRow
<1>6. \A f \in Editors : edit'[f].pc = "drop" => edit[f].pc = "drop" /\ edit'[f].version = edit[f].version
  BY <1>3
<1> QED
  BY <1>0, <1>4, <1>5, <1>6, EditorStepKeeps

\* The generation passes every render that has not compared it; those that have
\* are known to be late.
LEMMA BumpKeeps ==
    ASSUME TextInv, NEW e \in Editors, Templates!Bump(e)
    PROVE  TextInv'
<1>0. /\ edit[e].pc = "bump" /\ gen' = gen + 1
      /\ render' = [r \in Requests |-> [render[r] EXCEPT !.late = @ \/ render[r].pc = "set"]]
      /\ edit' = [edit EXCEPT ![e].pc = "drop"]
      /\ UNCHANGED <<key, text, cached, sent, answered>>
      /\ edit \in [Editors -> TextForms] /\ render \in [Requests -> Renders] /\ gen \in Nat /\ TextType
  BY DEF Templates!Bump, TextInv, TextType
<1>1. /\ edit' \in [Editors -> TextForms] /\ edit'[e].pc = "drop"
      /\ edit'[e].version = edit[e].version /\ edit'[e].text = edit[e].text
      /\ \A f \in Editors : f # e => edit'[f] = edit[f]
  BY <1>0 DEF TextForms
<1>2. /\ render' \in [Requests -> Renders]
      /\ \A r \in Requests :
           /\ render'[r].pc = render[r].pc /\ render'[r].gen = render[r].gen
           /\ render'[r].got = render[r].got /\ render'[r].floor = render[r].floor
           /\ render'[r].late = (render[r].late \/ render[r].pc = "set")
  BY <1>0 DEF Renders
<1>3. TextType'
  BY SMTT(30), <1>0, <1>1, <1>2 DEF TextType
<1>4. FormsFollowTheRow'
  BY <1>0, <1>1 DEF TextInv, FormsFollowTheRow, RowVersion
<1>5. RendersCover'
  <2>1. gen \in Nat /\ gen' = gen + 1 /\ answered' = answered
    BY <1>0
  <2>2. ASSUME NEW r \in Requests PROVE render'[r].gen <= gen' /\ render'[r].gen # gen'
    <3>1. render'[r].gen = render[r].gen /\ render[r].gen \in Nat /\ render[r].gen <= gen
      BY <1>0, <1>2 DEF TextInv, RendersCover, Renders
    <3> QED
      BY <2>1, <3>1
  <2>3. \A r \in Requests : Presentable(render[r].got.text) => Presentable(render[r].got.text)'
    BY <1>0, <1>2 DEF Presentable, Templates!renderTemplateText, Templates!definition
  <2>4. \A r \in Requests : render'[r].pc = "set" => render'[r].late
    BY <1>2
  <2> QED
    BY <1>2, <2>1, <2>2, <2>3, <2>4 DEF TextInv, RendersCover
<1>6. CachedCovers' /\ SentCovers'
  BY <1>0, NothingIsSent
<1> QED
  BY <1>3, <1>4, <1>5, <1>6 DEF TextInv

\* The cache is dropped, then the save is answered.
LEMMA DropKeeps ==
    ASSUME TextInv, NEW e \in Editors, Templates!Drop(e)
    PROVE  TextInv'
<1>0. /\ edit[e].pc = "drop" /\ cached' = Nil
      /\ edit' = [edit EXCEPT ![e].pc = "open"]
      /\ answered' = IF edit[e].version > answered THEN edit[e].version ELSE answered
      /\ UNCHANGED <<key, text, gen, render, sent>>
      /\ edit \in [Editors -> TextForms] /\ edit[e].version \in Nat /\ answered \in Nat /\ TextType
  BY DEF Templates!Drop, TextInv, TextType, TextForms
<1>1. /\ edit' \in [Editors -> TextForms] /\ edit'[e].pc = "open"
      /\ edit'[e].version = edit[e].version /\ edit'[e].text = edit[e].text
      /\ \A f \in Editors : f # e => edit'[f] = edit[f]
  BY <1>0 DEF TextForms
<1>2. answered' \in Nat /\ answered <= answered' /\ (answered' = answered \/ answered' = edit[e].version)
  BY <1>0
<1>3. TextType'
  BY <1>0, <1>1, <1>2 DEF TextType
<1>4. FormsFollowTheRow'
  <2>1. text # Nil /\ edit[e].version <= text.version
    BY <1>0 DEF TextInv, FormsFollowTheRow
  <2>2. answered' <= RowVersion'
    BY <1>0, <1>2, <2>1 DEF TextInv, FormsFollowTheRow, RowVersion
  <2> QED
    BY <1>0, <1>1, <2>2 DEF TextInv, FormsFollowTheRow
<1>5. ASSUME NEW v \in Nat, Settled(v)
      PROVE  v = 0 \/ (v >= answered' /\ \A f \in Editors : edit'[f].pc = "drop" => v >= edit'[f].version)
  BY <1>0, <1>1, <1>2, <1>5 DEF Settled
<1>6. RendersCover'
  <2>1. \A r \in Requests : Presentable(render[r].got.text) => Presentable(render[r].got.text)'
    BY <1>0 DEF Presentable, Templates!renderTemplateText, Templates!definition
  <2>2. ASSUME NEW r \in Requests, render[r].got \in GotTexts, Settled(render[r].got.version)
        PROVE  Settled(render[r].got.version)'
    <3>1. render[r].got.version \in Nat
      BY <2>2 DEF GotTexts
    <3> QED
      BY <1>0, <1>5, <2>2, <3>1 DEF Settled
  <2>3. ASSUME NEW r \in Requests, render[r].pc # "idle" PROVE render[r].floor <= answered'
    <3>1. render[r].floor \in Nat /\ render[r].floor <= answered
      BY <2>3 DEF TextInv, TextType, Renders, RendersCover
    <3> QED
      BY <1>0, <1>2, <3>1
  <2> QED
    BY <1>0, <2>1, <2>2, <2>3 DEF TextInv, RendersCover
<1>7. CachedCovers' /\ SentCovers'
  BY <1>0 DEF TextInv, CachedCovers, SentCovers, Presentable, Templates!renderTemplateText,
              Templates!definition, Templates!SendsUseAnsweredEdits
<1> QED
  BY <1>3, <1>4, <1>6, <1>7 DEF TextInv

\* No step of the texts leaves the invariant.
LEMMA TextStep == ASSUME TextInv, [Templates!TemplateNext]_Templates!templateVars PROVE TextInv'
<1>1. CASE UNCHANGED Templates!templateVars
  <2>1. UNCHANGED <<key, text, cached, gen, render, sent, edit, answered>>
    BY <1>1 DEF Templates!templateVars
  <2>2. TextType' /\ FormsFollowTheRow'
    BY <2>1 DEF TextInv, TextType, FormsFollowTheRow, RowVersion
  <2>3. \A f \in Editors : edit'[f].pc = "drop" => edit[f].pc = "drop" /\ edit'[f].version = edit[f].version
    BY <2>1
  <2> QED
    BY <2>1, <2>2, <2>3, EditorStepKeeps
<1>2. ASSUME NEW r \in Requests,
             \/ Templates!RenderFromCache(r) \/ Templates!RenderMisses(r) \/ Templates!ReadGeneration(r)
             \/ Templates!Load(r) \/ Templates!Check(r) \/ Templates!SetCache(r)
      PROVE  TextInv'
  BY <1>2, RenderFromCacheKeeps, RenderMissesKeeps, LoadKeeps, CheckKeeps, SetCacheKeeps
<1>3. CASE Templates!CacheExpires
  BY <1>3, TextExpiresKeeps
<1>4. ASSUME NEW e \in Editors,
             Templates!List(e) \/ (\E t \in Texts : Templates!Save(e, t)) \/ Templates!Bump(e) \/ Templates!Drop(e)
      PROVE  TextInv'
  BY <1>4, ListKeeps, TextSaveKeeps, BumpKeeps, DropKeeps
<1> QED
  BY <1>1, <1>2, <1>3, <1>4 DEF Templates!TemplateNext

LEMMA TextsStart == Templates!TemplateInit => TextInv
<1> SUFFICES ASSUME Templates!TemplateInit PROVE TextInv
  OBVIOUS
<1> USE DEF Templates!TemplateInit, Templates!NoRender, Templates!NoForm
<1>1. key \in {"sms", "push"}
  BY DEF Templates!Catalog
<1>2. text \in TextRows \union {Nil}
  BY DEF TextRows
<1>3. render \in [Requests -> Renders] /\ edit \in [Editors -> TextForms]
  BY DEF Renders, TextForms
<1>4. TextType
  BY <1>1, <1>2, <1>3 DEF TextType
<1>5. FormsFollowTheRow
  BY <1>2 DEF FormsFollowTheRow, RowVersion, TextRows
<1> QED
  BY <1>4, <1>5 DEF TextInv, RendersCover, CachedCovers, SentCovers, Templates!SendsUseAnsweredEdits

\* A save is made on the row its form shows.
LEMMA TextEditsKept ==
    ASSUME TextInv, [Templates!TemplateNext]_Templates!templateVars,
           NEW e \in Editors, edit[e].pc = "open", edit'[e].pc = "bump"
    PROVE  edit[e].text = text.text
<1>0. edit \in [Editors -> TextForms]
  BY DEF TextInv, TextType
<1>1. CASE UNCHANGED edit
  BY <1>1
<1>2. ASSUME NEW f \in Editors, Templates!List(f) \/ Templates!Bump(f) \/ Templates!Drop(f) PROVE FALSE
  BY <1>0, <1>2 DEF Templates!List, Templates!Bump, Templates!Drop, Templates!buildTemplateView, TextForms
<1>3. ASSUME NEW f \in Editors, NEW t \in Texts, Templates!Save(f, t) PROVE edit[e].text = text.text
  <2>1. f = e
    BY <1>0, <1>3 DEF Templates!Save
  <2>2. text # Nil /\ text.version = edit[e].version /\ edit[e].version > 0
    BY <1>3, <2>1 DEF Templates!Save, Templates!StillCurrent, Templates!validateTemplateSubmission
  <2> QED
    BY <2>2 DEF TextInv, FormsFollowTheRow
<1>4. \/ UNCHANGED edit
      \/ \E f \in Editors : Templates!List(f) \/ (\E t \in Texts : Templates!Save(f, t))
                              \/ Templates!Bump(f) \/ Templates!Drop(f)
  BY DEF Templates!TemplateNext, Templates!RenderFromCache, Templates!RenderMisses, Templates!ReadGeneration,
         Templates!Load, Templates!Check, Templates!SetCache, Templates!CacheExpires, Templates!templateVars
<1> QED
  BY <1>1, <1>2, <1>3, <1>4

\* What the invariant says of the texts that are sent.
LEMMA TextInvSuffices == TextInv => Templates!TextsAreSound
BY DEF TextInv, SentCovers, Presentable, Templates!TextsAreSound, Templates!SentTextIsUsable

(***************************************************************************)
(* What reaches a member is usable, although the row may be of another     *)
(* channel, invalid or missing and the store may fail, and shows the edits *)
(* answered before the send began, but for a read that had compared the    *)
(* generation already (loadOrDefault, resolve, invalidate), whatever       *)
(* renders, expiries and saves of other administrators come between.       *)
(***************************************************************************)
THEOREM SentTextsAreSound == Templates!TemplateSpec => []Templates!TextsAreSound
<1>1. TextInv /\ [Templates!TemplateNext]_Templates!templateVars => TextInv'
  BY TextStep
<1> QED
  BY <1>1, TextsStart, TextInvSuffices, PTL DEF Templates!TemplateSpec

(***************************************************************************)
(* A save of a notification text replaces only the text its form shows,    *)
(* although several screens are open and their saves overlap (Update's     *)
(* comparison of versions under the row's lock).                           *)
(***************************************************************************)
THEOREM TextEditsAreNotLost == Templates!TemplateSpec => Templates!TemplateEditsNotLost
<1> DEFINE Kept == \A e \in Editors :
                      (edit[e].pc = "open" /\ edit'[e].pc = "bump") => edit[e].text = text.text
<1>1. TextInv /\ [Templates!TemplateNext]_Templates!templateVars => TextInv' /\ Kept
  BY TextStep, TextEditsKept
<1>2. Templates!TemplateEditsNotLost <=> [][Kept]_Templates!templateVars
  BY DEF Templates!TemplateEditsNotLost
<1> QED
  BY <1>1, <1>2, TextsStart, PTL DEF Templates!TemplateSpec
-----------------------------------------------------------------------------
(* The donation ledger: its inductive invariant                            *)

\* An order as it was normalised: the refund is part of the gross amount.
OrderFits(o) ==
    /\ o.account \in Accounts
    /\ o.gross \in Nat /\ o.refunded \in Nat /\ o.refunded <= o.gross
    /\ o.edited \in Nat

ImportRows == [donor : Donors, amount : Int]

\* The form or the import at hand; one import names no donation twice.
JobFits(j) ==
    \/ j.op = "edit" /\ j.seq \in Seqs
    \/ /\ j.op = "import" /\ IsFiniteSet(j.rows)
       /\ \A r \in j.rows : r.account \in Accounts /\ r.token.row \in ImportRows
       /\ \A r, q \in j.rows : r.token.row = q.token.row => r = q

LedgerTypes ==
    /\ DOMAIN orders = Seqs /\ DOMAIN review = Seqs /\ DOMAIN job = Operators
    /\ member \in [Members -> [active : BOOLEAN, who : Donors]]
    /\ nextSeq \in Nat \ {0} /\ clock \in Nat
    /\ erased \in [amount : Int, count : Int]
    /\ IsFiniteSet(tokens) /\ \A t \in tokens : t.row \in ImportRows
    /\ \A s \in Live : OrderFits(orders[s]) /\ s < nextSeq
    /\ \A p \in Operators : job[p] # Idle => JobFits(job[p])

\* A review was made from the very order it fingerprints.
ReviewsWereSeen == \A s \in Seqs : review[s] # NoReview => review[s].evidence = review[s].fp

LedgerInv ==
    /\ LedgerTypes /\ IdentityUnique /\ ErasedOwnsNothing
    /\ ReviewMatchesOrder /\ ReviewsWereSeen /\ ErasedAsReviewed
-----------------------------------------------------------------------------
(* The donation ledger: sums                                               *)

Chosen(s) == CHOOSE x \in s : TRUE

FoldStep(part, C, g) ==
    [s \in SUBSET C |-> IF s = {} THEN 0 ELSE Cardinality(part[Chosen(s)]) + g[s \ {Chosen(s)}]]

\* What a fold adds up over a set whose members have disjoint parts is the
\* number of elements of those parts, whatever order the fold takes them in.
LEMMA FoldOfParts ==
    ASSUME NEW C, IsFiniteSet(C), NEW part,
           \A c \in C : IsFiniteSet(part[c]),
           \A c, d \in C : c # d => part[c] \cap part[d] = {}
    PROVE  /\ \E g : g = FoldStep(part, C, g)
           /\ \A g : g = FoldStep(part, C, g) => g[C] = Cardinality(UNION {part[c] : c \in C})
<1> DEFINE step(g) == FoldStep(part, C, g)
           all(s) == UNION {part[c] : c \in s}
           count == [s \in SUBSET C |-> Cardinality(all(s))]
<1>1. ASSUME NEW s \in SUBSET C, s # {}
      PROVE  /\ Chosen(s) \in s /\ s \ {Chosen(s)} \in SUBSET C
             /\ count[s] = Cardinality(part[Chosen(s)]) + count[s \ {Chosen(s)}]
  <2>1. Chosen(s) \in s
    BY <1>1 DEF Chosen
  <2> DEFINE rest == s \ {Chosen(s)}
  <2>2. all(s) = part[Chosen(s)] \cup all(rest) /\ part[Chosen(s)] \cap all(rest) = {}
    BY <2>1
  <2>3. IsFiniteSet(all(rest))
    <3>1. IsFiniteSet(rest)
      BY FS_Subset
    <3> DEFINE parts == {part[c] : c \in rest}
               f == [c \in rest |-> part[c]]
    <3>2. f \in Surjection(rest, parts)
      BY DEF Surjection
    <3>3. IsFiniteSet(parts)
      <4> HIDE DEF f, parts, rest
      <4> QED
        BY <3>1, <3>2, FS_Surjection
    <3>4. \A T \in parts : IsFiniteSet(T)
      OBVIOUS
    <3> HIDE DEF parts
    <3>5. IsFiniteSet(UNION parts)
      BY <3>3, <3>4, FS_UNION
    <3> QED
      BY <3>5 DEF parts
  <2>4. /\ IsFiniteSet(part[Chosen(s)])
        /\ Cardinality(part[Chosen(s)]) \in Nat /\ Cardinality(all(rest)) \in Nat
    BY <2>1, <2>3, FS_CardinalityType
  <2> HIDE DEF all, rest
  <2>5. Cardinality(all(s)) = Cardinality(part[Chosen(s)]) + Cardinality(all(rest))
                              - Cardinality(part[Chosen(s)] \cap all(rest))
    BY <2>2, <2>3, <2>4, FS_Union
  <2>6. Cardinality(all(s)) = Cardinality(part[Chosen(s)]) + Cardinality(all(rest))
    <3>1. Cardinality(part[Chosen(s)] \cap all(rest)) = 0
      BY <2>2, FS_EmptySet
    <3> QED
      BY <2>4, <2>5, <3>1
  <2>7. rest \in SUBSET C
    BY DEF rest
  <2> QED
    BY <2>1, <2>6, <2>7 DEF rest
<1>2. count[{}] = 0
  BY FS_EmptySet
<1>3. count = step(count)
  <2> HIDE DEF count
  <2>1. \A s \in SUBSET C : step(count)[s] = count[s]
    BY <1>1, <1>2 DEF FoldStep
  <2>2. count = [s \in SUBSET C |-> count[s]]
    BY DEF count
  <2> QED
    BY <2>1, <2>2 DEF FoldStep
<1>4. ASSUME NEW g, g = step(g)
      PROVE  g[C] = count[C]
  <2> DEFINE Differ == {s \in SUBSET C : g[s] # count[s]}
  <2> HIDE DEF count
  <2>1. Differ = {}
    <3>1. SUFFICES ASSUME Differ # {} PROVE FALSE
      OBVIOUS
    <3>2. IsWellFoundedOn(StrictSubsetOrdering(C), SUBSET C)
      BY FS_StrictSubsetOrderingWellFounded, FS_FiniteSubsetsOfFinite
    <3>3. PICK s \in Differ : \A t \in Differ : <<t, s>> \notin StrictSubsetOrdering(C)
      <4> HIDE DEF Differ
      <4>1. Differ \subseteq SUBSET C
        BY DEF Differ
      <4> QED
        BY <3>1, <3>2, <4>1, WFMin
    <3>4. s # {}
      <4>1. g[{}] = 0
        BY <1>4 DEF FoldStep
      <4> QED
        BY <1>2, <3>3, <4>1
    <3>5. Chosen(s) \in s /\ s \ {Chosen(s)} \in SUBSET C
      BY <1>1, <3>3, <3>4
    <3>6. s \ {Chosen(s)} \notin Differ
      <4> DEFINE smaller == s \ {Chosen(s)}
      <4>1. <<smaller, s>> \in StrictSubsetOrdering(C)
        <5>1. smaller \in SUBSET C /\ s \in SUBSET C /\ smaller \subseteq s /\ smaller # s
          BY <3>3, <3>5
        <5> HIDE DEF smaller
        <5> QED
          BY <5>1 DEF StrictSubsetOrdering
      <4> HIDE DEF smaller, Differ
      <4> QED
        BY <3>3, <4>1 DEF smaller
    <3>7. g[s] = Cardinality(part[Chosen(s)]) + g[s \ {Chosen(s)}]
      <4>1. step(g)[s] = Cardinality(part[Chosen(s)]) + g[s \ {Chosen(s)}]
        BY <3>3, <3>4 DEF FoldStep
      <4> QED
        BY <1>4, <4>1
    <3>8. count[s] = Cardinality(part[Chosen(s)]) + count[s \ {Chosen(s)}]
      BY <1>1, <3>3, <3>4
    <3>9. g[s \ {Chosen(s)}] = count[s \ {Chosen(s)}]
      BY <3>5, <3>6
    <3> QED
      BY <3>3, <3>7, <3>8, <3>9
  <2> QED
    BY <2>1
<1> QED
  BY <1>3, <1>4

\* An order's net amount as that many units of it.
Units(s) == {s} \X (1..Net(s))
UnitsOf(S) == UNION {Units(s) : s \in S}

LEMMA SeqsAreFinite == \A S \in SUBSET Seqs : IsFiniteSet(S) /\ Cardinality(S) \in Nat
<1>1. IsFiniteSet(Seqs)
  BY LedgerAssumption, FS_Interval DEF Seqs
<1> QED
  BY <1>1, FS_Subset, FS_CardinalityType

LEMMA NetIsNatural ==
    ASSUME LedgerTypes, NEW s \in Live
    PROVE  Net(s) \in Nat
<1>1. OrderFits(orders[s])
  BY DEF LedgerTypes
<1> QED
  BY <1>1 DEF OrderFits, Net

LEMMA UnitsCount ==
    ASSUME LedgerTypes, NEW s \in Live
    PROVE  IsFiniteSet(Units(s)) /\ Cardinality(Units(s)) = Net(s)
<1>1. Net(s) \in Nat
  BY NetIsNatural
<1>2. IsFiniteSet(1..Net(s)) /\ Cardinality(1..Net(s)) = Net(s)
  BY <1>1, FS_Interval
<1>3. IsFiniteSet({s}) /\ Cardinality({s}) = 1
  BY FS_Singleton
<1>4. IsFiniteSet(Units(s)) /\ Cardinality(Units(s)) = 1 * Net(s)
  BY ZenonT(60), <1>2, <1>3, FS_Product DEF Units
<1> QED
  BY <1>1, <1>4

\* The total of a set of orders counts their units.
LEMMA SumCountsUnits ==
    ASSUME LedgerTypes, NEW S \in SUBSET Live
    PROVE  /\ IsFiniteSet(UnitsOf(S)) /\ SumNet(S) = Cardinality(UnitsOf(S))
           /\ SumNet(S) \in Nat
<1>1. IsFiniteSet(S)
  BY SeqsAreFinite DEF Live
<1> DEFINE part == [s \in S |-> Units(s)]
           step(g) == FoldStep(part, S, g)
           net(g) == [s \in SUBSET S |-> IF s = {} THEN 0 ELSE Net(Chosen(s)) + g[s \ {Chosen(s)}]]
<1>2. \A s \in S : part[s] = Units(s) /\ IsFiniteSet(part[s]) /\ Cardinality(part[s]) = Net(s)
  BY UnitsCount
<1>3. \A s, t \in S : s # t => part[s] \cap part[t] = {}
  BY DEF Units
<1>4. UNION {part[s] : s \in S} = UnitsOf(S)
  BY DEF UnitsOf
<1>5. \A g : net(g) = step(g)
  <2> TAKE g
  <2>1. \A s \in SUBSET S : s # {} => Chosen(s) \in S
    BY DEF Chosen
  <2> HIDE DEF part
  <2> QED
    BY <1>2, <2>1 DEF FoldStep
<1>6. SumNet(S) = (CHOOSE g : g = net(g))[S]
  BY Zenon DEF SumNet, FoldSet, MapThenFoldSet, Chosen
<1> HIDE DEF part
<1>7. /\ \E g : g = step(g)
      /\ \A g : g = step(g) => g[S] = Cardinality(UNION {part[s] : s \in S})
  BY <1>1, <1>2, <1>3, FoldOfParts
<1> HIDE DEF step, net
<1>8. SumNet(S) = Cardinality(UnitsOf(S))
  <2>1. (CHOOSE g : g = net(g)) = net(CHOOSE g : g = net(g))
    BY <1>5, <1>7
  <2> QED
    BY <1>4, <1>5, <1>6, <1>7, <2>1
<1>9. IsFiniteSet(UnitsOf(S))
  <2> DEFINE parts == {Units(s) : s \in S}
             f == [s \in S |-> Units(s)]
  <2>1. f \in Surjection(S, parts)
    BY DEF Surjection
  <2>2. IsFiniteSet(parts)
    <3> HIDE DEF f, parts
    <3> QED
      BY <1>1, <2>1, FS_Surjection
  <2>3. \A T \in parts : IsFiniteSet(T)
    BY UnitsCount
  <2> HIDE DEF parts
  <2>4. IsFiniteSet(UNION parts)
    BY <2>2, <2>3, FS_UNION
  <2> QED
    BY <2>4 DEF parts, UnitsOf
<1> QED
  BY <1>8, <1>9, FS_CardinalityType

\* Disjoint sets of orders add up.
LEMMA SumsAdd ==
    ASSUME LedgerTypes, NEW S \in SUBSET Live, NEW T \in SUBSET Live, S \cap T = {}
    PROVE  SumNet(S \cup T) = SumNet(S) + SumNet(T)
<1>1. UnitsOf(S \cup T) = UnitsOf(S) \cup UnitsOf(T)
  BY DEF UnitsOf
<1>2. UnitsOf(S) \cap UnitsOf(T) = {}
  BY DEF UnitsOf, Units
<1>3. /\ IsFiniteSet(UnitsOf(S)) /\ SumNet(S) = Cardinality(UnitsOf(S)) /\ SumNet(S) \in Nat
      /\ IsFiniteSet(UnitsOf(T)) /\ SumNet(T) = Cardinality(UnitsOf(T)) /\ SumNet(T) \in Nat
      /\ SumNet(S \cup T) = Cardinality(UnitsOf(S \cup T))
  BY SumCountsUnits
<1>4. Cardinality(UnitsOf(S) \cap UnitsOf(T)) = 0
  BY <1>2, FS_EmptySet
<1> HIDE DEF UnitsOf
<1>5. Cardinality(UnitsOf(S) \cup UnitsOf(T)) = SumNet(S) + SumNet(T) - 0
  BY <1>3, <1>4, FS_Union
<1>6. SumNet(S \cup T) = SumNet(S) + SumNet(T) - 0
  BY <1>1, <1>3, <1>5
<1> QED
  BY <1>3, <1>6

-----------------------------------------------------------------------------
(* The donation ledger: lists and their pages                              *)

\* The members of S that come before each of them, in an order of all of S.
Before(S, below) ==
    /\ below \in [S -> SUBSET S]
    /\ \A s \in S : s \notin below[s]
    /\ \A s, t \in S : s # t => s \in below[t] \/ t \in below[s]
    /\ \A s, t \in S : s \in below[t] => below[s] \subseteq below[t]

\* Position i of the list holds the member that i - 1 others come before.
ListedBy(S, below, list) ==
    /\ DOMAIN list = 1..Cardinality(S) /\ list = [i \in DOMAIN list |-> list[i]]
    /\ \A i \in 1..Cardinality(S) : (\E s \in S : Cardinality(below[s]) = i - 1)
         => list[i] \in S /\ Cardinality(below[list[i]]) = i - 1

\* Of the members of a finite set no two come after equally many others, so
\* that a list by that number has them all.
LEMMA ListingCovers ==
    ASSUME NEW S, IsFiniteSet(S), NEW below, Before(S, below), NEW list, ListedBy(S, below, list)
    PROVE  list \in Seq(S) /\ Len(list) = Cardinality(S) /\ Range(list) = S
<1> DEFINE N == Cardinality(S)
           rank == [s \in S |-> Cardinality(below[s]) + 1]
<1>1. N \in Nat
  BY FS_CardinalityType
<1>2. \A s \in S : IsFiniteSet(below[s]) /\ Cardinality(below[s]) \in Nat
  BY FS_Subset, FS_CardinalityType DEF Before
<1>3. \A s \in S : Cardinality(below[s]) < N
  <2> TAKE s \in S
  <2>1. Cardinality(below[s]) <= N /\ (N = Cardinality(below[s]) => S = below[s])
    BY FS_Subset DEF Before
  <2> HIDE DEF N
  <2> QED
    BY <1>1, <1>2, <2>1 DEF Before
<1>4. \A s, t \in S : s \in below[t] => Cardinality(below[s]) < Cardinality(below[t])
  <2> TAKE s, t \in S
  <2> HAVE s \in below[t]
  <2>1. below[s] \in SUBSET below[t] /\ below[s] # below[t]
    BY DEF Before
  <2>2. /\ Cardinality(below[s]) <= Cardinality(below[t])
        /\ Cardinality(below[s]) # Cardinality(below[t])
    BY <1>2, <2>1, FS_Subset
  <2> QED
    BY <1>2, <2>2
<1>5. \A s, t \in S : s # t => Cardinality(below[s]) # Cardinality(below[t])
  BY <1>2, <1>4 DEF Before
<1>6. rank \in Injection(S, 1..N)
  <2>1. \A s \in S : rank[s] = Cardinality(below[s]) + 1
    OBVIOUS
  <2>2. rank = [s \in S |-> rank[s]]
    OBVIOUS
  <2> HIDE DEF rank, N
  <2>3. \A s \in S : rank[s] \in 1..N
    BY <1>1, <1>2, <1>3, <2>1
  <2>4. \A s, t \in S : rank[s] = rank[t] => s = t
    BY <1>2, <1>5, <2>1
  <2> QED
    BY <2>2, <2>3, <2>4 DEF Injection, IsInjective
<1>7. rank \in Surjection(S, 1..N)
  <2>1. IsFiniteSet(1..N) /\ Cardinality(1..N) = N
    BY <1>1, FS_Interval
  <2> HIDE DEF rank
  <2> QED
    BY <1>1, <1>6, <2>1, FS_Injection
<1>8. \A i \in 1..N : list[i] \in S /\ Cardinality(below[list[i]]) = i - 1
  <2> TAKE i \in 1..N
  <2>1. PICK s \in S : rank[s] = i
    BY <1>7 DEF Surjection
  <2>2. Cardinality(below[s]) = i - 1
    BY <1>1, <1>2, <2>1
  <2> QED
    BY <2>2 DEF ListedBy
<1>9. \A s \in S : \E i \in 1..N : list[i] = s
  <2> TAKE s \in S
  <2> DEFINE i == Cardinality(below[s]) + 1
  <2>1. i \in 1..N /\ i - 1 = Cardinality(below[s])
    BY <1>1, <1>2, <1>3
  <2> HIDE DEF i, N
  <2>2. list[i] \in S /\ Cardinality(below[list[i]]) = Cardinality(below[s])
    BY <1>8, <2>1
  <2>3. list[i] = s
    BY <1>5, <2>2
  <2> QED
    BY <2>1, <2>3
<1>10. DOMAIN list = 1..N /\ list = [i \in 1..N |-> list[i]]
  BY DEF ListedBy
<1> HIDE DEF N
<1>11. list \in [1..N -> S]
  BY <1>8, <1>10
<1>12. list \in Seq(S) /\ Len(list) = N
  BY <1>1, <1>11
<1>13. Range(list) = S
  BY <1>8, <1>9, <1>10 DEF Range
<1> QED
  BY <1>12, <1>13 DEF N

\* Every position of a list is on one of its pages.
LEMMA PageOfPosition ==
    ASSUME NEW k \in Nat
    PROVE  \E q \in 0..k : q * PageSize <= k /\ k < (q + 1) * PageSize
<1> DEFINE Back == {n \in Nat : k < (n + 1) * PageSize}
<1>1. PageSize \in Nat /\ PageSize >= 1
  BY LedgerAssumption
<1>2. k \in Back
  <2>1. (k + 1) * PageSize = k * PageSize + PageSize /\ k * PageSize >= k
    BY <1>1
  <2>2. k * PageSize \in Nat
    BY <1>1
  <2> QED
    BY <1>1, <2>1, <2>2
<1>3. PICK q \in Back : \A n \in Back : ~(<<n, q>> \in OpToRel(<, Nat))
  <2> HIDE DEF Back
  <2>1. Back \subseteq Nat /\ Back # {}
    BY <1>2 DEF Back
  <2> QED
    BY <2>1, NatLessThanWellFounded, WFMin
<1>4. \A n \in Back : ~(n < q)
  <2>1. q \in Nat
    OBVIOUS
  <2> TAKE n \in Back
  <2>2. n \in Nat
    OBVIOUS
  <2> HIDE DEF Back
  <2> QED
    BY <1>3, <2>1, <2>2 DEF OpToRel
<1>5. q \in 0..k
  BY <1>2, <1>4
<1>6. q * PageSize <= k
  <2>1. CASE q = 0
    BY <1>1, <2>1
  <2>2. CASE q > 0
    <3>1. q - 1 \in Nat /\ q - 1 < q
      BY <1>5, <2>2
    <3>2. q - 1 \notin Back
      BY <1>4, <3>1
    <3>3. ~(k < ((q - 1) + 1) * PageSize)
      BY <3>1, <3>2
    <3>4. (q - 1) + 1 = q
      BY <1>5
    <3>5. ~(k < q * PageSize) /\ q * PageSize \in Int
      BY <1>1, <1>5, <3>3, <3>4
    <3> QED
      BY <3>5
  <2> QED
    BY <1>5, <2>1, <2>2
<1> QED
  BY <1>5, <1>6

LEMMA PagesCover ==
    ASSUME NEW S, NEW list \in Seq(S), Len(list) <= MaxOrders
    PROVE  UNION {Range(PageOf(list, n)) : n \in Seqs} = Range(list)
<1> DEFINE N == Len(list)
<1>1. /\ PageSize \in Nat /\ PageSize >= 1 /\ MaxOrders \in Nat
      /\ N \in 0..MaxOrders /\ DOMAIN list = 1..N /\ \A i \in 1..N : list[i] \in S
  BY LedgerAssumption
<1>2. Len(list) = N
  OBVIOUS
<1> HIDE DEF N
<1> DEFINE from(n) == (n - 1) * PageSize + 1
           to(n) == Min({n * PageSize, Len(list)})
<1>3. \A n \in Seqs : from(n) \in Nat /\ from(n) >= 1
  <2> TAKE n \in Seqs
  <2>1. n - 1 \in Nat
    BY <1>1 DEF Seqs
  <2>2. (n - 1) * PageSize \in Nat
    BY <1>1, <2>1
  <2> QED
    BY <2>2
<1>4. \A n \in Seqs : to(n) \in Int /\ to(n) <= N /\ to(n) <= n * PageSize
                      /\ (to(n) = N \/ to(n) = n * PageSize)
  <2> TAKE n \in Seqs
  <2> DEFINE x == n * PageSize
  <2>1. x \in Int /\ N \in Int
    BY <1>1 DEF Seqs
  <2> HIDE DEF x
  <2>2. Min({x, N}) = IF x <= N THEN x ELSE N
    BY <2>1 DEF Min
  <2> QED
    BY <1>2, <2>1, <2>2 DEF x
<1>5. \A n \in Seqs : PageOf(list, n) = SubSeq(list, from(n), to(n))
  BY DEF PageOf
<1> HIDE DEF from, to
<1>6. \A n \in Seqs :
        /\ DOMAIN PageOf(list, n) = 1..(to(n) - from(n) + 1)
        /\ \A i \in 1..(to(n) - from(n) + 1) : PageOf(list, n)[i] = list[from(n) + i - 1]
  <2> TAKE n \in Seqs
  <2>1. \A i \in from(n)..to(n) : list[i] \in S
    BY <1>1, <1>3, <1>4
  <2> DEFINE page == SubSeq(list, from(n), to(n))
  <2>2. /\ page \in Seq(S)
        /\ Len(page) = IF from(n) <= to(n) THEN to(n) - from(n) + 1 ELSE 0
        /\ \A i \in 1..(to(n) - from(n) + 1) : page[i] = list[from(n) + i - 1]
    BY <1>3, <1>4, <2>1, SubSeqProperties
  <2> HIDE DEF page
  <2>3. DOMAIN page = 1..(to(n) - from(n) + 1)
    BY <1>3, <1>4, <2>2
  <2> QED
    BY <1>5, <2>2, <2>3 DEF page
<1>7. ASSUME NEW n \in Seqs, NEW x \in Range(PageOf(list, n))
      PROVE  \E i \in 1..N : x = list[i]
  <2>1. PICK j \in 1..(to(n) - from(n) + 1) : x = list[from(n) + j - 1]
    BY <1>6 DEF Range
  <2>2. from(n) + j - 1 \in 1..N
    BY <1>1, <1>3, <1>4
  <2> QED
    BY <2>1, <2>2
<1>8. ASSUME NEW i \in 1..N
      PROVE  \E n \in Seqs : list[i] \in Range(PageOf(list, n))
  <2>1. i - 1 \in Nat
    BY <1>1
  <2>2. PICK q \in 0..(i - 1) : q * PageSize <= i - 1 /\ i - 1 < (q + 1) * PageSize
    BY <2>1, PageOfPosition
  <2> DEFINE n == q + 1
  <2>3. n \in Seqs
    BY <1>1, <2>2 DEF Seqs
  <2>4. from(n) = q * PageSize + 1 /\ q * PageSize \in Int
    <3>1. n - 1 = q
      OBVIOUS
    <3> QED
      BY <1>1, <3>1 DEF from
  <2>5. from(n) <= i /\ i <= to(n)
    <3>1. i <= n * PageSize /\ n * PageSize \in Int
      BY <1>1, <2>2
    <3>2. from(n) <= i
      BY <2>2, <2>4
    <3> QED
      BY <1>1, <1>4, <2>3, <3>1, <3>2
  <2> HIDE DEF n
  <2>6. i - from(n) + 1 \in 1..(to(n) - from(n) + 1) /\ from(n) + (i - from(n) + 1) - 1 = i
    BY <1>1, <1>3, <1>4, <2>3, <2>5
  <2>7. PageOf(list, n)[i - from(n) + 1] = list[i]
    BY <1>6, <2>3, <2>6
  <2> QED
    BY <1>6, <2>3, <2>6, <2>7 DEF Range
<1>9. Range(list) = {list[i] : i \in 1..N}
  BY <1>1 DEF Range
<1> QED
  BY <1>7, <1>8, <1>9

LEMMA MinePaged ==
    ASSUME NEW mine \in SUBSET Seqs, NEW below, Before(mine, below),
           NEW list, ListedBy(mine, below, list)
    PROVE  UNION {Range(PageOf(list, n)) : n \in Seqs} = mine
<1>1. IsFiniteSet(mine) /\ IsFiniteSet(Seqs) /\ Cardinality(Seqs) = MaxOrders
  <2>1. MaxOrders \in Nat
    BY LedgerAssumption
  <2>2. IsFiniteSet(1..MaxOrders) /\ Cardinality(1..MaxOrders) = MaxOrders
    BY <2>1, FS_Interval
  <2>3. IsFiniteSet(Seqs) /\ Cardinality(Seqs) = MaxOrders
    BY <2>2 DEF Seqs
  <2> QED
    BY <2>3, FS_Subset
<1>2. Cardinality(mine) <= MaxOrders
  BY <1>1, FS_Subset
<1>3. list \in Seq(mine) /\ Len(list) = Cardinality(mine) /\ Range(list) = mine
  BY <1>1, ListingCovers
<1>4. Len(list) <= MaxOrders
  BY <1>2, <1>3
<1> QED
  BY <1>3, <1>4, PagesCover

OwnOrders(m) == {s \in Seqs : personalDonationWhere(m, s)}
PagesOf(m, sort) == UNION {Range(GetPersonalDonations(m, sort, n).items) : n \in Seqs}

\* The pages of a member's donations, in either order, are the member's orders.
LEMMA PersonalPages ==
    ASSUME LedgerTypes, NEW m, NEW sort \in {"latest", "amount"}
    PROVE  PagesOf(m, sort) = OwnOrders(m)
<1> DEFINE mine == OwnOrders(m)
           newer == [s \in mine |-> {t \in mine : Newer(t, s)}]
           larger == [s \in mine |-> {t \in mine : Larger(t, s)}]
<1>1. mine \in SUBSET Seqs /\ mine \subseteq Int /\ \A s \in mine : Net(s) \in Nat
  BY NetIsNatural, LedgerAssumption DEF OwnOrders, personalDonationWhere, Received, Live, Seqs
<1>2. \A n : GetPersonalDonations(m, sort, n).items = PersonalList(m, sort, n)
  BY DEF GetPersonalDonations
<1>3. CASE sort = "latest"
  <2> DEFINE list == InOrder(mine, Newer)
  <2>1. \A n : PersonalList(m, sort, n) = PageOf(list, n)
    BY <1>3 DEF PersonalList, OwnOrders
  <2> DEFINE pick(i) == CHOOSE s \in mine : Cardinality({t \in mine : Newer(t, s)}) = i - 1
  <2>2. list = [i \in 1..Cardinality(mine) |-> pick(i)]
    BY Zenon DEF InOrder
  <2>3. newer \in [mine -> SUBSET mine] /\ \A s \in mine : newer[s] = {t \in mine : Newer(t, s)}
    OBVIOUS
  <2> HIDE DEF mine, list, newer
  <2>4. /\ \A s \in mine : ~Newer(s, s)
        /\ \A s, t \in mine : s # t => Newer(s, t) \/ Newer(t, s)
        /\ \A r, s, t \in mine : Newer(r, s) /\ Newer(s, t) => Newer(r, t)
    BY <1>1 DEF Newer
  <2>5. \A s \in mine : s \notin newer[s]
    BY <2>3, <2>4
  <2>6. \A s, t \in mine : s # t => s \in newer[t] \/ t \in newer[s]
    BY <2>3, <2>4
  <2>7. \A s, t \in mine : s \in newer[t] => newer[s] \subseteq newer[t]
    BY <2>3, <2>4
  <2>8. \A i \in 1..Cardinality(mine) : (\E s \in mine : Cardinality(newer[s]) = i - 1)
          => list[i] \in mine /\ Cardinality(newer[list[i]]) = i - 1
    <3> TAKE i \in 1..Cardinality(mine)
    <3> HAVE \E s \in mine : Cardinality(newer[s]) = i - 1
    <3>1. \E s \in mine : Cardinality({t \in mine : Newer(t, s)}) = i - 1
      BY <2>3
    <3>2. list[i] \in mine /\ Cardinality({t \in mine : Newer(t, list[i])}) = i - 1
      <4>1. pick(i) \in mine /\ Cardinality({t \in mine : Newer(t, pick(i))}) = i - 1
        BY <3>1
      <4> HIDE DEF pick
      <4> QED
        BY <2>2, <4>1
    <3> QED
      BY <2>3, <3>2
  <2> HIDE DEF pick
  <2>9. Before(mine, newer)
    BY <2>3, <2>5, <2>6, <2>7 DEF Before
  <2>10. DOMAIN list = 1..Cardinality(mine) /\ list = [i \in DOMAIN list |-> list[i]]
    BY <2>2
  <2>11. ListedBy(mine, newer, list)
    BY <2>8, <2>10 DEF ListedBy
  <2>12. UNION {Range(PageOf(list, n)) : n \in Seqs} = mine
    BY <1>1, <2>9, <2>11, MinePaged
  <2> QED
    BY <1>2, <2>1, <2>12 DEF PagesOf, mine
<1>4. CASE sort = "amount"
  <2> DEFINE list == InOrder(mine, Larger)
  <2>1. \A n : PersonalList(m, sort, n) = PageOf(list, n)
    BY <1>4 DEF PersonalList, OwnOrders
  <2> DEFINE pick(i) == CHOOSE s \in mine : Cardinality({t \in mine : Larger(t, s)}) = i - 1
  <2>2. list = [i \in 1..Cardinality(mine) |-> pick(i)]
    BY Zenon DEF InOrder
  <2>3. larger \in [mine -> SUBSET mine] /\ \A s \in mine : larger[s] = {t \in mine : Larger(t, s)}
    OBVIOUS
  <2> HIDE DEF mine, list, larger
  <2>4. /\ \A s \in mine : ~Larger(s, s)
        /\ \A s, t \in mine : s # t => Larger(s, t) \/ Larger(t, s)
        /\ \A r, s, t \in mine : Larger(r, s) /\ Larger(s, t) => Larger(r, t)
    BY <1>1 DEF Larger, Newer
  <2>5. \A s \in mine : s \notin larger[s]
    BY <2>3, <2>4
  <2>6. \A s, t \in mine : s # t => s \in larger[t] \/ t \in larger[s]
    BY <2>3, <2>4
  <2>7. \A s, t \in mine : s \in larger[t] => larger[s] \subseteq larger[t]
    BY <2>3, <2>4
  <2>8. \A i \in 1..Cardinality(mine) : (\E s \in mine : Cardinality(larger[s]) = i - 1)
          => list[i] \in mine /\ Cardinality(larger[list[i]]) = i - 1
    <3> TAKE i \in 1..Cardinality(mine)
    <3> HAVE \E s \in mine : Cardinality(larger[s]) = i - 1
    <3>1. \E s \in mine : Cardinality({t \in mine : Larger(t, s)}) = i - 1
      BY <2>3
    <3>2. list[i] \in mine /\ Cardinality({t \in mine : Larger(t, list[i])}) = i - 1
      <4>1. pick(i) \in mine /\ Cardinality({t \in mine : Larger(t, pick(i))}) = i - 1
        BY <3>1
      <4> HIDE DEF pick
      <4> QED
        BY <2>2, <4>1
    <3> QED
      BY <2>3, <3>2
  <2> HIDE DEF pick
  <2>9. Before(mine, larger)
    BY <2>3, <2>5, <2>6, <2>7 DEF Before
  <2>10. DOMAIN list = 1..Cardinality(mine) /\ list = [i \in DOMAIN list |-> list[i]]
    BY <2>2
  <2>11. ListedBy(mine, larger, list)
    BY <2>8, <2>10 DEF ListedBy
  <2>12. UNION {Range(PageOf(list, n)) : n \in Seqs} = mine
    BY <1>1, <2>9, <2>11, MinePaged
  <2> QED
    BY <1>2, <2>1, <2>12 DEF PagesOf, mine
<1> QED
  BY <1>3, <1>4

\* The totals of the members' pages are the total of the orders that members own.
LEMMA SumsOfMembers ==
    ASSUME LedgerTypes, NEW sort \in {"latest", "amount"}
    PROVE  LET Pages(m, order) == UNION {Range(GetPersonalDonations(m, order, n).items) : n \in Seqs}
           IN  MapThenSumSet(LAMBDA m : SumNet(Pages(m, sort)), Members)
                 = SumNet({s \in AllReceived : orders[s].account \in Members})
<1> DEFINE own == [m \in Members |-> OwnOrders(m)]
           part == [m \in Members |-> UnitsOf(OwnOrders(m))]
           step(g) == FoldStep(part, Members, g)
           sums(g) == [s \in SUBSET Members |-> IF s = {} THEN 0
                         ELSE SumNet(PagesOf(Chosen(s), sort)) + g[s \ {Chosen(s)}]]
           all == {s \in AllReceived : orders[s].account \in Members}
<1>1. \A m \in Members : OwnOrders(m) \in SUBSET Live /\ PagesOf(m, sort) = OwnOrders(m)
  BY PersonalPages DEF OwnOrders, personalDonationWhere, Received, Live
<1>2. \A m \in Members : /\ part[m] = UnitsOf(OwnOrders(m)) /\ IsFiniteSet(part[m])
                         /\ Cardinality(part[m]) = SumNet(OwnOrders(m))
  BY <1>1, SumCountsUnits
<1>3. \A m, n \in Members : m # n => part[m] \cap part[n] = {}
  BY DEF UnitsOf, Units, OwnOrders, personalDonationWhere
<1>4. UNION {part[m] : m \in Members} = UnitsOf(all)
  BY DEF UnitsOf, OwnOrders, personalDonationWhere, AllReceived
<1>5. \A g : sums(g) = step(g)
  <2> TAKE g
  <2>1. \A s \in SUBSET Members : s # {} => Chosen(s) \in Members
    BY DEF Chosen
  <2> HIDE DEF part
  <2> QED
    BY <1>1, <1>2, <2>1 DEF FoldStep
<1>6. MapThenSumSet(LAMBDA m : SumNet(UNION {Range(GetPersonalDonations(m, sort, n).items) : n \in Seqs}), Members)
        = (CHOOSE g : g = sums(g))[Members]
  BY Zenon DEF MapThenSumSet, MapThenFoldSet, Chosen, PagesOf
<1> HIDE DEF part
<1>7. /\ \E g : g = step(g)
      /\ \A g : g = step(g) => g[Members] = Cardinality(UNION {part[m] : m \in Members})
  BY <1>2, <1>3, FoldOfParts, LedgerAssumption
<1> HIDE DEF step, sums
<1>8. (CHOOSE g : g = sums(g)) = sums(CHOOSE g : g = sums(g))
  BY <1>5, <1>7
<1>9. (CHOOSE g : g = sums(g))[Members] = Cardinality(UnitsOf(all))
  BY <1>4, <1>5, <1>7, <1>8
<1>10. all \in SUBSET Live
  BY DEF AllReceived, Received, Live
<1>11. SumNet(all) = Cardinality(UnitsOf(all))
  BY <1>10, SumCountsUnits
<1> QED
  BY <1>6, <1>9, <1>11, Zenon

\* The public total is what the members' pages show, and the unlinked orders,
\* and what erasures took out of the table.
LEMMA TotalsAddUp ==
    ASSUME LedgerTypes
    PROVE  PersonalTotalsAddUp
<1> DEFINE linked == {s \in AllReceived : orders[s].account \in Members}
           unlinked == {s \in AllReceived : orders[s].account = NoMember}
<1>1. linked \in SUBSET Live /\ unlinked \in SUBSET Live
  BY DEF AllReceived, Received, Live
<1>2. AllReceived = linked \cup unlinked
  <2>1. \A s \in AllReceived : orders[s].account \in Accounts
    BY DEF AllReceived, Received, Live, LedgerTypes, OrderFits
  <2> QED
    BY <2>1 DEF Accounts
<1>3. linked \cap unlinked = {}
  BY LedgerAssumption
<1> HIDE DEF linked, unlinked
<1>4. SumNet(AllReceived) = SumNet(linked) + SumNet(unlinked)
  BY <1>1, <1>2, <1>3, SumsAdd
<1>5. getReceivedDonationAggregate.amount = SumNet(linked) + SumNet(unlinked) + erased.amount
  BY <1>4 DEF getReceivedDonationAggregate, AggregateOver
<1>6. ASSUME NEW sort \in {"latest", "amount"}
      PROVE  MapThenSumSet(LAMBDA m : SumNet(UNION {Range(GetPersonalDonations(m, sort, n).items) : n \in Seqs}), Members)
               = SumNet(linked)
  BY SumsOfMembers, Zenon DEF linked
<1>7. \A m \in Members :
        Cardinality(UNION {Range(GetPersonalDonations(m, "latest", n).items) : n \in Seqs}) = GetTotals(m).count
  BY PersonalPages DEF PagesOf, OwnOrders, GetTotals
<1>8. \A sort \in {"latest", "amount"} :
        getReceivedDonationAggregate.amount
          = MapThenSumSet(LAMBDA m : SumNet(UNION {Range(GetPersonalDonations(m, sort, n).items) : n \in Seqs}), Members)
              + SumNet(unlinked) + erased.amount
  <2> TAKE sort \in {"latest", "amount"}
  <2> DEFINE pages == MapThenSumSet(LAMBDA m : SumNet(UNION {Range(GetPersonalDonations(m, sort, n).items) : n \in Seqs}), Members)
  <2>1. pages = SumNet(linked)
    BY <1>6
  <2> HIDE DEF pages
  <2>2. getReceivedDonationAggregate.amount = pages + SumNet(unlinked) + erased.amount
    BY <1>5, <2>1
  <2> QED
    BY <2>2 DEF pages
<1> QED
  BY <1>7, <1>8, Zenon DEF PersonalTotalsAddUp, unlinked

\* What a page of the ledger shows is in the ledger.
LEMMA ListedAreLive ==
    ASSUME LedgerTypes, NEW st, NEW page \in Int
    PROVE  \A s \in Range(ListOrders(st, page)) : s \in Live
<1> DEFINE matching == {s \in Live : st = "" \/ orders[s].status = st}
           newer == [s \in matching |-> {t \in matching : Newer(t, s)}]
           list == InOrder(matching, Newer)
           pick(i) == CHOOSE s \in matching : Cardinality({t \in matching : Newer(t, s)}) = i - 1
           n == IF page < 1 THEN 1 ELSE page
<1>1. matching \in SUBSET Seqs /\ matching \subseteq Int
  <2>1. Live \subseteq Seqs /\ Seqs \subseteq Int
    BY LedgerAssumption DEF Live, Seqs
  <2> QED
    BY <2>1
<1>2. list = [i \in 1..Cardinality(matching) |-> pick(i)]
  BY Zenon DEF InOrder
<1>3. newer \in [matching -> SUBSET matching] /\ \A s \in matching : newer[s] = {t \in matching : Newer(t, s)}
  OBVIOUS
<1> HIDE DEF matching, list, newer
<1>4. \A s, t \in matching : s # t => s \in newer[t] \/ t \in newer[s]
  BY <1>1, <1>3 DEF Newer
<1>5. \A s \in matching : s \notin newer[s]
  BY <1>1, <1>3 DEF Newer
<1>6. \A s, t \in matching : s \in newer[t] => newer[s] \subseteq newer[t]
  <2>1. \A r, s, t \in matching : Newer(r, s) /\ Newer(s, t) => Newer(r, t)
    BY <1>1 DEF Newer
  <2> QED
    BY <1>3, <2>1
<1>7. Before(matching, newer)
  BY <1>3, <1>4, <1>5, <1>6 DEF Before
<1>8. \A i \in 1..Cardinality(matching) : (\E s \in matching : Cardinality(newer[s]) = i - 1)
        => list[i] \in matching /\ Cardinality(newer[list[i]]) = i - 1
  <2> TAKE i \in 1..Cardinality(matching)
  <2> HAVE \E s \in matching : Cardinality(newer[s]) = i - 1
  <2>1. \E s \in matching : Cardinality({t \in matching : Newer(t, s)}) = i - 1
    BY <1>3
  <2>2. pick(i) \in matching /\ Cardinality({t \in matching : Newer(t, pick(i))}) = i - 1
    BY <2>1
  <2> HIDE DEF pick
  <2> QED
    BY <1>2, <1>3, <2>2
<1> HIDE DEF pick
<1>9. DOMAIN list = 1..Cardinality(matching) /\ list = [i \in DOMAIN list |-> list[i]]
  BY <1>2
<1>10. ListedBy(matching, newer, list)
  BY <1>8, <1>9 DEF ListedBy
<1>11. list \in Seq(matching) /\ Range(list) = matching
  BY <1>1, <1>7, <1>10, SeqsAreFinite, ListingCovers
<1>12. Range(PageOf(list, n)) \subseteq matching
  <2>1. n \in Int /\ n >= 1
    OBVIOUS
  <2> HIDE DEF n
  <2>2. PageSize \in Nat /\ PageSize >= 1
    BY LedgerAssumption
  <2> DEFINE from == (n - 1) * PageSize + 1
             to == Min({n * PageSize, Len(list)})
             x == n * PageSize
             N == Len(list)
  <2>3. x \in Int /\ N \in Nat /\ (n - 1) * PageSize \in Nat /\ \A i \in 1..N : list[i] \in matching
    <3>1. n - 1 \in Nat
      BY <2>1
    <3>2. (n - 1) * PageSize \in Nat
      BY <2>2, <3>1
    <3> QED
      BY <1>11, <2>1, <2>2, <3>2
  <2>4. from \in Int /\ from >= 1
    BY <2>3
  <2> HIDE DEF x, N, from
  <2>5. Min({x, N}) = IF x <= N THEN x ELSE N
    BY <2>3 DEF Min
  <2>6. to \in Int /\ to <= N
    BY <2>3, <2>5 DEF x, N
  <2> HIDE DEF to
  <2>7. \A i \in from..to : list[i] \in matching
    BY <2>3, <2>4, <2>6
  <2>8. SubSeq(list, from, to) \in Seq(matching)
    BY <2>4, <2>6, <2>7, SubSeqProperties
  <2>9. PageOf(list, n) = SubSeq(list, from, to)
    BY DEF PageOf, from, to
  <2>10. PageOf(list, n) \in Seq(matching)
    BY <2>8, <2>9
  <2> QED
    BY <2>10 DEF Range
<1>13. ListOrders(st, page) \in {PageOf(list, n), <<>>}
  BY DEF ListOrders, ListDonationOrders, list, matching
<1>14. Range(<<>>) = {}
  BY DEF Range
<1> QED
  BY <1>12, <1>13, <1>14 DEF matching
-----------------------------------------------------------------------------
(* The donation ledger: steps                                              *)

\* Two orders that one of the unique indexes keeps apart.
SameDonation(o, q) ==
    \/ nullableCompositeKey(o) # NoKey /\ nullableCompositeKey(q) = nullableCompositeKey(o)
    \/ o.txn # NoTxn /\ q.txn = o.txn /\ q.source = o.source

LEMMA ConflictsAre ==
    /\ \A o : \A s : Conflicts(o, s) <=> orders[s] # NoOrder /\ SameDonation(o, orders[s])
    /\ \A o, q : SameDonation(o, q) => SameDonation(q, o)
BY DEF Conflicts, SameDonation

\* Distinct orders in the ledger are distinct donations.
LEMMA UniqueAre ==
    IdentityUnique <=> \A s, t \in Live : s # t => ~SameDonation(orders[s], orders[t])
BY ConflictsAre DEF IdentityUnique, Live

LEMMA LedgerStarts == LedgerInit => LedgerInv
<1> SUFFICES ASSUME LedgerInit PROVE LedgerInv
  OBVIOUS
<1> USE DEF LedgerInit
<1>1. Live = {}
  BY DEF Live
<1>2. LedgerTypes
  <2>1. IsFiniteSet(tokens)
    BY FS_EmptySet
  <2>2. member \in [Members -> [active : BOOLEAN, who : Donors]]
    OBVIOUS
  <2>3. /\ DOMAIN orders = Seqs /\ DOMAIN review = Seqs /\ DOMAIN job = Operators
        /\ \A p \in Operators : job[p] = Idle
    OBVIOUS
  <2>4. nextSeq \in Nat \ {0} /\ clock \in Nat /\ erased \in [amount : Int, count : Int] /\ tokens = {}
    OBVIOUS
  <2> QED
    BY <1>1, <2>1, <2>2, <2>3, <2>4 DEF LedgerTypes
<1> QED
  BY <1>1, <1>2 DEF LedgerInv, IdentityUnique, ErasedOwnsNothing, ReviewMatchesOrder,
                    ReviewsWereSeen, ErasedAsReviewed

\* A step that leaves the orders, their reviews and the accounts in force alone.
LEMMA OrdersUntouched ==
    ASSUME LedgerInv, UNCHANGED <<orders, nextSeq, review, erased, archive>>,
           member' \in [Members -> [active : BOOLEAN, who : Donors]],
           \A m \in Members : member'[m].active = member[m].active,
           DOMAIN job' = Operators, \A p \in Operators : job'[p] # Idle => JobFits(job'[p]),
           IsFiniteSet(tokens'), \A t \in tokens' : t.row \in ImportRows,
           clock' \in Nat
    PROVE  LedgerInv'
<1>1. Live' = Live
  BY DEF Live
<1>2. LedgerTypes'
  BY <1>1 DEF LedgerInv, LedgerTypes
<1>3. IdentityUnique'
  BY <1>1 DEF LedgerInv, IdentityUnique, Conflicts
<1>4. ErasedOwnsNothing'
  <2>1. \A s \in Live : orders[s].account \in Accounts
    BY DEF LedgerInv, LedgerTypes, OrderFits
  <2> QED
    BY <1>1, <2>1 DEF LedgerInv, ErasedOwnsNothing, Accounts
<1>5. ReviewMatchesOrder' /\ ReviewsWereSeen' /\ ErasedAsReviewed'
  BY <1>1 DEF LedgerInv, ReviewMatchesOrder, ReviewsWereSeen, ErasedAsReviewed
<1> QED
  BY <1>2, <1>3, <1>4, <1>5 DEF LedgerInv

\* A step that writes the orders of New, each apart from every other order and of
\* an account in force, and leaves none of them reviewed.
LEMMA OrdersPut ==
    ASSUME LedgerInv, NEW New \in SUBSET Seqs, NEW put,
           DOMAIN orders' = Seqs,
           \A s \in Seqs : orders'[s] = IF s \in New THEN put[s] ELSE orders[s],
           \A s \in New : /\ OrderFits(put[s]) /\ s < nextSeq'
                          /\ put[s].account # NoMember => member[put[s].account].active
                          /\ \A t \in Seqs \ New : ~Conflicts(put[s], t),
           \A s, t \in New : s # t => ~SameDonation(put[s], put[t]),
           nextSeq' \in Nat, nextSeq' >= nextSeq,
           DOMAIN review' = Seqs,
           \A s \in Seqs : review'[s] = IF s \in New THEN NoReview ELSE review[s],
           DOMAIN job' = Operators, \A p \in Operators : job'[p] # Idle => JobFits(job'[p]),
           UNCHANGED <<member, erased, archive, tokens, clock>>
    PROVE  LedgerInv'
<1>1. Live' \subseteq Live \cup New
  BY DEF Live
<1>2. \A s \in Live' : s \in Seqs /\ IF s \in New THEN orders'[s] = put[s]
                                     ELSE s \in Live /\ orders'[s] = orders[s]
  BY DEF Live
<1>3. LedgerTypes'
  <2>1. nextSeq \in Nat \ {0}
    BY DEF LedgerInv, LedgerTypes
  <2>2. nextSeq' \in Nat \ {0}
    BY <2>1
  <2>3. \A s \in Live' : OrderFits(orders'[s]) /\ s < nextSeq'
    <3> TAKE s \in Live'
    <3>1. CASE s \in New
      BY <1>2, <3>1
    <3>2. CASE s \notin New
      <4>1. OrderFits(orders[s]) /\ s < nextSeq /\ s \in Live
        BY <1>2, <3>2 DEF LedgerInv, LedgerTypes
      <4>2. s \in Int
        BY LedgerAssumption DEF Live, Seqs
      <4> QED
        BY <1>2, <2>1, <3>2, <4>1, <4>2
    <3> QED
      BY <3>1, <3>2
  <2> QED
    BY <2>2, <2>3 DEF LedgerInv, LedgerTypes
<1>4. IdentityUnique'
  <2>1. \A s, t \in Live' : s # t => ~SameDonation(orders'[s], orders'[t])
    <3> TAKE s, t \in Live'
    <3> HAVE s # t
    <3>1. CASE s \in New /\ t \in New
      BY <1>2, <3>1
    <3>2. CASE s \in New /\ t \notin New
      <4>1. ~Conflicts(put[s], t) /\ orders[t] # NoOrder
        BY <1>2, <3>2 DEF Live
      <4> QED
        BY <1>2, <3>2, <4>1, ConflictsAre
    <3>3. CASE s \notin New /\ t \in New
      <4>1. ~Conflicts(put[t], s) /\ orders[s] # NoOrder
        BY <1>2, <3>3 DEF Live
      <4> QED
        BY <1>2, <3>3, <4>1, ConflictsAre
    <3>4. CASE s \notin New /\ t \notin New
      <4>1. \A x, y \in Live : x # y => ~SameDonation(orders[x], orders[y])
        BY UniqueAre DEF LedgerInv
      <4> QED
        BY <1>2, <3>4, <4>1
    <3> QED
      BY <3>1, <3>2, <3>3, <3>4
  <2>2. \A s \in Live' : \A t \in Live' \ {s} : ~SameDonation(orders'[s], orders'[t])
    BY <2>1
  <2> QED
    BY <2>2 DEF IdentityUnique, Conflicts, SameDonation
<1>5. ErasedOwnsNothing'
  BY <1>2 DEF LedgerInv, ErasedOwnsNothing
<1>6. ReviewMatchesOrder' /\ ReviewsWereSeen'
  <2>1. \A s \in Seqs : review'[s] # NoReview => s \notin New /\ review'[s] = review[s]
    OBVIOUS
  <2>2. \A s \in Seqs : review'[s] # NoReview =>
          orders'[s] = orders[s] /\ s \in Live /\ review[s].fp = orders[s]
    BY <2>1 DEF LedgerInv, ReviewMatchesOrder
  <2> QED
    BY <2>1, <2>2 DEF LedgerInv, ReviewMatchesOrder, ReviewsWereSeen, Live
<1>7. ErasedAsReviewed'
  BY DEF LedgerInv, ErasedAsReviewed
<1> QED
  BY <1>3, <1>4, <1>5, <1>6, <1>7 DEF LedgerInv

\* A normalised body makes a well-formed order.
LEMMA NormalizedFits ==
    ASSUME LedgerTypes, NEW i, NEW account \in Accounts, i.gross \in Int, i.refunded \in Int,
           NormalizeDonationOrderInput(i)
    PROVE  /\ OrderFits(OrderOf(i, account)) /\ OrderOf(i, account).account = account
           /\ \A q : SameDonation(OrderOf(i, account), q) <=> SameDonation(i, q)
           /\ \A s : Conflicts(OrderOf(i, account), s) <=> Conflicts(i, s)
<1>1. i.gross >= 0 /\ i.refunded >= 0 /\ i.refunded <= i.gross
  BY DEF NormalizeDonationOrderInput
<1>2. clock \in Nat
  BY DEF LedgerTypes
<1> DEFINE o == OrderOf(i, account)
<1>3. /\ o.account = account /\ o.gross = i.gross /\ o.refunded = i.refunded
      /\ o.edited = clock /\ o.txn = i.txn /\ o.donor = i.donor /\ o.source = i.source
  BY DEF OrderOf
<1> HIDE DEF o
<1>4. OrderFits(o)
  BY <1>1, <1>2, <1>3 DEF OrderFits
<1>5. nullableCompositeKey(o) = nullableCompositeKey(i)
  BY <1>3 DEF nullableCompositeKey
<1>6. /\ \A q : SameDonation(o, q) <=> SameDonation(i, q)
      /\ \A s : Conflicts(o, s) <=> Conflicts(i, s)
  BY <1>3, <1>5 DEF SameDonation, Conflicts
<1> QED
  BY <1>3, <1>4, <1>6 DEF o

LEMMA CreateOrderStep ==
    ASSUME LedgerInv, NEW p \in Operators, NEW i \in OrderInputs, CreateOrder(p, i)
    PROVE  LedgerInv'
<1> DEFINE o == OrderOf(i, i.account)
           put == [s \in {nextSeq} |-> o]
<1>1. /\ LedgerTypes /\ nextSeq \in Nat \ {0} /\ nextSeq <= MaxOrders /\ DOMAIN orders = Seqs
      /\ MaxOrders \in Nat
  BY LedgerAssumption DEF LedgerInv, LedgerTypes, CreateOrder, CreateNormalized, CreateDonationOrder
<1>2. nextSeq \in Seqs
  BY <1>1 DEF Seqs
<1>3. /\ NormalizeDonationOrderInput(i) /\ lockActiveDonationAccount(i.account)
      /\ ~ \E s \in Seqs : Conflicts(i, s)
      /\ orders' = [orders EXCEPT ![nextSeq] = o] /\ nextSeq' = nextSeq + 1
  BY DEF CreateOrder, CreateNormalized, CreateDonationOrder
<1>4. /\ OrderFits(o) /\ o.account = i.account /\ \A s : Conflicts(o, s) <=> Conflicts(i, s)
  BY <1>1, <1>3, NormalizedFits, LedgerAssumption
<1>5. UNCHANGED <<member, review, erased, archive, tokens, job, clock>>
  BY DEF CreateOrder
<1>6. \A s \in Seqs : review'[s] = IF s \in {nextSeq} THEN NoReview ELSE review[s]
  <2>1. nextSeq \notin Live
    BY <1>1 DEF LedgerTypes
  <2>2. review[nextSeq] = NoReview
    BY <1>2, <2>1 DEF LedgerInv, ReviewMatchesOrder
  <2> QED
    BY <1>5, <2>2
<1> HIDE DEF o
<1>7. \A s \in Seqs : orders'[s] = IF s \in {nextSeq} THEN put[s] ELSE orders[s]
  BY <1>1, <1>3
<1>8. put[nextSeq] = o
  OBVIOUS
<1>9. \A s \in {nextSeq} : /\ OrderFits(put[s]) /\ s < nextSeq'
                           /\ put[s].account # NoMember => member[put[s].account].active
                           /\ \A t \in Seqs \ {nextSeq} : ~Conflicts(put[s], t)
  BY <1>1, <1>3, <1>4, <1>8 DEF lockActiveDonationAccount
<1> HIDE DEF put
<1>10. /\ DOMAIN orders' = Seqs /\ DOMAIN review' = Seqs /\ DOMAIN job' = Operators
       /\ \A q \in Operators : job'[q] # Idle => JobFits(job'[q])
  BY <1>1, <1>3, <1>5 DEF LedgerTypes
<1>11. nextSeq' \in Nat /\ nextSeq' >= nextSeq
  BY <1>1, <1>3
<1>12. \A s, t \in {nextSeq} : s # t => ~SameDonation(put[s], put[t])
  OBVIOUS
<1>13. {nextSeq} \in SUBSET Seqs
  BY <1>2
<1> QED
  BY <1>5, <1>6, <1>7, <1>9, <1>10, <1>11, <1>12, <1>13, OrdersPut

LEMMA UpdateOrderStep ==
    ASSUME LedgerInv, NEW p \in Operators, NEW i \in OrderInputs, UpdateOrder(p, i)
    PROVE  LedgerInv'
<1> DEFINE s == job[p].seq
           o == Replacement(s, i)
           put == [x \in {s} |-> o]
<1>1. LedgerTypes /\ job[p] # Idle /\ job[p].op = "edit" /\ DOMAIN orders = Seqs /\ DOMAIN review = Seqs
  BY DEF LedgerInv, LedgerTypes, UpdateOrder
<1>2. s \in Seqs
  BY <1>1 DEF LedgerTypes, JobFits
<1>3. UNCHANGED <<nextSeq, member, erased, archive, tokens, clock>>
  BY DEF UpdateOrder
<1>4. DOMAIN job' = Operators /\ \A q \in Operators : job'[q] # Idle => JobFits(job'[q])
  <2>1. DOMAIN job = Operators /\ \A q \in Operators : job[q] # Idle => JobFits(job[q])
    BY <1>1 DEF LedgerTypes
  <2>2. job' = [job EXCEPT ![p] = Idle]
    BY DEF UpdateOrder
  <2> QED
    BY <2>1, <2>2
<1>5. NormalizeDonationOrderInput(i) /\ UpdateDonationOrder(s, job[p].seen, i)
  BY DEF UpdateOrder, UpdateNormalized
<1>6. CASE UpdateAccepted(s, job[p].seen, i)
  <2>1. /\ orders' = [orders EXCEPT ![s] = o] /\ review' = [review EXCEPT ![s] = NoReview]
    BY <1>5, <1>6 DEF UpdateDonationOrder, InvalidateReview
  <2>2. /\ i.accountSet => lockActiveDonationAccount(i.account)
        /\ orders[s] # NoOrder /\ ~ \E t \in Seqs \ {s} : Conflicts(i, t)
    BY <1>6 DEF UpdateAccepted, NotEditedSince
  <2>3. s \in Live
    BY <1>2, <2>2 DEF Live
  <2> DEFINE account == EditedAccount(s, i)
  <2>4. account \in Accounts /\ (account # NoMember => member[account].active)
    <3>1. CASE i.accountSet
      BY <2>2, <3>1, LedgerAssumption DEF EditedAccount, lockActiveDonationAccount
    <3>2. CASE ~i.accountSet
      BY <1>1, <2>3, <3>2 DEF EditedAccount, LedgerInv, LedgerTypes, OrderFits, ErasedOwnsNothing
    <3> QED
      BY <3>1, <3>2
  <2> HIDE DEF account
  <2>5. o = OrderOf(i, account)
    BY DEF Replacement, account
  <2>6. /\ OrderFits(o) /\ o.account = account /\ \A t : Conflicts(o, t) <=> Conflicts(i, t)
    BY <1>1, <1>5, <2>4, <2>5, NormalizedFits, LedgerAssumption
  <2>7. s < nextSeq' /\ nextSeq' \in Nat /\ nextSeq' >= nextSeq
    BY <1>1, <1>3, <2>3 DEF LedgerTypes
  <2> HIDE DEF s, o
  <2>8. /\ \A x \in Seqs : orders'[x] = IF x \in {s} THEN put[x] ELSE orders[x]
        /\ \A x \in Seqs : review'[x] = IF x \in {s} THEN NoReview ELSE review[x]
        /\ DOMAIN orders' = Seqs /\ DOMAIN review' = Seqs
    BY <1>1, <2>1
  <2>9. \A x \in {s} : /\ OrderFits(put[x]) /\ x < nextSeq'
                       /\ put[x].account # NoMember => member[put[x].account].active
                       /\ \A t \in Seqs \ {s} : ~Conflicts(put[x], t)
    BY <2>2, <2>4, <2>6, <2>7
  <2> HIDE DEF put
  <2>10. \A x, t \in {s} : x # t => ~SameDonation(put[x], put[t])
    OBVIOUS
  <2>11. {s} \in SUBSET Seqs
    BY <1>2
  <2> QED
    BY <1>3, <1>4, <2>7, <2>8, <2>9, <2>10, <2>11, OrdersPut
<1>7. CASE ~UpdateAccepted(s, job[p].seen, i)
  <2>1. UNCHANGED <<orders, review>>
    BY <1>5, <1>7 DEF UpdateDonationOrder
  <2> QED
    BY <1>1, <1>3, <1>4, <2>1, OrdersUntouched DEF LedgerTypes
<1> QED
  BY <1>6, <1>7

\* A transaction ends: its operator is idle again.
LEMMA JobEnds ==
    ASSUME LedgerTypes, NEW p \in Operators, job' = [job EXCEPT ![p] = Idle]
    PROVE  DOMAIN job' = Operators /\ \A q \in Operators : job'[q] # Idle => JobFits(job'[q])
<1>1. DOMAIN job = Operators /\ \A q \in Operators : job[q] # Idle => JobFits(job[q])
  BY DEF LedgerTypes
<1> QED
  BY <1>1

\* A finite set of rows is listed once each.
LEMMA RowsListed ==
    ASSUME NEW rows, IsFiniteSet(rows)
    PROVE  /\ Len(SetToSeq(rows)) = Cardinality(rows) /\ Cardinality(rows) \in Nat
           /\ \A i \in 1..Cardinality(rows) : SetToSeq(rows)[i] \in rows
           /\ \A i, j \in 1..Cardinality(rows) : i # j => SetToSeq(rows)[i] # SetToSeq(rows)[j]
<1> DEFINE N == Cardinality(rows)
<1>1. N \in Nat /\ \E f \in [1..N -> rows] : IsInjective(f)
  BY FS_CardinalityType DEF ExistsBijection, Bijection, Injection
<1>2. SetToSeq(rows) \in [1..N -> rows] /\ IsInjective(SetToSeq(rows))
  BY <1>1 DEF SetToSeq
<1> HIDE DEF N
<1>3. Len(SetToSeq(rows)) = N
  BY <1>1, <1>2
<1>4. \A i, j \in 1..N : i # j => SetToSeq(rows)[i] # SetToSeq(rows)[j]
  BY <1>2 DEF IsInjective
<1> QED
  BY <1>1, <1>2, <1>3, <1>4 DEF N

LEMMA CommitStep ==
    ASSUME LedgerInv, NEW p \in Operators, Commit(p)
    PROVE  LedgerInv'
<1> DEFINE rows == job[p].rows
           listed == SetToSeq(rows)
           N == Cardinality(rows)
           row(s) == listed[s - nextSeq + 1]
           New == nextSeq..(nextSeq + N - 1)
           put == [s \in New |-> OrderOf(importedDonationOrderInput(row(s).token.row), row(s).account)]
<1>1. LedgerTypes /\ job[p] # Idle /\ job[p].op = "import"
  BY DEF LedgerInv, Commit
<1>2. /\ IsFiniteSet(rows)
      /\ \A r \in rows : r.account \in Accounts /\ r.token.row \in ImportRows
      /\ \A r, q \in rows : r.token.row = q.token.row => r = q
  BY <1>1 DEF LedgerTypes, JobFits
<1>3. /\ UNCHANGED <<member, review, erased, archive, tokens, clock>>
      /\ job' = [job EXCEPT ![p] = Idle]
  BY DEF Commit
<1>4. DOMAIN job' = Operators /\ \A q \in Operators : job'[q] # Idle => JobFits(job'[q])
  BY <1>1, <1>3, JobEnds
<1>5. CASE Importable(rows, job[p].taken)
  <2>1. CreateImportedOrdersTx(rows)
    BY <1>5 DEF Commit
  <2>2. /\ Len(listed) = N /\ N \in Nat
        /\ \A k \in 1..N : listed[k] \in rows
        /\ \A k, l \in 1..N : k # l => listed[k] # listed[l]
    BY <1>2, RowsListed
  <2>3. nextSeq \in Nat \ {0} /\ MaxOrders \in Nat /\ clock \in Nat
    BY <1>1, LedgerAssumption DEF LedgerTypes
  <2>4. /\ nextSeq + N - 1 <= MaxOrders /\ nextSeq' = nextSeq + N
        /\ orders' = [s \in Seqs |->
             IF s \in nextSeq..(nextSeq + Len(listed) - 1)
             THEN OrderOf(importedDonationOrderInput(row(s).token.row), row(s).account)
             ELSE orders[s]]
    BY <2>1 DEF CreateImportedOrdersTx, CreateDonationOrdersTx
  <2>5. \A r \in rows : NormalizeDonationOrderInput(importedDonationOrderInput(r.token.row))
    BY <2>1 DEF CreateImportedOrdersTx
  <2>6. /\ \A r \in rows : r.account # NoMember => member[r.account].active
        /\ \A r \in rows : \A s \in Seqs : ~Conflicts(importedDonationOrderInput(r.token.row), s)
    BY <1>5 DEF Importable, lockActiveDonationAccounts, lockActiveDonationAccount, NoKeyConflict
  <2>7. \A r \in rows :
          LET i == importedDonationOrderInput(r.token.row)
          IN  i.donor = r.token.row.donor /\ i.gross = r.token.row.amount /\ i.refunded = 0 /\ i.txn = NoTxn
    BY DEF importedDonationOrderInput
  <2> HIDE DEF rows, listed, N
  <2>8. ASSUME NEW r \in rows
        PROVE  LET o == OrderOf(importedDonationOrderInput(r.token.row), r.account)
               IN  /\ OrderFits(o) /\ (o.account # NoMember => member[o.account].active)
                   /\ \A s \in Seqs : ~Conflicts(o, s)
    <3> DEFINE i == importedDonationOrderInput(r.token.row)
    <3>1. i.gross \in Int /\ i.refunded \in Int
      BY <1>2, <2>7 DEF ImportRows
    <3>2. NormalizeDonationOrderInput(i) /\ r.account \in Accounts
      BY <1>2, <2>5
    <3>3. \A s \in Seqs : ~Conflicts(i, s)
      BY <2>6
    <3> HIDE DEF i
    <3>4. /\ OrderFits(OrderOf(i, r.account)) /\ OrderOf(i, r.account).account = r.account
          /\ \A s : Conflicts(OrderOf(i, r.account), s) <=> Conflicts(i, s)
      BY <1>1, <3>1, <3>2, NormalizedFits
    <3> QED
      BY <2>6, <3>3, <3>4 DEF i
  <2>9. ASSUME NEW r \in rows, NEW q \in rows, r # q
        PROVE  ~SameDonation(OrderOf(importedDonationOrderInput(r.token.row), r.account),
                             OrderOf(importedDonationOrderInput(q.token.row), q.account))
    <3>1. r.token.row # q.token.row /\ r.token.row \in ImportRows /\ q.token.row \in ImportRows
      BY <1>2, <2>9
    <3>2. r.token.row.donor # q.token.row.donor \/ r.token.row.amount # q.token.row.amount
      BY <3>1 DEF ImportRows
    <3> DEFINE o == OrderOf(importedDonationOrderInput(r.token.row), r.account)
               u == OrderOf(importedDonationOrderInput(q.token.row), q.account)
    <3>3. /\ o.donor = r.token.row.donor /\ o.gross = r.token.row.amount /\ o.txn = NoTxn
          /\ u.donor = q.token.row.donor /\ u.gross = q.token.row.amount /\ u.txn = NoTxn
      BY DEF OrderOf, importedDonationOrderInput
    <3> HIDE DEF o, u
    <3>4. nullableCompositeKey(o) = <<o.donor, o.gross>> /\ nullableCompositeKey(u) = <<u.donor, u.gross>>
      BY <3>3 DEF nullableCompositeKey
    <3>5. ~SameDonation(o, u)
      BY <3>2, <3>3, <3>4 DEF SameDonation
    <3> QED
      BY <3>5 DEF o, u
  <2>10. \A s \in New : s - nextSeq + 1 \in 1..N /\ row(s) \in rows /\ s < nextSeq'
    BY <2>2, <2>3, <2>4
  <2>11. \A s, t \in New : s # t => row(s) # row(t)
    <3> TAKE s, t \in New
    <3> HAVE s # t
    <3>1. s - nextSeq + 1 # t - nextSeq + 1
      BY <2>2, <2>3
    <3> QED
      BY <2>2, <2>10, <3>1
  <2>12. New \in SUBSET Seqs
    BY <2>2, <2>3, <2>4 DEF Seqs
  <2>13. \A s \in New : put[s] = OrderOf(importedDonationOrderInput(row(s).token.row), row(s).account)
    OBVIOUS
  <2>14. /\ DOMAIN orders' = Seqs
         /\ \A s \in Seqs : orders'[s] = IF s \in New THEN put[s] ELSE orders[s]
    BY <2>2, <2>4, <2>13
  <2> HIDE DEF put, row
  <2>15. \A s \in New : /\ OrderFits(put[s]) /\ s < nextSeq'
                        /\ put[s].account # NoMember => member[put[s].account].active
                        /\ \A t \in Seqs \ New : ~Conflicts(put[s], t)
    BY <2>8, <2>10, <2>13
  <2>16. \A s, t \in New : s # t => ~SameDonation(put[s], put[t])
    BY <2>9, <2>10, <2>11, <2>13
  <2>17. DOMAIN review' = Seqs /\ \A s \in Seqs : review'[s] = IF s \in New THEN NoReview ELSE review[s]
    <3>1. \A s \in New : s >= nextSeq /\ s \in Int
      BY <2>2, <2>3
    <3>2. \A s \in New : s \notin Live
      BY <1>1, <2>3, <3>1 DEF LedgerTypes
    <3>3. \A s \in New : review[s] = NoReview
      BY <2>12, <3>2 DEF LedgerInv, ReviewMatchesOrder
    <3>4. DOMAIN review = Seqs
      BY <1>1 DEF LedgerTypes
    <3> QED
      BY <1>3, <3>3, <3>4
  <2>18. nextSeq' \in Nat /\ nextSeq' >= nextSeq
    BY <2>2, <2>3, <2>4
  <2> HIDE DEF New
  <2> QED
    BY <1>3, <1>4, <2>12, <2>14, <2>15, <2>16, <2>17, <2>18, OrdersPut
<1>6. CASE ~Importable(rows, job[p].taken)
  <2>1. UNCHANGED <<orders, nextSeq>>
    BY <1>6 DEF Commit
  <2> QED
    BY <1>1, <1>3, <1>4, <2>1, OrdersUntouched DEF LedgerTypes
<1> QED
  BY <1>5, <1>6

\* A step that only writes reviews, each of a live order as it is.
LEMMA ReviewsPut ==
    ASSUME LedgerInv, NEW New \in SUBSET Live, DOMAIN review' = Seqs,
           \A s \in Seqs \ New : review'[s] = review[s],
           \A s \in New : review'[s].fp = orders[s] /\ review'[s].evidence = review'[s].fp,
           UNCHANGED <<orders, nextSeq, member, erased, archive, tokens, job, clock>>
    PROVE  LedgerInv'
<1>1. Live' = Live
  BY DEF Live
<1>2. LedgerTypes'
  BY <1>1 DEF LedgerInv, LedgerTypes
<1>3. IdentityUnique' /\ ErasedOwnsNothing' /\ ErasedAsReviewed'
  BY <1>1 DEF LedgerInv, IdentityUnique, Conflicts, ErasedOwnsNothing, ErasedAsReviewed
<1>4. \A s \in Seqs : review'[s] # NoReview =>
        s \in Live /\ review'[s].fp = orders[s] /\ review'[s].evidence = review'[s].fp
  BY DEF LedgerInv, ReviewMatchesOrder, ReviewsWereSeen
<1>5. ReviewMatchesOrder' /\ ReviewsWereSeen'
  BY <1>1, <1>4 DEF ReviewMatchesOrder, ReviewsWereSeen
<1> QED
  BY <1>2, <1>3, <1>5 DEF LedgerInv

LEMMA ApplyDecisionStep ==
    ASSUME LedgerInv, NEW s, NEW fp, NEW basis, NEW until, ApplyDecision(s, fp, basis, until)
    PROVE  LedgerInv'
<1>1. /\ s \in Live /\ fp = orders[s]
      /\ review' = [review EXCEPT ![s] = [fp |-> orders[s], evidence |-> fp, basis |-> basis]]
  BY DEF ApplyDecision, SaveDonationRetention, verifyDonationRetentionSource, donationSourceFingerprint
<1>2. UNCHANGED <<orders, nextSeq, member, erased, archive, tokens, job, clock>>
  BY DEF ApplyDecision
<1>3. DOMAIN review = Seqs
  BY DEF LedgerInv, LedgerTypes
<1>4. s \in Seqs
  BY <1>1 DEF Live
<1>5. /\ DOMAIN review' = Seqs /\ \A t \in Seqs \ {s} : review'[t] = review[t]
      /\ \A t \in {s} : review'[t].fp = orders[t] /\ review'[t].evidence = review'[t].fp
  BY <1>1, <1>3, <1>4
<1>6. {s} \in SUBSET Live
  BY <1>1
<1> QED
  BY <1>2, <1>5, <1>6, ReviewsPut

LEMMA PrepareErasureStep ==
    ASSUME LedgerInv, NEW m \in Members, PrepareErasure(m)
    PROVE  LedgerInv'
<1> DEFINE New == {s \in OrdersOf(m) : review[s] = NoReview}
<1>1. UNCHANGED <<orders, nextSeq, member, erased, archive, tokens, job, clock>>
  BY DEF PrepareErasure
<1>2. review' = [s \in Seqs |-> IF s \in OrdersOf(m) /\ review[s] = NoReview
                                THEN TemplateReview(s) ELSE review[s]]
  BY DEF PrepareErasure
<1>3. \A s : TemplateReview(s).fp = orders[s] /\ TemplateReview(s).evidence = orders[s]
  BY DEF TemplateReview, donationSourceFingerprint
<1>4. New \in SUBSET Live /\ New \in SUBSET Seqs
  BY DEF OrdersOf, Live
<1>5. /\ DOMAIN review' = Seqs /\ \A s \in Seqs \ New : review'[s] = review[s]
      /\ \A s \in New : review'[s].fp = orders[s] /\ review'[s].evidence = review'[s].fp
  BY <1>2, <1>3, <1>4
<1> HIDE DEF New
<1> QED
  BY <1>1, <1>4, <1>5, ReviewsPut

\* The aggregate over any set of orders is a pair of whole numbers.
LEMMA AggregatesAreWhole ==
    ASSUME LedgerTypes, NEW S \in SUBSET Live
    PROVE  /\ AggregateOver(S).amount = SumNet(S) + erased.amount
           /\ AggregateOver(S).count = Cardinality({DonorOf(s) : s \in S}) + erased.count
           /\ SumNet(S) \in Int /\ Cardinality({DonorOf(s) : s \in S}) \in Int
<1> DEFINE donors == {DonorOf(s) : s \in S}
           f == [s \in S |-> DonorOf(s)]
<1>1. IsFiniteSet(S)
  BY SeqsAreFinite DEF Live
<1>2. f \in Surjection(S, donors)
  BY DEF Surjection
<1>3. IsFiniteSet(donors)
  <2> HIDE DEF f, donors
  <2> QED
    BY <1>1, <1>2, FS_Surjection
<1>4. Cardinality(donors) \in Nat
  BY <1>3, FS_CardinalityType
<1>5. SumNet(S) \in Nat
  BY SumCountsUnits
<1> QED
  BY <1>4, <1>5 DEF AggregateOver

LEMMA MoveIsWhole ==
    ASSUME LedgerTypes, NEW m
    PROVE  /\ MoveToErased(m) \in [amount : Int, count : Int]
           /\ MoveToErased(m).amount = erased.amount + SumNet(AllReceived)
                                         - SumNet(AllReceived \ OrdersOf(m))
           /\ MoveToErased(m).count = erased.count + Cardinality({DonorOf(s) : s \in AllReceived})
                                        - Cardinality({DonorOf(s) : s \in AllReceived \ OrdersOf(m)})
<1> DEFINE A == AllReceived
           B == AllReceived \ OrdersOf(m)
           before == AggregateOver(A)
           after == AggregateOver(B)
           a == Cardinality({DonorOf(s) : s \in A})
           b == Cardinality({DonorOf(s) : s \in B})
<1>1. A \in SUBSET Live /\ B \in SUBSET Live
  BY DEF AllReceived, Received, Live
<1>2. /\ before.amount = SumNet(A) + erased.amount /\ before.count = a + erased.count
      /\ SumNet(A) \in Int /\ a \in Int
  BY <1>1, AggregatesAreWhole
<1>3. /\ after.amount = SumNet(B) + erased.amount /\ after.count = b + erased.count
      /\ SumNet(B) \in Int /\ b \in Int
  BY <1>1, AggregatesAreWhole
<1>4. erased.amount \in Int /\ erased.count \in Int
  BY DEF LedgerTypes
<1>5. MoveToErased(m) = [amount |-> erased.amount + before.amount - after.amount,
                         count |-> erased.count + before.count - after.count]
  BY DEF MoveToErased
<1> HIDE DEF before, after, a, b, A, B
<1>6. /\ erased.amount + before.amount - after.amount = erased.amount + SumNet(A) - SumNet(B)
      /\ erased.count + before.count - after.count = erased.count + a - b
  BY <1>2, <1>3, <1>4
<1>7. /\ MoveToErased(m) \in [amount : Int, count : Int]
      /\ MoveToErased(m).amount = erased.amount + SumNet(A) - SumNet(B)
      /\ MoveToErased(m).count = erased.count + a - b
  <2> DEFINE x == erased.amount + before.amount - after.amount
             y == erased.count + before.count - after.count
  <2>1. x \in Int /\ y \in Int
    BY <1>2, <1>3, <1>4
  <2>2. MoveToErased(m) = [amount |-> x, count |-> y]
    BY <1>5
  <2>3. x = erased.amount + SumNet(A) - SumNet(B) /\ y = erased.count + a - b
    BY <1>6
  <2> HIDE DEF x, y
  <2> QED
    BY <2>1, <2>2, <2>3
<1> QED
  BY <1>7 DEF A, B, a, b

LEMMA EraseMemberStep ==
    ASSUME LedgerInv, NEW m \in Members, EraseMember(m)
    PROVE  LedgerInv'
<1>1. LedgerTypes /\ DOMAIN orders = Seqs
  BY DEF LedgerInv, LedgerTypes
<1>2. /\ archive' = archive \cup {ArchiveRow(s) : s \in OrdersOf(m)}
      /\ erased' = MoveToErased(m)
      /\ orders' = [s \in Seqs |-> IF s \in OrdersOf(m) THEN NoOrder ELSE orders[s]]
      /\ review' = [s \in Seqs |-> IF s \in OrdersOf(m) THEN NoReview ELSE review[s]]
  BY DEF EraseMember, eraseDonations
<1>3. /\ member' = [member EXCEPT ![m].active = FALSE]
      /\ UNCHANGED <<nextSeq, tokens, job, clock>>
  BY DEF EraseMember
<1>4. Live' = Live \ OrdersOf(m) /\ \A s \in Live' : orders'[s] = orders[s] /\ s \in Live /\ orders[s].account # m
  BY <1>2 DEF Live, OrdersOf
<1>5. /\ member' \in [Members -> [active : BOOLEAN, who : Donors]]
      /\ \A n \in Members : n # m => member'[n] = member[n]
  BY <1>1, <1>3 DEF LedgerTypes
<1>6. LedgerTypes'
  <2>1. erased' \in [amount : Int, count : Int]
    BY <1>1, <1>2, MoveIsWhole
  <2>2. DOMAIN orders' = Seqs /\ DOMAIN review' = Seqs
    BY <1>2
  <2>3. \A s \in Live' : OrderFits(orders'[s]) /\ s < nextSeq'
    BY <1>1, <1>3, <1>4 DEF LedgerTypes
  <2> QED
    BY <1>1, <1>3, <1>5, <2>1, <2>2, <2>3 DEF LedgerTypes
<1>7. IdentityUnique'
  <2>1. \A s, t \in Live : s # t => ~SameDonation(orders[s], orders[t])
    BY UniqueAre DEF LedgerInv
  <2>2. \A s \in Live' : \A t \in Live' \ {s} : ~SameDonation(orders'[s], orders'[t])
    BY <1>4, <2>1
  <2> QED
    BY <2>2 DEF IdentityUnique, Conflicts, SameDonation
<1>8. ErasedOwnsNothing'
  <2>1. \A s \in Live : orders[s].account \in Accounts /\ (orders[s].account # NoMember => member[orders[s].account].active)
    BY <1>1 DEF LedgerInv, LedgerTypes, OrderFits, ErasedOwnsNothing
  <2> QED
    BY <1>4, <1>5, <2>1 DEF ErasedOwnsNothing, Accounts
<1>9. ReviewMatchesOrder' /\ ReviewsWereSeen'
  <2>1. \A s \in Seqs : review'[s] # NoReview => s \notin OrdersOf(m) /\ review'[s] = review[s]
    BY <1>2
  <2> QED
    BY <1>2, <1>4, <2>1 DEF LedgerInv, ReviewMatchesOrder, ReviewsWereSeen
<1>10. ErasedAsReviewed'
  <2>1. \A s \in OrdersOf(m) : review[s] # NoReview /\ s \in Seqs
    BY DEF EraseMember, ErasableDonations, OrdersOf, Live
  <2>2. \A s \in OrdersOf(m) : review[s].evidence = orders[s]
    BY <2>1 DEF LedgerInv, ReviewMatchesOrder, ReviewsWereSeen
  <2>3. \A s \in OrdersOf(m) : ArchiveRow(s).evidence = ArchiveRow(s).order
    BY <2>2 DEF ArchiveRow
  <2> QED
    BY <1>2, <2>3 DEF LedgerInv, ErasedAsReviewed
<1> QED
  BY <1>6, <1>7, <1>8, <1>9, <1>10 DEF LedgerInv

\* What a spreadsheet's accepted rows become.
LEMMA PreviewedRows ==
    ASSUME NEW sheet \in Sheets
    PROVE  /\ IsFiniteSet(parseExcelDonationRows(sheet))
           /\ \A row \in parseExcelDonationRows(sheet) : row \in ImportRows
<1> DEFINE Cells == [blank : BOOLEAN, formula : BOOLEAN, complete : BOOLEAN, who : Donors, amount : Int]
           data == {k \in DOMAIN sheet.rows : ~isBlankExcelRow(sheet.rows[k])}
           rows == {RowOf(sheet.rows[k]) : k \in data}
           f == [k \in data |-> RowOf(sheet.rows[k])]
<1>1. sheet.rows \in Seq(Cells)
  BY LedgerAssumption
<1>2. DOMAIN sheet.rows = 1..Len(sheet.rows) /\ Len(sheet.rows) \in Nat
  BY <1>1
<1>3. IsFiniteSet(data)
  <2>1. IsFiniteSet(1..Len(sheet.rows))
    BY <1>2, FS_Interval
  <2> QED
    BY <1>2, <2>1, FS_Subset
<1>4. f \in Surjection(data, rows)
  BY DEF Surjection
<1>5. IsFiniteSet(rows)
  <2> HIDE DEF f, data, rows
  <2> QED
    BY <1>3, <1>4, FS_Surjection
<1>6. \A row \in rows : row \in ImportRows
  <2>1. \A k \in data : sheet.rows[k] \in Cells
    <3> HIDE DEF Cells
    <3> QED
      BY <1>1, <1>2
  <2> QED
    BY <2>1 DEF RowOf, ImportRows
<1>7. parseExcelDonationRows(sheet) \in {rows, {}}
  BY DEF parseExcelDonationRows
<1> QED
  BY <1>5, <1>6, <1>7, FS_EmptySet

LEMMA PreviewStep ==
    ASSUME LedgerInv, NEW sheet \in Sheets, Preview(sheet)
    PROVE  LedgerInv'
<1> DEFINE rows == parseExcelDonationRows(sheet)
           signed == {signDonationImportPreviewRow(row) : row \in rows}
           f == [row \in rows |-> signDonationImportPreviewRow(row)]
<1>1. tokens' = tokens \cup signed
  BY DEF Preview, ParsePreview
<1>2. IsFiniteSet(rows) /\ \A row \in rows : row \in ImportRows
  BY PreviewedRows
<1>3. IsFiniteSet(signed)
  <2>1. f \in Surjection(rows, signed)
    BY DEF Surjection
  <2> HIDE DEF f, rows, signed
  <2> QED
    BY <1>2, <2>1, FS_Surjection
<1>4. \A t \in signed : t.row \in ImportRows
  <2>1. \A row \in rows : signDonationImportPreviewRow(row).row = row
    BY DEF signDonationImportPreviewRow
  <2> HIDE DEF rows
  <2> QED
    BY <1>2, <2>1
<1>5. IsFiniteSet(tokens) /\ \A t \in tokens : t.row \in ImportRows
  BY DEF LedgerInv, LedgerTypes
<1> HIDE DEF signed
<1>6. IsFiniteSet(tokens') /\ \A t \in tokens' : t.row \in ImportRows
  BY <1>1, <1>3, <1>4, <1>5, FS_Union
<1>7. UNCHANGED <<orders, nextSeq, member, review, erased, archive, job, clock>>
  BY DEF Preview
<1> QED
  BY <1>6, <1>7, OrdersUntouched DEF LedgerInv, LedgerTypes

\* One request's rows are finitely many and no two of them the same donation.
LEMMA BeginCommitStep ==
    ASSUME LedgerInv, NEW p \in Operators, NEW picked \in SUBSET tokens,
           NEW choice \in [picked -> Accounts], BeginCommit(p, picked, choice)
    PROVE  LedgerInv'
<1> DEFINE rows == CommitRows(picked, choice)
           f == [t \in picked |-> [token |-> t, account |-> choice[t]]]
           taken == findExistingDonationCompositeKeys({t.row : t \in picked})
           j == [op |-> "import", rows |-> rows, taken |-> taken]
<1>1. LedgerTypes /\ DOMAIN job = Operators /\ \A q \in Operators : job[q] # Idle => JobFits(job[q])
  BY DEF LedgerInv, LedgerTypes
<1>2. IsFiniteSet(picked) /\ \A t \in picked : t.row \in ImportRows
  BY <1>1, FS_Subset DEF LedgerTypes
<1>3. IsFiniteSet(rows)
  <2>1. f \in Surjection(picked, rows)
    BY DEF Surjection, CommitRows
  <2> HIDE DEF f, rows
  <2> QED
    BY <1>2, <2>1, FS_Surjection
<1>4. \A t, u \in picked : t.row = u.row => t = u
  BY DEF BeginCommit
<1>5. \A r \in rows : r.token \in picked /\ r.account = choice[r.token] /\ r.account \in Accounts
                      /\ r = [token |-> r.token, account |-> choice[r.token]]
  BY DEF CommitRows
<1> HIDE DEF rows
<1>6. /\ \A r \in rows : r.account \in Accounts /\ r.token.row \in ImportRows
      /\ \A r, q \in rows : r.token.row = q.token.row => r = q
  BY <1>2, <1>4, <1>5
<1> HIDE DEF taken
<1>7. j.op = "import" /\ j.rows = rows
  OBVIOUS
<1>8. job' = [job EXCEPT ![p] = j]
  BY DEF BeginCommit, rows, taken
<1> HIDE DEF j
<1>9. JobFits(j)
  BY <1>3, <1>6, <1>7 DEF JobFits
<1>10. DOMAIN job' = Operators /\ \A q \in Operators : job'[q] # Idle => JobFits(job'[q])
  BY <1>1, <1>8, <1>9
<1>11. UNCHANGED <<orders, nextSeq, member, review, erased, archive, tokens, clock>>
  BY DEF BeginCommit
<1> QED
  BY <1>1, <1>10, <1>11, OrdersUntouched DEF LedgerTypes

\* An operator opens an order of the page that is shown.
LEMMA OpenOrderStep ==
    ASSUME LedgerInv, NEW p \in Operators, NEW st, NEW page \in 0..MaxOrders, OpenOrder(p, st, page)
    PROVE  LedgerInv'
<1>1. LedgerTypes /\ DOMAIN job = Operators /\ \A q \in Operators : job[q] # Idle => JobFits(job[q])
  BY DEF LedgerInv, LedgerTypes
<1>2. UNCHANGED <<orders, nextSeq, member, review, erased, archive, tokens, clock>>
  BY DEF OpenOrder
<1>3. PICK s \in Range(ListOrders(st, page)) : GetOrder(p, s)
  BY DEF OpenOrder
<1>4. s \in Live
  <2>1. page \in Int
    BY LedgerAssumption
  <2> QED
    BY <1>1, <1>3, <2>1, ListedAreLive
<1> DEFINE j == [op |-> "edit", seq |-> s, seen |-> orders[s]]
<1>5. j.op = "edit" /\ j.seq = s /\ s \in Seqs
  BY <1>4 DEF Live
<1>6. job' = [job EXCEPT ![p] = j]
  BY <1>3 DEF GetOrder
<1> HIDE DEF j
<1>7. JobFits(j)
  BY <1>5 DEF JobFits
<1>8. DOMAIN job' = Operators /\ \A q \in Operators : job'[q] # Idle => JobFits(job'[q])
  BY <1>1, <1>6, <1>7
<1> QED
  BY <1>1, <1>2, <1>8, OrdersUntouched DEF LedgerTypes

LEMMA LedgerStep ==
    ASSUME LedgerInv, [LedgerNext]_ledgerVars
    PROVE  LedgerInv'
<1>0. /\ LedgerTypes /\ DOMAIN job = Operators /\ \A q \in Operators : job[q] # Idle => JobFits(job[q])
      /\ member \in [Members -> [active : BOOLEAN, who : Donors]] /\ clock \in Nat
      /\ IsFiniteSet(tokens) /\ \A t \in tokens : t.row \in ImportRows
  BY DEF LedgerInv, LedgerTypes
<1>1. ASSUME NEW m \in Members, NEW d \in Donors, ChangeProfile(m, d)
      PROVE  LedgerInv'
  <2>1. /\ UNCHANGED <<orders, nextSeq, review, erased, archive, tokens, job, clock>>
        /\ member' = [member EXCEPT ![m].who = d]
    BY <1>1 DEF ChangeProfile
  <2>2. /\ member' \in [Members -> [active : BOOLEAN, who : Donors]]
        /\ \A n \in Members : member'[n].active = member[n].active
    BY <1>0, <2>1
  <2> QED
    BY <1>0, <2>1, <2>2, OrdersUntouched
<1>2. ASSUME NEW p \in Operators, Abandon(p)
      PROVE  LedgerInv'
  <2>1. job' = [job EXCEPT ![p] = Idle]
    BY <1>2 DEF Abandon
  <2>2. DOMAIN job' = Operators /\ \A q \in Operators : job'[q] # Idle => JobFits(job'[q])
    BY <1>0, <2>1, JobEnds
  <2>3. UNCHANGED <<orders, nextSeq, member, review, erased, archive, tokens, clock>>
    BY <1>2 DEF Abandon
  <2> QED
    BY <1>0, <2>2, <2>3, OrdersUntouched
<1>3. ASSUME NEW s \in Seqs, Inspect(s)
      PROVE  LedgerInv'
  BY <1>0, <1>3, OrdersUntouched DEF Inspect
<1>4. ASSUME NEW m \in Members, FreezeContext(m)
      PROVE  LedgerInv'
  BY <1>0, <1>4, OrdersUntouched DEF FreezeContext
<1>5. CASE Tick
  BY <1>0, <1>5, OrdersUntouched DEF Tick
<1>6. CASE UNCHANGED ledgerVars
  BY <1>0, <1>6, OrdersUntouched DEF ledgerVars
<1>7. CASE LedgerNext
  BY <1>1, <1>2, <1>3, <1>4, <1>5, <1>7, CreateOrderStep, OpenOrderStep, UpdateOrderStep, PreviewStep,
     BeginCommitStep, CommitStep, ApplyDecisionStep, PrepareErasureStep, EraseMemberStep DEF LedgerNext
<1> QED
  BY <1>6, <1>7

\* The ledger's inductive invariant holds in every state.
THEOREM LedgerInvariance == LedgerSpec => []LedgerInv
<1>1. LedgerInit => LedgerInv
  BY LedgerStarts
<1>2. LedgerInv /\ [LedgerNext]_ledgerVars => LedgerInv'
  BY LedgerStep
<1> QED
  BY <1>1, <1>2, PTL DEF LedgerSpec
-----------------------------------------------------------------------------
(* The donation ledger: what a step may not do                             *)

\* While an operator's transaction is at hand, only that operator's own step
\* ends it.
LEMMA OnlyOneEnds ==
    ASSUME LedgerTypes, NEW p \in Operators, job[p] # Idle, job'[p] = Idle, LedgerNext
    PROVE  \/ \E i \in OrderInputs : UpdateOrder(p, i)
           \/ Commit(p)
           \/ orders' = orders
<1>0. DOMAIN job = Operators
  BY DEF LedgerTypes
<1>1. ASSUME NEW q \in Operators, NEW i \in OrderInputs, UpdateOrder(q, i)
      PROVE  q = p
  BY <1>0, <1>1 DEF UpdateOrder
<1>2. ASSUME NEW q \in Operators, Commit(q)
      PROVE  q = p
  BY <1>0, <1>2 DEF Commit
<1>3. ASSUME NEW q \in Operators, NEW i \in OrderInputs, CreateOrder(q, i)
      PROVE  FALSE
  BY <1>3 DEF CreateOrder
<1>4. ASSUME NEW m \in Members, EraseMember(m)
      PROVE  FALSE
  BY <1>4 DEF EraseMember
<1>5. ASSUME NEW m \in Members, PrepareErasure(m) \/ FreezeContext(m)
      PROVE  orders' = orders
  BY <1>5 DEF PrepareErasure, FreezeContext
<1>6. ASSUME NEW m \in Members, NEW d \in Donors, ChangeProfile(m, d)
      PROVE  orders' = orders
  BY <1>6 DEF ChangeProfile
<1>7. ASSUME NEW q \in Operators, NEW st, NEW page, OpenOrder(q, st, page)
      PROVE  orders' = orders
  BY <1>7 DEF OpenOrder
<1>8. ASSUME NEW sheet \in Sheets, Preview(sheet)
      PROVE  orders' = orders
  BY <1>8 DEF Preview
<1>9. ASSUME NEW q \in Operators, NEW picked \in SUBSET tokens, NEW choice \in [picked -> Accounts],
             BeginCommit(q, picked, choice)
      PROVE  orders' = orders
  BY <1>9 DEF BeginCommit
<1>10. ASSUME NEW q \in Operators, Abandon(q)
       PROVE  orders' = orders
  BY <1>10 DEF Abandon
<1>11. ASSUME NEW s \in Seqs, Inspect(s)
       PROVE  orders' = orders
  BY <1>11 DEF Inspect
<1>12. ASSUME NEW s, NEW fp, NEW basis, NEW until, ApplyDecision(s, fp, basis, until)
       PROVE  orders' = orders
  BY <1>12 DEF ApplyDecision
<1>13. Tick => orders' = orders
  BY DEF Tick
<1> QED
  BY <1>1, <1>2, <1>3, <1>4, <1>5, <1>6, <1>7, <1>8, <1>9, <1>10, <1>11, <1>12, <1>13 DEF LedgerNext

\* An edit replaces the version that the form showed, or one of its second.
LEMMA EditReplacesSeen ==
    ASSUME LedgerInv, [LedgerNext]_ledgerVars
    PROVE  \A p \in Operators, s \in Seqs :
             (job[p] # Idle /\ job[p].op = "edit" /\ job[p].seq = s /\ job'[p] = Idle
                /\ orders'[s] # orders[s]) => orders[s].edited <= job[p].seen.edited
<1> TAKE p \in Operators, s \in Seqs
<1> HAVE job[p] # Idle /\ job[p].op = "edit" /\ job[p].seq = s /\ job'[p] = Idle /\ orders'[s] # orders[s]
<1>1. LedgerTypes /\ LedgerNext
  BY DEF LedgerInv, ledgerVars
<1>2. ~Commit(p)
  BY DEF Commit
<1>3. PICK i \in OrderInputs : UpdateOrder(p, i)
  BY <1>1, <1>2, OnlyOneEnds
<1>4. UpdateAccepted(s, job[p].seen, i)
  BY <1>3 DEF UpdateOrder, UpdateNormalized, UpdateDonationOrder
<1>5. orders[s] # NoOrder /\ orders[s].edited = job[p].seen.edited
  BY <1>4 DEF UpdateAccepted, NotEditedSince
<1>6. orders[s].edited \in Nat
  BY <1>1, <1>5 DEF LedgerTypes, Live, OrderFits
<1> QED
  BY <1>5, <1>6

\* An imported row that was previewed as matched goes to the one member it
\* matches when the import is committed.
LEMMA ImportFollowsMatch ==
    ASSUME LedgerInv, [LedgerNext]_ledgerVars
    PROVE  \A p \in Operators :
             (job[p] # Idle /\ job[p].op = "import" /\ orders' # orders /\ job'[p] = Idle) =>
               \A r \in job[p].rows : r.token.status = "matched" =>
                 findMemberCandidatesByKeys(r.token.row.donor) = {r.account}
<1> TAKE p \in Operators
<1> HAVE job[p] # Idle /\ job[p].op = "import" /\ orders' # orders /\ job'[p] = Idle
<1>1. LedgerTypes /\ LedgerNext
  BY DEF LedgerInv, ledgerVars
<1>2. \A i \in OrderInputs : ~UpdateOrder(p, i)
  BY DEF UpdateOrder
<1>3. Commit(p)
  BY <1>1, <1>2, OnlyOneEnds
<1>4. Importable(job[p].rows, job[p].taken)
  BY <1>3 DEF Commit
<1>5. ASSUME NEW r \in job[p].rows, r.token.status = "matched"
      PROVE  findMemberCandidatesByKeys(r.token.row.donor) = {r.account}
  <2>1. donationImportMatchStillValid(r.token, r.account)
    BY <1>4 DEF Importable
  <2> DEFINE candidates == findMemberCandidatesByKeys(r.token.row.donor)
  <2>2. candidates = {r.token.matched} /\ r.account = r.token.matched
    BY <1>5, <2>1 DEF donationImportMatchStillValid
  <2> QED
    BY <2>2
<1> QED
  BY <1>5

\* An account is taken out of force by its erasure alone.
LEMMA OnlyErasureEnds ==
    ASSUME LedgerTypes, LedgerNext, NEW n \in Members, member[n].active, ~member'[n].active
    PROVE  EraseMember(n)
<1>0. member \in [Members -> [active : BOOLEAN, who : Donors]]
  BY DEF LedgerTypes
<1>1. ASSUME NEW m \in Members, EraseMember(m)
      PROVE  m = n
  BY <1>0, <1>1 DEF EraseMember
<1>2. ASSUME NEW m \in Members, NEW d \in Donors, ChangeProfile(m, d)
      PROVE  FALSE
  BY <1>0, <1>2 DEF ChangeProfile
<1>3. ASSUME member' = member
      PROVE  FALSE
  BY <1>3
<1>4. ASSUME NEW q \in Operators, NEW i \in OrderInputs, CreateOrder(q, i) \/ UpdateOrder(q, i)
      PROVE  member' = member
  BY <1>4 DEF CreateOrder, UpdateOrder
<1>5. ASSUME NEW m \in Members, PrepareErasure(m) \/ FreezeContext(m)
      PROVE  member' = member
  BY <1>5 DEF PrepareErasure, FreezeContext
<1>6. ASSUME NEW q \in Operators, Commit(q) \/ Abandon(q)
      PROVE  member' = member
  BY <1>6 DEF Commit, Abandon
<1>7. ASSUME NEW q \in Operators, NEW st, NEW page, OpenOrder(q, st, page)
      PROVE  member' = member
  BY <1>7 DEF OpenOrder
<1>8. ASSUME NEW sheet \in Sheets, Preview(sheet)
      PROVE  member' = member
  BY <1>8 DEF Preview
<1>9. ASSUME NEW q \in Operators, NEW picked \in SUBSET tokens, NEW choice \in [picked -> Accounts],
             BeginCommit(q, picked, choice)
      PROVE  member' = member
  BY <1>9 DEF BeginCommit
<1>10. ASSUME NEW s \in Seqs, Inspect(s)
       PROVE  member' = member
  BY <1>10 DEF Inspect
<1>11. ASSUME NEW s, NEW fp, NEW basis, NEW until, ApplyDecision(s, fp, basis, until)
       PROVE  member' = member
  BY <1>11 DEF ApplyDecision
<1>12. Tick => member' = member
  BY DEF Tick
<1> QED
  BY <1>1, <1>2, <1>3, <1>4, <1>5, <1>6, <1>7, <1>8, <1>9, <1>10, <1>11, <1>12 DEF LedgerNext

LEMMA SumsAreCounts ==
    \A S : LedgerTypes /\ S \in SUBSET Live => SumNet(S) = Cardinality(UnitsOf(S))
BY SumCountsUnits

LEMMA SumsStayCounts ==
    (\A S : LedgerTypes /\ S \in SUBSET Live => SumNet(S) = Cardinality(UnitsOf(S)))'
BY SumsAreCounts, PTL

\* The total of orders that a step does not change is the same after it.
LEMMA SumKept ==
    ASSUME LedgerTypes, LedgerTypes', NEW S \in SUBSET Live, \A s \in S : orders'[s] = orders[s]
    PROVE  SumNet(S)' = SumNet(S)
<1>1. \A s \in S : s \in Live'
  BY DEF Live
<1>2. S \in SUBSET Live'
  BY <1>1
<1>3. \A s \in S : Net(s)' = Net(s)
  BY DEF Net
<1>4. UnitsOf(S)' = UnitsOf(S)
  BY <1>3 DEF UnitsOf, Units
<1>5. SumNet(S) = Cardinality(UnitsOf(S))
  BY SumCountsUnits
<1>6. SumNet(S)' = Cardinality(UnitsOf(S)')
  BY <1>2, SumsStayCounts
<1> QED
  BY <1>4, <1>5, <1>6

\* What an erasure takes from the table it adds to what was erased.
LEMMA ErasureKeepsTotals ==
    ASSUME LedgerInv, LedgerInv', NEW m \in Members, EraseMember(m)
    PROVE  getReceivedDonationAggregate' = getReceivedDonationAggregate
<1> DEFINE donors(S) == {DonorOf(s) : s \in S}
<1> PICK A, B : A = AllReceived /\ B = AllReceived \ OrdersOf(m)
  OBVIOUS
<1>1. /\ erased' = MoveToErased(m)
      /\ orders' = [s \in Seqs |-> IF s \in OrdersOf(m) THEN NoOrder ELSE orders[s]]
  BY DEF EraseMember, eraseDonations
<1>2. A \in SUBSET Live /\ B \in SUBSET Live
  BY DEF AllReceived, Received, Live
<1>3. \A s \in B : orders'[s] = orders[s]
  BY <1>1 DEF AllReceived
<1>4. AllReceived' = B
  BY <1>1 DEF AllReceived, Received
<1>5. SumNet(B)' = SumNet(B)
  BY <1>2, <1>3, SumKept DEF LedgerInv
<1>6. donors(B)' = donors(B)
  <2>1. \A s \in B : DonorOf(s)' = DonorOf(s)
    BY <1>3 DEF DonorOf
  <2> QED
    BY <2>1
<1>7. /\ erased'.amount = erased.amount + SumNet(A) - SumNet(B)
      /\ erased'.count = erased.count + Cardinality(donors(A)) - Cardinality(donors(B))
  BY <1>1, MoveIsWhole DEF LedgerInv
<1>8. /\ SumNet(A) \in Int /\ SumNet(B) \in Int /\ erased.amount \in Int /\ erased.count \in Int
      /\ Cardinality(donors(A)) \in Int /\ Cardinality(donors(B)) \in Int
  BY <1>2, AggregatesAreWhole DEF LedgerInv, LedgerTypes
<1>9. getReceivedDonationAggregate = [amount |-> SumNet(A) + erased.amount,
                                     count |-> Cardinality(donors(A)) + erased.count]
  BY DEF getReceivedDonationAggregate, AggregateOver
<1>10. getReceivedDonationAggregate' = [amount |-> SumNet(B) + erased'.amount,
                                       count |-> Cardinality(donors(B)) + erased'.count]
  <2>1. getReceivedDonationAggregate' = [amount |-> SumNet(AllReceived)' + erased'.amount,
                                         count |-> Cardinality({DonorOf(s) : s \in AllReceived}') + erased'.count]
    BY DEF getReceivedDonationAggregate, AggregateOver
  <2> QED
    BY <1>4, <1>5, <1>6, <2>1
<1> HIDE DEF donors
<1>11. /\ SumNet(B) + erased'.amount = SumNet(A) + erased.amount
       /\ Cardinality(donors(B)) + erased'.count = Cardinality(donors(A)) + erased.count
  BY <1>7, <1>8
<1> QED
  BY <1>9, <1>10, <1>11
-----------------------------------------------------------------------------
(* The parts of the back office                                            *)

LEMMA ImportSceneIsLedger == ImportScene => LedgerNext
<1> SUFFICES ASSUME ImportScene PROVE LedgerNext
  OBVIOUS
<1>1. ImportInputs \subseteq OrderInputs /\ p1 \in Operators
  BY SceneAssumption DEF ImportInputs
<1> QED
  BY <1>1 DEF ImportScene, LedgerNext

LEMMA PagesAreCounted == \A n \in Nat : 1..n \subseteq 0..n
OBVIOUS

LEMMA ReviewSceneIsLedger == ReviewScene => LedgerNext
<1> SUFFICES ASSUME ReviewScene PROVE LedgerNext
  OBVIOUS
<1>1. ReviewInputs \subseteq OrderInputs /\ p1 \in Operators /\ m1 \in Members
  BY SceneAssumption DEF ReviewInputs
<1>2. ASSUME NEW st \in {"", "completed"}, NEW page \in 1..MaxOrders, OpenOrder(p1, st, page)
      PROVE  LedgerNext
  <2>1. MaxOrders \in Nat
    BY LedgerAssumption
  <2>2. page \in 0..MaxOrders
    BY <2>1, PagesAreCounted
  <2> QED
    BY <1>1, <1>2, <2>2 DEF LedgerNext
<1>3. ASSUME NEW si \in inspected, NEW until \in BOOLEAN, ApplyDecision(si[1], si[2], "ledger_10y", until)
      PROVE  LedgerNext
  BY <1>3 DEF LedgerNext
<1>4. ASSUME NEW s \in Seqs, Inspect(s)
      PROVE  LedgerNext
  BY <1>4 DEF LedgerNext
<1>5. ASSUME NEW i \in ReviewInputs, CreateOrder(p1, i) \/ UpdateOrder(p1, i)
      PROVE  LedgerNext
  BY <1>1, <1>5 DEF LedgerNext
<1>6. ASSUME Abandon(p1) \/ PrepareErasure(m1) \/ FreezeContext(m1) \/ EraseMember(m1)
      PROVE  LedgerNext
  BY <1>1, <1>6 DEF LedgerNext
<1> QED
  BY <1>2, <1>3, <1>4, <1>5, <1>6 DEF ReviewScene

LEMMA PageSceneIsLedger == PageScene => LedgerNext
<1> SUFFICES ASSUME PageScene PROVE LedgerNext
  OBVIOUS
<1>1. p1 \in Operators
  BY SceneAssumption
<1>2. ASSUME NEW p \in Operators, NEW st \in {"", "cancelled", "odd"}, NEW page \in 0..MaxOrders,
             OpenOrder(p, st, page)
      PROVE  LedgerNext
  BY <1>2 DEF LedgerNext
<1>3. ASSUME NEW i \in OrderInputs, CreateOrder(p1, i)
      PROVE  LedgerNext
  BY <1>1, <1>3 DEF LedgerNext
<1>4. ASSUME NEW p \in Operators, NEW i \in OrderInputs, UpdateOrder(p, i)
      PROVE  LedgerNext
  BY <1>4 DEF LedgerNext
<1> QED
  BY <1>2, <1>3, <1>4 DEF PageScene

LEMMA PolicySceneIsGate == PolicyScene => Gate!PolicyNext
<1> SUFFICES ASSUME PolicyScene PROVE Gate!PolicyNext
  OBVIOUS
<1>1. ASSUME NEW b \in Gate!Builds, scene = "saves", b = MaxBuild, Gate!Observe(b, TRUE)
      PROVE  Gate!PolicyNext
  BY <1>1 DEF Gate!PolicyNext
<1>2. ASSUME NEW b \in Gate!Builds, Gate!ThrottleExpires(b) \/ \E written \in BOOLEAN : Gate!Observe(b, written)
      PROVE  Gate!PolicyNext
  BY <1>2 DEF Gate!PolicyNext
<1>3. ASSUME NEW a \in Admins, Gate!OpenScreen(a) \/ Gate!Save(a) \/ Gate!SaveRefused(a) \/ Gate!Invalidate(a)
      PROVE  Gate!PolicyNext
  BY <1>3 DEF Gate!PolicyNext
<1>4. ASSUME NEW a \in Admins, NEW p \in Policies, NEW allow \in BOOLEAN, NEW checked \in BOOLEAN,
             Gate!BeginSave(a, p, allow, checked)
      PROVE  Gate!PolicyNext
  BY <1>4 DEF Gate!PolicyNext
<1>5. ASSUME NEW k \in Gate!SettingKeys, NEW v \in Policies \union {Broken}, Gate!UpdateValue(k, v)
      PROVE  Gate!PolicyNext
  BY <1>5 DEF Gate!PolicyNext
<1>6. ASSUME NEW c \in Clients,
             Gate!ReadFromCache(c) \/ Gate!ReadMisses(c) \/ Gate!ReadRows(c) \/ Gate!CacheRows(c)
      PROVE  Gate!PolicyNext
  BY <1>6 DEF Gate!PolicyNext
<1>7. ASSUME Gate!CacheExpires \/ Gate!Tick
      PROVE  Gate!PolicyNext
  BY <1>7 DEF Gate!PolicyNext
<1> QED
  BY <1>1, <1>2, <1>3, <1>4, <1>5, <1>6, <1>7 DEF PolicyScene

\* Whatever the scene, each part takes its own steps or none.
LEMMA ScenesAreParts == MCSpec => LedgerSpec /\ Templates!TemplateSpec /\ Gate!PolicySpec
<1>1. MCInit => LedgerInit /\ Templates!TemplateInit /\ Gate!PolicyInit
  BY DEF MCInit
<1>2. ASSUME [MCNext]_<<scene, ledgerVars, templates, updates>>
      PROVE  /\ [LedgerNext]_ledgerVars
             /\ [Templates!TemplateNext]_Templates!templateVars
             /\ [Gate!PolicyNext]_Gate!policyVars
  <2>1. /\ UNCHANGED templates => UNCHANGED Templates!templateVars
        /\ UNCHANGED updates => UNCHANGED Gate!policyVars
    BY DEF templates, updates, Templates!templateVars, Gate!policyVars
  <2>2. Tick => LedgerNext
    BY DEF LedgerNext
  <2> QED
    BY <1>2, <2>1, <2>2, ImportSceneIsLedger, ReviewSceneIsLedger, PageSceneIsLedger, PolicySceneIsGate
       DEF MCNext
<1> QED
  BY <1>1, <1>2, PTL DEF MCSpec, LedgerSpec, Templates!TemplateSpec, Gate!PolicySpec

(***************************************************************************)
(* The ledger stays consistent through imports, entries and edits,         *)
(* retention reviews and erasures (CreateDonationOrdersTx,                 *)
(* UpdateDonationOrder, SaveDonationRetention, eraseDonations): one row    *)
(* per donation, none of an erased account, archived as it was reviewed,   *)
(* totals that the members' pages add up to and that an erasure keeps, and *)
(* imported rows on the member they match when the import is committed.    *)
(***************************************************************************)
THEOREM LedgerIsConsistentAlways == MCSpec => LedgerIsConsistent
<1>1. LedgerInv => /\ IdentityUnique /\ ErasedOwnsNothing /\ ReviewMatchesOrder /\ ErasedAsReviewed
                   /\ PersonalTotalsAddUp
  BY TotalsAddUp DEF LedgerInv
<1> DEFINE Kept == (\E m \in Members : member[m].active /\ ~member'[m].active)
                     => getReceivedDonationAggregate' = getReceivedDonationAggregate
           Followed == \A p \in Operators :
             (job[p] # Idle /\ job[p].op = "import" /\ orders' # orders /\ job'[p] = Idle) =>
               \A r \in job[p].rows : r.token.status = "matched" =>
                 findMemberCandidatesByKeys(r.token.row.donor) = {r.account}
<1>2. LedgerInv /\ LedgerInv' /\ [LedgerNext]_ledgerVars => Kept
  <2> SUFFICES ASSUME LedgerInv, LedgerInv', [LedgerNext]_ledgerVars,
                      NEW m \in Members, member[m].active, ~member'[m].active
               PROVE  getReceivedDonationAggregate' = getReceivedDonationAggregate
    OBVIOUS
  <2>1. LedgerNext
    BY DEF ledgerVars
  <2>2. EraseMember(m)
    BY <2>1, OnlyErasureEnds DEF LedgerInv
  <2> QED
    BY <2>2, ErasureKeepsTotals
<1>3. LedgerInv /\ [LedgerNext]_ledgerVars => Followed
  BY ImportFollowsMatch
<1>4. ErasureKeepsAggregate <=> [][Kept]_ledgerVars
  BY DEF ErasureKeepsAggregate
<1>5. MatchedRowsFollowTheMember <=> [][Followed]_ledgerVars
  BY DEF MatchedRowsFollowTheMember
<1> QED
  BY <1>1, <1>2, <1>3, <1>4, <1>5, LedgerInvariance, ScenesAreParts, PTL DEF LedgerSpec, LedgerIsConsistent

(***************************************************************************)
(* An administrator's save replaces only what its form was opened on: an   *)
(* order (UpdateDonationOrder, to the second), a notification text         *)
(* (Update) or the update policy (SavePolicy).                             *)
(***************************************************************************)
THEOREM SavesLoseNothingAlways == MCSpec => SavesLoseNothing
<1> DEFINE Seen == \A p \in Operators, s \in Seqs :
             (job[p] # Idle /\ job[p].op = "edit" /\ job[p].seq = s /\ job'[p] = Idle
                /\ orders'[s] # orders[s]) => orders[s].edited <= job[p].seen.edited
<1>1. LedgerInv /\ [LedgerNext]_ledgerVars => Seen
  BY EditReplacesSeen
<1>2. EditsLoseNothingOlder <=> [][Seen]_ledgerVars
  BY DEF EditsLoseNothingOlder
<1>3. LedgerSpec => EditsLoseNothingOlder
  BY <1>1, <1>2, LedgerInvariance, PTL DEF LedgerSpec
<1> QED
  BY <1>3, ScenesAreParts, TextEditsAreNotLost, PolicyEditsAreNotLost, PTL DEF SavesLoseNothing

(***************************************************************************)
(* What is sent is usable and no older than the last answered edit         *)
(* (RenderSMS, RenderPush and Update of the notification templates), in    *)
(* the run of the back office.                                             *)
(***************************************************************************)
THEOREM TextsAreSoundAlways == MCSpec => []TextsAreSound
<1>1. Templates!TextsAreSound => TextsAreSound
  BY DEF TextsAreSound
<1> QED
  BY <1>1, ScenesAreParts, SentTextsAreSound, PTL

(***************************************************************************)
(* The update policy and its gate stay sound in the run of the back        *)
(* office.                                                                 *)
(***************************************************************************)
THEOREM PolicyIsSoundAlways == MCSpec => []PolicyIsSound
<1>1. Gate!PolicyIsSound => PolicyIsSound
  BY DEF PolicyIsSound
<1> QED
  BY <1>1, ScenesAreParts, GateIsSound, PTL
=============================================================================
