--------------------------- MODULE AppUpdatePolicy ---------------------------
(***************************************************************************)
(* The update policy of one mobile platform: its row in app_settings with  *)
(* its audit trail, the cached public settings through which the apps and  *)
(* the request gate read it, the build numbers observed from clients that  *)
(* bound its thresholds, and the administrators who edit it.  An OS        *)
(* version is the sequence of its segments; <<>> is one that does not      *)
(* parse.                                                                  *)
(***************************************************************************)
EXTENDS Integers, Sequences, FiniteSetsExt

CONSTANTS
    Admins,     \* administrators with the update screen
    Clients,    \* requests that read the public settings
    Policies,   \* the policies an administrator submits
    OSVersions, \* the OS versions clients report
    Broken,     \* a stored value that does not decode, or no row
    Nothing,    \* no cache entry, no answer yet
    MaxBuild,   \* bound: build numbers
    MaxSaves,   \* bound: saves
    MaxSecond   \* bound: the clock, in the seconds of UPDATED_AT

\* A submitted policy has the fields and the types of the request's JSON.
PolicyAssumption ==
    /\ MaxBuild \in Nat /\ MaxSaves \in Nat /\ MaxSecond \in Nat
    /\ Policies \subseteq [force : BOOLEAN, min : Int, recommend : BOOLEAN, recommended : Int,
                           os : Seq(Nat), store : STRING]

VARIABLES
    platform,  \* the platform this instance is about
    row,       \* its setting: [value, at]
    history,   \* app_update_policy_history, oldest first: [before, after]
    cache,     \* the public settings entry: [value, saves, pinned] or Nothing
    client,    \* request -> its progress through GetPublicSettings
    shown,     \* request -> the policy it was last answered, with its floor
    observed,  \* app_client_builds
    throttle,  \* builds whose observation is throttled
    form,      \* administrator -> the screen she has open
    second,    \* the clock
    answered,  \* history: the saves of the newest answered save
    confirmed, \* history: the policies saved with an unobserved build confirmed
    outside    \* history: what reached the policy's row past its own screen

policyVars == <<platform, row, history, cache, client, shown, observed, throttle,
                form, second, answered, confirmed, outside>>

Builds == 1..MaxBuild

\* The row a migration seeds: every notice is off.
Seed(p) == [force |-> FALSE, min |-> 0, recommend |-> FALSE, recommended |-> 0,
            os |-> IF p = "ios" THEN <<17, 0>> ELSE <<26>>, store |-> "none"]

-----------------------------------------------------------------------------
(* The decision rules.                                                     *)

parseOSVersion(v) == [i \in 1..3 |-> IF i <= Len(v) THEN v[i] ELSE 0]

Parses(v) == Len(v) \in 1..3

isOSVersionBelow(device, minimum) ==
    /\ Parses(device) /\ Parses(minimum)
    /\ LET d == parseOSVersion(device)
           m == parseOSVersion(minimum)
       IN  \E i \in 1..3 : d[i] < m[i] /\ \A j \in 1..(i - 1) : d[j] = m[j]

EvaluateAppUpdate(p, build, os) ==
    LET needsForce == p.force /\ p.min > 0 /\ build < p.min
        needsRecommend == p.recommend /\ p.recommended > 0 /\ build < p.recommended
    IN  CASE build <= 0 \/ ~(needsForce \/ needsRecommend) -> "none"
          [] build > 0 /\ (needsForce \/ needsRecommend) /\ isOSVersionBelow(os, p.os) ->
                "unsupported_os"
          [] OTHER -> IF needsForce THEN "force" ELSE "recommend"

\* AppVersionGate refuses a request only on a decoded policy that forces.
AppVersionGate(value, build, os) ==
    value # Broken /\ EvaluateAppUpdate(value, build, os) = "force"

-----------------------------------------------------------------------------
(* What an administrator may store.                                        *)

LatestBuild == Max({0} \cup observed)

\* A threshold no client has reported would block everyone.
Observed(p, latest) ==
    /\ p.force => p.min <= latest
    /\ p.recommend => p.recommended <= latest

validateIOSStoreURL(p) ==
    IF p.store = "none" THEN ~p.force /\ ~p.recommend ELSE p.store = "apple"

ValidateAppUpdatePolicy(p, latest, allowUnobserved) ==
    /\ p.min >= 0 /\ p.recommended >= 0
    /\ p.force => p.min > 0
    /\ p.recommend => p.recommended > 0
    /\ p.force /\ p.recommend => p.recommended >= p.min
    /\ allowUnobserved \/ Observed(p, latest)
    /\ Len(p.os) \in (IF platform = "ios" THEN 1..3 ELSE {1})
    /\ IF platform = "ios" THEN validateIOSStoreURL(p) ELSE p.store = "none"

-----------------------------------------------------------------------------
(* The administrators.                                                     *)

Closed == [pc |-> "closed"]

\* One platform's policy with its audit fields.
getPolicyRecord == [pc |-> "open", seen |-> row.value, at |-> row.at]

\* ListPolicies: a row that does not decode is shown as unavailable, with
\* nothing to edit.
OpenScreen(a) ==
    /\ form[a].pc \in {"closed", "open"} /\ row.value # Broken
    /\ form[a] # getPolicyRecord
    /\ form' = [form EXCEPT ![a] = getPolicyRecord]
    /\ UNCHANGED <<platform, row, history, cache, client, shown, observed, throttle,
                   second, answered, confirmed, outside>>

\* The request: the timestamp read is mandatory, the policy she was editing is
\* sent along or not (`checked`).
SaveRequest(f, p, allow, checked) ==
    [pc |-> "saving", seen |-> f.seen, at |-> f.at, new |-> p,
     allow |-> allow, checked |-> checked]

\* SavePolicy up to its transaction: the newest build is read unless the
\* administrator confirmed an unobserved one, and the policy is validated.
BeginSave(a, p, allow, checked) ==
    /\ form[a].pc = "open" /\ Len(history) < MaxSaves
    /\ ValidateAppUpdatePolicy(p, LatestBuild, allow)
    /\ form' = [form EXCEPT ![a] = SaveRequest(form[a], p, allow, checked)]
    /\ UNCHANGED <<platform, row, history, cache, client, shown, observed, throttle,
                   second, answered, confirmed, outside>>

\* A faulty variant of storedPolicyMatcher: the timestamp alone decides.
TimestampOnly(f) == f.at <= second

storedPolicyMatcher(f) == f.checked => row.value = f.seen

NotChangedSince(f) == row.at = f.at /\ storedPolicyMatcher(f)

Entry(f) == [before |-> row.value, after |-> f.new]

\* SavePolicy's transaction: the locked row is compared with what was read, then
\* the setting and the trail are written together.
Save(a) ==
    /\ form[a].pc = "saving" /\ NotChangedSince(form[a]) /\ Len(history) < MaxSaves
    /\ row' = [value |-> form[a].new, at |-> second]
    /\ history' = Append(history, Entry(form[a]))
    /\ confirmed' = IF form[a].allow THEN confirmed \cup {form[a].new} ELSE confirmed
    /\ form' = [form EXCEPT ![a] = [pc |-> "invalidate", saves |-> Len(history) + 1]]
    /\ UNCHANGED <<platform, cache, client, shown, observed, throttle, second, answered, outside>>

\* The comparison finds another save, or the database fails: nothing is written.
SaveRefused(a) ==
    /\ form[a].pc = "saving"
    /\ form' = [form EXCEPT ![a] = Closed]
    /\ UNCHANGED <<platform, row, history, cache, client, shown, observed, throttle,
                   second, answered, confirmed, outside>>

CacheAfterSave(c) == Nothing

\* A read that has its rows and has not cached them yet will bring them back.
ReadsUnderWay ==
    [r \in Clients |-> [client[r] EXCEPT !.late = @ \/ client[r].pc = "set"]]

\* The public settings are dropped and the save is answered.
Invalidate(a) ==
    /\ form[a].pc = "invalidate"
    /\ cache' = CacheAfterSave(cache)
    /\ client' = ReadsUnderWay
    /\ answered' = Max({answered, form[a].saves})
    /\ form' = [form EXCEPT ![a] = Closed]
    /\ UNCHANGED <<platform, row, history, shown, observed, throttle, second, confirmed, outside>>

\* The settings keys an administrator may name, the policy's in three spellings:
\* as it is, in capitals, and with an accent on one of its letters.
SettingKeys == {"plain", "app_update_policy", "APP_UPDATE_POLICY", "accented policy"}

\* WHERE AS_KEY = ?: the column's collation ignores case and accents, so all
\* three spellings are the policy's row.
NamesPolicy(k) == k # "plain"

\* The spellings that lower-casing turns into the key.
Recased == {"app_update_policy", "APP_UPDATE_POLICY"}

\* A faulty variant of ReadOnly: the key is compared as it is spelled.
ReadOnlyAsSpelled(k) == k = "app_update_policy"

\* strings.HasPrefix(strings.ToLower(key), AppUpdatePolicyKeyPrefix): narrower
\* than the collation that finds the row.
ReadOnly(k) == k \in Recased

\* UpdateValue on the generic settings endpoint: the policy's key is refused in
\* either case; any other setting takes whatever text is sent, without the
\* policy's validation and without an entry on its trail, and the public
\* settings are dropped.
UpdateValue(k, v) ==
    /\ ~ReadOnly(k)
    /\ row' = IF NamesPolicy(k) THEN [value |-> v, at |-> second] ELSE row
    /\ outside' = IF NamesPolicy(k) /\ k \notin Recased THEN outside \cup {v} ELSE outside
    /\ cache' = Nothing
    /\ UNCHANGED <<platform, history, client, shown, observed, throttle, form,
                   second, answered, confirmed>>

-----------------------------------------------------------------------------
(* The readers of the public settings.                                     *)

NoRead == [pc |-> "idle", value |-> Nothing, saves |-> 0, floor |-> 0, late |-> FALSE]

Answer(r, value, saves, floor, pinned) ==
    /\ shown' = [shown EXCEPT ![r] = [value |-> value, saves |-> saves,
                                      floor |-> floor, pinned |-> pinned]]
    /\ client' = [client EXCEPT ![r] = NoRead]

ReadFromCache(r) ==
    /\ client[r].pc = "idle" /\ cache # Nothing
    /\ Answer(r, cache.value, cache.saves, answered, cache.pinned)
    /\ UNCHANGED <<platform, row, history, cache, observed, throttle, form, second,
                   answered, confirmed, outside>>

ReadMisses(r) ==
    /\ client[r].pc = "idle" /\ cache = Nothing
    /\ client' = [client EXCEPT ![r].pc = "load", ![r].floor = answered]
    /\ UNCHANGED <<platform, row, history, cache, shown, observed, throttle, form,
                   second, answered, confirmed, outside>>

\* ListPublic; a failure is answered as an error, which the gate lets through.
ReadRows(r) ==
    /\ client[r].pc = "load"
    /\ \/ client' = [client EXCEPT ![r].pc = "set", ![r].value = row.value,
                                   ![r].saves = Len(history)]
       \/ client' = [client EXCEPT ![r] = NoRead]
    /\ UNCHANGED <<platform, row, history, cache, shown, observed, throttle, form,
                   second, answered, confirmed, outside>>

\* The rows are cached, whatever was saved since they were read, and answered.
CacheRows(r) ==
    /\ client[r].pc = "set"
    /\ cache' = [value |-> client[r].value, saves |-> client[r].saves,
                 pinned |-> client[r].late]
    /\ Answer(r, client[r].value, client[r].saves, client[r].floor, FALSE)
    /\ UNCHANGED <<platform, row, history, observed, throttle, form, second, answered,
                   confirmed, outside>>

CacheExpires ==
    /\ cache # Nothing
    /\ cache' = Nothing
    /\ UNCHANGED <<platform, row, history, client, shown, observed, throttle, form,
                   second, answered, confirmed, outside>>

-----------------------------------------------------------------------------
(* The builds clients report.                                              *)

\* The throttle is set only after a successful write.
ThrottleAfter(b, written) == IF written THEN throttle \cup {b} ELSE throttle

Upsert(b) == observed \cup {b}

\* An authenticated request carries its build; the write may fail.
Observe(b, written) ==
    /\ b \notin throttle
    /\ observed' = IF written THEN Upsert(b) ELSE observed
    /\ throttle' = ThrottleAfter(b, written)
    /\ UNCHANGED <<platform, row, history, cache, client, shown, form, second, answered,
                   confirmed, outside>>

ThrottleExpires(b) ==
    /\ b \in throttle
    /\ throttle' = throttle \ {b}
    /\ UNCHANGED <<platform, row, history, cache, client, shown, observed, form, second,
                   answered, confirmed, outside>>

Tick ==
    /\ second < MaxSecond
    /\ second' = second + 1
    /\ UNCHANGED <<platform, row, history, cache, client, shown, observed, throttle,
                   form, answered, confirmed, outside>>

-----------------------------------------------------------------------------
PolicyInit ==
    /\ platform \in {"ios", "android"}
    /\ row \in [value : {Seed(platform), Broken}, at : {0}]
    /\ history = <<>> /\ cache = Nothing
    /\ client = [r \in Clients |-> NoRead]
    /\ shown = [r \in Clients |-> Nothing]
    /\ observed = {} /\ throttle = {}
    /\ form = [a \in Admins |-> Closed]
    /\ second = 0 /\ answered = 0 /\ confirmed = {} /\ outside = {}

PolicyNext ==
    \/ \E a \in Admins :
          \/ OpenScreen(a) \/ Save(a) \/ SaveRefused(a) \/ Invalidate(a)
          \/ \E p \in Policies, allow \in BOOLEAN, checked \in BOOLEAN :
                BeginSave(a, p, allow, checked)
    \/ \E k \in SettingKeys, v \in Policies \cup {Broken} : UpdateValue(k, v)
    \/ \E r \in Clients : ReadFromCache(r) \/ ReadMisses(r) \/ ReadRows(r) \/ CacheRows(r)
    \/ CacheExpires
    \/ \E b \in Builds : ThrottleExpires(b) \/ \E written \in BOOLEAN : Observe(b, written)
    \/ Tick

PolicySpec == PolicyInit /\ [][PolicyNext]_policyVars

-----------------------------------------------------------------------------
\* A client the gate refuses can always update: some build that clients have
\* reported passes, its OS can run the update, and on iOS the policy names the
\* App Store page; unless an administrator confirmed an unobserved build, or the
\* text reached the row past the policy's screen.  The policy was checked against
\* an earlier set of builds and may come from the cache (ValidateAppUpdatePolicy,
\* EvaluateAppUpdate, AppVersionGate).
RefusedClientsCanUpdate ==
    \A r \in Clients : shown[r] # Nothing /\ shown[r].value \notin outside =>
        \A b \in Builds, os \in OSVersions :
            AppVersionGate(shown[r].value, b, os) =>
                /\ ~isOSVersionBelow(os, shown[r].value.os)
                /\ platform = "ios" => shown[r].value.store = "apple"
                /\ \/ shown[r].value \in confirmed
                   \/ \E newer \in observed : ~AppVersionGate(shown[r].value, newer, os)

\* A save that says which policy was edited replaces exactly that one, although
\* two saves of one second carry the same UPDATED_AT (SavePolicy).
PolicyEditsNotLost ==
    [][\A a \in Admins :
         (form[a].pc = "saving" /\ form'[a].pc = "invalidate" /\ form[a].checked)
            => form[a].seen = row.value]_policyVars

\* The audit trail is an unbroken chain that ends in the stored policy, although
\* the generic settings endpoint writes the same table and saves of one second
\* may overwrite each other; its gaps are texts that the generic endpoint wrote
\* under a spelling with an accent, never one it wrote under another case
\* (SavePolicy, UpdateValue).
HistoryIsAChain ==
    /\ \A i \in 2..Len(history) : history[i].before \in {history[i - 1].after} \cup outside
    /\ history # <<>> => row.value \in {history[Len(history)].after} \cup outside

\* A read that begins after a save was answered shows that policy or a later
\* one; the exception is a read that already had its rows when the settings
\* were dropped and caches them afterwards (GetPublicSettings).
ReadsShowAnsweredSaves ==
    \A r \in Clients :
        shown[r] # Nothing => shown[r].saves >= shown[r].floor \/ shown[r].pinned

\* A build whose observations are skipped is one the table has, so the bound on
\* thresholds never misses it for a whole window (Observe).
ThrottledIsRecorded == throttle \subseteq observed

\* The gate never locks a client out for good, clients are shown the answered
\* policy, every change is on the trail but for those past the screen, and skipped
\* observations are recorded.
PolicyIsSound ==
    RefusedClientsCanUpdate /\ HistoryIsAChain /\ ReadsShowAnsweredSaves /\ ThrottledIsRecorded
=============================================================================
