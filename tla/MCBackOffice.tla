---------------------------- MODULE MCBackOffice ----------------------------
(***************************************************************************)
(* The donation ledger, the notification texts and the app update policy   *)
(* in one run.  They share no state, so each initial state picks one scene *)
(* and only that scene's actions run, with the bounds its questions need:  *)
(*   import     spreadsheets imported while profiles change and accounts   *)
(*              are erased                                                 *)
(*   review     retention reviews, edits and the erasure they allow        *)
(*   pages      two operators edit from the pages of the ledger            *)
(*   texts      renders and edits of one notification text                 *)
(*   saves      two administrators edit one update policy                  *)
(*   builds     thresholds against the builds clients report               *)
(***************************************************************************)
EXTENDS DonationLedger

CONSTANTS
    m1, m2, d1, d2, p1, txn1,  \* of the ledger
    Requests, Editors, Texts, MaxVersion,  \* of NotificationTemplates
    Admins, a1, Clients, Policies, OSVersions, Broken, MaxBuild, MaxSaves, MaxSecond,  \* of AppUpdatePolicy
    Nil  \* no row, no cache entry, no answer

VARIABLES
    scene,
    key, text, cached, gen, render, sent, edit, answered,
    platform, policy, trail, public, client, shown, observed, throttle, form, second,
    saved, confirmed, outside

-----------------------------------------------------------------------------
In(account, d, gross, refunded, status, txn, source) ==
    [account |-> account, accountSet |-> account # NoMember, donor |-> d, gross |-> gross,
     refunded |-> refunded, status |-> status, txn |-> txn, complete |-> d # d2,
     source |-> source]

MCOrderInputs ==
    {In(m1, d1, 1, 0, "cancelled", NoTxn, "bank_transfer"),
     In(m1, d2, 1, 0, "completed", NoTxn, "bank_transfer"),
     In(m1, d1, 2, 0, "completed", NoTxn, "bank_transfer"),
     In(NoMember, d1, 2, 1, "partially_refunded", NoTxn, "bank_transfer"),
     In(m2, d1, 1, 0, "completed", txn1, "bank_transfer"),
     In(m2, d1, 1, 0, "completed", txn1, "other")}

MCSheets ==
    {[xlsx |-> TRUE, dated |-> TRUE, header |-> TRUE,
      rows |-> <<[blank |-> FALSE, formula |-> FALSE, complete |-> TRUE, who |-> d1, amount |-> 2]>>]}

Text(title, titleTokens, body, names, stray, encodable) ==
    [title |-> title, titleTokens |-> titleTokens, body |-> body, tokens |-> names,
     stray |-> stray, encodable |-> encodable]

\* Texts at the SMS limit, one byte past it, with a misspelled token, with a
\* stray brace, and the two defaults.
MCTexts ==
    {Text(0, {}, 41, {"code"}, FALSE, TRUE), Text(0, {}, 74, {"code"}, FALSE, TRUE),
     Text(0, {}, 75, {"code"}, FALSE, TRUE), Text(0, {}, 20, {"cod"}, FALSE, TRUE),
     Text(0, {"senderName"}, 0, {"content"}, FALSE, TRUE),
     Text(4, {}, 10, {"content"}, FALSE, TRUE), Text(4, {}, 10, {"content"}, TRUE, FALSE)}

\* No row is the absence of one.
ASSUME TextAssumption == Nil \notin [text : Texts, version : Nat, channel : {"sms", "push"}]

Templates == INSTANCE NotificationTemplates WITH row <- text, Missing <- Nil

Policy(force, min, recommend, recommended, os, store) ==
    [force |-> force, min |-> min, recommend |-> recommend, recommended |-> recommended,
     os |-> os, store |-> store]

MCPolicies ==
    {Policy(TRUE, 2, FALSE, 0, <<17, 4>>, "apple"), Policy(TRUE, 1, TRUE, 2, <<26>>, "none"),
     Policy(TRUE, 2, TRUE, 1, <<26>>, "none"), Policy(TRUE, 2, FALSE, 0, <<17, 0>>, "none")}

MCOSVersions == {<<>>, <<17, 1>>, <<18>>, <<26>>}

Gate == INSTANCE AppUpdatePolicy WITH
    row <- policy, history <- trail, cache <- public, answered <- saved, Nothing <- Nil

ASSUME PolicyTypes == Gate!PolicyAssumption

\* The scenes name some of the accounts and people at work.
ASSUME SceneAssumption == {m1, m2} \subseteq Members /\ p1 \in Operators /\ a1 \in Admins

-----------------------------------------------------------------------------
templates == <<key, text, cached, gen, render, sent, edit, answered>>
updates == <<platform, policy, trail, public, client, shown, observed, throttle, form,
             second, saved, confirmed, outside>>

LedgerScenes == {"import", "review", "pages"}

\* A part that its scene does not run starts in one fixed state.
MCInit ==
    /\ scene \in {"import", "review", "pages", "texts", "saves", "builds"}
    /\ LedgerInit
    /\ scene = "review" => member[m1].who = d1 /\ member[m2].who = d2
    /\ scene \notin LedgerScenes => member[m1].who = d1 /\ member[m2].who = d1
    /\ Templates!TemplateInit
    /\ scene # "texts" => key = "sms" /\ text = Nil
    /\ Gate!PolicyInit
    /\ scene \notin {"saves", "builds"} => platform = "ios" /\ policy.value # Broken

-----------------------------------------------------------------------------
\* Complete orders that are paid in full.
ImportInputs ==
    {i \in OrderInputs : i.account # m2 /\ i.accountSet /\ i.status = "completed" /\ i.complete}

ReviewInputs == {i \in OrderInputs : i.status # "cancelled" /\ i.complete}

ImportScene ==
    \/ \E i \in ImportInputs : CreateOrder(p1, i)
    \/ \E m \in Members, d \in Donors : ChangeProfile(m, d)
    \/ \E sheet \in Sheets : Preview(sheet)
    \/ \E p \in Operators, picked \in SUBSET tokens :
         \E choice \in [picked -> Accounts] : BeginCommit(p, picked, choice)
    \/ \E p \in Operators : Commit(p)
    \/ \E m \in Members : FreezeContext(m) \/ EraseMember(m)

ReviewScene ==
    \/ \E i \in ReviewInputs : CreateOrder(p1, i)
    \/ \E st \in {"", "completed"}, page \in 1..MaxOrders : OpenOrder(p1, st, page)
    \/ \E i \in ReviewInputs : UpdateOrder(p1, i)
    \/ Abandon(p1)
    \/ \E s \in Seqs : Inspect(s)
    \/ \E si \in inspected, until \in BOOLEAN : ApplyDecision(si[1], si[2], "ledger_10y", until)
    \/ PrepareErasure(m1) \/ FreezeContext(m1) \/ EraseMember(m1)

PageScene ==
    \/ \E i \in OrderInputs : CreateOrder(p1, i)
    \/ \E p \in Operators, st \in {"", "cancelled", "odd"}, page \in 0..MaxOrders : OpenOrder(p, st, page)
    \/ \E p \in Operators, i \in OrderInputs : UpdateOrder(p, i)

PolicyScene ==
    \/ \E a \in Admins :
         /\ scene = "builds" => a = a1
         /\ \/ Gate!OpenScreen(a) \/ Gate!Save(a) \/ Gate!SaveRefused(a) \/ Gate!Invalidate(a)
            \/ \E p \in Policies, allow \in BOOLEAN, checked \in BOOLEAN :
                 (scene = "builds" => checked) /\ Gate!BeginSave(a, p, allow, checked)
    \/ /\ outside = {} /\ scene = "saves" /\ trail # <<>>
       /\ \E k \in Gate!SettingKeys, v \in {p \in Policies : p.store = "apple"} : Gate!UpdateValue(k, v)
    \/ \E c \in Clients : \/ Gate!ReadFromCache(c) \/ Gate!ReadMisses(c)
                          \/ Gate!ReadRows(c) \/ Gate!CacheRows(c)
    \/ Gate!CacheExpires \/ Gate!Tick
    \/ \E b \in Gate!Builds :
         \/ scene = "saves" /\ b = MaxBuild /\ Gate!Observe(b, TRUE)
         \/ scene = "builds" /\ (Gate!ThrottleExpires(b) \/ \E written \in BOOLEAN : Gate!Observe(b, written))

MCNext ==
    \/ /\ \/ scene = "import" /\ ImportScene
          \/ scene = "review" /\ ReviewScene
          \/ scene = "pages" /\ PageScene
          \/ scene \in LedgerScenes /\ Tick
       /\ UNCHANGED <<scene, templates, updates>>
    \/ scene = "texts" /\ Templates!TemplateNext /\ UNCHANGED <<scene, ledgerVars, updates>>
    \/ scene \in {"saves", "builds"} /\ PolicyScene
       /\ UNCHANGED <<scene, ledgerVars, templates>>

MCSpec == MCInit /\ [][MCNext]_<<scene, ledgerVars, templates, updates>>

-----------------------------------------------------------------------------
\* What is sent is usable and no older than the last answered edit
\* (NotificationTemplates).
TextsAreSound == scene = "texts" => Templates!TextsAreSound

\* The gate, its policy and their trail (AppUpdatePolicy).
PolicyIsSound == scene \in {"saves", "builds"} => Gate!PolicyIsSound

\* An administrator's save replaces only what its form was opened on, although
\* several screens are open and saves of one second look alike: orders, where the
\* second is the documented limit, notification texts and the update policy.
SavesLoseNothing == EditsLoseNothingOlder /\ Templates!TemplateEditsNotLost /\ Gate!PolicyEditsNotLost
=============================================================================
