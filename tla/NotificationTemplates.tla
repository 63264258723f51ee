------------------------ MODULE NotificationTemplates ------------------------
(***************************************************************************)
(* The admin-editable notification texts: the stored row of one catalog    *)
(* key, the process-wide cache with its generation counter, the renders of *)
(* the sending path and the administrators who edit the row.  A text is    *)
(* abstracted to what validation and substitution tell apart: the length   *)
(* of its literal characters, the placeholders it names, a stray brace, a  *)
(* character the SMS encoding lacks.                                       *)
(***************************************************************************)
EXTENDS Integers, FiniteSetsExt

CONSTANTS
    Requests,  \* renders on the sending path
    Editors,   \* administrators with the template screen
    Texts,     \* the texts a row may hold and an administrator may submit
    Missing,   \* no row, no cache entry, nothing sent yet
    MaxVersion \* bound: the row's version

VARIABLES
    key,     \* the catalog key this instance is about
    row,     \* notification_templates: [text, version, channel] or Missing
    cached,  \* the cache entry: [text, version, pinned] or Missing
    gen,     \* the key's invalidation counter
    render,  \* request -> its progress through resolve
    sent,    \* request -> the text it last sent, with what it should have known
    edit,    \* editor -> the form she has open and her save's progress
    answered \* history: the highest version an answered save produced

templateVars == <<key, row, cached, gen, render, sent, edit, answered>>

-----------------------------------------------------------------------------
(* The catalog and the rules of a text.                                    *)

SMSTemplateMaxEUCKRBytes == 80
PushTemplateMaxTitleRunes == 50
PushTemplateMaxBodyRunes == 200

\* Two entries of the catalog: the verification code by SMS, and the message
\* push that shows its preview.  `sample` is the longest value of a placeholder.
Catalog ==
    [sms  |-> [channel |-> "sms", allowed |-> {"code"}, required |-> {"code"},
               default |-> [title |-> 0, titleTokens |-> {}, body |-> 41,
                            tokens |-> {"code"}, stray |-> FALSE, encodable |-> TRUE]],
     push |-> [channel |-> "push", allowed |-> {"senderName", "content"},
               required |-> {"content"},
               default |-> [title |-> 0, titleTokens |-> {"senderName"}, body |-> 0,
                            tokens |-> {"content"}, stray |-> FALSE, encodable |-> TRUE]]]

definition == Catalog[key]

SampleBytes(name) == CASE name = "code" -> 6 [] name = "senderName" -> 6 [] OTHER -> 9

\* A token as it is spelled, braces included.
SpelledRunes(name) ==
    CASE name = "code" -> 6 [] name = "cod" -> 5 [] name = "senderName" -> 12 [] OTHER -> 9

SpelledLength(literal, tokens) == literal + MapThenSumSet(SpelledRunes, tokens)

Blank(literal, tokens) == literal = 0 /\ tokens = {}

validateTemplateTitlePresence(t) ==
    Blank(t.title, t.titleTokens) <=> definition.channel = "sms"

validateTemplatePlaceholders(t) ==
    /\ t.titleTokens \cup t.tokens \subseteq definition.allowed
    /\ ~t.stray
    /\ definition.required \subseteq t.tokens

\* renderTemplateText: allowed tokens become their values, the rest stays as spelled.
renderTemplateText(t) ==
    [braces |-> t.stray \/ (t.titleTokens \cup t.tokens) \ definition.allowed # {},
     shows  |-> t.tokens \cap definition.allowed,
     bytes  |-> t.body + MapThenSumSet(SampleBytes, t.tokens \cap definition.allowed)
                       + MapThenSumSet(SpelledRunes, t.tokens \ definition.allowed)]

validateSMSTemplateLength(t) ==
    t.encodable /\ renderTemplateText(t).bytes <= SMSTemplateMaxEUCKRBytes

validatePushTemplateLength(t) ==
    /\ SpelledLength(t.title, t.titleTokens) <= PushTemplateMaxTitleRunes
    /\ SpelledLength(t.body, t.tokens) <= PushTemplateMaxBodyRunes

ValidateNotificationTemplate(t) ==
    /\ ~Blank(t.body, t.tokens)
    /\ validateTemplateTitlePresence(t)
    /\ validateTemplatePlaceholders(t)
    /\ IF definition.channel = "sms"
       THEN validateSMSTemplateLength(t) ELSE validatePushTemplateLength(t)

\* The renderer uses a row of the catalog's channel whose text is still valid.
Usable(r) ==
    /\ r # Missing
    /\ r.channel = definition.channel
    /\ ValidateNotificationTemplate(r.text)

Fallback == [text |-> definition.default, version |-> 0]

\* loadOrDefault, without a store failure.
loadOrDefault ==
    IF Usable(row) THEN [text |-> row.text, version |-> row.version]
    ELSE Fallback

-----------------------------------------------------------------------------
(* The sending path.                                                       *)

NoRender == [pc |-> "idle", gen |-> 0, got |-> Missing, floor |-> 0, late |-> FALSE]
NoForm == [pc |-> "none", text |-> Missing, version |-> 0]

Deliver(r, got, floor, pinned) ==
    /\ sent' = [sent EXCEPT ![r] = [text |-> got.text, version |-> got.version,
                                    floor |-> floor, pinned |-> pinned]]
    /\ render' = [render EXCEPT ![r] = NoRender]

\* Render of a cached text.
RenderFromCache(r) ==
    /\ render[r].pc = "idle" /\ cached # Missing
    /\ Deliver(r, cached, answered, cached.pinned)
    /\ UNCHANGED <<key, row, cached, gen, edit, answered>>

\* The cache misses; what has been answered by now is what this send must show.
RenderMisses(r) ==
    /\ render[r].pc = "idle" /\ cached = Missing
    /\ render' = [render EXCEPT ![r].pc = "generation", ![r].floor = answered]
    /\ UNCHANGED <<key, row, cached, gen, sent, edit, answered>>

ReadGeneration(r) ==
    /\ render[r].pc = "generation"
    /\ render' = [render EXCEPT ![r].pc = "load", ![r].gen = gen]
    /\ UNCHANGED <<key, row, cached, gen, sent, edit, answered>>

\* The row is read; a store failure sends the default.
Load(r) ==
    /\ render[r].pc = "load"
    /\ \E got \in {loadOrDefault, Fallback} :
           render' = [render EXCEPT ![r].pc = "check", ![r].got = got]
    /\ UNCHANGED <<key, row, cached, gen, sent, edit, answered>>

\* A faulty variant of SameGeneration: the counter is not compared.
AnyGeneration(r) == render[r].gen <= gen

SameGeneration(r) == render[r].gen = gen

\* The generation is compared again: an update since the read began means that
\* the result is sent and not cached.
Check(r) ==
    /\ render[r].pc = "check"
    /\ IF SameGeneration(r)
       THEN render' = [render EXCEPT ![r].pc = "set"] /\ UNCHANGED sent
       ELSE Deliver(r, render[r].got, render[r].floor, FALSE)
    /\ UNCHANGED <<key, row, cached, gen, edit, answered>>

\* The result is cached and sent.  The comparison and the write are two steps.
SetCache(r) ==
    /\ render[r].pc = "set"
    /\ cached' = [text |-> render[r].got.text, version |-> render[r].got.version,
                  pinned |-> render[r].late]
    /\ Deliver(r, render[r].got, render[r].floor, FALSE)
    /\ UNCHANGED <<key, row, gen, edit, answered>>

\* go-cache: the entry's lifetime (five minutes, thirty seconds for a failure) ends.
CacheExpires ==
    /\ cached # Missing
    /\ cached' = Missing
    /\ UNCHANGED <<key, row, gen, render, sent, edit, answered>>

-----------------------------------------------------------------------------
(* The administrators.                                                     *)

\* buildTemplateView: the stored text and version, or the default as version 0.
buildTemplateView ==
    IF row = Missing THEN [pc |-> "open", text |-> definition.default, version |-> 0]
    ELSE [pc |-> "open", text |-> row.text, version |-> row.version]

\* The screen is loaded or reloaded.
List(e) ==
    /\ edit[e].pc \in {"none", "open"}
    /\ edit[e] # buildTemplateView
    /\ edit' = [edit EXCEPT ![e] = buildTemplateView]
    /\ UNCHANGED <<key, row, cached, gen, render, sent, answered>>

validateTemplateSubmission(e, t) ==
    edit[e].version > 0 /\ ValidateNotificationTemplate(t)

\* The version compared under the row's lock.
StillCurrent(e) == row # Missing /\ row.version = edit[e].version

\* The row as the transaction leaves it.
UpdatedRow(t) == [row EXCEPT !.text = t, !.version = @ + 1]

\* The view an answered save returns: composed from the submission, not read back.
SavedView(t) == [pc |-> "bump", text |-> t, version |-> row.version + 1]

\* Update's transaction.  A refused submission, a conflict, a missing row and a
\* database error leave everything as it is, the form included.
Save(e, t) ==
    /\ edit[e].pc = "open" /\ validateTemplateSubmission(e, t)
    /\ StillCurrent(e)
    /\ row.version < MaxVersion
    /\ row' = UpdatedRow(t)
    /\ edit' = [edit EXCEPT ![e] = SavedView(t)]
    /\ UNCHANGED <<key, cached, gen, render, sent, answered>>

\* invalidate, first half: renders past their comparison no longer notice.
Bump(e) ==
    /\ edit[e].pc = "bump"
    /\ gen' = gen + 1
    /\ render' = [r \in Requests |->
                    [render[r] EXCEPT !.late = @ \/ render[r].pc = "set"]]
    /\ edit' = [edit EXCEPT ![e].pc = "drop"]
    /\ UNCHANGED <<key, row, cached, sent, answered>>

\* invalidate, second half, and the answer: the form now shows what was saved.
Drop(e) ==
    /\ edit[e].pc = "drop"
    /\ cached' = Missing
    /\ edit' = [edit EXCEPT ![e].pc = "open"]
    /\ answered' = IF edit[e].version > answered THEN edit[e].version ELSE answered
    /\ UNCHANGED <<key, row, gen, render, sent>>

-----------------------------------------------------------------------------
\* The migration seeds a row; a hand edit or a changed catalog may have left one
\* of another channel or with an unusable text, or none.
TemplateInit ==
    /\ key \in DOMAIN Catalog
    /\ row \in {Missing} \cup
              [text : Texts, version : {1}, channel : {"sms", "push"}]
    /\ cached = Missing /\ gen = 0 /\ answered = 0
    /\ render = [r \in Requests |-> NoRender]
    /\ sent = [r \in Requests |-> Missing]
    /\ edit = [e \in Editors |-> NoForm]

TemplateNext ==
    \/ \E r \in Requests :
          \/ RenderFromCache(r) \/ RenderMisses(r) \/ ReadGeneration(r)
          \/ Load(r) \/ Check(r) \/ SetCache(r)
    \/ CacheExpires
    \/ \E e \in Editors : List(e) \/ (\E t \in Texts : Save(e, t)) \/ Bump(e) \/ Drop(e)

TemplateSpec == TemplateInit /\ [][TemplateNext]_templateVars

-----------------------------------------------------------------------------
\* After a save is answered, a send that begins shows that text or a later one
\* (or the default, when the store fails), whatever reads were under way when it
\* was saved.  The one exception the generation counter leaves is a read that
\* had compared it already and writes the cache after the drop (resolve,
\* invalidate).
SendsUseAnsweredEdits ==
    \A r \in Requests :
        sent[r] # Missing =>
            \/ sent[r].version = 0
            \/ sent[r].version >= sent[r].floor
            \/ sent[r].pinned

\* What reaches a member is never broken: no brace or unknown token is left, the
\* code or the preview is there, and an SMS fits the vendor's limit, although
\* the row may be unusable, of another channel or missing (loadOrDefault).
SentTextIsUsable ==
    \A r \in Requests :
        sent[r] # Missing =>
            LET out == renderTemplateText(sent[r].text) IN
            /\ ~out.braces
            /\ definition.required \subseteq out.shows
            /\ definition.channel = "sms" =>
                 out.bytes <= SMSTemplateMaxEUCKRBytes /\ sent[r].text.encodable

\* A save replaces only the text its administrator was looking at, although
\* several screens are open and their saves overlap (Update).
TemplateEditsNotLost ==
    [][\A e \in Editors :
         (edit[e].pc = "open" /\ edit'[e].pc = "bump") => edit[e].text = row.text]_templateVars

\* What is sent is usable and no older than the last answered edit.
TextsAreSound == SendsUseAnsweredEdits /\ SentTextIsUsable
=============================================================================
