------------------------------ MODULE WebForms ------------------------------
(***************************************************************************)
(* The parts of the settings dialog that load and save by themselves, and  *)
(* not with its Save button: the access lists of the firewall              *)
(* (WAFSettings.jsx), the GStreamer settings (GStreamerSettings.jsx) and   *)
(* the storage of settings and marks (SecondarySettingsComponent.jsx).     *)
(*                                                                         *)
(* Each is a form that lives as long as its tab is shown.  It fetches what *)
(* the server has when it is mounted, and sends what it shows when its     *)
(* button is clicked.  Requests outlive the form; answers that come too    *)
(* late for it change nothing, except that the page has to fetch again     *)
(* what it knows of GStreamer (utils/GStreamer.js).                        *)
(*                                                                         *)
(* A form sends all of its fields, whether or not it has been fetched, and *)
(* two requests may overtake each other.  So a form can show, and save,    *)
(* what the server does not have; the histories told, chosen and missed    *)
(* say exactly when the code lets that happen, and the properties what is  *)
(* true otherwise.                                                         *)
(***************************************************************************)
EXTENDS SettingsShell

CONSTANTS
  Lists,        \* bound: the access lists that are edited
  Texts,        \* bound: what they may contain
  Stripped,     \* a text without its empty lines
  GstFields,    \* bound: the fields of the GStreamer settings, beside the version
  Positive,     \* those where 0 means the default
  Flags,        \* those that are switches: 0 or 1
  Numbers,      \* bound: what is typed into one
  Versions,     \* bound: the versions that are typed, in hundredths
  Installed,    \* the version the server found, or None
  Defaults,     \* the GStreamer settings of this platform
  Initial,      \* what the server has at first
  ReadOnlys,    \* bound: whether the server is started with --rdb, or not
  Lossy,        \* requests and answers may get lost
  MaxActions,   \* bound on what the user does
  MaxFetches,   \* bound on fetches of the GStreamer settings by cards that the user opens
  None, Unavailable,         \* in place of a value
  Pending, Failed, Refused   \* in place of an answer: none yet, none at all, and an error status

Form == {"waf", "gst", "sto"}
Stores == {"settings", "viewed"}
GST_MIN_VERSION == 122

Config == {c \in [GstFields \cup {"GSTVersion"} -> Nat] : \A f \in Flags : c[f] \in 0 .. 1}

Value == [waf |-> [Lists -> Texts], gst |-> Config, sto |-> [Stores -> {"json", "bbolt"}]]

Forms ==
  [is : {"waf"}, shown : Value.waf, initial : Value.waf, loading : BOOLEAN,
   loaded : BOOLEAN, saving : BOOLEAN, readOnly : BOOLEAN]
  \cup [is : {"gst"}, shown : Value.gst, text : Nat \cup {None}, focus : BOOLEAN, loading : BOOLEAN]
  \cup [is : {"sto"}, shown : Value.sto, loading : BOOLEAN]

\* The server has stripped, and made sense of, what it has at first (splitNonEmptyLines, DefaultConfig).
ASSUME FormsAssumption ==
  /\ "" \in Texts /\ Stripped \in [Texts -> Texts] /\ \A t \in Texts : Stripped[Stripped[t]] = Stripped[t]
  /\ GstBuilds \subseteq {TRUE}
  /\ Positive \subseteq GstFields /\ Flags \subseteq GstFields \ Positive /\ Numbers \subseteq Nat /\ "GSTVersion" \notin GstFields
  /\ Versions \subseteq Nat \cup {None} /\ Installed \in Nat \cup {None}
  /\ {Defaults, Initial.gst} \subseteq Config
  /\ \A f \in Positive : Defaults[f] > 0 /\ Initial.gst[f] > 0
  /\ Defaults["GSTVersion"] >= GST_MIN_VERSION /\ Initial.gst["GSTVersion"] >= GST_MIN_VERSION
  /\ Initial.waf \in Value.waf /\ \A l \in Lists : Stripped[Initial.waf[l]] = Initial.waf[l]
  /\ Initial.sto \in Value.sto
  /\ None \notin Form /\ None \notin {Pending, Failed, Refused} /\ Pending \notin {Failed, Refused} /\ Failed # Refused
  /\ Unavailable # None /\ \A v \in {None, Unavailable, Pending, Failed, Refused} : v \notin Value.waf \cup Config \cup Value.sto
  /\ None \notin Forms
  /\ Lossy \in BOOLEAN /\ ReadOnlys \subseteq BOOLEAN /\ {MaxActions, MaxFetches} \subseteq Nat

VARIABLES
  ready,      \* the settings of the dialog have arrived: its tabs have content
  form,       \* the form that is mounted, or None
  reqs,       \* requests without an answer, or with one that has not been seen: a function of their numbers
  srv,        \* what the server keeps for each form, and whether it is read-only
  runtime,    \* what the page knows of the GStreamer settings (react-query)
  actions, fetches,
  \* Histories, of which no step depends.
  chosen,     \* the fields that the user changed, or reset, since the form was filled
  told,       \* the form was filled with what the server has, and nothing has changed that behind it
  missed      \* the page was not told of a change, or only while it fetched what was there before

vars == <<shell, ready, form, reqs, srv, runtime, actions, fetches, chosen, told, missed>>

-----------------------------------------------------------------------------
(* Forms.                                                                   *)

FormOf(tab) ==
  CASE tab = tabAccess -> "waf" [] tab = tabGStreamer -> "gst" [] tab = tabAdditional -> "sto" [] OTHER -> None

\* useState: what a form shows before it knows better.
emptyLists == [l \in Lists |-> ""]

emptyConfig == [f \in GstFields \cup {"GSTVersion"} |-> IF f = "GSTVersion" THEN GST_MIN_VERSION ELSE Defaults[f]]

Fresh(p) ==
  CASE p = "waf" -> [is |-> p, shown |-> emptyLists, initial |-> emptyLists, loading |-> TRUE,
                     loaded |-> FALSE, saving |-> FALSE, readOnly |-> FALSE]
    [] p = "gst" -> [is |-> p, shown |-> emptyConfig, text |-> GST_MIN_VERSION,
                     focus |-> FALSE, loading |-> FALSE]
    [] p = "sto" -> [is |-> p, shown |-> [settings |-> "json", viewed |-> "bbolt"], loading |-> FALSE]

Is(p) == form # None /\ form.is = p

\* The histories of a request: the fields that its sender chose, and whether it knows less than
\* the server: a save that does not rest on what is there, an answer that is no longer true.
Request(p, op, body) ==
  [to |-> p, op |-> op, body |-> body, live |-> TRUE, answer |-> Pending,
   chosen |-> CASE op = "set" -> chosen [] op = "def" -> GstFields [] OTHER -> {},
   behind |-> op = "set" /\ ~told]

\* Nobody waits for what a form fetched that is gone.
Left ==
  [i \in {j \in DOMAIN reqs : reqs[j].to = "page" \/ reqs[j].op # "get"} |-> [reqs[i] EXCEPT !.live = FALSE]]

\* The tab that is shown has changed, or the dialog: the form of the old one is gone.
Mount ==
  LET p == IF open' /\ ready' THEN FormOf(selectedTab') ELSE None
  IN  IF form # None /\ p = form.is THEN UNCHANGED <<form, reqs, chosen, told>>
      ELSE /\ form' = IF p = None THEN None ELSE Fresh(p)
           /\ reqs' = IF p = None THEN Left ELSE Sent(Left, Request(p, "get", None))
           /\ chosen' = {} /\ told' = FALSE

User == actions < MaxActions /\ actions' = actions + 1

OpenDialog ==
  /\ User /\ handleClickOpen
  /\ ready' = FALSE
  /\ UNCHANGED <<form, reqs, srv, runtime, fetches, chosen, told, missed>>

SettingsArrive ==
  /\ open /\ ~ready /\ ready' = TRUE
  /\ UNCHANGED shell /\ Mount
  /\ UNCHANGED <<srv, runtime, actions, fetches, missed>>

GstIsKnown ==
  /\ GstAnswered
  /\ UNCHANGED ready /\ Mount
  /\ UNCHANGED <<srv, runtime, actions, fetches, missed>>

Navigate ==
  /\ User
  /\ \/ SwitchProMode
     \/ \E i \in Visited, yes \in BOOLEAN : handleChange(i, yes) \/ handleChangeIndex(i, yes)
  /\ UNCHANGED ready /\ Mount
  /\ UNCHANGED <<srv, runtime, fetches, missed>>

\* Cancel, or Save, whose request has nothing to do with the forms.
CloseDialog ==
  /\ \E yes \in BOOLEAN : requestClose(yes)
  /\ UNCHANGED ready /\ Mount
  /\ UNCHANGED <<srv, runtime, actions, fetches, missed>>

\* A step of the form; the effect of the access lists tells the dialog whether they are dirty.
dirty(f) == f.loaded /\ f.shown # f.initial

Render(f, requests) ==
  /\ form' = f /\ reqs' = requests
  /\ wafDirty' = (f # None /\ f.is = "waf" /\ dirty(f))
  /\ UNCHANGED <<open, selectedTab, isProMode, gstAvailable, gstAsked, ready, srv, fetches>>

Act(f, requests) ==
  /\ User /\ Render(f, requests) /\ UNCHANGED <<runtime, told, missed>>

-----------------------------------------------------------------------------
(* The access lists.                                                        *)

AtLists == Is("waf") /\ ~form.loading

TypeList(l, t) ==
  /\ AtLists /\ form.loaded /\ ~form.readOnly /\ t # form.shown[l]
  /\ Act([form EXCEPT !.shown[l] = t], reqs)
  /\ chosen' = chosen \cup {l}

\* loadSettings, after a fetch that failed.
Retry ==
  /\ AtLists /\ ~form.loaded
  /\ Act([form EXCEPT !.loading = TRUE], Sent(reqs, Request("waf", "get", None)))
  /\ UNCHANGED chosen

CanSave(f) == ~f.saving /\ ~f.readOnly /\ dirty(f)

SaveLists ==
  /\ AtLists /\ CanSave(form)
  /\ Act([form EXCEPT !.saving = TRUE], Sent(reqs, Request("waf", "set", form.shown)))
  /\ UNCHANGED chosen

applyResponse(f, data) == [f EXCEPT !.shown = data, !.initial = data, !.readOnly = srv.readOnly, !.loaded = TRUE]

ListsAnswered(f, r) ==
  CASE r.op = "get" /\ r.answer = Failed -> [f EXCEPT !.loaded = FALSE, !.loading = FALSE]
    [] r.op = "get" /\ r.answer # Failed -> [applyResponse(f, r.answer) EXCEPT !.loading = FALSE]
    [] r.op = "set" /\ r.answer \in {Failed, Refused} ->
         [f EXCEPT !.readOnly = @ \/ r.answer = Refused, !.saving = FALSE]
    [] OTHER -> [applyResponse(f, r.answer) EXCEPT !.saving = FALSE]

-----------------------------------------------------------------------------
(* GStreamer.                                                               *)

\* Mutant of updateField: the other fields are those of the empty configuration.
updateEmpty(f, field, value) == [f EXCEPT !.shown = [emptyConfig EXCEPT ![field] = value]]

updateField(f, field, value) == [f EXCEPT !.shown[field] = value]

\* Only digits, dots and commas get into the field; what is not a number then counts as None.
normalizeVersion(v) == IF v = None \/ v < GST_MIN_VERSION THEN GST_MIN_VERSION ELSE v

AtGst == Is("gst") /\ ~form.focus

TypeVersion(v) ==
  /\ Is("gst") /\ v # form.text
  /\ Act([form EXCEPT !.text = v, !.focus = TRUE], reqs)
  /\ UNCHANGED chosen

BlurVersion ==
  /\ Is("gst") /\ form.focus
  /\ LET v == normalizeVersion(form.text)
     IN  Render([updateField(form, "GSTVersion", v) EXCEPT !.text = v, !.focus = FALSE], reqs)
  /\ UNCHANGED <<runtime, actions, chosen, told, missed>>

\* Every other field, be it a number, a text or a choice ...
TypeField(field, n) ==
  /\ AtGst /\ field \notin Flags /\ n # form.shown[field]
  /\ Act(updateField(form, field, n), reqs)
  /\ chosen' = chosen \cup {field}

\* ... and the switches.
SwitchField(field) ==
  /\ AtGst
  /\ Act(updateField(form, field, 1 - form.shown[field]), reqs)
  /\ chosen' = chosen \cup {field}

\* The buttons are disabled while the form saves, but not while it is first fetched.
saveSettings ==
  /\ AtGst /\ ~form.loading
  /\ LET v == normalizeVersion(form.text)
     IN  Act([form EXCEPT !.loading = TRUE, !.text = v],
             Sent(reqs, Request("gst", "set", [form.shown EXCEPT !["GSTVersion"] = v])))
  /\ UNCHANGED chosen

resetToDefaults ==
  /\ AtGst /\ ~form.loading
  /\ Act([form EXCEPT !.loading = TRUE], Sent(reqs, Request("gst", "def", None)))
  /\ chosen' = GstFields

\* setGstreamerSettings, setDefaults and setGstVersionText.
Configured(f, data) == [f EXCEPT !.shown = data, !.text = data["GSTVersion"]]

\* Mutant of ConfigAnswered: the defaults are not fetched into the form.
ConfigNotFetched(f, r) ==
  CASE r.op = "get" /\ r.answer = Failed -> f
    [] r.op = "get" /\ r.answer # Failed -> Configured(f, r.answer)
    [] r.op = "set" /\ r.answer # Failed -> [f EXCEPT !.shown = r.body, !.loading = FALSE]
    [] r.op = "def" /\ r.answer # Failed -> f
    [] OTHER -> [f EXCEPT !.loading = FALSE]

\* Mutant of ConfigAnswered: an error leaves the buttons disabled.
ConfigStuck(f, r) ==
  CASE r.answer \in {Failed, Refused} -> f
    [] r.op = "get" /\ r.answer # Failed -> Configured(f, r.answer)
    [] r.op = "set" /\ r.answer # Failed -> [f EXCEPT !.shown = r.body, !.loading = FALSE]
    [] r.op = "def" /\ r.answer # Failed -> f
    [] OTHER -> [Configured(f, r.answer) EXCEPT !.loading = FALSE]

\* The answers to the first fetch, to a save, to a reset, and to the fetch that follows it.
ConfigAnswered(f, r) ==
  CASE r.op = "get" /\ r.answer = Failed -> f
    [] r.op = "get" /\ r.answer # Failed -> Configured(f, r.answer)
    [] r.op = "set" /\ r.answer # Failed -> [f EXCEPT !.shown = r.body, !.loading = FALSE]
    [] r.op = "def" /\ r.answer # Failed -> f
    [] r.op = "reget" /\ r.answer \notin {Failed, Refused} -> [Configured(f, r.answer) EXCEPT !.loading = FALSE]
    [] OTHER -> [f EXCEPT !.loading = FALSE]

-----------------------------------------------------------------------------
(* The storage of settings and marks.                                       *)

handleStorageChange(s, v) ==
  /\ Is("sto") /\ v # form.shown[s]
  /\ Act([form EXCEPT !.shown[s] = v], reqs)
  /\ chosen' = chosen \cup {s}

\* The button is disabled while the form saves, but not while it is fetched.
AtStorage == Is("sto") /\ ~form.loading

saveStorageSettings ==
  /\ AtStorage
  /\ Act([form EXCEPT !.loading = TRUE], Sent(reqs, Request("sto", "set", form.shown)))
  /\ UNCHANGED chosen

StorageAnswered(f, r) ==
  CASE r.op = "get" /\ r.answer = Failed -> f
    [] r.op = "get" /\ r.answer # Failed -> [f EXCEPT !.shown = r.answer]
    [] OTHER -> [f EXCEPT !.loading = FALSE]

-----------------------------------------------------------------------------
(* What the page knows of GStreamer: useQuery keeps it.  A fetch in          *)
(* progress serves whoever asks for another one.                             *)

Fetching(requests) == \E i \in DOMAIN requests : requests[i].to = "page"

PageFetch == [Request("page", "get", None) EXCEPT !.live = FALSE]

\* Mutant of invalidateQueries: what is known stays in use.
invalidateNothing(requests) == reqs' = requests /\ UNCHANGED <<runtime, missed>>

\* What is known is stale, until a fetch succeeds: one that is running, one that a card which
\* uses it starts at once, or a later one.
invalidateQueries(requests) ==
  /\ runtime' = [runtime EXCEPT !.stale = TRUE]
  /\ \/ reqs' = requests
     \/ fetches > 0 /\ ~Fetching(requests) /\ reqs' = Sent(requests, PageFetch)
  /\ missed' = \E i \in DOMAIN requests : requests[i].to = "page" /\ requests[i].behind

\* The user makes a torrent card appear that finds nothing, or something that is stale by now.
useGStreamerRuntime ==
  /\ User /\ fetches < MaxFetches /\ fetches' = fetches + 1
  /\ ~Fetching(reqs) /\ reqs' = Sent(reqs, PageFetch)
  /\ UNCHANGED <<shell, ready, form, srv, runtime, chosen, told, missed>>

\* An error status is kept like an answer, as unavailableRuntime; a fetch that fails changes nothing.
RuntimeArrives(i) ==
  LET r == reqs[i]
  IN  /\ r.to = "page" /\ r.answer # Pending
      /\ reqs' = Without(reqs, i)
      /\ \/ r.answer = Failed /\ UNCHANGED <<runtime, missed>>
         \/ r.answer = Refused /\ runtime' = [known |-> Unavailable, stale |-> FALSE] /\ UNCHANGED missed
         \/ /\ r.answer \notin {Failed, Refused}
            /\ runtime' = [known |-> r.answer, stale |-> FALSE]
            /\ missed' = (missed /\ r.behind)
      /\ UNCHANGED <<shell, ready, form, srv, actions, fetches, chosen, told>>

-----------------------------------------------------------------------------
(* Answers and the server.                                                  *)

FormAfter(r) ==
  IF ~r.live THEN form
  ELSE CASE r.to = "waf" -> ListsAnswered(form, r)
         [] r.to = "gst" -> ConfigAnswered(form, r)
         [] OTHER -> StorageAnswered(form, r)

\* A form that is filled by a fetch, or has saved, knows what the server has, unless the answer
\* is no longer true or the form still has a change on its way.  A save of the storage does not
\* fill its form, which then differs from what it sent by what was edited meanwhile.
Filled(r, f, others) ==
  /\ told' = /\ ~r.behind
             /\ \A j \in DOMAIN others : others[j].live => others[j].op \notin {"set", "def"}
             /\ r.to = "sto" /\ r.op = "set" => told
  /\ chosen' = IF r.to = "sto" /\ r.op = "set" THEN {g \in chosen : f.shown[g] # r.body[g]} ELSE {}

\* Even when its form is gone a reset goes on to fetch, and a change makes the page fetch again:
\* after a reset also when the fetch gets an error status, but not when it fails.
Answered(i) ==
  LET r == reqs[i]
      ok == r.answer \notin {Failed, Refused}
      others == Without(reqs, i)
      f == FormAfter(r)
  IN  /\ r.to \in Form /\ r.answer # Pending
      /\ form' = f
      /\ wafDirty' = (f # None /\ f.is = "waf" /\ dirty(f))
      /\ CASE ok /\ r.op = "def" -> reqs' = Sent(others, [Request("gst", "reget", None) EXCEPT !.live = r.live])
                                      /\ UNCHANGED <<runtime, missed>>
           [] ok /\ r.to = "gst" /\ r.op = "set" -> invalidateQueries(others)
           [] r.op = "reget" /\ r.answer # Failed -> invalidateQueries(others)
           [] r.op = "reget" /\ r.answer = Failed -> reqs' = others /\ missed' = TRUE /\ UNCHANGED runtime
           [] OTHER -> reqs' = others /\ UNCHANGED <<runtime, missed>>
      /\ IF r.live /\ ok /\ r.op # "def" THEN Filled(r, f, others) ELSE UNCHANGED <<chosen, told>>
      /\ UNCHANGED <<open, selectedTab, isProMode, gstAvailable, gstAsked, ready, srv, actions, fetches>>

\* normalized: numbers that make no sense are replaced.
Normalized(c) == [f \in DOMAIN c |-> IF f \in Positive /\ c[f] = 0 THEN Defaults[f] ELSE c[f]]

Stored(r) ==
  CASE r.to = "waf" -> [l \in Lists |-> Stripped[r.body[l]]]
    [] r.op = "def" -> Defaults
    [] r.to = "gst" /\ r.op = "set" -> Normalized(r.body)
    [] OTHER -> r.body

\* The version of GStreamer is the one that was found, whatever is stored.
Served(s, p) == IF p = "gst" /\ Installed # None THEN [s[p] EXCEPT !["GSTVersion"] = Installed] ELSE s[p]

\* Whose settings a request is about.
About(r) == IF r.to = "page" THEN "gst" ELSE r.to

\* A change puts behind it what was answered before, what is about to be saved, and the form that is
\* mounted, unless it is the form's own.
Overtake(i, p, answer) ==
  reqs' = [j \in DOMAIN reqs |->
             IF j = i THEN [reqs[j] EXCEPT !.answer = answer, !.behind = FALSE]
             ELSE IF srv' # srv /\ About(reqs[j]) = p /\ (reqs[j].answer # Pending \/ reqs[j].op = "set")
                  THEN [reqs[j] EXCEPT !.behind = TRUE]
                  ELSE reqs[j]]

Handle(i) ==
  LET r == reqs[i]
      p == About(r)
      change == r.op \in {"set", "def"}
      refused == change /\ srv.readOnly
  IN  /\ r.answer = Pending
      /\ srv' = IF change /\ ~refused THEN [srv EXCEPT ![p] = Stored(r)] ELSE srv
      /\ \E arrives \in (IF Lossy THEN BOOLEAN ELSE {TRUE}) :
           /\ Overtake(i, p, CASE ~arrives -> Failed
                               [] arrives /\ refused -> IF p = "waf" THEN Refused ELSE Failed
                               [] OTHER -> Served(srv', p))
           /\ missed' = (missed \/ (srv' # srv /\ p = "gst" /\ ~arrives))
      /\ told' = (told /\ (srv' # srv /\ Is(p) => r.live))
      /\ UNCHANGED <<shell, ready, form, runtime, actions, fetches, chosen>>

\* A request gets lost before the server sees it, or something on the way answers with an error
\* status, which is the same to all but two of them.
Lose(i) ==
  /\ Lossy /\ reqs[i].answer = Pending
  /\ \E answer \in (IF reqs[i].to = "page" \/ reqs[i].op = "reget" THEN {Failed, Refused} ELSE {Failed}) :
       reqs' = [reqs EXCEPT ![i].answer = answer]
  /\ UNCHANGED <<shell, ready, form, srv, runtime, actions, fetches, chosen, told, missed>>

-----------------------------------------------------------------------------
Init ==
  /\ ShellInit
  /\ ready = FALSE /\ form = None /\ reqs = [i \in {} |-> None]
  /\ \E r \in ReadOnlys :
       srv = [waf |-> Initial.waf, gst |-> Initial.gst, sto |-> Initial.sto, readOnly |-> r]
  /\ runtime = [known |-> None, stale |-> FALSE]
  /\ actions = 0 /\ fetches = 0
  /\ chosen = {} /\ told = FALSE /\ missed = FALSE

Dialog == OpenDialog \/ SettingsArrive \/ GstIsKnown \/ Navigate \/ CloseDialog

Edit ==
  \/ \E l \in Lists, t \in Texts : TypeList(l, t)
  \/ Retry \/ SaveLists
  \/ \E v \in Versions : TypeVersion(v)
  \/ BlurVersion
  \/ \E f \in GstFields, n \in Numbers : TypeField(f, n)
  \/ \E f \in Flags : SwitchField(f)
  \/ saveSettings \/ resetToDefaults
  \/ \E s \in Stores, v \in {"json", "bbolt"} : handleStorageChange(s, v)
  \/ saveStorageSettings

Answers == \E i \in DOMAIN reqs : Answered(i) \/ RuntimeArrives(i)

Server == \E i \in DOMAIN reqs : Handle(i) \/ Lose(i)

Next == Dialog \/ Edit \/ useGStreamerRuntime \/ Answers \/ Server

Spec == Init /\ [][Next]_vars

\* Requests are handled and answered, or fail: not each of them, but some, as long as there are any.
FairSpec == Spec /\ WF_vars(Answers \/ Server)
-----------------------------------------------------------------------------
(* Properties.                                                              *)

Fields == Lists \cup GstFields \cup Stores

RequestOK(r) ==
  /\ r \in [to : Form \cup {"page"}, op : {"get", "set", "def", "reget"},
            body : {None} \cup Value.waf \cup Value.gst \cup Value.sto, live : BOOLEAN,
            answer : {Pending, Failed, Refused} \cup Value[About(r)],
            chosen : SUBSET Fields, behind : BOOLEAN]
  /\ r.op \in {"def", "reget"} => r.to = "gst"
  /\ r.op = "set" => r.to \in Form /\ r.body \in Value[r.to]
  /\ r.to = "gst" /\ r.op = "set" => r.body["GSTVersion"] >= GST_MIN_VERSION
  /\ r.to = "page" => ~r.live /\ r.op = "get"
  /\ r.answer = Refused => (r.to = "waf" /\ r.op = "set") \/ r.to = "page" \/ r.op = "reget"

TypeOK ==
  /\ ShellTypeOK /\ {ready, told, missed} \subseteq BOOLEAN /\ chosen \subseteq Fields
  /\ srv \in [waf : Value.waf, gst : Value.gst, sto : Value.sto, readOnly : BOOLEAN]
  /\ srv.gst["GSTVersion"] >= GST_MIN_VERSION
  /\ form \in Forms \cup {None}
  /\ DOMAIN reqs \subseteq Nat /\ IsFiniteSet(DOMAIN reqs) /\ \A i \in DOMAIN reqs : RequestOK(reqs[i])
  /\ runtime \in [known : Config \cup {None, Unavailable}, stale : BOOLEAN]
  /\ actions \in 0 .. MaxActions /\ fetches \in 0 .. MaxFetches

\* The dialog asks before it throws edits of the access lists away, and locks its Save, exactly
\* when there are any: it knows of every edit, save and failed save, also of a form that was
\* left or mounted again (WAFSettings.jsx onDirtyChange, SettingsDialog.jsx wafDirty).
DirtyIsKnown == wafDirty <=> (form # None /\ form.is = "waf" /\ dirty(form))

\* A save changes nothing on the server that the user did not change in the form, or reset,
\* although a form sends all of its fields (saveSettings, saveStorageSettings, handleSave of
\* WAFSettings.jsx).  Not so, and so left out as "behind", when the form was not told what the
\* server has: its fetch was not answered yet or failed, was answered before another change,
\* or filled it while it was saving; and when a form that was left before had a change on its
\* way, which reached the server after the form was filled or after it was saved.
NothingUnchosen ==
  [][\A p \in Form : \A f \in DOMAIN srv[p] \ {"GSTVersion"} :
        srv'[p][f] # srv[p][f] =>
          \E i \in DOMAIN reqs \cap DOMAIN reqs' :
             /\ reqs[i].to = p /\ reqs[i].answer = Pending /\ reqs'[i].answer # Pending
             /\ reqs[i].behind \/ f \in reqs[i].chosen]_vars

\* A form that was told shows what the server has wherever the user did not edit it since, with
\* saves and resets on their way, refused or lost (applyResponse, setGstreamerSettings).  It is
\* told by the answer to a fetch, a save or a reset; not by one that the server gave before
\* another change or that comes while it saves, and no longer when a form that was left before
\* changes the server behind it.  The numbers the server replaces are shown as typed, and the
\* version as set.
ShownIsStored ==
  form # None /\ told
    => \A f \in DOMAIN form.shown \ (chosen \cup {"GSTVersion"}) :
          srv[form.is][f] = IF form.is = "gst" THEN Normalized(form.shown)[f] ELSE form.shown[f]

\* The page is about to be told of a change of the GStreamer settings.
Telling(requests) ==
  \E i \in DOMAIN requests :
     /\ requests[i].to = "gst"
     /\ \/ requests[i].op = "reget"
        \/ requests[i].op \in {"set", "def"} /\ requests[i].answer \notin {Pending, Failed, Refused}

\* The page offers to play what the server transcodes, whichever saves and resets there were and
\* however they met its own fetches, as soon as the answer to the change is there and what the page
\* knew is fetched again (utils/GStreamer.js, invalidateQueries in GStreamerSettings.jsx).  Not so,
\* and so left out as "missed", when the answer to a change, or the fetch that follows a reset, fails,
\* and when a fetch was running that had its answer from before the change: the page keeps what it
\* has.  Nor is what it keeps after an error status, Unavailable, anything that the server said.
RuntimeIsFresh ==
  runtime.known \notin {None, Unavailable} /\ ~runtime.stale /\ ~missed /\ ~Telling(reqs)
    => runtime.known = Served(srv, "gst")

\* No form stays locked or empty.
Busy ==
  form # None /\ (IF form.is = "waf" THEN form.loading \/ form.saving ELSE form.loading)

BusyEnds == Busy ~> ~Busy
=============================================================================
