---------------------------- MODULE WebSettings ----------------------------
(***************************************************************************)
(* The settings dialog of the browser interface                            *)
(* (web/src/components/Settings): it copies the settings of the server,    *)
(* changes its copy, and sends all of it back when the user saves.         *)
(*                                                                         *)
(* Three things change the settings of the server or depend on them        *)
(* outside of that copy: the panel of the HTTPS certificate has its own    *)
(* requests, the poster search keeps the TMDB settings it once fetched,    *)
(* and other parts of the page keep the players chosen in localStorage.    *)
(*                                                                         *)
(* A handler, the callback of a promise or of an event is one step; the    *)
(* server handles a request and the page gets the answer in steps of their *)
(* own.                                                                    *)
(***************************************************************************)
EXTENDS SettingsShell, Sequences, SequencesExt

CONSTANTS
  Fields,       \* bound: the settings whose controls the user changes
  Positions,    \* bound: where a slider is dragged to
  Typed,        \* bound: what is typed into the field beside it
  TmdbKeys,     \* bound: the keys of TMDB that are typed
  BuiltIn,      \* the key the page was built with
  Hosts,        \* bound: the Torznab servers that are typed
  Prefs,        \* the switches for the players of this platform
  Initial,      \* the settings of the server at first
  Patient,      \* the user does not save, reset or change settings nor open the dialog while a change
                \* of the certificate runs, nor open it while a save does, nor reset before it has settings
  MaxEdits,     \* bound on what the user does
  None,         \* an empty field, undefined
  Pending       \* in place of an answer that has not come

MB == 1024 * 1024

Sliders == {"CacheSize", "ReaderReadAHead", "PreloadCache"}
Own == {"TMDBSettings", "TorznabUrls", "SslCert"}

\* The controls that go through inputForm, tab by tab: what kind of input each is.
MainControls == [RemoveCacheOnDrop |-> "checkbox", TorrentsSavePath |-> "url"]
SearchControls == [EnableRutorSearch |-> "checkbox", EnableTorznabSearch |-> "checkbox"]
AdditionalControls ==
  [EnableIPv6 |-> "checkbox", DisableTCP |-> "checkbox", DisableUTP |-> "checkbox", DisablePEX |-> "checkbox",
   ForceEncrypt |-> "checkbox", EnableLPD |-> "checkbox", LPDIPv6 |-> "checkbox",
   TorrentDisconnectTimeout |-> "number", ConnectionsLimit |-> "number", DisableDHT |-> "checkbox",
   DownloadRateLimit |-> "number", DisableUpload |-> "checkbox", UploadRateLimit |-> "number",
   PeersListenPort |-> "number", DisableUPNP |-> "checkbox", EnableDebug |-> "checkbox",
   ResponsiveMode |-> "checkbox", MergeAllM3U |-> "checkbox", RetrackersMode |-> "select-one",
   TrackersListURL |-> "url", DefaultTrackers |-> "textarea", EnableDLNA |-> "checkbox",
   EnableBonjour |-> "checkbox", FriendlyName |-> "text", ShowFSActiveTorr |-> "checkbox"]

Controls(types) == UNION {{f \in DOMAIN c : c[f] \in types} : c \in {MainControls, SearchControls, AdditionalControls}}

Numbers == Controls({"number", "select-one"})
Texts == Controls({"url", "text", "textarea"})
\* The switches that show the opposite of a setting, and the others.
Inverted == {"DisableTCP", "DisableUTP", "DisableUPNP", "DisableDHT", "DisablePEX", "DisableUpload"}
Switches == Controls({"checkbox"}) \ Inverted

\* An empty number field is Number('').
Values(f) == IF f \in Numbers THEN {0, 1} ELSE IF f \in Texts THEN {None, "text"} ELSE BOOLEAN

Certs == {"self-signed", "uploaded", "user", "none"}

BTSets(s) ==
  /\ s = [f \in Fields \cup {"UseDisk"} \cup Sliders \cup Own |-> s[f]]
  /\ \A f \in Fields \cup {"UseDisk"} : s[f] \in Values(f) \cup (IF f \in Numbers THEN {25, 30} ELSE {})
  /\ \A f \in Sliders : s[f] \in Nat
  /\ s["TMDBSettings"] \in TmdbKeys \cup {None}
  /\ s["TorznabUrls"] \in Seq(Hosts)
  /\ s["SslCert"] \in Certs

ASSUME SettingsAssumption ==
  /\ Fields \subseteq Inverted \cup Switches \cup Numbers \cup Texts
  /\ BTSets(Initial)
  /\ Positions \in [Sliders -> SUBSET Nat] /\ None \in Typed /\ Typed \subseteq Int \cup {None}
  /\ None # Pending /\ None \notin Int \cup Sliders /\ Pending \notin Certs \cup {"error"}
  /\ Patient \in BOOLEAN /\ MaxEdits \in Nat

VARIABLES
  server,    \* the settings of the server
  d,         \* the state of the dialog, one for every time it is opened
  posts,     \* the settings that were sent and not handled
  runs,      \* requests of the panel of the certificate: a function of their numbers
  cache,     \* tmdbSettingsCache: the key of TMDB in use, None if it is to be fetched
  lookups,   \* requests for it: the answer, and (history) whether it knows nothing of a save
  stored,    \* the players in localStorage
  used,      \* and as the components that show them know them
  edits      \* actions of the user so far

\* History, read by no step.
VARIABLES
  fetched,   \* how what the cache holds was fetched: "answer", "error", or, overtaken by a save, "early"
  untold     \* an answer got lost with which the server would have told the dialog of its new certificate

history == <<fetched, untold>>
vars == <<shell, server, d, posts, runs, cache, lookups, stored, used, edits, history>>

rest == <<server, posts, runs, cache, lookups, stored, used, history>>

-----------------------------------------------------------------------------
(* The dialog.  asked is what the user was shown and then chose, in the     *)
(* terms of the controls; the code keeps no such thing.                     *)

Checked(f, v) == IF f \in Inverted THEN ~v ELSE v

Asked(s) == [f \in DOMAIN s |-> Checked(f, s[f])]

\* useState: sliders have values of their own, the players are those of localStorage.
Closed ==
  [settings |-> None, got |-> None, asked |-> <<>>, focus |-> None, prefs |-> [p \in Prefs |-> FALSE],
   slider |-> [f \in Sliders |-> CASE f = "CacheSize" -> 32 [] f = "ReaderReadAHead" -> 40 [] OTHER -> 0],
   host |-> None, test |-> None, ssl |-> None]

DefaultOf(f) ==
  CASE f = "CacheSize" -> 64 [] f = "ReaderReadAHead" -> 95 [] f = "PreloadCache" -> 50
    [] f = "TorrentDisconnectTimeout" -> 30 [] f = "ConnectionsLimit" -> 25 [] f = "RetrackersMode" -> 1
    [] f \in {"EnableLPD", "EnableBonjour", "ResponsiveMode", "ShowFSActiveTorr"} -> TRUE
    [] f = "DefaultTrackers" -> "text" [] f \in Texts \ {"DefaultTrackers"} -> None [] f = "SslCert" -> "none" [] f \in Numbers -> 0 [] OTHER -> FALSE

defaultSettings ==
  [f \in (Fields \ {"EnableTorznabSearch"}) \cup {"UseDisk"} \cup Sliders \cup {"SslCert"} |-> DefaultOf(f)]

\* setSettings; the effect on the three sizes runs when one of them changed.
Sizes(s) == IF s = None THEN None ELSE [f \in Sliders |-> s[f]]

setSettings(r, s) ==
  [r EXCEPT !.settings = s, !.slider = IF Sizes(s) = Sizes(r.settings) THEN @ ELSE Sizes(s)]

\* { ...s, ...t }, of an object that may be undefined yet, and { [f]: v }.
Entries(s) == IF s = None THEN <<>> ELSE s

Spread(s, t) ==
  [f \in DOMAIN Entries(s) \cup DOMAIN t |-> IF f \in DOMAIN t THEN t[f] ELSE Entries(s)[f]]

Only(f, v) == [g \in {f} |-> v]

updateSettings(r, newProps) ==
  [setSettings(r, Spread(r.settings, newProps)) EXCEPT !.asked = Spread(@, Asked(newProps))]

\* Mutant of inputForm: the switches that show the opposite store what they show.
inputFormAsIs(r, f, v) ==
  [setSettings(r, Spread(r.settings, Only(f, v))) EXCEPT !.asked = Spread(@, Only(f, v))]

\* The control f shows v now.
inputForm(r, f, v) ==
  [setSettings(r, Spread(r.settings, Only(f, Checked(f, v)))) EXCEPT !.asked = Spread(@, Only(f, v))]

\* A user with moves left at a control that another tab hides.
User == edits < MaxEdits /\ edits' = edits + 1 /\ UNCHANGED shell

\* A change of the certificate is on its way.
Changing == \E i \in DOMAIN runs : runs[i].op # "status"

At(tab) ==
  /\ Mounted(tab) /\ d.settings # None /\ d.focus = None
  /\ Patient => ~Changing
  /\ User

\* The panel of the certificate comes and goes with its tab: it fetches the status, and loses
\* its state, but not its requests, whose answers still reach the dialog of their time.
SslPanel == [status |-> None, path |-> FALSE, files |-> FALSE, busy |-> FALSE]

Request(op, settings) == [op |-> op, base |-> settings, panel |-> TRUE, dialog |-> TRUE, answer |-> Pending]

\* The next state of the dialog and of its requests.  The answer to a question for the status
\* means nothing once the panel is gone.
Render(r, requests) ==
  LET shown == open' /\ selectedTab' = tabAdditional /\ r.settings # None
      left == [i \in {j \in DOMAIN requests : requests[j].op # "status"} |->
                 [requests[i] EXCEPT !.panel = FALSE, !.dialog = @ /\ open']]
  IN  IF shown = (d.ssl # None)
      THEN d' = r /\ runs' = IF open' THEN requests ELSE left
      ELSE /\ d' = [r EXCEPT !.ssl = IF shown THEN SslPanel ELSE None]
           /\ runs' = IF shown THEN Sent(requests, Request("status", None)) ELSE left

Close(yes) == requestClose(yes) /\ Render(Closed, runs)

OpenDialog ==
  /\ Patient => ~Changing /\ posts = <<>>
  /\ edits < MaxEdits /\ edits' = edits + 1
  /\ handleClickOpen
  /\ d' = [Closed EXCEPT !.got = Pending, !.prefs = stored]
  /\ UNCHANGED rest

Cancel ==
  /\ \E yes \in BOOLEAN : Close(yes)
  /\ UNCHANGED <<server, posts, cache, lookups, stored, used, edits, history>>

\* Where the tabs and the Pro mode lead is the business of the frame.
Navigate ==
  /\ d.focus = None
  /\ \/ edits < MaxEdits /\ edits' = edits + 1 /\ SwitchProMode
     \/ UNCHANGED edits /\ \E i \in Visited, yes \in BOOLEAN : handleChange(i, yes) \/ handleChangeIndex(i, yes)
  /\ Render(d, runs)
  /\ UNCHANGED <<server, posts, cache, lookups, stored, used, history>>

\* The settings arrive: the size of the cache in megabytes, and the sliders follow.
SettingsArrive ==
  /\ open /\ d.got \notin {Pending, None}
  /\ UNCHANGED <<shell, server, posts, cache, lookups, stored, used, edits, history>>
  /\ LET s == [d.got EXCEPT !["CacheSize"] = @ \div MB]
         r == setSettings(d, s)
     IN  Render([r EXCEPT !.got = None, !.asked = Spread(Asked(s), r.slider)], runs)

\* Mutant of clearTMDBCache: the settings that were fetched stay.
clearNothing == cache' = cache

clearTMDBCache == cache' = None

Payload ==
  LET size == IF d.slider["CacheSize"] = None THEN 0 ELSE d.slider["CacheSize"]
  IN  Spread(d.settings, [f \in Sliders |-> IF f = "CacheSize" THEN size * MB ELSE d.slider[f]])

StorePlayers == stored' = d.prefs /\ used' = stored'

\* Nothing is saved, and an error thrown, before the settings arrived.  The posters are looked
\* up with fresh settings from now on, although the server has not got these yet.
handleSave ==
  /\ SaveEnabled /\ d.focus = None
  /\ Patient => ~Changing
  /\ \E yes \in BOOLEAN : Close(yes)
  /\ IF d.settings = None THEN UNCHANGED <<posts, cache, lookups, stored, used>>
     ELSE /\ posts' = Append(posts, [sets |-> Payload, asked |-> d.asked])
          /\ clearTMDBCache
          /\ lookups' = [i \in DOMAIN lookups |->
                          [lookups[i] EXCEPT !.early = @ \/ lookups[i].answer # Pending]]
          /\ StorePlayers
  /\ UNCHANGED <<server, edits, history>>

\* Reset works on whatever there is, also before the settings arrived.
ResetToDefault ==
  /\ open /\ d.focus = None /\ User
  /\ Patient => ~Changing /\ d.got = None
  /\ Render(updateSettings([d EXCEPT !.slider = Sizes(defaultSettings)], defaultSettings), runs)
  /\ clearTMDBCache
  /\ UNCHANGED <<server, posts, lookups, stored, used, history>>

-----------------------------------------------------------------------------
(* The panels.                                                              *)

\* A setting that the defaults do not name, or that a request does not.
Absent(f) == IF f = "TorznabUrls" THEN <<>> ELSE IF f = "TMDBSettings" THEN None ELSE FALSE

Setting(f) == IF f \in DOMAIN d.settings THEN d.settings[f] ELSE Absent(f)

TabOf(f) ==
  CASE f \in DOMAIN MainControls -> tabMain
    [] f \in DOMAIN SearchControls -> tabSearch
    [] f \in DOMAIN AdditionalControls -> tabAdditional

\* Controls that are not there, and one that is disabled.
Shown(f) == f \in DOMAIN MainControls => Setting("UseDisk")

Active(f) == f = "LPDIPv6" => "EnableLPD" \notin Fields \/ Setting("EnableLPD")

Change(f, v) ==
  /\ At(TabOf(f)) /\ Shown(f) /\ Active(f)
  /\ v # Checked(f, Setting(f))
  /\ Render(inputForm(d, f, v), runs)
  /\ UNCHANGED <<server, posts, cache, lookups, stored, used, history>>

Toggle(f) == f \in Switches \cup Inverted /\ \E v \in BOOLEAN : Change(f, v)

TypeNumber(f) == f \in Numbers /\ \E v \in Values(f) : Change(f, v)

TypeText(f) == f \in Texts /\ \E v \in Values(f) : Change(f, v)

\* The two buttons for the storage of the cache.
PickStorage ==
  /\ At(tabMain)
  /\ Render(updateSettings(d, Only("UseDisk", ~Setting("UseDisk"))), runs)
  /\ UNCHANGED <<server, posts, cache, lookups, stored, used, history>>

Slide(f, v) ==
  /\ At(tabMain) /\ v # d.slider[f]
  /\ Render([d EXCEPT !.slider[f] = v, !.asked[f] = v], runs)
  /\ UNCHANGED <<server, posts, cache, lookups, stored, used, history>>

\* The field beside a slider, in Pro mode; it is corrected when it is left.
TypeSize(f, v) ==
  /\ At(tabMain) /\ isProMode /\ v # d.slider[f]
  /\ Render([d EXCEPT !.slider[f] = v, !.asked[f] = v, !.focus = f], runs)
  /\ UNCHANGED <<server, posts, cache, lookups, stored, used, history>>

inputMin(f) == IF f = "CacheSize" THEN 32 ELSE 0
inputMax(f) == IF f = "CacheSize" THEN 999999 ELSE 100

\* An empty field counts as 0, so it stays empty where 0 is allowed.  Math.round(value / 4) * 4
\* for the size of the cache.
Corrected(f, v) ==
  LET n == IF v = None THEN 0 ELSE v
  IN  IF n < inputMin(f) THEN inputMin(f)
      ELSE IF n > inputMax(f) THEN inputMax(f)
      ELSE IF f = "CacheSize" THEN ((n + 2) \div 4) * 4 ELSE v

onBlur ==
  /\ open /\ d.focus # None
  /\ UNCHANGED shell
  /\ LET f == d.focus
         v == Corrected(f, d.slider[f])
     IN  Render([d EXCEPT !.slider[f] = v, !.asked[f] = v, !.focus = None], runs)
  /\ UNCHANGED <<server, posts, cache, lookups, stored, used, edits, history>>

\* Every field of the TMDB settings goes through the same handler; the key stands for all.
TypeTmdb(k) ==
  /\ At(tabApp) /\ k # Setting("TMDBSettings")
  /\ Render(updateSettings(d, Only("TMDBSettings", k)), runs)
  /\ UNCHANGED <<server, posts, cache, lookups, stored, used, history>>

\* The players are kept beside the settings until the user saves.
TogglePlayer(p) ==
  /\ At(tabApp)
  /\ p = "showQuickVlcButton" => d.prefs["isVlcUsed"]
  /\ Render([d EXCEPT !.prefs[p] = ~@], runs)
  /\ UNCHANGED <<server, posts, cache, lookups, stored, used, history>>

\* A Torznab server: its fields, its test and the list.  All of it is disabled with the search.
TorznabAt == At(tabSearch) /\ ("EnableTorznabSearch" \in Fields => Setting("EnableTorznabSearch"))

Torznab(r) == Render(r, runs) /\ UNCHANGED <<server, posts, cache, lookups, stored, used, history>>

TypeHost(h) == TorznabAt /\ h # d.host /\ Torznab([d EXCEPT !.host = h])

AddHost ==
  /\ TorznabAt /\ d.host # None
  /\ Torznab([updateSettings(d, Only("TorznabUrls", Append(Setting("TorznabUrls"), d.host))) EXCEPT !.host = None])

DeleteHost(i) ==
  /\ TorznabAt /\ i \in DOMAIN Setting("TorznabUrls")
  /\ Torznab(updateSettings(d, Only("TorznabUrls", RemoveAt(Setting("TorznabUrls"), i))))

TestHost == TorznabAt /\ d.host # None /\ d.test # "testing" /\ Torznab([d EXCEPT !.test = "testing"])

\* The result is shown whatever is in the fields by now.
TestAnswered ==
  /\ open /\ d.test = "testing" /\ UNCHANGED <<shell, edits>>
  /\ \E result \in {"ok", "failed"} : Torznab([d EXCEPT !.test = result])

-----------------------------------------------------------------------------
(* The certificate.  Its two files and its two paths stand for themselves   *)
(* and for each other.                                                      *)

\* The server runs with --ssl and may change its certificate.
SslAt == At(tabAdditional) /\ d.ssl # None /\ d.ssl.status # None /\ ~d.ssl.busy

Ssl(panel, requests) ==
  Render([d EXCEPT !.ssl = panel], requests) /\ UNCHANGED <<server, posts, cache, lookups, stored, used, history>>

TypePath == SslAt /\ Ssl([d.ssl EXCEPT !.path = ~@], runs)

ChooseFiles == SslAt /\ ~d.ssl.files /\ Ssl([d.ssl EXCEPT !.files = TRUE], runs)

Enabled(op) ==
  \/ op = "regenerate" /\ d.ssl.status = "self-signed"
  \/ op = "selfsigned" /\ d.ssl.status # "self-signed"
  \/ op = "upload" /\ d.ssl.files
  \/ op = "paths" /\ d.ssl.path

\* The callback keeps the settings of the render in which the button was clicked.
Run(op) ==
  SslAt /\ Enabled(op) /\ Ssl([d.ssl EXCEPT !.busy = TRUE], Sent(runs, Request(op, d.settings)))

\* Mutant of applyStatus: the panel alone learns of the new certificate.
applyStatusHere(r, request) ==
  IF r.ssl = None \/ ~request.panel THEN r
  ELSE [r EXCEPT !.ssl.status = request.answer, !.ssl.path = request.answer = "user"]

\* After a change the dialog's copy of the paths follows, in the settings that run remembers.
applyStatus(r, request) ==
  LET p == IF r.ssl = None \/ ~request.panel THEN r
           ELSE [r EXCEPT !.ssl.status = request.answer, !.ssl.path = request.answer = "user"]
  IN  IF request.op = "status" THEN p
      ELSE [setSettings(p, Spread(request.base, Only("SslCert", request.answer)))
              EXCEPT !.asked["SslCert"] = request.answer]

\* Mutant of Done: an error leaves the panel busy.
DoneUnlessFailed(r, request) ==
  IF r.ssl = None \/ ~request.panel \/ request.op = "status" \/ request.answer = "error" THEN r
  ELSE [r EXCEPT !.ssl.busy = FALSE, !.ssl.files = @ /\ request.op # "upload"]

\* The end of run, and of upload, which forgets the files that were uploaded.
Done(r, request) ==
  LET uploaded == request.op = "upload" /\ request.answer # "error"
  IN  IF r.ssl = None \/ ~request.panel \/ request.op = "status" THEN r
      ELSE [r EXCEPT !.ssl.busy = FALSE, !.ssl.files = @ /\ ~uploaded]

RunAnswered(i) ==
  /\ runs[i].answer # Pending
  /\ UNCHANGED <<shell, server, posts, cache, lookups, stored, used, edits, fetched>>
  /\ untold' = (untold /\ ~(runs[i].op # "status" /\ runs[i].answer # "error" /\ runs[i].dialog))
  /\ LET r == IF runs[i].answer = "error" \/ ~runs[i].dialog THEN d ELSE applyStatus(d, runs[i])
     IN  Render(Done(r, runs[i]), Without(runs, i))

-----------------------------------------------------------------------------
(* The server, the posters and the players.                                 *)

SettingsRead ==
  /\ open /\ d.got = Pending
  /\ \E answer \in {server, None} : d' = [d EXCEPT !.got = answer]
  /\ untold' = FALSE
  /\ UNCHANGED <<shell, server, posts, runs, cache, lookups, stored, used, edits, fetched>>

\* What SetBTSets replaces by a default, and what a field that is not sent decodes to.
Failsafe(s) ==
  [f \in DOMAIN Initial |->
     IF f \notin DOMAIN s THEN Absent(f)
     ELSE CASE f = "CacheSize" /\ s[f] = 0 -> 64 * MB
            [] f = "ConnectionsLimit" /\ s[f] = 0 -> 25
            [] f = "TorrentDisconnectTimeout" /\ s[f] = 0 -> 30
            [] f = "ReaderReadAHead" /\ s[f] < 5 -> 5
            [] f = "ReaderReadAHead" /\ s[f] > 100 -> 100
            [] f = "PreloadCache" /\ s[f] > 100 -> 100
            [] f = "UseDisk" /\ "TorrentsSavePath" \in DOMAIN s /\ s["TorrentsSavePath"] = None -> FALSE
            [] OTHER -> s[f]]

\* A request whose numbers are not numbers is refused as a whole; nobody looks at the answer.
SettingsSet(i) ==
  /\ posts' = RemoveAt(posts, i)
  /\ server' \in {server} \cup (IF \E f \in Sliders : posts[i].sets[f] = None THEN {} ELSE {Failsafe(posts[i].sets)})
  /\ UNCHANGED <<shell, d, runs, cache, lookups, stored, used, edits, history>>

\* The requests for the certificate; an answer may get lost.
CertAfter(op) ==
  CASE op = "upload" -> "uploaded" [] op = "paths" -> "user" [] op = "status" -> server["SslCert"]
    [] OTHER -> "self-signed"

RunHandled(i) ==
  /\ runs[i].answer = Pending
  /\ \E ok \in BOOLEAN, arrives \in BOOLEAN :
        /\ ok /\ runs[i].op = "regenerate" => server["SslCert"] = "self-signed"
        /\ server' = IF ok THEN [server EXCEPT !["SslCert"] = CertAfter(runs[i].op)] ELSE server
        /\ runs' = [runs EXCEPT ![i].answer = IF ok /\ arrives THEN CertAfter(runs[i].op) ELSE "error"]
        /\ untold' = (untold \/ (ok /\ ~arrives /\ runs[i].op # "status"))
  /\ UNCHANGED <<shell, d, posts, cache, lookups, stored, used, edits, fetched>>

\* getTMDBSettings, for a search of posters from the dialog that adds torrents.
SearchPosters ==
  /\ ~open /\ edits < MaxEdits /\ edits' = edits + 1
  /\ cache = None
  /\ lookups' = Sent(lookups, [answer |-> Pending, early |-> FALSE])
  /\ UNCHANGED <<shell, server, d, posts, runs, cache, stored, used, history>>

\* It knows nothing of the saves that are on their way to it.
LookupHandled(i) ==
  /\ lookups[i].answer = Pending
  /\ \E answer \in {server["TMDBSettings"], "error"} :
       lookups' = [lookups EXCEPT ![i] = [answer |-> answer, early |-> posts # <<>>]]
  /\ UNCHANGED <<shell, server, d, posts, runs, cache, stored, used, edits, history>>

\* An error counts as settings without a key, and is kept like any other answer.
mergeTMDBSettings(key) == IF key \in {None, "error"} THEN BuiltIn ELSE key

LookupArrives(i) ==
  /\ lookups[i].answer # Pending
  /\ cache' = mergeTMDBSettings(lookups[i].answer)
  /\ fetched' = IF lookups[i].early THEN "early" ELSE IF lookups[i].answer = "error" THEN "error" ELSE "answer"
  /\ lookups' = Without(lookups, i)
  /\ UNCHANGED <<shell, server, d, posts, runs, stored, used, edits, untold>>

\* Another window of the browser changes a player: the storage event tells this one.
OtherWindow(p) ==
  /\ edits < MaxEdits /\ edits' = edits + 1
  /\ stored' = [stored EXCEPT ![p] = ~@]
  /\ used' = stored'
  /\ UNCHANGED <<shell, server, d, posts, runs, cache, lookups, history>>

Init ==
  /\ ShellInit
  /\ server = Initial /\ d = Closed /\ posts = <<>> /\ runs = <<>>
  /\ cache = None /\ lookups = <<>>
  /\ stored = [p \in Prefs |-> FALSE] /\ used = stored
  /\ edits = 0
  /\ fetched = "answer" /\ untold = FALSE

Edit ==
  \/ \E f \in Fields : Toggle(f) \/ TypeNumber(f) \/ TypeText(f)
  \/ PickStorage
  \/ \E f \in Sliders : \E v \in Positions[f] : Slide(f, v)
  \/ \E f \in Sliders, v \in Typed : TypeSize(f, v)
  \/ \E k \in TmdbKeys \cup {None} : TypeTmdb(k)
  \/ \E p \in Prefs : TogglePlayer(p)
  \/ \E h \in Hosts : TypeHost(h)
  \/ AddHost \/ TestHost
  \/ d.settings # None /\ \E i \in DOMAIN Setting("TorznabUrls") : DeleteHost(i)
  \/ TypePath \/ ChooseFiles
  \/ \E op \in {"regenerate", "selfsigned", "upload", "paths"} : Run(op)
  \/ onBlur

Answers ==
  \/ SettingsArrive \/ TestAnswered
  \/ \E i \in DOMAIN runs : RunAnswered(i)
  \/ \E i \in DOMAIN lookups : LookupArrives(i)

Server ==
  \/ SettingsRead
  \/ \E i \in DOMAIN posts : SettingsSet(i)
  \/ \E i \in DOMAIN runs : RunHandled(i)
  \/ \E i \in DOMAIN lookups : LookupHandled(i)

Next ==
  \/ OpenDialog \/ Cancel \/ Navigate \/ handleSave \/ ResetToDefault
  \/ Edit \/ Answers \/ Server
  \/ SearchPosters
  \/ \E p \in Prefs : OtherWindow(p)

Spec == Init /\ [][Next]_vars

\* Requests are handled and answered, or fail, and the field that has the focus loses it.
Fairness ==
  /\ WF_vars(\E i \in DOMAIN runs : RunAnswered(i))
  /\ WF_vars(Server)

FairSpec == Spec /\ Fairness
-----------------------------------------------------------------------------
(* Properties.                                                              *)

TypeOK ==
  /\ ShellTypeOK
  /\ BTSets(server)
  /\ d.focus \in Sliders \cup {None}
  /\ d.test \in {None, "testing", "ok", "failed"}
  /\ ~open => d = Closed
  /\ (d.ssl # None) <=> (Mounted(tabAdditional) /\ d.settings # None)
  /\ {stored, used, d.prefs} \subseteq [Prefs -> BOOLEAN]
  /\ cache \in TmdbKeys \cup {BuiltIn, None}
  /\ fetched \in {"answer", "error", "early"} /\ untold \in BOOLEAN
  /\ edits \in 0 .. MaxEdits

\* A save sends every setting as the user last chose it, or as it was when the dialog was
\* opened: through the switches that show the opposite, the sliders with values of their own,
\* the megabytes, a reset and a change of the certificate (SettingsDialog.jsx handleSave).
SavesWhatWasAsked ==
  \A i \in DOMAIN posts : \A f \in DOMAIN posts[i].asked :
     posts[i].asked[f] = IF f = "CacheSize" THEN posts[i].sets[f] \div MB ELSE Checked(f, posts[i].sets[f])

\* A save does not revert a change of the certificate; only a reset takes it away.  The user
\* waits for requests (Patient), and the last answer with a new certificate came: if it got lost,
\* the dialog keeps the old one, and its save puts that back (HTTPSSettings.jsx run, applyStatus).
CertIsKept ==
  [][Len(posts') < Len(posts) /\ ~untold => server'["SslCert"] \in {server["SslCert"], "none"}]_vars

\* Posters are looked up with the key of TMDB that the server has, or, if and only if the server
\* could not be asked, with the one of the page.  It is an old one only if the server answered
\* before it had a save that was clicked before the answer arrived, or was on its way when it
\* answered: the dialog does not wait for its own save to forget the key (Add/helpers.js,
\* SettingsDialog.jsx handleSave).
TmdbIsFresh ==
  cache # None /\ fetched # "early" =>
    cache = IF fetched = "error" THEN BuiltIn ELSE mergeTMDBSettings(server["TMDBSettings"])

\* The panel of the certificate does not stay locked (HTTPSSettings.jsx run).
SslUnlocks == (d.ssl # None /\ d.ssl.busy) ~> (d.ssl = None \/ ~d.ssl.busy)
=============================================================================
