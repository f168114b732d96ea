---------------------------- MODULE WebAddDialog ----------------------------
(***************************************************************************)
(* The dialog of the browser interface that adds a torrent or edits one    *)
(* (web/src/components/Add).  A user types a source, a title, a poster;    *)
(* the dialog looks the source up, searches posters for its name, and, once *)
(* saved, waits until the polled list of torrents shows the new one.       *)
(*                                                                         *)
(* JavaScript is single threaded: an event handler, the callback of a      *)
(* promise or a timer is one step, and the effects that its changes of     *)
(* state trigger run before the next one.  Between two steps are the       *)
(* answers of the network and of the server, which no handler cancels.     *)
(***************************************************************************)
EXTENDS WebMultiAddDialog

CONSTANTS
  Source,       \* what a user may type as the source of a torrent
  Link,         \* the sources that are http(s) links: looked up over the network
  Wrong,        \* the sources that checkTorrentSource refuses
  HashOf,       \* the hash parse-torrent finds in a source, or None
  NameOf,       \* the name it finds, or None
  Title,        \* titles a user may type
  Drops,        \* bound: the lists of torrent files that are dropped
  InOrder,      \* whether the answers of the network arrive in the order of their requests
  MaxEdits,     \* bound on what the user does
  MaxInList     \* the same, once files were dropped

Names == Title \cup ({NameOf[s] : s \in Source} \ {None})

\* A poster is known by the title it was found for.
Posters == Names \cup {Picked}

ASSUME SourceAssumption ==
  /\ Link \subseteq Source /\ Wrong \subseteq Source /\ Link \cap Wrong = {}
  /\ HashOf \in [Source -> Hash \cup {None}]
  /\ None \notin Source \cup Hash \cup Title \cup {Picked}
  /\ Drops \subseteq Seq(File) \ {<<>>}
  /\ InOrder \in BOOLEAN /\ {MaxEdits, MaxInList} \subseteq Nat

VARIABLES
  open,       \* the dialog that its parent renders: "add", "edit" or None
  d,          \* the state of the dialog: its useState hooks, requests and timers
  posts,      \* saves on their way; they outlive the dialog
  server,     \* the hashes the server holds
  torrents,   \* the list of the last poll
  edits       \* actions of the user so far

vars == <<open, d, posts, server, torrents, edits, multiVars>>

Lookup == [kind : {"hash", "name"}, of : Link]
Search == [kind : {"posters"}, of : Names, refresh : BOOLEAN, chosen : BOOLEAN]
Post   == [kind : {"add"}, of : Source \ Wrong] \cup [kind : {"edit"}, of : Hash]

Dialog ==
  [source : Source \cup Hash \cup {None}, hash : Hash \cup {None}, exists : BOOLEAN,
   correct : BOOLEAN, title : Names \cup {None}, original : BOOLEAN,
   parsed : Names \cup {None}, custom : BOOLEAN, poster : Posters \cup {None},
   posterOk : BOOLEAN, list : Names \cup {None}, chosen : BOOLEAN, skip : BOOLEAN,
   saving : BOOLEAN, timers : [BOOLEAN -> Names \cup {None}], fetches : Seq(Lookup \cup Search),
   revoked : BOOLEAN]  \* history: a choice of a poster was taken back while requests were on their way

TypeOK ==
  /\ open \in {"add", "edit", None}
  /\ d \in Dialog
  /\ posts \subseteq Post
  /\ server \subseteq Hash
  /\ torrents \subseteq Hash
  /\ edits \in 0 .. MaxEdits
  /\ MultiTypeOK

-----------------------------------------------------------------------------
(* Helpers: what the functions of the component do to its state.            *)

\* usePreviousState holds the value of the first render, so mounting changes nothing.
Mounted ==
  [source |-> None, hash |-> None, exists |-> FALSE, correct |-> FALSE, title |-> None,
   original |-> FALSE, parsed |-> None, custom |-> FALSE, poster |-> None, posterOk |-> FALSE,
   list |-> None, chosen |-> FALSE, skip |-> FALSE, saving |-> FALSE,
   timers |-> [c \in BOOLEAN |-> None], fetches |-> <<>>, revoked |-> FALSE]

Either(a, b) == IF a # None THEN a ELSE b

\* A source is a hash, a magnet, a link, a path of a torrent file or torrs://.
checkTorrentSource(s) == s \notin Wrong \cup {None}

\* The expression has an empty alternative: every URL that is not empty passes.
checkImageURL(p) == p # None

\* A request that repeats the last one (an effect that ran twice) is not told apart from it.
Fetch(s, f) ==
  IF s.fetches # <<>> /\ Last(s.fetches) = f THEN s ELSE [s EXCEPT !.fetches = Append(@, f)]

removePoster(s) == [s EXCEPT !.posterOk = FALSE, !.poster = None]

\* The search remembers isUserInteractedWithPoster of the render that made posterSearch.
posterSearch(s, q, refresh, chosen) ==
  IF q = None THEN removePoster([s EXCEPT !.list = None])
  ELSE Fetch(s, [kind |-> "posters", of |-> q, refresh |-> refresh, chosen |-> chosen])

\* Mutant of SearchForTitle: emptying the title does not cancel the search for what was typed.
SearchWithoutCancel(s) ==
  IF s.title # None THEN [s EXCEPT !.timers[s.chosen] = s.title]
  ELSE IF s.parsed # None THEN posterSearch(s, s.parsed, FALSE, s.chosen)
  ELSE IF s.chosen THEN s ELSE removePoster(s)

\* The effect on the title, after it changed (or not: then another of its inputs did).
\* A debounced search belongs to the posterSearch it was made from; only the timer of the
\* current one can be cancelled.
SearchForTitle(s) ==
  IF s.title # None THEN [s EXCEPT !.timers[s.chosen] = s.title]
  ELSE LET c == [s EXCEPT !.timers[s.chosen] = None]
       IN  IF s.parsed # None THEN posterSearch(c, s.parsed, FALSE, s.chosen)
           ELSE IF s.chosen THEN c ELSE removePoster(c)

TitleEffect(s, changed) ==
  IF ~changed /\ s.parsed = None THEN s
  ELSE IF ~s.skip THEN SearchForTitle(s)
  ELSE LET r == [posterSearch(s, Either(s.title, s.parsed), FALSE, s.chosen) EXCEPT !.skip = FALSE]
       IN  IF r.parsed = None THEN r ELSE SearchForTitle(r)

\* parseTorrentTitle answered: outside of an event every set renders, and the effect of one
\* runs before the next.
TitleFromSource(s, name) ==
  IF name = None THEN s
  ELSE LET s1 == TitleEffect([s EXCEPT !.skip = TRUE], FALSE)
           s2 == TitleEffect([s1 EXCEPT !.title = None], s1.title # None)
       IN  TitleEffect([s2 EXCEPT !.custom = FALSE, !.original = TRUE, !.parsed = name], FALSE)

updateTitleFromSource(s) ==
  IF s.source \in Link THEN Fetch(s, [kind |-> "name", of |-> s.source])
  ELSE TitleFromSource(s, IF s.source \in Source THEN NameOf[s.source] ELSE None)

\* The answer of getMoviePosters: FALSE for none (no key, an error), else a list that starts
\* with p (None: it is empty).
ShowPosters(s, f, found, p) ==
  LET listed == [s EXCEPT !.list = IF found /\ p # None THEN f.of ELSE None]
  IN  IF f.chosen /\ ~(found /\ f.refresh) THEN listed
      ELSE IF found /\ p # None THEN [listed EXCEPT !.posterOk = TRUE, !.poster = p]
      ELSE removePoster(listed)

\* The search for what the fields show, as the two poster buttons ask for it.
FixedTitle(s) == IF s.custom \/ ~s.original THEN s.title ELSE s.parsed

\* The effects on the hash and the polled list.
ExistsEffect(s, listed) == IF s.hash = None THEN s ELSE [s EXCEPT !.exists = s.hash \in listed]
\* Mutant of Saved: only links close the dialog, the hash is left to the answer of the server.
SavedLink(s, listed) == s.saving /\ s.source \in Link

Saved(s, listed) == s.saving /\ (s.hash \in listed \/ s.source \in Link)

\* Nothing is on its way that the dialog asked for.
AtRest == d.fetches = <<>> /\ \A c \in BOOLEAN : d.timers[c] = None

\* Rendering the new state: a dialog that is done asks its parent to close it, and an
\* unmounted one forgets its state, its requests and its timers.
Render(s, listed) ==
  LET r == ExistsEffect(s, listed)
  IN  IF open = None \/ Saved(r, listed)
      THEN open' = None /\ d' = Mounted
      ELSE open' = open /\ d' = [r EXCEPT !.revoked = @ \/ (d.chosen /\ ~r.chosen /\ ~AtRest)]

\* A user who still has moves left.
Moves == open # None /\ edits < MaxEdits /\ edits' = edits + 1

User == Moves /\ rows = None

Lists == Moves /\ edits < MaxInList

\* The list of dropped files is inside the dialog, and goes with it.
Shut == UNCHANGED uploads /\ IF open' = open THEN UNCHANGED <<rows, asks, mixed>> ELSE NoRows

\* RightSideComponent hides its fields, and the button is disabled, for a source that is
\* wrong or listed.
FieldsShown == d.correct /\ (~d.exists \/ open = "edit")
-----------------------------------------------------------------------------
(* The user.                                                                *)

OpenAdd ==
  /\ open = None /\ edits < MaxEdits /\ edits' = edits + 1
  /\ open' = "add" /\ d' = Mounted
  /\ UNCHANGED <<posts, server, torrents>>

\* A poster is searched once for a torrent without one.
AutoSearch(m) ==
  IF m.poster # None \/ m.parsed = None THEN m
  ELSE posterSearch(m, Either(m.title, m.parsed), TRUE, TRUE)

\* Edit mode: title and poster are those of the torrent, the title to search its name.
EditMounted(h, name, title, poster) ==
  [Mounted EXCEPT !.source = h, !.hash = h, !.exists = TRUE, !.correct = TRUE, !.chosen = TRUE,
                  !.title = title, !.original = Either(name, title) # None,
                  !.parsed = Either(name, title), !.poster = poster,
                  !.posterOk = checkImageURL(poster)]

OpenEdit(h, name, title, poster) ==
  /\ open = None /\ edits < MaxEdits /\ edits' = edits + 1
  /\ h \in torrents
  /\ open' = "edit"
  /\ d' = TitleEffect(AutoSearch(EditMounted(h, name, title, poster)), FALSE)
  /\ UNCHANGED <<posts, server, torrents>>

\* The effects on the source: the hash is looked up whatever was typed, ...
LookUpHash(s) ==
  IF s.source \in Link THEN Fetch(s, [kind |-> "hash", of |-> s.source])
  ELSE [s EXCEPT !.hash = IF checkTorrentSource(s.source) THEN HashOf[s.source] ELSE None]

\* ... an empty field clears the dialog, but for isHashAlreadyExists, ...
ClearSource(s) ==
  removePoster([s EXCEPT !.title = None, !.original = FALSE, !.parsed = None,
                         !.custom = FALSE, !.list = None, !.chosen = FALSE])

\* ... and the name is looked up for a source that is none of the mistakes.
CheckSource(s) == IF s.correct THEN updateTitleFromSource(s) ELSE s

SetSource(src) ==
  /\ User /\ open = "add" /\ src # d.source
  /\ LET s == LookUpHash([d EXCEPT !.source = src, !.correct = checkTorrentSource(src)])
     IN  Render(IF src = None THEN TitleEffect(ClearSource(s), d.title # None)
                ELSE CheckSource(s), torrents)
  /\ UNCHANGED <<posts, server, torrents>>

\* Typing focuses the field, which enables the custom title where there is an original one.
SetTitle(t) ==
  /\ User /\ FieldsShown /\ t # d.title
  /\ Render(TitleEffect([d EXCEPT !.title = t, !.custom = d.original /\ t # None], TRUE), torrents)
  /\ UNCHANGED <<posts, server, torrents>>

ResetTitle ==
  /\ User /\ FieldsShown /\ d.original
  /\ LET r == [d EXCEPT !.title = None, !.custom = ~@, !.chosen = FALSE]
     IN  Render(updateTitleFromSource(TitleEffect(r, d.title # None)), torrents)
  /\ UNCHANGED <<posts, server, torrents>>

\* The field of the poster's URL; checkImageURL accepts every URL that is not empty.
SetPosterUrl(p) ==
  /\ User /\ FieldsShown /\ p # d.poster
  /\ LET r == [d EXCEPT !.poster = p, !.posterOk = checkImageURL(p), !.chosen = p # None, !.list = None]
     IN  Render(IF r.chosen = d.chosen THEN r ELSE TitleEffect(r, FALSE), torrents)
  /\ UNCHANGED <<posts, server, torrents>>

\* A click on a suggestion.
PickPoster ==
  /\ User /\ FieldsShown /\ d.list # None
  /\ LET r == [d EXCEPT !.poster = Picked, !.posterOk = TRUE, !.chosen = TRUE]
     IN  Render(IF d.chosen THEN r ELSE TitleEffect(r, FALSE), torrents)
  /\ UNCHANGED <<posts, server, torrents>>

ClearPoster ==
  /\ User /\ FieldsShown /\ d.posterOk
  /\ LET r == removePoster([d EXCEPT !.chosen = TRUE])
     IN  Render(IF d.chosen THEN r ELSE TitleEffect(r, FALSE), torrents)
  /\ UNCHANGED <<posts, server, torrents>>

UpdatePoster ==
  /\ User /\ FieldsShown
  /\ Render(posterSearch(d, FixedTitle(d), FALSE, d.chosen), torrents)
  /\ UNCHANGED <<posts, server, torrents>>

\* The language of the search is one of the inputs of the effect on the title.
SwitchLanguage ==
  /\ User /\ FieldsShown /\ d.posterOk
  /\ Render(TitleEffect(posterSearch(d, FixedTitle(d), TRUE, d.chosen), FALSE), torrents)
  /\ UNCHANGED <<posts, server, torrents>>

\* handleCapture: an effect looks at isUserInteractedWithPoster.
DropFiles(files) ==
  /\ Lists /\ rows = None /\ open = "add"
  /\ MultiMounted(files, torrents)
  /\ open' = open /\ d' = IF d.chosen THEN TitleEffect([d EXCEPT !.chosen = FALSE], FALSE) ELSE d
  /\ UNCHANGED <<posts, server, torrents>>

\* What a user does with the list.
InList ==
  /\ Lists /\ rows # None
  /\ \/ \E i \in DOMAIN rows, p \in {Picked, None} : handlePosterChange(i, p)
     \/ \E i \in DOMAIN rows : handleRemove(i, torrents)
     \/ handleSaveAll
  /\ UNCHANGED <<open, d, posts, server, torrents>>

\* By the button, or with the last row of the list.
Cancel ==
  /\ open # None
  /\ open' = None /\ d' = Mounted
  /\ UNCHANGED <<posts, server, torrents, edits>>

\* The button stays enabled while the dialog is saving.
handleSave ==
  /\ User /\ FieldsShown /\ d.source # None
  /\ posts' = posts \cup {[kind |-> open, of |-> d.source]}
  /\ Render([d EXCEPT !.saving = TRUE], torrents)
  /\ UNCHANGED <<server, torrents>>

-----------------------------------------------------------------------------
(* The network, the timers and the poll.                                    *)

Answerable == IF InOrder THEN 1 .. 1 \cap DOMAIN d.fetches ELSE DOMAIN d.fetches

Received(i) == [d EXCEPT !.fetches = RemoveAt(@, i)]

HashFound(i) ==
  /\ d.fetches[i].kind = "hash"
  /\ \E h \in {HashOf[d.fetches[i].of], None} : Render([Received(i) EXCEPT !.hash = h], torrents)
  /\ UNCHANGED <<posts, server, torrents, edits>>

NameFound(i) ==
  /\ d.fetches[i].kind = "name"
  /\ \E n \in {NameOf[d.fetches[i].of], None} :
        Render(TitleFromSource(Received(i), n), torrents)
  /\ UNCHANGED <<posts, server, torrents, edits>>

PostersFound(i) ==
  /\ d.fetches[i].kind = "posters"
  /\ \E found \in BOOLEAN, p \in {d.fetches[i].of, None} :
        Render(ShowPosters(Received(i), d.fetches[i], found, p), torrents)
  /\ UNCHANGED <<posts, server, torrents, edits>>

Answer == \E i \in Answerable : HashFound(i) \/ NameFound(i) \/ PostersFound(i)

\* lodash's debounce runs out.
DebounceEnds(c) ==
  /\ d.timers[c] # None
  /\ Render(posterSearch([d EXCEPT !.timers[c] = None], d.timers[c], FALSE, c), torrents)
  /\ UNCHANGED <<posts, server, torrents, edits>>

\* The answer to a save closes what the parent shows, whichever dialog that is by now: an
\* edit always, a new torrent when it failed.
SaveAnswered(p, ok) ==
  /\ posts' = posts \ {p}
  /\ server' = IF ok /\ p.kind = "add" THEN server \cup ({HashOf[p.of]} \ {None}) ELSE server
  /\ IF open = p.kind /\ (p.kind = "edit" \/ ~ok)
     THEN open' = None /\ d' = Mounted
     ELSE UNCHANGED <<open, d>>
  /\ UNCHANGED <<torrents, edits>>

\* An answer for a row, of the dialog that is open.
RowStep ==
  /\ rows # None /\ \E a \in asks : RowAnswered(a)
  /\ UNCHANGED <<open, d, posts, server, torrents, edits>>

\* The uploads too close the dialog of that button, whichever it is by now.
Uploaded(k, f, ok) ==
  /\ f \in uploads[k] /\ Answered(k, f)
  /\ server' = IF ok THEN server \cup {FileHash[f]} ELSE server
  /\ IF Ends(k, f) /\ open = "add" THEN open' = None /\ d' = Mounted /\ NoRows
                                   ELSE UNCHANGED <<open, d, rows, asks, mixed>>
  /\ UNCHANGED <<posts, torrents, edits>>

getTorrents ==
  /\ torrents' = server
  /\ Render(d, server)
  /\ UNCHANGED <<posts, server, edits>>

Init ==
  /\ open = None /\ d = Mounted /\ posts = {} /\ edits = 0
  /\ server \in SUBSET Hash
  /\ torrents = server
  /\ rows = None /\ asks = {} /\ uploads = <<>> /\ mixed = FALSE

UserStep ==
  \/ OpenAdd
  \/ \E h \in Hash, n \in Names \cup {None}, t \in Title \cup {None}, p \in {Picked, None} :
        OpenEdit(h, n, t, p)
  \/ \E s \in Source \cup {None} : SetSource(s)
  \/ \E t \in Title \cup {None} : SetTitle(t)
  \/ ResetTitle
  \/ \E p \in {Picked, None} : SetPosterUrl(p)
  \/ PickPoster \/ ClearPoster \/ UpdatePoster \/ SwitchLanguage
  \/ Cancel \/ handleSave

FormStep ==
  \/ UserStep
  \/ Answer
  \/ \E c \in BOOLEAN : DebounceEnds(c)

Saves == \E p \in posts, ok \in BOOLEAN : SaveAnswered(p, ok)

Uploads == \E k \in DOMAIN uploads, ok \in BOOLEAN : \E f \in uploads[k] : Uploaded(k, f, ok)

Next ==
  \/ (FormStep \/ Saves \/ getTorrents) /\ Shut
  \/ \E files \in Drops : DropFiles(files)
  \/ InList
  \/ RowStep
  \/ Uploads

Spec == Init /\ [][Next]_vars

\* Every save is answered or fails, and the list is polled every second.
Fairness ==
  /\ WF_vars(Saves /\ Shut)
  /\ WF_vars(Uploads)
  /\ WF_vars(getTorrents /\ Shut)

FairSpec == Spec /\ Fairness
-----------------------------------------------------------------------------
(* Properties.                                                              *)

\* The poster that will be saved is the one the user chose or the one found for the title
\* that will be saved, not for a title typed before or the name of an earlier source: once
\* no search is on its way and answers came in order (AddDialog.jsx posterSearch).  Not so if
\* the user took back a choice while requests were on their way: a late answer of a search made
\* before the choice shows its poster, that of the last title, made during it, does not.
PosterIsOfTitle ==
  AtRest /\ rows = None /\ ~d.chosen /\ ~d.revoked /\ d.poster # None /\ Either(d.title, d.parsed) # None
    => d.poster \in {d.title, d.parsed}

\* See RowsKeepTheirOwn.
RowsAreTheirs == RowsKeepTheirOwn(server)

\* What the dialog waits for: the answers to its uploads, or the torrent of a source that was
\* sent, and whose hash it knows.
Awaited ==
  \/ rows # None /\ uploads # <<>>
  \/ /\ open = "add" /\ d.saving /\ d.source \in Source \ Wrong
     /\ d.source \in Link \/ (d.hash # None /\ d.hash = HashOf[d.source])
     /\ [kind |-> "add", of |-> d.source] \in posts \/ HashOf[d.source] \in server

\* The dialog closes after a save: when the save fails, when the poll shows the hash, or at
\* once for a link.  It would stay with a spinner for a source in which no hash is found
\* (torrs://), or when the late answer of an earlier link replaced the hash.  The list of
\* files closes when every upload is answered (Promise.all).
SavedCloses == Awaited ~> ~Awaited
=============================================================================
