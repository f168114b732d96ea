------------------------- MODULE WebAddDialogProofs -------------------------
(***************************************************************************)
(* What the dialog saves belongs together, for any number of files, of     *)
(* sources, of titles and of saves: proofs that its specification implies  *)
(* RowsAreTheirs and PosterIsOfTitle.                                      *)
(*                                                                         *)
(* RowsAreTheirs is not inductive: an answer arrives for a place, and was  *)
(* asked for a file.  The invariant adds that, until a row is removed in   *)
(* the middle, the file at that place is still the one asked for, and that *)
(* a row that will be hidden was listed, so the server has its torrent.    *)
(*                                                                         *)
(* PosterIsOfTitle speaks of a dialog at rest; the invariant, of what will *)
(* bring it there: the debounced search, or else the last one on its way,  *)
(* or else the poster is for what the title fields say, and no search is   *)
(* left that was made while the user had chosen a poster.                  *)
(***************************************************************************)
EXTENDS WebAddDialog, TLAPS

Asked == [kind : {"hash", "name", "poster"}, at : Nat, of : File, listed : BOOLEAN]

\* The list of the page is behind the server, never ahead of it.
PollIsBehind == torrents \subseteq server

\* What is asked for a place is about the file at that place.
AsksAreTheirs ==
  \A a \in asks : /\ a.listed => FileHash[a.of] \in server
                  /\ ~mixed /\ a.at \in DOMAIN rows => rows[a.at].file = a.of

IInv ==
  /\ PollIsBehind
  /\ rows # None => /\ rows \in Seq(Row) /\ asks \subseteq Asked
                    /\ AsksAreTheirs /\ RowsAreTheirs

-----------------------------------------------------------------------------
(* Operators.                                                               *)

\* An answer changes one field of a row.
LEMMA PosterOfRow ==
  ASSUME NEW r \in Row, NEW p \in File \cup {Picked, None}
  PROVE  With(r, [poster |-> p]) = [r EXCEPT !.poster = p]
BY DEF Row, With

LEMMA RowHidden ==
  ASSUME NEW r \in Row
  PROVE  /\ With(r, [alreadyExists |-> TRUE]) \in Row
         /\ With(r, [alreadyExists |-> TRUE]).file = r.file
         /\ With(r, [alreadyExists |-> TRUE]).poster = r.poster
<1>  DEFINE u == [alreadyExists |-> TRUE]
            w == With(r, u)
<1>1. DOMAIN r = {"file", "poster", "alreadyExists"} BY DEF Row
<1>2. DOMAIN u = {"alreadyExists"} OBVIOUS
<1>3. w = [x \in DOMAIN r |-> IF x \in DOMAIN u THEN u[x] ELSE r[x]] BY DEF With
<1>4. w.file = r.file /\ w.poster = r.poster /\ w["alreadyExists"] = u["alreadyExists"]
  BY <1>1, <1>2, <1>3
<1>5. u["alreadyExists"] \in BOOLEAN OBVIOUS
<1>6. w = [file |-> w.file, poster |-> w.poster, alreadyExists |-> w["alreadyExists"]]
  BY <1>1, <1>3
<1>7. r.file \in File /\ r.poster \in File \cup {Picked, None} BY DEF Row
<1>8. w \in Row
  <2>1. w["alreadyExists"] \in BOOLEAN BY <1>4, <1>5
  <2>2. w.file \in File /\ w.poster \in File \cup {Picked, None} BY <1>4, <1>7
  <2>  HIDE DEF w
  <2>  QED BY <1>6, <2>1, <2>2 DEF Row
<1>  QED BY <1>4, <1>8

\* What is in front of the element that is removed stays, the others move up.
LEMMA ElementRemoved ==
  ASSUME NEW S, NEW s \in Seq(S), NEW i \in DOMAIN s
  PROVE  /\ RemoveAt(s, i) \in Seq(S)
         /\ Len(RemoveAt(s, i)) = Len(s) - 1
         /\ \A j \in DOMAIN RemoveAt(s, i) :
               RemoveAt(s, i)[j] = IF j < i THEN s[j] ELSE s[j + 1]
<1>  DEFINE a == SubSeq(s, 1, i - 1)
            b == SubSeq(s, i + 1, Len(s))
<1>1. i \in 1 .. Len(s) /\ Len(s) \in Nat OBVIOUS
<1>2. a \in Seq(S) /\ Len(a) = i - 1 /\ \A j \in 1 .. i - 1 : a[j] = s[j] BY <1>1
<1>3. b \in Seq(S) /\ Len(b) = Len(s) - i /\ \A j \in 1 .. Len(s) - i : b[j] = s[i + j] BY <1>1
<1>4. RemoveAt(s, i) = a \o b BY DEF RemoveAt
<1>  HIDE DEF a, b
<1>5. a \o b \in Seq(S) /\ Len(a \o b) = Len(s) - 1 BY <1>1, <1>2, <1>3
<1>6. ASSUME NEW j \in DOMAIN (a \o b)
      PROVE  (a \o b)[j] = IF j < i THEN s[j] ELSE s[j + 1]
  <2>1. j \in 1 .. Len(a) + Len(b) BY <1>5, <1>1, <1>2, <1>3
  <2>2. CASE j < i BY <2>1, <2>2, <1>1, <1>2, <1>3
  <2>3. CASE ~(j < i)
    <3>0. Len(a) = i - 1 /\ Len(b) = Len(s) - i BY <1>2, <1>3
    <3>1. j - (i - 1) \in 1 .. Len(s) - i BY <2>1, <2>3, <3>0, <1>1
    <3>2. (a \o b)[j] = b[j - (i - 1)] BY <2>1, <2>3, <3>0, <1>1, <1>2, <1>3
    <3>3. b[j - (i - 1)] = s[i + (j - (i - 1))] BY <3>1, <1>3
    <3>4. i + (j - (i - 1)) = j + 1 BY <2>1, <1>1
    <3>  QED BY <2>3, <3>2, <3>3, <3>4
  <2>  QED BY <2>2, <2>3
<1>  QED BY <1>4, <1>5, <1>6

\* An update leaves every row in its place, with the file it had.
LEMMA UpdateKeepsFiles ==
  ASSUME rows \in Seq(Row), NEW k, NEW u,
         \A r \in Row : With(r, u) \in Row /\ With(r, u).file = r.file
  PROVE  /\ handleUpdate(k, u) \in Seq(Row)
         /\ DOMAIN handleUpdate(k, u) = DOMAIN rows
         /\ \A i \in DOMAIN rows :
               /\ handleUpdate(k, u)[i] = IF i = k THEN With(rows[i], u) ELSE rows[i]
               /\ handleUpdate(k, u)[i].file = rows[i].file
<1>  DEFINE new == handleUpdate(k, u)
<1>1. DOMAIN rows = 1 .. Len(rows) /\ Len(rows) \in Nat OBVIOUS
<1>2. DOMAIN new = DOMAIN rows BY DEF handleUpdate
<1>3. ASSUME NEW i \in DOMAIN rows
      PROVE  /\ new[i] = IF i = k THEN With(rows[i], u) ELSE rows[i]
             /\ new[i] \in Row /\ new[i].file = rows[i].file
  <2>1. rows[i] \in Row OBVIOUS
  <2>2. new[i] = IF i = k THEN With(rows[i], u) ELSE rows[i] BY DEF handleUpdate
  <2>  QED BY <2>1, <2>2
<1>4. new = [i \in 1 .. Len(rows) |-> new[i]] BY <1>1, <1>2 DEF handleUpdate
<1>5. new \in Seq(Row)
  <2>  HIDE DEF new
  <2>  QED BY <1>1, <1>2, <1>3, <1>4
<1>  QED BY <1>2, <1>3, <1>5

\* A row that is mounted asks about the file it has, by its place.
LEMMA MountedAsks ==
  ASSUME NEW list \in Seq(Row), NEW from \in Nat \ {0}, NEW listed,
         NEW a \in RowsMounted(list, from, listed)
  PROVE  /\ a \in Asked /\ a.at \in from .. Len(list) /\ a.of = list[a.at].file
         /\ a.listed => FileHash[a.of] \in listed
<1>1. PICK i \in {j \in from .. Len(list) : ~list[j].alreadyExists} :
         a \in RowMounted(i, list[i].file, listed)
  BY DEF RowsMounted
<1>2. i \in from .. Len(list) /\ i \in Nat /\ i \in DOMAIN list BY <1>1
<1>3. list[i] \in Row BY <1>2
<1>4. list[i].file \in File BY <1>3 DEF Row
<1>5. CASE a = Ask("hash", i, list[i].file, FileHash[list[i].file] \in listed)
  <2>  DEFINE b == FileHash[list[i].file] \in listed
  <2>1. b \in BOOLEAN OBVIOUS
  <2>2. b => FileHash[list[i].file] \in listed OBVIOUS
  <2>  HIDE DEF b
  <2>3. a = [kind |-> "hash", at |-> i, of |-> list[i].file, listed |-> b]
    BY <1>5 DEF Ask, b
  <2>4. a \in Asked BY <1>2, <1>4, <2>1, <2>3 DEF Asked
  <2>5. a.at = i /\ a.of = list[i].file /\ a.listed = b BY <2>3
  <2>  QED BY <1>2, <2>2, <2>4, <2>5
<1>6. CASE a = Ask("name", i, list[i].file, FALSE)
  BY <1>2, <1>4, <1>6 DEF Ask, Asked
<1>  QED BY <1>1, <1>5, <1>6 DEF RowMounted

-----------------------------------------------------------------------------
(* Steps.                                                                   *)

\* What the form, a poll or an answer to a save do to the list of the page.
LEMMA FormStepKeepsLists ==
  ASSUME FormStep
  PROVE  UNCHANGED <<server, torrents>>
<1>1. CASE UserStep
  BY <1>1 DEF UserStep, OpenAdd, OpenEdit, SetSource, SetTitle, ResetTitle, SetPosterUrl,
              PickPoster, ClearPoster, UpdatePoster, SwitchLanguage, Cancel, handleSave
<1>2. CASE Answer BY <1>2 DEF Answer, HashFound, NameFound, PostersFound
<1>3. CASE \E c \in BOOLEAN : DebounceEnds(c) BY <1>3 DEF DebounceEnds
<1>  QED BY <1>1, <1>2, <1>3 DEF FormStep

LEMMA ServerGrows ==
  ASSUME PollIsBehind, FormStep \/ Saves \/ getTorrents
  PROVE  PollIsBehind' /\ server \subseteq server'
<1>1. CASE FormStep BY <1>1, FormStepKeepsLists DEF PollIsBehind
<1>2. CASE Saves
  <2>1. PICK p \in posts, ok \in BOOLEAN : SaveAnswered(p, ok) BY <1>2 DEF Saves
  <2>2. torrents' = torrents BY <2>1 DEF SaveAnswered
  <2>3. server \subseteq server' BY <2>1 DEF SaveAnswered
  <2>  QED BY <2>2, <2>3 DEF PollIsBehind
<1>3. CASE getTorrents BY <1>3 DEF getTorrents, PollIsBehind
<1>  QED BY <1>1, <1>2, <1>3

\* The list is not touched, or gone, and the server has no less than before.
LEMMA ListUntouched ==
  ASSUME IInv, PollIsBehind', server \subseteq server',
         UNCHANGED <<rows, asks, mixed>> \/ rows' = None
  PROVE  IInv'
<1>1. CASE rows' = None BY <1>1 DEF IInv
<1>2. CASE UNCHANGED <<rows, asks, mixed>>
  BY <1>2 DEF IInv, AsksAreTheirs, RowsAreTheirs, RowsKeepTheirOwn
<1>  QED BY <1>1, <1>2

\* The user works on the list: types a poster, removes a row, adds the others.
LEMMA InListKeepsInv ==
  ASSUME IInv, InList
  PROVE  IInv'
<1>1. rows \in Seq(Row) /\ asks \subseteq Asked /\ AsksAreTheirs /\ RowsAreTheirs
  BY DEF InList, IInv
<1>2. UNCHANGED <<server, torrents>> /\ PollIsBehind' BY DEF InList, IInv, PollIsBehind
<1>3. CASE \E i \in DOMAIN rows, p \in {Picked, None} : handlePosterChange(i, p)
  <2>1. PICK i \in DOMAIN rows, p \in {Picked, None} : handlePosterChange(i, p) BY <1>3
  <2>  DEFINE u == [poster |-> p]
  <2>2. \A r \in Row : With(r, u) = [r EXCEPT !.poster = p] BY PosterOfRow
  <2>3. \A r \in Row : /\ With(r, u) \in Row /\ With(r, u).file = r.file
                       /\ With(r, u).poster = p /\ With(r, u).alreadyExists = r.alreadyExists
    BY <2>2 DEF Row
  <2>4. rows' = handleUpdate(i, u) /\ UNCHANGED <<asks, mixed>> BY <2>1 DEF handlePosterChange
  <2>  HIDE DEF u
  <2>5. /\ rows' \in Seq(Row) /\ DOMAIN rows' = DOMAIN rows
        /\ \A j \in DOMAIN rows : /\ rows'[j] = IF j = i THEN With(rows[j], u) ELSE rows[j]
                                  /\ rows'[j].file = rows[j].file
    <3>1. \A r \in Row : With(r, u) \in Row /\ With(r, u).file = r.file BY <2>3
    <3>2. rows \in Seq(Row) BY <1>1
    <3>3. /\ handleUpdate(i, u) \in Seq(Row) /\ DOMAIN handleUpdate(i, u) = DOMAIN rows
          /\ \A j \in DOMAIN rows :
                /\ handleUpdate(i, u)[j] = IF j = i THEN With(rows[j], u) ELSE rows[j]
                /\ handleUpdate(i, u)[j].file = rows[j].file
      BY <3>1, <3>2, UpdateKeepsFiles
    <3>  QED BY <2>4, <3>3
  <2>6. AsksAreTheirs'
    <3>1. asks' = asks /\ mixed' = mixed /\ server' = server BY <1>2, <2>4
    <3>2. \A a \in asks : /\ a.listed => FileHash[a.of] \in server
                          /\ ~mixed /\ a.at \in DOMAIN rows' => rows'[a.at].file = a.of
      BY <1>1, <2>5 DEF AsksAreTheirs
    <3>  QED BY <3>1, <3>2 DEF AsksAreTheirs
  <2>7. ASSUME ~mixed, NEW j \in DOMAIN rows
        PROVE  /\ rows'[j].poster \in {rows'[j].file, Picked, None}
               /\ rows'[j].alreadyExists => FileHash[rows'[j].file] \in server
    <3>1. rows[j] \in Row BY <1>1
    <3>2. /\ rows[j].poster \in {rows[j].file, Picked, None}
          /\ rows[j].alreadyExists => FileHash[rows[j].file] \in server
      BY <1>1, <2>7 DEF RowsAreTheirs, RowsKeepTheirOwn, InList
    <3>3. rows'[j].file = rows[j].file BY <2>5
    <3>4. CASE j = i
      <4>1. rows'[j] = With(rows[j], u) BY <2>5, <3>4
      <4>2. rows'[j].poster = p /\ rows'[j].alreadyExists = rows[j].alreadyExists
        BY <2>3, <3>1, <4>1
      <4>3. rows'[j].poster \in {rows'[j].file, Picked, None} BY <4>2
      <4>4. rows'[j].alreadyExists => FileHash[rows'[j].file] \in server BY <3>2, <3>3, <4>2
      <4>  QED BY <4>3, <4>4
    <3>5. CASE j # i
      <4>1. rows'[j] = rows[j] BY <2>5, <3>5
      <4>  QED BY <3>2, <4>1
    <3>  QED BY <3>4, <3>5
  <2>8. RowsAreTheirs' BY <1>2, <2>4, <2>5, <2>7 DEF RowsAreTheirs, RowsKeepTheirOwn
  <2>  QED BY <1>1, <1>2, <2>4, <2>5, <2>6, <2>8 DEF IInv
<1>4. CASE \E i \in DOMAIN rows : handleRemove(i, torrents)
  <2>1. PICK i \in DOMAIN rows : handleRemove(i, torrents) BY <1>4
  <2>  DEFINE next == RemoveAt(rows, i)
  <2>2. /\ rows' = next /\ asks' = asks \cup RowsMounted(next, i, torrents)
        /\ mixed' = (mixed \/ \E a \in asks : a.at \in i .. Len(next))
    BY <2>1 DEF handleRemove
  <2>3. /\ next \in Seq(Row)
        /\ \A j \in DOMAIN next : next[j] = IF j < i THEN rows[j] ELSE rows[j + 1]
        /\ Len(next) = Len(rows) - 1
    BY <1>1, ElementRemoved
  <2>4. i \in Nat \ {0} /\ DOMAIN rows = 1 .. Len(rows) /\ Len(rows) \in Nat BY <1>1
  <2>  HIDE DEF next
  <2>5. DOMAIN next = 1 .. Len(next) /\ Len(next) \in Nat BY <2>3
  <2>6. \A a \in RowsMounted(next, i, torrents) :
           /\ a \in Asked /\ a.at \in i .. Len(next) /\ a.of = next[a.at].file
           /\ a.listed => FileHash[a.of] \in torrents
    BY <2>3, <2>4, MountedAsks
  <2>7. asks' \subseteq Asked BY <1>1, <2>2, <2>6
  <2>9. ASSUME NEW a \in asks'
        PROVE  /\ a.listed => FileHash[a.of] \in server
               /\ ~mixed' /\ a.at \in DOMAIN next => next[a.at].file = a.of
    <3>1. CASE a \in RowsMounted(next, i, torrents)
      BY <2>6, <3>1 DEF IInv, PollIsBehind
    <3>2. CASE a \in asks
      <4>1. a.listed => FileHash[a.of] \in server BY <1>1, <3>2 DEF AsksAreTheirs
      <4>2. ASSUME ~mixed', a.at \in DOMAIN next
            PROVE  next[a.at].file = a.of
        <5>1. ~mixed /\ a.at \notin i .. Len(next) BY <2>2, <3>2, <4>2
        <5>2. a.at \in Nat /\ a.at < i BY <2>4, <2>5, <4>2, <5>1
        <5>3. a.at \in DOMAIN rows /\ next[a.at] = rows[a.at] BY <2>3, <2>4, <2>5, <4>2, <5>2
        <5>  QED BY <1>1, <3>2, <5>1, <5>3 DEF AsksAreTheirs
      <4>  QED BY <4>1, <4>2
    <3>  QED BY <2>2, <2>9, <3>1, <3>2
  <2>10. AsksAreTheirs' BY <1>2, <2>2, <2>9 DEF AsksAreTheirs
  <2>11. ASSUME ~mixed', NEW j \in DOMAIN next
         PROVE  /\ next[j].poster \in {next[j].file, Picked, None}
                /\ next[j].alreadyExists => FileHash[next[j].file] \in server
    <3>1. ~mixed BY <2>2, <2>11
    <3>2. \A k \in DOMAIN rows : /\ rows[k].poster \in {rows[k].file, Picked, None}
                                 /\ rows[k].alreadyExists => FileHash[rows[k].file] \in server
      BY <1>1, <3>1 DEF RowsAreTheirs, RowsKeepTheirOwn, InList
    <3>3. \E k \in DOMAIN rows : next[j] = rows[k]
      <4>1. j \in Nat /\ j \in DOMAIN rows /\ j + 1 \in DOMAIN rows BY <2>3, <2>4, <2>5
      <4>  QED BY <2>3, <4>1
    <3>  QED BY <3>2, <3>3
  <2>12. RowsAreTheirs' BY <1>2, <2>2, <2>11 DEF RowsAreTheirs, RowsKeepTheirOwn
  <2>  QED BY <1>2, <2>2, <2>3, <2>7, <2>10, <2>12 DEF IInv
<1>5. CASE handleSaveAll
  <2>1. UNCHANGED <<rows, asks, mixed>> BY <1>5 DEF handleSaveAll
  <2>  QED BY <1>2, <2>1, ListUntouched
<1>  QED BY <1>3, <1>4, <1>5 DEF InList

\* A file was read, a poster found for its name, or neither.
LEMMA RowStepKeepsInv ==
  ASSUME IInv, RowStep
  PROVE  IInv'
<1>1. rows # None /\ UNCHANGED <<server, torrents, mixed>> BY DEF RowStep, RowAnswered
<1>2. rows \in Seq(Row) /\ asks \subseteq Asked /\ AsksAreTheirs /\ RowsAreTheirs
  BY <1>1 DEF IInv
<1>3. PICK a \in asks : NotFound(a) \/ Found(a) BY DEF RowStep, RowAnswered
<1>4. a \in Asked BY <1>2
<1>5. a.kind \in {"hash", "name", "poster"} /\ a.of \in File BY <1>4 DEF Asked
<1>6. PollIsBehind' BY <1>1 DEF IInv, PollIsBehind
<1>7. ~mixed => \A i \in DOMAIN rows : /\ rows[i].poster \in {rows[i].file, Picked, None}
                                       /\ rows[i].alreadyExists => FileHash[rows[i].file] \in server
  BY <1>1, <1>2 DEF RowsAreTheirs, RowsKeepTheirOwn
\* The rows stay, and nothing is asked that was not asked for the same place and file.
<1>8. ASSUME UNCHANGED rows, asks' \subseteq Asked,
             \A b \in asks' : \E c \in asks : b.at = c.at /\ b.of = c.of /\ (b.listed => c.listed)
      PROVE  IInv'
  <2>1. \A b \in asks' : /\ b.listed => FileHash[b.of] \in server
                         /\ ~mixed /\ b.at \in DOMAIN rows => rows[b.at].file = b.of
    <3>  SUFFICES ASSUME NEW b \in asks'
                  PROVE  /\ b.listed => FileHash[b.of] \in server
                         /\ ~mixed /\ b.at \in DOMAIN rows => rows[b.at].file = b.of
      OBVIOUS
    <3>1. PICK c \in asks : b.at = c.at /\ b.of = c.of /\ (b.listed => c.listed) BY <1>8
    <3>2. /\ c.listed => FileHash[c.of] \in server
          /\ ~mixed /\ c.at \in DOMAIN rows => rows[c.at].file = c.of
      BY <1>2 DEF AsksAreTheirs
    <3>  QED BY <3>1, <3>2
  <2>2. AsksAreTheirs' BY <1>1, <1>8, <2>1 DEF AsksAreTheirs
  <2>3. RowsAreTheirs' BY <1>1, <1>2, <1>8 DEF RowsAreTheirs, RowsKeepTheirOwn
  <2>  QED BY <1>1, <1>2, <1>6, <1>8, <2>2, <2>3 DEF IInv
\* One row is updated, and nothing more is asked.
<1>9. ASSUME NEW u, asks' = asks \ {a}, rows' = handleUpdate(a.at, u),
             \A r \in Row : With(r, u) \in Row /\ With(r, u).file = r.file,
             ~mixed /\ a.at \in DOMAIN rows =>
               /\ With(rows[a.at], u).poster \in {rows[a.at].file, Picked, None}
               /\ With(rows[a.at], u).alreadyExists => FileHash[rows[a.at].file] \in server
      PROVE  IInv'
  <2>1. /\ handleUpdate(a.at, u) \in Seq(Row) /\ DOMAIN handleUpdate(a.at, u) = DOMAIN rows
        /\ \A i \in DOMAIN rows :
             /\ handleUpdate(a.at, u)[i] = IF i = a.at THEN With(rows[i], u) ELSE rows[i]
             /\ handleUpdate(a.at, u)[i].file = rows[i].file
    <3>1. rows \in Seq(Row) BY <1>2
    <3>2. \A r \in Row : With(r, u) \in Row /\ With(r, u).file = r.file BY <1>9
    <3>  QED BY <3>1, <3>2, UpdateKeepsFiles
  <2>2. rows' \in Seq(Row) /\ DOMAIN rows' = DOMAIN rows BY <1>9, <2>1
  <2>3. \A i \in DOMAIN rows : /\ rows'[i] = IF i = a.at THEN With(rows[i], u) ELSE rows[i]
                               /\ rows'[i].file = rows[i].file
    BY <1>9, <2>1
  <2>4. \A b \in asks : /\ b.listed => FileHash[b.of] \in server
                        /\ ~mixed /\ b.at \in DOMAIN rows' => rows'[b.at].file = b.of
    BY <1>2, <2>2, <2>3 DEF AsksAreTheirs
  <2>5. AsksAreTheirs' BY <1>1, <1>9, <2>4 DEF AsksAreTheirs
  <2>6. ASSUME ~mixed, NEW i \in DOMAIN rows
        PROVE  /\ rows'[i].poster \in {rows'[i].file, Picked, None}
               /\ rows'[i].alreadyExists => FileHash[rows'[i].file] \in server
    <3>1. rows'[i].file = rows[i].file BY <2>3
    <3>2. CASE i = a.at
      <4>1. rows'[i] = With(rows[i], u) BY <2>3, <3>2
      <4>  QED BY <1>9, <2>6, <3>1, <3>2, <4>1
    <3>3. CASE i # a.at
      <4>1. rows'[i] = rows[i] BY <2>3, <3>3
      <4>  QED BY <1>7, <2>6, <4>1
    <3>  QED BY <3>2, <3>3
  <2>7. RowsAreTheirs' BY <1>1, <2>2, <2>6 DEF RowsAreTheirs, RowsKeepTheirOwn
  <2>8. asks' \subseteq Asked BY <1>2, <1>9
  <2>  QED BY <1>1, <1>2, <1>6, <2>2, <2>5, <2>7, <2>8 DEF IInv
<1>10. CASE NotFound(a)
  <2>1. asks' = asks \ {a} /\ rows' = rows BY <1>10 DEF NotFound
  <2>2. asks' \subseteq asks /\ asks' \subseteq Asked BY <1>2, <2>1
  <2>  QED BY <1>8, <2>1, <2>2
<1>11. CASE Found(a)
  <2>1. CASE a.kind = "hash" /\ ~a.listed
    <3>1. asks' = asks \ {a} /\ rows' = rows BY <1>11, <2>1 DEF Found
    <3>2. asks' \subseteq asks /\ asks' \subseteq Asked BY <1>2, <3>1
    <3>  QED BY <1>8, <3>1, <3>2
  <2>2. CASE a.kind = "hash" /\ a.listed
    <3>  DEFINE u == [alreadyExists |-> TRUE]
    <3>1. asks' = asks \ {a} /\ rows' = handleUpdate(a.at, u) BY <1>11, <2>2 DEF Found
    <3>2. \A r \in Row : /\ With(r, u) \in Row /\ With(r, u).file = r.file
                         /\ With(r, u).poster = r.poster
      BY RowHidden
    <3>  HIDE DEF u
    <3>3. ASSUME ~mixed, a.at \in DOMAIN rows
          PROVE  /\ With(rows[a.at], u).poster \in {rows[a.at].file, Picked, None}
                 /\ FileHash[rows[a.at].file] \in server
      <4>1. rows[a.at] \in Row BY <1>2, <3>3
      <4>2. rows[a.at].file = a.of /\ FileHash[a.of] \in server
        BY <1>2, <2>2, <3>3 DEF AsksAreTheirs
      <4>3. rows[a.at].poster \in {rows[a.at].file, Picked, None} BY <1>7, <3>3
      <4>4. With(rows[a.at], u).poster = rows[a.at].poster BY <3>2, <4>1
      <4>  QED BY <4>2, <4>3, <4>4
    <3>  QED BY <1>9, <3>1, <3>2, <3>3
  <2>3. CASE a.kind = "name"
    <3>  DEFINE c == [a EXCEPT !.kind = "poster"]
    <3>1. asks' = (asks \ {a}) \cup {c} /\ rows' = rows BY <1>11, <2>3 DEF Found
    <3>2. c \in Asked /\ c.at = a.at /\ c.of = a.of /\ c.listed = a.listed BY <1>4 DEF Asked
    <3>  HIDE DEF c
    <3>3. asks' \subseteq Asked BY <1>2, <3>1, <3>2
    <3>4. \A b \in asks' : \E e \in asks : b.at = e.at /\ b.of = e.of /\ (b.listed => e.listed)
      <4>  SUFFICES ASSUME NEW b \in asks'
                    PROVE  \E e \in asks : b.at = e.at /\ b.of = e.of /\ (b.listed => e.listed)
        OBVIOUS
      <4>1. b \in asks \/ b = c BY <3>1
      <4>  QED BY <3>2, <4>1
    <3>  QED BY <1>8, <3>1, <3>3, <3>4
  <2>4. CASE a.kind = "poster"
    <3>  DEFINE u == [poster |-> a.of]
    <3>1. asks' = asks \ {a} /\ rows' = handleUpdate(a.at, u) BY <1>11, <2>4 DEF Found
    <3>2. \A r \in Row : With(r, u) = [r EXCEPT !.poster = a.of] BY <1>5, PosterOfRow
    <3>3. \A r \in Row : /\ With(r, u) \in Row /\ With(r, u).file = r.file
                         /\ With(r, u).poster = a.of /\ With(r, u).alreadyExists = r.alreadyExists
      BY <1>5, <3>2 DEF Row
    <3>  HIDE DEF u
    <3>4. ASSUME ~mixed, a.at \in DOMAIN rows
          PROVE  /\ With(rows[a.at], u).poster \in {rows[a.at].file, Picked, None}
                 /\ With(rows[a.at], u).alreadyExists => FileHash[rows[a.at].file] \in server
      <4>1. rows[a.at] \in Row BY <1>2, <3>4
      <4>2. rows[a.at].file = a.of BY <1>2, <3>4 DEF AsksAreTheirs
      <4>3. With(rows[a.at], u).poster = a.of BY <3>3, <4>1
      <4>4. With(rows[a.at], u).alreadyExists = rows[a.at].alreadyExists BY <3>3, <4>1
      <4>5. rows[a.at].alreadyExists => FileHash[rows[a.at].file] \in server BY <1>7, <3>4
      <4>6. With(rows[a.at], u).alreadyExists => FileHash[rows[a.at].file] \in server
        BY <4>4, <4>5
      <4>  QED BY <4>2, <4>3, <4>6
    <3>  QED BY <1>9, <3>1, <3>3, <3>4
  <2>  QED BY <1>5, <2>1, <2>2, <2>3, <2>4
<1>  QED BY <1>3, <1>10, <1>11

\* The rows of files that were just dropped have no poster, and are shown.
LEMMA DropFilesKeepsInv ==
  ASSUME IInv, NEW files \in Drops, DropFiles(files)
  PROVE  IInv'
<1>  DEFINE list == [i \in DOMAIN files |-> [file |-> files[i], poster |-> None, alreadyExists |-> FALSE]]
<1>1. /\ rows' = list /\ asks' = RowsMounted(list, 1, torrents) /\ mixed' = mixed
      /\ UNCHANGED <<server, torrents>> /\ rows = None
  BY DEF DropFiles, MultiMounted
<1>2. files \in Seq(File) BY SourceAssumption
<1>3. DOMAIN files = 1 .. Len(files) /\ Len(files) \in Nat /\ \A i \in DOMAIN files : files[i] \in File
  BY <1>2
<1>4. \A i \in DOMAIN files : list[i] \in Row BY <1>3 DEF Row
<1>5. list \in Seq(Row) /\ DOMAIN list = DOMAIN files BY <1>3, <1>4
<1>6. \A i \in DOMAIN files : list[i].poster = None /\ list[i].alreadyExists = FALSE
  OBVIOUS
<1>  HIDE DEF list
<1>7. \A a \in RowsMounted(list, 1, torrents) :
         /\ a \in Asked /\ a.at \in 1 .. Len(list) /\ a.of = list[a.at].file
         /\ a.listed => FileHash[a.of] \in torrents
  BY <1>5, MountedAsks
<1>8. torrents \subseteq server BY DEF IInv, PollIsBehind
<1>9. PollIsBehind' BY <1>1, <1>8 DEF PollIsBehind
<1>10. AsksAreTheirs'
  <2>1. \A a \in asks' : /\ a.listed => FileHash[a.of] \in server
                         /\ a.at \in DOMAIN list => list[a.at].file = a.of
    BY <1>1, <1>7, <1>8
  <2>  QED BY <1>1, <2>1 DEF AsksAreTheirs
<1>11. RowsAreTheirs' BY <1>1, <1>5, <1>6 DEF RowsAreTheirs, RowsKeepTheirOwn
<1>12. asks' \subseteq Asked BY <1>1, <1>7
<1>  QED BY <1>1, <1>5, <1>9, <1>10, <1>11, <1>12 DEF IInv

\* The answer to an upload closes the list or leaves it.
LEMMA UploadsKeepInv ==
  ASSUME IInv, Uploads
  PROVE  IInv'
<1>1. PICK k \in DOMAIN uploads, ok \in BOOLEAN : \E f \in uploads[k] : Uploaded(k, f, ok)
  BY DEF Uploads
<1>2. server \subseteq server' /\ torrents' = torrents BY <1>1 DEF Uploaded
<1>3. PollIsBehind' BY <1>2 DEF IInv, PollIsBehind
<1>4. UNCHANGED <<rows, asks, mixed>> \/ rows' = None BY <1>1 DEF Uploaded, NoRows
<1>  QED BY <1>2, <1>3, <1>4, ListUntouched

-----------------------------------------------------------------------------
(* The theorem.                                                             *)

LEMMA InitInv == Init => IInv
BY DEF Init, IInv, PollIsBehind

LEMMA NextKeepsInv ==
  ASSUME IInv, [Next]_vars
  PROVE  IInv'
<1>1. CASE (FormStep \/ Saves \/ getTorrents) /\ Shut
  <2>1. PollIsBehind BY DEF IInv
  <2>2. PollIsBehind' /\ server \subseteq server' BY <1>1, <2>1, ServerGrows
  <2>3. UNCHANGED <<rows, asks, mixed>> \/ rows' = None BY <1>1 DEF Shut, NoRows
  <2>  QED BY <2>2, <2>3, ListUntouched
<1>2. CASE \E files \in Drops : DropFiles(files) BY <1>2, DropFilesKeepsInv
<1>3. CASE InList BY <1>3, InListKeepsInv
<1>4. CASE RowStep BY <1>4, RowStepKeepsInv
<1>5. CASE Uploads BY <1>5, UploadsKeepInv
<1>6. CASE UNCHANGED vars
  <2>1. UNCHANGED <<server, torrents, rows, asks, mixed>> BY <1>6 DEF vars, multiVars
  <2>2. PollIsBehind' BY <2>1 DEF IInv, PollIsBehind
  <2>  QED BY <2>1, <2>2, ListUntouched
<1>  QED BY <1>1, <1>2, <1>3, <1>4, <1>5, <1>6 DEF Next

\* However many files are dropped, sources typed and answers late: unless a row was removed
\* while one at or behind its place was asking, no row gets another film's poster or is hidden
\* for a torrent that is not listed (MultiAddDialog.jsx handleUpdate).
THEOREM RowsKeepTheirs == Spec => []RowsAreTheirs
<1>1. IInv => RowsAreTheirs BY DEF IInv, RowsAreTheirs, RowsKeepTheirOwn
<1>2. IInv /\ [Next]_vars => IInv' BY NextKeepsInv
<1>  QED BY InitInv, <1>1, <1>2, PTL DEF Spec
-----------------------------------------------------------------------------
(* The poster of the form.                                                  *)

Request == Lookup \cup Search

\* The searches among the requests of a dialog, and the one answered last.
Searches(s) == {i \in DOMAIN s.fetches : s.fetches[i].kind = "posters"}
LastSearch(s, i) == i \in Searches(s) /\ \A j \in Searches(s) : j <= i
LastIsFor(s, q) == Searches(s) # {} /\ \A i \in Searches(s) : LastSearch(s, i) => s.fetches[i].of = q

\* No search was made while the user had chosen a poster.
Tidy(s) == s.timers[TRUE] = None /\ \A i \in Searches(s) : ~s.fetches[i].chosen

\* The search that is still to come, the last one on its way, or else the poster, is for what
\* the title fields say now.
Current(s) ==
  /\ s.timers[FALSE] # None => s.timers[FALSE] = s.title
  /\ s.timers[FALSE] = None /\ Either(s.title, s.parsed) # None =>
       /\ \A i \in Searches(s) : LastSearch(s, i) => s.fetches[i].of \in {s.title, s.parsed}
       /\ Searches(s) = {} => s.poster \in {None, s.title, s.parsed}

\* Between two steps no search is skipped, and an original title was parsed.
Settled(s) == s \in Dialog /\ ~s.skip /\ (s.original => s.parsed # None)

PosterInv ==
  /\ Settled(d)
  /\ rows = None /\ ~d.chosen /\ ~d.revoked => Tidy(d) /\ Current(d)

\* What no search changes.
Kept(s, r) ==
  /\ r.title = s.title /\ r.original = s.original /\ r.parsed = s.parsed
  /\ r.chosen = s.chosen /\ r.revoked = s.revoked

\* None is no list of rows.
NoneIsNoFunction == \A f : f = [x \in DOMAIN f |-> f[x]] => f # None

-----------------------------------------------------------------------------
LEMMA NamesAreSome ==
  /\ None \notin Names
  /\ \A x \in Source : NameOf[x] \in Names \cup {None} /\ HashOf[x] \in Hash \cup {None}
  /\ Title \subseteq Names /\ Link \subseteq Source
BY SourceAssumption DEF Names

\* A request goes to the end.
LEMMA FetchAppends ==
  ASSUME NEW s \in Dialog, NEW f \in Request
  PROVE  \E g \in Seq(Request) :
            /\ Fetch(s, f) = [s EXCEPT !.fetches = g]
            /\ Len(g) > 0 /\ g[Len(g)] = f
            /\ \A i \in DOMAIN g : i = Len(g) \/ (i \in DOMAIN s.fetches /\ g[i] = s.fetches[i])
            /\ \A i \in DOMAIN s.fetches : i \in DOMAIN g /\ g[i] = s.fetches[i]
<1>1. s.fetches \in Seq(Request) BY DEF Dialog, Request
<1>2. CASE s.fetches # <<>> /\ Last(s.fetches) = f
  <2>1. Fetch(s, f) = [s EXCEPT !.fetches = s.fetches] BY <1>2 DEF Fetch, Dialog
  <2>2. Len(s.fetches) > 0 /\ s.fetches[Len(s.fetches)] = f BY <1>1, <1>2 DEF Last
  <2>  QED BY <1>1, <2>1, <2>2
<1>3. CASE ~(s.fetches # <<>> /\ Last(s.fetches) = f)
  <2>  DEFINE g == Append(s.fetches, f)
  <2>1. Fetch(s, f) = [s EXCEPT !.fetches = g] BY <1>3 DEF Fetch
  <2>2. g \in Seq(Request) /\ Len(g) = Len(s.fetches) + 1 /\ g[Len(g)] = f BY <1>1
  <2>3. \A i \in DOMAIN g : i = Len(g) \/ (i \in DOMAIN s.fetches /\ g[i] = s.fetches[i]) BY <1>1
  <2>4. \A i \in DOMAIN s.fetches : i \in DOMAIN g /\ g[i] = s.fetches[i] BY <1>1
  <2>5. Len(g) > 0 BY <1>1, <2>2
  <2>  HIDE DEF g
  <2>  QED BY <2>1, <2>2, <2>3, <2>4, <2>5
<1>  QED BY <1>2, <1>3

\* Looking up a hash or a name leaves the searches alone.
LEMMA LookupKeeps ==
  ASSUME NEW s \in Dialog, NEW f \in Lookup
  PROVE  LET r == Fetch(s, f) IN
         /\ r \in Dialog /\ Kept(s, r) /\ r.skip = s.skip
         /\ Tidy(s) => Tidy(r)
         /\ Current(s) => Current(r)
<1>  DEFINE r == Fetch(s, f)
<1>1. PICK g \in Seq(Request) :
            /\ r = [s EXCEPT !.fetches = g]
            /\ Len(g) > 0 /\ g[Len(g)] = f
            /\ \A i \in DOMAIN g : i = Len(g) \/ (i \in DOMAIN s.fetches /\ g[i] = s.fetches[i])
            /\ \A i \in DOMAIN s.fetches : i \in DOMAIN g /\ g[i] = s.fetches[i]
  BY FetchAppends DEF Request
<1>  HIDE DEF r
<1>2. r \in Dialog /\ r.fetches = g /\ Kept(s, r) /\ r.skip = s.skip /\ r.timers = s.timers /\ r.poster = s.poster
  BY <1>1 DEF Dialog, Kept, Request
<1>3. f.kind # "posters" BY DEF Lookup
<1>4. Searches(r) = Searches(s) /\ \A i \in Searches(s) : r.fetches[i] = s.fetches[i]
  BY <1>1, <1>2, <1>3 DEF Searches
<1>5. Tidy(s) => Tidy(r) BY <1>2, <1>4 DEF Tidy
<1>6. Current(s) => Current(r) BY <1>2, <1>4 DEF Current, Kept, LastSearch
<1>  QED BY <1>2, <1>5, <1>6 DEF r

\* A search is the last one from then on.
LEMMA SearchIsLast ==
  ASSUME NEW s \in Dialog, NEW q \in Names \cup {None}, NEW refresh \in BOOLEAN, NEW chosen \in BOOLEAN
  PROVE  LET r == posterSearch(s, q, refresh, chosen) IN
         /\ r \in Dialog /\ Kept(s, r) /\ r.skip = s.skip /\ r.timers = s.timers
         /\ ~chosen /\ Tidy(s) => Tidy(r)
         /\ q # None => LastIsFor(r, q)
         /\ q = None => r.fetches = s.fetches /\ r.poster = None
<1>  DEFINE r == posterSearch(s, q, refresh, chosen)
<1>1. CASE q = None
  <2>1. r = removePoster([s EXCEPT !.list = None]) BY <1>1 DEF posterSearch
  <2>2. r = [s EXCEPT !.list = None, !.posterOk = FALSE, !.poster = None] BY <2>1 DEF removePoster, Dialog
  <2>  HIDE DEF r
  <2>3. r \in Dialog /\ Kept(s, r) /\ r.skip = s.skip /\ r.timers = s.timers /\ r.fetches = s.fetches /\ r.poster = None
    BY <2>2 DEF Dialog, Kept, Posters
  <2>4. Tidy(s) => Tidy(r) BY <2>3 DEF Tidy, Searches
  <2>  QED BY <1>1, <2>3, <2>4 DEF r
<1>2. CASE q # None
  <2>  DEFINE f == [kind |-> "posters", of |-> q, refresh |-> refresh, chosen |-> chosen]
  <2>1. f \in Search BY <1>2 DEF Search
  <2>2. r = Fetch(s, f) BY <1>2 DEF posterSearch
  <2>3. f.kind = "posters" /\ f.of = q /\ f.chosen = chosen OBVIOUS
  <2>  HIDE DEF f
  <2>4. PICK g \in Seq(Request) :
            /\ r = [s EXCEPT !.fetches = g]
            /\ Len(g) > 0 /\ g[Len(g)] = f
            /\ \A i \in DOMAIN g : i = Len(g) \/ (i \in DOMAIN s.fetches /\ g[i] = s.fetches[i])
            /\ \A i \in DOMAIN s.fetches : i \in DOMAIN g /\ g[i] = s.fetches[i]
    BY <2>1, <2>2, FetchAppends DEF Request
  <2>  HIDE DEF r
  <2>5. r \in Dialog /\ r.fetches = g /\ Kept(s, r) /\ r.skip = s.skip /\ r.timers = s.timers
    BY <2>4 DEF Dialog, Kept, Request
  <2>6. DOMAIN g = 1 .. Len(g) /\ Len(g) \in Nat OBVIOUS
  <2>7. ~chosen /\ Tidy(s) => Tidy(r) BY <2>3, <2>4, <2>5 DEF Tidy, Searches
  <2>8. LastIsFor(r, q)
    <3>1. Len(g) \in Searches(r) BY <2>3, <2>4, <2>5, <2>6 DEF Searches
    <3>2. \A i \in Searches(r) : i \in 1 .. Len(g) BY <2>5, <2>6 DEF Searches
    <3>3. \A i \in Searches(r) : LastSearch(r, i) => i = Len(g) BY <2>6, <3>1, <3>2 DEF LastSearch
    <3>  QED BY <2>3, <2>4, <2>5, <3>1, <3>3 DEF LastIsFor
  <2>  QED BY <1>2, <2>5, <2>7, <2>8 DEF r
<1>  QED BY <1>1, <1>2

\* A search for what a field says is as good as the one it overtakes.
LEMMA SearchIsCurrent ==
  ASSUME NEW s \in Dialog, NEW q \in {s.title, s.parsed}, NEW refresh \in BOOLEAN, NEW chosen \in BOOLEAN,
         Current(s)
  PROVE  Current(posterSearch(s, q, refresh, chosen))
<1>  DEFINE r == posterSearch(s, q, refresh, chosen)
<1>1. q \in Names \cup {None} BY DEF Dialog
<1>2. /\ r \in Dialog /\ Kept(s, r) /\ r.timers = s.timers
      /\ q # None => LastIsFor(r, q)
      /\ q = None => r.fetches = s.fetches /\ r.poster = None
  BY <1>1, SearchIsLast
<1>3. SUFFICES Current(r) OBVIOUS
<1>  HIDE DEF r
<1>4. r.title = s.title /\ r.parsed = s.parsed BY <1>2 DEF Kept
<1>5. CASE q = None
  <2>1. Searches(r) = Searches(s) /\ \A i : LastSearch(r, i) => LastSearch(s, i) /\ r.fetches[i] = s.fetches[i]
    BY <1>2, <1>5 DEF Searches, LastSearch
  <2>2. Searches(r) = {} => r.poster = None BY <1>2, <1>5
  <2>  QED BY <1>2, <1>4, <2>1, <2>2 DEF Current
<1>6. CASE q # None
  <2>1. \A i \in Searches(r) : LastSearch(r, i) => r.fetches[i].of \in {r.title, r.parsed}
    BY <1>2, <1>4, <1>6 DEF LastIsFor
  <2>2. Searches(r) # {} BY <1>2, <1>6 DEF LastIsFor
  <2>  QED BY <1>2, <1>4, <2>1, <2>2 DEF Current
<1>  QED BY <1>5, <1>6

\* The effect on the title makes the search that is to come, or the last one, right.
LEMMA SearchForTitleIsCurrent ==
  ASSUME NEW s \in Dialog
  PROVE  LET r == SearchForTitle(s) IN
         /\ r \in Dialog /\ Kept(s, r) /\ r.skip = s.skip
         /\ ~s.chosen /\ Tidy(s) => Tidy(r) /\ Current(r)
<1>  DEFINE r == SearchForTitle(s)
            c == [s EXCEPT !.timers[s.chosen] = None]
<1>1. s.chosen \in BOOLEAN /\ s.title \in Names \cup {None} /\ s.parsed \in Names \cup {None}
  BY DEF Dialog
<1>2. s.timers \in [BOOLEAN -> Names \cup {None}] BY DEF Dialog
<1>3. CASE s.title # None
  <2>1. r = [s EXCEPT !.timers[s.chosen] = s.title] BY <1>3 DEF SearchForTitle
  <2>  HIDE DEF r
  <2>2. r.timers = [s.timers EXCEPT ![s.chosen] = s.title] BY <2>1 DEF Dialog
  <2>3. r \in Dialog /\ Kept(s, r) /\ r.skip = s.skip /\ r.fetches = s.fetches
    BY <1>1, <2>1 DEF Dialog, Kept
  <2>4. ASSUME ~s.chosen, Tidy(s)
        PROVE  Tidy(r) /\ Current(r)
    <3>1. s.chosen = FALSE BY <1>1, <2>4
    <3>2. r.timers[FALSE] = s.title /\ r.timers[TRUE] = s.timers[TRUE] BY <1>2, <2>2, <3>1
    <3>3. Tidy(r) BY <2>3, <2>4, <3>2 DEF Tidy, Searches
    <3>4. r.title = s.title BY <2>3 DEF Kept
    <3>5. Current(r) BY <1>3, <3>2, <3>4 DEF Current
    <3>  QED BY <3>3, <3>5
  <2>  QED BY <2>3, <2>4 DEF r
<1>4. CASE s.title = None
  <2>  HIDE DEF r, c
  <2>1. c \in Dialog /\ Kept(s, c) /\ c.skip = s.skip /\ c.fetches = s.fetches /\ c.title = None
    BY <1>1, <1>4 DEF Dialog, Kept, c
  <2>2. c.timers = [s.timers EXCEPT ![s.chosen] = None] BY DEF Dialog, c
  <2>3. ASSUME ~s.chosen, Tidy(s)
        PROVE  Tidy(c) /\ c.timers[FALSE] = None
    <3>1. s.chosen = FALSE BY <1>1, <2>3
    <3>2. c.timers[FALSE] = None /\ c.timers[TRUE] = s.timers[TRUE] BY <1>2, <2>2, <3>1
    <3>  QED BY <2>1, <2>3, <3>2 DEF Tidy, Searches
  <2>4. CASE s.parsed # None
    <3>1. r = posterSearch(c, s.parsed, FALSE, s.chosen) BY <1>4, <2>4 DEF SearchForTitle, r, c
    <3>2. /\ r \in Dialog /\ Kept(c, r) /\ r.skip = c.skip /\ r.timers = c.timers
          /\ ~s.chosen /\ Tidy(c) => Tidy(r)
          /\ LastIsFor(r, s.parsed)
      BY <1>1, <2>1, <2>4, <3>1, SearchIsLast
    <3>3. r.parsed = s.parsed BY <2>1, <3>2 DEF Kept
    <3>4. c.timers[FALSE] = None => Current(r) BY <3>2, <3>3 DEF Current, LastIsFor
    <3>5. Kept(s, r) /\ r.skip = s.skip BY <2>1, <3>2 DEF Kept
    <3>  QED BY <2>3, <3>2, <3>4, <3>5 DEF r
  <2>5. CASE s.parsed = None
    <3>1. r = IF s.chosen THEN c ELSE removePoster(c) BY <1>4, <2>5 DEF SearchForTitle, r, c
    <3>2. removePoster(c) = [c EXCEPT !.posterOk = FALSE, !.poster = None] BY DEF removePoster
    <3>3. r \in Dialog /\ Kept(c, r) /\ r.skip = c.skip /\ r.timers = c.timers /\ r.fetches = c.fetches
      BY <1>1, <2>1, <3>1, <3>2 DEF Dialog, Posters, Kept
    <3>4. Tidy(c) => Tidy(r) BY <3>3 DEF Tidy, Searches
    <3>5. r.title = None /\ r.parsed = None BY <1>4, <2>1, <2>5, <3>3 DEF Kept
    <3>6. c.timers[FALSE] = None => Current(r) BY <3>3, <3>5 DEF Current, Either
    <3>7. Kept(s, r) /\ r.skip = s.skip BY <2>1, <3>3 DEF Kept
    <3>  QED BY <2>3, <3>3, <3>4, <3>6, <3>7 DEF r
  <2>  QED BY <2>4, <2>5
<1>  QED BY <1>3, <1>4

LEMMA TitleEffectIsCurrent ==
  ASSUME NEW s \in Dialog, NEW changed \in BOOLEAN
  PROVE  LET r == TitleEffect(s, changed) IN
         /\ r \in Dialog /\ Kept(s, r)
         /\ ~s.skip \/ s.parsed # None => ~r.skip
         /\ ~s.chosen /\ Tidy(s) => Tidy(r)
         /\ ~s.chosen /\ Tidy(s) /\ s.parsed # None => Current(r)
         /\ ~s.chosen /\ Tidy(s) /\ ~s.skip /\ (changed \/ Current(s)) => Current(r)
<1>  DEFINE r == TitleEffect(s, changed)
            q == Either(s.title, s.parsed)
            p == posterSearch(s, q, FALSE, s.chosen)
            u == [p EXCEPT !.skip = FALSE]
<1>1. CASE ~changed /\ s.parsed = None
  <2>1. r = s BY <1>1 DEF TitleEffect
  <2>  HIDE DEF r
  <2>  QED BY <1>1, <2>1 DEF r, Kept
<1>2. CASE ~(~changed /\ s.parsed = None) /\ ~s.skip
  <2>1. r = SearchForTitle(s) BY <1>2 DEF TitleEffect
  <2>  HIDE DEF r
  <2>  QED BY <1>2, <2>1, SearchForTitleIsCurrent DEF r
<1>3. CASE ~(~changed /\ s.parsed = None) /\ s.skip
  <2>1. r = IF u.parsed = None THEN u ELSE SearchForTitle(u) BY <1>3 DEF TitleEffect
  <2>2. q \in Names \cup {None} /\ s.chosen \in BOOLEAN BY DEF Dialog, Either
  <2>  HIDE DEF r, q
  <2>3. p \in Dialog /\ Kept(s, p) /\ (~s.chosen /\ Tidy(s) => Tidy(p)) BY <2>2, SearchIsLast
  <2>  HIDE DEF p
  <2>4. u \in Dialog /\ Kept(p, u) /\ ~u.skip /\ u.fetches = p.fetches /\ u.timers = p.timers
    <3>1. ASSUME NEW x \in Dialog, NEW y, y = [x EXCEPT !.skip = FALSE]
          PROVE  y \in Dialog /\ Kept(x, y) /\ y.skip = FALSE /\ y.fetches = x.fetches /\ y.timers = x.timers
      BY <3>1 DEF Dialog, Kept
    <3>2. u = [p EXCEPT !.skip = FALSE] OBVIOUS
    <3>  HIDE DEF u
    <3>  QED BY <2>3, <3>1, <3>2
  <2>  HIDE DEF u
  <2>5. Kept(s, u) /\ u.parsed = s.parsed /\ u.chosen = s.chosen BY <2>3, <2>4 DEF Kept
  <2>6. ~s.chosen /\ Tidy(s) => Tidy(u) BY <2>3, <2>4 DEF Tidy, Searches
  <2>7. CASE s.parsed = None BY <1>3, <2>1, <2>4, <2>5, <2>6, <2>7 DEF r
  <2>8. CASE s.parsed # None
    <3>1. r = SearchForTitle(u) BY <2>1, <2>5, <2>8
    <3>2. /\ r \in Dialog /\ Kept(u, r) /\ r.skip = u.skip
          /\ ~u.chosen /\ Tidy(u) => Tidy(r) /\ Current(r)
      BY <2>4, <3>1, SearchForTitleIsCurrent
    <3>3. Kept(s, r) BY <2>5, <3>2 DEF Kept
    <3>  QED BY <1>3, <2>4, <2>5, <2>6, <3>2, <3>3 DEF r
  <2>  QED BY <2>7, <2>8
<1>  QED BY <1>1, <1>2, <1>3

\* A name that was found is searched for at once.
LEMMA NamedIsCurrent ==
  ASSUME NEW s, Settled(s), NEW name \in Names \cup {None}
  PROVE  LET r == TitleFromSource(s, name) IN
         /\ Settled(r) /\ r.chosen = s.chosen /\ r.revoked = s.revoked
         /\ ~s.chosen /\ Tidy(s) => Tidy(r) /\ (Current(s) \/ name # None => Current(r))
<1>1. s \in Dialog /\ ~s.skip BY DEF Settled
<1>2. CASE name = None BY <1>2 DEF TitleFromSource
<1>3. CASE name # None
  <2>  DEFINE a == [s EXCEPT !.skip = TRUE]
              b == TitleEffect(a, FALSE)
              c == [b EXCEPT !.title = None]
              e == TitleEffect(c, b.title # None)
              g == [e EXCEPT !.custom = FALSE, !.original = TRUE, !.parsed = name]
              r == TitleEffect(g, FALSE)
  <2>1. TitleFromSource(s, name) = r BY <1>3 DEF TitleFromSource
  <2>2. ASSUME NEW x \in Dialog, NEW y,
               \/ y = [x EXCEPT !.skip = TRUE]
               \/ y = [x EXCEPT !.title = None]
               \/ y = [x EXCEPT !.custom = FALSE, !.original = TRUE, !.parsed = name]
        PROVE  /\ y \in Dialog /\ y.chosen = x.chosen /\ y.revoked = x.revoked
               /\ Tidy(x) => Tidy(y)
    <3>1. /\ y \in Dialog /\ y.chosen = x.chosen /\ y.revoked = x.revoked
          /\ y.timers = x.timers /\ y.fetches = x.fetches
      BY <2>2 DEF Dialog
    <3>  QED BY <3>1 DEF Tidy, Searches
  <2>3. ASSUME NEW x \in Dialog, NEW changed \in BOOLEAN, NEW y, y = TitleEffect(x, changed)
        PROVE  /\ y \in Dialog /\ y.chosen = x.chosen /\ y.revoked = x.revoked
               /\ y.original = x.original /\ y.parsed = x.parsed
               /\ ~x.chosen /\ Tidy(x) => Tidy(y)
               /\ x.parsed # None => ~y.skip
               /\ ~x.chosen /\ Tidy(x) /\ x.parsed # None => Current(y)
    BY <2>3, TitleEffectIsCurrent DEF Kept
  <2>4. g \in Dialog => g.parsed = name /\ g.original = TRUE
    <3>  HIDE DEF e
    <3>1. e \in Dialog => g.parsed = name /\ g.original = TRUE BY DEF Dialog
    <3>2. e \in Dialog
      <4>1. a \in Dialog BY <1>1, <2>2
      <4>  HIDE DEF a
      <4>2. b \in Dialog BY <2>3, <4>1
      <4>  HIDE DEF b
      <4>3. c \in Dialog BY <2>2, <4>2
      <4>  HIDE DEF c
      <4>  QED BY <2>3, <4>3 DEF e
    <3>  QED BY <3>1, <3>2
  <2>5. a \in Dialog /\ a.chosen = s.chosen /\ a.revoked = s.revoked /\ (Tidy(s) => Tidy(a))
    BY <1>1, <2>2
  <2>  HIDE DEF a
  <2>6. b \in Dialog /\ b.chosen = a.chosen /\ b.revoked = a.revoked /\ (~a.chosen /\ Tidy(a) => Tidy(b))
    BY <2>3, <2>5
  <2>  HIDE DEF b
  <2>7. c \in Dialog /\ c.chosen = b.chosen /\ c.revoked = b.revoked /\ (Tidy(b) => Tidy(c))
    BY <2>2, <2>6
  <2>  HIDE DEF c
  <2>8. e \in Dialog /\ e.chosen = c.chosen /\ e.revoked = c.revoked /\ (~c.chosen /\ Tidy(c) => Tidy(e))
    BY <2>3, <2>7
  <2>  HIDE DEF e
  <2>9. g \in Dialog /\ g.chosen = e.chosen /\ g.revoked = e.revoked /\ (Tidy(e) => Tidy(g))
    BY <2>2, <2>8
  <2>10. g.parsed = name /\ g.original = TRUE BY <2>4, <2>9
  <2>  HIDE DEF g
  <2>11. /\ r \in Dialog /\ r.chosen = g.chosen /\ r.revoked = g.revoked
         /\ r.original = g.original /\ r.parsed = g.parsed
         /\ ~g.chosen /\ Tidy(g) => Tidy(r)
         /\ g.parsed # None => ~r.skip
         /\ ~g.chosen /\ Tidy(g) /\ g.parsed # None => Current(r)
    BY <2>3, <2>9
  <2>  HIDE DEF r
  <2>  QED BY <1>3, <2>1, <2>5, <2>6, <2>7, <2>8, <2>9, <2>10, <2>11 DEF Settled
<1>  QED BY <1>2, <1>3

\* Whether the name is in the source or looked up.
LEMMA SourceIsCurrent ==
  ASSUME NEW s, Settled(s)
  PROVE  LET r == updateTitleFromSource(s) IN
         /\ Settled(r) /\ r.chosen = s.chosen /\ r.revoked = s.revoked
         /\ ~s.chosen /\ Tidy(s) => Tidy(r) /\ (Current(s) => Current(r))
<1>1. s \in Dialog BY DEF Settled
<1>2. CASE s.source \in Link
  <2>  DEFINE f == [kind |-> "name", of |-> s.source]
  <2>1. f \in Lookup BY <1>2 DEF Lookup
  <2>2. updateTitleFromSource(s) = Fetch(s, f) BY <1>2 DEF updateTitleFromSource
  <2>  HIDE DEF f
  <2>  QED BY <1>1, <2>1, <2>2, LookupKeeps DEF Settled, Kept
<1>3. CASE s.source \notin Link
  <2>1. PICK name \in Names \cup {None} : updateTitleFromSource(s) = TitleFromSource(s, name)
    BY <1>3, NamesAreSome DEF updateTitleFromSource
  <2>  QED BY <2>1, NamedIsCurrent
<1>  QED BY <1>2, <1>3

-----------------------------------------------------------------------------
(* What a render keeps.                                                     *)

\* The state a step may render: right again, if the state before it was.  A choice may be taken
\* back only at rest.
Renders(r) ==
  /\ Settled(r) /\ r.revoked = d.revoked
  /\ rows = None /\ ~r.chosen /\ (IF d.chosen THEN AtRest ELSE Tidy(d) /\ Current(d))
       => Tidy(r) /\ Current(r)

Formed ==
  /\ Settled(d')
  /\ rows = None /\ ~d'.chosen /\ ~d'.revoked => Tidy(d') /\ Current(d')
  /\ open' # open => d' = Mounted \/ d'.chosen

LEMMA MountedIsCurrent ==
  Mounted \in Dialog /\ Settled(Mounted) /\ Tidy(Mounted) /\ Current(Mounted)
<1>1. Mounted \in Dialog BY DEF Mounted, Dialog, Posters
<1>2. /\ Mounted.skip = FALSE /\ Mounted.original = FALSE /\ Mounted.fetches = <<>>
      /\ Mounted.timers = [c \in BOOLEAN |-> None] /\ Mounted.title = None /\ Mounted.parsed = None
  BY DEF Mounted
<1>3. Searches(Mounted) = {} BY <1>2 DEF Searches
<1>4. Mounted.timers[TRUE] = None /\ Mounted.timers[FALSE] = None BY <1>2
<1>5. Tidy(Mounted) BY <1>3, <1>4 DEF Tidy
<1>6. Current(Mounted) BY <1>2, <1>4 DEF Current, Either
<1>  QED BY <1>1, <1>2, <1>5, <1>6 DEF Settled

LEMMA RenderKeeps ==
  ASSUME PosterInv, NEW r, Renders(r), NEW listed, Render(r, listed)
  PROVE  Formed
<1>  DEFINE e == ExistsEffect(r, listed)
            n == [e EXCEPT !.revoked = @ \/ (d.chosen /\ ~e.chosen /\ ~AtRest)]
<1>1. CASE d' = Mounted BY <1>1, MountedIsCurrent DEF Formed
<1>2. CASE open' = open /\ d' = n
  <2>1. r \in Dialog BY DEF Renders, Settled
  <2>2. /\ e \in Dialog /\ e.chosen = r.chosen /\ e.revoked = r.revoked /\ e.skip = r.skip
        /\ e.original = r.original /\ e.parsed = r.parsed /\ e.title = r.title
        /\ e.timers = r.timers /\ e.fetches = r.fetches /\ e.poster = r.poster
    <3>  DEFINE b == r.hash \in listed
    <3>1. e = r \/ e = [r EXCEPT !.exists = b] BY DEF ExistsEffect
    <3>2. b \in BOOLEAN OBVIOUS
    <3>  HIDE DEF e, b
    <3>  QED BY <2>1, <3>1, <3>2 DEF Dialog
  <2>  HIDE DEF e
  <2>3. e.revoked \in BOOLEAN /\ d.chosen \in BOOLEAN /\ e.chosen \in BOOLEAN
    BY <2>2 DEF PosterInv, Settled, Dialog
  <2>  DEFINE late == e.revoked \/ (d.chosen /\ ~e.chosen /\ ~AtRest)
  <2>4. n = [e EXCEPT !.revoked = late] /\ late \in BOOLEAN BY <2>2 DEF Dialog
  <2>  HIDE DEF n, late
  <2>5. /\ n \in Dialog /\ n.chosen = e.chosen /\ n.skip = e.skip
        /\ n.original = e.original /\ n.parsed = e.parsed /\ n.title = e.title
        /\ n.timers = e.timers /\ n.fetches = e.fetches /\ n.poster = e.poster
    BY <2>2, <2>4 DEF Dialog
  <2>6. n.revoked = (e.revoked \/ (d.chosen /\ ~e.chosen /\ ~AtRest)) BY <2>2, <2>4 DEF Dialog, late
  <2>7. Settled(n) BY <2>2, <2>5 DEF Renders, Settled
  <2>8. ASSUME rows = None, ~n.chosen, ~n.revoked
        PROVE  Tidy(n) /\ Current(n)
    <3>1. ~r.chosen /\ ~d.revoked /\ (d.chosen => AtRest) BY <2>2, <2>5, <2>6, <2>8 DEF Renders
    <3>2. ~d.chosen => Tidy(d) /\ Current(d) BY <2>8, <3>1 DEF PosterInv
    <3>3. Tidy(r) /\ Current(r) BY <2>8, <3>1, <3>2 DEF Renders
    <3>4. Searches(n) = Searches(r) BY <2>2, <2>5 DEF Searches
    <3>5. Tidy(n) BY <2>2, <2>5, <3>3, <3>4 DEF Tidy
    <3>6. Current(n) BY <2>2, <2>5, <3>3, <3>4 DEF Current, LastSearch
    <3>  QED BY <3>5, <3>6
  <2>  QED BY <1>2, <2>7, <2>8 DEF Formed
<1>  QED BY <1>1, <1>2 DEF Render

\* Fields that no search depends on.
LEMMA OtherFields ==
  ASSUME PosterInv, NEW r, r \in Dialog, Kept(d, r), r.skip = d.skip,
         r.timers = d.timers, r.fetches = d.fetches, r.poster \in {d.poster, None}
  PROVE  Renders(r)
<1>1. Settled(r) BY DEF PosterInv, Settled, Kept
<1>2. r.chosen = d.chosen /\ r.revoked = d.revoked /\ r.title = d.title /\ r.parsed = d.parsed BY DEF Kept
<1>3. Searches(r) = Searches(d) BY DEF Searches
<1>4. Tidy(d) => Tidy(r) BY <1>3 DEF Tidy
<1>5. Current(d) => Current(r) BY <1>2, <1>3 DEF Current, LastSearch
<1>  QED BY <1>1, <1>2, <1>4, <1>5 DEF Renders

LEMMA RestIsTidy ==
  ASSUME AtRest
  PROVE  Tidy(d) /\ Searches(d) = {} /\ d.timers[FALSE] = None
<1>1. d.timers[FALSE] = None /\ d.timers[TRUE] = None BY DEF AtRest
<1>2. Searches(d) = {} BY DEF AtRest, Searches
<1>  QED BY <1>1, <1>2 DEF Tidy

-----------------------------------------------------------------------------
(* The user.                                                                *)

LEMMA SetSourceKeeps ==
  ASSUME PosterInv, NEW src \in Source \cup {None}, SetSource(src)
  PROVE  Formed
<1>  DEFINE a == [d EXCEPT !.source = src, !.correct = checkTorrentSource(src)]
            s == LookUpHash(a)
            r == IF src = None THEN TitleEffect(ClearSource(s), d.title # None) ELSE CheckSource(s)
<1>1. Render(r, torrents) BY DEF SetSource
<1>2. Settled(d) /\ d \in Dialog BY DEF PosterInv, Settled
<1>3. checkTorrentSource(src) \in BOOLEAN BY DEF checkTorrentSource
<1>4. /\ a \in Dialog /\ Kept(d, a) /\ a.skip = d.skip /\ a.source = src
      /\ a.timers = d.timers /\ a.fetches = d.fetches /\ a.poster = d.poster
  BY <1>2, <1>3 DEF Dialog, Kept
<1>  HIDE DEF a
<1>5. Renders(a) BY <1>4, OtherFields
<1>6. /\ s \in Dialog /\ Kept(a, s) /\ s.skip = a.skip
      /\ Tidy(a) => Tidy(s)
      /\ Current(a) => Current(s)
      /\ src = None => s.timers = a.timers
  <2>1. CASE src \in Link
    <3>  DEFINE f == [kind |-> "hash", of |-> src]
    <3>1. f \in Lookup BY <2>1 DEF Lookup
    <3>2. s = Fetch(a, f) BY <1>4, <2>1 DEF LookUpHash
    <3>3. src # None BY <2>1, NamesAreSome, SourceAssumption
    <3>  HIDE DEF f, s
    <3>  QED BY <1>4, <3>1, <3>2, <3>3, LookupKeeps
  <2>2. CASE src \notin Link
    <3>  DEFINE h == IF checkTorrentSource(src) THEN HashOf[src] ELSE None
    <3>1. s = [a EXCEPT !.hash = h] BY <1>4, <2>2 DEF LookUpHash
    <3>2. h \in Hash \cup {None} BY NamesAreSome DEF checkTorrentSource
    <3>  HIDE DEF h, s
    <3>3. /\ s \in Dialog /\ Kept(a, s) /\ s.skip = a.skip
          /\ s.timers = a.timers /\ s.fetches = a.fetches /\ s.poster = a.poster
      BY <1>4, <3>1, <3>2 DEF Dialog, Kept
    <3>4. Searches(s) = Searches(a) /\ s.title = a.title /\ s.parsed = a.parsed BY <3>3 DEF Searches, Kept
    <3>  QED BY <3>3, <3>4 DEF Tidy, Current, LastSearch
  <2>  QED BY <2>1, <2>2
<1>  HIDE DEF s
<1>7. /\ Settled(s) /\ Kept(d, s)
      /\ Tidy(d) => Tidy(a)
      /\ Current(d) => Current(a)
  <2>1. Searches(a) = Searches(d) BY <1>4 DEF Searches
  <2>  QED BY <1>2, <1>4, <1>6, <2>1 DEF Settled, Kept, Tidy, Current, LastSearch
<1>8. CASE src = None
  <2>  DEFINE c == ClearSource(s)
  <2>1. c = [s EXCEPT !.title = None, !.original = FALSE, !.parsed = None, !.custom = FALSE,
                      !.list = None, !.chosen = FALSE, !.posterOk = FALSE, !.poster = None]
    BY <1>6 DEF ClearSource, removePoster, Dialog
  <2>  HIDE DEF c
  <2>2. /\ c \in Dialog /\ c.title = None /\ c.original = FALSE /\ c.parsed = None /\ c.chosen = FALSE
        /\ c.timers = s.timers /\ c.fetches = s.fetches /\ c.skip = s.skip /\ c.revoked = s.revoked
    BY <1>6, <2>1 DEF Dialog, Posters
  <2>3. /\ r \in Dialog /\ Kept(c, r)
        /\ ~c.skip => ~r.skip
        /\ Tidy(c) => Tidy(r)
        /\ Tidy(c) /\ ~c.skip /\ (d.title # None \/ Current(c)) => Current(r)
    <3>1. r = TitleEffect(c, d.title # None) BY <1>8 DEF c
    <3>2. (d.title # None) \in BOOLEAN OBVIOUS
    <3>  HIDE DEF r
    <3>  QED BY <2>2, <3>1, <3>2, TitleEffectIsCurrent
  <2>  HIDE DEF r
  <2>4. Settled(r) /\ r.revoked = d.revoked BY <1>7, <2>2, <2>3 DEF Settled, Kept
  <2>5. ASSUME IF d.chosen THEN AtRest ELSE Tidy(d) /\ Current(d)
        PROVE  Tidy(r) /\ Current(r)
    <3>1. Tidy(d) /\ (d.title = None => d.timers[FALSE] = None)
      BY <2>5, RestIsTidy DEF Current
    <3>2. Tidy(s) BY <1>6, <1>7, <3>1
    <3>3. Tidy(c) BY <2>2, <3>2 DEF Tidy, Searches
    <3>4. c.timers = d.timers BY <1>4, <1>6, <1>8, <2>2
    <3>5. d.title = None => Current(c) BY <2>2, <3>1, <3>4 DEF Current, Either
    <3>  QED BY <1>7, <2>2, <2>3, <3>3, <3>5 DEF Settled
  <2>6. Renders(r) BY <2>4, <2>5 DEF Renders
  <2>  QED BY <1>1, <2>6, RenderKeeps DEF r
<1>9. CASE src # None
  <2>1. r = IF s.correct THEN updateTitleFromSource(s) ELSE s BY <1>9 DEF CheckSource
  <2>  HIDE DEF r
  <2>2. /\ Settled(r) /\ r.chosen = s.chosen /\ r.revoked = s.revoked
        /\ ~s.chosen /\ Tidy(s) => Tidy(r) /\ (Current(s) => Current(r))
    BY <1>7, <2>1, SourceIsCurrent
  <2>3. Renders(r) BY <1>6, <1>7, <2>2 DEF Renders, Kept
  <2>  QED BY <1>1, <2>3, RenderKeeps
<1>  QED BY <1>8, <1>9

\* The effect on the title makes everything right again when a name is known, or the title is new.
LEMMA TitleRenders ==
  ASSUME PosterInv, NEW s, Settled(s), s.revoked = d.revoked, NEW changed \in BOOLEAN,
         rows = None /\ ~s.chosen /\ (IF d.chosen THEN AtRest ELSE Tidy(d) /\ Current(d))
           => Tidy(s) /\ (s.parsed # None \/ changed \/ Current(s))
  PROVE  Renders(TitleEffect(s, changed))
<1>  DEFINE r == TitleEffect(s, changed)
<1>1. /\ r \in Dialog /\ Kept(s, r) /\ ~r.skip
      /\ ~s.chosen /\ Tidy(s) => Tidy(r)
      /\ ~s.chosen /\ Tidy(s) /\ (s.parsed # None \/ changed \/ Current(s)) => Current(r)
  BY TitleEffectIsCurrent DEF Settled
<1>2. SUFFICES Renders(r) OBVIOUS
<1>  HIDE DEF r
<1>  QED BY <1>1 DEF Renders, Settled, Kept

LEMMA SetTitleKeeps ==
  ASSUME PosterInv, NEW t \in Title \cup {None}, SetTitle(t)
  PROVE  Formed
<1>  DEFINE custom == d.original /\ t # None
            s == [d EXCEPT !.title = t, !.custom = custom]
<1>1. Render(TitleEffect(s, TRUE), torrents) BY DEF SetTitle
<1>2. d \in Dialog /\ Settled(d) /\ d.original \in BOOLEAN BY DEF PosterInv, Settled, Dialog
<1>3. t \in Names \cup {None} BY NamesAreSome
<1>4. custom \in BOOLEAN OBVIOUS
<1>  HIDE DEF custom
<1>5. /\ s \in Dialog /\ s.original = d.original /\ s.parsed = d.parsed /\ s.skip = d.skip
      /\ s.revoked = d.revoked /\ s.chosen = d.chosen /\ s.timers = d.timers /\ s.fetches = d.fetches
  BY <1>2, <1>3, <1>4 DEF Dialog
<1>  HIDE DEF s
<1>6. Settled(s) BY <1>2, <1>5 DEF Settled
<1>7. ~s.chosen /\ (IF d.chosen THEN AtRest ELSE Tidy(d) /\ Current(d)) => Tidy(s)
  BY <1>5 DEF Tidy, Searches
<1>8. Renders(TitleEffect(s, TRUE)) BY <1>5, <1>6, <1>7, TitleRenders
<1>  QED BY <1>1, <1>8, RenderKeeps

\* A title that is reset leaves the one that was parsed.
LEMMA ResetTitleKeeps ==
  ASSUME PosterInv, ResetTitle
  PROVE  Formed
<1>  DEFINE custom == ~d.custom
            s == [d EXCEPT !.title = None, !.custom = custom, !.chosen = FALSE]
            changed == d.title # None
            e == TitleEffect(s, changed)
            r == updateTitleFromSource(e)
<1>1. Render(r, torrents) /\ d.original BY DEF ResetTitle
<1>2. d \in Dialog /\ Settled(d) /\ custom \in BOOLEAN BY DEF PosterInv, Settled, Dialog
<1>  HIDE DEF custom
<1>3. /\ s \in Dialog /\ s.original = d.original /\ s.parsed = d.parsed /\ s.skip = d.skip
      /\ s.revoked = d.revoked /\ s.chosen = FALSE /\ s.timers = d.timers /\ s.fetches = d.fetches
  BY <1>2 DEF Dialog
<1>  HIDE DEF s
<1>4. Settled(s) /\ s.parsed # None BY <1>1, <1>2, <1>3 DEF Settled
<1>5. changed \in BOOLEAN OBVIOUS
<1>  HIDE DEF changed
<1>6. /\ e \in Dialog /\ Kept(s, e) /\ ~e.skip
      /\ ~s.chosen /\ Tidy(s) => Tidy(e) /\ Current(e)
  BY <1>4, <1>5, TitleEffectIsCurrent DEF Settled
<1>  HIDE DEF e
<1>7. Settled(e) /\ e.chosen = FALSE /\ e.revoked = d.revoked
  BY <1>3, <1>4, <1>6 DEF Settled, Kept
<1>8. /\ Settled(r) /\ r.chosen = e.chosen /\ r.revoked = e.revoked
      /\ ~e.chosen /\ Tidy(e) => Tidy(r) /\ (Current(e) => Current(r))
  BY <1>7, SourceIsCurrent
<1>  HIDE DEF r
<1>9. (IF d.chosen THEN AtRest ELSE Tidy(d) /\ Current(d)) => Tidy(s)
  BY <1>3, RestIsTidy DEF Tidy, Searches
<1>10. Renders(r) BY <1>3, <1>6, <1>7, <1>8, <1>9 DEF Renders
<1>  QED BY <1>1, <1>10, RenderKeeps

\* Emptying the field gives up the choice, and a name that is known is searched for again.
LEMMA SetPosterUrlKeeps ==
  ASSUME PosterInv, NEW p \in {Picked, None}, SetPosterUrl(p)
  PROVE  Formed
<1>  DEFINE ok == checkImageURL(p)
            chosen == p # None
            s == [d EXCEPT !.poster = p, !.posterOk = ok, !.chosen = chosen, !.list = None]
            r == IF s.chosen = d.chosen THEN s ELSE TitleEffect(s, FALSE)
<1>1. Render(r, torrents) BY DEF SetPosterUrl
<1>2. d \in Dialog /\ Settled(d) /\ d.chosen \in BOOLEAN BY DEF PosterInv, Settled, Dialog
<1>3. ok \in BOOLEAN /\ chosen \in BOOLEAN /\ p \in Posters \cup {None} /\ (~chosen => p = None)
  BY DEF checkImageURL, Posters
<1>  HIDE DEF ok, chosen
<1>4. /\ s \in Dialog /\ s.original = d.original /\ s.parsed = d.parsed /\ s.title = d.title
      /\ s.skip = d.skip /\ s.revoked = d.revoked /\ s.timers = d.timers /\ s.fetches = d.fetches
      /\ s.poster = p /\ s.chosen = chosen
  <2>1. s \in Dialog
    <3>1. d \in Dialog /\ ok \in BOOLEAN /\ chosen \in BOOLEAN /\ p \in Posters \cup {None} BY <1>2, <1>3
    <3>  QED BY <3>1 DEF Dialog, Posters
  <2>2. /\ s.original = d.original /\ s.parsed = d.parsed /\ s.title = d.title
        /\ s.skip = d.skip /\ s.revoked = d.revoked /\ s.timers = d.timers /\ s.fetches = d.fetches
        /\ s.poster = p /\ s.chosen = chosen
    BY <1>2 DEF Dialog
  <2>  QED BY <2>1, <2>2
<1>  HIDE DEF s
<1>5. Settled(s) /\ Searches(s) = Searches(d) BY <1>2, <1>4 DEF Settled, Searches
<1>6. ASSUME ~s.chosen, IF d.chosen THEN AtRest ELSE Tidy(d) /\ Current(d)
      PROVE  Tidy(s) /\ Current(s)
  <2>1. Tidy(s) BY <1>4, <1>5, <1>6, RestIsTidy DEF Tidy
  <2>2. s.poster = None BY <1>3, <1>4, <1>6
  <2>3. CASE AtRest
    <3>1. s.timers[FALSE] = None /\ Searches(s) = {} BY <1>4, <1>5, <2>3, RestIsTidy
    <3>  QED BY <2>1, <2>2, <3>1 DEF Current
  <2>4. CASE Current(d)
    <3>1. \A i : LastSearch(s, i) => LastSearch(d, i) BY <1>5 DEF LastSearch
    <3>  QED BY <1>4, <1>5, <2>1, <2>2, <2>4, <3>1 DEF Current
  <2>  QED BY <1>6, <2>1, <2>3, <2>4
<1>7. Renders(s) BY <1>4, <1>5, <1>6 DEF Renders
<1>8. Renders(TitleEffect(s, FALSE)) BY <1>4, <1>5, <1>6, TitleRenders
<1>9. Renders(r) BY <1>7, <1>8
<1>  HIDE DEF r
<1>  QED BY <1>1, <1>9, RenderKeeps

\* A chosen poster is the user's own.
LEMMA ChosenRenders ==
  ASSUME PosterInv, NEW s, Settled(s), s.revoked = d.revoked, s.chosen
  PROVE  Renders(s) /\ Renders(TitleEffect(s, FALSE))
<1>1. Renders(s) BY DEF Renders
<1>2. Renders(TitleEffect(s, FALSE)) BY TitleRenders
<1>  QED BY <1>1, <1>2

LEMMA PickPosterKeeps ==
  ASSUME PosterInv, PickPoster
  PROVE  Formed
<1>  DEFINE s == [d EXCEPT !.poster = Picked, !.posterOk = TRUE, !.chosen = TRUE]
            r == IF d.chosen THEN s ELSE TitleEffect(s, FALSE)
<1>1. Render(r, torrents) BY DEF PickPoster
<1>2. d \in Dialog /\ Settled(d) BY DEF PosterInv, Settled
<1>3. /\ s \in Dialog /\ s.original = d.original /\ s.parsed = d.parsed
      /\ s.skip = d.skip /\ s.revoked = d.revoked /\ s.chosen = TRUE
  BY <1>2 DEF Dialog, Posters
<1>  HIDE DEF s
<1>4. Settled(s) BY <1>2, <1>3 DEF Settled
<1>5. Renders(r) BY <1>3, <1>4, ChosenRenders
<1>  HIDE DEF r
<1>  QED BY <1>1, <1>5, RenderKeeps

LEMMA ClearPosterKeeps ==
  ASSUME PosterInv, ClearPoster
  PROVE  Formed
<1>  DEFINE s == removePoster([d EXCEPT !.chosen = TRUE])
            r == IF d.chosen THEN s ELSE TitleEffect(s, FALSE)
<1>1. Render(r, torrents) BY DEF ClearPoster
<1>2. d \in Dialog /\ Settled(d) BY DEF PosterInv, Settled
<1>3. s = [d EXCEPT !.chosen = TRUE, !.posterOk = FALSE, !.poster = None]
  BY <1>2 DEF removePoster, Dialog
<1>  HIDE DEF s
<1>4. /\ s \in Dialog /\ s.original = d.original /\ s.parsed = d.parsed
      /\ s.skip = d.skip /\ s.revoked = d.revoked /\ s.chosen = TRUE
  BY <1>2, <1>3 DEF Dialog, Posters
<1>5. Settled(s) BY <1>2, <1>4 DEF Settled
<1>6. Renders(r) BY <1>4, <1>5, ChosenRenders
<1>  HIDE DEF r
<1>  QED BY <1>1, <1>6, RenderKeeps

\* The two buttons search for what the fields say.
LEMMA ButtonSearches ==
  ASSUME PosterInv, NEW refresh \in BOOLEAN
  PROVE  LET r == posterSearch(d, FixedTitle(d), refresh, d.chosen) IN
         Renders(r) /\ Renders(TitleEffect(r, FALSE))
<1>  DEFINE q == FixedTitle(d)
            r == posterSearch(d, q, refresh, d.chosen)
<1>1. d \in Dialog /\ Settled(d) /\ d.chosen \in BOOLEAN BY DEF PosterInv, Settled, Dialog
<1>2. q \in {d.title, d.parsed} /\ q \in Names \cup {None} BY <1>1 DEF FixedTitle, Dialog
<1>  HIDE DEF q
<1>3. /\ r \in Dialog /\ Kept(d, r) /\ r.skip = d.skip
      /\ ~d.chosen /\ Tidy(d) => Tidy(r)
  BY <1>1, <1>2, SearchIsLast
<1>4. Current(d) => Current(r) BY <1>1, <1>2, SearchIsCurrent
<1>5. SUFFICES Renders(r) /\ Renders(TitleEffect(r, FALSE)) BY DEF q
<1>  HIDE DEF r
<1>6. Settled(r) BY <1>1, <1>3 DEF Settled, Kept
<1>7. r.chosen = d.chosen /\ r.revoked = d.revoked BY <1>3 DEF Kept
<1>8. Renders(r) BY <1>3, <1>4, <1>6, <1>7 DEF Renders
<1>9. Renders(TitleEffect(r, FALSE)) BY <1>3, <1>4, <1>6, <1>7, TitleRenders
<1>  QED BY <1>8, <1>9

LEMMA UpdatePosterKeeps ==
  ASSUME PosterInv, UpdatePoster \/ SwitchLanguage
  PROVE  Formed
<1>1. CASE UpdatePoster
  <2>1. Render(posterSearch(d, FixedTitle(d), FALSE, d.chosen), torrents) BY <1>1 DEF UpdatePoster
  <2>  QED BY <2>1, ButtonSearches, RenderKeeps
<1>2. CASE SwitchLanguage
  <2>1. Render(TitleEffect(posterSearch(d, FixedTitle(d), TRUE, d.chosen), FALSE), torrents)
    BY <1>2 DEF SwitchLanguage
  <2>  QED BY <2>1, ButtonSearches, RenderKeeps
<1>  QED BY <1>1, <1>2

LEMMA SaveKeeps ==
  ASSUME PosterInv, handleSave
  PROVE  Formed
<1>  DEFINE r == [d EXCEPT !.saving = TRUE]
<1>1. Render(r, torrents) BY DEF handleSave
<1>2. d \in Dialog BY DEF PosterInv, Settled
<1>3. /\ r \in Dialog /\ Kept(d, r) /\ r.skip = d.skip
      /\ r.timers = d.timers /\ r.fetches = d.fetches /\ r.poster = d.poster
  BY <1>2 DEF Dialog, Kept
<1>  HIDE DEF r
<1>  QED BY <1>1, <1>3, OtherFields, RenderKeeps

-----------------------------------------------------------------------------
(* The network, the timers and the poll.                                    *)

\* Answers in order are to the request at the front, and the others move up.
LEMMA ReceivedFirst ==
  ASSUME InOrder, d \in Dialog, NEW i \in Answerable
  PROVE  /\ i = 1 /\ d.fetches[1] \in Request
         /\ Received(i) \in Dialog /\ Kept(d, Received(i)) /\ Received(i).skip = d.skip
         /\ Received(i).timers = d.timers /\ Received(i).poster = d.poster
         /\ \A k : k \in Searches(Received(i)) <=> k \in Nat /\ k # 0 /\ k + 1 \in Searches(d)
         /\ \A k \in Searches(Received(i)) : Received(i).fetches[k] = d.fetches[k + 1]
<1>  DEFINE q == d.fetches
            g == RemoveAt(q, i)
            r == Received(i)
<1>1. q \in Seq(Request) BY DEF Dialog, Request
<1>2. i = 1 /\ Len(q) \in Nat /\ Len(q) >= 1 /\ q[1] \in Request BY <1>1 DEF Answerable
<1>3. /\ g \in Seq(Request) /\ Len(g) = Len(q) - 1
      /\ \A k \in DOMAIN g : g[k] = q[k + 1]
  <2>1. i \in DOMAIN q BY <1>1, <1>2
  <2>2. \A k \in DOMAIN g : g[k] = IF k < i THEN q[k] ELSE q[k + 1] BY <1>1, <2>1, ElementRemoved
  <2>3. g \in Seq(Request) /\ Len(g) = Len(q) - 1 BY <1>1, <2>1, ElementRemoved
  <2>4. \A k \in DOMAIN g : ~(k < i) BY <1>2, <2>3
  <2>  QED BY <2>2, <2>3, <2>4
<1>4. r = [d EXCEPT !.fetches = g] BY DEF Received
<1>  HIDE DEF g, r
<1>5. /\ r \in Dialog /\ r.fetches = g /\ Kept(d, r) /\ r.skip = d.skip
      /\ r.timers = d.timers /\ r.poster = d.poster
  BY <1>3, <1>4 DEF Dialog, Kept, Request
<1>6. DOMAIN g = 1 .. Len(q) - 1 /\ DOMAIN q = 1 .. Len(q) BY <1>1, <1>2, <1>3
<1>  HIDE DEF q
<1>7. ASSUME NEW k PROVE k \in Searches(r) <=> k \in Nat /\ k # 0 /\ k + 1 \in Searches(d)
  <2>1. k \in Searches(r) <=> k \in DOMAIN g /\ g[k].kind = "posters" BY <1>5 DEF Searches
  <2>2. k + 1 \in Searches(d) <=> k + 1 \in DOMAIN q /\ q[k + 1].kind = "posters" BY DEF Searches, q
  <2>3. k \in DOMAIN g <=> k \in Nat /\ k # 0 /\ k + 1 \in DOMAIN q BY <1>2, <1>6
  <2>  QED BY <1>3, <2>1, <2>2, <2>3
<1>8. \A k \in Searches(r) : r.fetches[k] = q[k + 1] BY <1>3, <1>5 DEF Searches
<1>  QED BY <1>2, <1>5, <1>7, <1>8 DEF q, r

\* A search that is still behind the answer is the last one as before.
LEMMA ReceivedKeeps ==
  ASSUME InOrder, PosterInv, NEW i \in Answerable
  PROVE  LET r == Received(i) IN
         /\ Settled(r) /\ Kept(d, r) /\ r.timers = d.timers
         /\ Tidy(d) => Tidy(r)
         /\ \A k : LastSearch(r, k) => LastSearch(d, k + 1) /\ r.fetches[k] = d.fetches[k + 1]
         /\ d.fetches[1].kind # "posters" /\ Current(d) => Current(r)
         /\ Searches(r) = {} /\ d.fetches[1].kind = "posters" => LastSearch(d, 1)
<1>  DEFINE r == Received(i)
<1>1. d \in Dialog /\ Settled(d) BY DEF PosterInv, Settled
<1>2. /\ i = 1 /\ r \in Dialog /\ Kept(d, r) /\ r.skip = d.skip
      /\ r.timers = d.timers /\ r.poster = d.poster
      /\ \A k : k \in Searches(r) <=> k \in Nat /\ k # 0 /\ k + 1 \in Searches(d)
      /\ \A k \in Searches(r) : r.fetches[k] = d.fetches[k + 1]
  BY <1>1, ReceivedFirst
<1>3. SUFFICES /\ Settled(r) /\ Kept(d, r) /\ r.timers = d.timers
               /\ Tidy(d) => Tidy(r)
               /\ \A k : LastSearch(r, k) => LastSearch(d, k + 1) /\ r.fetches[k] = d.fetches[k + 1]
               /\ d.fetches[1].kind # "posters" /\ Current(d) => Current(r)
               /\ Searches(r) = {} /\ d.fetches[1].kind = "posters" => LastSearch(d, 1)
  OBVIOUS
<1>  HIDE DEF r
<1>4. d.fetches \in Seq(Request) /\ DOMAIN d.fetches = 1 .. Len(d.fetches) /\ Len(d.fetches) \in Nat
      /\ 1 \in DOMAIN d.fetches
  BY <1>1 DEF Dialog, Request, Answerable
<1>5. \A j \in Searches(d) : j \in Nat /\ j >= 1 BY <1>4 DEF Searches
<1>6. \A j \in Searches(d) : j = 1 \/ (j - 1 \in Searches(r) /\ j - 1 \in Nat)
  <2>1. ASSUME NEW j \in Searches(d), j # 1 PROVE j - 1 \in Searches(r) /\ j - 1 \in Nat
    <3>1. j - 1 \in Nat /\ j - 1 # 0 /\ (j - 1) + 1 = j BY <1>5, <2>1
    <3>  QED BY <1>2, <2>1, <3>1
  <2>  QED BY <2>1
<1>7. Settled(r) BY <1>1, <1>2 DEF Settled, Kept
<1>8. Tidy(d) => Tidy(r) BY <1>2 DEF Tidy
<1>9. ASSUME NEW k, LastSearch(r, k)
      PROVE  LastSearch(d, k + 1) /\ r.fetches[k] = d.fetches[k + 1]
  <2>1. k \in Nat /\ k # 0 /\ k + 1 \in Searches(d) /\ r.fetches[k] = d.fetches[k + 1]
    BY <1>2, <1>9 DEF LastSearch
  <2>2. ASSUME NEW j \in Searches(d) PROVE j <= k + 1
    <3>1. CASE j = 1 BY <2>1, <3>1
    <3>2. CASE j - 1 \in Searches(r) /\ j - 1 \in Nat
      <4>1. j - 1 <= k BY <1>9, <3>2 DEF LastSearch
      <4>  QED BY <1>5, <2>1, <3>2, <4>1
    <3>  QED BY <1>6, <3>1, <3>2
  <2>  QED BY <2>1, <2>2 DEF LastSearch
<1>10. ASSUME d.fetches[1].kind # "posters", Current(d)
       PROVE  Current(r)
  <2>1. 1 \notin Searches(d) BY <1>10 DEF Searches
  <2>2. Searches(r) = {} => Searches(d) = {} BY <1>6, <2>1
  <2>3. r.title = d.title /\ r.parsed = d.parsed BY <1>2 DEF Kept
  <2>4. \A k \in Searches(r) : LastSearch(r, k) => k + 1 \in Searches(d) /\ LastSearch(d, k + 1)
                                                    /\ r.fetches[k] = d.fetches[k + 1]
    BY <1>2, <1>9
  <2>  QED BY <1>2, <1>10, <2>2, <2>3, <2>4 DEF Current
<1>11. ASSUME Searches(r) = {}, d.fetches[1].kind = "posters"
       PROVE  LastSearch(d, 1)
  <2>1. 1 \in Searches(d) BY <1>4, <1>11 DEF Searches
  <2>2. \A j \in Searches(d) : j = 1 BY <1>6, <1>11
  <2>  QED BY <2>1, <2>2 DEF LastSearch
<1>  QED BY <1>2, <1>7, <1>8, <1>9, <1>10, <1>11

LEMMA LookupFoundKeeps ==
  ASSUME InOrder, PosterInv, NEW i \in Answerable, HashFound(i) \/ NameFound(i)
  PROVE  Formed
<1>  DEFINE r == Received(i)
<1>1. /\ Settled(r) /\ Kept(d, r)
      /\ Tidy(d) => Tidy(r)
      /\ d.fetches[1].kind # "posters" /\ Current(d) => Current(r)
  BY ReceivedKeeps
<1>2. i = 1 /\ d.fetches[1] \in Request BY ReceivedFirst DEF PosterInv, Settled
<1>3. d.fetches[1].kind # "posters" BY <1>2 DEF HashFound, NameFound
<1>4. ~d.chosen /\ Tidy(d) /\ Current(d) => ~r.chosen /\ Tidy(r) /\ Current(r)
  BY <1>1, <1>3 DEF Kept
<1>5. d.chosen = r.chosen /\ d.revoked = r.revoked BY <1>1 DEF Kept
<1>6. CASE HashFound(i)
  <2>1. PICK h \in {HashOf[d.fetches[i].of], None} : Render([r EXCEPT !.hash = h], torrents)
    BY <1>6 DEF HashFound
  <2>2. h \in Hash \cup {None}
    <3>1. d.fetches[1].of \in Link BY <1>2, <1>3 DEF Request, Lookup, Search
    <3>  QED BY <1>2, <3>1, NamesAreSome
  <2>  DEFINE n == [r EXCEPT !.hash = h]
  <2>  HIDE DEF r
  <2>3. /\ n \in Dialog /\ Kept(r, n) /\ n.skip = r.skip
        /\ n.timers = r.timers /\ n.fetches = r.fetches /\ n.poster = r.poster
    BY <1>1, <2>2 DEF Settled, Dialog, Kept
  <2>4. Render(n, torrents) BY <2>1 DEF r
  <2>  HIDE DEF n
  <2>5. Settled(n) /\ Searches(n) = Searches(r) BY <1>1, <2>3 DEF Settled, Kept, Searches
  <2>6. Tidy(r) => Tidy(n) BY <2>3, <2>5 DEF Tidy
  <2>7. Current(r) => Current(n) BY <2>3, <2>5 DEF Current, LastSearch, Kept
  <2>8. n.chosen = d.chosen /\ n.revoked = d.revoked BY <1>5, <2>3 DEF Kept
  <2>9. Renders(n) BY <1>4, <2>5, <2>6, <2>7, <2>8 DEF Renders
  <2>  QED BY <2>4, <2>9, RenderKeeps
<1>7. CASE NameFound(i)
  <2>1. PICK name \in {NameOf[d.fetches[i].of], None} : Render(TitleFromSource(r, name), torrents)
    BY <1>7 DEF NameFound
  <2>2. name \in Names \cup {None}
    <3>1. d.fetches[1].of \in Link BY <1>2, <1>3 DEF Request, Lookup, Search
    <3>  QED BY <1>2, <3>1, NamesAreSome
  <2>  DEFINE n == TitleFromSource(r, name)
  <2>  HIDE DEF r
  <2>3. /\ Settled(n) /\ n.chosen = r.chosen /\ n.revoked = r.revoked
        /\ ~r.chosen /\ Tidy(r) => Tidy(n) /\ (Current(r) => Current(n))
    BY <1>1, <2>2, NamedIsCurrent
  <2>  HIDE DEF n
  <2>4. Renders(n) BY <1>4, <1>5, <2>3 DEF Renders
  <2>  QED BY <2>1, <2>4, RenderKeeps DEF n
<1>  QED BY <1>6, <1>7

\* The posters of the search that was asked last are those of the title.
LEMMA PostersFoundKeeps ==
  ASSUME InOrder, PosterInv, NEW i \in Answerable, PostersFound(i)
  PROVE  Formed
<1>  DEFINE r == Received(i)
            f == d.fetches[1]
<1>1. /\ Settled(r) /\ Kept(d, r) /\ r.timers = d.timers
      /\ Tidy(d) => Tidy(r)
      /\ \A k : LastSearch(r, k) => LastSearch(d, k + 1) /\ r.fetches[k] = d.fetches[k + 1]
      /\ Searches(r) = {} /\ f.kind = "posters" => LastSearch(d, 1)
  BY ReceivedKeeps
<1>2. i = 1 /\ f \in Request BY ReceivedFirst DEF PosterInv, Settled
<1>3. f.kind = "posters" BY <1>2 DEF PostersFound
<1>4. f.of \in Names BY <1>2, <1>3 DEF Request, Lookup, Search
<1>5. PICK found \in BOOLEAN, p \in {f.of, None} : Render(ShowPosters(r, f, found, p), torrents)
  BY <1>2 DEF PostersFound
<1>  DEFINE n == ShowPosters(r, f, found, p)
<1>6. r \in Dialog BY <1>1 DEF Settled
<1>  HIDE DEF r, f
<1>7. /\ n \in Dialog /\ Kept(r, n) /\ n.skip = r.skip /\ n.timers = r.timers /\ n.fetches = r.fetches
      /\ ~f.chosen => n.poster \in {None, f.of}
  <2>  DEFINE list == IF found /\ p # None THEN f.of ELSE None
              listed == [r EXCEPT !.list = list]
  <2>1. list \in Names \cup {None} BY <1>4
  <2>  HIDE DEF list
  <2>2. /\ listed \in Dialog /\ Kept(r, listed) /\ listed.skip = r.skip
        /\ listed.timers = r.timers /\ listed.fetches = r.fetches
    BY <1>6, <2>1 DEF Dialog, Kept
  <2>3. n = IF f.chosen /\ ~(found /\ f.refresh) THEN listed
            ELSE IF found /\ p # None THEN [listed EXCEPT !.posterOk = TRUE, !.poster = p]
            ELSE removePoster(listed)
    BY DEF ShowPosters, list
  <2>  HIDE DEF n, listed
  <2>4. CASE n = listed /\ f.chosen BY <2>2, <2>4
  <2>5. CASE n = [listed EXCEPT !.posterOk = TRUE, !.poster = p]
    <3>1. p \in Posters \cup {None} BY <1>4 DEF Posters
    <3>2. /\ n \in Dialog /\ Kept(listed, n) /\ n.skip = listed.skip /\ n.timers = listed.timers
          /\ n.fetches = listed.fetches /\ n.poster = p
      BY <2>2, <2>5, <3>1 DEF Dialog, Kept
    <3>3. Kept(r, n) BY <2>2, <3>2 DEF Kept
    <3>  QED BY <2>2, <3>2, <3>3
  <2>6. CASE n = removePoster(listed)
    <3>1. n = [listed EXCEPT !.posterOk = FALSE, !.poster = None] BY <2>6 DEF removePoster
    <3>2. /\ n \in Dialog /\ Kept(listed, n) /\ n.skip = listed.skip /\ n.timers = listed.timers
          /\ n.fetches = listed.fetches /\ n.poster = None
      BY <2>2, <3>1 DEF Dialog, Kept, Posters
    <3>3. Kept(r, n) BY <2>2, <3>2 DEF Kept
    <3>  QED BY <2>2, <3>2, <3>3
  <2>  QED BY <2>3, <2>4, <2>5, <2>6
<1>  HIDE DEF n
<1>8. n.chosen = d.chosen /\ n.revoked = d.revoked /\ n.title = d.title /\ n.parsed = d.parsed
  BY <1>1, <1>7 DEF Kept
<1>9. Settled(n) BY <1>1, <1>7 DEF Settled, Kept
<1>10. Searches(n) = Searches(r) BY <1>7 DEF Searches
<1>11. ASSUME Tidy(d), Current(d)
       PROVE  Tidy(n) /\ Current(n)
  <2>1. Tidy(n) BY <1>1, <1>7, <1>10, <1>11 DEF Tidy
  <2>2. \A k : LastSearch(n, k) => LastSearch(d, k + 1) /\ n.fetches[k] = d.fetches[k + 1]
    <3>1. \A k : LastSearch(n, k) => LastSearch(r, k) BY <1>10 DEF LastSearch
    <3>  QED BY <1>1, <1>7, <3>1
  <2>3. \A k : LastSearch(d, k) => k \in Searches(d) BY DEF LastSearch
  <2>4. n.timers = d.timers BY <1>1, <1>7
  <2>5. ~f.chosen
    <3>1. 1 \in DOMAIN d.fetches BY <1>2 DEF Answerable
    <3>2. 1 \in Searches(d) BY <1>3, <3>1 DEF Searches, f
    <3>  QED BY <1>11, <3>2 DEF Tidy, f
  <2>6. ASSUME d.timers[FALSE] = None, Either(d.title, d.parsed) # None
        PROVE  /\ \A k \in Searches(n) : LastSearch(n, k) => n.fetches[k].of \in {d.title, d.parsed}
               /\ Searches(n) = {} => n.poster \in {None, d.title, d.parsed}
    <3>1. \A k \in Searches(d) : LastSearch(d, k) => d.fetches[k].of \in {d.title, d.parsed}
      BY <1>11, <2>6 DEF Current
    <3>2. \A k \in Searches(n) : LastSearch(n, k) => n.fetches[k].of \in {d.title, d.parsed}
      BY <2>2, <2>3, <3>1
    <3>3. ASSUME Searches(n) = {} PROVE n.poster \in {None, d.title, d.parsed}
      <4>1. LastSearch(d, 1) BY <1>1, <1>3, <1>10, <3>3
      <4>2. f.of \in {d.title, d.parsed} BY <2>3, <3>1, <4>1 DEF f
      <4>  QED BY <1>7, <2>5, <4>2
    <3>  QED BY <3>2, <3>3
  <2>7. Current(n) BY <1>8, <1>11, <2>4, <2>6 DEF Current
  <2>  QED BY <2>1, <2>7
<1>12. Renders(n) BY <1>8, <1>9, <1>11 DEF Renders
<1>  QED BY <1>5, <1>12, RenderKeeps DEF n

\* The debounced search is for the title.
LEMMA DebounceKeeps ==
  ASSUME PosterInv, NEW c \in BOOLEAN, DebounceEnds(c)
  PROVE  Formed
<1>  DEFINE s == [d EXCEPT !.timers[c] = None]
            q == d.timers[c]
            r == posterSearch(s, q, FALSE, c)
<1>1. Render(r, torrents) /\ q # None BY DEF DebounceEnds
<1>2. d \in Dialog /\ Settled(d) /\ d.timers \in [BOOLEAN -> Names \cup {None}]
  BY DEF PosterInv, Settled, Dialog
<1>3. q \in Names \cup {None} BY <1>2
<1>4. /\ s \in Dialog /\ Kept(d, s) /\ s.skip = d.skip /\ s.fetches = d.fetches
      /\ s.timers = [d.timers EXCEPT ![c] = None]
  BY <1>2 DEF Dialog, Kept
<1>  HIDE DEF s
<1>5. /\ r \in Dialog /\ Kept(s, r) /\ r.skip = s.skip /\ r.timers = s.timers
      /\ ~c /\ Tidy(s) => Tidy(r)
      /\ LastIsFor(r, q)
  BY <1>1, <1>3, <1>4, SearchIsLast
<1>  HIDE DEF r
<1>6. /\ Settled(r) /\ r.chosen = d.chosen /\ r.revoked = d.revoked /\ r.title = d.title
  BY <1>2, <1>4, <1>5 DEF Settled, Kept
<1>7. ASSUME ~d.chosen, IF d.chosen THEN AtRest ELSE Tidy(d) /\ Current(d)
      PROVE  Tidy(r) /\ Current(r)
  <2>1. Tidy(d) /\ Current(d) BY <1>7
  <2>2. c = FALSE BY <1>1, <2>1 DEF Tidy
  <2>3. q = d.title BY <1>1, <2>1, <2>2 DEF Current
  <2>4. s.timers[TRUE] = None /\ s.timers[FALSE] = None BY <1>2, <1>4, <2>1, <2>2 DEF Tidy
  <2>5. Tidy(s) BY <1>4, <2>1, <2>4 DEF Tidy, Searches
  <2>6. Tidy(r) BY <1>5, <2>2, <2>5
  <2>  HIDE DEF q
  <2>7. Current(r) BY <1>5, <1>6, <2>3, <2>4 DEF Current, LastIsFor
  <2>  QED BY <2>6, <2>7
<1>8. Renders(r) BY <1>6, <1>7 DEF Renders
<1>  QED BY <1>1, <1>8, RenderKeeps

\* A dialog that edits starts with the poster of its torrent, as if the user had chosen it.
LEMMA OpenEditKeeps ==
  ASSUME PosterInv, NEW h \in Hash, NEW name \in Names \cup {None}, NEW title \in Title \cup {None},
         NEW poster \in {Picked, None}, OpenEdit(h, name, title, poster)
  PROVE  Formed
<1>  DEFINE parsed == Either(name, title)
            m == EditMounted(h, name, title, poster)
            a == AutoSearch(m)
            r == TitleEffect(a, FALSE)
<1>1. d' = r BY DEF OpenEdit
<1>2. title \in Names \cup {None} /\ parsed \in Names \cup {None} BY NamesAreSome DEF Either
<1>3. (parsed # None) \in BOOLEAN /\ checkImageURL(poster) \in BOOLEAN /\ poster \in Posters \cup {None}
  BY DEF checkImageURL, Posters
<1>4. m = [Mounted EXCEPT !.source = h, !.hash = h, !.exists = TRUE, !.correct = TRUE, !.chosen = TRUE,
                  !.title = title, !.original = parsed # None, !.parsed = parsed, !.poster = poster,
                  !.posterOk = checkImageURL(poster)]
  BY DEF EditMounted
<1>5. m \in Dialog /\ m.chosen = TRUE /\ m.original = (parsed # None) /\ m.parsed = parsed /\ m.skip = FALSE
      /\ m.title = title
  <2>  DEFINE original == parsed # None
              ok == checkImageURL(poster)
  <2>1. original \in BOOLEAN /\ ok \in BOOLEAN BY <1>3
  <2>2. m = [Mounted EXCEPT !.source = h, !.hash = h, !.exists = TRUE, !.correct = TRUE, !.chosen = TRUE,
                  !.title = title, !.original = original, !.parsed = parsed, !.poster = poster,
                  !.posterOk = ok]
    BY <1>4
  <2>3. Mounted \in Dialog /\ Mounted.skip = FALSE BY MountedIsCurrent DEF Mounted
  <2>4. m.original = original => m.original = (parsed # None) OBVIOUS
  <2>  HIDE DEF original, ok, parsed, m
  <2>5. m \in Dialog
    <3>1. Mounted \in Dialog BY <2>3
    <3>2. /\ original \in BOOLEAN /\ ok \in BOOLEAN /\ h \in Hash
          /\ title \in Names \cup {None} /\ parsed \in Names \cup {None} /\ poster \in Posters \cup {None}
      BY <1>2, <1>3, <2>1
    <3>  DEFINE x == [Mounted EXCEPT !.source = h, !.hash = h, !.exists = TRUE, !.correct = TRUE,
                                     !.chosen = TRUE]
                y == [x EXCEPT !.title = title, !.original = original, !.parsed = parsed]
    <3>3. x \in Dialog BY <3>1, <3>2 DEF Dialog
    <3>4. m = [y EXCEPT !.poster = poster, !.posterOk = ok] BY <2>2
    <3>  HIDE DEF x
    <3>5. y \in Dialog BY <3>2, <3>3 DEF Dialog
    <3>  HIDE DEF y
    <3>  QED BY <3>2, <3>4, <3>5 DEF Dialog, Posters
  <2>6. m.chosen = TRUE /\ m.original = original /\ m.parsed = parsed /\ m.skip = FALSE /\ m.title = title
    BY <2>2, <2>3 DEF Dialog
  <2>  QED BY <2>4, <2>5, <2>6
<1>  HIDE DEF m
<1>6. Settled(m) BY <1>5 DEF Settled
<1>7. Settled(a) /\ a.chosen = TRUE
  <2>1. CASE a = m BY <1>5, <1>6, <2>1
  <2>2. CASE a # m
    <3>  DEFINE q == Either(m.title, m.parsed)
    <3>1. a = posterSearch(m, q, TRUE, TRUE) BY <2>2 DEF AutoSearch
    <3>2. q \in Names \cup {None} BY <1>2, <1>5 DEF Either
    <3>  HIDE DEF a, q
    <3>3. a \in Dialog /\ Kept(m, a) /\ a.skip = m.skip BY <1>5, <3>1, <3>2, SearchIsLast
    <3>  QED BY <1>5, <1>6, <3>3 DEF Settled, Kept
  <2>  QED BY <2>1, <2>2
<1>  HIDE DEF a
<1>8. r \in Dialog /\ Kept(a, r) /\ ~r.skip BY <1>7, TitleEffectIsCurrent DEF Settled
<1>  HIDE DEF r
<1>9. Settled(r) /\ r.chosen = TRUE BY <1>7, <1>8 DEF Settled, Kept
<1>  QED BY <1>1, <1>9 DEF Formed

\* A dialog that opens, closes or is left as it is.
LEMMA MountedForms ==
  ASSUME PosterInv, d' = Mounted \/ UNCHANGED <<open, d>>
  PROVE  Formed
<1>1. CASE d' = Mounted BY <1>1, MountedIsCurrent DEF Formed
<1>2. CASE UNCHANGED <<open, d>> BY <1>2 DEF Formed, PosterInv
<1>  QED BY <1>1, <1>2

LEMMA FormStepForms ==
  ASSUME InOrder, PosterInv, FormStep \/ Saves \/ getTorrents
  PROVE  Formed
<1>1. CASE UserStep
  <2>1. CASE OpenAdd BY <2>1, MountedForms DEF OpenAdd
  <2>2. CASE \E h \in Hash, n \in Names \cup {None}, t \in Title \cup {None}, p \in {Picked, None} :
                OpenEdit(h, n, t, p)
    BY <2>2, OpenEditKeeps
  <2>3. CASE \E s \in Source \cup {None} : SetSource(s) BY <2>3, SetSourceKeeps
  <2>4. CASE \E t \in Title \cup {None} : SetTitle(t) BY <2>4, SetTitleKeeps
  <2>5. CASE ResetTitle BY <2>5, ResetTitleKeeps
  <2>6. CASE \E p \in {Picked, None} : SetPosterUrl(p) BY <2>6, SetPosterUrlKeeps
  <2>7. CASE PickPoster BY <2>7, PickPosterKeeps
  <2>8. CASE ClearPoster BY <2>8, ClearPosterKeeps
  <2>9. CASE UpdatePoster \/ SwitchLanguage BY <2>9, UpdatePosterKeeps
  <2>10. CASE Cancel BY <2>10, MountedForms DEF Cancel
  <2>11. CASE handleSave BY <2>11, SaveKeeps
  <2>  QED BY <1>1, <2>1, <2>2, <2>3, <2>4, <2>5, <2>6, <2>7, <2>8, <2>9, <2>10, <2>11 DEF UserStep
<1>2. CASE Answer
  <2>1. PICK i \in Answerable : HashFound(i) \/ NameFound(i) \/ PostersFound(i) BY <1>2 DEF Answer
  <2>  QED BY <2>1, LookupFoundKeeps, PostersFoundKeeps
<1>3. CASE \E c \in BOOLEAN : DebounceEnds(c) BY <1>3, DebounceKeeps
<1>4. CASE Saves
  <2>1. PICK p \in posts, ok \in BOOLEAN : SaveAnswered(p, ok) BY <1>4 DEF Saves
  <2>2. d' = Mounted \/ UNCHANGED <<open, d>> BY <2>1 DEF SaveAnswered
  <2>  QED BY <2>2, MountedForms
<1>5. CASE getTorrents
  <2>1. Render(d, server) BY <1>5 DEF getTorrents
  <2>2. d \in Dialog /\ Kept(d, d) BY DEF PosterInv, Settled, Kept
  <2>  QED BY <2>1, <2>2, OtherFields, RenderKeeps
<1>  QED BY <1>1, <1>2, <1>3, <1>4, <1>5 DEF FormStep


-----------------------------------------------------------------------------
(* The list of files, and the theorem.                                      *)

\* While the list of files is shown the form is not, until both are closed.
LEMMA ListStays ==
  ASSUME NoneIsNoFunction, IInv, InList \/ RowStep
  PROVE  rows' # None
<1>1. rows # None /\ rows \in Seq(Row) BY DEF InList, RowStep, IInv
<1>2. \A i, u : handleUpdate(i, u) # None
  <2>  SUFFICES ASSUME NEW i, NEW u PROVE handleUpdate(i, u) # None OBVIOUS
  <2>1. handleUpdate(i, u) = [j \in DOMAIN handleUpdate(i, u) |-> handleUpdate(i, u)[j]]
    BY DEF handleUpdate
  <2>  QED BY <2>1 DEF NoneIsNoFunction
<1>3. \A i \in DOMAIN rows : RemoveAt(rows, i) # None
  <2>1. \A g \in Seq(Row) : g # None BY DEF NoneIsNoFunction
  <2>  QED BY <1>1, <2>1, ElementRemoved
<1>4. CASE InList
  BY <1>1, <1>2, <1>3, <1>4 DEF InList, handlePosterChange, handleRemove, handleSaveAll
<1>5. CASE RowStep
  <2>1. PICK a \in asks : NotFound(a) \/ Found(a) BY <1>5 DEF RowStep, RowAnswered
  <2>  QED BY <1>1, <1>2, <2>1 DEF NotFound, Found
<1>  QED BY <1>4, <1>5

LEMMA DropFilesForms ==
  ASSUME NoneIsNoFunction, PosterInv, NEW files \in Drops, DropFiles(files)
  PROVE  PosterInv'
<1>1. rows' # None
  <2>  DEFINE list == [i \in DOMAIN files |-> [file |-> files[i], poster |-> None, alreadyExists |-> FALSE]]
  <2>1. rows' = list BY DEF DropFiles, MultiMounted
  <2>2. list = [j \in DOMAIN list |-> list[j]] OBVIOUS
  <2>  HIDE DEF list
  <2>  QED BY <2>1, <2>2 DEF NoneIsNoFunction
<1>  DEFINE s == [d EXCEPT !.chosen = FALSE]
            r == TitleEffect(s, FALSE)
<1>2. d' = d \/ d' = r BY DEF DropFiles
<1>3. d \in Dialog /\ Settled(d) BY DEF PosterInv, Settled
<1>4. s \in Dialog /\ s.original = d.original /\ s.parsed = d.parsed /\ s.skip = d.skip BY <1>3 DEF Dialog
<1>  HIDE DEF s
<1>5. r \in Dialog /\ Kept(s, r) /\ (~s.skip => ~r.skip) BY <1>4, TitleEffectIsCurrent
<1>  HIDE DEF r
<1>6. Settled(r) BY <1>3, <1>4, <1>5 DEF Settled, Kept
<1>7. Settled(d') BY <1>2, <1>3, <1>6
<1>  QED BY <1>1, <1>7 DEF PosterInv

\* The list goes with the form.
LEMMA FormedIsCurrent ==
  ASSUME PosterInv, Formed, rows' = None => rows = None \/ open' # open
  PROVE  PosterInv'
<1>1. Settled(d') BY DEF Formed
<1>2. ASSUME rows' = None, ~d'.chosen, ~d'.revoked PROVE Tidy(d') /\ Current(d')
  <2>1. CASE rows = None BY <1>2, <2>1 DEF Formed
  <2>2. CASE open' # open BY <1>2, <2>2, MountedIsCurrent DEF Formed
  <2>  QED BY <1>2, <2>1, <2>2
<1>  QED BY <1>1, <1>2 DEF PosterInv

LEMMA NextKeepsPosters ==
  ASSUME InOrder, NoneIsNoFunction, IInv, PosterInv, [Next]_vars
  PROVE  PosterInv'
<1>1. CASE (FormStep \/ Saves \/ getTorrents) /\ Shut
  <2>1. Formed BY <1>1, FormStepForms
  <2>2. rows' = None => rows = None \/ open' # open BY <1>1 DEF Shut
  <2>  QED BY <2>1, <2>2, FormedIsCurrent
<1>2. CASE \E files \in Drops : DropFiles(files) BY <1>2, DropFilesForms
<1>3. CASE InList \/ RowStep
  <2>1. UNCHANGED <<open, d>> /\ rows' # None BY <1>3, ListStays DEF InList, RowStep
  <2>2. Formed BY <2>1, MountedForms
  <2>  QED BY <2>1, <2>2, FormedIsCurrent
<1>4. CASE Uploads
  <2>1. d' = Mounted \/ UNCHANGED <<open, d, rows>> BY <1>4 DEF Uploads, Uploaded
  <2>2. CASE d' = Mounted BY <2>2, MountedIsCurrent DEF PosterInv
  <2>3. CASE UNCHANGED <<open, d, rows>> BY <2>3 DEF PosterInv
  <2>  QED BY <2>1, <2>2, <2>3
<1>5. CASE UNCHANGED vars BY <1>5 DEF vars, multiVars, PosterInv
<1>  QED BY <1>1, <1>2, <1>3, <1>4, <1>5 DEF Next

\* Whatever a user types, picks, resets and takes back at rest, and however long: when the
\* answers have come, in the order of the requests, the poster that will be saved is the user's
\* choice or the one of the title or name that will be saved (AddDialog.jsx posterSearch).
THEOREM PostersAreOfTitles ==
  ASSUME InOrder, NoneIsNoFunction
  PROVE  Spec => []PosterIsOfTitle
<1>1. Init => IInv /\ PosterInv BY InitInv, MountedIsCurrent DEF Init, PosterInv
<1>2. IInv /\ PosterInv /\ [Next]_vars => IInv' /\ PosterInv' BY NextKeepsInv, NextKeepsPosters
<1>3. PosterInv => PosterIsOfTitle
  <2>  SUFFICES ASSUME PosterInv, AtRest, rows = None, ~d.chosen, ~d.revoked, d.poster # None,
                       Either(d.title, d.parsed) # None
                PROVE  d.poster \in {d.title, d.parsed}
    BY DEF PosterIsOfTitle
  <2>1. Searches(d) = {} /\ d.timers[FALSE] = None BY RestIsTidy
  <2>2. Current(d) BY DEF PosterInv
  <2>3. d.poster \in {None, d.title, d.parsed} BY <2>1, <2>2 DEF Current
  <2>  QED BY <2>3
<1>  QED BY <1>1, <1>2, <1>3, PTL DEF Spec
=============================================================================
