-------------------------- MODULE WebMultiAddDialog --------------------------
(***************************************************************************)
(* The list of torrent files that takes the place of the form once files   *)
(* were dropped on the dialog (components/Add/MultiAddDialog.jsx).  Each   *)
(* row reads its file, finds a poster for its name, and hides itself when  *)
(* the torrent is listed already.                                          *)
(*                                                                         *)
(* A row is known to its promises by its place in the list: an answer is   *)
(* for whatever file is there by then.  Titles and categories, which only  *)
(* the user changes in a row that is shown, are left out.                  *)
(***************************************************************************)
EXTENDS Naturals, Sequences, SequencesExt

CONSTANTS
  Hash,      \* hashes of torrents
  File,      \* torrent files a user may drop
  FileHash,  \* the hash each of them has
  Picked,    \* a poster that a user typed or clicked
  None       \* an empty string, undefined

ASSUME FileAssumption == FileHash \in [File -> Hash]

VARIABLES
  rows,     \* fileList: a sequence of rows, or None while the form is shown
  asks,     \* files that are read, and searches for posters: what for, and for which place
  uploads,  \* for each Promise.all, the files whose upload is not answered
  mixed     \* history: a row was removed while another was asked about by its place

multiVars == <<rows, asks, uploads, mixed>>

\* The poster of a row is known by the file it was found for.
Row == [file : File, poster : File \cup {Picked, None}, alreadyExists : BOOLEAN]

Ask(kind, i, f, listed) == [kind |-> kind, at |-> i, of |-> f, listed |-> listed]

MultiTypeOK ==
  /\ rows = None \/ rows \in Seq(Row) \ {<<>>}
  /\ \A a \in asks : a.kind \in {"hash", "name", "poster"} /\ a.of \in File /\ rows # None
  /\ uploads \in Seq(SUBSET File \ {{}}) /\ mixed \in BOOLEAN

\* The effect of a row when it is mounted, which is again whenever its place changes: its key
\* has the place in it.  It compares with the list of that render.
RowMounted(i, f, torrents) ==
  {Ask("hash", i, f, FileHash[f] \in torrents), Ask("name", i, f, FALSE)}

RowsMounted(list, from, torrents) ==
  UNION {RowMounted(i, list[i].file, torrents) : i \in {j \in from .. Len(list) : ~list[j].alreadyExists}}

NoRows == rows' = None /\ asks' = {} /\ mixed' = FALSE

\* setMultiFiles.
MultiMounted(files, torrents) ==
  LET list == [i \in DOMAIN files |-> [file |-> files[i], poster |-> None, alreadyExists |-> FALSE]]
  IN  /\ rows' = list /\ asks' = RowsMounted(list, 1, torrents)
      /\ UNCHANGED <<uploads, mixed>>

\* {...row, ...updates}
With(row, updates) == [x \in DOMAIN row |-> IF x \in DOMAIN updates THEN updates[x] ELSE row[x]]

\* Mutant of handleUpdate: the condition on the place is missing.
handleUpdateAll(index, updates) == [i \in DOMAIN rows |-> With(rows[i], updates)]

handleUpdate(index, updates) ==
  [i \in DOMAIN rows |-> IF i = index THEN With(rows[i], updates) ELSE rows[i]]

-----------------------------------------------------------------------------
handlePosterChange(i, p) ==
  /\ i \in DOMAIN rows /\ ~rows[i].alreadyExists /\ p # rows[i].poster
  /\ rows' = handleUpdate(i, [poster |-> p])
  /\ UNCHANGED <<asks, uploads, mixed>>

\* The rows behind it move up, those that ask go on asking for the places they had.
handleRemove(i, torrents) ==
  /\ i \in DOMAIN rows /\ ~rows[i].alreadyExists /\ Len(rows) > 1
  /\ LET next == RemoveAt(rows, i)
     IN  /\ rows' = next
         /\ asks' = asks \cup RowsMounted(next, i, torrents)
         /\ mixed' = (mixed \/ \E a \in asks : a.at \in i .. Len(next))
  /\ UNCHANGED uploads

newFiles == {rows[i].file : i \in {j \in DOMAIN rows : ~rows[j].alreadyExists}}

\* The button stays enabled while the dialog is saving.
handleSaveAll ==
  /\ newFiles # {} /\ uploads' = Append(uploads, newFiles)
  /\ UNCHANGED <<rows, asks, mixed>>

-----------------------------------------------------------------------------
\* A file that cannot be read, or no poster.
NotFound(a) == asks' = asks \ {a} /\ UNCHANGED rows

Found(a) ==
  \/ a.kind = "hash" /\ asks' = asks \ {a}
       /\ rows' = IF a.listed THEN handleUpdate(a.at, [alreadyExists |-> TRUE]) ELSE rows
  \/ a.kind = "name" /\ asks' = (asks \ {a}) \cup {[a EXCEPT !.kind = "poster"]} /\ UNCHANGED rows
  \/ a.kind = "poster" /\ asks' = asks \ {a} /\ rows' = handleUpdate(a.at, [poster |-> a.of])

RowAnswered(a) == (NotFound(a) \/ Found(a)) /\ UNCHANGED <<uploads, mixed>>

\* The last one of a Promise.all, answered or failed, closes.
Ends(k, f) == uploads[k] = {f}

Answered(k, f) ==
  uploads' = IF Ends(k, f) THEN RemoveAt(uploads, k) ELSE [uploads EXCEPT ![k] = @ \ {f}]

-----------------------------------------------------------------------------
\* A row has the poster of its own file and is hidden for its own torrent, or else the file
\* would be added with another film's poster, or not at all: unless a row was removed while a
\* row at or behind its place was still asking (handleUpdate and handleRemove of MultiAddDialog).
RowsKeepTheirOwn(server) ==
  rows # None /\ ~mixed =>
    \A i \in DOMAIN rows : /\ rows[i].poster \in {rows[i].file, Picked, None}
                           /\ rows[i].alreadyExists => FileHash[rows[i].file] \in server
=============================================================================
