--------------------------- MODULE MCWebAddDialog ---------------------------
(* A magnet with a name, a bare hash, a link to a torrent file and a typo.   *)
EXTENDS WebAddDialog

CONSTANTS magnet, bare, link, typo, h1, h2, n1, n2, f1, f2

Hashes == (magnet :> h1) @@ (bare :> h2) @@ (link :> h2) @@ (typo :> None)
NamesOf == (magnet :> n1) @@ (bare :> None) @@ (link :> n2) @@ (typo :> None)
FilesOf == (f1 :> h1) @@ (f2 :> h2)
FileLists == {<<f1, f2>>}
=============================================================================
