SPECIFICATION FairSpec
CONSTANTS
  magnet = magnet  bare = bare  link = link  typo = typo
  h1 = h1  h2 = h2  n1 = n1  n2 = n2  f1 = f1  f2 = f2
  None = None
  Picked = Picked
  Hash = {h1, h2}
  Source = {magnet, bare, link, typo}
  Link = {link}
  Wrong = {typo}
  HashOf <- Hashes
  NameOf <- NamesOf
  File = {f1, f2}
  FileHash <- FilesOf
  Drops <- FileLists
  Title = {"t"}
  InOrder = TRUE
  MaxEdits = 5
  MaxInList = 4
INVARIANTS
  RowsAreTheirs
  PosterIsOfTitle
PROPERTIES
  SavedCloses
CHECK_DEADLOCK FALSE
