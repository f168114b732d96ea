---------------------------- MODULE SettingsShell ----------------------------
(***************************************************************************)
(* The frame of the settings dialog of the browser interface               *)
(* (web/src/components/Settings/SettingsDialog.jsx): which tab it shows,   *)
(* when it may be closed.  The modules of its panels extend this one.      *)
(***************************************************************************)
EXTENDS Integers, FiniteSets

CONSTANTS
  Visited,      \* bound: the tabs that the user goes to
  ProModes,     \* bound: what localStorage may say of the Pro mode at first
  GstBuilds     \* what the server may say of GStreamer; {} leaves the question out

tabMain == 0
tabAdditional == 1
tabSearch == 2
tabApp == 3
tabAccess == 4
tabGStreamer == 5

ASSUME ShellAssumption ==
  /\ Visited \subseteq 0 .. tabGStreamer /\ tabMain \in Visited
  /\ ProModes \subseteq BOOLEAN /\ GstBuilds \subseteq BOOLEAN

VARIABLES
  open,           \* the dialog is mounted
  selectedTab,    \* the only panel that is mounted (TabPanel)
  isProMode,      \* kept in localStorage as soon as it is switched
  gstAvailable,   \* the GStreamer tab exists
  gstAsked,       \* its availability is being fetched
  wafDirty        \* the access lists are edited and not saved, as their panel reported

shell == <<open, selectedTab, isProMode, gstAvailable, gstAsked, wafDirty>>

ShellTypeOK ==
  /\ {open, isProMode, gstAvailable, gstAsked, wafDirty} \subseteq BOOLEAN
  /\ selectedTab \in Visited

maxTab == IF gstAvailable THEN tabGStreamer ELSE tabAccess

Mounted(tab) == open /\ selectedTab = tab

ShellInit ==
  /\ open = FALSE /\ selectedTab = tabMain /\ isProMode \in ProModes
  /\ gstAvailable = FALSE /\ gstAsked = FALSE /\ wafDirty = FALSE

handleClickOpen ==
  /\ ~open /\ open' = TRUE
  /\ selectedTab' = tabMain /\ gstAvailable' = FALSE /\ gstAsked' = (GstBuilds # {})
  /\ UNCHANGED <<isProMode, wafDirty>>

\* A failed fetch means that there is no GStreamer.  No tab beyond the last one stays selected.
GstAnswered ==
  /\ open /\ gstAsked /\ gstAsked' = FALSE
  /\ \E built \in GstBuilds \cup {FALSE} :
        /\ gstAvailable' = built
        /\ selectedTab' = IF selectedTab > maxTab' THEN tabMain ELSE selectedTab
  /\ UNCHANGED <<open, isProMode, wafDirty>>

confirmWAFDiscard(yes) == ~wafDirty \/ yes

\* The panel of the access lists says that nothing is dirty when it is unmounted.
requestClose(yes) ==
  /\ open /\ confirmWAFDiscard(yes)
  /\ open' = FALSE /\ wafDirty' = FALSE
  /\ UNCHANGED <<selectedTab, isProMode, gstAvailable, gstAsked>>

\* Mutant of changeTab: the panel that is left does not report that its edits are gone.
changeTabSilently(index, yes) ==
  /\ selectedTab = tabAccess /\ index # tabAccess => confirmWAFDiscard(yes)
  /\ selectedTab' = index
  /\ UNCHANGED <<open, isProMode, gstAvailable, gstAsked, wafDirty>>

changeTab(index, yes) ==
  /\ selectedTab = tabAccess /\ index # tabAccess => confirmWAFDiscard(yes)
  /\ selectedTab' = index
  /\ wafDirty' = (wafDirty /\ index = tabAccess)
  /\ UNCHANGED <<open, isProMode, gstAvailable, gstAsked>>

\* A click on a tab that is not disabled.
handleChange(index, yes) ==
  /\ open /\ index \in Visited \ {selectedTab} /\ index <= maxTab
  /\ index \in {tabAdditional, tabGStreamer} => isProMode
  /\ changeTab(index, yes)

\* A swipe goes to the next view, disabled tab or not.
handleChangeIndex(index, yes) ==
  /\ open /\ index \in Visited \cap {selectedTab - 1, selectedTab + 1} /\ index <= maxTab
  /\ changeTab(index, yes)

\* Leaving the Pro mode goes to the first tab without asking about edits of the access lists.
SwitchProMode ==
  /\ open /\ isProMode' = ~isProMode
  /\ IF isProMode THEN selectedTab' = tabMain /\ wafDirty' = FALSE
                  ELSE UNCHANGED <<selectedTab, wafDirty>>
  /\ UNCHANGED <<open, gstAvailable, gstAsked>>

\* Save waits for the access lists only while they are shown.
SaveEnabled == open /\ ~(selectedTab = tabAccess /\ wafDirty)

-----------------------------------------------------------------------------
(* The requests of a panel.                                                 *)

\* A request is sent, and known by a number that is free; one is answered.
Number(requests) == CHOOSE n \in 1 .. Cardinality(DOMAIN requests) + 1 : n \notin DOMAIN requests

Sent(requests, r) ==
  [i \in DOMAIN requests \cup {Number(requests)} |-> IF i = Number(requests) THEN r ELSE requests[i]]

Without(requests, i) == [j \in DOMAIN requests \ {i} |-> requests[j]]
=============================================================================
