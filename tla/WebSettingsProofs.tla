------------------------- MODULE WebSettingsProofs --------------------------
(***************************************************************************)
(* What the settings dialog saves, for any settings, controls, values and  *)
(* number of steps: proofs about WebSettings.  Two theorems are about      *)
(* users who wait while a change of the certificate or a save runs         *)
(* (Patient).                                                              *)
(*                                                                         *)
(* The dialog and the server change the certificate and the settings in    *)
(* turn.  The invariant says whose turn it is: while a save is on its way  *)
(* the dialog is closed, while a change of the certificate is, the         *)
(* settings are those of the click, and otherwise they have the server's   *)
(* certificate, or none, unless the dialog was not told of it.             *)
(***************************************************************************)
EXTENDS WebSettings, FiniteSetTheorems, TLAPS

IsObject(s) == s = [f \in DOMAIN s |-> s[f]]

\* None is not the settings of anybody.
NoneIsNoObject == \A s : IsObject(s) => s # None

Hooks == {"settings", "got", "asked", "focus", "prefs", "slider", "host", "test", "ssl"}
IsDialog(r) == r = [x \in Hooks |-> r[x]]

\* What every copy of the settings has.
Whole(s) ==
  /\ IsObject(s)
  /\ Sliders \cup {"SslCert"} \subseteq DOMAIN s

ServerOK(s) == Whole(s) /\ DOMAIN s = DOMAIN Initial /\ s["CacheSize"] \in Int

\* The size of the cache is a number, unless it is being typed.
SlidersOK(r) ==
  /\ r.slider = [f \in Sliders |-> r.slider[f]]
  /\ r.slider["CacheSize"] \in Int \cup {None}
  /\ r.focus # "CacheSize" => r.slider["CacheSize"] \in Int
  /\ r.focus \in Sliders \cup {None}

\* What the controls show is what the user asked for.
AskedOK(r) ==
  /\ DOMAIN r.asked \subseteq DOMAIN Entries(r.settings)
  /\ \A f \in DOMAIN r.asked :
       r.asked[f] = IF f \in Sliders THEN r.slider[f] ELSE Checked(f, r.settings[f])

\* The dialog has settings or waits for them, and while it waits the server keeps its own.
DialogOK(r, o, s) ==
  /\ IsDialog(r) /\ SlidersOK(r) /\ AskedOK(r)
  /\ r.settings # None => Whole(r.settings) /\ r.got = None
  /\ r.got \notin {None, Pending} => r.got = s
  /\ ~o => r.settings = None /\ r.got = None

IsRequest(q) == q = [x \in {"op", "base", "panel", "dialog", "answer"} |-> q[x]]

RequestsOK(rq) == IsFiniteSet(DOMAIN rq) /\ \A i \in DOMAIN rq : IsRequest(rq[i])

Alters(q) == q.op # "status"

\* An answer tells what the server did.
Answered(q) == q.answer \notin {Pending, "error"}

\* At most one change of the certificate is on its way, from the settings the dialog has.
RunsFit(rq, t, o, s) ==
  /\ \A i, j \in DOMAIN rq : Alters(rq[i]) /\ Alters(rq[j]) => i = j
  /\ \A i \in DOMAIN rq : Alters(rq[i]) =>
       /\ o => rq[i].dialog /\ t # None /\ rq[i].base = t
       /\ Answered(rq[i]) => rq[i].answer = s["SslCert"]

RunsOK(rq, t, o, s) ==
  /\ RequestsOK(rq) /\ RunsFit(rq, t, o, s)
  /\ \A i \in DOMAIN rq : Alters(rq[i]) => (rq[i].dialog <=> o)

\* Unless its answer is still to come, or got lost, the dialog knows of a change.
CertOK(rq, t, s, u) ==
  ~u /\ t # None /\ (\A i \in DOMAIN rq : Alters(rq[i]) => ~Answered(rq[i]))
    => t["SslCert"] \in {s["SslCert"], "none"}

\* A save that is on its way.
PostOK(p, s, u) ==
  /\ Whole(p.sets) /\ p.sets["CacheSize"] \in Int
  /\ ~u => p.sets["SslCert"] \in {s["SslCert"], "none"}
  /\ \A f \in DOMAIN p.asked :
       p.asked[f] = IF f = "CacheSize" THEN p.sets[f] \div MB ELSE Checked(f, p.sets[f])

\* It is the only one, and nothing else can change or ask for the settings.
PostsOK(rq, o, s, u) ==
  \/ posts = <<>>
  \/ /\ posts = <<posts[1]>> /\ PostOK(posts[1], s, u)
     /\ ~o
     /\ \A i \in DOMAIN rq : ~Alters(rq[i])

DialogInv ==
  /\ open \in BOOLEAN
  /\ ServerOK(server)
  /\ DialogOK(d, open, server)
  /\ RunsOK(runs, d.settings, open, server)
  /\ CertOK(runs, d.settings, server, untold)

IInv == DialogInv /\ PostsOK(runs, open, server, untold)

-----------------------------------------------------------------------------
(* Objects, requests and answers.                                           *)

LEMMA NumberIsFree ==
  ASSUME NEW rq, IsFiniteSet(DOMAIN rq)
  PROVE  Number(rq) \in Nat \ DOMAIN rq
<1> DEFINE k == Cardinality(DOMAIN rq)
           Upto == 1 .. k + 1
<1>1. k \in Nat
  BY FS_CardinalityType
<1>2. IsFiniteSet(Upto) /\ Cardinality(Upto) = k + 1
  <2>1. 1 \in Int /\ k + 1 \in Int /\ ~(1 > k + 1) /\ k + 1 - 1 + 1 = k + 1
    BY <1>1
  <2> QED
    BY <2>1, FS_Interval
<1>3. ~(Upto \subseteq DOMAIN rq)
  <2> SUFFICES ASSUME Upto \subseteq DOMAIN rq PROVE FALSE
    OBVIOUS
  <2>1. Cardinality(Upto) <= k
    BY FS_Subset
  <2> QED
    BY <1>1, <1>2, <2>1
<1>4. \E n \in 1 .. Cardinality(DOMAIN rq) + 1 : n \notin DOMAIN rq
  BY <1>3
<1>5. Number(rq) \in 1 .. Cardinality(DOMAIN rq) + 1 /\ Number(rq) \notin DOMAIN rq
  BY <1>4 DEF Number
<1> QED
  BY <1>1, <1>5

\* A request that is sent joins the others.
LEMMA SentIs ==
  ASSUME NEW rq, IsFiniteSet(DOMAIN rq), NEW r
  PROVE  /\ Number(rq) \in Nat \ DOMAIN rq
         /\ DOMAIN Sent(rq, r) = DOMAIN rq \cup {Number(rq)}
         /\ Sent(rq, r)[Number(rq)] = r
         /\ \A i \in DOMAIN rq : Sent(rq, r)[i] = rq[i]
<1>1. Number(rq) \in Nat \ DOMAIN rq
  BY NumberIsFree
<1> QED
  BY <1>1 DEF Sent

LEMMA KindsAre ==
  /\ Numbers = {"TorrentDisconnectTimeout", "ConnectionsLimit", "DownloadRateLimit", "UploadRateLimit",
                "PeersListenPort", "RetrackersMode"}
  /\ Texts = {"TorrentsSavePath", "TrackersListURL", "DefaultTrackers", "FriendlyName"}
  /\ Switches \cap Inverted = {}
  /\ Switches \cap (Sliders \cup {"SslCert"}) = {}
BY DEF Numbers, Texts, Switches, Controls, MainControls, SearchControls, AdditionalControls, Sliders

LEMMA SpreadIs ==
  ASSUME NEW s, s # None, NEW t
  PROVE  /\ DOMAIN Spread(s, t) = DOMAIN s \cup DOMAIN t
         /\ IsObject(Spread(s, t))
         /\ \A f \in DOMAIN t : Spread(s, t)[f] = t[f]
         /\ \A f \in DOMAIN s \ DOMAIN t : Spread(s, t)[f] = s[f]
BY DEF Spread, Entries, IsObject

LEMMA SpreadOfNone ==
  ASSUME NEW t
  PROVE  /\ DOMAIN Spread(None, t) = DOMAIN t
         /\ IsObject(Spread(None, t))
         /\ \A f \in DOMAIN t : Spread(None, t)[f] = t[f]
<1>1. DOMAIN <<>> = {}
  OBVIOUS
<1> QED
  BY <1>1 DEF Spread, Entries, IsObject

\* What is asked for is the only thing a spread may take from elsewhere.
LEMMA AskedSpreadIs ==
  ASSUME NEW a, NEW t
  PROVE  /\ DOMAIN Spread(a, t) \subseteq DOMAIN a \cup DOMAIN t
         /\ \A f \in DOMAIN t : Spread(a, t)[f] = t[f]
         /\ \A f \in DOMAIN Spread(a, t) \ DOMAIN t : f \in DOMAIN a /\ Spread(a, t)[f] = a[f]
<1>1. DOMAIN <<>> = {}
  OBVIOUS
<1> QED
  BY <1>1 DEF Spread, Entries

LEMMA OnlyIs ==
  ASSUME NEW f, NEW v
  PROVE  DOMAIN Only(f, v) = {f} /\ Only(f, v)[f] = v /\ Asked(Only(f, v)) = Only(f, Checked(f, v))
BY DEF Only, Asked

\* t is s with the setting f changed, or one control of those asked for.
Changed(t, s, f, v) ==
  /\ IsObject(t) /\ DOMAIN t = DOMAIN s \cup {f}
  /\ t[f] = v /\ \A g \in DOMAIN s \ {f} : t[g] = s[g]

AskedMore(b, a, f, w) ==
  /\ DOMAIN b \subseteq DOMAIN a \cup {f} /\ b[f] = w
  /\ \A g \in DOMAIN b \ {f} : g \in DOMAIN a /\ b[g] = a[g]

LEMMA OneIsSpread ==
  ASSUME NEW s, s # None, NEW f, NEW v
  PROVE  Changed(Spread(s, Only(f, v)), s, f, v)
<1> DEFINE o == Only(f, v)
           t == Spread(s, o)
<1>1. DOMAIN o = {f} /\ o[f] = v
  BY OnlyIs
<1> HIDE DEF o
<1>2. /\ DOMAIN t = DOMAIN s \cup DOMAIN o /\ IsObject(t)
      /\ \A g \in DOMAIN o : t[g] = o[g]
      /\ \A g \in DOMAIN s \ DOMAIN o : t[g] = s[g]
  BY SpreadIs
<1> HIDE DEF t
<1>3. Changed(t, s, f, v)
  BY <1>1, <1>2 DEF Changed
<1> QED
  BY <1>3 DEF t, o

LEMMA OneIsAsked ==
  ASSUME NEW a, NEW f, NEW w
  PROVE  AskedMore(Spread(a, Only(f, w)), a, f, w)
<1> DEFINE o == Only(f, w)
           b == Spread(a, o)
<1>1. DOMAIN o = {f} /\ o[f] = w
  BY OnlyIs
<1> HIDE DEF o
<1>2. /\ DOMAIN b \subseteq DOMAIN a \cup DOMAIN o
      /\ \A g \in DOMAIN o : b[g] = o[g]
      /\ \A g \in DOMAIN b \ DOMAIN o : g \in DOMAIN a /\ b[g] = a[g]
  BY AskedSpreadIs
<1> HIDE DEF b
<1>3. AskedMore(b, a, f, w)
  BY <1>1, <1>2 DEF AskedMore
<1> QED
  BY <1>3 DEF b, o

LEMMA SizesOf ==
  ASSUME NEW s, NEW t, s # None, t # None, \A f \in Sliders : s[f] = t[f]
  PROVE  Sizes(s) = Sizes(t)
BY DEF Sizes

\* q is r with the settings s, which the sliders follow.
SetTo(q, r, s) ==
  /\ IsDialog(q) /\ q.settings = s
  /\ q.slider = IF Sizes(s) = Sizes(r.settings) THEN r.slider ELSE Sizes(s)
  /\ q.got = r.got /\ q.asked = r.asked /\ q.focus = r.focus /\ q.prefs = r.prefs
  /\ q.host = r.host /\ q.test = r.test /\ q.ssl = r.ssl

LEMMA SettingsAreSet ==
  ASSUME NEW r, IsDialog(r), NEW s
  PROVE  SetTo(setSettings(r, s), r, s)
BY DEF IsDialog, Hooks, setSettings, SetTo

-----------------------------------------------------------------------------
(* What is rendered.                                                        *)

\* Rendering touches the panel of the certificate alone, and only says of a change under way
\* that its panel, or its dialog, is gone.
LEMMA RenderIs ==
  ASSUME NEW r, IsDialog(r), NEW rq, RequestsOK(rq), Render(r, rq), open' \in BOOLEAN
  PROVE  /\ IsDialog(d') /\ \A x \in Hooks \ {"ssl"} : d'[x] = r[x]
         /\ RequestsOK(runs')
         /\ \A i \in DOMAIN runs' : Alters(runs'[i]) => i \in DOMAIN rq /\ Alters(rq[i])
         /\ \A i \in DOMAIN rq : Alters(rq[i]) =>
              /\ i \in DOMAIN runs' /\ Alters(runs'[i])
              /\ runs'[i].base = rq[i].base /\ runs'[i].answer = rq[i].answer
              /\ open' => (runs'[i].dialog <=> rq[i].dialog)
              /\ ~open' => ~runs'[i].dialog
<1> DEFINE left == [i \in {j \in DOMAIN rq : rq[j].op # "status"} |->
                      [rq[i] EXCEPT !.panel = FALSE, !.dialog = @ /\ open']]
           asks == Sent(rq, Request("status", None))
           panel == IF open' /\ selectedTab' = tabAdditional /\ r.settings # None THEN SslPanel ELSE None
<1>1. d' = r \/ d' = [r EXCEPT !.ssl = panel]
  BY DEF Render
<1>2. IsDialog(d') /\ \A x \in Hooks \ {"ssl"} : d'[x] = r[x]
  BY <1>1 DEF IsDialog, Hooks
<1>3. \/ runs' = left
      \/ open' /\ runs' = rq
      \/ open' /\ runs' = asks
  BY DEF Render
<1>4. CASE open' /\ runs' = rq
  BY <1>2, <1>4
<1>5. CASE runs' = left
  <2>1. DOMAIN left = {j \in DOMAIN rq : Alters(rq[j])} /\ IsFiniteSet(DOMAIN left)
    BY FS_Subset DEF Alters, RequestsOK
  <2>2. ASSUME NEW i \in DOMAIN left
        PROVE  /\ IsRequest(left[i]) /\ left[i].op = rq[i].op
               /\ left[i].base = rq[i].base /\ left[i].answer = rq[i].answer
               /\ left[i].dialog = (rq[i].dialog /\ open')
    <3>1. IsRequest(rq[i]) /\ left[i] = [rq[i] EXCEPT !.panel = FALSE, !.dialog = @ /\ open']
      BY <2>1, <2>2 DEF RequestsOK
    <3> QED
      BY <3>1 DEF IsRequest
  <2> HIDE DEF left
  <2> QED
    BY <1>2, <1>5, <2>1, <2>2 DEF Alters, RequestsOK
<1>6. CASE open' /\ runs' = asks
  <2> DEFINE q == Request("status", None)
  <2>1. /\ Number(rq) \in Nat \ DOMAIN rq
        /\ DOMAIN asks = DOMAIN rq \cup {Number(rq)}
        /\ asks[Number(rq)] = q
        /\ \A i \in DOMAIN rq : asks[i] = rq[i]
    BY SentIs DEF RequestsOK
  <2>2. IsFiniteSet(DOMAIN asks)
    BY <2>1, FS_AddElement DEF RequestsOK
  <2>3. ~Alters(q) /\ IsRequest(q)
    BY DEF Alters, Request, IsRequest
  <2> HIDE DEF asks, q
  <2> QED
    BY <1>2, <1>6, <2>1, <2>2, <2>3 DEF RequestsOK
<1> QED
  BY <1>3, <1>4, <1>5, <1>6

\* What a handler makes of the dialog and its requests holds once it is rendered.
LEMMA RenderKeeps ==
  ASSUME NEW r, NEW rq, RequestsOK(rq), Render(r, rq), open' \in BOOLEAN,
         UNCHANGED server, ServerOK(server), DialogOK(r, open', server), RunsFit(rq, r.settings, open', server),
         CertOK(rq, r.settings, server, untold')
  PROVE  /\ DialogInv'
         /\ d'.settings = r.settings /\ d'.got = r.got
         /\ (\A i \in DOMAIN rq : ~Alters(rq[i])) => (\A i \in DOMAIN runs' : ~Alters(runs'[i]))
<1>1. IsDialog(r)
  BY DEF DialogOK
<1>2. /\ IsDialog(d') /\ \A x \in Hooks \ {"ssl"} : d'[x] = r[x]
      /\ RequestsOK(runs')
      /\ \A i \in DOMAIN runs' : Alters(runs'[i]) => i \in DOMAIN rq /\ Alters(rq[i])
      /\ \A i \in DOMAIN rq : Alters(rq[i]) =>
           /\ i \in DOMAIN runs' /\ Alters(runs'[i])
           /\ runs'[i].base = rq[i].base /\ runs'[i].answer = rq[i].answer
           /\ open' => (runs'[i].dialog <=> rq[i].dialog)
           /\ ~open' => ~runs'[i].dialog
  BY <1>1, RenderIs
<1>3. /\ d'.settings = r.settings /\ d'.got = r.got /\ d'.asked = r.asked
      /\ d'.focus = r.focus /\ d'.slider = r.slider
  BY <1>2 DEF Hooks
<1>4. DialogOK(d', open', server')
  BY <1>2, <1>3 DEF DialogOK, SlidersOK, AskedOK
<1>5. RunsOK(runs', d'.settings, open', server')
  <2>1. \A i, j \in DOMAIN runs' : Alters(runs'[i]) /\ Alters(runs'[j]) => i = j
    BY <1>2 DEF RunsFit
  <2>2. ASSUME NEW i \in DOMAIN runs', Alters(runs'[i])
        PROVE  /\ open' => runs'[i].dialog /\ d'.settings # None /\ runs'[i].base = d'.settings
               /\ Answered(runs'[i]) => runs'[i].answer = server'["SslCert"]
               /\ runs'[i].dialog <=> open'
    BY <1>2, <1>3, <2>2 DEF RunsFit, Answered
  <2> QED
    BY <1>2, <2>1, <2>2 DEF RunsOK, RunsFit
<1>6. CertOK(runs', d'.settings, server', untold')
  BY <1>2, <1>3 DEF CertOK, Answered
<1> QED
  BY <1>2, <1>3, <1>4, <1>5, <1>6 DEF DialogInv

\* So it does while the posts are left alone.
LEMMA RenderAlone ==
  ASSUME IInv, NEW r, NEW rq, RequestsOK(rq), Render(r, rq), open' \in BOOLEAN,
         UNCHANGED <<server, posts>>,
         DialogOK(r, open', server), RunsFit(rq, r.settings, open', server),
         CertOK(rq, r.settings, server, untold'), PostsOK(rq, open', server, untold')
  PROVE  IInv'
<1>1. /\ DialogInv'
      /\ d'.settings = r.settings /\ d'.got = r.got
      /\ (\A i \in DOMAIN rq : ~Alters(rq[i])) => (\A i \in DOMAIN runs' : ~Alters(runs'[i]))
  BY RenderKeeps DEF IInv, DialogInv
<1>2. PostsOK(runs, open, server, untold)'
  BY <1>1 DEF PostsOK
<1> QED
  BY <1>1, <1>2 DEF IInv

\* The settings are left alone.
LEMMA SettingsKept ==
  ASSUME IInv, NEW r, DialogOK(r, open, server), Render(r, runs),
         r.settings = d.settings, r.got = d.got,
         UNCHANGED <<open, server, posts, untold>>
  PROVE  IInv'
<1>1. RequestsOK(runs) /\ RunsFit(runs, r.settings, open', server)
  BY DEF IInv, DialogInv, RunsOK
<1>2. CertOK(runs, r.settings, server, untold') /\ PostsOK(runs, open', server, untold')
  BY DEF IInv, DialogInv, PostsOK
<1> QED
  BY <1>1, <1>2, RenderAlone DEF IInv, DialogInv

\* So are the controls that show them.
LEMMA ControlsKept ==
  ASSUME IInv, NEW r, IsDialog(r), Render(r, runs),
         r.settings = d.settings, r.got = d.got, r.asked = d.asked, r.focus = d.focus, r.slider = d.slider,
         UNCHANGED <<open, server, posts, untold>>
  PROVE  IInv'
<1>1. DialogOK(r, open, server)
  BY DEF IInv, DialogInv, DialogOK, SlidersOK, AskedOK
<1> QED
  BY <1>1, SettingsKept

\* The user changes the settings, with no change of the certificate under way.
LEMMA EditRendered ==
  ASSUME IInv, NEW r, Render(r, runs), ~Changing, d.settings # None, r.settings # None,
         DialogOK(r, open, server), r.settings["SslCert"] \in {d.settings["SslCert"], "none"},
         UNCHANGED <<open, server, posts, untold>>
  PROVE  IInv'
<1>1. \A i \in DOMAIN runs : ~Alters(runs[i])
  BY DEF Changing, Alters
<1>2. RequestsOK(runs) /\ RunsFit(runs, r.settings, open', server)
  BY <1>1 DEF IInv, DialogInv, RunsOK, RunsFit
<1>3. CertOK(runs, r.settings, server, untold')
  BY <1>1 DEF IInv, DialogInv, CertOK
<1>4. posts = <<>>
  BY DEF IInv, PostsOK, DialogInv, DialogOK
<1> QED
  BY <1>2, <1>3, <1>4, RenderAlone DEF IInv, DialogInv, PostsOK


-----------------------------------------------------------------------------
(* The controls.                                                            *)

\* A setting that is no slider takes the value the control shows.
LEMMA ControlIsSet ==
  ASSUME NoneIsNoObject, IInv, d.settings # None,
         NEW f, f \notin Sliders \cup {"SslCert"}, NEW v, NEW w, w = Checked(f, v), NEW r, IsDialog(r),
         LET q == setSettings(d, Spread(d.settings, Only(f, v))) IN
           /\ r.settings = q.settings /\ r.got = q.got /\ r.focus = q.focus /\ r.slider = q.slider
           /\ r.asked = Spread(q.asked, Only(f, w))
  PROVE  /\ DialogOK(r, open, server) /\ r.settings # None
         /\ r.settings["SslCert"] = d.settings["SslCert"]
<1> DEFINE s == Spread(d.settings, Only(f, v))
           a == Spread(d.asked, Only(f, w))
<1>1. IsDialog(d) /\ Whole(d.settings) /\ SlidersOK(d) /\ AskedOK(d) /\ open /\ d.got = None
  BY DEF IInv, DialogInv, DialogOK
<1>2. Changed(s, d.settings, f, v) /\ AskedMore(a, d.asked, f, w)
  BY OneIsSpread, OneIsAsked
<1>3. IsObject(s) /\ s # None
  BY <1>2 DEF Changed, NoneIsNoObject
<1> DEFINE q == setSettings(d, s)
<1>4. /\ r.settings = q.settings /\ r.got = q.got /\ r.focus = q.focus /\ r.slider = q.slider
      /\ r.asked = Spread(q.asked, Only(f, w)) /\ SetTo(q, d, s)
  BY <1>1, SettingsAreSet
<1> HIDE DEF s, q
<1>5. \A g \in Sliders : s[g] = d.settings[g]
  BY <1>1, <1>2 DEF Whole, Changed
<1>6. Sizes(s) = Sizes(d.settings)
  BY <1>3, <1>5, SizesOf, Zenon
<1>7. /\ r.settings = s /\ r.got = None /\ r.focus = d.focus /\ r.slider = d.slider /\ r.asked = a
  BY <1>1, <1>4, <1>6 DEF SetTo
<1> HIDE DEF a
<1>8. Whole(s) /\ s["SslCert"] = d.settings["SslCert"]
  BY <1>1, <1>2 DEF Whole, Changed
<1>9. AskedOK(r)
  <2>1. Entries(s) = s /\ Entries(d.settings) = d.settings
    BY <1>3 DEF Entries
  <2> QED
    BY <1>1, <1>2, <1>7, <2>1 DEF AskedOK, Changed, AskedMore
<1>10. SlidersOK(r)
  BY <1>1, <1>7 DEF SlidersOK
<1> QED
  BY <1>1, <1>3, <1>7, <1>8, <1>9, <1>10 DEF DialogOK

LEMMA InputKeeps ==
  ASSUME NoneIsNoObject, Patient, IInv, NEW f \in Fields,
         Toggle(f) \/ TypeNumber(f) \/ TypeText(f)
  PROVE  IInv'
<1>1. PICK v : Change(f, v) /\ (f \in Inverted => v \in BOOLEAN)
  BY KindsAre DEF Toggle, TypeNumber, TypeText, Values, Inverted
<1> DEFINE q == setSettings(d, Spread(d.settings, Only(f, Checked(f, v))))
           r == inputForm(d, f, v)
<1>2. /\ d.settings # None /\ ~Changing /\ Render(r, runs)
      /\ UNCHANGED <<open, server, posts, untold>>
  BY <1>1 DEF Change, At, User, shell, history
<1>3. f \notin Sliders \cup {"SslCert"}
  BY SettingsAssumption, KindsAre DEF Sliders, Inverted
<1>4. v = Checked(f, Checked(f, v))
  BY <1>1 DEF Checked
<1>5. IsDialog(q)
  BY SettingsAreSet DEF IInv, DialogInv, DialogOK, SetTo
<1>6. r = [q EXCEPT !.asked = Spread(@, Only(f, v))]
  BY DEF inputForm
<1> HIDE DEF q, r
<1>7. /\ IsDialog(r) /\ r.asked = Spread(q.asked, Only(f, v))
      /\ r.settings = q.settings /\ r.got = q.got /\ r.focus = q.focus /\ r.slider = q.slider
  BY <1>5, <1>6 DEF IsDialog, Hooks
<1>8. /\ DialogOK(r, open, server) /\ r.settings # None
      /\ r.settings["SslCert"] = d.settings["SslCert"]
  BY <1>2, <1>3, <1>4, <1>7, ControlIsSet DEF q
<1> QED
  BY <1>2, <1>8, EditRendered

\* updateSettings with one setting.
LEMMA UpdateKeeps ==
  ASSUME NoneIsNoObject, Patient, IInv, NEW tab, At(tab),
         NEW f \in {"UseDisk", "TMDBSettings", "TorznabUrls"}, NEW v, NEW r, IsDialog(r),
         LET u == updateSettings(d, Only(f, v)) IN
           /\ r.settings = u.settings /\ r.got = u.got /\ r.focus = u.focus
           /\ r.slider = u.slider /\ r.asked = u.asked,
         Render(r, runs), UNCHANGED <<server, posts, untold>>
  PROVE  IInv'
<1> DEFINE q == setSettings(d, Spread(d.settings, Only(f, v)))
           u == updateSettings(d, Only(f, v))
<1>1. d.settings # None /\ ~Changing /\ UNCHANGED open
  BY DEF At, User, shell, history
<1>2. f \notin Sliders \cup {"SslCert"}
  BY DEF Sliders
<1>3. IsDialog(q)
  BY SettingsAreSet DEF IInv, DialogInv, DialogOK, SetTo
<1>4. u = [q EXCEPT !.asked = Spread(@, Only(f, Checked(f, v)))]
  BY OnlyIs DEF updateSettings
<1> HIDE DEF q, u
<1>5. /\ u.settings = q.settings /\ u.got = q.got /\ u.focus = q.focus /\ u.slider = q.slider
      /\ u.asked = Spread(q.asked, Only(f, Checked(f, v)))
  BY <1>3, <1>4 DEF IsDialog, Hooks
<1>6. /\ DialogOK(r, open, server) /\ r.settings # None
      /\ r.settings["SslCert"] = d.settings["SslCert"]
  BY <1>1, <1>2, <1>5, ControlIsSet DEF q, u
<1> QED
  BY <1>1, <1>6, EditRendered

\* The dialog with another value at a slider, and the focus in the field g.
Sized(f, v, g) == [d EXCEPT !.slider[f] = v, !.asked[f] = v, !.focus = g]

LEMMA SizeIsSet ==
  ASSUME IInv, NEW f \in Sliders, NEW v, f = "CacheSize" => v \in Int \cup {None},
         NEW g \in Sliders \cup {None}, d.focus \in {None, f},
         f = "CacheSize" /\ g # f => v \in Int,
         Render(Sized(f, v, g), runs), UNCHANGED <<open, server, posts, untold>>
  PROVE  IInv'
<1> DEFINE r == Sized(f, v, g)
<1>1. IsDialog(d) /\ SlidersOK(d) /\ AskedOK(d)
  BY DEF IInv, DialogInv, DialogOK
<1>2. /\ IsDialog(r) /\ r.settings = d.settings /\ r.got = d.got /\ r.focus = g
      /\ r.slider = [d.slider EXCEPT ![f] = v] /\ r.asked = [d.asked EXCEPT ![f] = v]
  BY <1>1 DEF IsDialog, Hooks, Sized
<1> HIDE DEF r
<1>3. "CacheSize" \in Sliders /\ None \notin Sliders
  BY SettingsAssumption DEF Sliders
<1>4. SlidersOK(r)
  BY <1>1, <1>2, <1>3 DEF SlidersOK
<1>5. AskedOK(r)
  BY <1>1, <1>2 DEF AskedOK, SlidersOK
<1>6. DialogOK(r, open, server)
  BY <1>2, <1>4, <1>5 DEF IInv, DialogInv, DialogOK
<1>7. Render(r, runs)
  BY DEF r
<1> QED
  BY <1>2, <1>6, <1>7, SettingsKept

LEMMA SizeKeeps ==
  ASSUME IInv,
         \/ \E f \in Sliders : \E v \in Positions[f] : Slide(f, v)
         \/ \E f \in Sliders, v \in Typed : TypeSize(f, v)
         \/ onBlur
  PROVE  IInv'
<1>1. IsDialog(d) /\ SlidersOK(d)
  BY DEF IInv, DialogInv, DialogOK
<1>2. ASSUME NEW f \in Sliders, NEW v \in Positions[f], Slide(f, v) PROVE IInv'
  <2>1. v \in Int
    BY SettingsAssumption
  <2>2. d.focus = None /\ UNCHANGED <<open, server, posts, untold>>
    BY <1>2 DEF Slide, At, User, shell, history
  <2>3. Sized(f, v, None) = [d EXCEPT !.slider[f] = v, !.asked[f] = v]
    BY <1>1, <2>2 DEF IsDialog, Hooks, Sized
  <2>4. Render(Sized(f, v, None), runs)
    BY <1>2, <2>3 DEF Slide
  <2> QED
    BY <2>1, <2>2, <2>4, SizeIsSet
<1>3. ASSUME NEW f \in Sliders, NEW v \in Typed, TypeSize(f, v) PROVE IInv'
  <2>1. v \in Int \cup {None}
    BY SettingsAssumption
  <2>2. d.focus = None /\ Render(Sized(f, v, f), runs) /\ UNCHANGED <<open, server, posts, untold>>
    BY <1>3 DEF TypeSize, At, User, shell, Sized, history
  <2> QED
    BY <2>1, <2>2, SizeIsSet
<1>4. CASE onBlur
  <2> DEFINE f == d.focus
             v == Corrected(f, d.slider[f])
  <2>1. f \in Sliders /\ Render(Sized(f, v, None), runs) /\ UNCHANGED <<open, server, posts, untold>>
    BY <1>1, <1>4 DEF onBlur, SlidersOK, shell, Sized, history
  <2>2. f = "CacheSize" => v \in Int
    <3>1. f = "CacheSize" => d.slider[f] \in Int \cup {None}
      BY <1>1 DEF SlidersOK
    <3> QED
      BY <3>1 DEF Corrected, inputMin, inputMax
  <2> HIDE DEF f, v
  <2>3. d.focus \in {None, f}
    BY DEF f
  <2> QED
    BY <2>1, <2>2, <2>3, SizeIsSet
<1> QED
  BY <1>2, <1>3, <1>4


-----------------------------------------------------------------------------
(* The panels.                                                              *)

LEMMA UpdateIs ==
  ASSUME NEW r, IsDialog(r), NEW t
  PROVE  IsDialog(updateSettings(r, t))
<1>1. IsDialog(setSettings(r, Spread(r.settings, t)))
  BY SettingsAreSet DEF SetTo
<1> QED
  BY <1>1 DEF updateSettings, IsDialog, Hooks

LEMMA PanelKeeps ==
  ASSUME NoneIsNoObject, Patient, IInv,
         \/ PickStorage
         \/ \E k \in TmdbKeys \cup {None} : TypeTmdb(k)
         \/ AddHost
         \/ \E i \in DOMAIN Setting("TorznabUrls") : DeleteHost(i)
  PROVE  IInv'
<1> DEFINE u(f, v) == updateSettings(d, Only(f, v))
<1>1. IsDialog(d)
  BY DEF IInv, DialogInv, DialogOK
<1>2. \A f, v : IsDialog(u(f, v))
  BY <1>1, UpdateIs
<1>3. CASE PickStorage
  <2>1. PICK v : Render(u("UseDisk", v), runs) /\ At(tabMain) /\ UNCHANGED <<server, posts, untold>>
    BY <1>3 DEF PickStorage, history
  <2> QED
    BY <1>2, <2>1, UpdateKeeps
<1>4. ASSUME NEW k, TypeTmdb(k) PROVE IInv'
  <2>1. Render(u("TMDBSettings", k), runs) /\ At(tabApp) /\ UNCHANGED <<server, posts, untold>>
    BY <1>4 DEF TypeTmdb, history
  <2> QED
    BY <1>2, <2>1, UpdateKeeps
<1>5. CASE AddHost
  <2>1. PICK v : /\ Render([u("TorznabUrls", v) EXCEPT !.host = None], runs)
                 /\ At(tabSearch) /\ UNCHANGED <<server, posts, untold>>
    BY <1>5 DEF AddHost, TorznabAt, Torznab, history
  <2> DEFINE w == u("TorznabUrls", v)
             r == [w EXCEPT !.host = None]
  <2>2. IsDialog(w)
    BY <1>2
  <2> HIDE DEF w
  <2>3. /\ IsDialog(r) /\ r.settings = w.settings /\ r.got = w.got /\ r.focus = w.focus
        /\ r.slider = w.slider /\ r.asked = w.asked
    BY <2>2 DEF IsDialog, Hooks
  <2>4. Render(r, runs)
    BY <2>1 DEF w
  <2> HIDE DEF r
  <2> QED
    BY <2>1, <2>3, <2>4, UpdateKeeps DEF w
<1>6. ASSUME NEW i, DeleteHost(i) PROVE IInv'
  <2>1. PICK v : Render(u("TorznabUrls", v), runs) /\ At(tabSearch) /\ UNCHANGED <<server, posts, untold>>
    BY <1>6 DEF DeleteHost, TorznabAt, Torznab, history
  <2> QED
    BY <1>2, <2>1, UpdateKeeps
<1> QED
  BY <1>3, <1>4, <1>5, <1>6

LEMMA ButtonKeeps ==
  ASSUME IInv,
         \/ \E p \in Prefs : TogglePlayer(p)
         \/ \E h \in Hosts : TypeHost(h)
         \/ TestHost \/ TestAnswered \/ TypePath \/ ChooseFiles
  PROVE  IInv'
<1>1. IsDialog(d)
  BY DEF IInv, DialogInv, DialogOK
<1>2. PICK r : /\ Render(r, runs) /\ UNCHANGED <<open, server, posts, untold>>
               /\ \/ \E x : r = [d EXCEPT !.prefs = x]
                  \/ \E x : r = [d EXCEPT !.host = x]
                  \/ \E x : r = [d EXCEPT !.test = x]
                  \/ \E x : r = [d EXCEPT !.ssl = x]
  <2>1. ASSUME NEW p \in Prefs, TogglePlayer(p)
        PROVE  /\ Render([d EXCEPT !.prefs = [d.prefs EXCEPT ![p] = ~d.prefs[p]]], runs)
               /\ UNCHANGED <<open, server, posts, untold>>
    BY <2>1 DEF TogglePlayer, At, User, shell, history
  <2>2. ASSUME NEW h \in Hosts, TypeHost(h)
        PROVE  Render([d EXCEPT !.host = h], runs) /\ UNCHANGED <<open, server, posts, untold>>
    BY <2>2 DEF TypeHost, TorznabAt, Torznab, At, User, shell, history
  <2>3. CASE TestHost
    BY <2>3 DEF TestHost, TorznabAt, Torznab, At, User, shell, history
  <2>4. CASE TestAnswered
    BY <2>4 DEF TestAnswered, Torznab, shell, history
  <2>5. CASE TypePath \/ ChooseFiles
    BY <2>5 DEF TypePath, ChooseFiles, SslAt, Ssl, At, User, shell, history
  <2> QED
    BY <2>1, <2>2, <2>3, <2>4, <2>5
<1>3. /\ IsDialog(r) /\ r.settings = d.settings /\ r.got = d.got /\ r.asked = d.asked
      /\ r.focus = d.focus /\ r.slider = d.slider
  BY <1>1, <1>2 DEF IsDialog, Hooks
<1> QED
  BY <1>2, <1>3, ControlsKept

\* The frame leads to other panels, with the dialog as it is.
LEMMA NavigateKeeps ==
  ASSUME IInv, Navigate
  PROVE  IInv'
<1>1. Render(d, runs) /\ UNCHANGED <<open, server, posts, untold>>
  BY DEF Navigate, SwitchProMode, handleChange, handleChangeIndex, changeTab, history
<1>2. IsDialog(d)
  BY DEF IInv, DialogInv, DialogOK
<1> QED
  BY <1>1, <1>2, ControlsKept


-----------------------------------------------------------------------------
(* The certificate.                                                         *)

LEMMA RunKeeps ==
  ASSUME Patient, IInv, NEW op \in {"regenerate", "selfsigned", "upload", "paths"}, Run(op)
  PROVE  IInv'
<1> DEFINE q == Request(op, d.settings)
           rq == Sent(runs, q)
           r == [d EXCEPT !.ssl = [d.ssl EXCEPT !.busy = TRUE]]
<1>1. /\ Render(r, rq) /\ ~Changing /\ d.settings # None /\ open
      /\ UNCHANGED <<open, server, posts, untold>>
  BY DEF Run, Ssl, SslAt, At, Mounted, User, shell, history
<1>2. IsDialog(d) /\ RequestsOK(runs) /\ \A i \in DOMAIN runs : ~Alters(runs[i])
  BY <1>1 DEF IInv, DialogInv, DialogOK, RunsOK, Changing, Alters
<1>3. /\ IsDialog(r) /\ r.settings = d.settings /\ r.got = d.got /\ r.asked = d.asked
      /\ r.focus = d.focus /\ r.slider = d.slider
  BY <1>2 DEF IsDialog, Hooks
<1>4. /\ DOMAIN rq = DOMAIN runs \cup {Number(runs)} /\ Number(runs) \notin DOMAIN runs
      /\ rq[Number(runs)] = q /\ \A i \in DOMAIN runs : rq[i] = runs[i]
  BY <1>2, SentIs DEF RequestsOK
<1>5. IsRequest(q) /\ q.base = d.settings /\ q.dialog /\ ~Answered(q)
  BY DEF Request, IsRequest, Answered
<1>6. IsFiniteSet(DOMAIN rq)
  BY <1>2, <1>4, FS_AddElement DEF RequestsOK
<1> HIDE DEF q, rq, r
<1>7. RequestsOK(rq)
  BY <1>2, <1>4, <1>5, <1>6 DEF RequestsOK
<1>8. \A i \in DOMAIN rq : Alters(rq[i]) => rq[i] = q /\ i = Number(runs)
  BY <1>2, <1>4
<1>9. RunsFit(rq, r.settings, open', server)
  BY <1>1, <1>3, <1>5, <1>8 DEF RunsFit
<1>10. CertOK(rq, r.settings, server, untold')
  BY <1>1, <1>2, <1>3 DEF IInv, DialogInv, CertOK
<1>11. DialogOK(r, open', server)
  BY <1>1, <1>3 DEF IInv, DialogInv, DialogOK, SlidersOK, AskedOK
<1>12. PostsOK(rq, open', server, untold')
  BY <1>1 DEF IInv, PostsOK
<1> QED
  BY <1>1, <1>7, <1>9, <1>10, <1>11, <1>12, RenderAlone

\* What the panel makes of an answer changes the settings only for a change of the certificate.
LEMMA DoneIs ==
  ASSUME NEW r, IsDialog(r), NEW q
  PROVE  LET t == Done(r, q) IN
         /\ IsDialog(t) /\ t.settings = r.settings /\ t.got = r.got /\ t.asked = r.asked
         /\ t.focus = r.focus /\ t.slider = r.slider
BY DEF Done, IsDialog, Hooks


\* The settings of the click get the new certificate, and no other change.
LEMMA CertIsApplied ==
  ASSUME NoneIsNoObject, IInv, d.settings # None, NEW q, Alters(q), q.base = d.settings
  PROVE  LET t == applyStatus(d, q) IN
         DialogOK(t, open, server) /\ t.settings # None /\ t.settings["SslCert"] = q.answer
<1> DEFINE p == IF d.ssl = None \/ ~q.panel THEN d
                ELSE [d EXCEPT !.ssl.status = q.answer, !.ssl.path = q.answer = "user"]
           s == Spread(d.settings, Only("SslCert", q.answer))
           m == setSettings(p, s)
           t == applyStatus(d, q)
<1>1. IsDialog(d) /\ Whole(d.settings) /\ SlidersOK(d) /\ AskedOK(d) /\ open /\ d.got = None
  BY DEF IInv, DialogInv, DialogOK
<1>2. /\ IsDialog(p) /\ p.settings = d.settings /\ p.got = d.got /\ p.asked = d.asked
      /\ p.focus = d.focus /\ p.slider = d.slider
  BY <1>1 DEF IsDialog, Hooks
<1>3. t = [m EXCEPT !.asked["SslCert"] = q.answer]
  BY DEF applyStatus, Alters
<1>4. Changed(s, d.settings, "SslCert", q.answer)
  BY OneIsSpread
<1> HIDE DEF p, s, t
<1>5. SetTo(m, p, s)
  BY <1>2, SettingsAreSet
<1> HIDE DEF m
<1>6. IsObject(s) /\ s # None
  BY <1>4 DEF Changed, NoneIsNoObject
<1>7. \A g \in Sliders : s[g] = d.settings[g]
  BY <1>1, <1>4 DEF Whole, Changed, Sliders
<1>8. Sizes(s) = Sizes(d.settings)
  BY <1>6, <1>7, SizesOf, Zenon
<1>9. /\ IsDialog(t) /\ t.settings = s /\ t.got = None /\ t.focus = d.focus /\ t.slider = d.slider
      /\ t.asked = [d.asked EXCEPT !["SslCert"] = q.answer]
  <2>1. m.settings = s /\ m.got = None /\ m.focus = d.focus /\ m.slider = d.slider /\ m.asked = d.asked /\ IsDialog(m)
    BY <1>1, <1>2, <1>5, <1>8 DEF SetTo
  <2> QED
    BY <1>3, <2>1 DEF IsDialog, Hooks
<1>10. Whole(s) /\ s["SslCert"] = q.answer
  BY <1>1, <1>4 DEF Whole, Changed
<1>11. SlidersOK(t)
  BY <1>1, <1>9 DEF SlidersOK
<1>12. AskedOK(t)
  <2>1. Entries(s) = s /\ Entries(d.settings) = d.settings
    BY <1>6 DEF Entries
  <2>2. "SslCert" \notin Sliders /\ Checked("SslCert", q.answer) = q.answer
    BY DEF Sliders, Checked, Inverted
  <2>3. DOMAIN t.asked = DOMAIN d.asked
    BY <1>9
  <2>4. ASSUME NEW f \in DOMAIN t.asked
        PROVE  t.asked[f] = IF f \in Sliders THEN t.slider[f] ELSE Checked(f, t.settings[f])
    <3>1. CASE f = "SslCert"
      BY <1>9, <1>10, <2>2, <2>3, <3>1
    <3>2. CASE f # "SslCert"
      <4>1. t.asked[f] = d.asked[f] /\ f \in DOMAIN d.settings
        BY <1>1, <1>9, <2>1, <2>3, <3>2 DEF AskedOK
      <4> QED
        BY <1>1, <1>4, <1>9, <2>3, <3>2, <4>1 DEF AskedOK, Changed
    <3> QED
      BY <3>1, <3>2
  <2> QED
    BY <1>1, <1>4, <1>9, <2>1, <2>3, <2>4 DEF AskedOK, Changed
<1>13. DialogOK(t, open, server) /\ t.settings # None /\ t.settings["SslCert"] = q.answer
  BY <1>1, <1>6, <1>9, <1>10, <1>11, <1>12 DEF DialogOK
<1> QED
  BY <1>13 DEF t

LEMMA RunAnsweredKeeps ==
  ASSUME NoneIsNoObject, IInv, NEW i \in DOMAIN runs, RunAnswered(i)
  PROVE  IInv'
<1> DEFINE q == runs[i]
           rq == Without(runs, i)
           r == IF q.answer = "error" \/ ~q.dialog THEN d ELSE applyStatus(d, q)
           t == Done(r, q)
<1>1. /\ q.answer # Pending /\ Render(t, rq) /\ open' \in BOOLEAN
      /\ UNCHANGED <<open, server, posts>>
      /\ untold' = (untold /\ ~(q.op # "status" /\ q.answer # "error" /\ q.dialog))
  BY DEF RunAnswered, shell, IInv, DialogInv
<1>2. IsDialog(d) /\ RequestsOK(runs) /\ DialogOK(d, open, server) /\ RunsOK(runs, d.settings, open, server)
  BY DEF IInv, DialogInv, DialogOK, RunsOK
<1>3. DOMAIN rq = DOMAIN runs \ {i} /\ \A j \in DOMAIN rq : rq[j] = runs[j]
  BY DEF Without
<1>4. RequestsOK(rq)
  <2>1. IsFiniteSet(DOMAIN rq)
    BY <1>2, <1>3, FS_RemoveElement DEF RequestsOK
  <2> HIDE DEF rq
  <2> QED
    BY <1>2, <1>3, <2>1 DEF RequestsOK
<1>5. CASE q.op = "status"
  <2>8. ~untold' => ~untold
    BY <1>1, <1>5
  <2>1. IsDialog(r) /\ r.settings = d.settings /\ r.got = d.got /\ r.asked = d.asked
        /\ r.focus = d.focus /\ r.slider = d.slider
    BY <1>2, <1>5 DEF applyStatus, IsDialog, Hooks
  <2>2. IsDialog(t) /\ t.settings = r.settings /\ t.got = r.got /\ t.asked = r.asked
        /\ t.focus = r.focus /\ t.slider = r.slider
    BY <2>1, DoneIs
  <2>3. \A j \in DOMAIN runs : Alters(runs[j]) => j \in DOMAIN rq
    BY <1>3, <1>5 DEF Alters
  <2> HIDE DEF r, t, rq
  <2>4. DialogOK(t, open', server)
    BY <1>1, <1>2, <2>1, <2>2 DEF DialogOK, SlidersOK, AskedOK
  <2>5. RunsFit(rq, t.settings, open', server)
    BY <1>1, <1>2, <1>3, <2>1, <2>2 DEF RunsOK, RunsFit
  <2>6. CertOK(rq, t.settings, server, untold')
    BY <1>3, <2>1, <2>2, <2>3, <2>8 DEF CertOK, IInv, DialogInv
  <2>7. PostsOK(rq, open', server, untold')
    BY <1>1, <1>3, <2>8 DEF PostsOK, PostOK, IInv
  <2> QED
    BY <1>1, <1>4, <2>4, <2>5, <2>6, <2>7, RenderAlone
<1>6. CASE q.op # "status"
  <2>1. Alters(q) /\ \A j \in DOMAIN rq : ~Alters(rq[j])
    BY <1>2, <1>3, <1>6 DEF Alters, RunsOK, RunsFit
  <2>2. posts = <<>>
    BY <2>1 DEF IInv, PostsOK
  <2>3. /\ DialogOK(r, open, server)
        /\ ~untold' /\ r.settings # None => r.settings["SslCert"] \in {server["SslCert"], "none"}
    <3>1. CASE q.answer # "error" /\ q.dialog
      <4>1. open /\ d.settings # None /\ q.base = d.settings /\ q.answer = server["SslCert"]
        BY <1>1, <1>2, <2>1, <3>1 DEF RunsOK, RunsFit, Answered
      <4>2. r = applyStatus(d, q)
        BY <3>1
      <4> HIDE DEF r, q
      <4> QED
        BY <2>1, <4>1, <4>2, CertIsApplied
    <3>2. CASE q.answer = "error" \/ ~q.dialog
      <4>1. r = d
        BY <3>2
      <4>2. q.answer # "error" => d.settings = None
        BY <1>2, <2>1, <3>2 DEF RunsOK, DialogOK
      <4>3. q.answer = "error" => \A j \in DOMAIN runs : Alters(runs[j]) => ~Answered(runs[j])
        BY <1>2, <2>1 DEF RunsOK, RunsFit, Answered
      <4>4. ~untold' => ~untold
        BY <1>1, <3>2
      <4> HIDE DEF r, q
      <4> QED
        BY <1>2, <4>1, <4>2, <4>3, <4>4 DEF IInv, DialogInv, CertOK
    <3> QED
      BY <3>1, <3>2
  <2> HIDE DEF r, rq
  <2>4. IsDialog(t) /\ t.settings = r.settings /\ t.got = r.got /\ t.asked = r.asked
        /\ t.focus = r.focus /\ t.slider = r.slider
    BY <2>3, DoneIs DEF DialogOK
  <2> HIDE DEF t
  <2>5. DialogOK(t, open', server)
    BY <1>1, <2>3, <2>4 DEF DialogOK, SlidersOK, AskedOK
  <2>6. RunsFit(rq, t.settings, open', server) /\ CertOK(rq, t.settings, server, untold')
    BY <2>1, <2>3, <2>4 DEF RunsFit, CertOK
  <2>7. PostsOK(rq, open', server, untold')
    BY <2>2 DEF PostsOK
  <2> QED
    BY <1>1, <1>4, <2>5, <2>6, <2>7, RenderAlone
<1> QED
  BY <1>5, <1>6


-----------------------------------------------------------------------------
(* Opening, resetting, saving, closing.                                     *)

\* Nothing is on its way while the user goes on.
LEMMA NothingAlters ==
  ASSUME ~Changing
  PROVE  \A i \in DOMAIN runs : ~Alters(runs[i])
BY DEF Changing, Alters

LEMMA OpenKeeps ==
  ASSUME Patient, IInv, OpenDialog
  PROVE  IInv'
<1>1. /\ \A i \in DOMAIN runs : ~Alters(runs[i])
      /\ ~open /\ open' = TRUE
      /\ d' = [Closed EXCEPT !.got = Pending, !.prefs = stored]
      /\ posts = <<>> /\ UNCHANGED <<server, posts, runs, untold>>
  BY NothingAlters DEF OpenDialog, handleClickOpen, rest, history
<1>2. /\ IsDialog(d') /\ d'.settings = None /\ d'.got = Pending /\ d'.asked = <<>> /\ d'.focus = None
      /\ d'.slider = Closed.slider
  BY <1>1 DEF Closed, IsDialog, Hooks
<1>3. SlidersOK(d')
  BY <1>2, SettingsAssumption DEF SlidersOK, Closed, Sliders
<1>4. AskedOK(d')
  <2>1. DOMAIN <<>> = {}
    OBVIOUS
  <2> QED
    BY <1>2, <2>1 DEF AskedOK
<1>5. DialogOK(d', open', server')
  BY <1>1, <1>2, <1>3, <1>4, SettingsAssumption DEF DialogOK
<1>6. RunsOK(runs', d'.settings, open', server')
  BY <1>1 DEF IInv, DialogInv, RunsOK, RunsFit
<1>7. CertOK(runs', d'.settings, server', untold')
  BY <1>2 DEF CertOK
<1>8. PostsOK(runs, open, server, untold)'
  BY <1>1 DEF PostsOK
<1> QED
  BY <1>1, <1>5, <1>6, <1>7, <1>8 DEF IInv, DialogInv


LEMMA ArriveKeeps ==
  ASSUME NoneIsNoObject, IInv, SettingsArrive
  PROVE  IInv'
<1> DEFINE s == [d.got EXCEPT !["CacheSize"] = @ \div MB]
           q == setSettings(d, s)
           a == Spread(Asked(s), q.slider)
           r == [q EXCEPT !.got = None, !.asked = a]
<1>1. /\ open /\ d.got \notin {Pending, None} /\ Render(r, runs)
      /\ UNCHANGED <<open, server, posts, untold>>
  BY DEF SettingsArrive, shell, history
<1>2. IsDialog(d) /\ DialogOK(d, open, server) /\ RunsOK(runs, d.settings, open, server)
  BY DEF IInv, DialogInv, DialogOK
<1>3. d.got = server /\ d.settings = None /\ ServerOK(server)
  BY <1>1, <1>2 DEF DialogOK, IInv, DialogInv
<1>4. \A i \in DOMAIN runs : ~Alters(runs[i])
  BY <1>1, <1>2, <1>3 DEF RunsOK, RunsFit
<1>5. posts = <<>>
  BY <1>1 DEF IInv, PostsOK
<1>6. /\ Whole(s) /\ s["CacheSize"] \in Int /\ s["SslCert"] = server["SslCert"] /\ s # None
  <2>1. "CacheSize" \in DOMAIN server /\ "SslCert" \in DOMAIN server
    BY <1>3 DEF ServerOK, Whole, Sliders
  <2>2. server["CacheSize"] \div MB \in Int
    BY <1>3 DEF ServerOK, MB
  <2>3. IsObject(s) /\ DOMAIN s = DOMAIN server
    BY <1>3 DEF IsObject
  <2>4. s["CacheSize"] = server["CacheSize"] \div MB /\ s["SslCert"] = server["SslCert"]
    BY <1>3, <2>1
  <2> HIDE DEF s
  <2> QED
    BY <1>3, <2>2, <2>3, <2>4 DEF ServerOK, Whole, NoneIsNoObject
<1> HIDE DEF s
<1>7. SetTo(q, d, s)
  BY <1>2, SettingsAreSet
<1>8. Sizes(s) # Sizes(d.settings) /\ Sizes(s) = [f \in Sliders |-> s[f]]
  <2>1. Sizes(s) = [f \in Sliders |-> s[f]]
    BY <1>6 DEF Sizes
  <2>2. IsObject([f \in Sliders |-> s[f]])
    BY DEF IsObject
  <2> QED
    BY <1>3, <2>1, <2>2 DEF Sizes, NoneIsNoObject
<1> HIDE DEF q
<1>9. /\ IsDialog(q) /\ q.settings = s /\ q.slider = [f \in Sliders |-> s[f]] /\ q.focus = d.focus
  BY <1>7, <1>8 DEF SetTo
<1>10. IsDialog(r) /\ r.settings = s /\ r.slider = q.slider /\ r.focus = d.focus /\ r.got = None /\ r.asked = a
  BY <1>9 DEF IsDialog, Hooks
<1>11. AskedOK(r)
  <2>1. DOMAIN q.slider = Sliders /\ \A f \in Sliders : q.slider[f] = s[f]
    BY <1>9
  <2>2. Entries(s) = s
    BY <1>6 DEF Entries
  <2>3. DOMAIN Asked(s) = DOMAIN s /\ \A f \in DOMAIN s : Asked(s)[f] = Checked(f, s[f])
    BY DEF Asked
  <2>4. /\ DOMAIN a \subseteq DOMAIN Asked(s) \cup DOMAIN q.slider
        /\ \A f \in DOMAIN q.slider : a[f] = q.slider[f]
        /\ \A f \in DOMAIN a \ DOMAIN q.slider : f \in DOMAIN Asked(s) /\ a[f] = Asked(s)[f]
    BY AskedSpreadIs
  <2> HIDE DEF a, r
  <2> QED
    BY <1>6, <1>10, <2>1, <2>2, <2>3, <2>4 DEF AskedOK, Whole
<1> HIDE DEF a, r
<1>12. SlidersOK(r)
  <2>1. "CacheSize" \in Sliders
    BY DEF Sliders
  <2> QED
    BY <1>2, <1>6, <1>9, <1>10, <2>1 DEF SlidersOK, DialogOK
<1>13. DialogOK(r, open', server)
  BY <1>1, <1>6, <1>10, <1>11, <1>12 DEF DialogOK
<1>14. RunsFit(runs, r.settings, open', server) /\ CertOK(runs, r.settings, server, untold') /\ RequestsOK(runs)
  BY <1>2, <1>4, <1>6, <1>10 DEF RunsFit, CertOK, RunsOK
<1>15. PostsOK(runs, open', server, untold')
  BY <1>5 DEF PostsOK
<1> QED
  BY <1>1, <1>13, <1>14, <1>15, RenderAlone

\* The defaults take the place of the settings they name, whether there are others or not.
LEMMA ResetKeeps ==
  ASSUME NoneIsNoObject, Patient, IInv, ResetToDefault
  PROVE  IInv'
<1> DEFINE t == defaultSettings
           c == [d EXCEPT !.slider = Sizes(t)]
           s == Spread(d.settings, t)
           q == setSettings(c, s)
           a == Spread(d.asked, Asked(t))
           r == [q EXCEPT !.asked = Spread(@, Asked(t))]
<1>1. /\ open /\ ~Changing /\ d.got = None /\ d.focus = None /\ Render(r, runs)
      /\ UNCHANGED <<open, server, posts, untold>>
  <2>1. c.settings = d.settings
    BY DEF IInv, DialogInv, DialogOK, IsDialog, Hooks
  <2> QED
    BY <2>1 DEF ResetToDefault, User, shell, updateSettings, history
<1>2. IsDialog(d) /\ DialogOK(d, open, server) /\ RunsOK(runs, d.settings, open, server)
  BY DEF IInv, DialogInv, DialogOK
<1>3. \A i \in DOMAIN runs : ~Alters(runs[i])
  BY <1>1, NothingAlters
<1>4. posts = <<>>
  BY <1>1, SettingsAssumption DEF IInv, PostsOK
<1>5. /\ Sliders \cup {"SslCert"} \subseteq DOMAIN t /\ t["CacheSize"] \in Int /\ t["SslCert"] = "none"
      /\ t # None /\ Sizes(t) = [f \in Sliders |-> t[f]]
  <2>1. IsObject(t)
    BY DEF defaultSettings, IsObject
  <2>2. t # None
    BY <2>1 DEF NoneIsNoObject
  <2>3. Sliders \cup {"SslCert"} \subseteq DOMAIN t
    BY DEF defaultSettings
  <2>4. t["CacheSize"] = 64 /\ t["SslCert"] = "none"
    <3>1. t["CacheSize"] = DefaultOf("CacheSize") /\ t["SslCert"] = DefaultOf("SslCert")
      BY <2>3 DEF defaultSettings, Sliders
    <3>2. DefaultOf("CacheSize") = 64
      BY KindsAre DEF DefaultOf
    <3>3. DefaultOf("SslCert") = "none"
      BY KindsAre DEF DefaultOf
    <3> QED
      BY <3>1, <3>2, <3>3
  <2> QED
    BY <2>2, <2>3, <2>4 DEF Sizes
<1>6. /\ IsDialog(c) /\ c.settings = d.settings /\ c.got = d.got /\ c.asked = d.asked
      /\ c.focus = d.focus /\ c.slider = Sizes(t)
  BY <1>2 DEF IsDialog, Hooks
<1> HIDE DEF t, c
<1>7. /\ IsObject(s) /\ DOMAIN s = DOMAIN Entries(d.settings) \cup DOMAIN t
      /\ \A f \in DOMAIN t : s[f] = t[f]
      /\ \A f \in DOMAIN Entries(d.settings) \ DOMAIN t : s[f] = d.settings[f]
  <2>1. DOMAIN <<>> = {}
    OBVIOUS
  <2>2. CASE d.settings = None
    <3>1. DOMAIN Entries(d.settings) = {}
      BY <2>1, <2>2 DEF Entries
    <3>2. /\ IsObject(Spread(None, t)) /\ DOMAIN Spread(None, t) = DOMAIN t
          /\ \A f \in DOMAIN t : Spread(None, t)[f] = t[f]
      BY SpreadOfNone
    <3> QED
      BY <2>2, <3>1, <3>2
  <2>3. CASE d.settings # None
    <3>1. Entries(d.settings) = d.settings
      BY <2>3 DEF Entries
    <3>2. /\ IsObject(s) /\ DOMAIN s = DOMAIN d.settings \cup DOMAIN t
          /\ \A f \in DOMAIN t : s[f] = t[f]
          /\ \A f \in DOMAIN d.settings \ DOMAIN t : s[f] = d.settings[f]
      BY <2>3, SpreadIs
    <3> QED
      BY <3>1, <3>2
  <2> QED
    BY <2>2, <2>3
<1> HIDE DEF s
<1>8. Whole(s) /\ s["SslCert"] = "none" /\ s # None
  BY <1>5, <1>7 DEF Whole, NoneIsNoObject
<1>9. Sizes(s) = Sizes(t)
  BY <1>5, <1>7, <1>8, SizesOf, Zenon
<1>10. SetTo(q, c, s)
  BY <1>6, SettingsAreSet
<1> HIDE DEF q
<1>11. /\ IsDialog(q) /\ q.settings = s /\ q.slider = [f \in Sliders |-> t[f]] /\ q.got = None
       /\ q.focus = None /\ q.asked = d.asked
  BY <1>1, <1>5, <1>6, <1>9, <1>10 DEF SetTo
<1>12. /\ IsDialog(r) /\ r.settings = s /\ r.slider = q.slider /\ r.focus = None /\ r.got = None
       /\ r.asked = a
  BY <1>11 DEF IsDialog, Hooks
<1>13. AskedOK(r)
  <2>1. Entries(s) = s
    BY <1>8 DEF Entries
  <2>2. DOMAIN Asked(t) = DOMAIN t /\ \A f \in DOMAIN t : Asked(t)[f] = Checked(f, t[f])
    BY DEF Asked
  <2>3. /\ DOMAIN a \subseteq DOMAIN d.asked \cup DOMAIN Asked(t)
        /\ \A f \in DOMAIN Asked(t) : a[f] = Asked(t)[f]
        /\ \A f \in DOMAIN a \ DOMAIN Asked(t) : f \in DOMAIN d.asked /\ a[f] = d.asked[f]
    BY AskedSpreadIs
  <2>4. \A f \in Sliders : Checked(f, t[f]) = t[f]
    BY DEF Sliders, Checked, Inverted
  <2>5. AskedOK(d)
    BY <1>2 DEF DialogOK
  <2> HIDE DEF a, r
  <2>6. DOMAIN r.asked \subseteq DOMAIN s
    BY <1>7, <1>12, <2>2, <2>3, <2>5 DEF AskedOK
  <2>7. ASSUME NEW f \in DOMAIN r.asked
        PROVE  r.asked[f] = IF f \in Sliders THEN r.slider[f] ELSE Checked(f, r.settings[f])
    <3>1. CASE f \in DOMAIN t
      BY <1>7, <1>11, <1>12, <2>2, <2>3, <2>4, <3>1
    <3>2. CASE f \notin DOMAIN t
      BY <1>5, <1>7, <1>12, <2>2, <2>3, <2>5, <2>7, <3>2 DEF AskedOK
    <3> QED
      BY <3>1, <3>2
  <2> QED
    BY <1>12, <2>1, <2>6, <2>7 DEF AskedOK
<1> HIDE DEF a, r
<1>14. SlidersOK(r)
  <2>1. "CacheSize" \in Sliders
    BY DEF Sliders
  <2> QED
    BY <1>5, <1>11, <1>12, <2>1 DEF SlidersOK
<1>15. DialogOK(r, open', server)
  BY <1>1, <1>8, <1>12, <1>13, <1>14 DEF DialogOK
<1>16. RunsFit(runs, r.settings, open', server) /\ CertOK(runs, r.settings, server, untold') /\ RequestsOK(runs)
  BY <1>2, <1>3, <1>8, <1>12 DEF RunsFit, CertOK, RunsOK
<1>17. DialogInv'
  BY <1>1, <1>15, <1>16, RenderKeeps DEF IInv, DialogInv
<1>18. PostsOK(runs, open, server, untold)'
  BY <1>1, <1>4 DEF PostsOK
<1> QED
  BY <1>17, <1>18 DEF IInv


LEMMA ClosedIs ==
  /\ IsDialog(Closed) /\ Closed.settings = None /\ Closed.got = None
  /\ \A o \in BOOLEAN : DialogOK(Closed, o, server)
<1>1. /\ IsDialog(Closed) /\ Closed.settings = None /\ Closed.got = None /\ Closed.asked = <<>>
      /\ Closed.focus = None
  BY DEF Closed, IsDialog, Hooks
<1>2. SlidersOK(Closed)
  BY <1>1, SettingsAssumption DEF SlidersOK, Closed, Sliders
<1>3. DOMAIN <<>> = {}
  OBVIOUS
<1> QED
  BY <1>1, <1>2, <1>3, SettingsAssumption DEF DialogOK, AskedOK

\* A dialog that closes forgets its settings; the changes of the certificate go on without it.
LEMMA CloseKeeps ==
  ASSUME IInv, NEW yes, Close(yes), UNCHANGED server
  PROVE  /\ DialogInv' /\ d'.settings = None /\ d'.got = None /\ open /\ open' = FALSE
         /\ (\A i \in DOMAIN runs : ~Alters(runs[i])) => (\A i \in DOMAIN runs' : ~Alters(runs'[i]))
<1>1. Render(Closed, runs) /\ open /\ open' = FALSE
  BY DEF Close, requestClose
<1>2. RequestsOK(runs) /\ RunsFit(runs, Closed.settings, open', server)
  BY <1>1 DEF IInv, DialogInv, RunsOK, RunsFit
<1>3. DialogOK(Closed, open', server) /\ Closed.settings = None /\ Closed.got = None
  BY <1>1, ClosedIs
<1>4. CertOK(runs, Closed.settings, server, untold')
  BY <1>3 DEF CertOK
<1> QED
  BY <1>1, <1>2, <1>3, <1>4, RenderKeeps DEF IInv, DialogInv

LEMMA CancelKeeps ==
  ASSUME IInv, Cancel
  PROVE  IInv'
<1>1. PICK yes : Close(yes) /\ UNCHANGED <<server, posts, untold>>
  BY DEF Cancel, history
<1>2. /\ DialogInv' /\ d'.settings = None /\ d'.got = None /\ open' = FALSE
      /\ (\A i \in DOMAIN runs : ~Alters(runs[i])) => (\A i \in DOMAIN runs' : ~Alters(runs'[i]))
  BY <1>1, CloseKeeps
<1>3. PostsOK(runs, open, server, untold)'
  BY <1>1, <1>2 DEF IInv, PostsOK
<1> QED
  BY <1>2, <1>3 DEF IInv

\* What is sent is what the controls show.
LEMMA PayloadOK ==
  ASSUME NoneIsNoObject, IInv, d.settings # None, d.focus = None, ~Changing
  PROVE  PostOK([sets |-> Payload, asked |-> d.asked], server, untold)
<1> DEFINE size == IF d.slider["CacheSize"] = None THEN 0 ELSE d.slider["CacheSize"]
           sizes == [f \in Sliders |-> IF f = "CacheSize" THEN size * MB ELSE d.slider[f]]
           s == Spread(d.settings, sizes)
<1>1. IsDialog(d) /\ Whole(d.settings) /\ SlidersOK(d) /\ AskedOK(d)
  BY DEF IInv, DialogInv, DialogOK
<1>2. "CacheSize" \in Sliders /\ "SslCert" \notin Sliders /\ None \notin Int /\ None \notin Sliders
  BY SettingsAssumption DEF Sliders
<1>3. d.slider["CacheSize"] \in Int /\ size = d.slider["CacheSize"]
  BY <1>1, <1>2 DEF SlidersOK
<1>4. /\ size * MB \in Int /\ (size * MB) \div MB = size
  BY <1>3 DEF MB
<1>5. DOMAIN sizes = Sliders /\ sizes["CacheSize"] = size * MB /\ \A f \in Sliders \ {"CacheSize"} : sizes[f] = d.slider[f]
  BY <1>2
<1>6. Payload = s
  BY DEF Payload
<1> HIDE DEF sizes
<1>7. /\ IsObject(s) /\ DOMAIN s = DOMAIN d.settings \cup DOMAIN sizes
      /\ \A f \in DOMAIN sizes : s[f] = sizes[f]
      /\ \A f \in DOMAIN d.settings \ DOMAIN sizes : s[f] = d.settings[f]
  <2>1. ASSUME NEW t
        PROVE  /\ DOMAIN Spread(d.settings, t) = DOMAIN d.settings \cup DOMAIN t
               /\ IsObject(Spread(d.settings, t))
               /\ \A f \in DOMAIN t : Spread(d.settings, t)[f] = t[f]
               /\ \A f \in DOMAIN d.settings \ DOMAIN t : Spread(d.settings, t)[f] = d.settings[f]
    BY SpreadIs
  <2> QED
    BY <2>1
<1> HIDE DEF s, size
<1>8. Whole(s) /\ s["CacheSize"] \in Int
  BY <1>1, <1>2, <1>4, <1>5, <1>7 DEF Whole
<1>9. ~untold => s["SslCert"] \in {server["SslCert"], "none"}
  <2>1. ~untold => d.settings["SslCert"] \in {server["SslCert"], "none"}
    BY NothingAlters DEF IInv, DialogInv, CertOK
  <2> QED
    BY <1>1, <1>2, <1>5, <1>7, <2>1 DEF Whole
<1>10. ASSUME NEW f \in DOMAIN d.asked
       PROVE  d.asked[f] = IF f = "CacheSize" THEN s[f] \div MB ELSE Checked(f, s[f])
  <2>1. CASE f = "CacheSize"
    BY <1>1, <1>2, <1>3, <1>4, <1>5, <1>7, <1>10, <2>1 DEF AskedOK
  <2>2. CASE f \in Sliders \ {"CacheSize"}
    <3>1. d.asked[f] = d.slider[f] /\ s[f] = d.slider[f]
      BY <1>1, <1>5, <1>7, <1>10, <2>2 DEF AskedOK
    <3>2. f \notin Inverted
      BY <2>2 DEF Sliders, Inverted
    <3> QED
      BY <2>2, <3>1, <3>2 DEF Checked
  <2>3. CASE f \notin Sliders
    <3>1. Entries(d.settings) = d.settings
      BY DEF Entries
    <3>2. f \in DOMAIN d.settings /\ d.asked[f] = Checked(f, d.settings[f])
      BY <1>1, <1>10, <2>3, <3>1 DEF AskedOK
    <3> QED
      BY <1>2, <1>5, <1>7, <2>3, <3>2
  <2> QED
    BY <2>1, <2>2, <2>3
<1> QED
  BY <1>6, <1>8, <1>9, <1>10 DEF PostOK

LEMMA SaveKeeps ==
  ASSUME NoneIsNoObject, Patient, IInv, handleSave
  PROVE  IInv'
<1>1. PICK yes : Close(yes) /\ ~Changing /\ d.focus = None /\ UNCHANGED <<server, untold>>
  BY DEF handleSave, history
<1>2. /\ DialogInv' /\ d'.settings = None /\ d'.got = None /\ open /\ open' = FALSE
      /\ \A i \in DOMAIN runs' : ~Alters(runs'[i])
  BY <1>1, CloseKeeps, NothingAlters
<1>3. CASE d.settings = None
  <2>1. UNCHANGED posts
    BY <1>3 DEF handleSave
  <2>2. PostsOK(runs, open, server, untold)'
    BY <1>1, <1>2, <2>1 DEF IInv, PostsOK
  <2> QED
    BY <1>2, <2>2 DEF IInv
<1>4. CASE d.settings # None
  <2> DEFINE p == [sets |-> Payload, asked |-> d.asked]
  <2>1. posts' = Append(posts, p)
    BY <1>4 DEF handleSave
  <2>2. posts = <<>>
    BY <1>4 DEF IInv, PostsOK, DialogInv, DialogOK
  <2>3. PostOK(p, server, untold)
    BY <1>1, <1>4, PayloadOK
  <2> HIDE DEF p
  <2>4. posts' = <<p>> /\ posts'[1] = p
    BY <2>1, <2>2
  <2>5. PostsOK(runs, open, server, untold)'
    BY <1>1, <1>2, <2>1, <2>3, <2>4 DEF PostsOK
  <2> QED
    BY <1>2, <2>5 DEF IInv
<1> QED
  BY <1>3, <1>4


-----------------------------------------------------------------------------
(* The server and the posters.                                              *)

LEMMA ReadKeeps ==
  ASSUME Patient, IInv, SettingsRead
  PROVE  IInv'
<1>1. PICK answer \in {server, None} : d' = [d EXCEPT !.got = answer]
  BY DEF SettingsRead
<1>2. open /\ d.got = Pending /\ posts = <<>> /\ UNCHANGED <<open, server, posts, runs>>
  BY DEF SettingsRead, shell, IInv, PostsOK
<1>3. IsDialog(d) /\ DialogOK(d, open, server) /\ d.settings = None
  BY <1>2, SettingsAssumption DEF IInv, DialogInv, DialogOK
<1>4. /\ IsDialog(d') /\ d'.settings = None /\ d'.got = answer /\ d'.asked = d.asked
      /\ d'.focus = d.focus /\ d'.slider = d.slider
  BY <1>1, <1>3 DEF IsDialog, Hooks
<1>5. DialogOK(d', open', server')
  BY <1>2, <1>3, <1>4 DEF DialogOK, SlidersOK, AskedOK
<1>6. RunsOK(runs', d'.settings, open', server') /\ CertOK(runs', d'.settings, server', untold')
  BY <1>2, <1>3, <1>4 DEF IInv, DialogInv, CertOK
<1>7. PostsOK(runs, open, server, untold)'
  BY <1>2 DEF PostsOK
<1> QED
  BY <1>2, <1>5, <1>6, <1>7 DEF IInv, DialogInv

LEMMA FailsafeIs ==
  ASSUME ServerOK(server), NEW s, Whole(s), s["CacheSize"] \in Int
  PROVE  ServerOK(Failsafe(s)) /\ Failsafe(s)["SslCert"] = s["SslCert"]
<1> DEFINE t == Failsafe(s)
<1>1. DOMAIN t = DOMAIN Initial /\ IsObject(t)
  BY DEF Failsafe, IsObject
<1>2. Sliders \cup {"SslCert"} \subseteq DOMAIN Initial /\ Sliders \cup {"SslCert"} \subseteq DOMAIN s
  BY DEF ServerOK, Whole
<1>3. t["CacheSize"] = IF s["CacheSize"] = 0 THEN 64 * MB ELSE s["CacheSize"]
  BY <1>2 DEF Failsafe, Sliders
<1>4. t["SslCert"] = s["SslCert"]
  BY <1>2 DEF Failsafe
<1> HIDE DEF t
<1>5. t["CacheSize"] \in Int
  BY <1>3 DEF MB
<1>6. ServerOK(t)
  BY <1>1, <1>2, <1>5 DEF ServerOK, Whole
<1> QED
  BY <1>4, <1>6 DEF t

\* The server takes the settings of a save, with its certificate or with none.
LEMMA SaveHandled ==
  ASSUME Patient, IInv, NEW i \in DOMAIN posts, SettingsSet(i)
  PROVE  IInv' /\ (~untold => server'["SslCert"] \in {server["SslCert"], "none"})
<1>1. /\ posts = <<posts[1]>> /\ PostOK(posts[1], server, untold)
      /\ ~open /\ \A j \in DOMAIN runs : ~Alters(runs[j])
  <2>1. posts # <<>>
    OBVIOUS
  <2> QED
    BY <2>1 DEF IInv, PostsOK
<1>2. /\ i = 1 /\ posts' = RemoveAt(posts, i) /\ server' \in {server, Failsafe(posts[i].sets)}
      /\ UNCHANGED <<open, d, runs, untold>>
  BY <1>1 DEF SettingsSet, shell, history
<1>3. posts' = <<>>
  <2>1. Len(posts) = 1
    BY <1>1
  <2>2. SubSeq(posts, 1, 0) = <<>> /\ SubSeq(posts, 2, 1) = <<>>
    OBVIOUS
  <2> QED
    BY <1>2, <2>1, <2>2 DEF RemoveAt
<1>4. ServerOK(server)
  BY DEF IInv, DialogInv
<1>5. ServerOK(server') /\ (~untold => server'["SslCert"] \in {server["SslCert"], "none"})
  BY <1>1, <1>2, <1>4, FailsafeIs DEF PostOK
<1>6. DialogOK(d', open', server')
  BY <1>1, <1>2, SettingsAssumption DEF IInv, DialogInv, DialogOK
<1>7. RunsOK(runs', d'.settings, open', server') /\ CertOK(runs', d'.settings, server', untold')
  BY <1>1, <1>2 DEF IInv, DialogInv, DialogOK, RunsOK, RunsFit, CertOK
<1>8. PostsOK(runs, open, server, untold)'
  BY <1>3 DEF PostsOK
<1> QED
  BY <1>2, <1>5, <1>6, <1>7, <1>8 DEF IInv, DialogInv

LEMMA RunHandledKeeps ==
  ASSUME Patient, IInv, NEW i \in DOMAIN runs, RunHandled(i)
  PROVE  IInv'
<1> DEFINE q == runs[i]
           c == CertAfter(q.op)
<1>1. PICK ok \in BOOLEAN, arrives \in BOOLEAN :
        /\ server' = IF ok THEN [server EXCEPT !["SslCert"] = c] ELSE server
        /\ runs' = [runs EXCEPT ![i].answer = IF ok /\ arrives THEN c ELSE "error"]
        /\ untold' = (untold \/ (ok /\ ~arrives /\ q.op # "status"))
  BY DEF RunHandled
<1>2. q.answer = Pending /\ UNCHANGED <<open, d, posts>>
  BY DEF RunHandled, shell
<1>3. /\ ServerOK(server) /\ DialogOK(d, open, server) /\ RunsOK(runs, d.settings, open, server)
      /\ CertOK(runs, d.settings, server, untold) /\ RequestsOK(runs)
  BY DEF IInv, DialogInv, RunsOK
<1>4. "SslCert" \in DOMAIN server /\ "CacheSize" \in DOMAIN server /\ "TMDBSettings" \in DOMAIN server
  BY <1>3, SettingsAssumption DEF ServerOK, Whole, Sliders, BTSets, Own
<1>5. /\ IsObject(server') /\ DOMAIN server' = DOMAIN server
      /\ server'["SslCert"] = IF ok THEN c ELSE server["SslCert"]
      /\ \A f \in DOMAIN server \ {"SslCert"} : server'[f] = server[f]
  BY <1>1, <1>3, <1>4 DEF ServerOK, Whole, IsObject
<1>6. ServerOK(server')
  BY <1>3, <1>4, <1>5 DEF ServerOK, Whole
<1>7. /\ DOMAIN runs' = DOMAIN runs
      /\ \A j \in DOMAIN runs \ {i} : runs'[j] = runs[j]
      /\ IsRequest(runs'[i]) /\ runs'[i].op = q.op /\ runs'[i].base = q.base /\ runs'[i].dialog = q.dialog
      /\ runs'[i].answer = IF ok /\ arrives THEN c ELSE "error"
  <2>1. IsRequest(q)
    BY <1>3 DEF RequestsOK
  <2>2. runs'[i] = [q EXCEPT !.answer = IF ok /\ arrives THEN c ELSE "error"]
    BY <1>1
  <2> HIDE DEF q, c
  <2>3. IsRequest(runs'[i]) /\ runs'[i].op = q.op /\ runs'[i].base = q.base /\ runs'[i].dialog = q.dialog
        /\ runs'[i].answer = IF ok /\ arrives THEN c ELSE "error"
    BY <2>1, <2>2 DEF IsRequest
  <2> QED
    BY <1>1, <2>3
<1>8. RequestsOK(runs')
  BY <1>3, <1>7 DEF RequestsOK
<1>10. CASE q.op = "status"
  <2>1. server' = server
    <3>1. \A f \in DOMAIN server : server'[f] = server[f]
      BY <1>5, <1>10 DEF CertAfter
    <3> QED
      BY <1>3, <1>5, <3>1 DEF ServerOK, Whole, IsObject
  <2>2. ~Alters(runs[i]) /\ ~Alters(runs'[i])
    BY <1>7, <1>10 DEF Alters
  <2>5. ~untold' => ~untold
    BY <1>1
  <2> HIDE DEF q
  <2>3. RunsOK(runs', d'.settings, open', server')
    BY <1>2, <1>3, <1>7, <1>8, <2>1, <2>2 DEF RunsOK, RunsFit
  <2>4. CertOK(runs', d'.settings, server', untold')
    BY <1>2, <1>3, <1>7, <2>1, <2>2, <2>5 DEF CertOK
  <2>6. PostsOK(runs, open, server, untold)'
    BY <1>2, <1>7, <2>1, <2>2, <2>5 DEF IInv, PostsOK, PostOK, Alters
  <2> QED
    BY <1>2, <1>3, <1>6, <2>1, <2>3, <2>4, <2>6 DEF IInv, DialogInv
<1>11. CASE q.op # "status"
  <2>1. Alters(q) /\ \A j \in DOMAIN runs : Alters(runs[j]) => j = i
    BY <1>3, <1>11 DEF Alters, RunsOK, RunsFit
  <2>2. c \notin {Pending, "error"}
    BY <1>11, SettingsAssumption DEF CertAfter, Certs
  <2>3. \A j \in DOMAIN runs' : Alters(runs'[j]) => j = i
    BY <1>7, <2>1 DEF Alters
  <2>4. RunsOK(runs', d'.settings, open', server')
    <3>1. open => q.dialog /\ d.settings # None /\ q.base = d.settings
      BY <1>3, <2>1 DEF RunsOK, RunsFit
    <3>2. q.dialog <=> open
      BY <1>3, <2>1 DEF RunsOK
    <3> HIDE DEF q, c
    <3> QED
      BY <1>2, <1>5, <1>7, <1>8, <2>3, <3>1, <3>2 DEF RunsOK, RunsFit, Answered
  <2>5. CertOK(runs', d'.settings, server', untold')
    <3>1. ok => untold' \/ (Answered(runs'[i]) /\ Alters(runs'[i]))
      BY <1>1, <1>7, <1>11, <2>1, <2>2 DEF Answered, Alters
    <3>3. untold => untold'
      BY <1>1
    <3>2. \A j \in DOMAIN runs : Alters(runs[j]) => ~Answered(runs[j])
      BY <1>2, <2>1 DEF Answered
    <3> HIDE DEF q, c
    <3> QED
      BY <1>1, <1>2, <1>3, <1>7, <3>1, <3>2, <3>3 DEF CertOK
  <2>6. d.got = None
    BY <1>3, <2>1 DEF RunsOK, RunsFit, DialogOK
  <2>7. DialogOK(d', open', server')
    BY <1>2, <1>3, <2>6 DEF DialogOK
  <2>8. posts' = <<>>
    BY <1>2, <2>1 DEF IInv, PostsOK
  <2> QED
    BY <1>2, <1>6, <2>4, <2>5, <2>7, <2>8 DEF IInv, DialogInv, PostsOK
<1> QED
  BY <1>10, <1>11

\* The dialog, the server and what is on the way between them are left alone.
LEMMA PostersKeep ==
  ASSUME IInv,
         \/ SearchPosters
         \/ \E i \in DOMAIN lookups : LookupHandled(i) \/ LookupArrives(i)
         \/ \E p \in Prefs : OtherWindow(p)
         \/ UNCHANGED vars
  PROVE  IInv' /\ posts' = posts
<1>1. UNCHANGED <<open, server, d, posts, runs, untold>>
  BY DEF SearchPosters, LookupHandled, LookupArrives, OtherWindow, vars, shell, history
<1>2. DialogInv' /\ PostsOK(runs, open, server, untold)'
  BY <1>1 DEF IInv, DialogInv, PostsOK
<1> QED
  BY <1>1, <1>2 DEF IInv

-----------------------------------------------------------------------------
(* The theorems.                                                            *)

LEMMA InitIInv == Init => IInv
<1> SUFFICES ASSUME Init PROVE IInv
  OBVIOUS
<1>1. /\ open = FALSE /\ server = Initial /\ d = Closed /\ posts = <<>> /\ runs = <<>>
  BY DEF Init, ShellInit
<1>2. DOMAIN <<>> = {} /\ IsFiniteSet({})
  BY FS_EmptySet
<1>3. ServerOK(server)
  BY <1>1, SettingsAssumption DEF ServerOK, Whole, IsObject, BTSets, Own, Sliders
<1>4. DialogOK(d, open, server) /\ d.settings = None
  BY <1>1, ClosedIs
<1>5. RunsOK(runs, d.settings, open, server)
  BY <1>1, <1>2 DEF RunsOK, RequestsOK, RunsFit
<1>6. CertOK(runs, d.settings, server, untold)
  BY <1>4 DEF CertOK
<1>7. PostsOK(runs, open, server, untold)
  BY <1>1 DEF PostsOK
<1> QED
  BY <1>1, <1>3, <1>4, <1>5, <1>6, <1>7 DEF IInv, DialogInv

\* What a step does to the invariant, and to the certificate when a save was handled.
LEMMA NextIInv ==
  ASSUME NoneIsNoObject, Patient, IInv, [Next]_vars
  PROVE  /\ IInv'
         /\ Len(posts') < Len(posts) /\ ~untold => server'["SslCert"] \in {server["SslCert"], "none"}
<1> DEFINE Kept == ~untold => server'["SslCert"] \in {server["SslCert"], "none"}
<1>p. posts' = posts => ~(Len(posts') < Len(posts))
  <2>1. Len(posts) \in Nat
    BY DEF IInv, PostsOK
  <2> QED
    BY <2>1
<1>1. CASE UNCHANGED vars
  BY <1>1, <1>p, PostersKeep
<1>2. CASE OpenDialog
  BY <1>2, <1>p, OpenKeeps DEF OpenDialog, rest
<1>3. CASE Cancel
  BY <1>3, <1>p, CancelKeeps DEF Cancel
<1>4. CASE Navigate
  BY <1>4, <1>p, NavigateKeeps DEF Navigate
<1>5. CASE handleSave
  <2>1. Kept
    BY <1>5 DEF handleSave
  <2> QED
    BY <1>5, <2>1, SaveKeeps
<1>6. CASE ResetToDefault
  BY <1>6, <1>p, ResetKeeps DEF ResetToDefault
<1>7. CASE Edit
  <2>1. IInv'
    BY <1>7, InputKeeps, PanelKeeps, SizeKeeps, ButtonKeeps, RunKeeps DEF Edit
  <2>2. posts' = posts
    BY <1>7 DEF Edit, Toggle, TypeNumber, TypeText, Change, PickStorage, Slide, TypeSize, TypeTmdb,
         TogglePlayer, TypeHost, AddHost, TestHost, DeleteHost, Torznab, TypePath, ChooseFiles, Run, Ssl, onBlur
  <2> QED
    BY <1>p, <2>1, <2>2
<1>8. CASE Answers
  <2>1. IInv'
    BY <1>8, ArriveKeeps, ButtonKeeps, RunAnsweredKeeps, PostersKeep DEF Answers
  <2>2. posts' = posts
    BY <1>8 DEF Answers, SettingsArrive, TestAnswered, Torznab, RunAnswered, LookupArrives
  <2> QED
    BY <1>p, <2>1, <2>2
<1>9. CASE Server
  <2>1. CASE SettingsRead
    BY <2>1, <1>p, ReadKeeps DEF SettingsRead
  <2>2. ASSUME NEW i \in DOMAIN posts, SettingsSet(i) PROVE IInv' /\ Kept
    BY <2>2, SaveHandled
  <2>3. ASSUME NEW i \in DOMAIN runs, RunHandled(i) PROVE IInv' /\ posts' = posts
    BY <2>3, RunHandledKeeps DEF RunHandled
  <2>4. ASSUME NEW i \in DOMAIN lookups, LookupHandled(i) PROVE IInv' /\ posts' = posts
    BY <2>4, PostersKeep
  <2> QED
    BY <1>9, <1>p, <2>1, <2>2, <2>3, <2>4 DEF Server
<1>10. CASE SearchPosters
  BY <1>10, <1>p, PostersKeep
<1>11. ASSUME NEW p \in Prefs, OtherWindow(p)
       PROVE  IInv' /\ posts' = posts
  BY <1>11, PostersKeep
<1> QED
  BY <1>1, <1>2, <1>3, <1>4, <1>5, <1>6, <1>7, <1>8, <1>9, <1>10, <1>11, <1>p DEF Next

LEMMA AlwaysIInv ==
  ASSUME NoneIsNoObject, Patient
  PROVE  Spec => []IInv
<1>1. IInv /\ [Next]_vars => IInv'
  BY NextIInv
<1> QED
  BY InitIInv, <1>1, PTL DEF Spec

\* A save sends every setting as the user last chose it, or as it was when the dialog was opened:
\* through the switches that show the opposite, the sliders with values of their own, the
\* megabytes, a reset and a change of the certificate (SettingsDialog.jsx handleSave).
THEOREM SaveIsWhatWasAsked ==
  ASSUME NoneIsNoObject, Patient
  PROVE  Spec => []SavesWhatWasAsked
<1>1. IInv => SavesWhatWasAsked
  <2> SUFFICES ASSUME IInv, NEW i \in DOMAIN posts, NEW f \in DOMAIN posts[i].asked
               PROVE  posts[i].asked[f] = IF f = "CacheSize" THEN posts[i].sets[f] \div MB
                                                             ELSE Checked(f, posts[i].sets[f])
    BY DEF SavesWhatWasAsked
  <2>1. posts # <<>>
    OBVIOUS
  <2>2. posts = <<posts[1]>> /\ PostOK(posts[1], server, untold)
    BY <2>1 DEF IInv, PostsOK
  <2>3. i = 1
    BY <2>2
  <2> QED
    BY <2>2, <2>3 DEF PostOK
<1> QED
  BY AlwaysIInv, <1>1, PTL

\* No save brings an old certificate back, if the last answer with a new one came (untold)
\* (HTTPSSettings.jsx run, applyStatus).
THEOREM CertSurvivesSaves ==
  ASSUME NoneIsNoObject, Patient
  PROVE  Spec => CertIsKept
<1>1. IInv /\ [Next]_vars
        => [Len(posts') < Len(posts) /\ ~untold => server'["SslCert"] \in {server["SslCert"], "none"}]_vars
  BY NextIInv
<1> QED
  BY AlwaysIInv, <1>1, PTL DEF Spec, CertIsKept

-----------------------------------------------------------------------------
(* The key of TMDB, for users that wait for nothing.                        *)

IsLookup(q) == q = [x \in {"answer", "early"} |-> q[x]] /\ q.early \in BOOLEAN

\* An answer that knows of every save is the server's, and so is the key fetched with it.
KeyInv ==
  /\ IsObject(server) /\ DOMAIN server = DOMAIN Initial
  /\ IsFiniteSet(DOMAIN lookups)
  /\ \A i \in DOMAIN lookups :
       /\ IsLookup(lookups[i])
       /\ lookups[i].answer # Pending /\ ~lookups[i].early
            => posts = <<>> /\ lookups[i].answer \in {server["TMDBSettings"], "error"}
  /\ cache # None /\ fetched # "early"
       => /\ posts = <<>>
          /\ cache = IF fetched = "error" THEN BuiltIn ELSE mergeTMDBSettings(server["TMDBSettings"])

\* Nothing of it changes, but that the key may be forgotten.
LEMMA KeyAlone ==
  ASSUME KeyInv, UNCHANGED <<server, posts, lookups, fetched>>, cache' \in {cache, None}
  PROVE  KeyInv'
BY DEF KeyInv

LEMMA KeyAfterEdit ==
  ASSUME KeyInv, OpenDialog \/ Cancel \/ Navigate \/ ResetToDefault \/ Edit
  PROVE  KeyInv'
<1>1. UNCHANGED <<server, posts, lookups, fetched>> /\ cache' \in {cache, None}
  BY DEF OpenDialog, Cancel, Navigate, ResetToDefault, clearTMDBCache, Edit, Toggle, TypeNumber, TypeText,
         Change, PickStorage, Slide, TypeSize, TypeTmdb, TogglePlayer, TypeHost, AddHost, TestHost, DeleteHost,
         Torznab, TypePath, ChooseFiles, Run, Ssl, onBlur, rest, history
<1> QED
  BY <1>1, KeyAlone

\* What is known when a save is clicked may be old when the save is handled.
LEMMA KeyAfterSave ==
  ASSUME KeyInv, handleSave
  PROVE  KeyInv'
<1>1. UNCHANGED <<server, fetched>>
  BY DEF handleSave, history
<1>2. CASE d.settings = None
  BY <1>1, <1>2, KeyAlone DEF handleSave
<1>3. CASE d.settings # None
  <2>1. /\ cache' = None
        /\ lookups' = [i \in DOMAIN lookups |->
                        [lookups[i] EXCEPT !.early = @ \/ lookups[i].answer # Pending]]
    BY <1>3 DEF handleSave, clearTMDBCache
  <2>2. ASSUME NEW i \in DOMAIN lookups
        PROVE  IsLookup(lookups'[i]) /\ (lookups'[i].answer # Pending => lookups'[i].early)
    <3>1. IsLookup(lookups[i])
      BY DEF KeyInv
    <3>2. lookups'[i] = [lookups[i] EXCEPT !.early = @ \/ lookups[i].answer # Pending]
      BY <2>1
    <3> QED
      BY <3>1, <3>2 DEF IsLookup
  <2>3. DOMAIN lookups' = DOMAIN lookups
    BY <2>1
  <2> QED
    BY <1>1, <2>1, <2>2, <2>3 DEF KeyInv
<1> QED
  BY <1>2, <1>3

\* The server changes its key with a save alone, and then every answer and the key are older.
LEMMA KeyAtServer ==
  ASSUME KeyInv,
         \/ \E i \in DOMAIN posts : SettingsSet(i)
         \/ \E i \in DOMAIN runs : RunHandled(i)
  PROVE  KeyInv'
<1>1. UNCHANGED <<cache, lookups, fetched>>
  BY DEF SettingsSet, RunHandled, history
<1>2. ASSUME NEW i \in DOMAIN posts, SettingsSet(i) PROVE KeyInv'
  <2>1. posts # <<>>
    <3>1. DOMAIN <<>> = {}
      OBVIOUS
    <3> QED
      BY <1>2, <3>1
  <2>2. server' = server \/ server' = Failsafe(posts[i].sets)
    BY <1>2 DEF SettingsSet
  <2>3. IsObject(server') /\ DOMAIN server' = DOMAIN Initial
    BY <2>2 DEF KeyInv, Failsafe, IsObject
  <2> QED
    BY <1>1, <2>1, <2>3 DEF KeyInv
<1>3. ASSUME NEW i \in DOMAIN runs, RunHandled(i) PROVE KeyInv'
  <2>1. PICK c : server' = server \/ server' = [server EXCEPT !["SslCert"] = c]
    BY <1>3 DEF RunHandled
  <2>2. "TMDBSettings" \in DOMAIN Initial
    BY SettingsAssumption DEF BTSets, Own
  <2>3. /\ IsObject(server') /\ DOMAIN server' = DOMAIN Initial
        /\ server'["TMDBSettings"] = server["TMDBSettings"]
    BY <2>1, <2>2 DEF KeyInv, IsObject
  <2>4. posts' = posts
    BY <1>3 DEF RunHandled
  <2> QED
    BY <1>1, <2>3, <2>4 DEF KeyInv
<1> QED
  BY <1>2, <1>3

LEMMA KeyIsFetched ==
  ASSUME KeyInv,
         \/ SearchPosters
         \/ \E i \in DOMAIN lookups : LookupHandled(i) \/ LookupArrives(i)
  PROVE  KeyInv'
<1>1. UNCHANGED <<server, posts>>
  BY DEF SearchPosters, LookupHandled, LookupArrives
<1>2. CASE SearchPosters
  <2> DEFINE q == [answer |-> Pending, early |-> FALSE]
  <2>1. lookups' = Sent(lookups, q) /\ UNCHANGED <<cache, fetched>>
    BY <1>2 DEF SearchPosters, history
  <2>2. IsLookup(q) /\ q.answer = Pending
    BY DEF IsLookup
  <2> HIDE DEF q
  <2>5. IsFiniteSet(DOMAIN lookups)
    BY DEF KeyInv
  <2>3. /\ Number(lookups) \in Nat \ DOMAIN lookups
        /\ DOMAIN lookups' = DOMAIN lookups \cup {Number(lookups)}
        /\ lookups'[Number(lookups)] = q
        /\ \A i \in DOMAIN lookups : lookups'[i] = lookups[i]
    BY <2>1, <2>5, SentIs
  <2>4. IsFiniteSet(DOMAIN lookups')
    BY <2>3, <2>5, FS_AddElement
  <2> QED
    BY <1>1, <2>1, <2>2, <2>3, <2>4 DEF KeyInv
<1>3. ASSUME NEW i \in DOMAIN lookups, LookupHandled(i) PROVE KeyInv'
  <2>1. PICK answer \in {server["TMDBSettings"], "error"} :
          lookups' = [lookups EXCEPT ![i] = [answer |-> answer, early |-> posts # <<>>]]
    BY <1>3 DEF LookupHandled
  <2>2. UNCHANGED <<cache, fetched>>
    BY <1>3 DEF LookupHandled, history
  <2> DEFINE q == [answer |-> answer, early |-> posts # <<>>]
  <2>3. IsLookup(q) /\ q.answer = answer /\ (~q.early => posts = <<>>)
    BY DEF IsLookup
  <2>4. DOMAIN lookups' = DOMAIN lookups /\ lookups'[i] = q
        /\ \A j \in DOMAIN lookups \ {i} : lookups'[j] = lookups[j]
    BY <2>1
  <2> HIDE DEF q
  <2> QED
    BY <1>1, <2>2, <2>3, <2>4 DEF KeyInv
<1>4. ASSUME NEW i \in DOMAIN lookups, LookupArrives(i) PROVE KeyInv'
  <2>1. /\ lookups[i].answer # Pending /\ cache' = mergeTMDBSettings(lookups[i].answer)
        /\ fetched' = IF lookups[i].early THEN "early"
                      ELSE IF lookups[i].answer = "error" THEN "error" ELSE "answer"
        /\ lookups' = Without(lookups, i)
    BY <1>4 DEF LookupArrives
  <2>2. DOMAIN lookups' = DOMAIN lookups \ {i} /\ \A j \in DOMAIN lookups' : lookups'[j] = lookups[j]
    BY <2>1 DEF Without
  <2>3. IsFiniteSet(DOMAIN lookups')
    BY <2>2, FS_RemoveElement DEF KeyInv
  <2>4. fetched' # "early"
          => /\ posts = <<>>
             /\ cache' = IF fetched' = "error" THEN BuiltIn ELSE mergeTMDBSettings(server["TMDBSettings"])
    BY <2>1 DEF KeyInv, mergeTMDBSettings
  <2> QED
    BY <1>1, <2>2, <2>3, <2>4 DEF KeyInv
<1> QED
  BY <1>2, <1>3, <1>4

LEMMA AlwaysKeyInv == Spec => []KeyInv
<1>1. Init => KeyInv
  <2> SUFFICES ASSUME Init PROVE KeyInv
    OBVIOUS
  <2>1. server = Initial /\ cache = None /\ lookups = <<>>
    BY DEF Init
  <2>2. DOMAIN <<>> = {} /\ IsFiniteSet({})
    BY FS_EmptySet
  <2> QED
    BY <2>1, <2>2, SettingsAssumption DEF KeyInv, BTSets, IsObject
<1>2. KeyInv /\ [Next]_vars => KeyInv'
  <2> SUFFICES ASSUME KeyInv, [Next]_vars PROVE KeyInv'
    OBVIOUS
  <2>1. CASE UNCHANGED vars
    BY <2>1, KeyAlone DEF vars, history
  <2>2. CASE Answers
    <3>1. ASSUME SettingsArrive \/ TestAnswered \/ \E i \in DOMAIN runs : RunAnswered(i)
          PROVE  UNCHANGED <<server, posts, lookups, fetched, cache>>
      BY <3>1 DEF SettingsArrive, TestAnswered, Torznab, RunAnswered, history
    <3> QED
      BY <2>2, <3>1, KeyAlone, KeyIsFetched DEF Answers
  <2>3. CASE Server
    <3>1. ASSUME SettingsRead PROVE UNCHANGED <<server, posts, lookups, fetched, cache>>
      BY <3>1 DEF SettingsRead
    <3> QED
      BY <2>3, <3>1, KeyAlone, KeyAtServer, KeyIsFetched DEF Server
  <2>4. ASSUME NEW p \in Prefs, OtherWindow(p) PROVE KeyInv'
    <3>1. UNCHANGED <<server, posts, lookups, fetched, cache>>
      BY <2>4 DEF OtherWindow, history
    <3> QED
      BY <3>1, KeyAlone
  <2> QED
    BY <2>1, <2>2, <2>3, <2>4, KeyAfterEdit, KeyAfterSave, KeyIsFetched DEF Next
<1> QED
  BY <1>1, <1>2, PTL DEF Spec

\* Posters are looked up with the key of TMDB that the server has, or, when the server could not be
\* asked, with the one of the page, whatever the user does, unless the server answered before it
\* had a save that was clicked already, or was clicked before the answer arrived (Add/helpers.js
\* getTMDBSettings, clearTMDBCache).
THEOREM KeyIsFresh == Spec => []TmdbIsFresh
<1>1. KeyInv => TmdbIsFresh
  BY DEF KeyInv, TmdbIsFresh
<1> QED
  BY AlwaysKeyInv, <1>1, PTL
=============================================================================
