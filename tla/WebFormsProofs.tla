--------------------------- MODULE WebFormsProofs ----------------------------
(***************************************************************************)
(* What the forms of the settings dialog show, send and store, for any     *)
(* lists, texts, fields and numbers, and any number of steps: proofs       *)
(* about WebForms.                                                         *)
(***************************************************************************)
EXTENDS WebForms, FiniteSetTheorems, TLAPS

RequestsOK(rq) ==
  DOMAIN rq \subseteq Nat /\ IsFiniteSet(DOMAIN rq) /\ \A i \in DOMAIN rq : RequestOK(rq[i])

-----------------------------------------------------------------------------
(* The invariant.                                                           *)

Got(r) == r.answer \notin {Pending, Failed, Refused}

\* A save on its way has sent what its form shows, but for what was edited since; a reset leaves
\* nothing as it was.
SentOK(r, f, ch) ==
  /\ r.op = "set" => \A g \in DOMAIN f.shown \ (ch \cup {"GSTVersion"}) : r.body[g] = f.shown[g]
  /\ r.op = "def" => GstFields \subseteq ch

\* An answer that is not behind is what the server has.
AnswerOK(r, s) ==
  Got(r) /\ ~r.behind => r.answer = Served(s, About(r)) /\ (r.op = "set" => s[r.to] = Stored(r))

\* A save that is not behind changes what its sender chose.
SaveOK(r, s) ==
  /\ r.op = "set" /\ r.answer = Pending /\ ~r.behind
       => \A g \in DOMAIN s[r.to] \ (r.chosen \cup {"GSTVersion"}) : Stored(r)[g] = s[r.to][g]
  /\ r.op = "def" => r.chosen = GstFields

RequestsKeep(rq, s) == \A i \in DOMAIN rq : AnswerOK(rq[i], s) /\ SaveOK(rq[i], s)

\* What the server keeps of what a form shows.
Kept(f) == IF f.is = "gst" THEN Normalized(f.shown) ELSE f.shown

Agrees(f, s, ch) ==
  \A g \in DOMAIN f.shown \ (ch \cup {"GSTVersion"}) : s[f.is][g] = Kept(f)[g]

\* A form that was told shows what the server has, but for what the user chose, and so do its requests.
FilledOK(rq, f, s, ch) ==
  /\ f # None /\ Agrees(f, s, ch)
  /\ \A i \in DOMAIN rq : rq[i].live => SentOK(rq[i], f, ch)

OneFetch(rq) == \A i, j \in DOMAIN rq : rq[i].to = "page" /\ rq[j].to = "page" => i = j

\* Unless it missed a change or is about to be told of one, the page knows, and gets, what the server has.
KnownOK(rt, rq, s, m) ==
  ~m /\ ~Telling(rq) =>
     /\ rt.known \notin {None, Unavailable} /\ ~rt.stale => rt.known = Served(s, "gst")
     /\ \A i \in DOMAIN rq : rq[i].to = "page" /\ Got(rq[i]) => rq[i].answer = Served(s, "gst")

\* What the server has is what it would make of it.
ServerOK(s) ==
  /\ \A l \in Lists : Stripped[s.waf[l]] = s.waf[l]
  /\ \A g \in Positive : s.gst[g] # 0

\* The form is the one of the tab that is shown.
FormIsShown ==
  /\ form # None => open /\ ready /\ form.is = FormOf(selectedTab)
  /\ form = None /\ open /\ ready => FormOf(selectedTab) = None
  /\ gstAsked => ~gstAvailable
  /\ selectedTab = tabGStreamer => gstAvailable
  /\ \A i \in DOMAIN reqs : reqs[i].live => Is(reqs[i].to)

IInv ==
  /\ TypeOK /\ FormIsShown /\ ServerOK(srv)
  /\ RequestsKeep(reqs, srv)
  /\ told => FilledOK(reqs, form, srv, chosen)
  /\ OneFetch(reqs) /\ KnownOK(runtime, reqs, srv, missed)

-----------------------------------------------------------------------------
(* Requests.                                                                *)

\* A number is free: there are more of them than requests.
LEMMA NumberIsFree ==
  ASSUME NEW rq, IsFiniteSet(DOMAIN rq)
  PROVE  Number(rq) \in Nat \ DOMAIN rq
<1> DEFINE k == Cardinality(DOMAIN rq)
           Upto == 1 .. k + 1
<1>1. k \in Nat
  BY FS_CardinalityType
<1>2. IsFiniteSet(Upto) /\ Cardinality(Upto) = k + 1
  <2>1. 1 \in Int /\ k + 1 \in Int /\ ~(1 > k + 1) /\ k + 1 - 1 + 1 = k + 1
    BY <1>1
  <2> QED
    BY <2>1, FS_Interval
<1>3. ~(Upto \subseteq DOMAIN rq)
  <2> SUFFICES ASSUME Upto \subseteq DOMAIN rq PROVE FALSE
    OBVIOUS
  <2>1. Cardinality(Upto) <= k
    BY FS_Subset
  <2> QED
    BY <1>1, <1>2, <2>1
<1>4. \E n \in 1 .. Cardinality(DOMAIN rq) + 1 : n \notin DOMAIN rq
  BY <1>3
<1>5. Number(rq) \in 1 .. Cardinality(DOMAIN rq) + 1 /\ Number(rq) \notin DOMAIN rq
  BY <1>4 DEF Number
<1> QED
  BY <1>1, <1>5

\* A request that is sent joins the others.
LEMMA SentIs ==
  ASSUME NEW rq, IsFiniteSet(DOMAIN rq), NEW r
  PROVE  /\ Number(rq) \in Nat \ DOMAIN rq
         /\ DOMAIN Sent(rq, r) = DOMAIN rq \cup {Number(rq)}
         /\ Sent(rq, r)[Number(rq)] = r
         /\ \A i \in DOMAIN rq : Sent(rq, r)[i] = rq[i]
<1>1. Number(rq) \in Nat \ DOMAIN rq
  BY NumberIsFree
<1> QED
  BY <1>1 DEF Sent

LEMMA SentIsOK ==
  ASSUME NEW rq, RequestsOK(rq), NEW r, RequestOK(r)
  PROVE  RequestsOK(Sent(rq, r))
<1> DEFINE s == Sent(rq, r)
<1>1. /\ Number(rq) \in Nat \ DOMAIN rq
      /\ DOMAIN s = DOMAIN rq \cup {Number(rq)}
      /\ s[Number(rq)] = r
      /\ \A i \in DOMAIN rq : s[i] = rq[i]
  BY SentIs DEF RequestsOK
<1>2. IsFiniteSet(DOMAIN s)
  BY <1>1, FS_AddElement DEF RequestsOK
<1>3. DOMAIN s \subseteq Nat
  BY <1>1 DEF RequestsOK
<1>4. \A i \in DOMAIN s : RequestOK(s[i])
  BY <1>1 DEF RequestsOK
<1> QED
  BY <1>2, <1>3, <1>4 DEF RequestsOK

LEMMA WithoutIs ==
  ASSUME NEW rq, NEW i
  PROVE  /\ DOMAIN Without(rq, i) = DOMAIN rq \ {i}
         /\ \A j \in DOMAIN rq \ {i} : Without(rq, i)[j] = rq[j]
BY DEF Without

LEMMA WithoutIsOK ==
  ASSUME NEW rq, RequestsOK(rq), NEW i
  PROVE  RequestsOK(Without(rq, i))
<1>1. IsFiniteSet(DOMAIN rq \ {i})
  BY FS_RemoveElement DEF RequestsOK
<1>2. /\ DOMAIN Without(rq, i) = DOMAIN rq \ {i}
      /\ \A j \in DOMAIN rq \ {i} : Without(rq, i)[j] = rq[j]
  BY WithoutIs
<1> HIDE DEF Without
<1> QED
  BY <1>1, <1>2 DEF RequestsOK

\* The record of a request that is sent, or whose form has gone.
LEMMA RequestFields ==
  ASSUME NEW p, NEW op, NEW body
  PROVE  LET r == Request(p, op, body)
         IN  /\ r.to = p /\ r.op = op /\ r.body = body /\ r.live /\ r.answer = Pending
             /\ op = "set" => r.chosen = chosen /\ r.behind = ~told
             /\ op = "def" => r.chosen = GstFields
             /\ op # "set" => r.behind = FALSE
BY DEF Request

LEMMA RequestIsOK ==
  ASSUME chosen \subseteq Fields, told \in BOOLEAN,
         NEW p \in Form, NEW op \in {"get", "set", "def", "reget"}, NEW body,
         op \in {"def", "reget"} => p = "gst",
         op # "set" => body = None,
         op = "set" => body \in Value[p],
         op = "set" /\ p = "gst" => body["GSTVersion"] >= GST_MIN_VERSION
  PROVE  RequestOK(Request(p, op, body))
<1> DEFINE ch == CASE op = "set" -> chosen [] op = "def" -> GstFields [] OTHER -> {}
           late == op = "set" /\ ~told
<1>1. Value[p] \subseteq Value.waf \cup Value.gst \cup Value.sto
  BY DEF Form
<1>2. body \in {None} \cup Value.waf \cup Value.gst \cup Value.sto
  BY <1>1
<1>3. Pending # Refused
  BY FormsAssumption
<1>4. p # "page"
  BY DEF Form
<1>5. ch \subseteq Fields /\ late \in BOOLEAN
  BY DEF Fields
<1>6. Request(p, op, body) = [to |-> p, op |-> op, body |-> body, live |-> TRUE, answer |-> Pending,
                              chosen |-> ch, behind |-> late]
  BY DEF Request
<1> HIDE DEF ch, late
<1> QED
  BY <1>2, <1>3, <1>4, <1>5, <1>6 DEF RequestOK, About

LEMMA LivesIsOK ==
  ASSUME NEW r, RequestOK(r), NEW lives \in BOOLEAN, lives => r.to # "page"
  PROVE  LET l == [r EXCEPT !.live = lives]
         IN  /\ RequestOK(l) /\ l.live = lives
             /\ l.to = r.to /\ l.op = r.op /\ l.body = r.body /\ l.answer = r.answer
             /\ l.chosen = r.chosen /\ l.behind = r.behind
BY DEF RequestOK, About

LEMMA PageFetchIsOK == RequestOK(PageFetch) /\ PageFetch.to = "page" /\ PageFetch.op = "get"
                       /\ ~PageFetch.live /\ PageFetch.answer = Pending
<1> DEFINE r == Request("page", "get", None)
<1>1. Pending # Refused
  BY FormsAssumption
<1>2. /\ r \in [to : {"page"}, op : {"get"}, body : {None}, live : BOOLEAN, answer : {Pending},
                 chosen : SUBSET Fields, behind : BOOLEAN]
  <2> DEFINE ch == CASE "get" = "set" -> chosen [] "get" = "def" -> GstFields [] OTHER -> {}
             late == "get" = "set" /\ ~told
  <2>1. r = [to |-> "page", op |-> "get", body |-> None, live |-> TRUE, answer |-> Pending,
             chosen |-> ch, behind |-> late]
    BY DEF Request
  <2>2. ch = {} /\ late \in BOOLEAN
    OBVIOUS
  <2> HIDE DEF r, ch, late
  <2> QED
    BY <2>1, <2>2
<1>3. PageFetch = [r EXCEPT !.live = FALSE]
  BY DEF PageFetch
<1> HIDE DEF r
<1>4. PageFetch \in [to : {"page"}, op : {"get"}, body : {None}, live : {FALSE}, answer : {Pending},
                     chosen : SUBSET Fields, behind : BOOLEAN]
  BY <1>2, <1>3
<1> QED
  BY <1>1, <1>4 DEF RequestOK

\* What is left when a form goes: no fetch of a form, and nobody waits for the rest.
LEMMA LeftIs ==
  /\ DOMAIN Left = {j \in DOMAIN reqs : reqs[j].to = "page" \/ reqs[j].op # "get"}
  /\ \A i \in DOMAIN Left : Left[i] = [reqs[i] EXCEPT !.live = FALSE]
BY DEF Left

LEMMA LeftIsOK ==
  ASSUME RequestsOK(reqs)
  PROVE  RequestsOK(Left)
<1>1. DOMAIN Left \subseteq DOMAIN reqs
  BY LeftIs
<1>2. IsFiniteSet(DOMAIN Left)
  BY <1>1, FS_Subset DEF RequestsOK
<1>3. ASSUME NEW i \in DOMAIN Left
      PROVE  RequestOK(Left[i])
  <2>1. RequestOK(reqs[i]) /\ Left[i] = [reqs[i] EXCEPT !.live = FALSE]
    BY <1>1, LeftIs DEF RequestsOK
  <2> QED
    BY <2>1, LivesIsOK
<1> QED
  BY <1>1, <1>2, <1>3 DEF RequestsOK

-----------------------------------------------------------------------------
(* Forms.                                                                   *)

WafForm == [is : {"waf"}, shown : Value.waf, initial : Value.waf, loading : BOOLEAN,
            loaded : BOOLEAN, saving : BOOLEAN, readOnly : BOOLEAN]
GstForm == [is : {"gst"}, shown : Value.gst, text : Nat \cup {None}, focus : BOOLEAN, loading : BOOLEAN]
StoForm == [is : {"sto"}, shown : Value.sto, loading : BOOLEAN]

LEMMA FormKinds ==
  /\ Forms = WafForm \cup GstForm \cup StoForm
  /\ \A f \in Forms : /\ f.is \in Form /\ f.shown \in Value[f.is]
                      /\ f.is = "waf" => f \in WafForm
                      /\ f.is = "gst" => f \in GstForm
                      /\ f.is = "sto" => f \in StoForm
<1>1. Forms = WafForm \cup GstForm \cup StoForm
  BY DEF Forms, WafForm, GstForm, StoForm
<1>2. \A f \in WafForm : f.is = "waf" /\ f.shown \in Value.waf
  BY DEF WafForm
<1>3. \A f \in GstForm : f.is = "gst" /\ f.shown \in Value.gst
  BY DEF GstForm
<1>4. \A f \in StoForm : f.is = "sto" /\ f.shown \in Value.sto
  BY DEF StoForm
<1>5. Value["waf"] = Value.waf /\ Value["gst"] = Value.gst /\ Value["sto"] = Value.sto
  OBVIOUS
<1> QED
  BY <1>1, <1>2, <1>3, <1>4, <1>5 DEF Form

\* A form is given by its fields.
LEMMA FormRecords ==
  /\ \A v, w \in Value.waf, a, b, c, d \in BOOLEAN :
        [is |-> "waf", shown |-> v, initial |-> w, loading |-> a, loaded |-> b, saving |-> c, readOnly |-> d] \in WafForm
  /\ \A v \in Value.gst, t \in Nat \cup {None}, a, b \in BOOLEAN :
        [is |-> "gst", shown |-> v, text |-> t, focus |-> a, loading |-> b] \in GstForm
  /\ \A v \in Value.sto, a \in BOOLEAN : [is |-> "sto", shown |-> v, loading |-> a] \in StoForm
<1>1. ASSUME NEW v \in Value.waf, NEW w \in Value.waf,
             NEW a \in BOOLEAN, NEW b \in BOOLEAN, NEW c \in BOOLEAN, NEW d \in BOOLEAN
      PROVE  [is |-> "waf", shown |-> v, initial |-> w, loading |-> a, loaded |-> b, saving |-> c, readOnly |-> d] \in WafForm
  BY DEF WafForm
<1>2. ASSUME NEW v \in Value.gst, NEW t \in Nat \cup {None}, NEW a \in BOOLEAN, NEW b \in BOOLEAN
      PROVE  [is |-> "gst", shown |-> v, text |-> t, focus |-> a, loading |-> b] \in GstForm
  BY DEF GstForm
<1>3. ASSUME NEW v \in Value.sto, NEW a \in BOOLEAN
      PROVE  [is |-> "sto", shown |-> v, loading |-> a] \in StoForm
  BY DEF StoForm
<1> QED
  BY <1>1, <1>2, <1>3

LEMMA ValueIs ==
  /\ Value.waf = [Lists -> Texts] /\ Value.gst = Config /\ Value.sto = [Stores -> {"json", "bbolt"}]
BY DEF Value

\* What stands in place of a value or an answer is none.
LEMMA AnswersAreApart ==
  /\ \A v \in {None, Unavailable, Pending, Failed, Refused} :
        v \notin Value.waf /\ v \notin Value.gst /\ v \notin Value.sto
  /\ Pending # Failed /\ Pending # Refused /\ Failed # Refused /\ None # Unavailable
<1>1. \A v \in {None, Unavailable, Pending, Failed, Refused} : v \notin Value.waf \cup Config \cup Value.sto
  BY FormsAssumption
<1>2. Pending # Failed /\ Pending # Refused /\ Failed # Refused /\ None # Unavailable
  BY FormsAssumption
<1> QED
  BY <1>1, <1>2, ValueIs

LEMMA ConfigFields ==
  ASSUME NEW c \in Config
  PROVE  /\ c \in [GstFields \cup {"GSTVersion"} -> Nat]
         /\ \A f \in Flags : c[f] \in 0 .. 1
BY DEF Config

\* A configuration stays one when a field is given a value it can have.
LEMMA ConfigExcept ==
  ASSUME NEW c \in Config, NEW g \in GstFields \cup {"GSTVersion"}, NEW n \in Nat, g \in Flags => n \in 0 .. 1
  PROVE  [c EXCEPT ![g] = n] \in Config
<1>1. c \in [GstFields \cup {"GSTVersion"} -> Nat] /\ \A f \in Flags : c[f] \in 0 .. 1
  BY ConfigFields
<1>2. [c EXCEPT ![g] = n] \in [GstFields \cup {"GSTVersion"} -> Nat]
  BY <1>1
<1>3. Flags \subseteq GstFields
  BY FormsAssumption
<1>4. \A f \in Flags : [c EXCEPT ![g] = n][f] \in 0 .. 1
  BY <1>1, <1>3
<1> QED
  BY <1>2, <1>4 DEF Config

LEMMA normalizeVersionIs ==
  ASSUME NEW v \in Nat \cup {None}
  PROVE  normalizeVersion(v) \in Nat /\ normalizeVersion(v) >= GST_MIN_VERSION
BY DEF normalizeVersion, GST_MIN_VERSION

\* A form that is mounted is not dirty.
LEMMA FreshIsOK ==
  ASSUME NEW p \in Form
  PROVE  Fresh(p) \in Forms /\ Fresh(p).is = p /\ (p = "waf" => ~Fresh(p).loaded)
<1>1. CASE p = "waf"
  <2>1. emptyLists \in Value.waf
    BY FormsAssumption DEF emptyLists, Value
  <2>2. Fresh(p) = [is |-> "waf", shown |-> emptyLists, initial |-> emptyLists, loading |-> TRUE,
                     loaded |-> FALSE, saving |-> FALSE, readOnly |-> FALSE]
    BY <1>1 DEF Fresh
  <2>3. Fresh(p) \in WafForm
    BY <2>1, <2>2, FormRecords
  <2> QED
    BY <1>1, <2>2, <2>3, FormKinds
<1>2. CASE p = "gst"
  <2>1. emptyConfig \in Value.gst
    <3>1. emptyConfig \in [GstFields \cup {"GSTVersion"} -> Nat]
      BY FormsAssumption DEF emptyConfig, Config, GST_MIN_VERSION
    <3>2. \A f \in Flags : emptyConfig[f] \in 0 .. 1
      BY FormsAssumption DEF emptyConfig, Config
    <3> QED
      BY <3>1, <3>2 DEF Config, Value
  <2>2. Fresh(p) = [is |-> "gst", shown |-> emptyConfig, text |-> GST_MIN_VERSION, focus |-> FALSE, loading |-> FALSE]
    BY <1>2 DEF Fresh
  <2>3. Fresh(p) \in GstForm
    BY <2>1, <2>2, FormRecords DEF GST_MIN_VERSION
  <2> QED
    BY <1>2, <2>2, <2>3, FormKinds
<1>3. CASE p = "sto"
  <2>2. Fresh(p) = [is |-> "sto", shown |-> [settings |-> "json", viewed |-> "bbolt"], loading |-> FALSE]
    BY <1>3 DEF Fresh
  <2>1. [settings |-> "json", viewed |-> "bbolt"] \in Value.sto
    BY DEF Value, Stores
  <2>3. Fresh(p) \in StoForm
    BY <2>1, <2>2, FormRecords
  <2> QED
    BY <1>3, <2>2, <2>3, FormKinds
<1> QED
  BY <1>1, <1>2, <1>3 DEF Form

-----------------------------------------------------------------------------
(* What the user does with a form.                                          *)

\* A request that a form sends: a save sends all that the form shows.
SentBy(r, f) ==
  /\ RequestOK(r) /\ r.live /\ r.to = f.is /\ r.answer = Pending /\ r.op # "reget"
  /\ r.op = "set" => /\ r.chosen = chosen /\ chosen' = chosen /\ r.behind = ~told
                     /\ \A g \in DOMAIN f.shown \ {"GSTVersion"} : r.body[g] = f.shown[g]
  /\ r.op = "def" => r.chosen = GstFields /\ chosen' = GstFields

\* An edit changes no field that is not chosen by it, or it sends what the form shows.
Edited ==
  /\ form # None /\ form' \in Forms /\ form'.is = form.is /\ DOMAIN form'.shown = DOMAIN form.shown
  /\ \A g \in DOMAIN form.shown \ (chosen' \cup {"GSTVersion"}) : g \notin chosen /\ form'.shown[g] = form.shown[g]
  /\ UNCHANGED <<open, selectedTab, isProMode, gstAvailable, gstAsked, ready, srv, runtime, fetches, told, missed>>
  /\ wafDirty' = (form'.is = "waf" /\ dirty(form'))
  /\ actions' \in 0 .. MaxActions /\ chosen' \subseteq Fields
  /\ \/ reqs' = reqs
     \/ form'.shown = form.shown /\ \E r : reqs' = Sent(reqs, r) /\ SentBy(r, form)

LEMMA UserIsBounded ==
  ASSUME TypeOK, User
  PROVE  actions' \in 0 .. MaxActions
<1>1. actions \in 0 .. MaxActions
  BY DEF TypeOK
<1>2. actions < MaxActions /\ actions' = actions + 1
  BY DEF User
<1>3. MaxActions \in Nat
  BY FormsAssumption
<1> QED
  BY <1>1, <1>2, <1>3

\* One that sends nothing ...
LEMMA ActEdits ==
  ASSUME TypeOK, form # None, NEW f \in Forms, f.is = form.is, DOMAIN f.shown = DOMAIN form.shown,
         Act(f, reqs), chosen' \subseteq Fields,
         \A g \in DOMAIN form.shown \ (chosen' \cup {"GSTVersion"}) : g \notin chosen /\ f.shown[g] = form.shown[g]
  PROVE  Edited
<1>1. form' = f /\ reqs' = reqs /\ f # None
  BY FormsAssumption DEF Act, Render
<1>2. actions' \in 0 .. MaxActions
  BY UserIsBounded DEF Act
<1>3. wafDirty' = (form'.is = "waf" /\ dirty(form'))
  BY <1>1 DEF Act, Render
<1> QED
  BY <1>1, <1>2, <1>3 DEF Edited, Act, Render

\* ... and one that sends something.
LEMMA ActSends ==
  ASSUME TypeOK, form # None, NEW f \in Forms, f.is = form.is, f.shown = form.shown,
         NEW r, Act(f, Sent(reqs, r)), SentBy(r, form), chosen' \subseteq Fields,
         \A g \in DOMAIN form.shown \ (chosen' \cup {"GSTVersion"}) : g \notin chosen
  PROVE  Edited
<1>1. form' = f /\ reqs' = Sent(reqs, r) /\ f # None
  BY FormsAssumption DEF Act, Render
<1>2. actions' \in 0 .. MaxActions
  BY UserIsBounded DEF Act
<1>3. wafDirty' = (form'.is = "waf" /\ dirty(form'))
  BY <1>1 DEF Act, Render
<1> QED
  BY <1>1, <1>2, <1>3 DEF Edited, Act, Render

LEMMA ChosenIs ==
  ASSUME TypeOK
  PROVE  /\ chosen \subseteq Fields /\ told \in BOOLEAN
         /\ Lists \subseteq Fields /\ GstFields \subseteq Fields /\ Stores \subseteq Fields
BY DEF TypeOK, Fields

LEMMA EditsOfLists ==
  ASSUME TypeOK, (\E l \in Lists, t \in Texts : TypeList(l, t)) \/ Retry \/ SaveLists
  PROVE  Edited
<1>0. form # None /\ form.is = "waf" /\ form \in Forms /\ form \in WafForm
  <2>1. form # None /\ form.is = "waf"
    BY DEF TypeList, Retry, SaveLists, AtLists, Is
  <2> QED
    BY <2>1, FormKinds DEF TypeOK
<1>1. ASSUME NEW l \in Lists, NEW t \in Texts, TypeList(l, t)
      PROVE  Edited
  <2> DEFINE f == [form EXCEPT !.shown[l] = t]
  <2>1. form.shown \in [Lists -> Texts] /\ Value.waf = [Lists -> Texts]
    BY <1>0, ValueIs DEF WafForm
  <2>2. /\ f \in WafForm /\ f.is = "waf" /\ DOMAIN f.shown = DOMAIN form.shown
        /\ \A g \in DOMAIN form.shown \ {l} : f.shown[g] = form.shown[g]
    BY <1>0, <2>1 DEF WafForm
  <2>3. f \in Forms
    BY <2>2, FormKinds
  <2>4. Act(f, reqs) /\ chosen' = chosen \cup {l}
    BY <1>1 DEF TypeList
  <2>5. \A g \in DOMAIN form.shown \ (chosen' \cup {"GSTVersion"}) : g \notin chosen /\ f.shown[g] = form.shown[g]
    BY <2>2, <2>4
  <2>6. chosen' \subseteq Fields
    BY <2>4, ChosenIs
  <2> HIDE DEF f
  <2> QED
    BY <1>0, <2>2, <2>3, <2>4, <2>5, <2>6, ActEdits
<1>2. ASSUME Retry
      PROVE  Edited
  <2> DEFINE f == [form EXCEPT !.loading = TRUE]
             r == Request("waf", "get", None)
  <2>1. f \in WafForm /\ f.is = "waf" /\ f.shown = form.shown
    BY <1>0 DEF WafForm
  <2>2. f \in Forms
    BY <2>1, FormKinds
  <2>3. Act(f, Sent(reqs, r)) /\ chosen' = chosen
    BY <1>2 DEF Retry
  <2>4. RequestOK(r) /\ r.live /\ r.to = "waf" /\ r.answer = Pending /\ r.op = "get"
    <3>1. RequestOK(r)
      BY RequestIsOK, ChosenIs DEF Form
    <3> QED
      BY <3>1 DEF Request
  <2>5. SentBy(r, form) /\ chosen' \subseteq Fields
    BY <1>0, <2>3, <2>4, ChosenIs DEF SentBy
  <2> HIDE DEF f, r
  <2> QED
    BY <1>0, <2>1, <2>2, <2>3, <2>4, <2>5, ActSends
<1>3. ASSUME SaveLists
      PROVE  Edited
  <2> DEFINE f == [form EXCEPT !.saving = TRUE]
             r == Request("waf", "set", form.shown)
  <2>1. f \in WafForm /\ f.is = "waf" /\ f.shown = form.shown
    BY <1>0 DEF WafForm
  <2>2. f \in Forms
    BY <2>1, FormKinds
  <2>3. Act(f, Sent(reqs, r)) /\ chosen' = chosen
    BY <1>3 DEF SaveLists
  <2>4. form.shown \in Value.waf
    BY <1>0 DEF WafForm
  <2>5. /\ RequestOK(r) /\ r.live /\ r.to = "waf" /\ r.answer = Pending /\ r.op = "set" /\ r.body = form.shown
        /\ r.chosen = chosen /\ r.behind = ~told
    <3>1. RequestOK(r)
      BY <2>4, RequestIsOK, ChosenIs DEF Form
    <3> QED
      BY <3>1 DEF Request
  <2>6. SentBy(r, form) /\ chosen' \subseteq Fields
    BY <1>0, <2>3, <2>5, ChosenIs DEF SentBy
  <2> HIDE DEF f, r
  <2> QED
    BY <1>0, <2>1, <2>2, <2>3, <2>5, <2>6, ActSends
<1> QED
  BY <1>1, <1>2, <1>3

LEMMA EditsOfStorage ==
  ASSUME TypeOK,
         (\E s \in Stores, v \in {"json", "bbolt"} : handleStorageChange(s, v)) \/ saveStorageSettings
  PROVE  Edited
<1>0. form # None /\ form.is = "sto" /\ form \in Forms /\ form \in StoForm
  <2>1. form # None /\ form.is = "sto"
    BY DEF handleStorageChange, saveStorageSettings, AtStorage, Is
  <2> QED
    BY <2>1, FormKinds DEF TypeOK
<1>1. ASSUME NEW s \in Stores, NEW v \in {"json", "bbolt"}, handleStorageChange(s, v)
      PROVE  Edited
  <2> DEFINE f == [form EXCEPT !.shown[s] = v]
  <2>1. form.shown \in [Stores -> {"json", "bbolt"}] /\ Value.sto = [Stores -> {"json", "bbolt"}]
    BY <1>0, ValueIs DEF StoForm
  <2>2. /\ f \in StoForm /\ f.is = "sto" /\ DOMAIN f.shown = DOMAIN form.shown
        /\ \A g \in DOMAIN form.shown \ {s} : f.shown[g] = form.shown[g]
    BY <1>0, <2>1 DEF StoForm
  <2>3. f \in Forms
    BY <2>2, FormKinds
  <2>4. Act(f, reqs) /\ chosen' = chosen \cup {s}
    BY <1>1 DEF handleStorageChange
  <2>5. \A g \in DOMAIN form.shown \ (chosen' \cup {"GSTVersion"}) : g \notin chosen /\ f.shown[g] = form.shown[g]
    BY <2>2, <2>4
  <2>6. chosen' \subseteq Fields
    BY <2>4, ChosenIs
  <2> HIDE DEF f
  <2> QED
    BY <1>0, <2>2, <2>3, <2>4, <2>5, <2>6, ActEdits
<1>2. ASSUME saveStorageSettings
      PROVE  Edited
  <2> DEFINE f == [form EXCEPT !.loading = TRUE]
             r == Request("sto", "set", form.shown)
  <2>1. f \in StoForm /\ f.is = "sto" /\ f.shown = form.shown
    BY <1>0 DEF StoForm
  <2>2. f \in Forms
    BY <2>1, FormKinds
  <2>3. Act(f, Sent(reqs, r)) /\ chosen' = chosen
    BY <1>2 DEF saveStorageSettings
  <2>4. form.shown \in Value.sto
    BY <1>0 DEF StoForm
  <2>5. /\ RequestOK(r) /\ r.live /\ r.to = "sto" /\ r.answer = Pending /\ r.op = "set" /\ r.body = form.shown
        /\ r.chosen = chosen /\ r.behind = ~told
    <3>1. RequestOK(r)
      BY <2>4, RequestIsOK, ChosenIs DEF Form
    <3> QED
      BY <3>1 DEF Request
  <2>6. SentBy(r, form) /\ chosen' \subseteq Fields
    BY <1>0, <2>3, <2>5, ChosenIs DEF SentBy
  <2> HIDE DEF f, r
  <2> QED
    BY <1>0, <2>1, <2>2, <2>3, <2>5, <2>6, ActSends
<1> QED
  BY <1>1, <1>2

\* A field of the GStreamer settings is edited.
LEMMA EditsOneField ==
  ASSUME TypeOK, form # None, form \in GstForm, NEW g \in GstFields, NEW n \in Nat, g \in Flags => n \in 0 .. 1,
         Act(updateField(form, g, n), reqs), chosen' = chosen \cup {g}
  PROVE  Edited
<1> DEFINE f == updateField(form, g, n)
<1>1. form.shown \in Config /\ form.is = "gst"
  BY ValueIs DEF GstForm
<1>2. f.shown = [form.shown EXCEPT ![g] = n] /\ f = [form EXCEPT !.shown = [form.shown EXCEPT ![g] = n]]
  BY DEF GstForm, updateField
<1>3. [form.shown EXCEPT ![g] = n] \in Config
  BY <1>1, ConfigExcept
<1>4. f \in GstForm /\ f.is = "gst"
  BY <1>1, <1>2, <1>3, ValueIs DEF GstForm
<1>5. f \in Forms
  BY <1>4, FormKinds
<1>6. DOMAIN f.shown = DOMAIN form.shown /\ \A h \in DOMAIN form.shown \ {g} : f.shown[h] = form.shown[h]
  BY <1>2
<1>7. \A h \in DOMAIN form.shown \ (chosen' \cup {"GSTVersion"}) : h \notin chosen /\ f.shown[h] = form.shown[h]
  BY <1>6
<1>8. chosen' \subseteq Fields
  BY ChosenIs
<1> HIDE DEF f
<1> QED
  BY <1>1, <1>4, <1>5, <1>6, <1>7, <1>8, ActEdits DEF f

LEMMA EditsOfConfig ==
  ASSUME TypeOK,
         \/ \E v \in Versions : TypeVersion(v)
         \/ BlurVersion
         \/ \E g \in GstFields, n \in Numbers : TypeField(g, n)
         \/ \E g \in Flags : SwitchField(g)
         \/ saveSettings \/ resetToDefaults
  PROVE  Edited
<1>0. form # None /\ form.is = "gst" /\ form \in Forms /\ form \in GstForm
  <2>1. form # None /\ form.is = "gst"
    BY DEF TypeVersion, BlurVersion, TypeField, SwitchField, saveSettings, resetToDefaults, AtGst, Is
  <2> QED
    BY <2>1, FormKinds DEF TypeOK
<1>a. form.shown \in Config /\ form.text \in Nat \cup {None}
  BY <1>0, ValueIs DEF GstForm
<1>b. /\ form.shown \in [GstFields \cup {"GSTVersion"} -> Nat] /\ DOMAIN form.shown = GstFields \cup {"GSTVersion"}
      /\ \A g \in Flags : form.shown[g] \in 0 .. 1
  BY <1>a, ConfigFields
<1>1. ASSUME NEW v \in Versions, TypeVersion(v)
      PROVE  Edited
  <2> DEFINE f == [form EXCEPT !.text = v, !.focus = TRUE]
  <2>1. v \in Nat \cup {None}
    BY FormsAssumption
  <2>2. f \in GstForm /\ f.is = "gst" /\ f.shown = form.shown
    BY <1>0, <2>1 DEF GstForm
  <2>3. f \in Forms
    BY <2>2, FormKinds
  <2>4. Act(f, reqs) /\ chosen' = chosen /\ chosen' \subseteq Fields
    BY <1>1, ChosenIs DEF TypeVersion
  <2> HIDE DEF f
  <2> QED
    BY <1>0, <2>2, <2>3, <2>4, ActEdits
<1>2. ASSUME BlurVersion
      PROVE  Edited
  <2> DEFINE v == normalizeVersion(form.text)
             f == [updateField(form, "GSTVersion", v) EXCEPT !.text = v, !.focus = FALSE]
  <2>1. v \in Nat
    BY <1>a, normalizeVersionIs
  <2>2. "GSTVersion" \notin Flags
    BY FormsAssumption
  <2>3. [form.shown EXCEPT !["GSTVersion"] = v] \in Config
    BY <1>a, <2>1, <2>2, ConfigExcept
  <2>4. f \in GstForm /\ f.is = "gst" /\ f.shown = [form.shown EXCEPT !["GSTVersion"] = v]
    <3>1. updateField(form, "GSTVersion", v) = [form EXCEPT !.shown = [form.shown EXCEPT !["GSTVersion"] = v]]
      BY <1>0 DEF updateField, GstForm
    <3> HIDE DEF v
    <3> QED
      BY <1>0, <2>1, <2>3, <3>1, ValueIs DEF GstForm
  <2>5. f \in Forms /\ f # None
    BY <2>4, FormKinds, FormsAssumption
  <2>6. /\ form' = f /\ reqs' = reqs /\ chosen' = chosen /\ actions' = actions
        /\ UNCHANGED <<open, selectedTab, isProMode, gstAvailable, gstAsked, ready, srv, runtime, fetches, told, missed>>
        /\ wafDirty' = (f # None /\ f.is = "waf" /\ dirty(f))
    BY <1>2 DEF BlurVersion, Render
  <2>7. /\ DOMAIN f.shown = DOMAIN form.shown
        /\ \A g \in DOMAIN form.shown \ {"GSTVersion"} : f.shown[g] = form.shown[g]
    BY <2>4
  <2>8. actions \in 0 .. MaxActions /\ chosen \subseteq Fields
    BY DEF TypeOK
  <2>10. \A g \in DOMAIN form.shown \ (chosen' \cup {"GSTVersion"}) : g \notin chosen /\ form'.shown[g] = form.shown[g]
    BY <2>6, <2>7
  <2>11. form' \in Forms /\ form'.is = form.is /\ DOMAIN form'.shown = DOMAIN form.shown
         /\ wafDirty' = (form'.is = "waf" /\ dirty(form'))
    BY <1>0, <2>4, <2>5, <2>6, <2>7
  <2> HIDE DEF f, v
  <2> QED
    BY <1>0, <2>6, <2>8, <2>10, <2>11 DEF Edited
<1>3. ASSUME NEW g \in GstFields, NEW n \in Numbers, TypeField(g, n)
      PROVE  Edited
  <2>1. n \in Nat
    BY FormsAssumption
  <2>2. g \notin Flags /\ Act(updateField(form, g, n), reqs) /\ chosen' = chosen \cup {g}
    BY <1>3 DEF TypeField
  <2> QED
    BY <1>0, <2>1, <2>2, EditsOneField
<1>4. ASSUME NEW g \in Flags, SwitchField(g)
      PROVE  Edited
  <2>1. g \in GstFields
    BY FormsAssumption
  <2>2. 1 - form.shown[g] \in 0 .. 1
    BY <1>b
  <2>3. Act(updateField(form, g, 1 - form.shown[g]), reqs) /\ chosen' = chosen \cup {g}
    BY <1>4 DEF SwitchField
  <2> QED
    BY <1>0, <2>1, <2>2, <2>3, EditsOneField
<1>5. ASSUME saveSettings
      PROVE  Edited
  <2> DEFINE v == normalizeVersion(form.text)
             f == [form EXCEPT !.loading = TRUE, !.text = v]
             body == [form.shown EXCEPT !["GSTVersion"] = v]
             r == Request("gst", "set", body)
  <2>1. v \in Nat /\ v >= GST_MIN_VERSION
    BY <1>a, normalizeVersionIs
  <2>2. f \in GstForm /\ f.is = "gst" /\ f.shown = form.shown
    <3> HIDE DEF v
    <3> QED
      BY <1>0, <2>1 DEF GstForm
  <2>3. f \in Forms
    BY <2>2, FormKinds
  <2>4. Act(f, Sent(reqs, r)) /\ chosen' = chosen
    BY <1>5 DEF saveSettings
  <2>5. body \in Value["gst"] /\ body["GSTVersion"] >= GST_MIN_VERSION
    <3>1. "GSTVersion" \notin Flags
      BY FormsAssumption
    <3>2. body \in Config
      BY <1>a, <2>1, <3>1, ConfigExcept
    <3>3. body["GSTVersion"] = v
      BY <1>b
    <3> QED
      BY <2>1, <3>2, <3>3, ValueIs
  <2>6. /\ RequestOK(r) /\ r.live /\ r.to = "gst" /\ r.answer = Pending /\ r.op = "set" /\ r.body = body
        /\ r.chosen = chosen /\ r.behind = ~told
    <3>1. RequestOK(r)
      BY <2>5, RequestIsOK, ChosenIs DEF Form
    <3> QED
      BY <3>1 DEF Request
  <2>7. \A g \in DOMAIN form.shown \ {"GSTVersion"} : body[g] = form.shown[g]
    OBVIOUS
  <2>8. SentBy(r, form) /\ chosen' \subseteq Fields
    <3> HIDE DEF body, f, r
    <3> QED
      BY <1>0, <2>4, <2>6, <2>7, ChosenIs DEF SentBy
  <2> HIDE DEF body, f, r
  <2> QED
    BY <1>0, <2>2, <2>3, <2>4, <2>6, <2>8, ActSends
<1>6. ASSUME resetToDefaults
      PROVE  Edited
  <2> DEFINE f == [form EXCEPT !.loading = TRUE]
             r == Request("gst", "def", None)
  <2>1. f \in GstForm /\ f.is = "gst" /\ f.shown = form.shown
    BY <1>0 DEF GstForm
  <2>2. f \in Forms
    BY <2>1, FormKinds
  <2>3. Act(f, Sent(reqs, r)) /\ chosen' = GstFields
    BY <1>6 DEF resetToDefaults
  <2>4. RequestOK(r) /\ r.live /\ r.to = "gst" /\ r.answer = Pending /\ r.op = "def" /\ r.chosen = GstFields
    <3>1. RequestOK(r)
      BY RequestIsOK, ChosenIs DEF Form
    <3> QED
      BY <3>1 DEF Request
  <2>5. SentBy(r, form) /\ chosen' \subseteq Fields
    BY <1>0, <2>3, <2>4, ChosenIs DEF SentBy
  <2>6. \A g \in DOMAIN form.shown \ (chosen' \cup {"GSTVersion"}) : g \notin chosen
    BY <1>b, <2>3
  <2> HIDE DEF f, r
  <2> QED
    BY <1>0, <2>1, <2>2, <2>3, <2>4, <2>5, <2>6, ActSends
<1> QED
  BY <1>1, <1>2, <1>3, <1>4, <1>5, <1>6

LEMMA EditIs ==
  ASSUME TypeOK, Edit
  PROVE  Edited
BY EditsOfLists, EditsOfStorage, EditsOfConfig DEF Edit

-----------------------------------------------------------------------------
(* What the user does with the dialog.                                      *)

LEMMA FormOfIs ==
  ASSUME NEW tab
  PROVE  FormOf(tab) \in Form \cup {None}
BY DEF FormOf, Form

\* A form that stays is left alone; one that is mounted or goes takes its requests with it.
Remounted ==
  \/ form # None /\ UNCHANGED <<form, reqs, chosen, told>>
  \/ form' = None /\ reqs' = Left /\ chosen' = {} /\ told' = FALSE
  \/ \E p \in Form : /\ form' = Fresh(p) /\ reqs' = Sent(Left, Request(p, "get", None))
                       /\ chosen' = {} /\ told' = FALSE

LEMMA AccessListsAt ==
  ASSUME NEW tab
  PROVE  FormOf(tab) = "waf" <=> tab = tabAccess
<1>1. None # "waf"
  BY FormsAssumption DEF Form
<1> QED
  BY <1>1 DEF FormOf, tabAccess, tabGStreamer, tabAdditional

LEMMA MountIs ==
  ASSUME TypeOK, Mount
  PROVE  /\ Remounted
         /\ form' # None => open' /\ ready' /\ form'.is = FormOf(selectedTab')
         /\ form' = None /\ open' /\ ready' => FormOf(selectedTab') = None
         /\ form' # None /\ form' # form => ~(form'.is = "waf" /\ dirty(form'))
<1> DEFINE p == IF open' /\ ready' THEN FormOf(selectedTab') ELSE None
<1>1. p \in Form \cup {None} /\ None \notin Form
  BY FormOfIs, FormsAssumption
<1>2. None \notin Forms /\ (form # None => form \in Forms)
  BY FormsAssumption DEF TypeOK
<1>3. \A f \in Forms : f.is \in Form
  BY FormKinds
<1>4. p # None => open' /\ ready' /\ p = FormOf(selectedTab')
  OBVIOUS
<1>5. p = None /\ open' /\ ready' => FormOf(selectedTab') = None
  OBVIOUS
<1>6. CASE form # None /\ p = form.is
  <2>1. UNCHANGED <<form, reqs, chosen, told>>
    BY <1>6 DEF Mount
  <2>2. p # None
    BY <1>1, <1>2, <1>3, <1>6
  <2> HIDE DEF p
  <2> QED
    BY <1>4, <1>6, <2>1, <2>2 DEF Remounted
<1>7. CASE ~(form # None /\ p = form.is)
  <2>1. /\ form' = IF p = None THEN None ELSE Fresh(p)
        /\ reqs' = IF p = None THEN Left ELSE Sent(Left, Request(p, "get", None))
        /\ chosen' = {} /\ told' = FALSE
    BY <1>7 DEF Mount
  <2>2. p # None => Fresh(p) \in Forms /\ Fresh(p).is = p /\ (p = "waf" => ~Fresh(p).loaded)
    BY <1>1, FreshIsOK
  <2>3. Remounted
    <3> HIDE DEF p
    <3> QED
      BY <1>1, <2>1 DEF Remounted
  <2> HIDE DEF p
  <2> QED
    BY <1>1, <1>2, <1>4, <1>5, <2>1, <2>2, <2>3 DEF dirty
<1> QED
  BY <1>6, <1>7

\* The dialog is opened, closed and navigated.
Navigated ==
  /\ Remounted \/ (form = None /\ UNCHANGED <<form, reqs, chosen, told>>)
  /\ UNCHANGED <<srv, runtime, fetches, missed>>
  /\ ShellTypeOK' /\ ready' \in BOOLEAN /\ actions' \in 0 .. MaxActions
  /\ form' # None => open' /\ ready' /\ form'.is = FormOf(selectedTab')
  /\ form' = None /\ open' /\ ready' => FormOf(selectedTab') = None
  /\ gstAsked' => ~gstAvailable'
  /\ selectedTab' = tabGStreamer => gstAvailable'

\* The GStreamer tab is only shown when the server has answered that there is one.
GstTabExists ==
  /\ gstAsked => ~gstAvailable
  /\ selectedTab = tabGStreamer => gstAvailable

LEMMA ShellType ==
  ShellTypeOK <=> /\ open \in BOOLEAN /\ isProMode \in BOOLEAN /\ gstAvailable \in BOOLEAN
                  /\ gstAsked \in BOOLEAN /\ wafDirty \in BOOLEAN /\ selectedTab \in Visited
BY DEF ShellTypeOK

LEMMA TabsAre ==
  /\ tabMain \in Visited /\ Visited \subseteq 0 .. 5 /\ Visited \subseteq Int
  /\ tabMain = 0 /\ tabAdditional = 1 /\ tabAccess = 4 /\ tabGStreamer = 5
BY ShellAssumption DEF tabMain, tabAdditional, tabAccess, tabGStreamer

LEMMA Opens ==
  ASSUME ShellTypeOK, GstTabExists, handleClickOpen
  PROVE  ShellTypeOK' /\ GstTabExists' /\ open' /\ ~open /\ wafDirty' = wafDirty
<1>1. /\ ~open /\ open' = TRUE
      /\ selectedTab' = tabMain /\ gstAvailable' = FALSE /\ gstAsked' = (GstBuilds # {})
      /\ UNCHANGED <<isProMode, wafDirty>>
  BY DEF handleClickOpen
<1>2. tabMain \in Visited /\ tabMain # tabGStreamer
  BY TabsAre
<1>3. open' \in BOOLEAN /\ isProMode' \in BOOLEAN /\ gstAvailable' \in BOOLEAN
      /\ gstAsked' \in BOOLEAN /\ wafDirty' \in BOOLEAN /\ selectedTab' \in Visited
  BY <1>1, <1>2, ShellType
<1>4. ShellTypeOK'
  BY <1>3 DEF ShellTypeOK
<1> QED
  BY <1>1, <1>2, <1>4 DEF GstTabExists

LEMMA GstAnswers ==
  ASSUME ShellTypeOK, GstTabExists, GstAnswered
  PROVE  /\ ShellTypeOK' /\ GstTabExists'
         /\ open' = open /\ selectedTab' = selectedTab /\ wafDirty' = wafDirty
<1>1. /\ open /\ gstAsked /\ gstAsked' = FALSE
      /\ UNCHANGED <<open, isProMode, wafDirty>>
  BY DEF GstAnswered
<1>2. PICK built \in GstBuilds \cup {FALSE} :
        /\ gstAvailable' = built
        /\ selectedTab' = IF selectedTab > maxTab' THEN tabMain ELSE selectedTab
  BY DEF GstAnswered
<1>3. built \in BOOLEAN
  BY <1>2, ShellAssumption
<1>4. selectedTab \in Visited /\ selectedTab # tabGStreamer
  BY <1>1, ShellType DEF GstTabExists
<1>5. selectedTab \in 0 .. 4
  BY <1>4, TabsAre
<1>6. maxTab' = IF gstAvailable' THEN 5 ELSE 4
  BY TabsAre DEF maxTab
<1>7. selectedTab' = selectedTab
  BY <1>2, <1>5, <1>6
<1>8. open' \in BOOLEAN /\ isProMode' \in BOOLEAN /\ gstAvailable' \in BOOLEAN
      /\ gstAsked' \in BOOLEAN /\ wafDirty' \in BOOLEAN /\ selectedTab' \in Visited
  BY <1>1, <1>2, <1>3, <1>4, <1>7, ShellType
<1>9. ShellTypeOK'
  BY <1>8 DEF ShellTypeOK
<1> QED
  BY <1>1, <1>4, <1>7, <1>9 DEF GstTabExists

LEMMA Goes ==
  ASSUME ShellTypeOK, GstTabExists,
         SwitchProMode \/ \E i \in Visited, yes \in BOOLEAN : handleChange(i, yes) \/ handleChangeIndex(i, yes)
  PROVE  /\ ShellTypeOK' /\ GstTabExists' /\ open /\ open'
         /\ \/ selectedTab' = selectedTab /\ wafDirty' = wafDirty
            \/ selectedTab' # tabAccess /\ ~wafDirty'
            \/ selectedTab # tabAccess /\ wafDirty' = wafDirty
<1>1. CASE SwitchProMode
  <2>1. /\ open /\ isProMode' = ~isProMode
        /\ UNCHANGED <<open, gstAvailable, gstAsked>>
        /\ \/ selectedTab' = tabMain /\ wafDirty' = FALSE
           \/ selectedTab' = selectedTab /\ wafDirty' = wafDirty
    BY <1>1 DEF SwitchProMode
  <2>2. open' \in BOOLEAN /\ isProMode' \in BOOLEAN /\ gstAvailable' \in BOOLEAN
        /\ gstAsked' \in BOOLEAN /\ wafDirty' \in BOOLEAN /\ selectedTab' \in Visited
    BY <2>1, ShellType, TabsAre
  <2>3. ShellTypeOK'
    BY <2>2 DEF ShellTypeOK
  <2>4. tabMain # tabAccess /\ tabMain # tabGStreamer
    BY TabsAre
  <2> QED
    BY <2>1, <2>3, <2>4 DEF GstTabExists
<1>2. ASSUME NEW i \in Visited, NEW yes \in BOOLEAN, handleChange(i, yes) \/ handleChangeIndex(i, yes)
      PROVE  /\ ShellTypeOK' /\ GstTabExists' /\ open /\ open'
             /\ \/ selectedTab' # tabAccess /\ ~wafDirty'
                \/ selectedTab # tabAccess /\ wafDirty' = wafDirty
  <2>1. /\ open /\ i <= maxTab /\ i # selectedTab /\ selectedTab' = i
        /\ wafDirty' = (wafDirty /\ i = tabAccess)
        /\ UNCHANGED <<open, isProMode, gstAvailable, gstAsked>>
    <3>1. selectedTab \in Int /\ i \in Int
      BY TabsAre, ShellType
    <3>2. i # selectedTab
      BY <1>2, <3>1 DEF handleChange, handleChangeIndex
    <3> QED
      BY <1>2, <3>2 DEF handleChange, handleChangeIndex, changeTab
  <2>2. open' \in BOOLEAN /\ isProMode' \in BOOLEAN /\ gstAvailable' \in BOOLEAN
        /\ gstAsked' \in BOOLEAN /\ wafDirty' \in BOOLEAN /\ selectedTab' \in Visited
    BY <2>1, ShellType
  <2>3. ShellTypeOK'
    BY <2>2 DEF ShellTypeOK
  <2>4. i = tabGStreamer => gstAvailable
    BY <2>1, TabsAre DEF maxTab
  <2> QED
    BY <2>1, <2>3, <2>4, ShellType DEF GstTabExists
<1> QED
  BY <1>1, <1>2

LEMMA Closes ==
  ASSUME ShellTypeOK, GstTabExists, NEW yes \in BOOLEAN, requestClose(yes)
  PROVE  ShellTypeOK' /\ GstTabExists' /\ ~open' /\ ~wafDirty'
<1>1. /\ open' = FALSE /\ wafDirty' = FALSE
      /\ UNCHANGED <<selectedTab, isProMode, gstAvailable, gstAsked>>
  BY DEF requestClose
<1>2. ShellTypeOK'
  BY <1>1, ShellType DEF ShellTypeOK
<1> QED
  BY <1>1, <1>2 DEF GstTabExists

LEMMA DialogIs ==
  ASSUME TypeOK, FormIsShown, DirtyIsKnown, Dialog
  PROVE  Navigated /\ DirtyIsKnown'
<1>0. ShellTypeOK /\ GstTabExists /\ ready \in BOOLEAN /\ actions \in 0 .. MaxActions
  BY DEF TypeOK, FormIsShown, GstTabExists
<1>1. CASE OpenDialog
  <2>1. ShellTypeOK' /\ GstTabExists' /\ open' /\ ~open /\ wafDirty' = wafDirty
    BY <1>0, <1>1, Opens DEF OpenDialog
  <2>2. actions' \in 0 .. MaxActions
    BY <1>1, UserIsBounded DEF OpenDialog
  <2>3. form = None
    BY <2>1 DEF FormIsShown
  <2>4. ready' = FALSE /\ UNCHANGED <<form, reqs, srv, runtime, fetches, chosen, told, missed>>
    BY <1>1 DEF OpenDialog
  <2> QED
    BY <1>0, <2>1, <2>2, <2>3, <2>4 DEF Navigated, GstTabExists, DirtyIsKnown
<1>2. CASE SettingsArrive
  <2>1. /\ open /\ ~ready /\ ready' = TRUE /\ Mount
        /\ UNCHANGED <<open, selectedTab, isProMode, gstAvailable, gstAsked, wafDirty>>
        /\ UNCHANGED <<srv, runtime, actions, fetches, missed>>
    BY <1>2 DEF SettingsArrive, shell
  <2>2. form = None /\ ~wafDirty
    BY <2>1 DEF FormIsShown, DirtyIsKnown
  <2>3. ShellTypeOK' /\ GstTabExists'
    BY <1>0, <2>1 DEF ShellTypeOK, GstTabExists
  <2> QED
    BY <1>0, <2>1, <2>2, <2>3, MountIs DEF Navigated, GstTabExists, DirtyIsKnown
<1>3. CASE GstIsKnown
  <2>1. Mount /\ UNCHANGED <<ready, srv, runtime, actions, fetches, missed>> /\ GstAnswered
    BY <1>3 DEF GstIsKnown
  <2>2. /\ ShellTypeOK' /\ GstTabExists'
        /\ open' = open /\ selectedTab' = selectedTab /\ wafDirty' = wafDirty
    BY <1>0, <2>1, GstAnswers
  <2>3. form # None => UNCHANGED <<form, reqs, chosen, told>>
    BY <2>1, <2>2 DEF FormIsShown, Mount
  <2>4. form' # None /\ form' # form => ~(form'.is = "waf" /\ dirty(form'))
    BY <2>1, MountIs
  <2> QED
    BY <1>0, <2>1, <2>2, <2>3, <2>4, MountIs DEF Navigated, GstTabExists, DirtyIsKnown
<1>4. CASE Navigate
  <2>1. /\ Mount /\ UNCHANGED <<ready, srv, runtime, fetches, missed>>
        /\ SwitchProMode \/ \E i \in Visited, yes \in BOOLEAN : handleChange(i, yes) \/ handleChangeIndex(i, yes)
    BY <1>4 DEF Navigate
  <2>2. /\ ShellTypeOK' /\ GstTabExists' /\ open /\ open'
        /\ \/ selectedTab' = selectedTab /\ wafDirty' = wafDirty
           \/ selectedTab' # tabAccess /\ ~wafDirty'
           \/ selectedTab # tabAccess /\ wafDirty' = wafDirty
    BY <1>0, <2>1, Goes
  <2>3. actions' \in 0 .. MaxActions
    BY <1>4, UserIsBounded DEF Navigate
  <2>5. Remounted /\ (form' # None => open' /\ ready' /\ form'.is = FormOf(selectedTab'))
        /\ (form' = None /\ open' /\ ready' => FormOf(selectedTab') = None)
        /\ (form' # None /\ form' # form => ~(form'.is = "waf" /\ dirty(form')))
    BY <2>1, MountIs
  <2>6. Navigated
    BY <1>0, <2>1, <2>2, <2>3, <2>5 DEF Navigated, GstTabExists
  <2>7. \A t : FormOf(t) = "waf" <=> t = tabAccess
    BY AccessListsAt
  <2>8. wafDirty => selectedTab = tabAccess
    BY <2>7 DEF DirtyIsKnown, FormIsShown
  <2>9. form' # None /\ form'.is = "waf" => selectedTab' = tabAccess
    BY <2>5, <2>7
  <2>10. form # None /\ form.is = "waf" => selectedTab = tabAccess
    BY <2>7 DEF FormIsShown
  <2>11. form # None /\ form.is = "waf" /\ selectedTab' = selectedTab => form' = form
    BY <2>1, <2>2 DEF FormIsShown, Mount
  <2>12. DirtyIsKnown'
    BY <2>2, <2>5, <2>8, <2>9, <2>10, <2>11 DEF DirtyIsKnown
  <2> QED
    BY <2>6, <2>12
<1>5. CASE CloseDialog
  <2>1. PICK yes \in BOOLEAN : requestClose(yes)
    BY <1>5 DEF CloseDialog
  <2>2. Mount /\ UNCHANGED <<ready, srv, runtime, actions, fetches, missed>>
    BY <1>5 DEF CloseDialog
  <2>3. ShellTypeOK' /\ GstTabExists' /\ ~open' /\ ~wafDirty'
    BY <1>0, <2>1, Closes
  <2> QED
    BY <1>0, <2>2, <2>3, MountIs DEF Navigated, GstTabExists, DirtyIsKnown
<1> QED
  BY <1>1, <1>2, <1>3, <1>4, <1>5 DEF Dialog

-----------------------------------------------------------------------------
(* Answers.                                                                 *)

\* What a form shows after an answer; one that is an error changes nothing of it.
ShownAfter(f, r) ==
  CASE r.op \in {"get", "reget"} \/ (r.to = "waf" /\ r.op = "set") -> r.answer
    [] r.to = "gst" /\ r.op = "set" -> r.body
    [] OTHER -> f.shown

Ok(r) == r.answer \notin {Failed, Refused}

LEMMA ListsAnsweredIs ==
  ASSUME TypeOK, NEW f \in Forms, f.is = "waf", NEW r, RequestOK(r), r.to = "waf", r.answer # Pending
  PROVE  /\ ListsAnswered(f, r) \in Forms /\ ListsAnswered(f, r).is = "waf"
         /\ ListsAnswered(f, r).shown = IF Ok(r) THEN ShownAfter(f, r) ELSE f.shown
<1> DEFINE g == ListsAnswered(f, r)
<1>1. f \in WafForm /\ srv.readOnly \in BOOLEAN
  BY FormKinds DEF TypeOK
<1>2. r.op \in {"get", "set"} /\ r.answer \in {Failed, Refused} \cup Value.waf
  BY DEF RequestOK, About
<1>3. r.op = "get" => r.answer # Refused
  BY DEF RequestOK
<1>4. CASE r.answer \in {Failed, Refused}
  <2>1. r.op = "get" => g = [f EXCEPT !.loaded = FALSE, !.loading = FALSE]
    BY <1>3, <1>4 DEF ListsAnswered
  <2>2. r.op = "set" => g = [f EXCEPT !.readOnly = f.readOnly \/ r.answer = Refused, !.saving = FALSE]
    BY <1>4 DEF ListsAnswered
  <2> HIDE DEF g
  <2>4. g \in WafForm /\ g.shown = f.shown
    BY <1>1, <1>2, <2>1, <2>2 DEF WafForm
  <2> QED
    BY <1>4, <2>4, FormKinds DEF WafForm, Ok, g
<1>5. CASE r.answer \in Value.waf /\ r.answer \notin {Failed, Refused}
  <2>1. applyResponse(f, r.answer) \in WafForm /\ applyResponse(f, r.answer).shown = r.answer
    BY <1>1, <1>5 DEF applyResponse, WafForm
  <2>2. /\ g = [applyResponse(f, r.answer) EXCEPT !.loading = FALSE]
           \/ g = [applyResponse(f, r.answer) EXCEPT !.saving = FALSE]
    BY <1>2, <1>5 DEF ListsAnswered
  <2> HIDE DEF g
  <2>3. g \in WafForm /\ g.shown = r.answer
    BY <2>1, <2>2 DEF WafForm
  <2>4. g \in Forms /\ g.is = "waf"
    BY <2>3, FormKinds DEF WafForm
  <2>5. ShownAfter(f, r) = r.answer
    BY <1>2 DEF ShownAfter
  <2> QED
    BY <1>5, <2>3, <2>4, <2>5 DEF g, Ok
<1> QED
  BY <1>2, <1>4, <1>5

LEMMA ConfigAnsweredIs ==
  ASSUME NEW f \in Forms, f.is = "gst", NEW r, RequestOK(r), r.to = "gst", r.answer # Pending
  PROVE  /\ ConfigAnswered(f, r) \in Forms /\ ConfigAnswered(f, r).is = "gst"
         /\ ConfigAnswered(f, r).shown = IF Ok(r) THEN ShownAfter(f, r) ELSE f.shown
<1> DEFINE g == ConfigAnswered(f, r)
<1>1. f \in GstForm
  BY FormKinds
<1>2. /\ r.op \in {"get", "set", "def", "reget"} /\ r.answer \in {Failed, Refused} \cup Value.gst
      /\ r.answer = Refused => r.op = "reget"
  BY DEF RequestOK, About
<1>3. r.op = "set" => r.body \in Value.gst
  BY DEF RequestOK
<1>4. Failed \notin Value.gst /\ Refused \notin Value.gst /\ Failed # Refused
  BY AnswersAreApart
<1>5. \A c \in Value.gst : Configured(f, c) \in GstForm /\ Configured(f, c).shown = c
  <2> TAKE c \in Value.gst
  <2>1. c["GSTVersion"] \in Nat
    BY ValueIs, ConfigFields
  <2> QED
    BY <1>1, <2>1 DEF Configured, GstForm
<1>6. ASSUME r.answer \in {Failed, Refused}
      PROVE  g = f \/ g = [f EXCEPT !.loading = FALSE]
  <2>1. r.op \in {"get", "set", "def", "reget"}
    BY <1>2
  <2> QED
    BY <1>2, <1>6, <2>1 DEF ConfigAnswered
<1>7. ASSUME r.answer \notin {Failed, Refused}
      PROVE  /\ r.op = "get" => g = Configured(f, r.answer)
             /\ r.op = "set" => g = [f EXCEPT !.shown = r.body, !.loading = FALSE]
             /\ r.op = "def" => g = f
             /\ r.op = "reget" => g = [Configured(f, r.answer) EXCEPT !.loading = FALSE]
  BY <1>2, <1>7 DEF ConfigAnswered
<1> HIDE DEF g
<1>8. CASE r.answer \in {Failed, Refused}
  <2>1. g \in GstForm /\ g.shown = f.shown /\ ~Ok(r)
    BY <1>1, <1>6, <1>8 DEF GstForm, Ok
  <2> QED
    BY <2>1, FormKinds DEF GstForm, g
<1>9. CASE r.answer \notin {Failed, Refused}
  <2>1. r.answer \in Value.gst
    BY <1>2, <1>9
  <2>2. CASE r.op \in {"get", "reget"}
    <3>1. g \in GstForm /\ g.shown = r.answer
      BY <1>5, <1>7, <1>9, <2>1, <2>2 DEF GstForm
    <3> QED
      BY <1>9, <2>2, <3>1, FormKinds DEF GstForm, g, ShownAfter, Ok
  <2>3. CASE r.op = "set"
    <3>1. g \in GstForm /\ g.shown = r.body
      BY <1>1, <1>3, <1>7, <1>9, <2>3 DEF GstForm
    <3> QED
      BY <1>9, <2>3, <3>1, FormKinds DEF GstForm, g, ShownAfter, Ok
  <2>4. CASE r.op = "def"
    BY <1>1, <1>7, <1>9, <2>4, FormKinds DEF GstForm, g, ShownAfter, Ok
  <2> QED
    BY <1>2, <2>2, <2>3, <2>4
<1> QED
  BY <1>8, <1>9

LEMMA StorageAnsweredIs ==
  ASSUME NEW f \in Forms, f.is = "sto", NEW r, RequestOK(r), r.to = "sto", r.answer # Pending
  PROVE  /\ StorageAnswered(f, r) \in Forms /\ StorageAnswered(f, r).is = "sto"
         /\ StorageAnswered(f, r).shown = IF Ok(r) THEN ShownAfter(f, r) ELSE f.shown
<1> DEFINE g == StorageAnswered(f, r)
<1>1. f \in StoForm
  BY FormKinds
<1>0. r.to = "sto"
  OBVIOUS
<1>2. r.op \in {"get", "set"} /\ r.answer \in {Failed} \cup Value.sto
  BY DEF RequestOK, About
<1>b. Refused \notin Value.sto /\ Refused # Failed
  BY AnswersAreApart
<1>3. /\ r.op = "get" /\ r.answer = Failed => g = f
      /\ r.op = "get" /\ r.answer # Failed => g = [f EXCEPT !.shown = r.answer]
      /\ r.op = "set" => g = [f EXCEPT !.loading = FALSE]
  <2>1. CASE r.op = "get"
    BY <2>1 DEF StorageAnswered
  <2>2. CASE r.op = "set"
    BY <2>2 DEF StorageAnswered
  <2> QED
    BY <1>2, <2>1, <2>2
<1> HIDE DEF g
<1>4. g \in StoForm
  BY <1>1, <1>2, <1>3 DEF StoForm
<1>5. r.op = "set" => g.shown = f.shown
  BY <1>1, <1>3 DEF StoForm
<1>6. r.op = "get" /\ r.answer # Failed => g.shown = r.answer
  BY <1>1, <1>3 DEF StoForm
<1>7. g.shown = IF Ok(r) THEN ShownAfter(f, r) ELSE f.shown
  <2>1. r.op = "get" /\ r.answer = Failed => g.shown = f.shown
    BY <1>3
  <2>2. CASE r.op = "get"
    BY <1>2, <1>6, <1>b, <2>1, <2>2 DEF ShownAfter, Ok
  <2>3. CASE r.op = "set"
    BY <1>0, <1>5, <2>3 DEF ShownAfter
  <2> QED
    BY <1>2, <2>2, <2>3
<1> QED
  BY <1>4, <1>7, FormKinds DEF StoForm, g

LEMMA FormAfterIs ==
  ASSUME TypeOK, FormIsShown, NEW i \in DOMAIN reqs, reqs[i].to \in Form, reqs[i].answer # Pending
  PROVE  LET r == reqs[i]
         IN  /\ ~r.live => FormAfter(r) = form
             /\ r.live => /\ form # None /\ form.is = r.to /\ form \in Forms
                          /\ FormAfter(r) \in Forms /\ FormAfter(r).is = form.is
                          /\ FormAfter(r).shown = IF Ok(r) THEN ShownAfter(form, r) ELSE form.shown
<1> DEFINE r == reqs[i]
<1>1. RequestOK(r)
  BY DEF TypeOK
<1>2. r.live => form # None /\ form.is = r.to /\ form \in Forms
  BY DEF FormIsShown, Is, TypeOK
<1>3. r.to \in {"waf", "gst", "sto"}
  BY DEF Form
<1>4. ~r.live => FormAfter(r) = form
  BY DEF FormAfter
<1>5. r.live => /\ r.to = "waf" => FormAfter(r) = ListsAnswered(form, r)
                /\ r.to = "gst" => FormAfter(r) = ConfigAnswered(form, r)
                /\ r.to = "sto" => FormAfter(r) = StorageAnswered(form, r)
  BY DEF FormAfter
<1>6. r.answer # Pending
  OBVIOUS
<1> HIDE DEF r
<1>7. ASSUME r.live
      PROVE  /\ FormAfter(r) \in Forms /\ FormAfter(r).is = form.is
             /\ FormAfter(r).shown = IF Ok(r) THEN ShownAfter(form, r) ELSE form.shown
  <2>1. CASE r.to = "waf"
    BY <1>1, <1>2, <1>5, <1>6, <1>7, <2>1, ListsAnsweredIs
  <2>2. CASE r.to = "gst"
    BY <1>1, <1>2, <1>5, <1>6, <1>7, <2>2, ConfigAnsweredIs
  <2>3. CASE r.to = "sto"
    BY <1>1, <1>2, <1>5, <1>6, <1>7, <2>3, StorageAnsweredIs
  <2> QED
    BY <1>3, <2>1, <2>2, <2>3
<1> QED
  BY <1>2, <1>4, <1>7 DEF r

-----------------------------------------------------------------------------
(* What the parts of the invariant depend on.                               *)

ServerType(s) ==
  /\ s \in [waf : Value.waf, gst : Value.gst, sto : Value.sto, readOnly : BOOLEAN]
  /\ s.gst["GSTVersion"] >= GST_MIN_VERSION

LEMMA TypeParts ==
  TypeOK <=> /\ ShellTypeOK /\ ready \in BOOLEAN /\ told \in BOOLEAN /\ missed \in BOOLEAN /\ chosen \subseteq Fields
             /\ ServerType(srv) /\ form \in Forms \cup {None} /\ RequestsOK(reqs)
             /\ runtime \in [known : Config \cup {None, Unavailable}, stale : BOOLEAN]
             /\ actions \in 0 .. MaxActions /\ fetches \in 0 .. MaxFetches
<1>1. {ready, told, missed} \subseteq BOOLEAN <=> ready \in BOOLEAN /\ told \in BOOLEAN /\ missed \in BOOLEAN
  OBVIOUS
<1> QED
  BY <1>1 DEF TypeOK, ServerType, RequestsOK

\* The parts about requests are kept when some of them go, unless one of those was about to tell the page ...
LEMMA FewerKeep ==
  ASSUME NEW rq, NEW less, DOMAIN less \subseteq DOMAIN rq,
         \A i \in DOMAIN less :
            /\ less[i].to = rq[i].to /\ less[i].op = rq[i].op /\ less[i].body = rq[i].body
            /\ less[i].answer = rq[i].answer /\ less[i].chosen = rq[i].chosen /\ less[i].behind = rq[i].behind,
         NEW s, RequestsKeep(rq, s), OneFetch(rq)
  PROVE  /\ RequestsKeep(less, s) /\ OneFetch(less)
         /\ \A rt, m : KnownOK(rt, rq, s, m) /\ (Telling(rq) => Telling(less)) => KnownOK(rt, less, s, m)
<1>1. RequestsKeep(less, s)
  <2> SUFFICES ASSUME NEW i \in DOMAIN less
               PROVE  AnswerOK(less[i], s) /\ SaveOK(less[i], s)
    BY DEF RequestsKeep
  <2>1. i \in DOMAIN rq /\ AnswerOK(rq[i], s) /\ SaveOK(rq[i], s)
    BY DEF RequestsKeep
  <2>2. Stored(less[i]) = Stored(rq[i]) /\ About(less[i]) = About(rq[i])
    BY DEF Stored, About
  <2> QED
    BY <2>1, <2>2 DEF AnswerOK, SaveOK, Got
<1>2. OneFetch(less)
  BY DEF OneFetch
<1>3. ASSUME NEW rt, NEW m, KnownOK(rt, rq, s, m), Telling(rq) => Telling(less)
      PROVE  KnownOK(rt, less, s, m)
  BY <1>3 DEF KnownOK, Got
<1> QED
  BY <1>1, <1>2, <1>3

\* ... and when one is sent, if it is not a second one of the page.
LEMMA SentKeeps ==
  ASSUME NEW rq, IsFiniteSet(DOMAIN rq), NEW r, NEW s,
         r.answer = Pending, SaveOK(r, s), r.to = "page" => ~Fetching(rq),
         RequestsKeep(rq, s), OneFetch(rq)
  PROVE  /\ RequestsKeep(Sent(rq, r), s) /\ OneFetch(Sent(rq, r))
         /\ \A rt, m : KnownOK(rt, rq, s, m) => KnownOK(rt, Sent(rq, r), s, m)
<1> DEFINE more == Sent(rq, r)
           n == Number(rq)
<1>1. /\ n \notin DOMAIN rq /\ DOMAIN more = DOMAIN rq \cup {n} /\ more[n] = r
      /\ \A i \in DOMAIN rq : more[i] = rq[i]
  BY SentIs
<1> HIDE DEF more, n
<1>2. RequestsKeep(more, s)
  <2>1. ~Got(r) /\ AnswerOK(r, s)
    BY DEF AnswerOK, Got
  <2> QED
    BY <1>1, <2>1 DEF RequestsKeep
<1>3. OneFetch(more)
  BY <1>1 DEF OneFetch, Fetching
<1>4. ASSUME NEW rt, NEW m, KnownOK(rt, rq, s, m)
      PROVE  KnownOK(rt, more, s, m)
  <2>1. Telling(rq) => Telling(more)
    BY <1>1 DEF Telling
  <2> QED
    BY <1>1, <1>4, <2>1 DEF KnownOK, Got
<1> QED
  BY <1>2, <1>3, <1>4 DEF more

\* What is kept of a field depends on that field alone.
LEMMA KeptIsByField ==
  ASSUME NEW f \in Forms, NEW h \in Forms, h.is = f.is, DOMAIN h.shown = DOMAIN f.shown,
         NEW g \in DOMAIN f.shown, h.shown[g] = f.shown[g]
  PROVE  Kept(h)[g] = Kept(f)[g]
BY DEF Kept, Normalized

\* What a form shows and what the server has for it have the same fields.
LEMMA ShownFields ==
  ASSUME NEW f \in Forms, NEW s, ServerType(s)
  PROVE  /\ f.is \in Form /\ DOMAIN f.shown = DOMAIN s[f.is]
         /\ f.is = "gst" => DOMAIN f.shown = GstFields \cup {"GSTVersion"}
<1>1. f.is \in {"waf", "gst", "sto"} /\ f.shown \in Value[f.is] /\ s[f.is] \in Value[f.is]
  BY FormKinds DEF ServerType, Form
<1>2. \A c \in Value.gst : DOMAIN c = GstFields \cup {"GSTVersion"}
  BY ValueIs, ConfigFields
<1> QED
  BY <1>1, <1>2, ValueIs DEF Form

-----------------------------------------------------------------------------
(* What the server keeps.                                                   *)

\* What is stored makes sense.
LEMMA StoredIs ==
  ASSUME NEW r, RequestOK(r), r.op \in {"set", "def"}
  PROVE  /\ r.to \in Form /\ Stored(r) \in Value[r.to]
         /\ r.to = "waf" => \A l \in Lists : Stripped[Stored(r)[l]] = Stored(r)[l]
         /\ r.to = "gst" => /\ Stored(r)["GSTVersion"] >= GST_MIN_VERSION
                            /\ \A g \in Positive : Stored(r)[g] # 0
<1>1. /\ r.to \in {"waf", "gst", "sto"} /\ (r.op = "def" => r.to = "gst")
      /\ r.op = "set" => r.body \in Value[r.to]
      /\ r.to = "gst" /\ r.op = "set" => r.body["GSTVersion"] >= GST_MIN_VERSION
  BY DEF RequestOK, Form
<1>2. /\ Stripped \in [Texts -> Texts] /\ \A t \in Texts : Stripped[Stripped[t]] = Stripped[t]
      /\ Positive \subseteq GstFields /\ Flags \subseteq GstFields \ Positive /\ "GSTVersion" \notin GstFields
      /\ Defaults \in Config /\ \A g \in Positive : Defaults[g] > 0
      /\ Defaults["GSTVersion"] >= GST_MIN_VERSION
  BY FormsAssumption
<1>3. CASE r.to = "waf"
  <2>1. r.body \in [Lists -> Texts]
    BY <1>1, <1>3, ValueIs
  <2>2. Stored(r) = [l \in Lists |-> Stripped[r.body[l]]]
    BY <1>1, <1>3 DEF Stored
  <2>3. \A l \in Lists : r.body[l] \in Texts
    BY <2>1
  <2>4. Stored(r) \in [Lists -> Texts]
    BY <1>2, <2>2, <2>3
  <2> QED
    BY <1>2, <1>3, <2>2, <2>3, <2>4, ValueIs DEF Form
<1>4. CASE r.to = "gst" /\ r.op = "set"
  <2>1. Stored(r) = Normalized(r.body)
    BY <1>4 DEF Stored
  <2>2. r.body \in [GstFields \cup {"GSTVersion"} -> Nat] /\ \A f \in Flags : r.body[f] \in 0 .. 1
    BY <1>1, <1>4, ValueIs, ConfigFields
  <2>3. Defaults \in [GstFields \cup {"GSTVersion"} -> Nat]
    BY <1>2, ConfigFields
  <2>4. Stored(r) = [f \in GstFields \cup {"GSTVersion"} |->
                       IF f \in Positive /\ r.body[f] = 0 THEN Defaults[f] ELSE r.body[f]]
    BY <2>1, <2>2 DEF Normalized
  <2>5. Stored(r) \in [GstFields \cup {"GSTVersion"} -> Nat]
    BY <2>2, <2>3, <2>4
  <2>6. \A f \in Flags : Stored(r)[f] \in 0 .. 1
    BY <1>2, <2>2, <2>4
  <2>7. \A g \in Positive : Stored(r)[g] # 0
    BY <1>2, <2>2, <2>3, <2>4
  <2>8. Stored(r)["GSTVersion"] = r.body["GSTVersion"]
    BY <1>2, <2>4
  <2>9. Stored(r) \in Config
    BY <2>5, <2>6 DEF Config
  <2> QED
    BY <1>1, <1>4, <2>7, <2>8, <2>9, ValueIs DEF Form
<1>5. CASE r.to = "gst" /\ r.op = "def"
  <2>1. Stored(r) = Defaults
    BY <1>5 DEF Stored
  <2>2. \A g \in Positive : Defaults[g] # 0
    BY <1>2, ConfigFields
  <2> QED
    BY <1>2, <1>5, <2>1, <2>2, ValueIs DEF Form
<1>6. CASE r.to = "sto"
  <2>1. Stored(r) = r.body
    BY <1>1, <1>6 DEF Stored
  <2> QED
    BY <1>1, <1>6, <2>1 DEF Form
<1> QED
  BY <1>1, <1>3, <1>4, <1>5, <1>6

\* What is fetched is what is stored, but for the version.
LEMMA ServedIs ==
  ASSUME NEW s, ServerType(s), NEW p \in Form
  PROVE  /\ Served(s, p) \in Value[p] /\ DOMAIN Served(s, p) = DOMAIN s[p]
         /\ \A g \in DOMAIN s[p] \ {"GSTVersion"} : Served(s, p)[g] = s[p][g]
<1>1. s[p] \in Value[p] /\ p \in {"waf", "gst", "sto"}
  BY DEF ServerType, Form
<1>2. CASE ~(p = "gst" /\ Installed # None)
  BY <1>1, <1>2 DEF Served
<1>3. CASE p = "gst" /\ Installed # None
  <2>1. Served(s, p) = [s[p] EXCEPT !["GSTVersion"] = Installed]
    BY <1>3 DEF Served
  <2>2. s[p] \in Config /\ Installed \in Nat /\ "GSTVersion" \notin Flags
    BY <1>1, <1>3, ValueIs, FormsAssumption
  <2>3. Served(s, p) \in Config
    BY <2>1, <2>2, ConfigExcept
  <2> QED
    BY <1>3, <2>1, <2>3, ValueIs
<1> QED
  BY <1>2, <1>3

\* What a form shows after a fetch agrees with the server.
LEMMA ServedAgrees ==
  ASSUME NEW s, ServerType(s), ServerOK(s), NEW f \in Forms, f.shown = Served(s, f.is), NEW ch
  PROVE  Agrees(f, s, ch)
<1> DEFINE p == f.is
<1>1. p \in Form /\ f.shown \in Value[p]
  BY FormKinds
<1>2. SUFFICES ASSUME NEW g \in DOMAIN f.shown \ {"GSTVersion"}
               PROVE  s[p][g] = Kept(f)[g]
  BY DEF Agrees
<1>3. f.shown[g] = s[p][g] /\ DOMAIN f.shown = DOMAIN s[p]
  BY <1>1, <1>2, ServedIs
<1>4. CASE p # "gst"
  BY <1>3, <1>4 DEF Kept
<1>5. CASE p = "gst"
  <2>1. Kept(f)[g] = IF g \in Positive /\ f.shown[g] = 0 THEN Defaults[g] ELSE f.shown[g]
    BY <1>2, <1>5 DEF Kept, Normalized
  <2>2. g \in Positive => s["gst"][g] # 0
    BY DEF ServerOK
  <2> QED
    BY <1>3, <1>5, <2>1, <2>2
<1> QED
  BY <1>4, <1>5

\* A change of what a form shows keeps what agreed with the server.
LEMMA StoredAgrees ==
  ASSUME NEW s, ServerType(s), ServerOK(s), NEW f \in Forms, NEW ch, Agrees(f, s, ch),
         NEW r, RequestOK(r), r.op \in {"set", "def"}, r.to = f.is, SentOK(r, f, ch),
         NEW g \in DOMAIN f.shown \ (ch \cup {"GSTVersion"})
  PROVE  Stored(r)[g] = s[r.to][g] /\ Stored(r)[g] = Kept(f)[g]
<1>1. s[r.to][g] = Kept(f)[g] /\ f.shown \in Value[r.to] /\ r.to \in {"waf", "gst", "sto"}
  BY FormKinds DEF Agrees, Form
<1>2. CASE r.op = "def"
  <2>1. f.shown \in Config /\ GstFields \subseteq ch
    BY <1>1, <1>2, ValueIs DEF RequestOK, SentOK
  <2>2. g \in GstFields \cup {"GSTVersion"}
    BY <2>1, ConfigFields
  <2> QED
    BY <2>1, <2>2
<1>3. CASE r.op = "set"
  <2>1. r.body[g] = f.shown[g] /\ r.body \in Value[r.to]
    BY <1>3 DEF SentOK, RequestOK
  <2>2. CASE r.to = "waf"
    <3>1. f.shown \in [Lists -> Texts]
      BY <1>1, <2>2, ValueIs
    <3>2. g \in Lists /\ Stored(r)[g] = Stripped[f.shown[g]]
      BY <1>3, <2>1, <2>2, <3>1 DEF Stored
    <3>3. s["waf"][g] = f.shown[g]
      BY <1>1, <2>2 DEF Kept
    <3>4. Stripped[s["waf"][g]] = s["waf"][g]
      BY <3>2 DEF ServerOK
    <3> QED
      BY <1>1, <2>2, <3>2, <3>3, <3>4
  <2>3. CASE r.to = "gst"
    <3>1. DOMAIN f.shown = GstFields \cup {"GSTVersion"} /\ DOMAIN r.body = GstFields \cup {"GSTVersion"}
      BY <1>1, <2>1, <2>3, ValueIs, ConfigFields
    <3>2. Stored(r) = Normalized(r.body) /\ Kept(f) = Normalized(f.shown)
      BY <1>3, <2>3 DEF Stored, Kept
    <3>3. Stored(r)[g] = Kept(f)[g]
      BY <2>1, <3>1, <3>2 DEF Normalized
    <3> QED
      BY <1>1, <3>3
  <2>4. CASE r.to = "sto"
    <3>1. Stored(r) = r.body /\ Kept(f) = f.shown
      BY <1>3, <2>4 DEF Stored, Kept
    <3> QED
      BY <1>1, <2>1, <3>1
  <2> QED
    BY <1>1, <2>2, <2>3, <2>4
<1> QED
  BY <1>2, <1>3

-----------------------------------------------------------------------------
(* The steps of the user and the page keep the invariant.                   *)

LEMMA EditKeeps ==
  ASSUME IInv, Edited
  PROVE  IInv' /\ DirtyIsKnown'
<1>1. /\ TypeOK /\ FormIsShown /\ RequestsOK(reqs) /\ IsFiniteSet(DOMAIN reqs) /\ ServerType(srv) /\ ServerOK(srv)
      /\ RequestsKeep(reqs, srv) /\ OneFetch(reqs) /\ KnownOK(runtime, reqs, srv, missed)
  BY TypeParts DEF IInv, RequestsOK
<1>2. /\ form # None /\ form' \in Forms /\ form'.is = form.is /\ DOMAIN form'.shown = DOMAIN form.shown
      /\ form \in Forms /\ form' # None
      /\ \A g \in DOMAIN form.shown \ (chosen' \cup {"GSTVersion"}) : g \notin chosen /\ form'.shown[g] = form.shown[g]
  BY <1>1, FormsAssumption DEF Edited, TypeOK
<1>3. /\ UNCHANGED <<open, selectedTab, isProMode, gstAvailable, gstAsked, ready, srv, runtime, fetches, told, missed>>
      /\ wafDirty' = (form'.is = "waf" /\ dirty(form'))
      /\ actions' \in 0 .. MaxActions /\ chosen' \subseteq Fields
  BY DEF Edited
<1>4. DirtyIsKnown'
  BY <1>2, <1>3 DEF DirtyIsKnown
<1>5. RequestsOK(reqs')
  BY <1>1, SentIsOK DEF Edited, SentBy
<1>6. ShellTypeOK'
  BY <1>1, <1>3, TypeParts, ShellType DEF ShellTypeOK
<1>7. TypeOK'
  BY <1>1, <1>2, <1>3, <1>5, <1>6, TypeParts DEF TypeOK, RequestsOK, ServerType
<1>8. \A i \in DOMAIN reqs' : \/ i \in DOMAIN reqs /\ reqs'[i] = reqs[i]
                              \/ SentBy(reqs'[i], form) /\ form'.shown = form.shown
  <2>1. ASSUME NEW r, reqs' = Sent(reqs, r), SentBy(r, form), form'.shown = form.shown
        PROVE  \A i \in DOMAIN reqs' : \/ i \in DOMAIN reqs /\ reqs'[i] = reqs[i]
                                       \/ SentBy(reqs'[i], form) /\ form'.shown = form.shown
    <3>1. /\ DOMAIN reqs' = DOMAIN reqs \cup {Number(reqs)} /\ reqs'[Number(reqs)] = r
          /\ \A i \in DOMAIN reqs : reqs'[i] = reqs[i]
      <4> DEFINE s == Sent(reqs, r)
      <4>1. IsFiniteSet(DOMAIN reqs)
        BY <1>1
      <4>2. /\ DOMAIN s = DOMAIN reqs \cup {Number(reqs)} /\ s[Number(reqs)] = r
            /\ \A i \in DOMAIN reqs : s[i] = reqs[i]
        BY <4>1, SentIs
      <4>3. reqs' = s
        BY <2>1
      <4> HIDE DEF s
      <4> QED
        BY <4>2, <4>3
    <3> QED
      BY <2>1, <3>1
  <2> QED
    BY <2>1 DEF Edited
<1>9. FormIsShown'
  <2>1. \A i \in DOMAIN reqs' : reqs'[i].live => reqs'[i].to = form'.is
    BY <1>1, <1>2, <1>8 DEF FormIsShown, Is, SentBy
  <2> QED
    BY <1>1, <1>2, <1>3, <2>1 DEF FormIsShown, Is
<1>10. ServerOK(srv)'
  BY <1>1, <1>3 DEF ServerOK
\* A form that was told still shows what the server has, and what it sends is that.
<1>11. Agrees(form, srv, chosen) => Agrees(form', srv', chosen')
  <2> SUFFICES ASSUME Agrees(form, srv, chosen), NEW g \in DOMAIN form'.shown \ (chosen' \cup {"GSTVersion"})
               PROVE  srv'[form'.is][g] = Kept(form')[g]
    BY DEF Agrees
  <2>1. g \in DOMAIN form.shown \ (chosen \cup {"GSTVersion"}) /\ form'.shown[g] = form.shown[g]
    BY <1>2
  <2>2. srv[form.is][g] = Kept(form)[g]
    BY <2>1 DEF Agrees
  <2>3. Kept(form')[g] = Kept(form)[g]
    BY <1>2, <2>1, KeptIsByField
  <2> QED
    BY <1>2, <1>3, <2>2, <2>3
<1>12. told' => FilledOK(reqs', form', srv', chosen')
  <2> SUFFICES ASSUME told', NEW i \in DOMAIN reqs', reqs'[i].live
               PROVE  Agrees(form', srv', chosen') /\ SentOK(reqs'[i], form', chosen')
    BY <1>1, <1>2, <1>3, <1>11 DEF FilledOK, IInv
  <2>1. FilledOK(reqs, form, srv, chosen)
    BY <1>3 DEF IInv
  <2>2. ASSUME i \in DOMAIN reqs, reqs'[i] = reqs[i]
        PROVE  SentOK(reqs'[i], form', chosen')
    <3> DEFINE r == reqs[i]
    <3>1. SentOK(r, form, chosen) /\ RequestOK(r) /\ form.is = r.to
      BY <1>1, <2>1, <2>2 DEF FilledOK, FormIsShown, Is, RequestsOK
    <3>2. r.op = "set" => \A g \in DOMAIN form'.shown \ (chosen' \cup {"GSTVersion"}) : r.body[g] = form'.shown[g]
      BY <1>2, <3>1 DEF SentOK
    <3>3. r.op = "def" => GstFields \subseteq chosen'
      <4> SUFFICES ASSUME r.op = "def", NEW g \in GstFields, g \notin chosen'
                   PROVE  FALSE
        OBVIOUS
      <4>1. g \in DOMAIN form.shown /\ g # "GSTVersion"
        <5>1. form.is = "gst"
          BY <3>1 DEF RequestOK
        <5>2. DOMAIN form.shown = GstFields \cup {"GSTVersion"}
          BY <1>1, <1>2, <5>1, ShownFields
        <5> QED
          BY <5>2, FormsAssumption
      <4>2. g \in chosen /\ g \notin chosen
        BY <1>2, <3>1, <4>1 DEF SentOK
      <4> QED
        BY <4>2
    <3> QED
      BY <2>2, <3>2, <3>3 DEF SentOK
  <2>3. ASSUME SentBy(reqs'[i], form), form'.shown = form.shown
        PROVE  SentOK(reqs'[i], form', chosen')
    BY <2>3 DEF SentBy, SentOK
  <2> QED
    BY <1>8, <1>11, <2>1, <2>2, <2>3 DEF FilledOK
<1>13. ASSUME NEW r, reqs' = Sent(reqs, r), SentBy(r, form)
       PROVE  RequestsKeep(reqs', srv) /\ OneFetch(reqs') /\ KnownOK(runtime, reqs', srv, missed)
  <2>1. r.to = form.is /\ r.to \in Form /\ r.to # "page" /\ r.answer = Pending /\ RequestOK(r)
    BY <1>1, <1>2, <1>13, ShownFields DEF SentBy, Form
  <2>2. SaveOK(r, srv)
    <3>1. r.op = "def" => r.chosen = GstFields
      BY <1>13 DEF SentBy
    <3>2. ASSUME r.op = "set", ~r.behind
          PROVE  \A g \in DOMAIN srv[r.to] \ (r.chosen \cup {"GSTVersion"}) : Stored(r)[g] = srv[r.to][g]
      <4>1. told /\ r.chosen = chosen /\ SentOK(r, form, chosen)
        BY <1>13, <3>2 DEF SentBy, SentOK
      <4>2. Agrees(form, srv, chosen)
        BY <4>1 DEF IInv, FilledOK
      <4>3. DOMAIN srv[r.to] = DOMAIN form.shown
        BY <1>1, <1>2, <2>1, ShownFields
      <4> QED
        BY <1>1, <1>2, <2>1, <3>2, <4>1, <4>2, <4>3, StoredAgrees
    <3> QED
      BY <3>1, <3>2 DEF SaveOK
  <2> QED
    BY <1>1, <1>13, <2>1, <2>2, SentKeeps
<1>14. RequestsKeep(reqs', srv') /\ OneFetch(reqs') /\ KnownOK(runtime', reqs', srv', missed')
  <2>1. reqs' = reqs \/ \E r : reqs' = Sent(reqs, r) /\ SentBy(r, form)
    BY DEF Edited
  <2>2. RequestsKeep(reqs', srv) /\ OneFetch(reqs') /\ KnownOK(runtime, reqs', srv, missed)
    BY <1>1, <1>13, <2>1
  <2> QED
    BY <1>3, <2>2
<1> QED
  BY <1>4, <1>7, <1>9, <1>10, <1>12, <1>14 DEF IInv

\* What is left when a form goes is nobody's, and tells the page what it was about to.
LEMMA LeftKeeps ==
  ASSUME IInv
  PROVE  /\ RequestsOK(Left) /\ IsFiniteSet(DOMAIN Left) /\ \A i \in DOMAIN Left : ~Left[i].live
         /\ RequestsKeep(Left, srv) /\ OneFetch(Left) /\ KnownOK(runtime, Left, srv, missed)
<1>1. RequestsOK(reqs) /\ RequestsOK(Left) /\ RequestsKeep(reqs, srv) /\ OneFetch(reqs) /\ KnownOK(runtime, reqs, srv, missed)
  BY TypeParts, LeftIsOK DEF IInv
<1>2. DOMAIN Left = {j \in DOMAIN reqs : reqs[j].to = "page" \/ reqs[j].op # "get"}
  BY LeftIs
<1>3. \A i \in DOMAIN Left :
         /\ Left[i].to = reqs[i].to /\ Left[i].op = reqs[i].op /\ Left[i].body = reqs[i].body
         /\ Left[i].answer = reqs[i].answer /\ Left[i].chosen = reqs[i].chosen /\ Left[i].behind = reqs[i].behind
         /\ ~Left[i].live
  <2> TAKE i \in DOMAIN Left
  <2>1. RequestOK(reqs[i]) /\ Left[i] = [reqs[i] EXCEPT !.live = FALSE]
    BY <1>1, <1>2, LeftIs DEF RequestsOK
  <2> QED
    BY <2>1, LivesIsOK
<1>4. Telling(reqs) => Telling(Left)
  BY <1>2, <1>3 DEF Telling
<1>5. IsFiniteSet(DOMAIN Left)
  BY <1>1 DEF RequestsOK
<1> QED
  BY <1>1, <1>2, <1>3, <1>4, <1>5, FewerKeep

LEMMA NavigatedKeeps ==
  ASSUME IInv, Navigated
  PROVE  IInv'
<1>1. TypeOK /\ FormIsShown /\ RequestsOK(reqs)
  BY TypeParts DEF IInv
<1>2. /\ UNCHANGED <<srv, runtime, fetches, missed>>
      /\ ShellTypeOK' /\ ready' \in BOOLEAN /\ actions' \in 0 .. MaxActions
      /\ form' # None => open' /\ ready' /\ form'.is = FormOf(selectedTab')
      /\ form' = None /\ open' /\ ready' => FormOf(selectedTab') = None
      /\ gstAsked' => ~gstAvailable'
      /\ selectedTab' = tabGStreamer => gstAvailable'
  BY DEF Navigated
<1>3. ServerOK(srv)'
  BY <1>2 DEF IInv, ServerOK
<1>4. \/ UNCHANGED <<form, reqs, chosen, told>>
      \/ form' = None /\ reqs' = Left /\ chosen' = {} /\ told' = FALSE
      \/ \E p \in Form : /\ form' = Fresh(p) /\ reqs' = Sent(Left, Request(p, "get", None))
                         /\ chosen' = {} /\ told' = FALSE
  BY DEF Navigated, Remounted
<1>5. ASSUME form' \in Forms \cup {None}, RequestsOK(reqs'), chosen' \subseteq Fields, told' \in BOOLEAN,
             \A i \in DOMAIN reqs' : reqs'[i].live => form' # None /\ form'.is = reqs'[i].to
      PROVE  TypeOK' /\ FormIsShown'
  <2>1. TypeOK'
    BY <1>1, <1>2, <1>5, TypeParts DEF TypeOK, RequestsOK, ServerType
  <2> QED
    BY <1>2, <1>5, <2>1 DEF FormIsShown, Is
<1>6. CASE UNCHANGED <<form, reqs, chosen, told>>
  <2>1. TypeOK' /\ FormIsShown'
    BY <1>1, <1>5, <1>6, TypeParts DEF FormIsShown, Is
  <2> QED
    BY <1>2, <1>3, <1>6, <2>1 DEF IInv
<1>7. CASE form' = None /\ reqs' = Left /\ chosen' = {} /\ told' = FALSE
  <2>1. TypeOK' /\ FormIsShown'
    BY <1>5, <1>7, LeftKeeps
  <2> QED
    BY <1>2, <1>3, <1>7, <2>1, LeftKeeps DEF IInv
<1>8. ASSUME NEW p \in Form, form' = Fresh(p), reqs' = Sent(Left, Request(p, "get", None)), chosen' = {}, told' = FALSE
      PROVE  IInv'
  <2> DEFINE r == Request(p, "get", None)
             n == Number(Left)
  <2>1. r.to = p /\ r.op = "get" /\ r.live /\ r.answer = Pending
    BY DEF Request
  <2>2. RequestOK(r)
    BY <1>1, RequestIsOK, ChosenIs
  <2>3. /\ DOMAIN reqs' = DOMAIN Left \cup {n} /\ reqs'[n] = r
        /\ \A i \in DOMAIN Left : reqs'[i] = Left[i]
    <3> DEFINE s == Sent(Left, r)
    <3>1. IsFiniteSet(DOMAIN Left)
      BY LeftKeeps
    <3>2. /\ DOMAIN s = DOMAIN Left \cup {n} /\ s[n] = r
          /\ \A i \in DOMAIN Left : s[i] = Left[i]
      BY <3>1, SentIs
    <3>3. reqs' = s
      BY <1>8
    <3> HIDE DEF s, r, n
    <3> QED
      BY <3>2, <3>3
  <2> HIDE DEF r, n
  <2>4. RequestsOK(reqs')
    BY <1>8, <2>2, LeftKeeps, SentIsOK DEF r
  <2>5. form' \in Forms /\ form'.is = p /\ form' # None
    BY <1>8, FreshIsOK, FormsAssumption
  <2>6. TypeOK' /\ FormIsShown'
    BY <1>5, <1>8, <2>1, <2>3, <2>4, <2>5, LeftKeeps
  <2>7. SaveOK(r, srv) /\ (r.to # "page")
    BY <2>1 DEF SaveOK, Form
  <2>8. RequestsKeep(reqs', srv) /\ OneFetch(reqs') /\ KnownOK(runtime, reqs', srv, missed)
    BY <1>8, <2>1, <2>7, LeftKeeps, SentKeeps DEF r
  <2> QED
    BY <1>2, <1>3, <1>8, <2>6, <2>8 DEF IInv
<1> QED
  BY <1>4, <1>6, <1>7, <1>8

\* The page fetches what it knows of GStreamer.
LEMMA PageFetchKeeps ==
  ASSUME IInv, useGStreamerRuntime
  PROVE  IInv'
<1>1. TypeOK /\ FormIsShown /\ RequestsOK(reqs) /\ IsFiniteSet(DOMAIN reqs)
  BY TypeParts DEF IInv, RequestsOK
<1>2. /\ fetches < MaxFetches /\ fetches' = fetches + 1 /\ ~Fetching(reqs) /\ reqs' = Sent(reqs, PageFetch)
      /\ UNCHANGED <<open, selectedTab, isProMode, gstAvailable, gstAsked, wafDirty>>
      /\ UNCHANGED <<ready, form, srv, runtime, chosen, told, missed>>
  BY DEF useGStreamerRuntime, shell
<1>3. fetches' \in 0 .. MaxFetches /\ actions' \in 0 .. MaxActions
  <2>1. fetches \in 0 .. MaxFetches /\ MaxFetches \in Nat
    BY <1>1, FormsAssumption, TypeParts
  <2>2. actions' \in 0 .. MaxActions
    BY <1>1, UserIsBounded DEF useGStreamerRuntime
  <2> QED
    BY <1>2, <2>1, <2>2
<1>4. /\ DOMAIN reqs' = DOMAIN reqs \cup {Number(reqs)} /\ reqs'[Number(reqs)] = PageFetch
      /\ \A i \in DOMAIN reqs : reqs'[i] = reqs[i]
  <2> DEFINE s == Sent(reqs, PageFetch)
  <2>1. IsFiniteSet(DOMAIN reqs)
    BY <1>1
  <2>2. /\ DOMAIN s = DOMAIN reqs \cup {Number(reqs)} /\ s[Number(reqs)] = PageFetch
        /\ \A i \in DOMAIN reqs : s[i] = reqs[i]
    BY <2>1, SentIs
  <2>3. reqs' = s
    BY <1>2
  <2> HIDE DEF s
  <2> QED
    BY <2>2, <2>3
<1>5. RequestsOK(reqs')
  BY <1>1, <1>2, PageFetchIsOK, SentIsOK
<1>6. ShellTypeOK'
  BY <1>1, <1>2, TypeParts DEF ShellTypeOK
<1>7. TypeOK'
  BY <1>1, <1>2, <1>3, <1>5, <1>6, TypeParts DEF TypeOK, RequestsOK, ServerType
<1>8. FormIsShown'
  BY <1>1, <1>2, <1>4, PageFetchIsOK DEF FormIsShown, Is
<1>9. ServerOK(srv)'
  BY <1>2 DEF IInv, ServerOK
<1>10. SaveOK(PageFetch, srv) /\ PageFetch.answer = Pending
  BY PageFetchIsOK DEF SaveOK
<1>11. RequestsKeep(reqs', srv) /\ OneFetch(reqs') /\ KnownOK(runtime, reqs', srv, missed)
  BY <1>1, <1>2, <1>10, SentKeeps DEF IInv
<1>12. told' => FilledOK(reqs', form', srv', chosen')
  <2> SUFFICES ASSUME told'
               PROVE  FilledOK(reqs', form, srv, chosen)
    BY <1>2
  <2>1. FilledOK(reqs, form, srv, chosen)
    BY <1>2 DEF IInv
  <2> QED
    BY <1>4, <2>1, PageFetchIsOK DEF FilledOK
<1> QED
  BY <1>2, <1>7, <1>8, <1>9, <1>11, <1>12 DEF IInv

\* The page learns what the server transcodes.
LEMMA RuntimeArrivesKeeps ==
  ASSUME IInv, NEW i \in DOMAIN reqs, RuntimeArrives(i)
  PROVE  IInv'
<1> DEFINE r == reqs[i]
<1>1. TypeOK /\ FormIsShown /\ RequestsOK(reqs) /\ RequestOK(r)
  BY TypeParts DEF IInv, RequestsOK
<1>2. /\ r.to = "page" /\ r.answer # Pending /\ reqs' = Without(reqs, i)
      /\ UNCHANGED <<open, selectedTab, isProMode, gstAvailable, gstAsked, wafDirty>>
      /\ UNCHANGED <<ready, form, srv, chosen, told, actions, fetches>>
  BY DEF RuntimeArrives, shell
<1>3. \/ r.answer = Failed /\ UNCHANGED <<runtime, missed>>
      \/ r.answer = Refused /\ runtime' = [known |-> Unavailable, stale |-> FALSE] /\ UNCHANGED missed
      \/ /\ r.answer \notin {Failed, Refused}
         /\ runtime' = [known |-> r.answer, stale |-> FALSE]
         /\ missed' = (missed /\ r.behind)
  BY DEF RuntimeArrives
<1>4. DOMAIN reqs' = DOMAIN reqs \ {i} /\ \A j \in DOMAIN reqs' : reqs'[j] = reqs[j]
  BY <1>2, WithoutIs
<1>5. RequestsOK(reqs')
  BY <1>1, <1>2, WithoutIsOK
<1>6. ~r.live /\ r.op = "get" /\ (r.answer \notin {Failed, Refused} => Got(r) /\ r.answer \in Config)
  BY <1>1, <1>2, ValueIs DEF RequestOK, About, Got
<1>7. RequestsKeep(reqs', srv) /\ OneFetch(reqs') /\ (Telling(reqs) => Telling(reqs'))
      /\ \A rt, m : KnownOK(rt, reqs, srv, m) => KnownOK(rt, reqs', srv, m)
  <2>1. Telling(reqs) => Telling(reqs')
    BY <1>2, <1>4 DEF Telling
  <2>2. RequestsKeep(reqs, srv) /\ OneFetch(reqs)
    BY DEF IInv
  <2> HIDE DEF r
  <2> QED
    BY <1>4, <2>1, <2>2, FewerKeep
<1>8. AnswerOK(r, srv) /\ \A j \in DOMAIN reqs' : reqs'[j].to # "page"
  BY <1>2, <1>4 DEF IInv, RequestsKeep, OneFetch
<1>9. KnownOK(runtime, reqs, srv, missed)
  BY DEF IInv
<1>a. i \in DOMAIN reqs /\ r = reqs[i]
  OBVIOUS
<1> HIDE DEF r
<1>10. runtime' \in [known : Config \cup {None, Unavailable}, stale : BOOLEAN] /\ missed' \in BOOLEAN
  <2>1. runtime \in [known : Config \cup {None, Unavailable}, stale : BOOLEAN] /\ missed \in BOOLEAN
    BY <1>1, TypeParts
  <2>2. r.behind \in BOOLEAN
    BY <1>1 DEF RequestOK
  <2>3. missed' \in BOOLEAN
    BY <1>3, <2>1, <2>2
  <2>4. \A k \in Config \cup {None, Unavailable} :
           [known |-> k, stale |-> FALSE] \in [known : Config \cup {None, Unavailable}, stale : BOOLEAN]
    OBVIOUS
  <2> QED
    BY <1>3, <1>6, <2>1, <2>3, <2>4
<1>11. KnownOK(runtime', reqs', srv', missed')
  <2>1. CASE r.answer = Failed /\ UNCHANGED <<runtime, missed>>
    BY <1>2, <1>7, <1>9, <2>1
  <2>2. CASE r.answer = Refused /\ runtime' = [known |-> Unavailable, stale |-> FALSE] /\ UNCHANGED missed
    BY <1>8, <2>2 DEF KnownOK
  <2>3. CASE /\ r.answer \notin {Failed, Refused} /\ runtime' = [known |-> r.answer, stale |-> FALSE]
             /\ missed' = (missed /\ r.behind)
    <3> SUFFICES ASSUME ~missed', ~Telling(reqs')
                 PROVE  r.answer = Served(srv', "gst")
      BY <1>8, <2>3 DEF KnownOK
    <3>1. CASE ~missed
      BY <1>2, <1>6, <1>7, <1>9, <1>a, <2>3, <3>1 DEF KnownOK
    <3>2. CASE ~r.behind
      BY <1>2, <1>6, <1>8, <2>3, <3>2 DEF AnswerOK, About
    <3>3. missed \in BOOLEAN /\ r.behind \in BOOLEAN
      BY <1>1, TypeParts DEF RequestOK
    <3> QED
      BY <2>3, <3>1, <3>2, <3>3
  <2> QED
    BY <1>3, <2>1, <2>2, <2>3
<1>12. TypeOK'
  <2>1. ShellTypeOK'
    BY <1>1, <1>2, TypeParts DEF ShellTypeOK
  <2> QED
    BY <1>1, <1>2, <1>5, <1>10, <2>1, TypeParts DEF TypeOK, RequestsOK, ServerType
<1>13. FormIsShown'
  BY <1>1, <1>2, <1>4 DEF FormIsShown, Is
<1>14. ServerOK(srv)'
  BY <1>2 DEF IInv, ServerOK
<1>15. told' => FilledOK(reqs', form', srv', chosen')
  BY <1>2, <1>4 DEF IInv, FilledOK
<1> QED
  BY <1>2, <1>7, <1>11, <1>12, <1>13, <1>14, <1>15 DEF IInv

-----------------------------------------------------------------------------
(* The server's steps keep the invariant.                                   *)

\* A request gets its answer, a; when that changes what the server has, it puts others behind it.
Moved(i, a) ==
  /\ i \in DOMAIN reqs /\ reqs[i].answer = Pending /\ a # Pending
  /\ RequestsOK(reqs') /\ DOMAIN reqs' = DOMAIN reqs
  /\ \A j \in DOMAIN reqs :
        /\ reqs'[j].to = reqs[j].to /\ reqs'[j].op = reqs[j].op /\ reqs'[j].body = reqs[j].body
        /\ reqs'[j].live = reqs[j].live /\ reqs'[j].chosen = reqs[j].chosen
  /\ reqs'[i].answer = a
  /\ \A j \in DOMAIN reqs \ {i} :
        /\ reqs'[j].answer = reqs[j].answer /\ (reqs[j].behind => reqs'[j].behind)
        /\ srv' # srv /\ About(reqs[j]) = reqs[i].to /\ (reqs[j].answer # Pending \/ reqs[j].op = "set")
             => reqs'[j].behind
  /\ ServerType(srv') /\ ServerOK(srv')
  /\ srv' = srv \/ (/\ reqs[i].op \in {"set", "def"} /\ srv'[reqs[i].to] = Stored(reqs[i])
                    /\ \A p \in Form \ {reqs[i].to} : srv'[p] = srv[p])
  /\ a \notin {Failed, Refused}
       => a = Served(srv', About(reqs[i])) /\ (reqs[i].op = "set" => srv'[reqs[i].to] = Stored(reqs[i]))
  /\ told' \in BOOLEAN /\ (told' => told /\ (srv' # srv /\ Is(reqs[i].to) => reqs[i].live))
  /\ missed' \in BOOLEAN /\ (missed => missed')
  /\ srv' # srv /\ reqs[i].to = "gst" /\ a \in {Failed, Refused} => missed'
  /\ UNCHANGED <<open, selectedTab, isProMode, gstAvailable, gstAsked, wafDirty>>
  /\ UNCHANGED <<ready, form, runtime, actions, fetches, chosen>>

\* A request is about one of the forms, and gets one of its answers.
LEMMA AboutIs ==
  ASSUME NEW r, RequestOK(r)
  PROVE  /\ About(r) \in Form /\ (r.to # "page" => About(r) = r.to)
         /\ r.op \in {"set", "def"} => r.to \in Form /\ About(r) = r.to
BY DEF RequestOK, About, Form

LEMMA AnswerIs ==
  ASSUME NEW r, RequestOK(r), NEW a \in {Failed, Refused} \cup Value[About(r)], NEW b \in BOOLEAN,
         a = Refused => (r.to = "waf" /\ r.op = "set") \/ r.to = "page" \/ r.op = "reget",
         NEW q, q = [r EXCEPT !.answer = a, !.behind = b]
  PROVE  RequestOK(q)
<1>1. /\ q.to = r.to /\ q.op = r.op /\ q.body = r.body /\ q.live = r.live
      /\ q.chosen = r.chosen /\ q.answer = a /\ q.behind = b
  BY DEF RequestOK
<1>2. About(q) = About(r)
  BY <1>1 DEF About
<1>3. q \in [to : Form \cup {"page"}, op : {"get", "set", "def", "reget"},
             body : {None} \cup Value.waf \cup Value.gst \cup Value.sto, live : BOOLEAN,
             answer : {Pending, Failed, Refused} \cup Value[About(r)],
             chosen : SUBSET Fields, behind : BOOLEAN]
  BY DEF RequestOK
<1> QED
  BY <1>1, <1>2, <1>3 DEF RequestOK

\* What the server has after it has stored something.
LEMMA ChangedServer ==
  ASSUME NEW s, ServerType(s), ServerOK(s), NEW r, RequestOK(r), r.op \in {"set", "def"},
         NEW t, t = [s EXCEPT ![r.to] = Stored(r)]
  PROVE  ServerType(t) /\ ServerOK(t)
<1> DEFINE p == r.to
<1>1. p \in {"waf", "gst", "sto"} /\ Stored(r) \in Value[p]
  BY StoredIs DEF Form
<1>2. DOMAIN s = {"waf", "gst", "sto", "readOnly"}
  BY DEF ServerType
<1>3. t[p] = Stored(r) /\ \A q \in Form \ {p} : t[q] = s[q]
  BY <1>1, <1>2 DEF Form
<1>4. /\ p = "waf" => \A l \in Lists : Stripped[Stored(r)[l]] = Stored(r)[l]
      /\ p = "gst" => Stored(r)["GSTVersion"] >= GST_MIN_VERSION /\ \A g \in Positive : Stored(r)[g] # 0
  BY StoredIs
<1>5. t \in [waf : Value.waf, gst : Value.gst, sto : Value.sto, readOnly : BOOLEAN]
  BY <1>1, <1>2 DEF ServerType
<1> HIDE DEF p
<1>6. ServerType(t)
  BY <1>1, <1>3, <1>4, <1>5 DEF ServerType, Form
<1>7. ServerOK(t)
  BY <1>1, <1>3, <1>4 DEF ServerOK, Form
<1> QED
  BY <1>6, <1>7

LEMMA LoseMoves ==
  ASSUME IInv, NEW i \in DOMAIN reqs, Lose(i)
  PROVE  \E a : Moved(i, a)
<1> DEFINE r == reqs[i]
<1>1. /\ RequestsOK(reqs) /\ RequestOK(r) /\ ServerType(srv) /\ ServerOK(srv)
      /\ told \in BOOLEAN /\ missed \in BOOLEAN
  BY TypeParts DEF IInv, RequestsOK
<1>2. PICK a \in (IF r.to = "page" \/ r.op = "reget" THEN {Failed, Refused} ELSE {Failed}) :
        reqs' = [reqs EXCEPT ![i].answer = a]
  BY DEF Lose
<1>3. /\ r.answer = Pending /\ UNCHANGED <<srv, told, missed>>
      /\ UNCHANGED <<open, selectedTab, isProMode, gstAvailable, gstAsked, wafDirty>>
      /\ UNCHANGED <<ready, form, runtime, actions, fetches, chosen>>
  BY DEF Lose, shell
<1>4. a \in {Failed, Refused} /\ a # Pending /\ (a = Refused => r.to = "page" \/ r.op = "reget")
  BY AnswersAreApart
<1>5. DOMAIN reqs' = DOMAIN reqs /\ (\A j \in DOMAIN reqs \ {i} : reqs'[j] = reqs[j]) /\ reqs'[i] = [r EXCEPT !.answer = a]
  BY <1>2
<1>6. reqs'[i] = [r EXCEPT !.answer = a, !.behind = r.behind] /\ r.behind \in BOOLEAN
  BY <1>1, <1>5 DEF RequestOK
<1>7. a \in {Failed, Refused} \cup Value[About(r)]
      /\ (a = Refused => (r.to = "waf" /\ r.op = "set") \/ r.to = "page" \/ r.op = "reget")
  BY <1>4
<1>8. /\ RequestOK(reqs'[i]) /\ reqs'[i].to = r.to /\ reqs'[i].op = r.op /\ reqs'[i].body = r.body
      /\ reqs'[i].live = r.live /\ reqs'[i].chosen = r.chosen /\ reqs'[i].answer = a
  <2> DEFINE q == [r EXCEPT !.answer = a, !.behind = r.behind]
  <2>1. q = [r EXCEPT !.answer = a, !.behind = r.behind] /\ reqs'[i] = q
    BY <1>6
  <2>2. RequestOK(r)
    BY <1>1
  <2>3. r.behind \in BOOLEAN
    BY <1>6
  <2>4. /\ q.to = r.to /\ q.op = r.op /\ q.body = r.body /\ q.live = r.live
        /\ q.chosen = r.chosen /\ q.answer = a
    BY <2>2 DEF RequestOK
  <2> HIDE DEF q, r
  <2>5. RequestOK(q)
    BY <1>7, <2>1, <2>2, <2>3, AnswerIs
  <2> QED
    BY <2>1, <2>4, <2>5
<1>9. RequestsOK(reqs')
  BY <1>1, <1>5, <1>8 DEF RequestsOK
<1>10. \A j \in DOMAIN reqs \ {i} : reqs'[j].answer = reqs[j].answer /\ (reqs[j].behind => reqs'[j].behind)
  BY <1>5
<1>11. \A j \in DOMAIN reqs :
         /\ reqs'[j].to = reqs[j].to /\ reqs'[j].op = reqs[j].op /\ reqs'[j].body = reqs[j].body
         /\ reqs'[j].live = reqs[j].live /\ reqs'[j].chosen = reqs[j].chosen
  BY <1>5, <1>8
<1>12. Moved(i, a)
  BY <1>1, <1>3, <1>4, <1>5, <1>8, <1>9, <1>10, <1>11 DEF Moved
<1> QED
  BY <1>12

LEMMA HandleMoves ==
  ASSUME IInv, NEW i \in DOMAIN reqs, Handle(i)
  PROVE  \E a : Moved(i, a)
<1> DEFINE r == reqs[i]
           p == About(r)
           change == r.op \in {"set", "def"}
           refused == change /\ srv.readOnly
<1>1. /\ RequestsOK(reqs) /\ RequestOK(r) /\ ServerType(srv) /\ ServerOK(srv)
      /\ told \in BOOLEAN /\ missed \in BOOLEAN /\ srv.readOnly \in BOOLEAN
  BY TypeParts DEF IInv, RequestsOK, ServerType
<1>2. /\ r.answer = Pending
      /\ srv' = IF change /\ ~refused THEN [srv EXCEPT ![p] = Stored(r)] ELSE srv
      /\ told' = (told /\ (srv' # srv /\ Is(p) => r.live))
      /\ UNCHANGED <<open, selectedTab, isProMode, gstAvailable, gstAsked, wafDirty>>
      /\ UNCHANGED <<ready, form, runtime, actions, fetches, chosen>>
  BY DEF Handle, shell
<1>3. PICK arrives \in BOOLEAN :
        /\ Overtake(i, p, CASE ~arrives -> Failed
                            [] arrives /\ refused -> IF p = "waf" THEN Refused ELSE Failed
                            [] OTHER -> Served(srv', p))
        /\ missed' = (missed \/ (srv' # srv /\ p = "gst" /\ ~arrives))
  BY DEF Handle
<1>4. p \in Form /\ (change => r.to = p)
  BY <1>1, AboutIs
<1>5. /\ ServerType(srv') /\ ServerOK(srv')
      /\ srv' = srv \/ (change /\ srv'[p] = Stored(r) /\ \A q \in Form \ {p} : srv'[q] = srv[q])
      /\ change /\ ~refused => srv'[p] = Stored(r)
  <2>1. CASE change /\ ~refused
    <3> DEFINE t == [srv EXCEPT ![r.to] = Stored(r)]
    <3>1. srv' = t
      BY <1>2, <1>4, <2>1
    <3>2. ServerType(srv) /\ ServerOK(srv) /\ RequestOK(r) /\ r.op \in {"set", "def"}
      BY <1>1, <2>1
    <3>3. t[r.to] = Stored(r) /\ \A q \in Form \ {r.to} : t[q] = srv[q]
      <4>1. r.to \in DOMAIN srv
        BY <1>1, <1>4, <2>1 DEF ServerType, Form
      <4> QED
        BY <4>1
    <3>4. t = [srv EXCEPT ![r.to] = Stored(r)]
      OBVIOUS
    <3>5. ServerType(t) /\ ServerOK(t)
      <4> HIDE DEF r, t
      <4> QED
        BY <3>2, <3>4, ChangedServer
    <3> HIDE DEF t
    <3> QED
      BY <1>4, <2>1, <3>1, <3>3, <3>5
  <2>2. CASE ~(change /\ ~refused)
    BY <1>1, <1>2, <2>2
  <2> QED
    BY <2>1, <2>2
<1>6. PICK a : /\ a = CASE ~arrives -> Failed
                        [] arrives /\ refused -> IF p = "waf" THEN Refused ELSE Failed
                        [] OTHER -> Served(srv', p)
               /\ Overtake(i, p, a)
  BY <1>3
<1>7. /\ a \in {Failed, Refused} \/ (arrives /\ ~refused /\ a = Served(srv', p))
      /\ a = Refused => a = Served(srv', p) \/ (refused /\ p = "waf")
      /\ a = Failed => a = Served(srv', p) \/ ~arrives \/ refused
  BY <1>6, AnswersAreApart
<1>8. Served(srv', p) \in Value[p] /\ Served(srv', p) \notin {Pending, Failed, Refused}
  <2>1. Served(srv', p) \in Value[p]
    BY <1>4, <1>5, ServedIs
  <2> QED
    BY <1>4, <2>1, AnswersAreApart DEF Form
<1>9. a # Pending /\ a \in {Failed, Refused} \cup Value[p]
      /\ (a = Refused => r.to = "waf" /\ r.op = "set")
  <2>1. a # Pending /\ a \in {Failed, Refused} \cup Value[p]
    BY <1>7, <1>8, AnswersAreApart
  <2>2. a = Refused => refused /\ p = "waf"
    BY <1>7, <1>8
  <2>3. r.op = "def" => r.to = "gst"
    BY <1>1 DEF RequestOK
  <2> QED
    BY <1>4, <2>1, <2>2, <2>3
<1>10. a \notin {Failed, Refused} => a = Served(srv', p) /\ (r.op = "set" => srv'[p] = Stored(r))
  BY <1>5, <1>7
<1>11. srv' # srv /\ a \in {Failed, Refused} => ~arrives
  <2>1. srv' # srv => ~refused
    BY <1>2
  <2>2. a \in {Failed, Refused} => ~arrives \/ refused
    BY <1>7, <1>8
  <2> QED
    BY <2>1, <2>2
<1>12. reqs' = [j \in DOMAIN reqs |->
                  IF j = i THEN [reqs[j] EXCEPT !.answer = a, !.behind = FALSE]
                  ELSE IF srv' # srv /\ About(reqs[j]) = p /\ (reqs[j].answer # Pending \/ reqs[j].op = "set")
                       THEN [reqs[j] EXCEPT !.behind = TRUE]
                       ELSE reqs[j]]
  BY <1>6 DEF Overtake
<1>13. DOMAIN reqs' = DOMAIN reqs /\ reqs'[i] = [r EXCEPT !.answer = a, !.behind = FALSE]
  BY <1>12
<1>14. /\ RequestOK(reqs'[i]) /\ reqs'[i].to = r.to /\ reqs'[i].op = r.op /\ reqs'[i].body = r.body
       /\ reqs'[i].live = r.live /\ reqs'[i].chosen = r.chosen /\ reqs'[i].answer = a
  <2>1. /\ a \in {Failed, Refused} \cup Value[About(r)] /\ FALSE \in BOOLEAN
        /\ a = Refused => (r.to = "waf" /\ r.op = "set") \/ r.to = "page" \/ r.op = "reget"
    BY <1>9
  <2> DEFINE q == [r EXCEPT !.answer = a, !.behind = FALSE]
  <2>2. q = [r EXCEPT !.answer = a, !.behind = FALSE] /\ reqs'[i] = q
    BY <1>13
  <2>3. RequestOK(r)
    BY <1>1
  <2>4. /\ q.to = r.to /\ q.op = r.op /\ q.body = r.body /\ q.live = r.live
        /\ q.chosen = r.chosen /\ q.answer = a
    BY <2>3 DEF RequestOK
  <2> HIDE DEF q, r
  <2>5. RequestOK(q)
    BY <2>1, <2>2, <2>3, AnswerIs
  <2> QED
    BY <2>2, <2>4, <2>5
<1>15. ASSUME NEW j \in DOMAIN reqs \ {i}
       PROVE  /\ RequestOK(reqs'[j]) /\ reqs'[j].answer = reqs[j].answer /\ (reqs[j].behind => reqs'[j].behind)
              /\ reqs'[j].to = reqs[j].to /\ reqs'[j].op = reqs[j].op /\ reqs'[j].body = reqs[j].body
              /\ reqs'[j].live = reqs[j].live /\ reqs'[j].chosen = reqs[j].chosen
              /\ srv' # srv /\ About(reqs[j]) = p /\ (reqs[j].answer # Pending \/ reqs[j].op = "set")
                   => reqs'[j].behind
  <2>1. RequestOK(reqs[j])
    BY <1>1 DEF RequestsOK
  <2>2. reqs'[j] = IF srv' # srv /\ About(reqs[j]) = p /\ (reqs[j].answer # Pending \/ reqs[j].op = "set")
                   THEN [reqs[j] EXCEPT !.behind = TRUE] ELSE reqs[j]
    BY <1>12
  <2>3. LET q == [reqs[j] EXCEPT !.behind = TRUE]
        IN  /\ RequestOK(q) /\ q.answer = reqs[j].answer /\ q.behind
            /\ q.to = reqs[j].to /\ q.op = reqs[j].op /\ q.body = reqs[j].body
            /\ q.live = reqs[j].live /\ q.chosen = reqs[j].chosen
    BY <2>1 DEF RequestOK, About
  <2> QED
    BY <2>1, <2>2, <2>3
<1>16. RequestsOK(reqs')
  <2>1. \A j \in DOMAIN reqs' : RequestOK(reqs'[j])
    BY <1>13, <1>14, <1>15
  <2> QED
    BY <1>1, <1>13, <2>1 DEF RequestsOK
<1>17. told' \in BOOLEAN /\ missed' \in BOOLEAN /\ (missed => missed')
       /\ (told' => told /\ (srv' # srv /\ Is(p) => r.live))
  <2>1. r.live \in BOOLEAN
    BY <1>1 DEF RequestOK
  <2> QED
    BY <1>1, <1>2, <1>3, <2>1
<1>18. srv' # srv => r.to = p /\ change
  BY <1>2, <1>4
<1>19. srv' # srv /\ r.to = "gst" /\ a \in {Failed, Refused} => missed'
  BY <1>3, <1>11, <1>18
<1>20. r.op = "set" => r.to = p
  BY <1>4
<1> HIDE DEF p
<1>21. Moved(i, a)
  <2>1. /\ \A j \in DOMAIN reqs :
              /\ reqs'[j].to = reqs[j].to /\ reqs'[j].op = reqs[j].op /\ reqs'[j].body = reqs[j].body
              /\ reqs'[j].live = reqs[j].live /\ reqs'[j].chosen = reqs[j].chosen
        /\ \A j \in DOMAIN reqs \ {i} :
              /\ reqs'[j].answer = reqs[j].answer /\ (reqs[j].behind => reqs'[j].behind)
              /\ srv' # srv /\ About(reqs[j]) = reqs[i].to /\ (reqs[j].answer # Pending \/ reqs[j].op = "set")
                   => reqs'[j].behind
    BY <1>14, <1>15, <1>18
  <2>2. srv' = srv \/ (/\ r.op \in {"set", "def"} /\ srv'[r.to] = Stored(r)
                       /\ \A q \in Form \ {r.to} : srv'[q] = srv[q])
    BY <1>5, <1>18
  <2>3. a \notin {Failed, Refused} => a = Served(srv', About(r)) /\ (r.op = "set" => srv'[r.to] = Stored(r))
    BY <1>10, <1>20 DEF p
  <2>4. told' => told /\ (srv' # srv /\ Is(r.to) => r.live)
    BY <1>17, <1>18
  <2> QED
    BY <1>2, <1>5, <1>9, <1>13, <1>14, <1>16, <1>17, <1>19, <2>1, <2>2, <2>3, <2>4 DEF Moved
<1> QED
  BY <1>21

LEMMA MovedKeeps ==
  ASSUME IInv, NEW i, NEW a, Moved(i, a)
  PROVE  IInv'
<1> DEFINE r == reqs[i]
<1>1. /\ TypeOK /\ FormIsShown /\ RequestsOK(reqs) /\ i \in DOMAIN reqs /\ RequestOK(r)
      /\ ServerType(srv) /\ ServerOK(srv)
      /\ RequestsKeep(reqs, srv) /\ OneFetch(reqs) /\ KnownOK(runtime, reqs, srv, missed)
  BY TypeParts DEF IInv, RequestsOK, Moved
<1>2. /\ RequestsOK(reqs') /\ DOMAIN reqs' = DOMAIN reqs /\ reqs'[i].answer = a /\ a # Pending /\ r.answer = Pending
      /\ ServerType(srv') /\ ServerOK(srv')
      /\ UNCHANGED <<open, selectedTab, isProMode, gstAvailable, gstAsked, wafDirty>>
      /\ UNCHANGED <<ready, form, runtime, actions, fetches, chosen>>
      /\ told' \in BOOLEAN /\ missed' \in BOOLEAN /\ (missed => missed')
      /\ (srv' # srv /\ r.to = "gst" /\ a \in {Failed, Refused} => missed')
  BY DEF Moved
<1>3. \A j \in DOMAIN reqs :
        /\ reqs'[j].to = reqs[j].to /\ reqs'[j].op = reqs[j].op /\ reqs'[j].body = reqs[j].body
        /\ reqs'[j].live = reqs[j].live /\ reqs'[j].chosen = reqs[j].chosen
        /\ RequestOK(reqs[j]) /\ RequestOK(reqs'[j])
        /\ About(reqs'[j]) = About(reqs[j]) /\ Stored(reqs'[j]) = Stored(reqs[j])
  BY <1>1, <1>2 DEF Moved, RequestsOK, About, Stored
<1>4. \A j \in DOMAIN reqs \ {i} :
        /\ reqs'[j].answer = reqs[j].answer /\ (reqs[j].behind => reqs'[j].behind)
        /\ srv' # srv /\ About(reqs[j]) = r.to /\ (reqs[j].answer # Pending \/ reqs[j].op = "set")
             => reqs'[j].behind
  BY DEF Moved
<1>5. srv' = srv \/ (/\ r.op \in {"set", "def"} /\ srv'[r.to] = Stored(r)
                     /\ \A p \in Form \ {r.to} : srv'[p] = srv[p])
  BY DEF Moved
<1>6. a \notin {Failed, Refused} => a = Served(srv', About(r)) /\ (r.op = "set" => srv'[r.to] = Stored(r))
  BY DEF Moved
<1>7. TypeOK'
  <2>1. ShellTypeOK'
    BY <1>1, <1>2, TypeParts DEF ShellTypeOK
  <2> QED
    BY <1>1, <1>2, <2>1, TypeParts DEF TypeOK, RequestsOK, ServerType
<1>8. FormIsShown'
  BY <1>1, <1>2, <1>3 DEF FormIsShown, Is
\* What is served for another form is as before.
<1>9. \A p \in Form : srv' = srv \/ p # r.to => srv'[p] = srv[p] /\ Served(srv', p) = Served(srv, p)
  <2> TAKE p \in Form
  <2>1. srv' = srv \/ p # r.to => srv'[p] = srv[p]
    BY <1>5
  <2> QED
    BY <2>1 DEF Served
<1>10. RequestsKeep(reqs', srv')
  <2> SUFFICES ASSUME NEW j \in DOMAIN reqs
               PROVE  AnswerOK(reqs'[j], srv') /\ SaveOK(reqs'[j], srv')
    BY <1>2 DEF RequestsKeep
  <2> DEFINE q == reqs[j]
             t == reqs'[j]
  <2>1. /\ t.to = q.to /\ t.op = q.op /\ t.body = q.body /\ t.chosen = q.chosen
        /\ About(t) = About(q) /\ Stored(t) = Stored(q) /\ RequestOK(q)
        /\ AnswerOK(q, srv) /\ SaveOK(q, srv)
    BY <1>1, <1>3 DEF RequestsKeep
  <2>2. About(q) \in Form /\ (q.op = "set" => q.to \in Form /\ About(q) = q.to)
    BY <2>1, AboutIs
  <2>3. CASE j = i
    <3>1. AnswerOK(t, srv')
      BY <1>2, <1>6, <2>1, <2>3 DEF AnswerOK, Got
    <3>2. SaveOK(t, srv')
      BY <1>2, <2>1, <2>3 DEF SaveOK
    <3> QED
      BY <3>1, <3>2
  <2>4. CASE j # i
    <3>1. /\ t.answer = q.answer /\ (q.behind => t.behind)
          /\ srv' # srv /\ About(q) = r.to /\ (q.answer # Pending \/ q.op = "set") => t.behind
      BY <1>4, <2>4
    <3>2. srv' = srv \/ About(q) # r.to => /\ srv'[About(q)] = srv[About(q)]
                                           /\ Served(srv', About(q)) = Served(srv, About(q))
      BY <1>9, <2>2
    <3> HIDE DEF q, t, r
    <3>3. AnswerOK(t, srv')
      BY <2>1, <2>2, <3>1, <3>2 DEF AnswerOK, Got
    <3>4. SaveOK(t, srv')
      BY <2>1, <2>2, <3>1, <3>2 DEF SaveOK
    <3> QED
      BY <3>3, <3>4 DEF t
  <2> QED
    BY <2>3, <2>4
<1>11. OneFetch(reqs')
  BY <1>1, <1>2, <1>3 DEF OneFetch
<1>12. told' => FilledOK(reqs', form', srv', chosen')
  <2> SUFFICES ASSUME told'
               PROVE  FilledOK(reqs', form, srv', chosen)
    BY <1>2
  <2>1. told /\ (srv' # srv /\ Is(r.to) => r.live)
    BY DEF Moved
  <2>2. FilledOK(reqs, form, srv, chosen)
    BY <2>1 DEF IInv
  <2>3. \A j \in DOMAIN reqs' : reqs'[j].live => SentOK(reqs'[j], form, chosen)
    BY <1>2, <1>3, <2>2 DEF FilledOK, SentOK
  <2>4. form # None /\ form \in Forms /\ Agrees(form, srv, chosen) /\ form.is \in Form
    BY <1>1, <2>2, FormKinds DEF FilledOK, TypeOK
  <2>5. CASE srv' = srv \/ form.is # r.to
    <3>1. srv'[form.is] = srv[form.is]
      BY <1>9, <2>4, <2>5
    <3>2. Agrees(form, srv', chosen)
      BY <2>4, <3>1 DEF Agrees
    <3> QED
      BY <2>3, <2>4, <3>2 DEF FilledOK
  <2>6. CASE srv' # srv /\ form.is = r.to
    <3>1. r.live
      BY <2>1, <2>4, <2>6 DEF Is
    <3>2. SentOK(r, form, chosen) /\ r.op \in {"set", "def"} /\ srv'[r.to] = Stored(r)
      BY <1>1, <1>5, <2>2, <2>6, <3>1 DEF FilledOK
    <3> HIDE DEF r
    <3>3. \A g \in DOMAIN form.shown \ (chosen \cup {"GSTVersion"}) : Stored(r)[g] = Kept(form)[g]
      BY <1>1, <2>4, <2>6, <3>2, StoredAgrees
    <3>4. Agrees(form, srv', chosen)
      BY <2>6, <3>2, <3>3 DEF Agrees
    <3> QED
      BY <2>3, <2>4, <3>4 DEF FilledOK
  <2> QED
    BY <2>5, <2>6
<1>13. KnownOK(runtime', reqs', srv', missed')
  <2> SUFFICES ASSUME ~missed', ~Telling(reqs')
               PROVE  /\ runtime.known \notin {None, Unavailable} /\ ~runtime.stale => runtime.known = Served(srv', "gst")
                      /\ \A j \in DOMAIN reqs' : reqs'[j].to = "page" /\ Got(reqs'[j])
                           => reqs'[j].answer = Served(srv', "gst")
    BY <1>2 DEF KnownOK
  <2>1. \A j \in DOMAIN reqs : Got(reqs[j]) => reqs'[j].answer = reqs[j].answer
    BY <1>2, <1>4 DEF Got
  <2>2. Telling(reqs) => Telling(reqs')
    BY <1>2, <1>3, <2>1 DEF Telling, Got
  <2>3. ~missed /\ ~Telling(reqs)
    BY <1>2, <2>2
  <2>4. srv' = srv \/ r.to # "gst"
    <3> SUFFICES ASSUME srv' # srv, r.to = "gst"
                 PROVE  FALSE
      OBVIOUS
    <3>1. a \notin {Pending, Failed, Refused} /\ r.op \in {"set", "def"}
      BY <1>2, <1>5
    <3>2. Telling(reqs')
      BY <1>1, <1>2, <1>3, <3>1 DEF Telling
    <3> QED
      BY <3>2
  <2>5. Served(srv', "gst") = Served(srv, "gst")
    BY <1>9, <2>4 DEF Form
  <2>6. ASSUME NEW j \in DOMAIN reqs', reqs'[j].to = "page", Got(reqs'[j])
        PROVE  reqs'[j].answer = Served(srv', "gst")
    <3>1. CASE j = i
      BY <1>2, <1>3, <1>6, <2>6, <3>1 DEF Got, About
    <3>2. CASE j # i
      BY <1>1, <1>2, <1>3, <1>4, <2>3, <2>5, <2>6, <3>2 DEF KnownOK, Got
    <3> QED
      BY <3>1, <3>2
  <2> QED
    BY <1>1, <2>3, <2>5, <2>6 DEF KnownOK
<1> QED
  BY <1>2, <1>7, <1>8, <1>10, <1>11, <1>12, <1>13 DEF IInv

-----------------------------------------------------------------------------
(* A form gets its answer.                                                  *)

LEMMA AnsweredIs ==
  ASSUME IInv, NEW i \in DOMAIN reqs, Answered(i)
  PROVE  LET r == reqs[i]
             others == Without(reqs, i)
         IN  /\ RequestOK(r) /\ r.to \in Form /\ r.answer # Pending /\ form' = FormAfter(r)
             /\ wafDirty' = (form' # None /\ form'.is = "waf" /\ dirty(form'))
             /\ UNCHANGED <<open, selectedTab, isProMode, gstAvailable, gstAsked, ready, srv, actions, fetches>>
             /\ \/ r.live /\ Ok(r) /\ r.op # "def" /\ Filled(r, form', others)
                \/ ~(r.live /\ Ok(r) /\ r.op # "def") /\ UNCHANGED <<chosen, told>>
             /\ \/ /\ Ok(r) /\ r.op = "def" /\ UNCHANGED <<runtime, missed>>
                   /\ reqs' = Sent(others, [Request("gst", "reget", None) EXCEPT !.live = r.live])
                \/ r.to = "gst" /\ r.op \in {"set", "reget"} /\ invalidateQueries(others)
                \/ r.op = "reget" /\ r.answer = Failed /\ reqs' = others /\ missed' = TRUE /\ runtime' = runtime
                \/ /\ r.op # "reget" /\ ~(Ok(r) /\ r.to = "gst" /\ r.op \in {"set", "def"})
                   /\ reqs' = others /\ UNCHANGED <<runtime, missed>>
<1> DEFINE r == reqs[i]
           others == Without(reqs, i)
<1>1. RequestOK(r)
  BY DEF IInv, TypeOK
<1>2. /\ r.to \in Form /\ r.answer # Pending /\ form' = FormAfter(r)
      /\ wafDirty' = (form' # None /\ form'.is = "waf" /\ dirty(form'))
      /\ UNCHANGED <<open, selectedTab, isProMode, gstAvailable, gstAsked, ready, srv, actions, fetches>>
      /\ \/ r.live /\ Ok(r) /\ r.op # "def" /\ Filled(r, form', others)
         \/ ~(r.live /\ Ok(r) /\ r.op # "def") /\ UNCHANGED <<chosen, told>>
  BY DEF Answered, Ok
<1>3. \/ /\ Ok(r) /\ r.op = "def" /\ UNCHANGED <<runtime, missed>>
         /\ reqs' = Sent(others, [Request("gst", "reget", None) EXCEPT !.live = r.live])
      \/ r.to = "gst" /\ r.op \in {"set", "reget"} /\ invalidateQueries(others)
      \/ r.op = "reget" /\ r.answer = Failed /\ reqs' = others /\ missed' = TRUE /\ runtime' = runtime
      \/ /\ r.op # "reget" /\ ~(Ok(r) /\ r.to = "gst" /\ r.op \in {"set", "def"})
         /\ reqs' = others /\ UNCHANGED <<runtime, missed>>
  <2>1. CASE Ok(r) /\ r.op = "def"
    BY <2>1 DEF Answered, Ok
  <2>2. CASE Ok(r) /\ r.to = "gst" /\ r.op = "set"
    BY <2>2 DEF Answered, Ok
  <2>3. CASE r.op = "reget" /\ r.answer # Failed
    BY <1>1, <2>3 DEF Answered, Ok, RequestOK
  <2>4. CASE r.op = "reget" /\ r.answer = Failed
    BY <2>4 DEF Answered, Ok
  <2>5. CASE ~(Ok(r) /\ r.op = "def") /\ ~(Ok(r) /\ r.to = "gst" /\ r.op = "set") /\ r.op # "reget"
    BY <2>5 DEF Answered, Ok
  <2> QED
    BY <2>1, <2>2, <2>3, <2>4, <2>5
<1> QED
  BY <1>1, <1>2, <1>3

\* A form that is filled by an answer, or has saved, shows what the server has.
LEMMA FilledAgrees ==
  ASSUME IInv, NEW i \in DOMAIN reqs, Answered(i), reqs[i].live, Ok(reqs[i]), reqs[i].op # "def",
         Filled(reqs[i], form', Without(reqs, i)), told'
  PROVE  form' # None /\ Agrees(form', srv, chosen')
<1> DEFINE r == reqs[i]
<1>1. RequestOK(r) /\ r.to \in Form /\ r.answer # Pending /\ form' = FormAfter(r) /\ Ok(r) /\ r.live
  BY AnsweredIs
<1>2. TypeOK /\ FormIsShown /\ ServerType(srv) /\ ServerOK(srv)
  BY TypeParts DEF IInv
<1>3. ~r.behind /\ AnswerOK(r, srv) /\ Got(r) /\ About(r) = r.to
  BY <1>1 DEF Filled, IInv, RequestsKeep, Got, Ok, About, Form
<1>4. /\ form # None /\ form.is = r.to /\ form \in Forms
      /\ form' \in Forms /\ form'.is = form.is /\ form'.shown = ShownAfter(form, r) /\ form' # None
  BY <1>1, <1>2, FormAfterIs, FormsAssumption
<1>5. r.op \in {"get", "set", "reget"} /\ (r.op = "reget" => r.to = "gst")
      /\ (r.op = "set" => r.body \in Value[r.to])
  BY <1>1 DEF RequestOK
<1>6. r.to = "sto" /\ r.op = "set" => told /\ SentOK(r, form, chosen) /\ chosen' = {g \in chosen : form'.shown[g] # r.body[g]}
  BY <1>1 DEF Filled, IInv, FilledOK
<1> HIDE DEF r
<1>7. CASE r.op \in {"get", "reget"} \/ (r.to = "waf" /\ r.op = "set")
  <2>1. form'.shown = r.answer
    BY <1>4, <1>7 DEF ShownAfter
  <2>2. r.answer = Served(srv, form'.is)
    BY <1>3, <1>4 DEF AnswerOK
  <2> QED
    BY <1>2, <1>4, <2>1, <2>2, ServedAgrees
<1>8. CASE r.op = "set" /\ r.to = "gst"
  <2>1. form'.shown = r.body
    BY <1>4, <1>8 DEF ShownAfter
  <2>2. srv["gst"] = Stored(r)
    BY <1>3, <1>8 DEF AnswerOK
  <2>3. Stored(r) = Kept(form')
    BY <1>4, <1>8, <2>1 DEF Stored, Kept
  <2> QED
    BY <1>4, <1>8, <2>2, <2>3 DEF Agrees
<1>9. CASE r.op = "set" /\ r.to = "sto"
  <2>1. form'.shown = form.shown
    BY <1>4, <1>9 DEF ShownAfter
  <2>2. srv["sto"] = r.body
    BY <1>3, <1>9 DEF AnswerOK, Stored
  <2>3. \A g \in DOMAIN form'.shown \ (chosen' \cup {"GSTVersion"}) : r.body[g] = form'.shown[g]
    BY <1>6, <1>9, <2>1 DEF SentOK
  <2> QED
    BY <1>4, <1>9, <2>2, <2>3 DEF Agrees, Kept
<1> QED
  BY <1>1, <1>5, <1>7, <1>8, <1>9 DEF Form

\* What the page knows is stale, and a fetch of it that has its answer is told as missed.
LEMMA InvalidatedKeeps ==
  ASSUME NEW rq, RequestsOK(rq), RequestsKeep(rq, srv), OneFetch(rq), invalidateQueries(rq),
         runtime \in [known : Config \cup {None, Unavailable}, stale : BOOLEAN]
  PROVE  /\ reqs' = rq \/ reqs' = Sent(rq, PageFetch)
         /\ RequestsKeep(reqs', srv) /\ OneFetch(reqs') /\ KnownOK(runtime', reqs', srv, missed')
         /\ runtime' \in [known : Config \cup {None, Unavailable}, stale : BOOLEAN] /\ missed' \in BOOLEAN
<1>1. /\ runtime' = [runtime EXCEPT !.stale = TRUE]
      /\ \/ reqs' = rq
         \/ ~Fetching(rq) /\ reqs' = Sent(rq, PageFetch)
      /\ missed' = \E i \in DOMAIN rq : rq[i].to = "page" /\ rq[i].behind
  BY DEF invalidateQueries
<1>2. runtime' \in [known : Config \cup {None, Unavailable}, stale : BOOLEAN] /\ runtime'.stale
  BY <1>1
<1>3. missed' \in BOOLEAN
  BY <1>1
<1>4. KnownOK(runtime', rq, srv, missed')
  <2> SUFFICES ASSUME ~missed', NEW i \in DOMAIN rq, rq[i].to = "page", Got(rq[i])
               PROVE  rq[i].answer = Served(srv, "gst")
    BY <1>2 DEF KnownOK
  <2>1. ~rq[i].behind /\ AnswerOK(rq[i], srv)
    BY <1>1 DEF RequestsKeep
  <2> QED
    BY <2>1 DEF AnswerOK, About
<1>5. CASE reqs' = rq
  BY <1>2, <1>3, <1>4, <1>5
<1>6. CASE ~Fetching(rq) /\ reqs' = Sent(rq, PageFetch)
  <2>1. IsFiniteSet(DOMAIN rq)
    BY DEF RequestsOK
  <2>2. SaveOK(PageFetch, srv) /\ PageFetch.answer = Pending
    BY PageFetchIsOK DEF SaveOK
  <2>3. /\ RequestsKeep(Sent(rq, PageFetch), srv) /\ OneFetch(Sent(rq, PageFetch))
        /\ KnownOK(runtime', Sent(rq, PageFetch), srv, missed')
    BY <1>4, <1>6, <2>1, <2>2, SentKeeps
  <2> QED
    BY <1>2, <1>3, <1>6, <2>3
<1> QED
  BY <1>1, <1>5, <1>6

LEMMA AnsweredKeeps ==
  ASSUME IInv, NEW i \in DOMAIN reqs, Answered(i)
  PROVE  IInv' /\ DirtyIsKnown'
<1> DEFINE r == reqs[i]
           others == Without(reqs, i)
           again == [Request("gst", "reget", None) EXCEPT !.live = r.live]
<1>1. /\ RequestOK(r) /\ r.to \in Form /\ r.answer # Pending /\ form' = FormAfter(r)
      /\ wafDirty' = (form' # None /\ form'.is = "waf" /\ dirty(form'))
      /\ UNCHANGED <<open, selectedTab, isProMode, gstAvailable, gstAsked, ready, srv, actions, fetches>>
      /\ \/ r.live /\ Ok(r) /\ r.op # "def" /\ Filled(r, form', others)
         \/ ~(r.live /\ Ok(r) /\ r.op # "def") /\ UNCHANGED <<chosen, told>>
  BY AnsweredIs
<1>2. \/ Ok(r) /\ r.op = "def" /\ UNCHANGED <<runtime, missed>> /\ reqs' = Sent(others, again)
      \/ r.to = "gst" /\ r.op \in {"set", "reget"} /\ invalidateQueries(others)
      \/ r.op = "reget" /\ r.answer = Failed /\ reqs' = others /\ missed' = TRUE /\ runtime' = runtime
      \/ /\ r.op # "reget" /\ ~(Ok(r) /\ r.to = "gst" /\ r.op \in {"set", "def"})
         /\ reqs' = others /\ UNCHANGED <<runtime, missed>>
  BY AnsweredIs
<1>3. /\ TypeOK /\ FormIsShown /\ RequestsOK(reqs) /\ ServerType(srv) /\ ServerOK(srv)
      /\ RequestsKeep(reqs, srv) /\ OneFetch(reqs) /\ KnownOK(runtime, reqs, srv, missed)
      /\ runtime \in [known : Config \cup {None, Unavailable}, stale : BOOLEAN] /\ missed \in BOOLEAN
      /\ chosen \subseteq Fields /\ told \in BOOLEAN
  BY TypeParts DEF IInv
<1>4. /\ DOMAIN others = DOMAIN reqs \ {i} /\ (\A j \in DOMAIN others : others[j] = reqs[j])
      /\ RequestsOK(others) /\ IsFiniteSet(DOMAIN others)
  BY <1>3, WithoutIs, WithoutIsOK DEF RequestsOK
<1>5. RequestOK(again) /\ again.live = r.live /\ again.to = "gst" /\ again.op = "reget" /\ again.answer = Pending
  <2> DEFINE q == Request("gst", "reget", None)
  <2>1. RequestOK(q)
    BY <1>3, RequestIsOK DEF Form
  <2>2. r.live \in BOOLEAN
    BY <1>1 DEF RequestOK
  <2>3. q.to = "gst" /\ q.op = "reget" /\ q.answer = Pending
    BY DEF Request
  <2>4. again = [q EXCEPT !.live = r.live]
    OBVIOUS
  <2> HIDE DEF q, again
  <2> QED
    BY <2>1, <2>2, <2>3, <2>4, LivesIsOK
<1>6. /\ ~r.live => form' = form
      /\ r.live => /\ form # None /\ form.is = r.to /\ form \in Forms /\ form' \in Forms /\ form'.is = form.is
                   /\ form'.shown = IF Ok(r) THEN ShownAfter(form, r) ELSE form.shown
  BY <1>1, <1>3, FormAfterIs
<1>7. form' \in Forms \cup {None} /\ (form' # None <=> form # None) /\ (form # None => form'.is = form.is)
  <2>1. r.live \in BOOLEAN
    BY <1>1 DEF RequestOK
  <2>2. form \in Forms \cup {None} /\ None \notin Forms
    BY <1>3, FormsAssumption DEF TypeOK
  <2>3. CASE r.live
    BY <1>6, <2>2, <2>3
  <2>4. CASE ~r.live
    BY <1>6, <2>2, <2>4
  <2> QED
    BY <2>1, <2>3, <2>4
<1>8. DirtyIsKnown'
  BY <1>1 DEF DirtyIsKnown
<1>9. told' \in BOOLEAN /\ chosen' \subseteq Fields
  <2>1. r.behind \in BOOLEAN
    BY <1>1 DEF RequestOK
  <2> QED
    BY <1>1, <1>3, <2>1 DEF Filled
<1>10. /\ RequestsKeep(others, srv) /\ OneFetch(others)
       /\ (Telling(reqs) => Telling(others)) => KnownOK(runtime, others, srv, missed)
  <2> HIDE DEF others
  <2> QED
    BY <1>3, <1>4, FewerKeep
<1>11. r.op = "def" => r.to = "gst"
  BY <1>1 DEF RequestOK
<1> HIDE DEF r, others, again
\* What is sent, if anything, and what the page knows then.
<1>12. /\ reqs' = others \/ reqs' = Sent(others, PageFetch) \/ (reqs' = Sent(others, again) /\ r.op = "def")
       /\ RequestsKeep(reqs', srv) /\ OneFetch(reqs') /\ KnownOK(runtime', reqs', srv, missed')
       /\ runtime' \in [known : Config \cup {None, Unavailable}, stale : BOOLEAN] /\ missed' \in BOOLEAN
  <2>1. CASE Ok(r) /\ r.op = "def" /\ UNCHANGED <<runtime, missed>> /\ reqs' = Sent(others, again)
    <3>1. SaveOK(again, srv) /\ again.to # "page"
      BY <1>5 DEF SaveOK
    <3>2. RequestsKeep(Sent(others, again), srv) /\ OneFetch(Sent(others, again))
      BY <1>4, <1>5, <1>10, <3>1, SentKeeps
    <3>3. Telling(Sent(others, again))
      <4> DEFINE s == Sent(others, again)
      <4>1. Number(others) \in DOMAIN s /\ s[Number(others)] = again
        BY <1>4, SentIs
      <4> HIDE DEF s
      <4> QED
        BY <1>5, <4>1 DEF Telling, s
    <3>4. KnownOK(runtime, Sent(others, again), srv, missed)
      BY <3>3 DEF KnownOK
    <3> QED
      BY <1>3, <2>1, <3>2, <3>4
  <2>2. CASE r.to = "gst" /\ r.op \in {"set", "reget"} /\ invalidateQueries(others)
    BY <1>3, <1>4, <1>10, <2>2, InvalidatedKeeps
  <2>3. CASE r.op = "reget" /\ r.answer = Failed /\ reqs' = others /\ missed' = TRUE /\ runtime' = runtime
    <3>1. KnownOK(runtime, others, srv, TRUE)
      BY DEF KnownOK
    <3> QED
      BY <1>3, <1>10, <2>3, <3>1
  <2>4. CASE /\ r.op # "reget" /\ ~(Ok(r) /\ r.to = "gst" /\ r.op \in {"set", "def"})
             /\ reqs' = others /\ UNCHANGED <<runtime, missed>>
    <3>1. Telling(reqs) => Telling(others)
      BY <1>1, <1>4, <2>4 DEF Telling, Ok, r
    <3> QED
      BY <1>3, <1>10, <2>4, <3>1
  <2> QED
    BY <1>2, <2>1, <2>2, <2>3, <2>4
<1>13. /\ RequestsOK(reqs')
       /\ \A j \in DOMAIN reqs' : \/ j \in DOMAIN others /\ reqs'[j] = reqs[j]
                                  \/ reqs'[j] = PageFetch
                                  \/ reqs'[j] = again /\ r.op = "def"
  <2>1. ASSUME NEW q, RequestOK(q), reqs' = Sent(others, q)
        PROVE  RequestsOK(reqs') /\ \A j \in DOMAIN reqs' : (j \in DOMAIN others /\ reqs'[j] = reqs[j]) \/ reqs'[j] = q
    <3> DEFINE s == Sent(others, q)
    <3>1. IsFiniteSet(DOMAIN others)
      BY <1>4
    <3>2. /\ DOMAIN s = DOMAIN others \cup {Number(others)} /\ s[Number(others)] = q
          /\ \A j \in DOMAIN others : s[j] = others[j]
      BY <3>1, SentIs
    <3>3. RequestsOK(s)
      BY <1>4, <2>1, SentIsOK
    <3>4. reqs' = s
      BY <2>1
    <3> HIDE DEF s
    <3> QED
      BY <1>4, <3>2, <3>3, <3>4
  <2>2. CASE reqs' = others
    BY <1>4, <2>2
  <2>3. CASE reqs' = Sent(others, PageFetch)
    BY <2>1, <2>3, PageFetchIsOK
  <2>4. CASE reqs' = Sent(others, again) /\ r.op = "def"
    BY <1>5, <2>1, <2>4
  <2> QED
    BY <1>12, <2>2, <2>3, <2>4
<1>14. TypeOK'
  <2>1. ShellTypeOK'
    BY <1>1, <1>3, TypeParts DEF ShellTypeOK
  <2> QED
    BY <1>1, <1>3, <1>7, <1>9, <1>12, <1>13, <2>1, TypeParts DEF TypeOK, RequestsOK, ServerType
<1>15. FormIsShown'
  <2>1. \A j \in DOMAIN reqs' : reqs'[j].live => form' # None /\ form'.is = reqs'[j].to
    <3>1. \A j \in DOMAIN others : reqs[j].live => form # None /\ form.is = reqs[j].to
      BY <1>3, <1>4 DEF FormIsShown, Is
    <3>2. r.op = "def" /\ again.live => form # None /\ form.is = "gst"
      BY <1>5, <1>6, <1>11
    <3>3. ~PageFetch.live
      BY PageFetchIsOK
    <3> QED
      BY <1>5, <1>7, <1>13, <3>1, <3>2, <3>3
  <2> QED
    BY <1>1, <1>3, <1>7, <2>1 DEF FormIsShown, Is
<1>16. told' => FilledOK(reqs', form', srv', chosen')
  <2>1. CASE r.live /\ Ok(r) /\ r.op # "def" /\ Filled(r, form', others)
    <3> SUFFICES ASSUME told'
                 PROVE  FilledOK(reqs', form', srv, chosen')
      BY <1>1
    <3>1. form' # None /\ Agrees(form', srv, chosen')
      BY <2>1, FilledAgrees DEF r, others
    <3>2. \A j \in DOMAIN others : reqs[j].live => reqs[j].op \notin {"set", "def"}
      BY <1>4, <2>1 DEF Filled
    <3>3. \A j \in DOMAIN reqs' : reqs'[j].live => reqs'[j].op \notin {"set", "def"}
      BY <1>13, <2>1, <3>2, PageFetchIsOK
    <3> QED
      BY <3>1, <3>3 DEF FilledOK, SentOK
  <2>2. CASE ~(r.live /\ Ok(r) /\ r.op # "def") /\ UNCHANGED <<chosen, told>>
    <3> SUFFICES ASSUME told'
                 PROVE  FilledOK(reqs', form', srv, chosen)
      BY <1>1, <2>2
    <3>1. FilledOK(reqs, form, srv, chosen)
      BY <2>2 DEF IInv
    <3>2. form # None /\ form' # None /\ form'.is = form.is /\ form'.shown = form.shown
      <4>1. form # None
        BY <3>1 DEF FilledOK
      <4>2. CASE ~r.live
        BY <1>6, <1>7, <4>1, <4>2
      <4>3. CASE r.live /\ ~Ok(r)
        BY <1>6, <1>7, <4>1, <4>3
      <4>4. CASE r.live /\ Ok(r) /\ r.op = "def"
        BY <1>6, <1>7, <1>11, <4>1, <4>4 DEF ShownAfter
      <4>5. r.live \in BOOLEAN /\ Ok(r) \in BOOLEAN
        BY <1>1 DEF RequestOK, Ok
      <4> QED
        BY <2>2, <4>2, <4>3, <4>4, <4>5
    <3>3. Agrees(form', srv, chosen)
      BY <3>1, <3>2 DEF FilledOK, Agrees, Kept
    <3>4. \A j \in DOMAIN reqs' : reqs'[j].live => SentOK(reqs'[j], form', chosen)
      <4>1. \A j \in DOMAIN others : reqs[j].live => SentOK(reqs[j], form', chosen)
        BY <1>4, <3>1, <3>2 DEF FilledOK, SentOK
      <4>2. SentOK(again, form', chosen)
        BY <1>5 DEF SentOK
      <4> QED
        BY <1>13, <4>1, <4>2, PageFetchIsOK
    <3> QED
      BY <3>2, <3>3, <3>4 DEF FilledOK
  <2> QED
    BY <1>1, <2>1, <2>2
<1>17. ServerOK(srv)'
  BY <1>1 DEF IInv, ServerOK
<1>18. RequestsKeep(reqs', srv') /\ OneFetch(reqs') /\ KnownOK(runtime', reqs', srv', missed')
  BY <1>1, <1>12
<1> QED
  BY <1>8, <1>14, <1>15, <1>16, <1>17, <1>18 DEF IInv


-----------------------------------------------------------------------------
(* The theorems.                                                            *)

LEMMA InitHolds ==
  Init => IInv /\ DirtyIsKnown
<1> SUFFICES ASSUME Init PROVE IInv /\ DirtyIsKnown
  OBVIOUS
<1>1. /\ open = FALSE /\ selectedTab = tabMain /\ isProMode \in ProModes
      /\ gstAvailable = FALSE /\ gstAsked = FALSE /\ wafDirty = FALSE
      /\ ready = FALSE /\ form = None /\ DOMAIN reqs = {}
      /\ runtime = [known |-> None, stale |-> FALSE]
      /\ actions = 0 /\ fetches = 0
      /\ chosen = {} /\ told = FALSE /\ missed = FALSE
  BY DEF Init, ShellInit
<1>2. PICK r \in ReadOnlys : srv = [waf |-> Initial.waf, gst |-> Initial.gst, sto |-> Initial.sto, readOnly |-> r]
  BY DEF Init
<1>3. /\ Initial.waf \in Value.waf /\ \A l \in Lists : Stripped[Initial.waf[l]] = Initial.waf[l]
      /\ Initial.sto \in Value.sto /\ Initial.gst \in Config
      /\ \A g \in Positive : Initial.gst[g] > 0
      /\ Initial.gst["GSTVersion"] >= GST_MIN_VERSION
      /\ ReadOnlys \subseteq BOOLEAN /\ MaxActions \in Nat /\ MaxFetches \in Nat
  BY FormsAssumption
<1>4. ServerType(srv)
  BY <1>2, <1>3, ValueIs DEF ServerType
<1>5. ServerOK(srv)
  <2>1. \A g \in Positive : Initial.gst[g] # 0
    BY <1>3
  <2> QED
    BY <1>2, <1>3, <2>1 DEF ServerOK
<1>6. ShellTypeOK
  <2>1. ProModes \subseteq BOOLEAN /\ tabMain \in Visited
    BY ShellAssumption
  <2> QED
    BY <1>1, <2>1, ShellType
<1>7. RequestsOK(reqs)
  BY <1>1, FS_EmptySet DEF RequestsOK
<1>8. runtime \in [known : Config \cup {None, Unavailable}, stale : BOOLEAN]
  BY <1>1
<1>9. actions \in 0 .. MaxActions /\ fetches \in 0 .. MaxFetches
  BY <1>1, <1>3
<1>10. TypeOK
  BY <1>1, <1>4, <1>6, <1>7, <1>8, <1>9, TypeParts
<1>11. FormIsShown
  BY <1>1, TabsAre DEF FormIsShown
<1>12. RequestsKeep(reqs, srv) /\ OneFetch(reqs)
  BY <1>1 DEF RequestsKeep, OneFetch
<1>13. KnownOK(runtime, reqs, srv, missed)
  BY <1>1 DEF KnownOK
<1>14. DirtyIsKnown
  BY <1>1 DEF DirtyIsKnown
<1> QED
  BY <1>1, <1>5, <1>10, <1>11, <1>12, <1>13, <1>14 DEF IInv

LEMMA StepKeeps ==
  IInv /\ DirtyIsKnown /\ [Next]_vars => (IInv /\ DirtyIsKnown)'
<1> SUFFICES ASSUME IInv, DirtyIsKnown, [Next]_vars PROVE (IInv /\ DirtyIsKnown)'
  OBVIOUS
<1>1. CASE Dialog
  BY <1>1, DialogIs, NavigatedKeeps DEF IInv
<1>2. CASE Edit
  BY <1>2, EditIs, EditKeeps DEF IInv
<1>3. CASE useGStreamerRuntime
  <2>1. DirtyIsKnown'
    BY <1>3 DEF useGStreamerRuntime, shell, DirtyIsKnown, dirty
  <2> QED
    BY <1>3, <2>1, PageFetchKeeps
<1>4. ASSUME NEW i \in DOMAIN reqs, Answered(i)
      PROVE  (IInv /\ DirtyIsKnown)'
  BY <1>4, AnsweredKeeps
<1>5. ASSUME NEW i \in DOMAIN reqs, RuntimeArrives(i)
      PROVE  (IInv /\ DirtyIsKnown)'
  <2>1. DirtyIsKnown'
    BY <1>5 DEF RuntimeArrives, shell, DirtyIsKnown, dirty
  <2> QED
    BY <1>5, <2>1, RuntimeArrivesKeeps
<1>6. ASSUME NEW i \in DOMAIN reqs, Handle(i) \/ Lose(i)
      PROVE  (IInv /\ DirtyIsKnown)'
  <2>1. DirtyIsKnown'
    BY <1>6 DEF Handle, Lose, shell, DirtyIsKnown, dirty
  <2>2. PICK a : Moved(i, a)
    BY <1>6, HandleMoves, LoseMoves
  <2> QED
    BY <2>1, <2>2, MovedKeeps
<1>7. CASE UNCHANGED vars
  <2>1. IInv'
    BY <1>7 DEF vars, shell, IInv, TypeOK, ShellTypeOK, FormIsShown, Is
  <2>2. DirtyIsKnown'
    BY <1>7 DEF vars, shell, DirtyIsKnown, dirty
  <2> QED
    BY <2>1, <2>2
<1> QED
  BY <1>1, <1>2, <1>3, <1>4, <1>5, <1>6, <1>7 DEF Next, Answers, Server

\* Every reachable state satisfies the invariant.
THEOREM FormsInvariant ==
  Spec => [](IInv /\ DirtyIsKnown)
BY InitHolds, StepKeeps, PTL DEF Spec

\* The dialog knows of edits of the access lists exactly when there are any, whatever
\* the user does and whichever requests fail (WAFSettings.jsx, SettingsDialog.jsx).
THEOREM EditsAreKnown == Spec => []DirtyIsKnown
BY FormsInvariant, PTL

\* A form shows what the server has, but for what the user edited, from a fetch, a save or a reset on
\* (applyResponse, setGstreamerSettings), with other saves and fetches on their way, refused or lost:
\* unless that answer was given before another change or came while the form saves, or a form that
\* was left before changes the server behind it.
THEOREM FormsShowTheServer == Spec => []ShownIsStored
<1>1. IInv => ShownIsStored
  <2> SUFFICES ASSUME IInv, form # None, told,
                      NEW g \in DOMAIN form.shown \ (chosen \cup {"GSTVersion"})
               PROVE  srv[form.is][g] = Kept(form)[g]
    BY DEF ShownIsStored, Kept
  <2> QED
    BY DEF IInv, FilledOK, Agrees
<1> QED
  BY <1>1, FormsInvariant, PTL

\* The page knows what the server transcodes (utils/GStreamer.js, invalidateQueries), however changes
\* and its fetches met, once it was told of the changes and has fetched again: unless an answer that
\* tells it got lost, or a fetch was running that had been answered before the change.
THEOREM PageKnowsTheServer == Spec => []RuntimeIsFresh
<1>1. IInv => RuntimeIsFresh
  BY DEF IInv, KnownOK, RuntimeIsFresh
<1> QED
  BY <1>1, FormsInvariant, PTL

\* What changes on the server is answered ...
LEMMA ChangesAreHandled ==
  ASSUME IInv, Next, srv' # srv
  PROVE  \E i \in DOMAIN reqs : \E a : Moved(i, a)
<1>1. Dialog => UNCHANGED srv
  BY DEF Dialog, OpenDialog, SettingsArrive, GstIsKnown, Navigate, CloseDialog
<1>2. Edit => UNCHANGED srv
  BY EditIs DEF Edited, IInv
<1>3. useGStreamerRuntime => UNCHANGED srv
  BY DEF useGStreamerRuntime
<1>4. Answers => UNCHANGED srv
  BY DEF Answers, Answered, RuntimeArrives
<1>5. \E i \in DOMAIN reqs : Handle(i) \/ Lose(i)
  BY <1>1, <1>2, <1>3, <1>4 DEF Next, Server
<1> QED
  BY <1>5, HandleMoves, LoseMoves

\* ... and, unless the request is behind, chosen.
LEMMA ChangesAreChosen ==
  ASSUME IInv, NEW i \in DOMAIN reqs, NEW a, Moved(i, a), NEW p \in Form,
         NEW f \in DOMAIN srv[p] \ {"GSTVersion"}, srv'[p][f] # srv[p][f]
  PROVE  /\ i \in DOMAIN reqs' /\ reqs[i].to = p
         /\ reqs[i].answer = Pending /\ reqs'[i].answer # Pending
         /\ reqs[i].behind \/ f \in reqs[i].chosen
<1> DEFINE r == reqs[i]
<1>1. DOMAIN reqs' = DOMAIN reqs /\ r.answer = Pending /\ reqs'[i].answer # Pending
  BY DEF Moved
<1>2. /\ r.op \in {"set", "def"} /\ srv'[r.to] = Stored(r)
      /\ \A q \in Form \ {r.to} : srv'[q] = srv[q]
  BY DEF Moved
<1>3. r.to = p
  BY <1>2
<1>4. /\ RequestOK(r) /\ SaveOK(r, srv) /\ srv \in [waf : Value.waf, gst : Value.gst, sto : Value.sto, readOnly : BOOLEAN]
  BY DEF IInv, RequestsKeep, TypeOK
<1>5. CASE r.op = "set"
  BY <1>1, <1>2, <1>3, <1>4, <1>5 DEF SaveOK
<1>6. CASE r.op = "def"
  <2>1. r.chosen = GstFields /\ p = "gst"
    BY <1>3, <1>4, <1>6 DEF SaveOK, RequestOK
  <2>2. DOMAIN srv[p] = GstFields \cup {"GSTVersion"}
    BY <1>4, <2>1, ValueIs, ConfigFields
  <2> QED
    BY <1>1, <1>3, <2>1, <2>2
<1> QED
  BY <1>2, <1>5, <1>6

\* A save changes nothing that the user did not change in the form that sends it, or reset
\* (saveSettings, saveStorageSettings, handleSave), however it meets other requests: unless it is
\* behind.  That is a save of a form that was not told what the server has, being unloaded, loaded in
\* vain, or with an old answer, and one that a change of another form overtook.
THEOREM SavesOnlyWhatWasChosen == Spec => NothingUnchosen
<1>1. IInv /\ [Next]_vars =>
        [\A p \in Form : \A f \in DOMAIN srv[p] \ {"GSTVersion"} :
            srv'[p][f] # srv[p][f] =>
              \E i \in DOMAIN reqs \cap DOMAIN reqs' :
                 /\ reqs[i].to = p /\ reqs[i].answer = Pending /\ reqs'[i].answer # Pending
                 /\ reqs[i].behind \/ f \in reqs[i].chosen]_vars
  <2> SUFFICES ASSUME IInv, Next,
                      NEW p \in Form, NEW f \in DOMAIN srv[p] \ {"GSTVersion"}, srv'[p][f] # srv[p][f]
               PROVE  \E i \in DOMAIN reqs \cap DOMAIN reqs' :
                         /\ reqs[i].to = p /\ reqs[i].answer = Pending /\ reqs'[i].answer # Pending
                         /\ reqs[i].behind \/ f \in reqs[i].chosen
    BY DEF vars
  <2>1. PICK i \in DOMAIN reqs : \E a : Moved(i, a)
    BY ChangesAreHandled
  <2> QED
    BY <2>1, ChangesAreChosen
<1> QED
  BY <1>1, FormsInvariant, PTL DEF Spec, NothingUnchosen
=============================================================================
