----------------------------- MODULE MCWebForms -----------------------------
(* One field of a kind in each form.                                        *)
EXTENDS WebForms

MCStripped == [t \in Texts |-> IF t = "lines" THEN "line" ELSE t]

MCDefaults == [f \in GstFields \cup {"GSTVersion"} |-> IF f = "GSTVersion" THEN 122 ELSE 1]

MCInitial ==
  [waf |-> [l \in Lists |-> "line"],
   gst |-> [f \in GstFields \cup {"GSTVersion"} |->
              CASE f = "GSTVersion" -> 126 [] f \in Flags -> 0 [] OTHER -> 2],
   sto |-> [settings |-> "json", viewed |-> "json"]]
=============================================================================
