--------------------------- MODULE MCWebSettings ---------------------------
(* One control of every kind.                                               *)
EXTENDS WebSettings

CONSTANTS key

MCInitial ==
  [f \in Fields \cup {"UseDisk"} \cup Sliders \cup Own |->
     CASE f = "CacheSize" -> 64 * MB [] f = "ReaderReadAHead" -> 95 [] f = "PreloadCache" -> 50
       [] f = "TorznabUrls" -> <<>> [] f = "SslCert" -> "self-signed" [] f = "TMDBSettings" -> key
       [] f = "ConnectionsLimit" -> 25 [] f \in {"EnableLPD", "LPDIPv6"} -> TRUE
       [] f \in Texts -> None [] OTHER -> FALSE]

MCPositions == [f \in Sliders |-> IF f = "CacheSize" THEN {128} ELSE {}]
=============================================================================
