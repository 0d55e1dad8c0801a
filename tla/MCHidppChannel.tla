--------------------------- MODULE MCHidppChannel ---------------------------
(* Small instances of HidppChannel for TLC.  All requests share one header;  *)
(* `again` repeats the bytes of `first`.                                     *)
EXTENDS HidppChannel

CONSTANTS first, again, differs

MCKeyOf == [r \in Requests |-> "k1"]

MCBodyOf == [r \in Requests |-> IF r = differs THEN "b2" ELSE "b1"]
=============================================================================
