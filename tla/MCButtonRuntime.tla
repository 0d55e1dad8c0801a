--------------------------- MODULE MCButtonRuntime ---------------------------
(* Small instances of ButtonRuntime for TLC: a hook thread with one button   *)
(* and a HID++ session with a G-key.                                         *)
EXTENDS ButtonRuntime, TLC

CONSTANTS hook, session, button, gkey

MCSourceOf == [k \in Keys |-> IF k = button THEN hook ELSE session]
\* Windows are only compared.
MCSymmetry == Permutations(Windows)
=============================================================================
