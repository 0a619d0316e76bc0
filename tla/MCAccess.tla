------------------------------ MODULE MCAccess ------------------------------
(***************************************************************************)
(* Instances of Access: one tenant, two gate codes and a mobile key.       *)
(***************************************************************************)
EXTENDS Access, TLC

CONSTANTS pin1, pin2, key1, c1, c2, d1, d2

Codes == {pin1, pin2}
OneCode == {pin1}
Keys == {key1}
OneCaller == {c1}
TwoCallers == {c1, c2}
OneDrain == {d1}
TwoDrains == {d1, d2}

\* Codes of one kind, callers and drains are interchangeable.
Symmetry == Permutations(Codes) \cup Permutations(TwoCallers) \cup Permutations(TwoDrains)
=============================================================================
