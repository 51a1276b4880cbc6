------------------------------- MODULE MCAGU -------------------------------
(***************************************************************************)
(* Instantiation of AGU for TLC.  Handlers run on unit 3 (modi/stepi,      *)
(* zero-skip r3z) and unit 4 (modj/stepj), from a start address inside    *)
(* and one outside the windows of the moduli: 0, one that is a power of   *)
(* two minus one (7) and one that is not (4); a positive and a negative   *)
(* 7-bit step.                                                           *)
(***************************************************************************)
EXTENDS AGU

MCUnits == {3, 4}
MCStarts == {4, 21}
MCMods == {0, 4, 7}
MCSteps7 == {1, 125}
MCPairSteps == {"Increase", "PlusStep", "Decrease2Mode2"}
====
