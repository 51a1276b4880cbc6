---------------------------- MODULE MCAGUArith ----------------------------
(***************************************************************************)
(* Bounded checks of the address arithmetic of AGUArith against its       *)
(* reference.  A probe is one call: a register configuration with units 3 *)
(* and 4 in modulo mode, every modulus of 0 .. 9, a 7-bit step of +1 or -1 *)
(* and either dialect; an address of the first five 8-word blocks; and a  *)
(* step code or an offset code.  Compute evaluates the call once.         *)
(***************************************************************************)
EXTENDS AGUArith

ProbeUnits == {3, 4}
ProbeAddrs == 0 .. 40
ProbeMods == 0 .. 9
ProbeSteps == {"Increase", "Decrease", "PlusStep", "Increase2Mode1", "Decrease2Mode1"}
ProbeOffsets == {"PlusOne", "MinusOne"}

ModuloRegs ==
  { [r |-> [u \in ProbeUnits |-> 0], m |-> [u \in ProbeUnits |-> TRUE],
     brv |-> [u \in ProbeUnits |-> FALSE],
     modi |-> mod, modj |-> mod, stepi |-> st, stepj |-> st, fr |-> FALSE,
     legacy |-> l, bankstep |-> 0, r3z |-> FALSE, r7z |-> FALSE] :
    mod \in ProbeMods, st \in {1, 127}, l \in BOOLEAN }

VARIABLES probe, result

Init ==
  /\ probe \in [g : ModuloRegs, u : ProbeUnits, a : ProbeAddrs, op : ProbeSteps \cup ProbeOffsets]
  /\ result = -1

Compute ==
  /\ result = -1
  /\ result' = IF probe.op \in ProbeOffsets
               THEN OffsetAddress(probe.g, probe.u, probe.a, probe.op, FALSE)
               ELSE StepAddress(probe.g, probe.u, probe.a, probe.op, FALSE)
  /\ UNCHANGED probe

Spec == Init /\ [][Compute]_<<probe, result>>

ProbeMod == ModOf(probe.g, probe.u)

(* Spec 4.3 / 8, modulo addressing: a post-modification by +-1 (Increase, *)
(* Decrease, PlusStep with a step of +-1, both dialects) or by +-2 in     *)
(* step2 mode 1 (modern dialect) of an address inside its window moves it *)
(* cyclically through the mod + 1 addresses of the window (StepAddress's  *)
(* legacy and modern modulo loops).                                       *)
ModuloStepWraps ==
  LET op == probe.op
      d == CASE op = "Increase" -> 1 [] op = "Decrease" -> -1
             [] op = "PlusStep" -> IF probe.g.stepi = 1 THEN 1 ELSE -1
             [] op = "Increase2Mode1" -> 2 [] OTHER -> -2
  IN ( /\ result # -1 /\ op \in ProbeSteps
       /\ ProbeMod > 0 /\ InWindowOf(probe.a, ProbeMod, 1)
       /\ (op \in {"Increase", "Decrease", "PlusStep"} \/ ~probe.g.legacy) )
     => result = CyclicMove(probe.a, d, ProbeMod, 1)

(* Spec 4.3, offsets: offset +1 or -1 on a unit in modulo mode gives the   *)
(* neighbour of the address inside its window, a window of at least two    *)
(* addresses when mod is 0 (OffsetAddress, used for the second word by    *)
(* mov2 and the paired reads of add3/sub3 and their relatives).           *)
OffsetWraps ==
  ( /\ result # -1 /\ probe.op \in ProbeOffsets
    /\ InWindowOf(probe.a, ProbeMod, 2) )
  => result = CyclicMove(probe.a, IF probe.op = "PlusOne" THEN 1 ELSE -1, ProbeMod, 2)

(* Spec 8, "repeated PlusStep traversals produce a cycle of length        *)
(* mask + 1": from an address inside its window, post-modifying with      *)
(* PlusStep returns to it after mask + 1 steps, mask + 1 being the size of *)
(* the aligned block of the window (StepAddress's modulo loops).           *)
SpecPlusStepCycle ==
  ( /\ probe.op = "PlusStep" /\ ProbeMod > 0
    /\ InWindowOf(probe.a, ProbeMod, 1) )
  => OrbitLength(probe.g, probe.u, probe.a, probe.a, 0) = BlockSize(ProbeMod, 1)
====
