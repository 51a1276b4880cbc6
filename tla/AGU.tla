------------------------------- MODULE AGU -------------------------------
(***************************************************************************)
(* The handlers of the Teak interpreter (src/src/interpreter.h) that       *)
(* drive the address generation unit of AGUArith: the handlers that change *)
(* address registers, modr and its variants, the                          *)
(* pair form modr_*mod, a load through (Rn, step), the 32-bit store mov2   *)
(* through (ArRn, ArStep) with its offset, bitrev, and load_modi/j,        *)
(* load_stepi/j.                                                           *)
(*                                                                         *)
(* Data is abstracted: a load or store records the addresses it accesses, *)
(* in the order the handler accesses them, not the words moved.           *)
(***************************************************************************)
EXTENDS AGUArith, Sequences, FiniteSets

CONSTANTS
  Units,      \* address units the handlers name (r0..r7 -> 0..7)
  Starts,     \* initial values of the address registers
  Mods,       \* values of modi/modj (Imm9) set by load_modi/load_modj
  Steps7,     \* values of stepi/stepj (7-bit raw) set by load_stepi/load_stepj
  PairSteps,  \* ArpStep codes the modr_*mod handlers use
  MaxOps      \* bound on the handlers executed

VARIABLES
  agu,    \* the AGU registers: r, m, brv, modi, modj, stepi, stepj, fr,
          \* and the mode bits legacy_mod, bankstep, r3z, r7z
  last,   \* what the last handler did: its RnAndModify calls and accesses
  ops     \* handlers executed

vars == <<agu, last, ops>>

(***************************************************************************)
(* Handlers.                                                               *)
(***************************************************************************)
Done(g, calls, accesses, offset) ==
  /\ ops < MaxOps
  /\ agu' = g
  /\ last' = [calls |-> calls, accesses |-> accesses, offset |-> offset]
  /\ ops' = ops + 1

(* modr, modr_dmod (StepZIDS) and modr_i2, modr_d2 and their _dmod forms. *)
Modr(unit, step, dmod) ==
  LET x == RnAndModify(agu, unit, step, dmod)
  IN Done([x.regs EXCEPT !.fr = x.regs.r[unit] = 0], {x.call}, << >>, "none")

(* modr_eemod / modr_edmod / modr_demod / modr_ddmod: unit i < 4, unit    *)
(* j >= 4, each with its own step and dmod choice; fr is left alone.      *)
ModrPair(ui, uj, si, sj, di, dj) ==
  LET xi == RnAndModify(agu, ui, si, di)
      xj == RnAndModify(xi.regs, uj, sj, dj)
  IN Done(xj.regs, {xi.call, xj.call}, << >>, "none")

(* mov (Rn, StepZIDS) -> register: one read through RnAddressAndModify. *)
MovLoad(unit, step) ==
  LET x == RnAndModify(agu, unit, step, FALSE)
  IN Done(x.regs, {x.call}, <<RnAddress(x.regs, unit, x.ret)>>, "none")

(* mov2 px -> (ArRn, ArStep): the low word at the offset address is       *)
(* written first, then the high word at the address.                      *)
Mov2Store(unit, step, offset) ==
  LET x == RnAndModify(agu, unit, step, FALSE)
      address == RnAddress(x.regs, unit, x.ret)
  IN Done(x.regs, {x.call},
          <<OffsetAddress(x.regs, unit, address, offset, FALSE), address>>, offset)

Bitrev(unit) == Done([agu EXCEPT !.r[unit] = BitReverse(@)], {}, << >>, "none")
BitrevDbrv(unit) ==
  Done([agu EXCEPT !.r[unit] = BitReverse(@), !.brv[unit] = FALSE], {}, << >>, "none")
BitrevEbrv(unit) ==
  Done([agu EXCEPT !.r[unit] = BitReverse(@), !.brv[unit] = TRUE], {}, << >>, "none")

LoadMod(field, v) == Done([agu EXCEPT ![field] = v], {}, << >>, "none")
LoadStep(field, v) == Done([agu EXCEPT ![field] = v], {}, << >>, "none")

(* Register contents software can set up before a handler runs: the mode *)
(* bits, m and brv per unit, a start address from Starts, a modulus and  *)
(* a step (the same for the i and j sides; load_modj/load_stepj change   *)
(* one side).                                                            *)
Init ==
  /\ \E mod \in Mods, st \in Steps7 :
       agu \in [r : [Units -> Starts], m : [Units -> BOOLEAN], brv : [Units -> BOOLEAN],
                modi : {mod}, modj : {mod}, stepi : {st}, stepj : {st}, fr : {FALSE},
                legacy : BOOLEAN, bankstep : {0, 1}, r3z : BOOLEAN,
                r7z : IF 7 \in Units THEN BOOLEAN ELSE {FALSE}]
  /\ last = [calls |-> {}, accesses |-> << >>, offset |-> "none"]
  /\ ops = 0

UnitsI == {u \in Units : u < 4}
UnitsJ == {u \in Units : u >= 4}

Next ==
  \/ \E u \in Units, st \in StepZIDS, d \in BOOLEAN : Modr(u, st, d)
  \/ \E u \in Units, st \in {"Increase2Mode1", "Decrease2Mode1"}, d \in BOOLEAN : Modr(u, st, d)
  \/ \E ui \in UnitsI, uj \in UnitsJ, si, sj \in PairSteps, di, dj \in BOOLEAN :
       ModrPair(ui, uj, si, sj, di, dj)
  \/ \E u \in Units, st \in StepZIDS : MovLoad(u, st)
  \/ \E u \in Units, st \in ArSteps, o \in Offsets : Mov2Store(u, st, o)
  \/ \E u \in Units : Bitrev(u) \/ BitrevDbrv(u) \/ BitrevEbrv(u)
  \/ \E f \in {"modi", "modj"}, v \in Mods : LoadMod(f, v)
  \/ \E f \in {"stepi", "stepj"}, v \in Steps7 : LoadStep(f, v)

Spec == Init /\ [][Next]_vars

(***************************************************************************)
(* Properties.                                                             *)
(***************************************************************************)
AguRegs ==
  [r : [Units -> Word], m : [Units -> BOOLEAN], brv : [Units -> BOOLEAN],
   modi : 0 .. 511, modj : 0 .. 511, stepi : 0 .. 127, stepj : 0 .. 127, fr : BOOLEAN,
   legacy : BOOLEAN, bankstep : {0, 1}, r3z : BOOLEAN, r7z : BOOLEAN]

TypeOK ==
  /\ agu \in AguRegs
  /\ \A c \in last.calls : c.unit \in Units /\ c.post \in Word
  /\ \A k \in DOMAIN last.accesses : last.accesses[k] \in Word
  /\ ops \in 0 .. MaxOps

(* Spec 8, bit-reversed addressing: with brv set and m clear, a load or a *)
(* mov2 presents the bit reversal of rN's value before the access to      *)
(* memory, and rN moves linearly by the step (stepi0/stepj0 for PlusStep, *)
(* whatever stepi/stepj hold) (RnAddressAndModify: RnAndModify, RnAddress *)
(* and StepSize).                                                         *)
LinearStep(c) ==
  CASE c.step = "Zero" -> 0 [] c.step = "Increase" -> 1 [] c.step = "Decrease" -> -1
    [] c.step \in {"Increase2Mode1", "Increase2Mode2"} -> 2
    [] c.step \in {"Decrease2Mode1", "Decrease2Mode2"} -> -2
    [] c.step = "PlusStep" -> IF c.unit < 4 THEN Stepi0 ELSE Stepj0

BitReversedAddressing ==
  \A c \in last.calls :
    LET g == c.pre
        u == c.unit
    IN ( g.brv[u] /\ ~g.m[u]
         /\ ~(((u = 3 /\ g.r3z) \/ (u = 7 /\ g.r7z)) /\ c.step \notin Step2Modes) )
       => /\ c.post = Wrap16(g.r[u] + LinearStep(c))
          /\ last.accesses # << >> =>
               last.accesses[Len(last.accesses)] = ReverseBits(g.r[u], 16)

====
