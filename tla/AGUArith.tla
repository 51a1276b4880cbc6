----------------------------- MODULE AGUArith -----------------------------
(***************************************************************************)
(* The address arithmetic of the Teak interpreter's address generation    *)
(* unit (src/src/interpreter.h): RnAddress, OffsetAddress, StepAddress and *)
(* RnAndModify over a record `g` of the AGU registers (r, m, brv, modi,    *)
(* modj, stepi, stepj, fr, legacy, bankstep, r3z, r7z), with linear,       *)
(* modulo (legacy and modern dialects) and bit-reversed addressing and the *)
(* r3/r7 zero-skip, and the reference definitions they are checked        *)
(* against.                                                               *)
(***************************************************************************)
EXTENDS Integers, Bitwise

CONSTANTS
  Stepi0, Stepj0  \* stepi0/stepj0

Word == 0 .. 65535

(* Mutant: u16 arithmetic without truncation. *)
Wrap16Missing(x) == x

Wrap16(x) == x % 65536

(* StepZIDS and ArStep codes (ConvertArStep), and the offset codes.       *)
Step2Modes == {"Increase2Mode1", "Decrease2Mode1", "Increase2Mode2", "Decrease2Mode2"}
StepZIDS == {"Zero", "Increase", "Decrease", "PlusStep"}
ArSteps == StepZIDS \cup Step2Modes
Offsets == {"Zero", "PlusOne", "MinusOne", "MinusOneDmod"}

(***************************************************************************)
(* Bit helpers.                                                            *)
(***************************************************************************)
(* The OR of x >> i for i in 0 .. n-1: the mask loops of OffsetAddress     *)
(* and StepAddress take n = 9.                                            *)
RECURSIVE SmearBits(_, _)
SmearBits(x, n) == IF n = 0 THEN 0 ELSE (x \div 2^(n - 1)) | SmearBits(x, n - 1)

Complement16(x) == 65535 - x
ClearBits(a, mask) == a - (a & mask)

SignExtendTo16(v, bits) ==
  IF (v \div 2^(bits - 1)) % 2 = 1 THEN (v % 2^bits) + 65536 - 2^bits ELSE v % 2^bits

(* BitReverse of a 16-bit word (common header, not under src/). *)
RECURSIVE ReverseBits(_, _)
ReverseBits(x, n) == IF n = 0 THEN 0 ELSE (x % 2) * 2^(n - 1) + ReverseBits(x \div 2, n - 1)
BitReverse(x) == ReverseBits(x, 16)

(***************************************************************************)
(* Address computations.  `g` is an AGU register record.                   *)
(***************************************************************************)
ModOf(g, unit) == IF unit < 4 THEN g.modi ELSE g.modj

RnAddress(g, unit, value) ==
  IF g.brv[unit] /\ ~g.m[unit] THEN BitReverse(value) ELSE value

(* Mutant: -1 at the bottom of the window jumps to the top of the mask. *)
OffsetAddressToMask(g, unit, address, offset, dmod) ==
  LET emod == g.m[unit] /\ ~g.brv[unit] /\ ~dmod
      mod == ModOf(g, unit)
      mask == 1 | SmearBits(mod, 9)
  IN CASE offset = "Zero" -> address
       [] offset = "MinusOneDmod" -> Wrap16(address - 1)
       [] offset = "PlusOne" ->
            IF emod /\ (address & mask) = mod THEN ClearBits(address, mask)
            ELSE Wrap16(address + 1)
       [] offset = "MinusOne" ->
            IF emod /\ (address & mask) = 0 THEN address | mask
            ELSE Wrap16(address - 1)

OffsetAddress(g, unit, address, offset, dmod) ==
  LET emod == g.m[unit] /\ ~g.brv[unit] /\ ~dmod
      mod == ModOf(g, unit)
      mask == 1 | SmearBits(mod, 9)
  IN CASE offset = "Zero" -> address
       [] offset = "MinusOneDmod" -> Wrap16(address - 1)
       [] offset = "PlusOne" ->
            IF emod /\ (address & mask) = mod THEN ClearBits(address, mask)
            ELSE Wrap16(address + 1)
       [] offset = "MinusOne" ->
            IF emod /\ (address & mask) = 0 THEN address | mod
            ELSE Wrap16(address - 1)

(* The step size s of StepAddress's switch, as a u16. *)
StepSize(g, unit, step) ==
  LET step0 == IF unit < 4 THEN Stepi0 ELSE Stepj0
      plain == IF g.brv[unit] /\ ~g.m[unit] THEN step0
               ELSE SignExtendTo16(IF unit < 4 THEN g.stepi ELSE g.stepj, 7)
      plus == IF g.bankstep = 1 /\ ~g.legacy
              THEN (IF g.m[unit] THEN SignExtendTo16(step0, 9) ELSE step0)
              ELSE plain
  IN CASE step = "Zero" -> 0
       [] step = "Increase" -> 1
       [] step = "Decrease" -> 65535
       [] step \in {"Increase2Mode1", "Increase2Mode2"} -> 2
       [] step \in {"Decrease2Mode1", "Decrease2Mode2"} -> 65534
       [] step = "PlusStep" -> plus

(* One iteration of the modulo loop in the legacy (or step2 mode 2) form. *)
LegacyModStep(address, s, mod, mode2) ==
  LET negative == s >= 32768
      mm == IF negative THEN mod | Complement16(s) ELSE mod | s
      mask == SmearBits(mm, 9)
      low == address & mask
      wraps == ~mode2 \/ mod # mask
      next == IF ~negative
              THEN IF low = mod /\ wraps THEN 0 ELSE Wrap16(address + s) & mask
              ELSE IF low = 0 /\ wraps THEN mod ELSE Wrap16(address + s) & mask
  IN ClearBits(address, mask) + next

(* Mutant: wraps on reaching mod rather than mod + 1. *)
ModernModStepAtMod(address, s, mod) ==
  LET mask == SmearBits(mod, 9)
      next == IF s < 32768
              THEN LET n == Wrap16(address + s) & mask IN IF n = (mod & mask) THEN 0 ELSE n
              ELSE LET low == address & mask
                   IN Wrap16((IF low = 0 THEN mod + 1 ELSE low) + s) & mask
  IN ClearBits(address, mask) + next

(* One iteration of the modulo loop in the modern form. *)
ModernModStep(address, s, mod) ==
  LET mask == SmearBits(mod, 9)
      next == IF s < 32768
              THEN LET n == Wrap16(address + s) & mask
                   IN IF n = ((mod + 1) & mask) THEN 0 ELSE n
              ELSE LET low == address & mask
                       from == IF low = 0 THEN mod + 1 ELSE low
                   IN Wrap16(from + s) & mask
  IN ClearBits(address, mask) + next

StepAddress(g, unit, address, step, dmod) ==
  LET s0 == StepSize(g, unit, step)
      mode1 == step \in {"Increase2Mode1", "Decrease2Mode1"} /\ ~g.legacy
      mode2 == step \in {"Increase2Mode2", "Decrease2Mode2"} /\ ~g.legacy
      mod == ModOf(g, unit)
      s == IF mode1 THEN SignExtendTo16(s0 \div 2, 15) ELSE s0
      once(a) == IF g.legacy \/ mode2 THEN LegacyModStep(a, s, mod, mode2)
                 ELSE ModernModStep(a, s, mod)
  IN CASE s0 = 0 -> address
       [] dmod \/ g.brv[unit] \/ ~g.m[unit] -> Wrap16(address + s0)
       [] mod = 0 \/ (mod = 1 /\ mode2) -> address
       [] mode1 -> once(once(address))
       [] OTHER -> once(address)

(* RnAndModify: the new registers, the value returned (the old rN) and    *)
(* the record of the call kept in `last`.                                *)
ZeroSkip(g, unit, step) ==
  ((unit = 3 /\ g.r3z) \/ (unit = 7 /\ g.r7z)) /\ step \notin Step2Modes

(* Mutant: returns the modified register instead of its old value. *)
RnAndModifyReturnsNew(g, unit, step, dmod) ==
  LET new == IF ZeroSkip(g, unit, step) THEN 0 ELSE StepAddress(g, unit, g.r[unit], step, dmod)
  IN [regs |-> [g EXCEPT !.r[unit] = new], ret |-> new,
      call |-> [unit |-> unit, step |-> step, dmod |-> dmod, pre |-> g, post |-> new]]

RnAndModify(g, unit, step, dmod) ==
  LET old == g.r[unit]
      new == IF ZeroSkip(g, unit, step) THEN 0 ELSE StepAddress(g, unit, old, step, dmod)
  IN [regs |-> [g EXCEPT !.r[unit] = new], ret |-> old,
      call |-> [unit |-> unit, step |-> step, dmod |-> dmod, pre |-> g, post |-> new]]

(* Reference for a modulus: the window of an address is the aligned block *)
(* of the smallest power of two above mod (at least `least` wide); the     *)
(* addresses in use are those whose offset in the block is at most mod,   *)
(* and a move by d goes cyclically through those mod + 1 addresses.       *)
BlockSize(mod, least) ==
  CHOOSE p \in {2^k : k \in 0 .. 10} : p > mod /\ p >= least /\ (p = least \/ p <= 2 * mod)
InWindowOf(a, mod, least) == a % BlockSize(mod, least) <= mod
CyclicMove(a, d, mod, least) ==
  LET size == BlockSize(mod, least)
  IN (a - (a % size)) + (((a % size) + d) % (mod + 1))

(* The number of PlusStep post-modifications that bring `start` back. *)
RECURSIVE OrbitLength(_, _, _, _, _)
OrbitLength(g, u, a, start, n) ==
  IF n > 0 /\ a = start THEN n
  ELSE IF n > 1024 THEN -1
  ELSE OrbitLength(g, u, StepAddress(g, u, a, "PlusStep", FALSE), start, n + 1)


====
