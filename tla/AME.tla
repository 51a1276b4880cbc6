-------------------------------- MODULE AME --------------------------------
(***************************************************************************)
(* The handlers of the Teak interpreter (src/src/interpreter.h) that run  *)
(* on the ALU/MAC engine, each one an action over the AME registers of    *)
(* AMEArith: accumulator add/sub, the product sums, alm/alu, alb on the   *)
(* accumulator halves, the moda operations, pacr1, the shifts shfc/shfi/  *)
(* movs/movsi, swap, exp, lim, movr, the multiplies and the loads   *)
(* of sv and ps.                                                          *)
(*                                                                         *)
(* Memory and register operands are abstracted to a 16-bit word chosen    *)
(* from Words; the address-unit step a handler also makes belongs to the  *)
(* AGU model (norm, whose step sets R, is in DataMove). A throw ends the *)
(* run (fault).                                                           *)
(*                                                                         *)
(* flagged is a history variable: the accumulator whose write last set    *)
(* the flags, and whether that write was SetAcc's or ShiftBus40's; "none" *)
(* once a handler set the flags from another value or wrote that          *)
(* accumulator without setting them.                                      *)
(***************************************************************************)
EXTENDS AMEArith

CONSTANTS
  Inits,      \* register set-ups software can establish before a handler
  Words,      \* 16-bit data words (memory and register operands, immediates)
  ShiftImms,  \* raw Imm6s codes of shfi (Imm5s of movsi uses those below 32)
  MaxOps      \* bound on the handlers executed

VARIABLES ame, flagged, ops, fault

vars == <<ame, flagged, ops, fault>>

Ax == {"a0", "a1"}
Bx == {"b0", "b1"}
NoFlags == [acc |-> "none", via |-> "none"]

Step(m, f) ==
  /\ ops < MaxOps /\ ~fault
  /\ ame' = m /\ flagged' = f /\ ops' = ops + 1
  /\ UNCHANGED fault

(* The flags now describe accumulator a, written through SetAcc.      *)
Write(m, a) == Step(m, [acc |-> a, via |-> "SetAcc"])
(* The flags now describe accumulator a, written through ShiftBus40.   *)
WriteShift(m, a) == Step(m, [acc |-> a, via |-> "Shift"])
(* Flags left alone; accumulators in written changed without them.    *)
Quiet(m, written) == Step(m, IF flagged.acc \in written THEN NoFlags ELSE flagged)
(* Flags set from a value no accumulator holds.                        *)
Clobber(m) == Step(m, NoFlags)

(* A throw: the interpreter stops. *)
Fail ==
  /\ ops < MaxOps /\ ~fault
  /\ fault' = TRUE /\ ops' = ops + 1
  /\ UNCHANGED <<ame, flagged>>

(***************************************************************************)
(* add/sub (Ab a, Bx b) and (Bx a, Ax b): b := b +/- a.                   *)
(***************************************************************************)
AccPairs == (AccNames \X Bx) \cup (Bx \X Ax)

AddSubAcc(a, b, sub) ==
  LET r == AddSub(ame, ame.acc[b], ame.acc[a], sub)
  IN Write(SetAcc(r.m, b, r.v, FALSE), b)

(* add_p1/sub_p1 (Ax b) and add/sub (Px a, Bx b): b := b +/- p. *)
ProductPairs == ({1} \X Ax) \cup ({0, 1} \X Bx)

AddSubProduct(unit, b, sub) ==
  LET r == AddSub(ame, ame.acc[b], ProductToBus40(ame, unit), sub)
  IN Write(SetAcc(r.m, b, r.v, FALSE), b)

(***************************************************************************)
(* The product-sum handlers: base, then the p0 and p1 configurations.     *)
(***************************************************************************)
PAdd == [align |-> FALSE, sub |-> FALSE]
PAdda == [align |-> TRUE, sub |-> FALSE]
PSub == [align |-> FALSE, sub |-> TRUE]
PSuba == [align |-> TRUE, sub |-> TRUE]

ProductSumHandlers ==
  [add_p0_p1 |-> <<"Zero", PAdd, PAdd>>, add_p0_p1a |-> <<"Zero", PAdd, PAdda>>,
   add3_p0_p1 |-> <<"Acc", PAdd, PAdd>>, add3_p0_p1a |-> <<"Acc", PAdd, PAdda>>,
   add3_p0a_p1a |-> <<"Acc", PAdda, PAdda>>,
   sub_p0_p1 |-> <<"Zero", PAdd, PSub>>, sub_p0_p1a |-> <<"Zero", PAdd, PSuba>>,
   sub3_p0_p1 |-> <<"Acc", PSub, PSub>>, sub3_p0_p1a |-> <<"Acc", PSub, PSuba>>,
   sub3_p0a_p1a |-> <<"Acc", PSuba, PSuba>>,
   addsub_p0_p1 |-> <<"Acc", PAdd, PSub>>, addsub_p1_p0 |-> <<"Acc", PSub, PAdd>>,
   addsub_p0_p1a |-> <<"Acc", PAdd, PSuba>>, addsub_p1a_p0 |-> <<"Acc", PSub, PAdda>>]

ProductSumOp(h, c) ==
  LET t == ProductSumHandlers[h]
  IN Write(ProductSum(ame, t[1], c, t[2], t[3]), c)

(* mov_addsubsv, mov_addsubrndsv, mov_sub3sv, mov_sub3rndsv: sv is loaded *)
(* from memory, then the product sum on base sv << 16 (| 0x8000).        *)
SvProductSumHandlers ==
  [mov_addsubsv |-> <<"Sv", PSub, PAdd>>, mov_addsubrndsv |-> <<"SvRnd", PSub, PAdd>>,
   mov_sub3sv |-> <<"Sv", PSub, PSub>>, mov_sub3rndsv |-> <<"SvRnd", PSub, PSub>>]

MovProductSumSv(h, w, b) ==
  LET t == SvProductSumHandlers[h]
  IN Write(ProductSum([ame EXCEPT !.sv = w], t[1], b, t[2], t[3]), b)

(***************************************************************************)
(* alm/alu with a 16-bit operand (memory, register, r6, immediate).       *)
(***************************************************************************)
AlmFlags(op, b) ==
  CASE op \in {"Tst0", "Tst1", "Cmp", "Cmpu"} -> NoFlags
    [] op = "Sqr" -> flagged
    [] OTHER -> [acc |-> b, via |-> "SetAcc"]

Alm(op, w, b) ==
  Step(AlmGeneric(ame, op, ExtendOprandForAlm(op, w), b), AlmFlags(op, b))

(* alu (And, Imm8, Ax): bits 8..15 of the accumulator are kept while the *)
(* flags are set as if they were affected.                               *)
AluAndImm8(w, b) ==
  LET m == AlmGeneric(ame, "And", FromWord(w), b)
      kept == [m.acc[b] EXCEPT !.lo = (ame.acc[b].lo & 65280) | (@ & 255)]
  IN Step(SetAccSimple(m, b, kept), NoFlags)

(* alm (op, Register a, Ax b) with a in a0, a1, p: a 40-bit operand, only *)
(* for Or, And, Xor, Add, Cmp, Sub; otherwise a throw.                    *)
AlmBus40Ops == {"Or", "And", "Xor", "Add", "Cmp", "Sub"}

AlmBus40(op, src, b) ==
  IF op \notin AlmBus40Ops THEN Fail
  ELSE LET v == IF src = "p" THEN ProductToBus40(ame, 0) ELSE ame.acc[src]
       IN Step(AlmGeneric(ame, op, v, b), AlmFlags(op, b))

(* alb (op, Imm16 a, Register b) on an accumulator half aXl/aXh/bXl/bXh: *)
(* the result goes back into the 16 bits without flags or saturation.    *)
AlbAcc(op, w, acc, half) ==
  LET cur == ame.acc[acc]
      bv == IF half = "l" THEN cur.lo ELSE cur.hi % W16
      r == GenericAlb(ame, op, w, bv)
      new == IF half = "l" THEN [cur EXCEPT !.lo = r.v]
             ELSE [cur EXCEPT !.hi = (@ - (@ % W16)) + r.v]
  IN Step(IF IsAlbModifying(op) THEN SetAccSimple(r.m, acc, new) ELSE r.m, NoFlags)

(* or_ (Ab a, Ax b, Ax c), (Ax a, Bx b, Ax c), (Bx a, Bx b, Ax c) and     *)
(* and_ (Ab a, Ab b, Ax c): c := a | b or a & b without saturation.      *)
OrPairs == (AccNames \X Ax) \cup (Ax \X Bx) \cup (Bx \X Bx)
AndOr(op, a, b, c) ==
  LET v == IF op = "Or" THEN BusOr(ame.acc[a], ame.acc[b]) ELSE BusAnd(ame.acc[a], ame.acc[b])
  IN Write(SetAcc(ame, c, v, TRUE), c)

(***************************************************************************)
(* moda4 (Ax) / moda3 (Bx): Moda with the condition taken.                *)
(***************************************************************************)
ModaOps == {"Shr", "Shr4", "Shl", "Shl4", "Ror", "Rol", "Clr", "Not", "Neg",
            "Rnd", "Pacr", "Clrr", "Inc", "Dec", "Copy"}
ModaShifts == [Shr |-> 65535, Shr4 |-> 65532, Shl |-> 1, Shl4 |-> 4]

(* Rotations through C of the 40-bit value. *)
RotateRight(m, v) ==
  [m |-> [m EXCEPT !.fc0 = v.lo % 2],
   v |-> [hi |-> v.hi \div 2 + m.fc0 * 2^23, lo |-> v.lo \div 2 + (v.hi % 2) * 2^15]]
RotateLeft(m, v) ==
  [m |-> [m EXCEPT !.fc0 = Sign(v)], v |-> [Double(v) EXCEPT !.lo = @ + m.fc0]]

(* Mutant: the 40-bit negation without wrapping. *)
NegNoWrap(m, v) ==
  LET fv == Flag(v = [hi |-> 2^23, lo |-> 0])
  IN [m |-> [m EXCEPT !.fc0 = Flag(~IsZero(v)), !.fv = fv, !.flv = IF fv = 1 THEN 1 ELSE @],
      v |-> [hi |-> W24 - v.hi - Flag(v.lo # 0), lo |-> (W16 - v.lo) % W16]]

(* Mutant: V set without latching LV. *)
NegNoLatch(m, v) ==
  LET fv == Flag(v = [hi |-> 2^23, lo |-> 0])
  IN [m |-> [m EXCEPT !.fc0 = Flag(~IsZero(v)), !.fv = fv],
      v |-> [hi |-> (W24 - v.hi - Flag(v.lo # 0)) % W24, lo |-> (W16 - v.lo) % W16]]

(* Neg: C = (value != 0), V = (value == -2^39), result -value mod 2^40. *)
Neg(m, v) ==
  LET fv == Flag(v = [hi |-> 2^23, lo |-> 0])
  IN [m |-> [m EXCEPT !.fc0 = Flag(~IsZero(v)), !.fv = fv, !.flv = IF fv = 1 THEN 1 ELSE @],
      v |-> [hi |-> (W24 - v.hi - Flag(v.lo # 0)) % W24, lo |-> (W16 - v.lo) % W16]]

Moda(op, a) ==
  LET v == ame.acc[a]
      rnd(x) == AddSub(ame, x, FromWord(32768), FALSE)
      set(r, noSat) == Write(SetAcc(r.m, a, r.v, noSat), a)
  IN CASE op \in DOMAIN ModaShifts -> WriteShift(ShiftBus40(ame, v, ModaShifts[op], a), a)
       [] op = "Ror" -> set(RotateRight(ame, v), TRUE)
       [] op = "Rol" -> set(RotateLeft(ame, v), TRUE)
       [] op = "Clr" -> set([m |-> ame, v |-> Zero40], FALSE)
       [] op = "Not" -> set([m |-> ame, v |-> BusXor(v, Ones40)], TRUE)
       [] op = "Neg" -> set(Neg(ame, v), FALSE)
       [] op = "Rnd" -> set(rnd(v), FALSE)
       [] op = "Pacr" -> set(rnd(ProductToBus40(ame, 0)), FALSE)
       [] op = "Clrr" -> set([m |-> ame, v |-> FromWord(32768)], FALSE)
       [] op = "Inc" -> set(AddSub(ame, v, FromWord(1), FALSE), FALSE)
       [] op = "Dec" -> set(AddSub(ame, v, FromWord(1), TRUE), FALSE)
       [] op = "Copy" -> set([m |-> ame, v |-> ame.acc[IF a = "a0" THEN "a1" ELSE "a0"]], FALSE)

(* pacr1 (Ax a): a := p1 + 0x8000. *)
Pacr1(a) ==
  LET r == AddSub(ame, ProductToBus40(ame, 1), FromWord(32768), FALSE)
  IN Write(SetAcc(r.m, a, r.v, FALSE), a)

(***************************************************************************)
(* Shifts through ShiftBus40: shfc (by sv), shfi (Imm6s), movs (a word     *)
(* SE(16) by sv), movsi (Imm5s).                                           *)
(***************************************************************************)
SignExtendImm(c, n) == IF c < 2^(n - 1) THEN c ELSE c + W16 - 2^n

Shfc(a, b) == WriteShift(ShiftBus40(ame, ame.acc[a], ame.sv, b), b)
Shfi(a, b, c) == WriteShift(ShiftBus40(ame, ame.acc[a], SignExtendImm(c, 6), b), b)
Movs(w, b) == WriteShift(ShiftBus40(ame, SignExtend16(w), ame.sv, b), b)
Movsi(w, b, c) == WriteShift(ShiftBus40(ame, SignExtend16(w), SignExtendImm(c, 5), b), b)

(* divs (MemImm8 a, Ax b): one division step on b by the memory word,  *)
(* stored through SetAcc_NoSaturation.                                   *)
Divs(w, b) == Write(SetAcc(ame, b, DivsStep(ame.acc[b], w), TRUE), b)

(* swap: the transfers of SwapRegs; the flags describe d1. *)
Swap(t) == Write(SwapRegs(ame, t), SwapTypes[t][4])

(***************************************************************************)
(* exp: sv := Exp(value); the forms with Ax b also store SE(16, sv) in b  *)
(* through SetAcc_Simple (ExpStore). The value is an accumulator (exp Bx, *)
(* exp Register a0/a1) or a word w as SE(32, w << 16).                    *)
(***************************************************************************)
ExpStore(m, b) ==
  IF b = "none" THEN m ELSE SetAccSimple(m, b, SignExtend16(m.sv))

ExpAcc(a, b) == Quiet(ExpStore([ame EXCEPT !.sv = Exp(ame.acc[a])], b), {b})
ExpWord(w, b) == Quiet(ExpStore([ame EXCEPT !.sv = Exp(HighWord(w))], b), {b})

(* lim (Ax a, Ax b): b := the 32-bit saturation of a, fls set on a clamp; *)
(* the flags come from the clamped value.                                *)
Lim(a, b) ==
  LET r == SaturateAccUnconditional(ame, ame.acc[a])
  IN Write(SetAcc(r.m, b, r.v, TRUE), b)

(***************************************************************************)
(* movr: round by adding 0x8000. A 40-bit source (Bx, a0/a1, p, or a word *)
(* as SE(32, w << 16) into Abh) goes through AddSub; a 16-bit source (Rn, *)
(* other registers, r6) uses 16-bit arithmetic: C from bit 16, V cleared. *)
(***************************************************************************)
Movr40(v, b) ==
  LET r == AddSub(ame, v, FromWord(32768), FALSE)
  IN Write(SetAcc(r.m, b, r.v, FALSE), b)

MovrAcc(a, b) == Movr40(ame.acc[a], b)
MovrP(b) == Movr40(ProductToBus40(ame, 0), b)
MovrHigh(w, b) == Movr40(HighWord(w), b)
MovrWord(w, b) ==
  LET m == [ame EXCEPT !.fc0 = (w + 32768) \div W16, !.fv = 0]
  IN Write(SetAcc(m, b, FromWord((w + 32768) % W16), FALSE), b)

(***************************************************************************)
(* Multiplication: MulGeneric after x0 is loaded with w (mul_y0 forms).   *)
(***************************************************************************)
Mul(op, w, a) ==
  LET m == MulGeneric([ame EXCEPT !.x[0] = w], op, a)
  IN IF MulOps[op][1] = "none" THEN Quiet(m, {}) ELSE Write(m, a)

(* mpyi (Imm8s x): x0 := SE(8, x), p0 := x0 * y0 signed. *)
Mpyi(c) ==
  Quiet(DoMultiplication([ame EXCEPT !.x[0] = SignExtendImm(c, 8)], 0, TRUE, TRUE), {})

(* clrp0, clrp1, clrp: the products are cleared through ProductFromBus32. *)
Clrp(units) ==
  Quiet([ame EXCEPT !.p = [u \in 0 .. 1 |-> IF u \in units THEN [hi |-> 0, lo |-> 0] ELSE @[u]],
                    !.psign = [u \in 0 .. 1 |-> IF u \in units THEN 0 ELSE @[u]]], {})

(* p0 then p1 multiplied with the signs <<x0, y0, x1, y1>>. *)
MulBoth(m, sg) == DoMultiplication(DoMultiplication(m, 0, sg[1], sg[2]), 1, sg[3], sg[4])

(* mac_x1to0 (Ax a): x0 := x1, then MulGeneric's Mac. *)
MacX1to0(a) == Mul("Mac", ame.x[1], a)

(* sqr_sqr_add3 (Ab a, Ab b), sqr_mpysu_add3a (Ab a, Ab b): a is read,    *)
(* add3_p0_p1 (add3_p0_p1a) sums into b, then x0 = y0 = bits 31..16 of   *)
(* the value read, x1 = bits 15..0 and y1 = x1 (bits 31..16 for mpysu);  *)
(* p0 := x0 * y0 signed, p1 := x1 * y1 (x1 unsigned for mpysu).          *)
SqrAdd3(mpysu, a, b) ==
  LET v == ame.acc[a]
      h == v.hi % W16
      s == ProductSum(ame, "Acc", b, PAdd, IF mpysu THEN PAdda ELSE PAdd)
      xy == [s EXCEPT !.x[0] = h, !.x[1] = v.lo, !.y[0] = h, !.y[1] = IF mpysu THEN h ELSE v.lo]
  IN Write(MulBoth(xy, <<TRUE, TRUE, ~mpysu, TRUE>>), b)

(* mma (RegName a, the four signs, base, p0 and p1 configurations), the  *)
(* register form: the product sum into a, x0 and x1 swapped, then p0 and *)
(* p1 multiplied.  The decoder's combinations are not in the source: the *)
(* sums are those of ProductSumHandlers, the signs all signed or su.     *)
MmaSigns == {<<TRUE, TRUE, TRUE, TRUE>>, <<FALSE, TRUE, FALSE, TRUE>>}

Mma(h, a, sg) ==
  LET t == ProductSumHandlers[h]
      s == ProductSum(ame, t[1], a, t[2], t[3])
  IN Write(MulBoth([s EXCEPT !.x[0] = s.x[1], !.x[1] = s.x[0]], sg), a)

(***************************************************************************)
(* Compare and the Viterbi registers.                                      *)
(***************************************************************************)
(* cmp (Ax a, Bx b), (Bx a, Ax b), cmp_b0_b1, cmp_b1_b0, cmp_p1_to (Ax b): *)
(* SetAccFlag of b - a through AddSub; no accumulator is written.         *)
CmpPairs == (Ax \X Bx) \cup {q \in Bx \X AccNames : q[1] # q[2]}

Cmp(va, b) ==
  LET r == AddSub(ame, ame.acc[b], va, TRUE)
  IN Clobber(SetAccFlag(r.m, r.v))

(* max2_vtr, min2_vtr (Ax a) against the counter accumulator, and        *)
(* (Ax a, Bx b): a is written through SetAcc_Simple.                     *)
VtrPairs == {<<"a0", "a1">>, <<"a1", "a0">>} \cup (Ax \X Bx)
MinMax2Vtr(a, b, min) == Quiet(MinMaxVtr(ame, a, b, min), {a})

(* vtrclr0, vtrclr1, vtrclr, and vtrshr on its own. *)
VtrClr(units) ==
  Quiet([ame EXCEPT !.vtr[0] = IF 0 \in units THEN 0 ELSE @, !.vtr[1] = IF 1 \in units THEN 0 ELSE @], {})
VtrShrOp == Quiet(VtrShr(ame), {})

(* vtrmov0, vtrmov1, vtrmov (Axl a): vtr0, vtr1, or the high byte of vtr1 *)
(* over the high byte of vtr0, zero-extended to a through SetAcc.        *)
VtrWord(m, k) ==
  CASE k = 0 -> m.vtr[0]
    [] k = 1 -> m.vtr[1]
    [] k = 2 -> (m.vtr[1] & 65280) | (m.vtr[0] \div 256)
VtrMov(k, a) == Write(SetAcc(ame, a, FromWord(VtrWord(ame, k)), FALSE), a)

(* load_ps (Imm2), load_ps01 (Imm4), mov_sv (memory word or Imm8s). *)
LoadPs(c) == Quiet([ame EXCEPT !.ps[0] = c], {})
LoadPs01(c) == Quiet([ame EXCEPT !.ps[0] = c % 4, !.ps[1] = c \div 4], {})
MovSv(w) == Quiet([ame EXCEPT !.sv = w], {})

(***************************************************************************)
(* The specification.                                                      *)
(***************************************************************************)
Init ==
  /\ ame \in Inits
  /\ flagged = NoFlags
  /\ ops = 0
  /\ fault = FALSE

Halves == AccNames \X {"l", "h"}

Next ==
  \/ \E p \in AccPairs, sub \in BOOLEAN : AddSubAcc(p[1], p[2], sub)
  \/ \E p \in ProductPairs, sub \in BOOLEAN : AddSubProduct(p[1], p[2], sub)
  \/ \E h \in DOMAIN ProductSumHandlers, c \in AccNames : ProductSumOp(h, c)
  \/ \E h \in DOMAIN SvProductSumHandlers, w \in Words, b \in Bx : MovProductSumSv(h, w, b)
  \/ \E op \in AlmOps, w \in Words, b \in Ax : Alm(op, w, b)
  \/ \E w \in Words, b \in Ax : AluAndImm8(w % 256, b)
  \/ \E op \in AlmOps, src \in {"a0", "a1", "p"}, b \in Ax : AlmBus40(op, src, b)
  \/ \E op \in AlbOps, w \in Words, h \in Halves : AlbAcc(op, w, h[1], h[2])
  \/ \E q \in OrPairs, c \in Ax : AndOr("Or", q[1], q[2], c)
  \/ \E a, b \in AccNames, c \in Ax : AndOr("And", a, b, c)
  \/ \E op \in ModaOps, a \in AccNames : (op = "Copy" => a \in Ax) /\ Moda(op, a)
  \/ \E a \in Ax : Pacr1(a)
  \/ \E a, b \in AccNames : Shfc(a, b)
  \/ \E a, b \in AccNames, c \in ShiftImms : Shfi(a, b, c)
  \/ \E w \in Words, b \in AccNames : Movs(w, b)
  \/ \E w \in Words, b \in AccNames, c \in ShiftImms : c < 32 /\ Movsi(w, b, c)
  \/ \E w \in Words, b \in Ax : Divs(w, b)
  \/ \E t \in DOMAIN SwapTypes : Swap(t)
  \/ \E a \in AccNames, b \in Ax \cup {"none"} : ExpAcc(a, b)
  \/ \E w \in Words, b \in Ax \cup {"none"} : ExpWord(w, b)
  \/ \E a, b \in Ax : Lim(a, b)
  \/ \E a \in AccNames, b \in Ax : MovrAcc(a, b)
  \/ \E b \in Ax : MovrP(b)
  \/ \E w \in Words, b \in AccNames : MovrHigh(w, b)
  \/ \E w \in Words, b \in Ax : MovrWord(w, b)
  \/ \E op \in DOMAIN MulOps, w \in Words, a \in Ax : Mul(op, w, a)
  \/ \E w \in Words : Mpyi(w % 256)
  \/ \E a \in Ax : MacX1to0(a)
  \/ \E mpysu \in BOOLEAN, a, b \in AccNames : SqrAdd3(mpysu, a, b)
  \/ \E h \in DOMAIN ProductSumHandlers, a \in AccNames, sg \in MmaSigns : Mma(h, a, sg)
  \/ \E q \in CmpPairs : Cmp(ame.acc[q[1]], q[2])
  \/ \E b \in Ax : Cmp(ProductToBus40(ame, 1), b)
  \/ \E q \in VtrPairs, min \in BOOLEAN : MinMax2Vtr(q[1], q[2], min)
  \/ \E u \in {{0}, {1}, {0, 1}} : VtrClr(u)
  \/ VtrShrOp
  \/ \E k \in 0 .. 2, a \in Ax : VtrMov(k, a)
  \/ \E u \in {{0}, {1}, {0, 1}} : Clrp(u)
  \/ \E c \in 0 .. 3 : LoadPs(c)
  \/ \E c \in 0 .. 15 : LoadPs01(c)
  \/ \E w \in Words : MovSv(w)

Spec == Init /\ [][Next]_vars

(***************************************************************************)
(* Properties.                                                             *)
(***************************************************************************)
Bit01 == {0, 1}
Word16 == 0 .. W16 - 1
Product32 == [hi : Word16, lo : Word16]

AmeRegs ==
  [acc : [AccNames -> Bus40], fz : Bit01, fm : Bit01, fn : Bit01, fe : Bit01,
   fv : Bit01, flv : Bit01, fc0 : Bit01, fls : Bit01, sar : [0 .. 1 -> Bit01],
   s : Bit01, sv : Word16, x : [0 .. 1 -> Word16], y : [0 .. 1 -> Word16],
   p : [0 .. 1 -> Product32], psign : [0 .. 1 -> Bit01], ps : [0 .. 1 -> 0 .. 3],
   ym : 0 .. 3, vtr : [0 .. 1 -> Word16], fc1 : Bit01]

TypeOK ==
  /\ ame \in AmeRegs
  /\ flagged \in [acc : AccNames \cup {"none"}, via : {"SetAcc", "Shift", "none"}]
  /\ ops \in 0 .. MaxOps
  /\ fault \in BOOLEAN

(* Spec 4.4 / 7: LV and fls are latches. No handler clears them (AddSub,  *)
(* Neg, norm, ShiftBus40 and the saturators only ever set them), and a    *)
(* handler that raises V also sets LV, including the product sums, whose  *)
(* V is the OR or XOR of the two AddSub steps' V.                        *)
OverflowLatched ==
  [][ /\ ame.flv = 1 => ame'.flv = 1
      /\ ame.fls = 1 => ame'.fls = 1
      /\ (ame.fv = 0 /\ ame'.fv = 1) => ame'.flv = 1 ]_vars

(* Spec 4.2 / 8: the Z and M flags describe the accumulator the last      *)
(* flag-setting write stored through SetAcc, however many handlers ran     *)
(* since that left the flags and that accumulator alone: SetAcc takes the *)
(* flags before saturating, and the saturator keeps zero and the sign     *)
(* (swap's two writes, lim, norm, the rotations, the multiply-adds).      *)
FlagsDescribeWrite ==
  flagged.via = "SetAcc" =>
    /\ ame.fz = Flag(IsZero(ame.acc[flagged.acc]))
    /\ ame.fm = Sign(ame.acc[flagged.acc])

(* Spec 4.2 / 4.4 / 8: the same for every accumulator write, the shifter's *)
(* included: spec 4.4 stores the shifted value through SetAccFlag and the  *)
(* saturator of 4.2, which clamps by the sign of bit 39 of that value.    *)
SpecFlagsDescribeWrite ==
  flagged.acc # "none" =>
    /\ ame.fz = Flag(IsZero(ame.acc[flagged.acc]))
    /\ ame.fm = Sign(ame.acc[flagged.acc])
====
