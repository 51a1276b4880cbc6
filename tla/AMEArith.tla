------------------------------ MODULE AMEArith ------------------------------
(***************************************************************************)
(* The arithmetic of the ALU/MAC engine of the Teak interpreter            *)
(* (src/src/interpreter.h): the 40-bit accumulator bus, AddSub, the        *)
(* saturators, SetAccFlag, the shifter ShiftBus40, Exp, the product bus    *)
(* and the multiplier, the product-sum tree, and the ALM/ALB operations.   *)
(*                                                                         *)
(* Every operator takes the AME registers as a record m and returns the    *)
(* new registers (and a value where the C++ function returns one), so a    *)
(* helper that writes flags is modelled together with its writes.          *)
(*                                                                         *)
(* A 40-bit bus value (the u64 the code keeps sign-extended from bit 39)   *)
(* is the record [hi |-> bits 39..16, lo |-> bits 15..0]: TLC's integers   *)
(* are 32 bits wide. A 32-bit product is [hi |-> bits 31..16, lo |-> ..]. *)
(***************************************************************************)
EXTENDS Integers, Bitwise

AccNames == {"a0", "a1", "b0", "b1"}

W16 == 65536
W24 == 16777216
Bus40 == [hi : 0 .. W24 - 1, lo : 0 .. W16 - 1]
Zero40 == [hi |-> 0, lo |-> 0]
Ones40 == [hi |-> W24 - 1, lo |-> W16 - 1]

(* Bit i (0 .. 39) of a bus value. *)
Bit(v, i) == IF i >= 16 THEN (v.hi \div 2^(i - 16)) % 2 ELSE (v.lo \div 2^i) % 2
Sign(v) == Bit(v, 39)
IsZero(v) == v = Zero40

(* v == SignExtend<n>(v): bits n-1 .. 39 are all equal. *)
FitsSigned(v, n) == \A i \in (n - 1) .. 39 : Bit(v, i) = Bit(v, n - 1)

(* SignExtend<n>(v): bits n .. 39 become copies of bit n-1 (1 <= n <= 40). *)
SignExtend(v, n) ==
  IF n >= 16
  THEN [hi |-> (v.hi % 2^(n - 16)) + Bit(v, n - 1) * (W24 - 2^(n - 16)), lo |-> v.lo]
  ELSE [hi |-> Bit(v, n - 1) * (W24 - 1),
        lo |-> (v.lo % 2^n) + Bit(v, n - 1) * (W16 - 2^n)]

(* Conversions of a 16-bit word to the bus: zero extension, SE(16, w)    *)
(* and SE(32, w << 16).                                                   *)
FromWord(w) == [hi |-> 0, lo |-> w]
SignExtend16(w) == SignExtend(FromWord(w), 16)
HighWord(w) == SignExtend([hi |-> w, lo |-> 0], 32)

(* value << 1 and value >> 1 on the 40-bit bus (bits above 39 dropped). *)
Double(v) == [hi |-> (2 * v.hi + v.lo \div 2^15) % W24, lo |-> (2 * v.lo) % W16]
Half(v) == [hi |-> v.hi \div 2, lo |-> v.lo \div 2 + (v.hi % 2) * 2^15]

(* value << n and value >> n (logical) for 0 <= n < 40, limb by limb:    *)
(* only the bits that stay inside bits 0 .. 39 are moved.                *)
ShiftLeftBits(v, n) ==
  IF n <= 16
  THEN [hi |-> (v.hi % 2^(24 - n)) * 2^n + v.lo \div 2^(16 - n),
        lo |-> (v.lo % 2^(16 - n)) * 2^n]
  ELSE [hi |-> (IF n < 24 THEN (v.hi % 2^(24 - n)) * 2^n ELSE 0)
                 + (v.lo % 2^(40 - n)) * 2^(n - 16),
        lo |-> 0]

ShiftRightBits(v, n) ==
  IF n <= 16
  THEN [hi |-> v.hi \div 2^n, lo |-> v.lo \div 2^n + (v.hi % 2^n) * 2^(16 - n)]
  ELSE [hi |-> IF n >= 24 THEN 0 ELSE v.hi \div 2^n, lo |-> (v.hi \div 2^(n - 16)) % W16]

(* Bitwise operations of the bus, limb by limb. *)
BusOr(a, b) == [hi |-> a.hi | b.hi, lo |-> a.lo | b.lo]
BusAnd(a, b) == [hi |-> a.hi & b.hi, lo |-> a.lo & b.lo]
BusXor(a, b) == [hi |-> a.hi ^^ b.hi, lo |-> a.lo ^^ b.lo]

(* 0xFFFF'FFFF'8000'0000 and 0x0000'0000'7FFF'FFFF. *)
MinSat == [hi |-> W24 - 2^15, lo |-> 0]
MaxSat == [hi |-> 2^15 - 1, lo |-> W16 - 1]

(***************************************************************************)
(* Saturation and flags.                                                   *)
(***************************************************************************)
SaturateAccUnconditionalNoFlag(v) ==
  IF ~FitsSigned(v, 32) THEN IF Sign(v) = 1 THEN MinSat ELSE MaxSat ELSE v

(* Mutant: the clamp direction taken from bit 31. *)
SaturateAccUnconditionalBit31(m, v) ==
  IF ~FitsSigned(v, 32)
  THEN [m |-> [m EXCEPT !.fls = 1], v |-> IF Bit(v, 31) = 1 THEN MinSat ELSE MaxSat]
  ELSE [m |-> m, v |-> v]

(* Mutant: the range test one bit too wide. *)
SaturateAccFits33(m, v) ==
  IF ~FitsSigned(v, 33)
  THEN [m |-> [m EXCEPT !.fls = 1], v |-> IF Sign(v) = 1 THEN MinSat ELSE MaxSat]
  ELSE [m |-> m, v |-> v]

SaturateAccUnconditional(m, v) ==
  IF ~FitsSigned(v, 32)
  THEN [m |-> [m EXCEPT !.fls = 1], v |-> IF Sign(v) = 1 THEN MinSat ELSE MaxSat]
  ELSE [m |-> m, v |-> v]

SaturateAcc(m, v, storing) ==
  IF m.sar[storing] = 0 THEN SaturateAccUnconditional(m, v) ELSE [m |-> m, v |-> v]

Flag(b) == IF b THEN 1 ELSE 0

(* Mutant: N set by bits 31 and 30 alone, the 32-bit range test dropped. *)
SetAccFlagNoFe(m, v) ==
  [m EXCEPT !.fz = Flag(IsZero(v)),
            !.fm = Sign(v),
            !.fe = Flag(~FitsSigned(v, 32)),
            !.fn = Flag(IsZero(v) \/ Bit(v, 31) # Bit(v, 30))]

SetAccFlag(m, v) ==
  [m EXCEPT !.fz = Flag(IsZero(v)),
            !.fm = Sign(v),
            !.fe = Flag(~FitsSigned(v, 32)),
            !.fn = Flag(IsZero(v) \/ (FitsSigned(v, 32) /\ Bit(v, 31) # Bit(v, 30)))]

SetAccSimple(m, name, v) == [m EXCEPT !.acc[name] = v]

(* SetAcc(name, value, no_saturation): flags from the value before it is *)
(* saturated on the store path.                                          *)
SetAcc(m, name, v, noSat) ==
  LET f == SetAccFlag(m, v)
      s == IF noSat THEN [m |-> f, v |-> v] ELSE SaturateAcc(f, v, 1)
  IN SetAccSimple(s.m, name, s.v)

(* norm's accumulator part, taken when N is clear: V when bits 39 and 38 *)
(* differ (latched in LV), C from bit 39, and the value shifted left once *)
(* stored through SetAcc_NoSaturation.                                     *)
NormShift(m, a) ==
  LET v == m.acc[a]
      fv == Flag(~FitsSigned(v, 39))
  IN SetAcc([m EXCEPT !.fv = fv, !.flv = IF fv = 1 THEN 1 ELSE @, !.fc0 = Sign(v)], a, Double(v), TRUE)

(* swap: the two-pair forms first exchange a1 with the other b through   *)
(* SetAcc; then d0 := s0 and d1 := s1, each through SetAcc.              *)
SwapTypes ==
  [a0b0 |-> <<"a0", "b0", "b0", "a0", "none">>, a0b1 |-> <<"a0", "b1", "b1", "a0", "none">>,
   a1b0 |-> <<"a1", "b0", "b0", "a1", "none">>, a1b1 |-> <<"a1", "b1", "b1", "a1", "none">>,
   a0b0a1b1 |-> <<"a0", "b0", "b0", "a0", "b1">>, a0b1a1b0 |-> <<"a0", "b1", "b1", "a0", "b0">>,
   a0b0a1 |-> <<"a0", "b0", "b0", "a1", "none">>, a0b1a1 |-> <<"a0", "b1", "b1", "a1", "none">>,
   a1b0a0 |-> <<"a1", "b0", "b0", "a0", "none">>, a1b1a0 |-> <<"a1", "b1", "b1", "a0", "none">>,
   b0a0b1 |-> <<"a0", "b1", "b0", "a0", "none">>, b0a1b1 |-> <<"a1", "b1", "b0", "a1", "none">>,
   b1a0b0 |-> <<"a0", "b0", "b1", "a0", "none">>, b1a1b0 |-> <<"a1", "b0", "b1", "a1", "none">>]

(* The two-pair forms' first exchange of a1 with the other b. *)
SwapPrelude(m, t) ==
  LET other == SwapTypes[t][5]
  IN IF other = "none" THEN m
     ELSE SetAcc(SetAcc(m, "a1", m.acc[other], FALSE), other, m.acc["a1"], FALSE)

(* Mutant: s1 read after d0 has been written. *)
SwapRegsLate(m, t) ==
  LET m0 == SwapPrelude(m, t)
      m1 == SetAcc(m0, SwapTypes[t][2], m0.acc[SwapTypes[t][1]], FALSE)
  IN SetAcc(m1, SwapTypes[t][4], m1.acc[SwapTypes[t][3]], FALSE)

(* u := s0 and v := s1 are read before d0 := u and d1 := v are written. *)
SwapRegs(m, t) ==
  LET m0 == SwapPrelude(m, t)
      m1 == SetAcc(m0, SwapTypes[t][2], m0.acc[SwapTypes[t][1]], FALSE)
  IN SetAcc(m1, SwapTypes[t][4], m0.acc[SwapTypes[t][3]], FALSE)

(***************************************************************************)
(* AddSub: 40-bit unsigned add or subtract; C is bit 40 of the u64        *)
(* result (a borrow sets every bit above 39), V is bit 39 of              *)
(* ~(a ^ b') & (a ^ result) with b' = ~b for a subtraction.               *)
(***************************************************************************)
(* Mutant: V computed as if b were added also for a subtraction. *)
AddSubNoNegate(m, a, b, sub) ==
  LET los == IF sub THEN a.lo - b.lo ELSE a.lo + b.lo
      his == IF sub THEN a.hi - b.hi - Flag(los < 0) ELSE a.hi + b.hi + los \div W16
      r == [hi |-> his % W24, lo |-> los % W16]
      c == IF sub THEN Flag(his < 0) ELSE his \div W24
      v == (1 - (Sign(a) ^^ Sign(b))) * (Sign(a) ^^ Sign(r))
  IN [m |-> [m EXCEPT !.fc0 = c, !.fv = v, !.flv = IF v = 1 THEN 1 ELSE @], v |-> r]

AddSub(m, a, b, sub) ==
  LET los == IF sub THEN a.lo - b.lo ELSE a.lo + b.lo
      his == IF sub THEN a.hi - b.hi - Flag(los < 0)
                    ELSE a.hi + b.hi + los \div W16
      r == [hi |-> his % W24, lo |-> los % W16]
      c == IF sub THEN Flag(his < 0) ELSE his \div W24
      sb == IF sub THEN 1 - Sign(b) ELSE Sign(b)
      v == (1 - (Sign(a) ^^ sb)) * (Sign(a) ^^ Sign(r))
  IN [m |-> [m EXCEPT !.fc0 = c, !.fv = v, !.flv = IF v = 1 THEN 1 ELSE @], v |-> r]

(***************************************************************************)
(* ShiftBus40(value, sv, dest): sv is a 16-bit word, a left shift when    *)
(* bit 15 is clear. S = 0 is the arithmetic mode, which sets V and        *)
(* saturates on the store unless sar[1].                                   *)
(***************************************************************************)
ShiftLeft(m, v, sv) ==
  IF sv >= 40
  THEN LET fv == IF m.s = 0 THEN Flag(~IsZero(v)) ELSE m.fv
       IN [m |-> [m EXCEPT !.fv = fv, !.flv = IF m.s = 0 /\ fv = 1 THEN 1 ELSE @, !.fc0 = 0],
           v |-> Zero40]
  ELSE LET fv == IF m.s = 0 THEN Flag(~FitsSigned(v, 40 - sv)) ELSE m.fv
           c == IF sv = 0 THEN 0 ELSE Bit(v, 40 - sv)
       IN [m |-> [m EXCEPT !.fv = fv, !.flv = IF m.s = 0 /\ fv = 1 THEN 1 ELSE @, !.fc0 = c],
           v |-> ShiftLeftBits(v, sv)]

ShiftRight(m, v, sv) ==
  LET nsv == W16 - sv
      r == IF nsv >= 40
           THEN IF m.s = 0 THEN [c |-> Sign(v), v |-> IF Sign(v) = 1 THEN Ones40 ELSE Zero40]
                ELSE [c |-> 0, v |-> Zero40]
           ELSE LET shifted == ShiftRightBits(v, nsv)
                IN [c |-> Bit(v, nsv - 1),
                    v |-> IF m.s = 0 THEN SignExtend(shifted, 40 - nsv) ELSE shifted]
  IN [m |-> [m EXCEPT !.fc0 = r.c, !.fv = IF m.s = 0 THEN 0 ELSE @], v |-> r.v]

(* Mutant: the clamp direction taken from the shifted value. *)
ShiftBus40NewSign(m, value, sv, dest) ==
  LET sh == IF sv \div 2^15 = 0 THEN ShiftLeft(m, value, sv) ELSE ShiftRight(m, value, sv)
      f == SetAccFlag(sh.m, sh.v)
      sat == f.s = 0 /\ f.sar[1] = 0 /\ (f.fv = 1 \/ ~FitsSigned(sh.v, 32))
  IN IF sat
     THEN SetAccSimple([f EXCEPT !.fls = 1], dest, IF Sign(sh.v) = 1 THEN MinSat ELSE MaxSat)
     ELSE SetAccSimple(f, dest, sh.v)

ShiftBus40(m, value, sv, dest) ==
  LET sh == IF sv \div 2^15 = 0 THEN ShiftLeft(m, value, sv) ELSE ShiftRight(m, value, sv)
      f == SetAccFlag(sh.m, sh.v)
      sat == f.s = 0 /\ f.sar[1] = 0 /\ (f.fv = 1 \/ ~FitsSigned(sh.v, 32))
  IN IF sat
     THEN SetAccSimple([f EXCEPT !.fls = 1], dest,
                       IF Sign(value) = 1 THEN MinSat ELSE MaxSat)
     ELSE SetAccSimple(f, dest, sh.v)

(***************************************************************************)
(* Exp: the number of bits from bit 38 down equal to the sign, minus 8,  *)
(* as a 16-bit word.                                                      *)
(***************************************************************************)
RECURSIVE SignRun(_, _, _)
SignRun(v, sign, bit) ==
  IF Bit(v, bit) # sign THEN 0
  ELSE 1 + (IF bit = 0 THEN 0 ELSE SignRun(v, sign, bit - 1))

(* Mutant: the count starts at bit 39, the sign bit itself. *)
ExpFrom39(v) == (SignRun(v, Sign(v), 39) - 8) % W16

Exp(v) == (SignRun(v, Sign(v), 38) - 8) % W16

(***************************************************************************)
(* max_ge, max_gt, min_le, min_lt: d = v - u in u64 of the sign-extended *)
(* 40-bit values, so its bit 63 is the signed comparison; the handler     *)
(* takes v (and the old r0 into mixp) or leaves u, and sets fm to say    *)
(* which.                                                                  *)
(***************************************************************************)
Less40(u, v) == IF Sign(u) # Sign(v) THEN Sign(u) = 1 ELSE u.hi < v.hi \/ (u.hi = v.hi /\ u.lo < v.lo)

(* Mutant: the sign of d taken at bit 39, as if the difference were cut  *)
(* to 40 bits.                                                             *)
MinMaxTakesWrapped(kind, u, v) ==
  LET los == v.lo - u.lo
      d == [hi |-> (v.hi - u.hi - Flag(los < 0)) % W24, lo |-> los % W16]
  IN CASE kind = "ge" -> Sign(d) = 0
       [] kind = "gt" -> Sign(d) = 0 /\ ~IsZero(d)
       [] kind = "le" -> Sign(d) = 1 \/ IsZero(d)
       [] kind = "lt" -> Sign(d) = 1

MinMaxTakes(kind, u, v) ==
  CASE kind = "ge" -> ~Less40(v, u)
    [] kind = "gt" -> Less40(u, v)
    [] kind = "le" -> ~Less40(u, v)
    [] kind = "lt" -> Less40(v, u)

MinMaxStep(kind, u, v, mixp, r0) ==
  IF MinMaxTakes(kind, u, v) THEN [acc |-> v, fm |-> 1, mixp |-> r0]
  ELSE [acc |-> u, fm |-> 0, mixp |-> mixp]

(***************************************************************************)
(* MinMaxVtr (max2_vtr, min2_vtr and their mov forms): the high 24 and   *)
(* the low 16 bits of u = a and v = b compared as signed lanes; C0 (high) *)
(* and C1 (low) say whether the lane of v was taken (v >= u for max,     *)
(* v <= u for min); the lanes taken go to a through SetAcc_Simple, then  *)
(* vtrshr shifts C0 into vtr0 and C1 into vtr1 from the top.             *)
(***************************************************************************)
SignedLane(x, n) == IF x >= 2^(n - 1) THEN x - 2^n ELSE x

(* Mutant: the lanes compared as unsigned fields. *)
TakesVUnsigned(min, u, v, n) == IF min THEN u - v >= 0 ELSE v - u >= 0

TakesV(min, u, v, n) ==
  IF min THEN SignedLane(u, n) - SignedLane(v, n) >= 0
  ELSE SignedLane(v, n) - SignedLane(u, n) >= 0

VtrShr(m) ==
  [m EXCEPT !.vtr[0] = @ \div 2 + m.fc0 * 2^15, !.vtr[1] = @ \div 2 + m.fc1 * 2^15]

MinMaxVtr(m, a, b, min) ==
  LET u == m.acc[a]
      v == m.acc[b]
      th == TakesV(min, u.hi, v.hi, 24)
      tl == TakesV(min, u.lo, v.lo, 16)
      w == [hi |-> IF th THEN v.hi ELSE u.hi, lo |-> IF tl THEN v.lo ELSE u.lo]
  IN VtrShr([SetAccSimple(m, a, w) EXCEPT !.fc0 = Flag(th), !.fc1 = Flag(tl)])

(***************************************************************************)
(* divs: one step of restoring division.  The difference db - (da << 15)  *)
(* is taken in u64, so it is negative exactly when db is negative or      *)
(* below da << 15; then db is doubled, otherwise the difference is       *)
(* doubled and bit 0 set, both cut to 40 bits.                            *)
(***************************************************************************)
(* Mutant: a zero difference is taken as negative. *)
DivsStepStrict(v, da) ==
  LET sub == [hi |-> da \div 2, lo |-> (da % 2) * 2^15]
      below == Sign(v) = 1 \/ v.hi < sub.hi \/ (v.hi = sub.hi /\ v.lo <= sub.lo)
      los == v.lo - sub.lo
      diff == [hi |-> (v.hi - sub.hi - Flag(los < 0)) % W24, lo |-> los % W16]
  IN IF below THEN Double(v) ELSE [Double(diff) EXCEPT !.lo = @ + 1]

DivsStep(v, da) ==
  LET sub == [hi |-> da \div 2, lo |-> (da % 2) * 2^15]
      below == Sign(v) = 1 \/ v.hi < sub.hi \/ (v.hi = sub.hi /\ v.lo < sub.lo)
      los == v.lo - sub.lo
      diff == [hi |-> (v.hi - sub.hi - Flag(los < 0)) % W24, lo |-> los % W16]
  IN IF below THEN Double(v) ELSE [Double(diff) EXCEPT !.lo = @ + 1]

(***************************************************************************)
(* Products. p[unit] is a 32-bit word [hi, lo] and psign[unit] its       *)
(* extension bit. ProductToBus40 projects psign:p onto the bus through   *)
(* the product shifter ps[unit].                                         *)
(***************************************************************************)
Signed16(w) == IF w >= 2^15 THEN w - W16 ELSE w

(* Mutant: ps = 1 without the halving. *)
ProductToBus40NoHalf(m, unit) ==
  LET v == [hi |-> m.psign[unit] * W16 + m.p[unit].hi, lo |-> m.p[unit].lo]
  IN CASE m.ps[unit] = 0 -> SignExtend(v, 33)
       [] m.ps[unit] = 1 -> SignExtend(v, 32)
       [] m.ps[unit] = 2 -> SignExtend(Double(v), 34)
       [] m.ps[unit] = 3 -> SignExtend(Double(Double(v)), 35)

ProductToBus40(m, unit) ==
  LET v == [hi |-> m.psign[unit] * W16 + m.p[unit].hi, lo |-> m.p[unit].lo]
  IN CASE m.ps[unit] = 0 -> SignExtend(v, 33)
       [] m.ps[unit] = 1 -> SignExtend(Half(v), 32)
       [] m.ps[unit] = 2 -> SignExtend(Double(v), 34)
       [] m.ps[unit] = 3 -> SignExtend(Double(Double(v)), 35)

ProductFromBus32(m, unit, w) ==
  [m EXCEPT !.p[unit] = w, !.psign[unit] = w.hi \div 2^15]

(* x * y modulo 2^32 for x, y in -2^15 .. 2^16 - 1, as [hi, lo]: y is   *)
(* split into bytes so that every partial product stays below 2^25.     *)
Mul32(x, y) ==
  LET yl == y % 256
      yh == (y - yl) \div 256
      t == (((x * yh) % 256) * 256) + x * yl
  IN [hi |-> ((x * yh) \div 256 + t \div W16) % W16, lo |-> t % W16]

(* DoMultiplication(unit, x_sign, y_sign): y halved by the ym mode, both *)
(* operands sign-extended on request, p = x * y (32 bits).               *)
DoMultiplication(m, unit, xSign, ySign) ==
  LET y0 == m.y[unit]
      y1 == IF m.ym = 1 \/ (m.ym = 3 /\ unit = 0) THEN y0 \div 256
            ELSE IF m.ym = 2 \/ (m.ym = 3 /\ unit = 1) THEN y0 % 256
            ELSE y0
      x == IF xSign THEN Signed16(m.x[unit]) ELSE m.x[unit]
      y == IF ySign THEN Signed16(y1) ELSE y1
      p == Mul32(x, y)
  IN [m EXCEPT !.p[unit] = p,
               !.psign[unit] = IF xSign \/ ySign THEN p.hi \div 2^15 ELSE 0]

(***************************************************************************)
(* ProductSum(base, acc, p0, p1): base (+/-) p0 (+/-) p1 with two AddSub; *)
(* C and V of the two steps are ORed when both have the same polarity,   *)
(* XORed otherwise. An aligned product is SE(24, p >> 16).               *)
(***************************************************************************)
SumBases == {"Zero", "Acc", "Sv", "SvRnd"}

AlignProduct(v) == SignExtend([hi |-> v.hi \div W16, lo |-> v.hi % W16], 24)

(* Mutant: the flags of the two steps always ORed. *)
ProductSumOrFold(m, base, acc, c0, c1) ==
  LET pa == ProductToBus40(m, 0)
      pb == ProductToBus40(m, 1)
      va == IF c0.align THEN AlignProduct(pa) ELSE pa
      vb == IF c1.align THEN AlignProduct(pb) ELSE pb
      vc == CASE base = "Zero" -> Zero40
              [] base = "Acc" -> m.acc[acc]
              [] base = "Sv" -> HighWord(m.sv)
              [] base = "SvRnd" -> [HighWord(m.sv) EXCEPT !.lo = 2^15]
      r1 == AddSub(m, vc, va, c0.sub)
      r2 == AddSub(r1.m, r1.v, vb, c1.sub)
      fold(x, y) == x | y
      m2 == [r2.m EXCEPT !.fc0 = fold(@, r1.m.fc0), !.fv = fold(@, r1.m.fv)]
  IN SetAcc(m2, acc, r2.v, FALSE)

ProductSum(m, base, acc, c0, c1) ==
  LET pa == ProductToBus40(m, 0)
      pb == ProductToBus40(m, 1)
      va == IF c0.align THEN AlignProduct(pa) ELSE pa
      vb == IF c1.align THEN AlignProduct(pb) ELSE pb
      vc == CASE base = "Zero" -> Zero40
              [] base = "Acc" -> m.acc[acc]
              [] base = "Sv" -> HighWord(m.sv)
              [] base = "SvRnd" -> [HighWord(m.sv) EXCEPT !.lo = 2^15]
      r1 == AddSub(m, vc, va, c0.sub)
      r2 == AddSub(r1.m, r1.v, vb, c1.sub)
      fold(x, y) == IF c0.sub = c1.sub THEN x | y ELSE x ^^ y
      m2 == [r2.m EXCEPT !.fc0 = fold(@, r1.m.fc0), !.fv = fold(@, r1.m.fv)]
  IN SetAcc(m2, acc, r2.v, FALSE)

(***************************************************************************)
(* MulGeneric: all but Mpy/Mpysu first add p0 (aligned, SE(24, p0 >> 16),*)
(* for Maa/Maasu) to a through AddSub and SetAcc; then p0 := x0 * y0      *)
(* with the op's signedness <<x signed, y signed>>.                       *)
(***************************************************************************)
(* Mutant: Macsu read as "signed x by unsigned y". *)
MulOpsSuSwapped ==
  [Mpy |-> <<"none", TRUE, TRUE>>, Mpysu |-> <<"none", FALSE, TRUE>>,
   Mac |-> <<"add", TRUE, TRUE>>, Macsu |-> <<"add", TRUE, FALSE>>,
   Macus |-> <<"add", TRUE, FALSE>>, Macuu |-> <<"add", FALSE, FALSE>>,
   Maa |-> <<"align", TRUE, TRUE>>, Maasu |-> <<"align", FALSE, TRUE>>]

MulOps ==
  [Mpy |-> <<"none", TRUE, TRUE>>, Mpysu |-> <<"none", FALSE, TRUE>>,
   Mac |-> <<"add", TRUE, TRUE>>, Macsu |-> <<"add", FALSE, TRUE>>,
   Macus |-> <<"add", TRUE, FALSE>>, Macuu |-> <<"add", FALSE, FALSE>>,
   Maa |-> <<"align", TRUE, TRUE>>, Maasu |-> <<"align", FALSE, TRUE>>]

MulGeneric(m, op, a) ==
  LET t == MulOps[op]
      pr == IF t[1] = "align" THEN AlignProduct(ProductToBus40(m, 0)) ELSE ProductToBus40(m, 0)
      r == AddSub(m, m.acc[a], pr, FALSE)
      acc == IF t[1] = "none" THEN m ELSE SetAcc(r.m, a, r.v, FALSE)
  IN DoMultiplication(acc, 0, t[2], t[3])

(***************************************************************************)
(* ALM: operations of an accumulator with a bus operand.                  *)
(***************************************************************************)
AlmOps == {"Or", "And", "Xor", "Tst0", "Tst1", "Cmp", "Cmpu", "Sub", "Subl",
           "Subh", "Add", "Addl", "Addh", "Msu", "Sqra", "Sqr"}
AlmArith == {"Cmp", "Cmpu", "Sub", "Subl", "Subh", "Add", "Addl", "Addh"}

ExtendOprandForAlm(op, w) ==
  CASE op \in {"Cmp", "Sub", "Add"} -> SignExtend16(w)
    [] op \in {"Addh", "Subh"} -> HighWord(w)
    [] OTHER -> FromWord(w)

Sqr(m, a) ==
  DoMultiplication([m EXCEPT !.x[0] = a.lo, !.y[0] = a.lo], 0, TRUE, TRUE)

AlmGeneric(m, op, a, b) ==
  LET acc == m.acc[b]
  IN CASE op = "Or" -> SetAcc(m, b, BusOr(acc, a), TRUE)
       [] op = "And" -> SetAcc(m, b, BusAnd(acc, a), TRUE)
       [] op = "Xor" -> SetAcc(m, b, BusXor(acc, a), TRUE)
       [] op = "Tst0" -> [m EXCEPT !.fz = Flag((acc.lo & a.lo) = 0)]
       [] op = "Tst1" -> [m EXCEPT !.fz = Flag((acc.lo & (W16 - 1 - a.lo)) = 0)]
       [] op \in AlmArith ->
            LET r == AddSub(m, acc, a, op \notin {"Add", "Addl", "Addh"})
            IN IF op \in {"Cmp", "Cmpu"} THEN SetAccFlag(r.m, r.v)
               ELSE SetAcc(r.m, b, r.v, FALSE)
       [] op = "Msu" ->
            LET r == AddSub(m, acc, ProductToBus40(m, 0), TRUE)
            IN DoMultiplication([SetAcc(r.m, b, r.v, FALSE) EXCEPT !.x[0] = a.lo],
                                0, TRUE, TRUE)
       [] op = "Sqra" ->
            LET r == AddSub(m, acc, ProductToBus40(m, 0), FALSE)
            IN Sqr(SetAcc(r.m, b, r.v, FALSE), a)
       [] op = "Sqr" -> Sqr(m, a)

(***************************************************************************)
(* ALB: operations on a 16-bit word; returns the new registers and the   *)
(* result, which the modifying operations write back.                    *)
(***************************************************************************)
AlbOps == {"Set", "Rst", "Chng", "Addv", "Tst0", "Tst1", "Cmpv", "Subv"}
IsAlbModifying(op) == op \in {"Set", "Rst", "Chng", "Addv", "Subv"}

GenericAlb(m, op, a, b) ==
  LET r == CASE op = "Set" -> [v |-> a | b, m |-> [m EXCEPT !.fm = (a | b) \div 2^15]]
             [] op = "Rst" -> LET x == (W16 - 1 - a) & b
                              IN [v |-> x, m |-> [m EXCEPT !.fm = x \div 2^15]]
             [] op = "Chng" -> [v |-> a ^^ b, m |-> [m EXCEPT !.fm = (a ^^ b) \div 2^15]]
             [] op = "Addv" ->
                  [v |-> (a + b) % W16,
                   m |-> [m EXCEPT !.fc0 = Flag(a + b >= W16),
                                   !.fm = Flag(Signed16(b) + Signed16(a) < 0)]]
             [] op = "Tst0" -> [v |-> Flag((a & b) # 0), m |-> m]
             [] op = "Tst1" -> [v |-> Flag((a & (W16 - 1 - b)) # 0), m |-> m]
             [] op \in {"Cmpv", "Subv"} ->
                  [v |-> (b - a) % W16,
                   m |-> [m EXCEPT !.fc0 = Flag(b - a < 0),
                                   !.fm = Flag(Signed16(b) - Signed16(a) < 0)]]
  IN [v |-> r.v, m |-> [r.m EXCEPT !.fz = Flag(r.v = 0)]]

====
