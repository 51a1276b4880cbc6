---------------------------- MODULE MCAMEArith ----------------------------
(***************************************************************************)
(* Bounded checks of the accumulator arithmetic of AMEArith against exact *)
(* integer arithmetic.  A probe is one call on registers whose flags are  *)
(* clear: AddSub of two bus values, a store through SetAcc, an ALM        *)
(* operation, a shift by ShiftBus40, a shift by the Exp of the value, or  *)
(* a read of the product bus.  Compute evaluates the call once.           *)
(*                                                                         *)
(* The reference is a signed pair [shi, lo] standing for shi * 2^16 + lo, *)
(* shi an unbounded integer (kept below 2^27 in magnitude where only its  *)
(* range matters), so it never relies on the 40-bit limbs of the bus.     *)
(***************************************************************************)
EXTENDS RegStack, Sequences

(* A bus value from a signed high part and a low word. *)
V(shi, lo) == [hi |-> shi % W24, lo |-> lo]

Vals ==
  { V(0, 0), V(0, 1), V(-1, 65535), V(-1, 65520), V(32767, 65535), V(32768, 0),
    V(-32768, 0), V(-32769, 65535), V(255, 65535), V(16384, 0),
    V(2^23 - 1, 65535), V(-2^23, 0), V(-5, 12345) }
ShiftAmounts == {0, 1, 4, 16, 31, 39, 40, 41, 65535, 65532, 65520, 65505, 65497, 65496, 32768}
Words == {1, 32768, 65535}

Regs0(s, sar1) ==
  [acc |-> [a0 |-> Zero40, a1 |-> Zero40, b0 |-> Zero40, b1 |-> Zero40],
   fz |-> 0, fm |-> 0, fn |-> 0, fe |-> 0, fv |-> 0, flv |-> 0, fc0 |-> 0, fls |-> 0,
   sar |-> [i \in 0 .. 1 |-> IF i = 1 THEN sar1 ELSE 0], s |-> s, sv |-> 0,
   x |-> [i \in 0 .. 1 |-> 0], y |-> [i \in 0 .. 1 |-> 0],
   p |-> [i \in 0 .. 1 |-> [hi |-> 0, lo |-> 0]], psign |-> [i \in 0 .. 1 |-> 0],
   ps |-> [i \in 0 .. 1 |-> 0], ym |-> 0, vtr |-> [i \in 0 .. 1 |-> 0], fc1 |-> 0]

(* 2^31 - 1, -2^31 and 1 as psign:p, and the four product configurations. *)
PSumProducts ==
  { [p |-> [hi |-> 32767, lo |-> 65535], psign |-> 0], [p |-> [hi |-> 32768, lo |-> 0], psign |-> 1],
    [p |-> [hi |-> 0, lo |-> 1], psign |-> 0] }
PSumConfigs == [align : BOOLEAN, sub : BOOLEAN]

(* Divisors, and dividends nh * 2^16 + nl with nh < d: the quotient     *)
(* fits in 16 bits.                                                      *)
DivDs == {1, 3, 255, 256, 32767, 32768, 65535}
DivLows == {0, 1, 255, 32768, 65535}
DivHighs(d) == {h \in {0, 1, d \div 2, d - 1} : h < d}

(* Arrays of three words scanned by a min/max handler from r0 = 101 on, *)
(* from an accumulator at the 40-bit edges, mixp starting at 0.          *)
ScanStarts == {V(0, 0), V(-1, 65535), V(2^23 - 1, 65535), V(-2^23, 0), V(0, 1)}
ScanWords == {0, 1, 32767, 32768, 65535}

(* Lanes at their signed edges for the vtr runs; vtr0 and vtr1 start    *)
(* with alternating bits so that the shift is seen.                      *)
VtrVals == {V(h, l) : h \in {0, -1, 2^23 - 1, -2^23}, l \in {0, 32767, 32768, 65535}}
VtrStart == [i \in 0 .. 1 |-> IF i = 0 THEN 43690 ELSE 21845]

(* Words for the multiply-accumulate runs: 1, the most negative and -1   *)
(* signed (32768 and 65535 unsigned).                                    *)
MacWords == {1, 32768, 65535}
MacOps == {"Mac", "Macsu", "Macus", "Macuu"}

(* Register-stack runs: saves of three distinct registers pushed and     *)
(* popped in reverse order, from sp = 0 (the first push wraps to 65535)  *)
(* or 100.  A save is a                                                    *)
(* 16-bit register through push/pop(Register) or the named forms, the    *)
(* high word of p (Register p), a product through push/pop(Px), b1       *)
(* through pusha/popa, or a0 as its extension byte and 32 bits (push a0e, *)
(* pusha a0; popa a0, pop a0e).  a0 fits 32 bits or not, b1 = -2^31 - 1; *)
(* the products are 0x8000'0001 with psign set and clear and 0x0001'0002, *)
(* p1 always 0x8000'0001 with psign clear.                                *)
StackItems ==
  {[kind |-> "word", reg |-> r] : r \in {"x0", "sv", "r6", "p"}}
  \cup {[kind |-> "px", reg |-> u] : u \in 0 .. 1}
  \cup {[kind |-> "a32", reg |-> "b1"], [kind |-> "a40", reg |-> "a0"]}
(* The register a save holds: p through Register is p0. *)
SavedReg(it) ==
  CASE it.kind = "px" -> <<"p", it.reg>>
    [] it.reg = "p" -> <<"p", 0>>
    [] OTHER -> <<it.reg, 0>>
StackOrders ==
  {s \in [1 .. 3 -> StackItems] : \A i, j \in 1 .. 3 : i # j => SavedReg(s[i]) # SavedReg(s[j])}
StackAccs == {V(-1, 65520), V(32768, 0), V(2^23 - 1, 65535)}
StackProducts ==
  {[p |-> [hi |-> 32768, lo |-> 1], psign |-> s] : s \in {0, 1}} \cup
  {[p |-> [hi |-> 1, lo |-> 2], psign |-> 0]}

(* Four different values, two of them outside the 32-bit range. *)
SwapAccs ==
  { [a0 |-> V(-32769, 65535), a1 |-> V(0, 1), b0 |-> V(2^23 - 1, 65535), b1 |-> V(-1, 65520)],
    [a0 |-> V(-5, 12345), a1 |-> V(32768, 0), b0 |-> V(-1, 65535), b1 |-> V(255, 65535)] }

Probes ==
  [kind : {"addsub"}, a : Vals, b : Vals, sub : BOOLEAN]
  \cup [kind : {"store"}, a : Vals, sar : {0, 1}]
  \cup [kind : {"alm"}, a : Vals, op : {"Add", "Sub", "Cmp", "Addh"}, w : Words]
  \cup [kind : {"shift"}, a : Vals, sv : ShiftAmounts, s : {0, 1}, sar : {0, 1}]
  \cup [kind : {"exp"}, a : Vals]
  \cup [kind : {"product"}, p : {[hi |-> h, lo |-> l] : h \in {0, 32767, 32768, 65535}, l \in {0, 1, 65535}},
        psign : {0, 1}, ps : 0 .. 3]
  \cup UNION {[kind : {"divs"}, d : {d}, nh : DivHighs(d), nl : DivLows] : d \in DivDs}
  \cup [kind : {"scan"}, op : {"ge", "gt", "le", "lt"}, u0 : ScanStarts,
        arr : [1 .. 3 -> ScanWords]]
  \cup [kind : {"psum"}, a : Vals, base : {"Zero", "Acc"}, q0 : PSumProducts, q1 : PSumProducts,
        ps : {0, 3}, c0 : PSumConfigs, c1 : PSumConfigs]
  \cup [kind : {"vtr"}, min : BOOLEAN, u0 : VtrVals, vs : [1 .. 2 -> VtrVals]]
  \cup [kind : {"mac"}, op : MacOps, xs : [1 .. 3 -> MacWords], ys : [1 .. 3 -> MacWords], ps : {0, 1}]
  \cup [kind : {"stack"}, items : StackOrders, a0 : StackAccs, sar : [0 .. 1 -> {0, 1}],
        q0 : StackProducts, ps : {0, 1}, sp : {0, 100}]
  \cup [kind : {"norm"}, a : Vals, sar : {0, 1}]
  \cup [kind : {"swap"}, t : DOMAIN SwapTypes, acc : SwapAccs, sar : {0, 1}]

VARIABLES probe, out, done

(* Store saturation off (sar[1] set) so that the sum is stored as it is. *)
PSumRegs(pr) ==
  [Regs0(0, 1) EXCEPT !.acc["a0"] = pr.a, !.p = [i \in 0 .. 1 |-> IF i = 0 THEN pr.q0.p ELSE pr.q1.p],
                      !.psign = [i \in 0 .. 1 |-> IF i = 0 THEN pr.q0.psign ELSE pr.q1.psign],
                      !.ps = [i \in 0 .. 1 |-> pr.ps]]

(* k divs steps on one accumulator by one word, as `rep #k-1` runs them. *)
RECURSIVE DivsRepeat(_, _, _)
DivsRepeat(v, d, k) == IF k = 0 THEN v ELSE DivsRepeat(DivsStep(v, d), d, k - 1)

(* max_*_r0 / min_*_r0 under rep: element i is read at r0 = 100 + i.    *)
RECURSIVE MinMaxScan(_, _, _, _)
MinMaxScan(kind, st, arr, i) ==
  IF i > 3 THEN st
  ELSE MinMaxScan(kind, MinMaxStep(kind, st.acc, SignExtend16(arr[i]), st.mixp, 100 + i), arr, i + 1)

(* max2_vtr (min2_vtr) a0, b0 with b0 loaded with vs[i] before step i. *)
RECURSIVE VtrRun(_, _, _, _)
VtrRun(m, vs, min, i) ==
  IF i \notin DOMAIN vs THEN m
  ELSE VtrRun(MinMaxVtr([m EXCEPT !.acc["b0"] = vs[i]], "a0", "b0", min), vs, min, i + 1)

(* rep 3 of mac (R45 y, R0123 x, a0) over the arrays, as the memory form *)
(* loads y0 and x0 before MulGeneric; step 4 is a closing mac on x0 =    *)
(* y0 = 0 that adds the last product.                                     *)
RECURSIVE MacRun(_, _, _)
MacRun(m, pr, i) ==
  IF i > 4 THEN m
  ELSE LET w(a) == IF i <= 3 THEN a[i] ELSE 0
       IN MacRun(MulGeneric([m EXCEPT !.y[0] = w(pr.ys), !.x[0] = w(pr.xs)], pr.op, "a0"), pr, i + 1)

StackStart(pr) ==
  [m |-> [Regs0(0, 0) EXCEPT !.acc["a0"] = pr.a0, !.acc["b1"] = V(-32769, 65535), !.sar = pr.sar,
                             !.x[0] = 43690, !.sv = 21845,
                             !.p = [i \in 0 .. 1 |-> IF i = 0 THEN pr.q0.p ELSE [hi |-> 32768, lo |-> 1]],
                             !.psign[0] = pr.q0.psign, !.ps[0] = pr.ps],
   g |-> [r |-> [i \in 0 .. 7 |-> IF i = 6 THEN 4660 ELSE 0]], d |-> << >>, sp |-> pr.sp]

StackSave(st, it) ==
  CASE it.kind = "word" -> PushRegister(st, it.reg)
    [] it.kind = "px" -> PushPx(st, it.reg)
    [] it.kind = "a32" -> Pusha(st, it.reg)
    [] it.kind = "a40" -> Pusha(PushAbe(st, it.reg), it.reg)

StackRestore(st, it) ==
  CASE it.kind = "word" -> PopRegister(st, it.reg)
    [] it.kind = "px" -> PopPx(st, it.reg)
    [] it.kind = "a32" -> Popa(st, it.reg)
    [] it.kind = "a40" -> PopAbe(Popa(st, it.reg), it.reg)

StackRun(st, its) ==
  LET up == StackSave(StackSave(StackSave(st, its[1]), its[2]), its[3])
  IN StackRestore(StackRestore(StackRestore(up, its[3]), its[2]), its[1])

(* k norm steps on a0 (rep k - 1 norm), each a no-op while N is set. *)
RECURSIVE NormRepeat(_, _)
NormRepeat(m, k) == IF k = 0 THEN m ELSE NormRepeat(IF m.fn # 0 THEN m ELSE NormShift(m, "a0"), k - 1)

(* swap t twice on the accumulators acc. *)
SwapTwice(pr) ==
  LET m == [Regs0(0, pr.sar) EXCEPT !.acc = pr.acc] IN SwapRegs(SwapRegs(m, pr.t), pr.t)

Run(pr) ==
  CASE pr.kind = "addsub" -> AddSub(Regs0(0, 0), pr.a, pr.b, pr.sub)
    [] pr.kind = "store" -> [m |-> SetAcc(Regs0(0, pr.sar), "a0", pr.a, FALSE), v |-> pr.a]
    [] pr.kind = "alm" ->
         [m |-> AlmGeneric([Regs0(0, 0) EXCEPT !.acc["a0"] = pr.a], pr.op,
                           ExtendOprandForAlm(pr.op, pr.w), "a0"), v |-> pr.a]
    [] pr.kind = "shift" -> [m |-> ShiftBus40(Regs0(pr.s, pr.sar), pr.a, pr.sv, "a0"), v |-> pr.a]
    [] pr.kind = "exp" -> [m |-> ShiftBus40(Regs0(0, 0), pr.a, Exp(pr.a), "a0"), v |-> pr.a]
    [] pr.kind = "product" ->
         LET m == [Regs0(0, 0) EXCEPT !.p[0] = pr.p, !.psign[0] = pr.psign, !.ps[0] = pr.ps]
         IN [m |-> m, v |-> ProductToBus40(m, 0)]
    [] pr.kind = "divs" -> [m |-> Regs0(0, 0), v |-> DivsRepeat(V(pr.nh, pr.nl), pr.d, 16)]
    [] pr.kind = "scan" ->
         LET st == MinMaxScan(pr.op, [acc |-> pr.u0, fm |-> 0, mixp |-> 0], pr.arr, 1)
         IN [m |-> Regs0(0, 0), v |-> st.acc, mixp |-> st.mixp]
    [] pr.kind = "psum" -> [m |-> ProductSum(PSumRegs(pr), pr.base, "a0", pr.c0, pr.c1), v |-> pr.a]
    [] pr.kind = "vtr" ->
         LET m == VtrRun([Regs0(0, 0) EXCEPT !.acc["a0"] = pr.u0, !.vtr = VtrStart], pr.vs, pr.min, 1)
         IN [m |-> m, v |-> m.acc["a0"]]
    [] pr.kind = "mac" ->
         LET m == MacRun([Regs0(0, 1) EXCEPT !.ps = [i \in 0 .. 1 |-> pr.ps]], pr, 1)
         IN [m |-> m, v |-> m.acc["a0"]]
    [] pr.kind = "stack" ->
         LET st == StackRun(StackStart(pr), pr.items) IN [m |-> st.m, v |-> Zero40, st |-> st]
    [] pr.kind = "norm" ->
         LET m0 == SetAcc(Regs0(0, pr.sar), "a0", pr.a, FALSE)
         IN [m |-> NormRepeat(m0, 32), v |-> m0.acc["a0"], one |-> NormRepeat(m0, 1)]
    [] pr.kind = "swap" ->
         [m |-> SwapRegs([Regs0(0, pr.sar) EXCEPT !.acc = pr.acc], pr.t), v |-> Zero40,
          two |-> SwapTwice(pr)]

Init ==
  /\ probe \in Probes
  /\ out = [m |-> Regs0(0, 0), v |-> Zero40]
  /\ done = FALSE

Compute ==
  /\ ~done
  /\ out' = Run(probe)
  /\ done' = TRUE
  /\ UNCHANGED probe

Spec == Init /\ [][Compute]_<<probe, out, done>>

(***************************************************************************)
(* The exact reference.                                                    *)
(***************************************************************************)
SHi(v) == IF v.hi >= 2^23 THEN v.hi - W24 ELSE v.hi
Exact(v) == [shi |-> SHi(v), lo |-> v.lo]
InRange(x, n) == -2^(n - 17) <= x.shi /\ x.shi < 2^(n - 17)
(* The number of bits of x besides its sign. *)
BitLen(n) == CHOOSE b \in 0 .. 31 : n < 2^b /\ (b = 0 \/ n >= 2^(b - 1))
SigBits(x) ==
  LET y == IF x.shi >= 0 THEN x ELSE [shi |-> -x.shi - 1, lo |-> W16 - 1 - x.lo]
  IN IF y.shi = 0 THEN BitLen(y.lo) ELSE 16 + BitLen(y.shi)
(* Stands for any value of 42 bits or more, of the sign of x. *)
Huge(x) == [shi |-> IF x.shi < 0 THEN -2^26 ELSE 2^26, lo |-> 0]

(* floor(x * 2^k) for a shift of up to 41 places; every answer below is *)
(* the same for larger shifts.                                           *)
ScaleUp(x, n) ==
  CASE SigBits(x) + n > 41 -> Huge(x)
    [] n <= 16 -> [shi |-> x.shi * 2^n + x.lo \div 2^(16 - n), lo |-> (x.lo % 2^(16 - n)) * 2^n]
    [] OTHER -> [shi |-> (x.shi * W16 + x.lo) * 2^(n - 16), lo |-> 0]
ScaleDown(x, n) ==
  IF n <= 16
  THEN [shi |-> x.shi \div 2^n, lo |-> x.lo \div 2^n + (x.shi % 2^n) * 2^(16 - n)]
  ELSE LET y == x.shi \div 2^(n - 16) IN [shi |-> y \div W16, lo |-> y % W16]
ScaleBy(x, k) ==
  IF k >= 0 THEN ScaleUp(x, IF k > 41 THEN 41 ELSE k)
  ELSE ScaleDown(x, IF k < -41 THEN 41 ELSE -k)

Scaled(a, k) == ScaleBy(Exact(a), k)

Clamp32(x) ==
  IF x.shi < -2^15 THEN MinSat ELSE IF x.shi >= 2^15 THEN MaxSat ELSE V(x.shi, x.lo)

Done == done

(* Spec 4.4 and 8, AddSub: the result is a +- b modulo 2^40, V is set    *)
(* (and latched in LV) exactly when the signed result leaves the 40-bit  *)
(* range, C is the carry or borrow out of bit 39, and subtracting b again *)
(* gives a back (AddSub).                                                 *)
AddSubExact ==
  (Done /\ probe.kind = "addsub") =>
    LET sg == IF probe.sub THEN -1 ELSE 1
        lo == probe.a.lo + sg * probe.b.lo
        t == [shi |-> SHi(probe.a) + sg * SHi(probe.b) + lo \div W16, lo |-> lo % W16]
        u == probe.a.hi + sg * probe.b.hi + lo \div W16
        back == AddSub(out.m, out.v, probe.b, ~probe.sub)
    IN /\ out.v = V(t.shi, t.lo)
       /\ out.m.fv = Flag(~InRange(t, 40))
       /\ out.m.flv = out.m.fv
       /\ out.m.fc0 = Flag(u < 0 \/ u >= W24)
       /\ back.v = probe.a

(* Spec 4.2 and 8, saturation on the store path: with sar[1] clear a      *)
(* value outside the signed 32-bit range is stored as the nearest bound   *)
(* and sets fls; any other value, or any value with sar[1] set, is stored *)
(* as it is and leaves fls alone (SetAcc, SaturateAcc).                   *)
StoreSaturates ==
  (Done /\ probe.kind = "store") =>
    LET clamps == probe.sar = 0 /\ ~InRange(Exact(probe.a), 32)
    IN /\ out.m.acc["a0"] = IF clamps THEN Clamp32(Exact(probe.a)) ELSE probe.a
       /\ out.m.fls = Flag(clamps)

(* Spec 4.4, the shifter in arithmetic mode (S = 0): shifting by the     *)
(* signed amount sv multiplies by 2^sv, rounding down; V says the exact  *)
(* result left the 40-bit range; a right shift's C is the last bit       *)
(* shifted out; with sar[1] clear the accumulator receives the exact     *)
(* result clamped to 32 bits, and with sar[1] set the exact result when  *)
(* it fits (ShiftBus40).                                                  *)
ArithmeticShift ==
  (Done /\ probe.kind = "shift" /\ probe.s = 0) =>
    LET k == Signed16(probe.sv)
        x == Scaled(probe.a, k)
        stored == out.m.acc["a0"]
    IN /\ out.m.fv = Flag(~InRange(x, 40))
       /\ k < 0 => out.m.fc0 = Scaled(probe.a, k + 1).lo % 2
       /\ probe.sar = 0 => stored = Clamp32(x)
       /\ (probe.sar = 1 /\ InRange(x, 40)) => stored = V(x.shi, x.lo)

(* Spec 4.4, exponent detection: shifting a value by its Exp (S = 0,     *)
(* saturation on) loses no bit and leaves it normalised: it fits in 32   *)
(* bits without saturating, and N is set (Exp, ShiftBus40, SetAccFlag).  *)
ExpNormalizes ==
  (Done /\ probe.kind = "exp") =>
    LET x == Scaled(probe.a, Signed16(Exp(probe.a)))
    IN /\ out.m.acc["a0"] = V(x.shi, x.lo)
       /\ out.m.fls = 0
       /\ out.m.fn = 1

(* Spec 3, product bus: psign:p read through the product shifter ps is   *)
(* the signed 33-bit product times 1, 1/2 (rounded down), 2 or 4          *)
(* (ProductToBus40).                                                     *)
ProductBusScales ==
  (Done /\ probe.kind = "product") =>
    LET x == ScaleBy([shi |-> probe.p.hi - probe.psign * W16, lo |-> probe.p.lo],
                     CASE probe.ps = 0 -> 0 [] probe.ps = 1 -> -1
                       [] probe.ps = 2 -> 1 [] probe.ps = 3 -> 2)
    IN out.v = V(x.shi, x.lo)

(* Spec 4.4, ProductSum: base +- p0 +- p1 is two AddSub steps whose V   *)
(* are ORed when both products have the same polarity and XORed          *)
(* otherwise (the code asks "Is this correct?"). Whatever the fold, V    *)
(* (and LV) is set whenever the exact sum leaves the 40-bit range; with   *)
(* mixed polarities V says exactly that, a wrap of the first step undone *)
(* by the second included; a sum inside the range is stored exactly.     *)
ProductSumOverflow ==
  (Done /\ probe.kind = "psum") =>
    LET m == PSumRegs(probe)
        term(i, c) == LET x == Exact(ProductToBus40(m, i))
                          y == IF c.align THEN ScaleDown(x, 16) ELSE x
                      IN IF c.sub THEN [shi |-> -y.shi, lo |-> -y.lo] ELSE y
        b == IF probe.base = "Acc" THEN Exact(probe.a) ELSE [shi |-> 0, lo |-> 0]
        t0 == term(0, probe.c0)
        t1 == term(1, probe.c1)
        lo == b.lo + t0.lo + t1.lo
        t == [shi |-> b.shi + t0.shi + t1.shi + lo \div W16, lo |-> lo % W16]
        out40 == ~InRange(t, 40)
    IN /\ out40 => (out.m.fv = 1 /\ out.m.flv = 1)
       /\ probe.c0.sub # probe.c1.sub => out.m.fv = Flag(out40)
       /\ ~out40 => out.m.acc["a0"] = V(t.shi, t.lo)

(* Spec 8 scenario 1: 0x00_FFFF_FFFF + 1 gives 0x01_0000_0000 with C = 1 *)
(* and V = 0 (AddSub).                                                    *)
SpecAddSubScenario ==
  (Done /\ probe.kind = "addsub" /\ probe.a = V(255, 65535) /\ probe.b = V(0, 1) /\ ~probe.sub)
  => out.v = V(256, 0) /\ out.m.fc0 = 1 /\ out.m.fv = 0

(* Spec 8 scenario 2: adding 1 to 0x7FFF_FFFF with sar[1] = 0 stores     *)
(* 0x7FFF_FFFF and sets fls, V and LV (alu add, AlmGeneric, AddSub,      *)
(* SetAcc).                                                               *)
SpecSaturateScenario ==
  (Done /\ probe.kind = "alm" /\ probe.op = "Add" /\ probe.a = V(32767, 65535) /\ probe.w = 1)
  => /\ out.m.acc["a0"] = MaxSat
     /\ out.m.fls = 1 /\ out.m.fv = 1 /\ out.m.flv = 1

(* Spec 8 scenario 3: -16 shifted by sv = 0xFFFC with S = 0 gives -1 and *)
(* C = 1 (ShiftBus40).                                                   *)
SpecShiftScenario ==
  (Done /\ probe.kind = "shift" /\ probe.a = V(-1, 65520) /\ probe.sv = 65532 /\ probe.s = 0)
  => out.m.acc["a0"] = Ones40 /\ out.m.fc0 = 1

(* Spec 8 concrete scenarios 1 to 3 together: the AddSub, saturation and  *)
(* shift scenarios as the spec states them.                               *)
SpecAmeScenarios == SpecAddSubScenario /\ SpecSaturateScenario /\ SpecShiftScenario
(* divs is a restoring division step: 16 of them on a dividend n below   *)
(* d * 2^16 leave the remainder n mod d in the high word and the         *)
(* quotient n div d in the low word (divs, whose difference is taken in  *)
(* u64 and cut back to 40 bits).  The reference divides byte by byte.    *)
DivsDivides ==
  (Done /\ probe.kind = "divs") =>
    LET d == probe.d
        t1 == probe.nh * 256 + (probe.nl \div 256)
        t2 == (t1 % d) * 256 + (probe.nl % 256)
    IN out.v = [hi |-> t2 % d, lo |-> (t1 \div d) * 256 + t2 \div d]
(* A min/max scan: rep max_gt_r0 (min_lt_r0) over an array leaves the   *)
(* largest (smallest) element in the accumulator and its first address  *)
(* in mixp, and max_ge_r0 (min_le_r0) the last address of it; when no    *)
(* element beats the starting value (ties count for ge and le) the       *)
(* accumulator and mixp stay as they were.  Compares the sign-extended   *)
(* words with the 40-bit accumulator exactly (max_ge ... min_lt_r0, whose *)
(* difference is taken in u64).                                           *)
WordExact(w) == [shi |-> IF w >= 2^15 THEN -1 ELSE 0, lo |-> w]
ExactLess(x, y) == x.shi < y.shi \/ (x.shi = y.shi /\ x.lo < y.lo)

MinMaxScanFinds ==
  (Done /\ probe.kind = "scan") =>
    LET isMax == probe.op \in {"ge", "gt"}
        strict == probe.op \in {"gt", "lt"}
        better(x, y) == IF isMax THEN ExactLess(y, x) ELSE ExactLess(x, y)
        E(i) == WordExact(probe.arr[i])
        best == CHOOSE e \in {E(i) : i \in 1 .. 3} : \A i \in 1 .. 3 : ~better(E(i), e)
        at == {i \in 1 .. 3 : E(i) = best}
        taken == IF strict THEN better(best, Exact(probe.u0)) ELSE ~better(Exact(probe.u0), best)
        k == IF strict THEN CHOOSE i \in at : \A j \in at : i <= j
             ELSE CHOOSE i \in at : \A j \in at : i >= j
    IN IF taken THEN out.v = V(best.shi, best.lo) /\ out.mixp = 100 + k
       ELSE out.v = probe.u0 /\ out.mixp = 0

(* Spec 4.4, extrema: a run of max2_vtr (min2_vtr) a0, b0 over b0 = v1,  *)
(* then v2, leaves in a0, lane by lane, the signed maximum (minimum) of  *)
(* the start and the vs, and shifts into vtr0 (high lanes) and vtr1 (low *)
(* lanes) one decision per step, the latest at bit 15, above the old     *)
(* bits: a decision is 1 when v's lane was at least as good as the best  *)
(* so far. The Viterbi and SAD loops trace back through these bits       *)
(* (MinMaxVtr, vtrshr).                                                  *)
VtrTraceback ==
  (Done /\ probe.kind = "vtr") =>
    LET L(x, k) == IF k = 0 THEN SignedLane(x.hi, 24) ELSE SignedLane(x.lo, 16)
        good(c, b) == IF probe.min THEN c <= b ELSE c >= b
        Best(S) == CHOOSE b \in S : \A c \in S : good(b, c)
        seen(k, i) == {L(probe.u0, k)} \cup {L(probe.vs[j], k) : j \in 1 .. i}
        d(k, i) == Flag(good(L(probe.vs[i], k), Best(seen(k, i - 1))))
    IN \A k \in 0 .. 1 :
         /\ L(out.v, k) = Best(seen(k, 2))
         /\ out.m.vtr[k] = VtrStart[k] \div 4 + d(k, 1) * 2^14 + d(k, 2) * 2^15

(* x * y exactly as [shi, lo], for |x|, |y| < 2^16: y split into bytes. *)
ExactProduct(x, y) ==
  LET yl == y % 256
      a == x * ((y - yl) \div 256)
      r == (a % 256) * 256 + x * yl
  IN [shi |-> (a - (a % 256)) \div 256 + r \div W16, lo |-> r % W16]

(* Spec 4.4, multiply-accumulate: mac is pipelined, adding the product of *)
(* the previous step to a before it multiplies x0 by y0.  A rep of mac    *)
(* over three word pairs from a = p0 = 0, closed by one more mac, leaves  *)
(* in a the exact sum of the three products, x and y signed for Mac, x    *)
(* unsigned for Macsu, y unsigned for Macus, both for Macuu, each halved  *)
(* (rounding down) when ps = 1 (MulGeneric, DoMultiplication,             *)
(* ProductToBus40; store saturation off).                                 *)
MacAccumulates ==
  (Done /\ probe.kind = "mac") =>
    LET xs == probe.op \in {"Mac", "Macus"}
        ys == probe.op \in {"Mac", "Macsu"}
        val(w, sg) == IF sg THEN Signed16(w) ELSE w
        term(i) == ScaleBy(ExactProduct(val(probe.xs[i], xs), val(probe.ys[i], ys)), -probe.ps)
        lo == term(1).lo + term(2).lo + term(3).lo
        t == [shi |-> term(1).shi + term(2).shi + term(3).shi + lo \div W16, lo |-> lo % W16]
    IN out.v = V(t.shi, t.lo)
(* psign:p as a signed [shi, lo]: psign set stands for p - 2^32. *)
ExactProduct33(m, u) == [shi |-> m.p[u].hi - m.psign[u] * W16, lo |-> m.p[u].lo]

(* What a save comes back as after its push and pop, from the exact      *)
(* values: a 16-bit register as it was; a product as the low 32 bits of  *)
(* psign:p scaled by ps, with psign taken from bit 31 of those; p through *)
(* Register as that scaled value's bits 16-31 over the old low word; b1   *)
(* through pusha/popa clamped to 32 bits with read saturation on and cut *)
(* to its low 32 bits, sign-extended, with it off; a0 through its        *)
(* extension byte and pusha as it was with both saturations off and      *)
(* clamped to 32 bits otherwise.                                          *)
SavedAs(it, st0, st) ==
  LET m0 == st0.m
      m == st.m
      b(u) == ScaleBy(ExactProduct33(m0, u), -m0.ps[u])
      v0 == m0.acc[it.reg]
  IN CASE it.kind = "word" /\ it.reg = "p" ->
            /\ m.p[0] = [hi |-> b(0).shi % W16, lo |-> m0.p[0].lo]
            /\ m.psign[0] = (b(0).shi % W16) \div 2^15
       [] it.kind = "word" /\ it.reg = "r6" -> st.g.r[6] = st0.g.r[6]
       [] it.kind = "word" /\ it.reg = "x0" -> m.x[0] = m0.x[0]
       [] it.kind = "word" /\ it.reg = "sv" -> m.sv = m0.sv
       [] it.kind = "px" ->
            /\ m.p[it.reg] = [hi |-> b(it.reg).shi % W16, lo |-> b(it.reg).lo]
            /\ m.psign[it.reg] = (b(it.reg).shi % W16) \div 2^15
       [] it.kind = "a32" ->
            m.acc[it.reg] = IF m0.sar[0] = 0 THEN Clamp32(Exact(v0))
                            ELSE V(Signed16(v0.hi % W16), v0.lo)
       [] it.kind = "a40" ->
            m.acc[it.reg] = IF m0.sar[0] = 1 /\ m0.sar[1] = 1 THEN v0 ELSE Clamp32(Exact(v0))

(* Three saves pushed onto the data stack and popped in reverse order    *)
(* leave sp where it was and bring each save back as SavedAs says: the   *)
(* words of a pair come back in the order they went on, nested saves do   *)
(* not overwrite each other across the u16 wrap of sp, a product comes   *)
(* back with psign rebuilt from bit 31 (so a psign that differs from bit *)
(* 31, as an unsigned multiply leaves it, is lost) and an accumulator    *)
(* outside 32 bits comes back whole only with both saturations off       *)
(* (push, pop, pusha, popa with RegToBus16, RegFromBus16, SaturateAcc,   *)
(* SetAcc, ProductToBus40, ProductFromBus32).                            *)
StackRoundTrip ==
  (Done /\ probe.kind = "stack") =>
    LET st0 == StackStart(probe)
    IN /\ out.st.sp = probe.sp
       /\ \A k \in 1 .. 3 : SavedAs(probe.items[k], st0, out.st)

(* A load of a through SetAcc followed by norm steps.  Norm shifts while *)
(* N says the value is not normalised (zero, or 32-bit with bits 31 and   *)
(* 30 different), and N comes from the value before the store saturated *)
(* it: so the first norm after a load leaves a normalised value alone and *)
(* doubles any other stored value modulo 2^40, even a clamp to the 32-bit *)
(* bound, which then leaves the 32-bit range; and 32 norms bring a value  *)
(* of the 32-bit range to x * 2^k with k = 31 minus its significant bits, *)
(* never setting V (norm, SetAcc, SetAccFlag).                           *)
NormNormalises ==
  (Done /\ probe.kind = "norm") =>
    LET x == Exact(probe.a)
        s == Exact(out.v)
        normal == (x.shi = 0 /\ x.lo = 0) \/ (InRange(x, 32) /\ SigBits(x) = 31)
        y == ScaleBy(x, 31 - SigBits(x))
    IN /\ out.one.acc["a0"] = IF normal THEN out.v
                              ELSE V(2 * s.shi + s.lo \div 2^15, (2 * s.lo) % W16)
       /\ InRange(x, 32) =>
            /\ out.m.acc["a0"] = IF x.shi = 0 /\ x.lo = 0 THEN probe.a ELSE V(y.shi, y.lo)
            /\ out.m.flv = 0
(* What the mnemonic of a swap names: two accumulators exchanged, two    *)
(* pairs exchanged, or a chain r1 -> r2 -> r3 in which r2 takes r1's     *)
(* value and r3 takes r2's old value.                                     *)
SwapMeaning ==
  [a0b0 |-> <<"a0", "b0">>, a0b1 |-> <<"a0", "b1">>, a1b0 |-> <<"a1", "b0">>, a1b1 |-> <<"a1", "b1">>,
   a0b0a1b1 |-> <<"a0", "b0", "a1", "b1">>, a0b1a1b0 |-> <<"a0", "b1", "a1", "b0">>,
   a0b0a1 |-> <<"a0", "b0", "a1">>, a0b1a1 |-> <<"a0", "b1", "a1">>,
   a1b0a0 |-> <<"a1", "b0", "a0">>, a1b1a0 |-> <<"a1", "b1", "a0">>,
   b0a0b1 |-> <<"b0", "a0", "b1">>, b0a1b1 |-> <<"b0", "a1", "b1">>,
   b1a0b0 |-> <<"b1", "a0", "b0">>, b1a1b0 |-> <<"b1", "a1", "b0">>]

(* The register whose old value accumulator d holds after swap t. *)
SwapSource(t, d) ==
  LET r == SwapMeaning[t]
      pairs == IF Len(r) = 3 THEN {<<r[2], r[1]>>, <<r[3], r[2]>>}
               ELSE {<<r[1], r[2]>>, <<r[2], r[1]>>} \cup
                    (IF Len(r) = 4 THEN {<<r[3], r[4]>>, <<r[4], r[3]>>} ELSE {})
  IN IF \E q \in pairs : q[1] = d THEN (CHOOSE q \in pairs : q[1] = d)[2] ELSE "kept"

(* A stored value: clamped to 32 bits when store saturation is on. *)
Stored(v, sar) == IF sar = 0 THEN Clamp32(Exact(v)) ELSE v

(* swap moves each accumulator's old value where its mnemonic says, all  *)
(* of them read before any is written, each written one through SetAcc's *)
(* store saturation; so an exchange done twice gives every accumulator   *)
(* it named back, clamped to 32 bits when saturation is on (swap,       *)
(* SetAcc).                                                               *)
SwapExchanges ==
  (Done /\ probe.kind = "swap") =>
    /\ \A d \in AccNames :
         out.m.acc[d] = IF SwapSource(probe.t, d) = "kept" THEN probe.acc[d]
                        ELSE Stored(probe.acc[SwapSource(probe.t, d)], probe.sar)
    /\ Len(SwapMeaning[probe.t]) # 3 =>
         \A d \in AccNames :
           out.two.acc[d] = IF SwapSource(probe.t, d) = "kept" THEN probe.acc[d]
                            ELSE Stored(probe.acc[d], probe.sar)
====
