------------------------------ MODULE DataMove ------------------------------
(***************************************************************************)
(* The data-move handlers of the Teak interpreter (src/src/interpreter.h, *)
(* mov ... exchange, lines 1642-2202) with the bus conversions           *)
(* RegToBus16 / RegFromBus16 they go through.  They compose the AME       *)
(* registers of AME (accumulators, x, y, p, sv, flags) with the address   *)
(* registers of AGUArith (agu: r, m, brv, modi/modj, steps) and the data  *)
(* memory dm, a partial function address -> word read as 0 elsewhere     *)
(* (the memory interface is not under src/; the addresses used stay out  *)
(* of the MMIO window).  page is the page field of st1, set by software. *)
(*                                                                         *)
(* Every AME handler stays an action (it leaves agu, dm and page alone).  *)
(* A "Register" operand ranges over the registers the model holds: the   *)
(* accumulators and their halves, x0/x1/y0/y1, sv, p and the rN of the   *)
(* units in agu; the status, configuration and loop registers are        *)
(* outside it.  The decoder's choice of unit, step and offset from the    *)
(* ar/arp registers is abstracted to a choice among all of them.          *)
(*                                                                         *)
(* spill is a history variable: the words a paired store (mova, mov2,    *)
(* mov2s, mov2_ax_mij/mji, mov2_axh_m_y0_m, mov2_abh_m, add_sub_i_mov_j) *)
(* meant to put in memory, and where; empty after any other handler.    *)
(* xchg is the same for an exchange: the address written, the address  *)
(* read, the word that went out and the word memory held at the read     *)
(* address before.                                                        *)
(* mixp is the register the min/max handlers leave the position in.      *)
(***************************************************************************)
EXTENDS AME, AGUArith, RegStack, TLC

CONSTANTS
  AguInits,   \* address-unit set-ups software can establish
  MemInits,   \* data-memory contents, partial functions address -> word
  Pages,      \* values of the page register
  MemImms,    \* immediates: addresses of the direct forms and operands
  MoveSteps,  \* the post-modifications enumerated for the indirect forms
  PcValues    \* values of pc read by mov(pc, Register)

VARIABLES agu, dm, page, spill, xchg, mixp

allVars == <<ame, flagged, ops, fault, agu, dm, page, spill, xchg, mixp>>

(***************************************************************************)
(* Register operands.                                                      *)
(***************************************************************************)
RnRegs == {n \in DOMAIN Rn : Rn[n] \in DOMAIN agu.r}
Axl == {"a0l", "a1l"}
Axh == {"a0h", "a1h"}
Registers == AccNames \cup DOMAIN Lows \cup DOMAIN Highs \cup DOMAIN XY \cup RnRegs \cup {"sv", "p"}

(* Mutant: r7 + imm not wrapped to 16 bits. *)
MemAddressNoWrap(g, kind, imm) ==
  CASE kind = "MemImm8" -> imm + page * 256
    [] kind = "MemImm16" -> imm
    [] kind = "MemR7Imm16" -> imm + g.r[7]
    [] kind = "MemR7Imm7s" -> Wrap16(SignExtendTo16(imm, 7) + g.r[7])

(* The address of a direct form: MemImm8 is page-relative, the r7 forms  *)
(* add r7 (Imm7s sign-extended), all in u16 arithmetic.                  *)
MemAddress(g, kind, imm) ==
  CASE kind = "MemImm8" -> Wrap16(imm + page * 256)
    [] kind = "MemImm16" -> imm
    [] kind = "MemR7Imm16" -> Wrap16(imm + g.r[7])
    [] kind = "MemR7Imm7s" -> Wrap16(SignExtendTo16(imm, 7) + g.r[7])

ImmWidth == [MemImm8 |-> 256, MemImm16 |-> 65536, MemR7Imm16 |-> 65536, MemR7Imm7s |-> 128]

(* RnAddressAndModify: the address presented and the registers after the *)
(* post-modification.                                                    *)
AddressAndModify(g, u, step) ==
  LET r == RnAndModify(g, u, step, FALSE) IN [g |-> r.regs, a |-> RnAddress(g, u, r.ret)]

(* Every unit's AddressAndModify by every step, from the registers of   *)
(* the state; a move takes the entries of the unit and step it names.   *)
Modified(g) == [k \in (DOMAIN g.r) \X MoveSteps |-> AddressAndModify(g, k[1], k[2])]

(* The flags after a handler: SetAcc to acc sets them from that write. *)
Written(acc) == IF acc = "none" THEN flagged ELSE [acc |-> acc, via |-> "SetAcc"]
(* SetAcc_Simple to the accumulators in accs leaves the flags stale. *)
Stale(accs) == IF flagged.acc \in accs THEN NoFlags ELSE flagged

Moved(m, f, g, d, s) ==
  /\ Step(m, f)
  /\ agu' = g /\ dm' = d /\ spill' = s /\ xchg' = {}
  /\ UNCHANGED <<page, mixp>>

(* A handler that ends in RegFromBus16 (or SetAcc) through result r. *)
Loaded(r, d) == Moved(r.m, Written(r.acc), r.g, d, {})

(***************************************************************************)
(* Register to register.                                                   *)
(***************************************************************************)
MovAb(a, b) == Moved(SetAcc(ame, b, ame.acc[a], FALSE), Written(b), agu, dm, {})

(* mov_x0 / mov_x1 / mov_y1 (Abl a). *)
MovToXY(a, d) ==
  LET r == RegToBus16(ame, agu, a) IN Loaded(RegFromBus16(r.m, agu, d, r.w), dm)

(* mov_x0_to / mov_x1_to / mov_y1_to (Ab b). *)
MovXYTo(s, b) == Loaded(RegFromBus16(ame, agu, b, RegToBus16(ame, agu, s).w), dm)

(* mov(Register a, Bx b) *)
MovRegBx(a, b) ==
  CASE a = "p" -> Loaded([m |-> SetAcc(ame, b, ProductToBus40(ame, 0), FALSE), g |-> agu, acc |-> b], dm)
    [] a \in Ax -> MovAb(a, b)
    [] OTHER -> LET r == RegToBus16(ame, agu, a) IN Loaded(RegFromBus16(r.m, agu, b, r.w), dm)

(* mov(Register a, Register b) for a other than p and pc. *)
MovRegReg(a, b) ==
  LET r == RegToBus16(ame, agu, a) IN Loaded(RegFromBus16(r.m, agu, b, r.w), dm)

(* mov(p, Register b): b's encoding parity picks a0 or a1. *)
MovRegRegP(t) == Loaded([m |-> SetAcc(ame, t, ProductToBus40(ame, 0), FALSE), g |-> agu, acc |-> t], dm)

(* mov(pc, Register b) *)
MovRegRegPc(pc, b) ==
  IF b \in Ax
  THEN Loaded([m |-> SetAcc(ame, b, [hi |-> pc \div W16, lo |-> pc % W16], FALSE), g |-> agu, acc |-> b], dm)
  ELSE Loaded(RegFromBus16(ame, agu, b, pc % W16), dm)

(* mov(Imm16 a, Bx/Register b), mov(Imm8s a, Axh/RnOld b), mov_sv(Imm8s), *)
(* mov(Imm8 a, Axl b).                                                   *)
ImmForms == [Imm16 |-> Registers, Imm8s |-> Axh \cup RnRegs \cup {"sv"}, Imm8 |-> Axl]
MovImm(kind, c, b) ==
  LET w == CASE kind = "Imm16" -> c
             [] kind = "Imm8s" -> SignExtendTo16(c % 256, 8)
             [] kind = "Imm8" -> c % 256
  IN Loaded(RegFromBus16(ame, agu, b, w), dm)

(***************************************************************************)
(* Memory to and from registers.                                           *)
(***************************************************************************)
(* mov(Ablh a, MemImm8 b), mov(Axl a, MemImm16 / MemR7Imm16 / MemR7Imm7s *)
(* b), mov(RnOld a, MemImm8 b), mov_sv_to(MemImm8 b): StoreToMemory.     *)
StoreSrcs ==
  [MemImm8 |-> DOMAIN Lows \cup DOMAIN Highs \cup RnRegs \cup {"sv"},
   MemImm16 |-> Axl, MemR7Imm16 |-> Axl, MemR7Imm7s |-> Axl]
StoreMem(kind, imm, a) ==
  LET r == RegToBus16(ame, agu, a)
  IN Moved(r.m, flagged, agu, DataWrite(dm, MemAddress(agu, kind, imm), r.w), {})

(* mov(MemImm16 a, Ax b), mov(MemImm8 a, Ab / Ablh / RnOld b),            *)
(* mov(MemR7Imm16 / MemR7Imm7s a, Ax b), mov_sv(MemImm8 a): LoadFromMemory.*)
LoadDests ==
  [MemImm8 |-> AccNames \cup DOMAIN Lows \cup DOMAIN Highs \cup RnRegs \cup {"sv"},
   MemImm16 |-> Ax, MemR7Imm16 |-> Ax, MemR7Imm7s |-> Ax]
LoadMem(kind, imm, b) ==
  Loaded(RegFromBus16(ame, agu, b, DataRead(dm, MemAddress(agu, kind, imm))), dm)

(* mov(Rn a, StepZIDS as, Bx / Register b): the address is presented    *)
(* and rN stepped before the load, so b = rN keeps the loaded word.      *)
MovFromRn(am, u, step, b) ==
  LET a == am[u, step] IN
  Loaded(RegFromBus16(ame, a.g, b, DataRead(dm, a.a)), dm)

(* mov(Register a, Rn b, StepZIDS bs): the word is read before rN steps. *)
MovToRn(am, s, u, step) ==
  LET a == am[u, step]
      r == RegToBus16(ame, agu, s)
  IN Moved(r.m, flagged, a.g, DataWrite(dm, a.a, r.w), {})

(***************************************************************************)
(* Products.                                                               *)
(***************************************************************************)
(* mov_p0h_to(Bx / Register b) *)
MovP0h(b) == Loaded(RegFromBus16(ame, agu, b, ProductToBus40(ame, 0).hi % W16), dm)

(* mov_p0(Ab a): the read-saturated accumulator, cut to 32 bits. *)
MovP0(a) ==
  LET s == SaturateAcc(ame, ame.acc[a], 0)
  IN Moved(ProductFromBus32(s.m, 0, [hi |-> s.v.hi % W16, lo |-> s.v.lo]), flagged, agu, dm, {})

(* mov_p1_to(Ab b) *)
MovP1To(b) == Moved(SetAcc(ame, b, ProductToBus40(ame, 1), FALSE), Written(b), agu, dm, {})

(***************************************************************************)
(* Paired moves.  The offset forms write the low word at the offset       *)
(* address and then the high word at rN's address ("keep the write order *)
(* exactly like this"), so with a zero offset the high word stays.        *)
(***************************************************************************)
SaturateAccNoFlag(m, v, storing) ==
  IF m.sar[storing] = 0 THEN SaturateAccUnconditionalNoFlag(v) ELSE v

(* Spec 4.2: what a store presents of accumulator value v: v clamped to  *)
(* 32 bits by the sign of bit 39 when read saturation is on, v otherwise. *)
Presented(m, v) ==
  IF m.sar[0] = 0 /\ ~FitsSigned(v, 32) THEN IF Sign(v) = 1 THEN MinSat ELSE MaxSat ELSE v

Spill(hA, lA, hw, lw, form) == {[hA |-> hA, lA |-> lA, hw |-> hw, lw |-> lw, form |-> form]}

(* OffsetAddress reads m, brv and modi/modj, which the step leaves alone. *)
OffsetPair(am, g, u, step, off) ==
  LET a == am[u, step] IN [g |-> a.g, a |-> a.a, a2 |-> OffsetAddress(g, u, a.a, off, FALSE)]

(* Mutant: the high word written first. *)
PairWriteHighFirst(d, a, a2, h, l) == DataWrite(DataWrite(d, a, h), a2, l)

PairWrite(d, a, a2, h, l) == DataWrite(DataWrite(d, a2, l), a, h)

(* mov2 / mov2s (Px a, ArRn2 b, ArStep2 bs): p raw, or through the shifter. *)
Mov2Store(am, px, u, step, off, shifted) ==
  \E t \in {OffsetPair(am, agu, u, step, off)} :
  LET v == IF shifted THEN ProductToBus40(ame, px) ELSE ame.p[px]
  IN Moved(ame, flagged, t.g, PairWrite(dm, t.a, t.a2, v.hi % W16, v.lo),
           Spill(t.a, t.a2, v.hi % W16, v.lo, "offset"))

(* mov2(ArRn2 a, ArStep2 as, Px b) *)
Mov2Load(am, u, step, off, px) ==
  \E t \in {OffsetPair(am, agu, u, step, off)} :
  LET v == SignExtend([hi |-> DataRead(dm, t.a), lo |-> DataRead(dm, t.a2)], 32)
  IN Moved(ProductFromBus32(ame, px, [hi |-> v.hi % W16, lo |-> v.lo]), flagged, t.g, dm, {})

(* mova(Ab a, ArRn2 b, ArStep2 bs) *)
MovaStore(am, ab, u, step, off) ==
  \E t \in {OffsetPair(am, agu, u, step, off)} :
  LET s == SaturateAcc(ame, ame.acc[ab], 0)
      ref == Presented(ame, ame.acc[ab])
  IN Moved(s.m, flagged, t.g, PairWrite(dm, t.a, t.a2, s.v.hi % W16, s.v.lo),
           Spill(t.a, t.a2, ref.hi % W16, ref.lo, "offset"))

(* mova(ArRn2 a, ArStep2 as, Ab b) *)
MovaLoad(am, u, step, off, b) ==
  \E t \in {OffsetPair(am, agu, u, step, off)} :
  LET v == SignExtend([hi |-> DataRead(dm, t.a), lo |-> DataRead(dm, t.a2)], 32)
  IN Moved(SetAcc(ame, b, v, FALSE), Written(b), t.g, dm, {})

(* mov2_axh_m_y0_m(Axh a, ArRn2 b, ArStep2 bs): axh without touching fls, *)
(* then y0 at the offset address.                                         *)
Mov2AxhMY0M(am, ah, u, step, off) ==
  \E t \in {OffsetPair(am, agu, u, step, off)} :
  LET h == SaturateAccNoFlag(ame, ame.acc[Highs[ah]], 0).hi % W16
  IN Moved(ame, flagged, t.g, PairWrite(dm, t.a, t.a2, h, ame.y[0]),
           Spill(t.a, t.a2, Presented(ame, ame.acc[Highs[ah]]).hi % W16, ame.y[0], "offset"))

(* mov2_abh_m(Abh ax, Abh ay, ArRn1 b, ArStep1 bs) *)
Mov2AbhM(am, ax, ay, u, step, off) ==
  \E t \in {OffsetPair(am, agu, u, step, off)} :
  LET h == SaturateAccNoFlag(ame, ame.acc[Highs[ax]], 0).hi % W16
      l == SaturateAccNoFlag(ame, ame.acc[Highs[ay]], 0).hi % W16
  IN Moved(ame, flagged, t.g, PairWrite(dm, t.a, t.a2, h, l),
           Spill(t.a, t.a2, Presented(ame, ame.acc[Highs[ax]]).hi % W16,
                 Presented(ame, ame.acc[Highs[ay]]).hi % W16, "offset"))

(* The i and j addresses of an ArpRn operand: unit ui steps before uj,  *)
(* and as ui < 4 <= uj neither step reads what the other one writes.     *)
ArpPair(am, g, ui, uj, si, sj) ==
  LET i == am[ui, si]
      j == am[uj, sj]
  IN [g |-> [g EXCEPT !.r[ui] = i.g.r[ui], !.r[uj] = j.g.r[uj]], i |-> i.a, j |-> j.a]

(* mov2_ax_mij / mov2_ax_mji (Ab a, ArpRn1 b, ArpStep1 bsi, bsj): the    *)
(* high word first (at i, or j for mji), then the low word.              *)
Mov2AxM(am, ab, ui, uj, si, sj, mji) ==
  \E t \in {ArpPair(am, agu, ui, uj, si, sj)} :
  LET v == SaturateAccNoFlag(ame, ame.acc[ab], 0)
      hA == IF mji THEN t.j ELSE t.i
      lA == IF mji THEN t.i ELSE t.j
      ref == Presented(ame, ame.acc[ab])
  IN Moved(ame, flagged, t.g, DataWrite(DataWrite(dm, hA, v.hi % W16), lA, v.lo),
           Spill(hA, lA, ref.hi % W16, ref.lo, "ij"))

(* mov2_mij_ax / mov2_mji_ax (ArpRn1 a, ArpStep1 asi, asj, Ab b):        *)
(* SetAcc_Simple, so the flags stay as they were.                        *)
Mov2MAx(am, ui, uj, si, sj, b, mji) ==
  \E t \in {ArpPair(am, agu, ui, uj, si, sj)} :
  LET hw == DataRead(dm, IF mji THEN t.j ELSE t.i)
      lw == DataRead(dm, IF mji THEN t.i ELSE t.j)
  IN Moved(SetAccSimple(ame, b, SignExtend([hi |-> hw, lo |-> lw], 32)), Stale({b}), t.g, dm, {})

(* exchange_iaj / riaj (write j, read i) and jai / rjai (write i, read  *)
(* j) (Axh a, ArpRn2 b, ArpStep2 bsi, bsj): axh goes out, the other word *)
(* comes in as the high half (rounded with 0x8000 by the r forms).       *)
(* Mutant: the word read before axh is written. *)
SwapWordReadFirst(d, w, r, h) == [d |-> DataWrite(d, w, h), in |-> DataRead(d, r)]

(* The DataWrite at w and then the DataRead at r. *)
SwapWord(d, w, r, h) == [d |-> DataWrite(d, w, h), in |-> DataRead(DataWrite(d, w, h), r)]

Exchange(am, ah, ui, uj, si, sj, toJ, round) ==
  \E t \in {ArpPair(am, agu, ui, uj, si, sj)} :
  LET a == Highs[ah]
      v == SaturateAccNoFlag(ame, ame.acc[a], 0)
      w == IF toJ THEN t.j ELSE t.i
      r == IF toJ THEN t.i ELSE t.j
      x == SwapWord(dm, w, r, v.hi % W16)
      n == SignExtend([hi |-> x.in, lo |-> IF round THEN 32768 ELSE 0], 32)
  IN /\ Step(SetAccSimple(ame, a, n), Stale({a}))
     /\ agu' = t.g /\ dm' = x.d /\ spill' = {}
     /\ xchg' = {[acc |-> a, w |-> w, r |-> r, out |-> v.hi % W16, in |-> DataRead(dm, r)]}
     /\ UNCHANGED <<page, mixp>>

(***************************************************************************)
(* Dual adds (add_add ... add_sub_j_mov_i): two lanes, stored through    *)
(* SetAcc_Simple.  The high lane adds or subtracts the sign-extended     *)
(* words in u64, the low lane the words in u16, with no carry between    *)
(* them: (high << 16) | low.  The low-lane operands are read at the      *)
(* offset addresses.                                                      *)
(***************************************************************************)
DualLanes(h1, h2, hsub, l1, l2, lsub) ==
  [hi |-> (Signed16(h1) + (IF hsub THEN -1 ELSE 1) * Signed16(h2)) % W24,
   lo |-> (l1 + (IF lsub THEN -1 ELSE 1) * l2) % W16]

(* add_add, add_sub, sub_add, sub_sub (ArpRn1 a, ArpStep1 asi, asj, Ab b) *)
AddAdd(am, ui, uj, si, sj, oi, oj, hsub, lsub, b) ==
  \E t \in {ArpPair(am, agu, ui, uj, si, sj)} :
  LET v == DualLanes(DataRead(dm, t.j), DataRead(dm, t.i), hsub,
                     DataRead(dm, OffsetAddress(agu, uj, t.j, oj, FALSE)),
                     DataRead(dm, OffsetAddress(agu, ui, t.i, oi, FALSE)), lsub)
  IN Moved(SetAccSimple(ame, b, v), Stale({b}), t.g, dm, {})

(* add_sub_sv, sub_add_sv (ArRn1 a, ArStep1 as, Ab b): sv in both lanes. *)
AddSubSv(am, u, step, off, hsub, b) ==
  \E t \in {OffsetPair(am, agu, u, step, off)} :
  LET v == DualLanes(DataRead(dm, t.a), ame.sv, hsub, DataRead(dm, t.a2), ame.sv, ~hsub)
  IN Moved(SetAccSimple(ame, b, v), Stale({b}), t.g, dm, {})

(* sub_add_i_mov_j_sv (fromI) and sub_add_j_mov_i_sv: the lanes from one *)
(* unit's word and sv, then sv loaded from the other unit's address.     *)
SubAddMovSv(am, ui, uj, si, sj, o, fromI, b) ==
  \E t \in {ArpPair(am, agu, ui, uj, si, sj)} :
  LET x == IF fromI THEN t.i ELSE t.j
      v == DualLanes(DataRead(dm, x), ame.sv, TRUE,
                     DataRead(dm, OffsetAddress(agu, IF fromI THEN ui ELSE uj, x, o, FALSE)), ame.sv, FALSE)
  IN Moved([SetAccSimple(ame, b, v) EXCEPT !.sv = DataRead(dm, IF fromI THEN t.j ELSE t.i)],
           Stale({b}), t.g, dm, {})

(* add_sub_i_mov_j (fromI) and add_sub_j_mov_i: the lanes from one unit's *)
(* word and sv; b's old value, read-saturated, goes out as a word to the *)
(* other unit's address after the reads.                                 *)
AddSubMovLanes(am, ui, uj, si, sj, o, fromI, b) ==
  LET t == ArpPair(am, agu, ui, uj, si, sj)
      x == IF fromI THEN t.i ELSE t.j
  IN [t |-> t, w |-> IF fromI THEN t.j ELSE t.i,
      v |-> DualLanes(DataRead(dm, x), ame.sv, FALSE,
                      DataRead(dm, OffsetAddress(agu, IF fromI THEN ui ELSE uj, x, o, FALSE)), ame.sv, TRUE)]

(* Mutant: the exchange word taken after SetAcc_Simple. *)
AddSubMovLate(am, ui, uj, si, sj, o, fromI, b) ==
  \E r \in {AddSubMovLanes(am, ui, uj, si, sj, o, fromI, b)} :
  LET m == SetAccSimple(ame, b, r.v)
  IN Moved(m, Stale({b}), r.t.g, DataWrite(dm, r.w, SaturateAccNoFlag(m, m.acc[b], 0).lo),
           Spill(r.w, r.w, Presented(ame, ame.acc[b]).lo, Presented(ame, ame.acc[b]).lo, "word"))

AddSubMov(am, ui, uj, si, sj, o, fromI, b) ==
  \E r \in {AddSubMovLanes(am, ui, uj, si, sj, o, fromI, b)} :
  LET out == SaturateAccNoFlag(ame, ame.acc[b], 0).lo
  IN Moved(SetAccSimple(ame, b, r.v), Stale({b}), r.t.g, DataWrite(dm, r.w, out),
           Spill(r.w, r.w, Presented(ame, ame.acc[b]).lo, Presented(ame, ame.acc[b]).lo, "word"))

(***************************************************************************)
(* Minimum and maximum.  r0 steps whatever the outcome; mixp receives    *)
(* r0's old value when v is taken.  fm is written alone, so the flags    *)
(* no longer describe an accumulator.                                    *)
(***************************************************************************)
CounterAcc == [a0 |-> "a1", a1 |-> "a0", b0 |-> "b1", b1 |-> "b0"]

MinMaxApply(a, v, kind, t) ==
  LET s == MinMaxStep(kind, ame.acc[a], v, mixp, agu.r[0])
  IN /\ Step([SetAccSimple(ame, a, s.acc) EXCEPT !.fm = s.fm], NoFlags)
     /\ agu' = t.g /\ mixp' = s.mixp
     /\ UNCHANGED <<dm, page>> /\ spill' = {} /\ xchg' = {}

(* max_ge, max_gt, min_le, min_lt (Ax a, StepZIDS bs): a against the     *)
(* counterpart accumulator.                                               *)
MaxMin(am, a, kind, step) == MinMaxApply(a, ame.acc[CounterAcc[a]], kind, am[0, step])

(* max_ge_r0 ... min_lt_r0: a against the word at r0's old address.     *)
MaxMinR0(am, a, kind, step) ==
  LET t == am[0, step]
  IN MinMaxApply(a, SignExtend16(DataRead(dm, t.a)), kind, t)

(***************************************************************************)
(* Multiplies with memory operands.  The units step before the words are  *)
(* read; the accumulate leaves memory alone, so its place among the reads *)
(* does not matter.                                                        *)
(***************************************************************************)
MulFlags(op, a) == IF MulOps[op][1] = "none" THEN flagged ELSE Written(a)

(* mul (Mul3 op, Rn y, StepZIDS ys, Imm16 x, Ax a), mul_y0 (Mul3 op, Rn x, *)
(* StepZIDS xs, Ax a), mul (Mul3 op, R45 y, ys, R0123 x, xs, Ax a): x0   *)
(* and y0 loaded, then MulGeneric.                                        *)
MulMem(op, x, y, a, g) ==
  Moved(MulGeneric([ame EXCEPT !.x[0] = x, !.y[0] = y], op, a), MulFlags(op, a), g, dm, {})

(* msu (R45 y, ys, R0123 x, xs, Ax a), msu (Rn y, ys, Imm16 x, Ax a),     *)
(* msusu (ArRn2 x, ArStep2 xs, Ax a): a := a - p0 through AddSub and      *)
(* SetAcc, then x0 and y0 loaded and p0 := x0 * y0 (x unsigned for msusu). *)
MsuMem(x, y, xSigned, a, g) ==
  LET r == AddSub(ame, ame.acc[a], ProductToBus40(ame, 0), TRUE)
  IN Moved(DoMultiplication([SetAcc(r.m, a, r.v, FALSE) EXCEPT !.x[0] = x, !.y[0] = y], 0, xSigned, TRUE),
           Written(a), g, dm, {})

(* mac1 (ArpRn1 xy, ArpStep1 xis, yjs, Ax a): a := a + p1, then x1 and y1 *)
(* from the i and j addresses and p1 := x1 * y1 signed.                  *)
Mac1(am, ui, uj, si, sj, a) ==
  \E t \in {ArpPair(am, agu, ui, uj, si, sj)} :
  LET r == AddSub(ame, ame.acc[a], ProductToBus40(ame, 1), FALSE)
      m == [SetAcc(r.m, a, r.v, FALSE) EXCEPT !.x[1] = DataRead(dm, t.i), !.y[1] = DataRead(dm, t.j)]
  IN Moved(DoMultiplication(m, 1, TRUE, TRUE), Written(a), t.g, dm, {})

(* sqr_sqr_add3 (ArRn2 a, ArStep2 as, Ab b): add3_p0_p1 into b, then     *)
(* x0 = y0 = the word at rN, x1 = y1 the word at the offset, both squared. *)
SqrSqrAdd3Mem(am, u, step, off, b) ==
  \E t \in {OffsetPair(am, agu, u, step, off)} :
  LET w0 == DataRead(dm, t.a)
      w1 == DataRead(dm, t.a2)
      s == ProductSum(ame, "Acc", b, PAdd, PAdd)
  IN Moved(MulBoth([s EXCEPT !.x[0] = w0, !.x[1] = w1, !.y[0] = w0, !.y[1] = w1], <<TRUE, TRUE, TRUE, TRUE>>),
           Written(b), t.g, dm, {})

(* addhp (ArRn2 a, ArStep2 as, Px b, Ax c): c := SE(32, word << 16 |     *)
(* 0x8000) + pb through AddSub and SetAcc.                                 *)
Addhp(am, u, step, px, c) ==
  LET t == am[u, step]
      r == AddSub(ame, SignExtend([hi |-> DataRead(dm, t.a), lo |-> 32768], 32), ProductToBus40(ame, px), FALSE)
  IN Moved(SetAcc(r.m, c, r.v, FALSE), Written(c), t.g, dm, {})

(***************************************************************************)
(* The mma forms with memory: the product sum of ProductSumHandlers[h]    *)
(* into a, the operands loaded, p0 and p1 multiplied with the signs sg.  *)
(* The dmod variants of the ArpRn form are not enumerated.               *)
(***************************************************************************)
MmaSum(h, a) == LET q == ProductSumHandlers[h] IN ProductSum(ame, q[1], a, q[2], q[3])

(* p0 and p1 multiplied from the operands of s, the result written to a. *)
(* The states are bound once each, as the handler computes them once.    *)
MmaStep(s, sg, a, g, d, sp) == \E r \in {MulBoth(s, sg)} : Moved(r, Written(a), g, d, sp)

(* mma (ArpRnX xy, i, j, ...): x0, y0 at the i and j addresses, x1, y1 at *)
(* their offsets.                                                          *)
MmaMem(am, ui, uj, si, sj, oi, oj, ps, a, sg) ==
  \E t \in {ArpPair(am, agu, ui, uj, si, sj)} :
  LET x1 == DataRead(dm, OffsetAddress(agu, ui, t.i, oi, FALSE))
      y1 == DataRead(dm, OffsetAddress(agu, uj, t.j, oj, FALSE))
  IN \E m \in {[ps EXCEPT !.x[0] = DataRead(dm, t.i), !.y[0] = DataRead(dm, t.j), !.x[1] = x1, !.y[1] = y1]} :
       MmaStep(m, sg, a, t.g, dm, {})

(* mma_mx_xy (k = 0) and mma_xy_mx (k = 1) (ArRn1 y, ArStep1 ys, ...): x0 *)
(* and x1 swapped, yk from memory.                                         *)
MmaSwapY(am, u, step, k, ps, a, sg) ==
  LET t == am[u, step]
  IN MmaStep([ps EXCEPT !.x[0] = ps.x[1], !.x[1] = ps.x[0], !.y[k] = DataRead(dm, t.a)], sg, a, t.g, dm, {})

(* mma_my_my (ArRn1 x, ArStep1 xs, ...): x0 at rN, x1 at the offset. *)
MmaMyMy(am, u, step, off, ps, a, sg) ==
  \E t \in {OffsetPair(am, agu, u, step, off)} :
  MmaStep([ps EXCEPT !.x[0] = DataRead(dm, t.a), !.x[1] = DataRead(dm, t.a2)], sg, a, t.g, dm, {})

(* mma_mov (Axh u, Bxh v, ArRn1 w, ArStep1 ws, ...) and mma_mov (ArRn2 w, *)
(* ArStep1 ws, ...) with u = a, v = its counterpart: the high words of u *)
(* and v, read-saturated without fls, go to rN and the offset (the offset *)
(* first), then the product sum, x0 and x1 swapped, p0 and p1 multiplied. *)
MmaMov(am, u, v, w, step, off, ps, a, sg) ==
  \E t \in {OffsetPair(am, agu, w, step, off)} :
  LET hu == SaturateAccNoFlag(ame, ame.acc[u], 0).hi % W16
      hv == SaturateAccNoFlag(ame, ame.acc[v], 0).hi % W16
  IN MmaStep([ps EXCEPT !.x[0] = ps.x[1], !.x[1] = ps.x[0]], sg, a, t.g,
           PairWrite(dm, t.a, t.a2, hu, hv),
           Spill(t.a, t.a2, Presented(ame, ame.acc[u]).hi % W16, Presented(ame, ame.acc[v]).hi % W16, "offset"))

(***************************************************************************)
(* Codebook search and the Viterbi moves.                                  *)
(***************************************************************************)
(* Cbs (u, v, r, c): x0 := u, y0 := u, p0 := u * u, y0 := bits 31..16 of *)
(* the new p0 on the bus, x0 restored.  When p0 - p1, taken before, is   *)
(* >= 0 (Ge) or > 0 (Gt): mixp := r, x0 := y1, x1 := y0.  Then y1 := v  *)
(* and p0, p1 multiplied signed.                                          *)
Cbs(u, v, r, gt) ==
  LET p0 == ProductToBus40(ame, 0)
      p1 == ProductToBus40(ame, 1)
      cond == IF gt THEN Less40(p1, p0) ELSE ~Less40(p0, p1)
      m1 == DoMultiplication([ame EXCEPT !.x[0] = u, !.y[0] = u], 0, TRUE, TRUE)
      m2 == [m1 EXCEPT !.y[0] = ProductToBus40(m1, 0).hi % W16, !.x[0] = ame.x[0]]
      m3 == IF cond THEN [m2 EXCEPT !.x[0] = m2.y[1], !.x[1] = m2.y[0]] ELSE m2
  IN [m |-> MulBoth([m3 EXCEPT !.y[1] = v], <<TRUE, TRUE, TRUE, TRUE>>),
      mixp |-> IF cond THEN r ELSE mixp]

CbsApply(g, u, v, r, gt) ==
  LET c == Cbs(u, v, r, gt)
  IN /\ Step(c.m, flagged)
     /\ agu' = g /\ mixp' = c.mixp
     /\ UNCHANGED <<dm, page>> /\ spill' = {} /\ xchg' = {}

(* cbs (Axh a, c) against the counterpart, cbs (Axh a, Bxh b, c): the    *)
(* high words as they are, r = r0.  cbs (ArpRn1 a, asi, asj, c): the      *)
(* words at i and j, r = the i unit's value before its step.             *)
CbsAcc(a, b, gt) == CbsApply(agu, ame.acc[a].hi % W16, ame.acc[b].hi % W16, agu.r[0], gt)

CbsMem(am, ui, uj, si, sj, gt) ==
  \E t \in {ArpPair(am, agu, ui, uj, si, sj)} :
  CbsApply(t.g, DataRead(dm, t.i), DataRead(dm, t.j), RnAndModify(agu, ui, si, FALSE).ret, gt)

(* max2_vtr_movl/movh, min2_vtr_movl/movh (Ax a, Bx b and Bx a, Ax b,    *)
(* ArRn1 c, ArStep1 cs): MinMaxVtr, then the low or high word of a's     *)
(* counterpart, read-saturated without fls, stored at rN.                *)
VtrMovWord(am, a, b, min, high, u, step) ==
  LET t == am[u, step]
      m == MinMaxVtr(ame, a, b, min)
      v == SaturateAccNoFlag(m, m.acc[CounterAcc[a]], 0)
      ref == Presented(m, m.acc[CounterAcc[a]])
      pick(x) == IF high THEN x.hi % W16 ELSE x.lo
  IN Moved(m, Stale({a}), t.g, DataWrite(dm, t.a, pick(v)), Spill(t.a, t.a, pick(ref), pick(ref), "word"))

(* max2_vtr_movij/movji, min2_vtr_movij/movji (Ax a, Bx b, ArpRn1 c, ...): *)
(* the counterpart's high word to i and low word to j (ji: the reverse),  *)
(* written at i first.                                                    *)
VtrMovPair(am, a, b, min, ui, uj, si, sj, ji) ==
  \E t \in {ArpPair(am, agu, ui, uj, si, sj)} :
  LET m == MinMaxVtr(ame, a, b, min)
      v == SaturateAccNoFlag(m, m.acc[CounterAcc[a]], 0)
      ref == Presented(m, m.acc[CounterAcc[a]])
      hA == IF ji THEN t.j ELSE t.i
      lA == IF ji THEN t.i ELSE t.j
      atI == IF ji THEN v.lo ELSE v.hi % W16
      atJ == IF ji THEN v.hi % W16 ELSE v.lo
  IN Moved(m, Stale({a}), t.g, DataWrite(DataWrite(dm, t.i, atI), t.j, atJ),
           Spill(hA, lA, ref.hi % W16, ref.lo, "ij"))

(***************************************************************************)
(* The specification.                                                      *)
(***************************************************************************)
DmInit ==
  /\ Init
  /\ agu \in AguInits /\ dm \in MemInits /\ page \in Pages
  /\ spill = {} /\ xchg = {} /\ mixp = 0

IUnits == {u \in DOMAIN agu.r : u < 4}
JUnits == {u \in DOMAIN agu.r : u >= 4}
R45Units == {u \in DOMAIN agu.r : u \in {4, 5}}
RnSteps == MoveSteps \cap StepZIDS
XYs == {"x0", "x1", "y1"}
(* The multiply, mma, cbs and vtr memory forms are enumerated over a    *)
(* sample of their operands: r3 and r4 (one unit of each bank, naming    *)
(* one address in both address set-ups), the offsets Zero and           *)
(* MinusOneDmod, one step for both units of a pair, a signed and a        *)
(* mixed-sign multiply, and one product sum (accumulator                 *)
(* base, p1 aligned and subtracted) into a0 with the signed products and  *)
(* into b1 with the mixed ones. The arithmetic they share with the        *)
(* register forms is enumerated in full in MCAME.                         *)
MemUnits == {u \in DOMAIN agu.r : u \in {3, 4}}
MemOffsets == {"Zero", "MinusOneDmod"}
MemMulOps == {"Mac", "Mpysu"}
MmaMemSums == {"addsub_p0_p1a"}
MmaMemAccs == [a0 |-> <<TRUE, TRUE, TRUE, TRUE>>, b1 |-> <<FALSE, TRUE, FALSE, TRUE>>]

(* tstb (MemImm8 / Rn StepZIDS / Register, Imm4): Z := bit b of the     *)
(* word.  tst4b (ArRn2, ArStep2): Z and C := bit (a0 & 0xF) of the word.  *)
(* The form with Ax c first shifts a0 by sv into c and then puts back V,  *)
(* LV, M, N and E, with C1 taking the shifter's C.                        *)
TstBits == {0, 15}
Tested(w, b) == [ame EXCEPT !.fz = (w \div 2^b) % 2]

TstbMem(imm, b) == Moved(Tested(DataRead(dm, MemAddress(agu, "MemImm8", imm)), b), NoFlags, agu, dm, {})

TstbRn(am, u, st, b) ==
  LET a == am[u, st] IN Moved(Tested(DataRead(dm, a.a), b), NoFlags, a.g, dm, {})

TstbReg(reg, b) == Moved(Tested(RegToBus16Raw(ame, agu, reg), b), NoFlags, agu, dm, {})

Tst4b(am, u, st, c) ==
  LET a == am[u, st]
      bit == (DataRead(dm, a.a) \div 2^(ame.acc["a0"].lo % 16)) % 2
      s == IF c = "none" THEN ame
           ELSE LET sh == ShiftBus40(ame, ame.acc["a0"], ame.sv, c)
                IN [sh EXCEPT !.fc1 = sh.fc0, !.fv = ame.fv, !.flv = ame.flv, !.fm = ame.fm,
                      !.fn = ame.fn, !.fe = ame.fe]
  IN Moved([s EXCEPT !.fz = bit, !.fc0 = bit], NoFlags, a.g, dm, {})

(* norm (Ax a, Rn b, StepZIDS bs): with N set nothing happens; otherwise *)
(* NormShift on a, then rN is post-modified and R set when it reaches 0. *)
Norm(am, a, u, st) ==
  IF ame.fn # 0 THEN Moved(ame, flagged, agu, dm, {})
  ELSE LET g == am[u, st].g
       IN Moved(NormShift(ame, a), [acc |-> a, via |-> "SetAcc"], [g EXCEPT !.fr = g.r[u] = 0], dm, {})

(* norm from any set-up: it is an AME handler that also steps a unit. *)
NormStep ==
  /\ ops < MaxOps /\ ~fault
  /\ \E am \in {Modified(agu)}, a \in Ax, u \in MemUnits, st \in RnSteps : Norm(am, a, u, st)

(* An AME handler: the address registers and memory stay as they were. *)
(* Step's guard is repeated ahead of Next's operand enumeration.          *)
AmeStep == ops < MaxOps /\ ~fault /\ Next /\ spill' = {} /\ xchg' = {} /\ UNCHANGED <<agu, dm, page, mixp>>

MoveNext(am) ==
  \/ \E a, b \in AccNames : MovAb(a, b)
  \/ \E a \in DOMAIN Lows, d \in XYs : MovToXY(a, d)
  \/ \E s \in XYs, b \in AccNames : MovXYTo(s, b)
  \/ \E a \in Registers, b \in Bx : MovRegBx(a, b)
  \/ \E a \in Registers \ {"p"}, b \in Registers : MovRegReg(a, b)
  \/ \E t \in Ax : MovRegRegP(t)
  \/ \E pc \in PcValues, b \in Registers : MovRegRegPc(pc, b)
  \/ \E k \in DOMAIN ImmForms : \E c \in MemImms, b \in ImmForms[k] : MovImm(k, c, b)
  \/ \E k \in DOMAIN StoreSrcs : \E i \in MemImms, a \in StoreSrcs[k] :
       i < ImmWidth[k] /\ StoreMem(k, i, a)
  \/ \E k \in DOMAIN LoadDests : \E i \in MemImms, b \in LoadDests[k] :
       i < ImmWidth[k] /\ LoadMem(k, i, b)
  \/ \E u \in DOMAIN agu.r, st \in RnSteps, b \in Registers : MovFromRn(am, u, st, b)
  \/ \E a \in Registers, u \in DOMAIN agu.r, st \in RnSteps : MovToRn(am, a, u, st)
  \/ \E b \in Registers : MovP0h(b)
  \/ \E a \in AccNames : MovP0(a)
  \/ \E b \in AccNames : MovP1To(b)
  \/ \E px \in 0 .. 1, u \in DOMAIN agu.r, st \in MoveSteps, off \in Offsets, sh \in BOOLEAN :
       Mov2Store(am, px, u, st, off, sh)
  \/ \E px \in 0 .. 1, u \in DOMAIN agu.r, st \in MoveSteps, off \in Offsets : Mov2Load(am, u, st, off, px)
  \/ \E ab \in AccNames, u \in DOMAIN agu.r, st \in MoveSteps, off \in Offsets :
       MovaStore(am, ab, u, st, off)
  \/ \E b \in AccNames, u \in DOMAIN agu.r, st \in MoveSteps, off \in Offsets : MovaLoad(am, u, st, off, b)
  \/ \E ah \in Axh, u \in DOMAIN agu.r, st \in MoveSteps, off \in Offsets : Mov2AxhMY0M(am, ah, u, st, off)
  \/ \E ax, ay \in DOMAIN Highs, u \in DOMAIN agu.r, st \in MoveSteps, off \in Offsets :
       Mov2AbhM(am, ax, ay, u, st, off)
  \/ \E ab \in AccNames, ui \in IUnits, uj \in JUnits, si, sj \in MoveSteps, mji \in BOOLEAN :
       Mov2AxM(am, ab, ui, uj, si, sj, mji)
  \/ \E b \in AccNames, ui \in IUnits, uj \in JUnits, si, sj \in MoveSteps, mji \in BOOLEAN :
       Mov2MAx(am, ui, uj, si, sj, b, mji)
  \/ \E ah \in Axh, ui \in IUnits, uj \in JUnits, si, sj \in MoveSteps, toJ, round \in BOOLEAN :
       Exchange(am, ah, ui, uj, si, sj, toJ, round)
  \/ \E b \in AccNames, ui \in IUnits, uj \in JUnits, si, sj \in MoveSteps, oi, oj \in Offsets,
       hsub, lsub \in BOOLEAN : AddAdd(am, ui, uj, si, sj, oi, oj, hsub, lsub, b)
  \/ \E b \in AccNames, u \in DOMAIN agu.r, st \in MoveSteps, off \in Offsets, hsub \in BOOLEAN :
       AddSubSv(am, u, st, off, hsub, b)
  \/ \E b \in AccNames, ui \in IUnits, uj \in JUnits, si, sj \in MoveSteps, o \in Offsets, fromI \in BOOLEAN :
       SubAddMovSv(am, ui, uj, si, sj, o, fromI, b) \/ AddSubMov(am, ui, uj, si, sj, o, fromI, b)
  \/ \E a \in Ax, kind \in {"ge", "gt", "le", "lt"}, st \in RnSteps :
       MaxMin(am, a, kind, st) \/ MaxMinR0(am, a, kind, st)
  \/ \E op \in MemMulOps, a \in Ax, u \in MemUnits, st \in RnSteps :
       \/ \E c \in MemImms : MulMem(op, c, DataRead(dm, am[u, st].a), a, am[u, st].g)
       \/ MulMem(op, DataRead(dm, am[u, st].a), ame.y[0], a, am[u, st].g)
  \/ \E op \in MemMulOps, a \in Ax, ui \in IUnits \cap MemUnits, uj \in R45Units, st \in RnSteps :
       \E t \in {ArpPair(am, agu, ui, uj, st, st)} : MulMem(op, DataRead(dm, t.i), DataRead(dm, t.j), a, t.g)
  \/ \E a \in Ax, ui \in IUnits \cap MemUnits, uj \in R45Units, st \in RnSteps :
       \E t \in {ArpPair(am, agu, ui, uj, st, st)} : MsuMem(DataRead(dm, t.i), DataRead(dm, t.j), TRUE, a, t.g)
  \/ \E a \in Ax, u \in MemUnits, st \in RnSteps :
       \/ \E c \in MemImms : MsuMem(c, DataRead(dm, am[u, st].a), TRUE, a, am[u, st].g)
       \/ MsuMem(DataRead(dm, am[u, st].a), ame.y[0], FALSE, a, am[u, st].g)
  \/ \E a \in Ax, ui \in IUnits \cap MemUnits, uj \in JUnits \cap MemUnits, st \in MoveSteps :
       Mac1(am, ui, uj, st, st, a)
  \/ \E b \in DOMAIN MmaMemAccs, u \in MemUnits, st \in MoveSteps, off \in MemOffsets : SqrSqrAdd3Mem(am, u, st, off, b)
  \/ \E c \in Ax, u \in MemUnits, st \in MoveSteps, px \in 0 .. 1 : Addhp(am, u, st, px, c)
  \/ \E h \in MmaMemSums, a \in DOMAIN MmaMemAccs : \E ps \in {MmaSum(h, a)}, sg \in {MmaMemAccs[a]} :
       \/ \E ui \in IUnits \cap MemUnits, uj \in JUnits \cap MemUnits, st \in MoveSteps, o \in MemOffsets :
            MmaMem(am, ui, uj, st, st, o, o, ps, a, sg)
       \/ \E u \in MemUnits, st \in MoveSteps, k \in 0 .. 1 : MmaSwapY(am, u, st, k, ps, a, sg)
       \/ \E u \in MemUnits, st \in MoveSteps, off \in MemOffsets : MmaMyMy(am, u, st, off, ps, a, sg)
       \/ \E w \in MemUnits, st \in MoveSteps, off \in MemOffsets :
            \/ MmaMov(am, "a1", "b0", w, st, off, ps, a, sg)
            \/ MmaMov(am, a, CounterAcc[a], w, st, off, ps, a, sg)
  \/ \E gt \in BOOLEAN :
       \/ \E a \in Ax : CbsAcc(a, CounterAcc[a], gt) \/ \E b \in Bx : CbsAcc(a, b, gt)
       \/ \E ui \in IUnits \cap MemUnits, uj \in JUnits \cap MemUnits, st \in MoveSteps : CbsMem(am, ui, uj, st, st, gt)
  \/ \E b \in TstBits :
       \/ \E i \in MemImms : i < 256 /\ TstbMem(i, b)
       \/ \E u \in MemUnits, st \in RnSteps : TstbRn(am, u, st, b)
       \/ \E reg \in Registers : TstbReg(reg, b)
  \/ \E u \in MemUnits, st \in MoveSteps, c \in Ax \cup {"none"} : Tst4b(am, u, st, c)
  \/ \E min \in BOOLEAN :
       \/ \E q \in {<<"a0", "b0">>, <<"b1", "a1">>}, high \in BOOLEAN, u \in MemUnits, st \in MoveSteps :
            VtrMovWord(am, q[1], q[2], min, high, u, st)
       \/ \E ui \in IUnits \cap MemUnits, uj \in JUnits \cap MemUnits, si, sj \in MoveSteps, ji \in BOOLEAN :
            VtrMovPair(am, "a0", "b1", min, ui, uj, si, sj, ji)

(* A data move. Step's guard is taken before the operands are          *)
(* enumerated.                                                             *)
MoveStep ==
  /\ ops < MaxOps /\ ~fault
  /\ \E am \in {Modified(agu)} : MoveNext(am)

DmNext == AmeStep \/ NormStep \/ MoveStep

DmSpec == DmInit /\ [][DmNext]_allVars

(***************************************************************************)
(* Properties.                                                             *)
(***************************************************************************)
DmTypeOK ==
  /\ TypeOK
  /\ \A u \in DOMAIN agu.r : agu.r[u] \in Word
  /\ \A a \in DOMAIN dm : a \in Word /\ dm[a] \in Word
  /\ page \in 0 .. 255 /\ mixp \in Word

(* Spec 8 / the "keep the write order" comments of mova, mov2, mov2s,     *)
(* mov2_axh_m_y0_m and mov2_abh_m: after a paired store the two words in  *)
(* memory are the high and low word of what the store presents (spec 4.2 *)
(* read saturation for an accumulator, the raw or shifted product), at   *)
(* the addresses rN and the offset give after the post-modification; when *)
(* the offset lands on rN's own address, the high word is the one that    *)
(* stays.  The i/j forms promise the pair only at two distinct addresses. *)
(* add_sub_i_mov_j / add_sub_j_mov_i store one word: the low word of what *)
(* the accumulator presented BEFORE the same handler overwrote it.        *)
SpillFill ==
  \A s \in spill :
    /\ (s.hA # s.lA \/ s.form \in {"offset", "word"}) => DataRead(dm, s.hA) = s.hw
    /\ s.hA # s.lA => DataRead(dm, s.lA) = s.lw
(* An exchange swaps a word of memory with axh: afterwards the write    *)
(* address holds the high word axh had (read-saturated), and axh holds   *)
(* the word the read address held before, when i and j differ.  When the *)
(* two addresses coincide the code writes before it reads (exchange_iaj,  *)
(* riaj, jai, rjai), so the memory word is lost and axh reads its own    *)
(* high word back.                                                        *)
ExchangeSwaps ==
  \A x \in xchg :
    /\ DataRead(dm, x.w) = x.out
    /\ ame.acc[x.acc].hi % W16 = IF x.r = x.w THEN x.out ELSE x.in
====
