------------------------------ MODULE RegStack ------------------------------
(***************************************************************************)
(* The data stack of the Teak interpreter (src/src/interpreter.h, push ... *)
(* popa, lines 1221-1339) and the 16-bit bus conversions RegToBus16 /     *)
(* RegFromBus16 the register forms go through (also used by DataMove).    *)
(*                                                                         *)
(* A handler is an operator from a stack state                             *)
(*   [m |-> AME registers, g |-> address registers (r), d |-> data memory, *)
(*    sp |-> stack pointer]                                               *)
(* to the state after it: sp is predecremented before each write and      *)
(* postincremented after each read, in u16 arithmetic.  Memory is a       *)
(* partial function address -> word read as 0 elsewhere (the memory      *)
(* interface is not under src/).  The configuration registers of the      *)
(* ArArpSttMod forms, repc and prpage are not held here.                  *)
(***************************************************************************)
EXTENDS AMEArith, TLC

DataRead(d, a) == IF a \in DOMAIN d THEN d[a] ELSE 0
DataWrite(d, a, w) == (a :> w) @@ d

Lows == [a0l |-> "a0", a1l |-> "a1", b0l |-> "b0", b1l |-> "b1"]
Highs == [a0h |-> "a0", a1h |-> "a1", b0h |-> "b0", b1h |-> "b1"]
XY == [x0 |-> <<"x", 0>>, x1 |-> <<"x", 1>>, y0 |-> <<"y", 0>>, y1 |-> <<"y", 1>>]
Rn == [r0 |-> 0, r1 |-> 1, r2 |-> 2, r3 |-> 3, r4 |-> 4, r5 |-> 5, r6 |-> 6, r7 |-> 7]

(* RegToBus16(reg, enable_sat_for_mov = true): the word a register puts  *)
(* on the bus, with the registers after the read saturation (fls).       *)
RegToBus16(m, g, reg) ==
  CASE reg \in AccNames -> [m |-> m, w |-> m.acc[reg].lo]
    [] reg \in DOMAIN Lows ->
         LET s == SaturateAcc(m, m.acc[Lows[reg]], 0) IN [m |-> s.m, w |-> s.v.lo]
    [] reg \in DOMAIN Highs ->
         LET s == SaturateAcc(m, m.acc[Highs[reg]], 0) IN [m |-> s.m, w |-> s.v.hi % W16]
    [] reg \in DOMAIN XY -> [m |-> m, w |-> m[XY[reg][1]][XY[reg][2]]]
    [] reg \in DOMAIN Rn -> [m |-> m, w |-> g.r[Rn[reg]]]
    [] reg = "sv" -> [m |-> m, w |-> m.sv]
    [] reg = "p" -> [m |-> m, w |-> ProductToBus40(m, 0).hi % W16]

(* RegFromBus16(reg, value): the registers after the write and the       *)
(* accumulator SetAcc wrote, if any.                                     *)
RegFromBus16(m, g, reg, w) ==
  CASE reg \in AccNames -> [m |-> SetAcc(m, reg, SignExtend16(w), FALSE), g |-> g, acc |-> reg]
    [] reg \in DOMAIN Lows ->
         [m |-> SetAcc(m, Lows[reg], FromWord(w), FALSE), g |-> g, acc |-> Lows[reg]]
    [] reg \in DOMAIN Highs ->
         [m |-> SetAcc(m, Highs[reg], HighWord(w), FALSE), g |-> g, acc |-> Highs[reg]]
    [] reg \in DOMAIN XY -> [m |-> [m EXCEPT ![XY[reg][1]][XY[reg][2]] = w], g |-> g, acc |-> "none"]
    [] reg \in DOMAIN Rn -> [m |-> m, g |-> [g EXCEPT !.r[Rn[reg]] = w], acc |-> "none"]
    [] reg = "sv" -> [m |-> [m EXCEPT !.sv = w], g |-> g, acc |-> "none"]
    [] reg = "p" ->
         [m |-> [m EXCEPT !.psign[0] = Flag(w > 32767), !.p[0].hi = w], g |-> g, acc |-> "none"]

(* RegToBus16(reg) with enable_sat_for_mov = false: the halves are read  *)
(* without saturation.                                                    *)
RegToBus16Raw(m, g, reg) ==
  CASE reg \in DOMAIN Lows -> m.acc[Lows[reg]].lo
    [] reg \in DOMAIN Highs -> m.acc[Highs[reg]].hi % W16
    [] OTHER -> RegToBus16(m, g, reg).w

(***************************************************************************)
(* One word on and off the stack.                                          *)
(***************************************************************************)
PushWord(st, w) ==
  [st EXCEPT !.sp = (@ - 1) % W16, !.d = DataWrite(@, (st.sp - 1) % W16, w)]

PopWord(st) == [st |-> [st EXCEPT !.sp = (@ + 1) % W16], w |-> DataRead(st.d, st.sp)]

(* Two words: the low one first, so the high one ends on top. *)
PushPair(st, v) == PushWord(PushWord(st, v.lo), v.hi % W16)

(* Mutant: the pair read low word first. *)
PopPairLowFirst(st) ==
  LET l == PopWord(st)
      h == PopWord(l.st)
  IN [st |-> h.st, v |-> [hi |-> h.w, lo |-> l.w]]

(* The high word, then the low word. *)
PopPair(st) ==
  LET h == PopWord(st)
      l == PopWord(h.st)
  IN [st |-> l.st, v |-> [hi |-> h.w, lo |-> l.w]]

(***************************************************************************)
(* Pushes.                                                                 *)
(***************************************************************************)
(* push(Imm16) *)
PushImm16(st, c) == PushWord(st, c)

(* push(Register), push_r6, push_x0, push_x1, push_y1: RegToBus16 with   *)
(* the read saturation of the accumulator halves.                         *)
PushRegister(st, reg) ==
  LET r == RegToBus16(st.m, st.g, reg) IN PushWord([st EXCEPT !.m = r.m], r.w)

(* push(Abe): bits 32-47 of the read-saturated accumulator, which holds  *)
(* bit 39 in bits 40-47.                                                 *)
PushAbe(st, a) ==
  LET s == SaturateAcc(st.m, st.m.acc[a], 0)
  IN PushWord([st EXCEPT !.m = s.m], s.v.hi \div W16 + Sign(s.v) * 65280)

(* push(Px): the u32 of the shifted product. *)
PushPx(st, u) == PushPair(st, ProductToBus40(st.m, u))

(* pusha(Ax / Bx): the read-saturated accumulator cut to 32 bits. *)
Pusha(st, a) ==
  LET s == SaturateAcc(st.m, st.m.acc[a], 0) IN PushPair([st EXCEPT !.m = s.m], s.v)

(***************************************************************************)
(* Pops.                                                                   *)
(***************************************************************************)
(* pop(Register), pop(Bx), pop_r6, pop_x0, pop_x1, pop_y1. *)
PopRegister(st, reg) ==
  LET p == PopWord(st)
      r == RegFromBus16(p.st.m, p.st.g, reg, p.w)
  IN [p.st EXCEPT !.m = r.m, !.g = r.g]

(* pop(Abe): the low byte of the word, sign-extended, replaces bits 32-39 *)
(* and goes through SetAcc with the store saturation.                     *)
PopAbe(st, a) ==
  LET p == PopWord(st)
      v == [hi |-> (p.w % 256) * W16 + (st.m.acc[a].hi % W16), lo |-> st.m.acc[a].lo]
  IN [p.st EXCEPT !.m = SetAcc(@, a, v, FALSE)]

(* pop(Px): psign from bit 31 of the two words. *)
PopPx(st, u) ==
  LET p == PopPair(st) IN [p.st EXCEPT !.m = ProductFromBus32(@, u, p.v)]

(* popa(Ab): the two words sign-extended from bit 31, through SetAcc. *)
Popa(st, a) ==
  LET p == PopPair(st) IN [p.st EXCEPT !.m = SetAcc(@, a, SignExtend(p.v, 32), FALSE)]
====
