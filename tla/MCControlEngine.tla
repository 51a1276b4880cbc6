--------------------------- MODULE MCControlEngine ---------------------------
(***************************************************************************)
(* Programs for checking ControlEngine.  Each program is a listing of     *)
(* <<address, decoded word>>; a two-word instruction is followed by its    *)
(* expansion word, listed with the instruction that word decodes to when   *)
(* it is fetched as an opcode (Imm: a one-word instruction without         *)
(* control effect).                                                       *)
(***************************************************************************)
EXTENDS ControlEngine

Nop == [op |-> "nop", words |-> 1]
Imm == Nop
Mov(dst, val) == [op |-> "mov", words |-> 2, dst |-> dst, val |-> val]
Br(addr) == [op |-> "br", words |-> 2, addr |-> addr]
Brr(delta) == [op |-> "brr", words |-> 1, delta |-> delta]
Call(addr) == [op |-> "call", words |-> 2, addr |-> addr]
Callr(delta) == [op |-> "callr", words |-> 1, delta |-> delta]
Rets(imm) == [op |-> "rets", words |-> 1, imm |-> imm]
Op(name) == [op |-> name, words |-> 1]
Rep(count) == [op |-> "rep", words |-> 1, count |-> count]
BkrepImm(lc, addr) == [op |-> "bkrep", words |-> 2, lc |-> lc, addr |-> addr]
BkrepReg(lc, addr) == [op |-> "bkrep_reg", words |-> 2, lc |-> lc, addr |-> addr]
Bkrepsto(reg) == [op |-> "bkrepsto", words |-> 1, reg |-> reg]
Bkreprst(reg) == [op |-> "bkreprst", words |-> 1, reg |-> reg]

(* The image of a listing, expansion words included. *)
Image(listing) ==
  LET words(e) == IF e[2].words = 2 THEN {<<e[1], e[2]>>, <<e[1] + 1, Imm>>}
                  ELSE {<<e[1], e[2]>>}
      all == UNION {words(listing[k]) : k \in DOMAIN listing}
  IN [a \in {w[1] : w \in all} |-> (CHOOSE w \in all : w[1] = a)[2]]

(* Reset code and vectors shared by the programs: sp = 16, r = 31,        *)
(* vector 0 -> 64 (stores the context), vector 1 -> 80, vectored -> 96.   *)
Boot ==
  << <<0, Mov("sp", 16)>>, <<2, Mov("r", 31)>>, <<4, Br(32)>>,
     <<6, Br(64)>>, <<14, Br(80)>> >>

(* Main: an outer loop (x2) around a rep (x3) and an inner loop (x2) whose *)
(* last instruction is two words long, then a loop left by break, idle.    *)
Main ==
  << <<32, Op("eint")>>,
     <<33, BkrepImm(1, 43)>>,
     <<35, Rep(2)>>,
     <<36, Nop>>,
     <<37, Mov("b1", 65535)>>,
     <<39, BkrepImm(1, 42)>>,
     <<41, Mov("a1", 7)>>,
     <<43, Nop>>,
     <<44, BkrepReg(3, 47)>>,
     <<46, Op("break")>>,
     <<47, Nop>>,
     <<48, Brr(-1)>> >>

IdleAddr == 48

(* How often each instruction of Main runs before the idle loop. *)
MainCounts ==
  (32 :> 1) @@ (33 :> 1) @@ (35 :> 2) @@ (36 :> 6) @@ (37 :> 2) @@ (39 :> 2)
  @@ (41 :> 4) @@ (43 :> 2) @@ (44 :> 1) @@ (46 :> 1) @@ (47 :> 1)

(* Handler 0 frees the loop stack with two bkrepsto through r, runs a loop *)
(* of its own, restores both frames and returns with retic.  Handler 1    *)
(* changes b1 and returns with reti; the vectored handler calls a        *)
(* subroutine that calls another one, stores and restores the context   *)
(* and returns with rets.                                                *)
Isr0(ownLoops, rst) ==
  << <<64, Bkrepsto("r")>>, <<65, Bkrepsto("r")>>, <<66, Mov("a1", 3)>> >>
  \o ownLoops \o
  << <<rst, Bkreprst("r")>>, <<rst + 1, Bkreprst("r")>>, <<rst + 2, Op("retic")>> >>

OneLoop == << <<68, BkrepImm(1, 70)>>, <<70, Nop>> >>

Isr1 == << <<80, Mov("b1", 2)>>, <<82, Op("reti")>> >>
VecIsr ==
  << <<96, Call(100)>>, <<98, Op("reti")>>,
     <<100, Callr(1)>>, <<101, Op("ret")>>,
     <<102, Op("cntx_s")>>, <<103, Op("cntx_r")>>, <<104, Op("dint")>>,
     <<105, Rets(0)>> >>

ProgCore == Image(Boot \o Main \o Isr0(OneLoop, 71) \o Isr1 \o VecIsr)

(* Spec section 8: in Main, `rep 2` runs the instruction after it three   *)
(* times per execution of the rep, observed whenever no repeat is active *)
(* (Run's repeat bookkeeping, Repeat).                                   *)
RepCount ==
  ~regs.rep => ghost.execCount[36] = 3 * ghost.execCount[35]

(* Spec section 8 scenarios 4 and 5: when Main reaches its idle loop,     *)
(* every instruction of Main has run exactly as often as its loops and   *)
(* repeat say, whatever interrupts were taken on the way (Run's repeat   *)
(* and block-repeat bookkeeping, BlockRepeat, break_, the interrupt path).*)
LoopBodyCounts ==
  regs.pc = IdleAddr =>
    \A a \in DOMAIN MainCounts : ghost.execCount[a] = MainCounts[a]

IM0 == [i \in 0 .. 2 |-> i < 2]
IC0 == [i \in 0 .. 2 |-> i = 0]
(***************************************************************************)
(* Variants that exercise a single question each.                         *)
(***************************************************************************)

(* Spec section 8 scenario 4: `rep 2` followed by a two-word instruction. *)
MainRepTwoWord ==
  << <<32, Op("eint")>>, <<33, Nop>>, <<34, Nop>>,
     <<35, Rep(2)>>, <<36, Mov("b1", 5)>>, <<38, Brr(-1)>> >>

ProgRepTwoWord == Image(Boot \o MainRepTwoWord \o Isr0(OneLoop, 71) \o Isr1 \o VecIsr)

(* Handler 0 runs two nested loops of its own between bkrepsto and        *)
(* bkreprst while Main's two loops are saved.                             *)
TwoLoops == << <<68, BkrepImm(1, 73)>>, <<70, BkrepImm(1, 72)>>, <<72, Nop>>, <<73, Nop>> >>

ProgIsrLoops == Image(Boot \o Main \o Isr0(TwoLoops, 74) \o Isr1 \o VecIsr)

(* A loop that starts on page 0 and ends on page 1 is stored and restored *)
(* from its own body.                                                     *)
MainPage ==
  << <<32, Br(65532)>>,
     <<65532, BkrepReg(1, 65537)>>,
     <<65534, Bkrepsto("r")>>, <<65535, Bkreprst("r")>>,
     <<65536, Nop>>, <<65537, Nop>>, <<65538, Brr(-1)>> >>

ProgPage == Image(Boot \o MainPage \o Isr0(OneLoop, 71) \o Isr1 \o VecIsr)

(* Handler 0 saves and restores the loop stack through sp. *)
IsrSp ==
  << <<64, Bkrepsto("sp")>>, <<65, Bkrepsto("sp")>>,
     <<66, Bkreprst("sp")>>, <<67, Bkreprst("sp")>>, <<68, Op("retic")>> >>

ProgIsrSp == Image(Boot \o Main \o IsrSp \o Isr1 \o VecIsr)
====
