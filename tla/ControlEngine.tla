--------------------------- MODULE ControlEngine ---------------------------
(***************************************************************************)
(* The control engine of the Teak interpreter (src/src/interpreter.h):     *)
(* one step of Interpreter::Run per instruction cycle (fetch, expansion    *)
(* word, single-instruction repeat, block-repeat bookkeeping, execution,   *)
(* interrupt acceptance), the PC stack, the control-flow handlers, the     *)
(* block-repeat stack with its save/restore to data memory, and context    *)
(* store/restore.  The embedder's SignalInterrupt and                      *)
(* SignalVectoredInterrupt calls interleave between cycles.                *)
(*                                                                         *)
(* Data is abstracted: the accumulators a1/b1 hold the 16-bit immediates   *)
(* the modelled `mov` writes, flags are the Z/M pair such a write sets.    *)
(***************************************************************************)
EXTENDS Integers, Sequences, FiniteSets, TLC, FiniteSetsExt

CONSTANTS
  PROG,        \* program image: address -> decoded word (see MCControlEngine)
  PcEndian,    \* regs.pc_endian: word order of PushPC/PopPC
  IM, IC,      \* im[0..2], ic[0..2] as set by the boot code
  VIM, VIC,    \* vim, vic
  VecAddrs,    \* addresses the embedder passes to SignalVectoredInterrupt
  MaxCycles,   \* bound on the cycles Run executes
  MaxSignals,  \* bound on the interrupt signals the embedder raises
  Quiet        \* the last cycles of the run, in which no signal arrives

ASSUME PcEndian \in {0, 1} /\ MaxCycles \in Nat /\ MaxSignals \in Nat /\ Quiet \in Nat

VARIABLES
  regs,     \* RegisterState (the fields the control engine reads or writes)
  dm,       \* data memory: the words written so far (all others read 0)
  fault,    \* "none", or the fatal error that aborted Run
  cycles,   \* instruction cycles executed
  signals,  \* interrupt signals raised by the embedder
  ghost     \* history: executions per address, saved ISR and loop contexts

vars == <<regs, dm, fault, cycles, signals, ghost>>

Word == 0 .. 65535
Frame == [start : 0 .. 262143, end : 0 .. 262143, lc : Word]
Flags == [z : BOOLEAN, m : BOOLEAN]

(* 16-bit wrap-around of u16 registers and 16-bit sign extension. *)
Wrap16(x) == x % 65536
SignExtend16(v) == IF v >= 32768 THEN v - 65536 ELSE v

(* SetAccFlag for the values the model writes (|v| < 2^15): E is never  *)
(* set and N equals Z there, so Z and M are the flags that differ.     *)
AccFlags(v) == [z |-> v = 0, m |-> v < 0]

(***************************************************************************)
(* Memory interface and PC helpers.                                        *)
(***************************************************************************)
DataRead(m, a) == IF a \in DOMAIN m.dm THEN m.dm[a] ELSE 0
DataWrite(m, a, v) == [m EXCEPT !.dm = (a :> v) @@ m.dm]
Fail(m, why) == [m EXCEPT !.fault = why]
Ok(m) == m.fault = "none"

(* RegisterState::SetPC: fatal when the value does not fit in 18 bits. *)
SetPC(m, l, h) ==
  IF l + h * 65536 >= 262144 THEN Fail(m, "pc flies")
  ELSE [m EXCEPT !.regs.pc = l + h * 65536]

PushPC(m) ==
  LET l == m.regs.pc % 65536
      h == m.regs.pc \div 65536
      sp == m.regs.sp
      w1 == IF PcEndian = 1 THEN h ELSE l
      w2 == IF PcEndian = 1 THEN l ELSE h
  IN [DataWrite(DataWrite(m, Wrap16(sp - 1), w1), Wrap16(sp - 2), w2)
        EXCEPT !.regs.sp = Wrap16(sp - 2)]

(* Mutant: pops in the pc_endian = 1 word order whatever pc_endian is. *)
PopPCIgnoresEndian(m) ==
  LET sp == m.regs.sp
  IN SetPC([m EXCEPT !.regs.sp = Wrap16(sp + 2)], DataRead(m, sp), DataRead(m, Wrap16(sp + 1)))

PopPC(m) ==
  LET sp == m.regs.sp
      w1 == DataRead(m, sp)
      w2 == DataRead(m, Wrap16(sp + 1))
      l == IF PcEndian = 1 THEN w1 ELSE w2
      h == IF PcEndian = 1 THEN w2 ELSE w1
  IN SetPC([m EXCEPT !.regs.sp = Wrap16(sp + 2)], l, h)

(***************************************************************************)
(* Ghost snapshots: the loop stack as Run sees it (frame bcn-1 is the      *)
(* innermost) and the context an interrupt return must give back.         *)
(***************************************************************************)
LoopStack(m) ==
  [lp |-> m.regs.lp, frames |-> [k \in 0 .. m.regs.bcn - 1 |-> m.regs.bkrep[k]]]

Snapshot(m, ctx) ==
  [pc |-> m.regs.pc, sp |-> m.regs.sp, loops |-> LoopStack(m), ctx |-> ctx,
   a1 |-> m.regs.a1, b1 |-> m.regs.b1, flags |-> m.regs.flags,
   swapped |-> m.regs.swapped]

(***************************************************************************)
(* Context store/restore.  ShadowStore/ShadowSwap/ShadowRestore live in    *)
(* register.h: the flags are the stored shadow, `swapped` the swap banks.  *)
(***************************************************************************)
ContextStore(m) ==
  [m EXCEPT !.regs.shadowFlags = m.regs.flags,
            !.regs.swapped = ~m.regs.swapped,
            !.regs.b1 = m.regs.a1,
            !.regs.a1 = m.regs.b1,
            !.regs.flags = AccFlags(m.regs.b1)]

ContextRestore(m) ==
  [m EXCEPT !.regs.flags = m.regs.shadowFlags,
            !.regs.swapped = ~m.regs.swapped,
            !.regs.a1 = m.regs.b1,
            !.regs.b1 = m.regs.a1]

(* The ghost half of an interrupt return: pair the context saved when the *)
(* interrupt was taken with the one the return produced.                  *)
ReturnFromIsr(m) ==
  IF m.ghost.isrSaves = <<>> THEN m
  ELSE LET saved == m.ghost.isrSaves[Len(m.ghost.isrSaves)]
       IN [m EXCEPT !.ghost.lastReturn =
                      <<[saved |-> saved, restored |-> Snapshot(m, saved.ctx)]>>,
                    !.ghost.isrSaves = SubSeq(@, 1, Len(@) - 1)]

(***************************************************************************)
(* Block repeat.                                                           *)
(***************************************************************************)
BlockRepeat(m, lc, address) ==
  IF m.regs.bcn > 3 THEN Fail(m, "stack overflow")
  ELSE [m EXCEPT !.regs.bkrep[m.regs.bcn] =
                   [start |-> m.regs.pc, end |-> address, lc |-> lc],
                 !.regs.lp = TRUE,
                 !.regs.bcn = @ + 1]

(* bkrep with an 8-bit count and a 16-bit end address: the end lies on   *)
(* the page of the PC after the instruction; the register form takes an   *)
(* 18-bit end address.                                                    *)
Bkrep(m, lc, addr) == BlockRepeat(m, lc, addr + (m.regs.pc \div 65536) * 65536)

(* bkrepsto: four words downward from the pointer, then the outermost    *)
(* frame (slot 0) is dropped and the others shift down.                  *)
StoreBlockRepeat(m, reg) ==
  LET p == m.regs[reg]
      f == m.regs.bkrep[0]
      page == f.start \div 65536
      flag == (IF m.regs.lp THEN 32768 ELSE 0) + page + page * 256
      w == DataWrite(DataWrite(DataWrite(DataWrite(m,
             p, f.lc), Wrap16(p - 1), f.start % 65536),
             Wrap16(p - 2), f.end % 65536), Wrap16(p - 3), flag)
      n == m.regs.bcn
      s == [w EXCEPT !.regs[reg] = Wrap16(p - 4),
                     !.ghost.loopSaves = Append(@, LoopStack(m))]
  IN IF ~m.regs.lp THEN s
     ELSE [s EXCEPT !.regs.bkrep = [k \in 0 .. 3 |-> IF k < n - 1 THEN s.regs.bkrep[k + 1]
                                                                ELSE s.regs.bkrep[k]],
                    !.regs.bcn = n - 1,
                    !.regs.lp = n - 1 # 0]

(* bkreprst.  With loops live, copy_backward(begin, begin+bcn, begin+1)   *)
(* writes slots 1-bcn .. 0: in bounds it only sets slot 0 to the old top   *)
(* frame (slots 1-bcn .. -1 lie before the array); then bcn is raised.     *)
(* Mutant: makes room without raising bcn. *)
ShiftForRestoreNoRaise(m) ==
  IF ~m.regs.lp THEN m
  ELSE [m EXCEPT !.regs.bkrep[0] = m.regs.bkrep[m.regs.bcn - 1]]

ShiftForRestore(m) ==
  IF ~m.regs.lp THEN m
  ELSE [m EXCEPT !.regs.bkrep[0] = m.regs.bkrep[m.regs.bcn - 1],
                 !.regs.bcn = @ + 1]

RestoreBlockRepeat(m, reg) ==
  LET n == m.regs.bcn
      p == m.regs[reg]
      shifted == ShiftForRestore(m)
      flag == DataRead(m, Wrap16(p + 1))
      valid == flag >= 32768
      frame == [end |-> DataRead(m, Wrap16(p + 2)) + ((flag \div 256) % 4) * 65536,
                start |-> DataRead(m, Wrap16(p + 3)) + (flag % 4) * 65536,
                lc |-> DataRead(m, Wrap16(p + 4))]
      opened == IF ~m.regs.lp /\ valid
                THEN [shifted EXCEPT !.regs.lp = TRUE, !.regs.bcn = 1]
                ELSE shifted
      r == [opened EXCEPT !.regs.bkrep[0] = frame, !.regs[reg] = Wrap16(p + 4)]
      saves == m.ghost.loopSaves
  IN CASE m.regs.lp /\ n > 3 -> Fail(m, "stack overflow")
       [] m.regs.lp /\ ~valid ->
            Fail([shifted EXCEPT !.regs[reg] = Wrap16(p + 1)],
                 "pop invalid loop below valid loop")
       [] saves = <<>> -> r
       [] OTHER -> [r EXCEPT !.ghost.lastRestore =
                               <<[saved |-> saves[Len(saves)], restored |-> LoopStack(r)]>>,
                             !.ghost.loopSaves = SubSeq(saves, 1, Len(saves) - 1)]

(***************************************************************************)
(* Instruction handlers.  `m.regs.pc` is the address after the            *)
(* instruction and its expansion word, as in the code.                    *)
(***************************************************************************)
RegFromBus16(m, reg, v) ==
  IF reg \in {"a1", "b1"}
  THEN [m EXCEPT !.regs[reg] = SignExtend16(v), !.regs.flags = AccFlags(SignExtend16(v))]
  ELSE [m EXCEPT !.regs[reg] = v]

(* Mutant: one repetition too many. *)
RepeatOffByOne(m, count) == [m EXCEPT !.regs.repc = count + 1, !.regs.rep = TRUE]

Repeat(m, count) == [m EXCEPT !.regs.repc = count, !.regs.rep = TRUE]

(* Mutant: break_ leaves lp set when it pops the last frame. *)
BreakKeepsLp(m) ==
  IF ~m.regs.lp THEN Fail(m, "not in a loop") ELSE [m EXCEPT !.regs.bcn = @ - 1]

Break(m) ==
  IF ~m.regs.lp THEN Fail(m, "not in a loop")
  ELSE [m EXCEPT !.regs.bcn = @ - 1, !.regs.lp = m.regs.bcn - 1 # 0]

(* Mutant: reti returns without setting ie again. *)
RetiKeepsIeOff(m) == ReturnFromIsr(PopPC(m))

Reti(m) == ReturnFromIsr([PopPC(m) EXCEPT !.regs.ie = TRUE])

Retic(m) == ReturnFromIsr(ContextRestore([PopPC(m) EXCEPT !.regs.ie = TRUE]))

Execute(m, ins) ==
  CASE ins.op = "nop"      -> m
    [] ins.op = "mov"      -> RegFromBus16(m, ins.dst, ins.val)
    [] ins.op = "br"       -> SetPC(m, ins.addr % 65536, ins.addr \div 65536)
    [] ins.op = "brr"      -> [m EXCEPT !.regs.pc = @ + ins.delta]
    [] ins.op = "call"     -> SetPC(PushPC(m), ins.addr % 65536, ins.addr \div 65536)
    [] ins.op = "callr"    -> LET p == PushPC(m) IN [p EXCEPT !.regs.pc = @ + ins.delta]
    [] ins.op = "ret"      -> PopPC(m)
    [] ins.op = "reti"     -> Reti(m)
    [] ins.op = "retic"    -> Retic(m)
    [] ins.op = "rets"     -> LET p == PopPC(m) IN [p EXCEPT !.regs.sp = Wrap16(@ + ins.imm)]
    [] ins.op = "rep"      -> Repeat(m, ins.count)
    [] ins.op = "bkrep"    -> Bkrep(m, ins.lc, ins.addr)
    [] ins.op = "bkrep_reg" -> BlockRepeat(m, ins.lc, ins.addr)
    [] ins.op = "break"    -> Break(m)
    [] ins.op = "bkrepsto" -> StoreBlockRepeat(m, ins.reg)
    [] ins.op = "bkreprst" -> RestoreBlockRepeat(m, ins.reg)
    [] ins.op = "eint"     -> [m EXCEPT !.regs.ie = TRUE]
    [] ins.op = "dint"     -> [m EXCEPT !.regs.ie = FALSE]
    [] ins.op = "cntx_s"   -> ContextStore(m)
    [] ins.op = "cntx_r"   -> ContextRestore(m)

(***************************************************************************)
(* Interrupt acceptance at the end of a cycle: the lowest enabled pending  *)
(* regular interrupt, else the vectored one.                              *)
(***************************************************************************)
TakeInterrupt(m, vector, ctx) ==
  LET pushed == PushPC([m EXCEPT !.regs.ie = FALSE])
      vectored == [pushed EXCEPT !.regs.pc = vector,
                                 !.ghost.isrSaves = Append(@, Snapshot(m, ctx))]
  IN IF ctx THEN ContextStore(vectored) ELSE vectored

(* Mutant: the vectored interrupt is scanned before the regular ones. *)
InterruptsVectoredFirst(m) ==
  LET pending == {i \in 0 .. 2 : IM[i] /\ m.regs.ip[i]}
  IN CASE ~m.regs.ie \/ m.regs.rep -> m
       [] VIM /\ m.regs.vip ->
            TakeInterrupt([m EXCEPT !.regs.vip = FALSE], m.regs.viaddr, VIC)
       [] pending # {} ->
            LET i == Min(pending)
            IN TakeInterrupt([m EXCEPT !.regs.ip[i] = FALSE], 6 + i * 8, IC[i])
       [] OTHER -> m

Interrupts(m) ==
  LET pending == {i \in 0 .. 2 : IM[i] /\ m.regs.ip[i]}
  IN CASE ~m.regs.ie \/ m.regs.rep -> m
       [] pending # {} ->
            LET i == Min(pending)
            IN TakeInterrupt([m EXCEPT !.regs.ip[i] = FALSE], 6 + i * 8, IC[i])
       [] VIM /\ m.regs.vip ->
            TakeInterrupt([m EXCEPT !.regs.vip = FALSE], m.regs.viaddr, VIC)
       [] OTHER -> m

(***************************************************************************)
(* One iteration of the loop in Interpreter::Run.                         *)
(***************************************************************************)
Fetch(m, a, ins) ==
  [m EXCEPT !.regs.pc = a + ins.words, !.ghost.execCount[a] = @ + 1]

(* Mutant: decrements repc without testing it for zero. *)
RepeatStepNoZeroTest(m) ==
  IF ~m.regs.rep THEN m ELSE [m EXCEPT !.regs.repc = @ - 1, !.regs.pc = @ - 1]

RepeatStep(m) ==
  CASE ~m.regs.rep -> m
    [] m.regs.repc = 0 -> [m EXCEPT !.regs.rep = FALSE]
    [] OTHER -> [m EXCEPT !.regs.repc = @ - 1, !.regs.pc = @ - 1]

(* Mutant: compares the loop end with the PC instead of end + 1. *)
BlockRepeatStepAtEnd(m) ==
  LET top == m.regs.bcn - 1
  IN CASE ~m.regs.lp \/ m.regs.bkrep[top].end # m.regs.pc -> m
       [] m.regs.bkrep[top].lc = 0 -> [m EXCEPT !.regs.bcn = top, !.regs.lp = top # 0]
       [] OTHER -> [m EXCEPT !.regs.bkrep[top].lc = @ - 1, !.regs.pc = m.regs.bkrep[top].start]

BlockRepeatStep(m) ==
  LET top == m.regs.bcn - 1
  IN CASE ~m.regs.lp \/ m.regs.bkrep[top].end + 1 # m.regs.pc -> m
       [] m.regs.bkrep[top].lc = 0 ->
            [m EXCEPT !.regs.bcn = top, !.regs.lp = top # 0]
       [] OTHER ->
            [m EXCEPT !.regs.bkrep[top].lc = @ - 1,
                      !.regs.pc = m.regs.bkrep[top].start]

Machine == [regs |-> regs, dm |-> dm, fault |-> fault, ghost |-> ghost]

Assign(m) ==
  /\ regs' = m.regs
  /\ dm' = m.dm
  /\ fault' = m.fault
  /\ ghost' = m.ghost

(* Run's loop counter: a cycle runs while the count lasts and nothing     *)
(* has thrown.                                                            *)
CycleTick ==
  /\ fault = "none"
  /\ cycles < MaxCycles
  /\ cycles' = cycles + 1

RunCycle ==
  /\ CycleTick
  /\ UNCHANGED signals
  /\ LET a == regs.pc
         ins == PROG[a]
     IN IF a \notin DOMAIN PROG \/ (ins.words = 2 /\ a + 1 \notin DOMAIN PROG)
        THEN Assign(Fail(Machine, "program word outside the image"))
        ELSE LET executed == Execute(BlockRepeatStep(RepeatStep(Fetch(Machine, a, ins))), ins)
             IN Assign(IF Ok(executed) THEN Interrupts(executed) ELSE executed)

(* The embedder's calls between cycles (ICU -> Interpreter), none in the *)
(* last Quiet cycles of the run.                                         *)
SignalInterrupt(i) ==
  /\ fault = "none" /\ cycles + Quiet < MaxCycles /\ signals < MaxSignals
  /\ regs' = [regs EXCEPT !.ip[i] = TRUE]
  /\ signals' = signals + 1
  /\ UNCHANGED <<dm, fault, cycles, ghost>>

SignalVectoredInterrupt(address) ==
  /\ fault = "none" /\ cycles + Quiet < MaxCycles /\ signals < MaxSignals
  /\ regs' = [regs EXCEPT !.viaddr = address, !.vip = TRUE]
  /\ signals' = signals + 1
  /\ UNCHANGED <<dm, fault, cycles, ghost>>

(* Reset state: every register zero (spec section 6). *)
Init ==
  /\ regs = [pc |-> 0, sp |-> 0, r |-> 0, rep |-> FALSE, repc |-> 0,
             lp |-> FALSE, bcn |-> 0,
             bkrep |-> [k \in 0 .. 3 |-> [start |-> 0, end |-> 0, lc |-> 0]],
             ie |-> FALSE, ip |-> [i \in 0 .. 2 |-> FALSE], vip |-> FALSE,
             viaddr |-> 0, a1 |-> 0, b1 |-> 0,
             flags |-> [z |-> FALSE, m |-> FALSE],
             shadowFlags |-> [z |-> FALSE, m |-> FALSE], swapped |-> FALSE]
  /\ dm = << >>
  /\ fault = "none"
  /\ cycles = 0
  /\ signals = 0
  /\ ghost = [execCount |-> [a \in DOMAIN PROG |-> 0], isrSaves |-> << >>,
              lastReturn |-> << >>, loopSaves |-> << >>, lastRestore |-> << >>]

Next ==
  \/ RunCycle
  \/ \E i \in 0 .. 2 : SignalInterrupt(i)
  \/ \E a \in VecAddrs : SignalVectoredInterrupt(a)

Spec == Init /\ [][Next]_vars

(* Run(cycles) is one loop that executes its cycles back to back until   *)
(* the count is used up or a handler throws: a cycle that can run does.  *)
(* RunCycle is the only action that changes cycles, and it can always    *)
(* take a step when CycleTick can, so weak fairness of CycleTick on       *)
(* cycles is weak fairness of RunCycle.                                   *)
FairSpec == Spec /\ WF_cycles(CycleTick)

(***************************************************************************)
(* Properties.                                                             *)
(***************************************************************************)
TypeOK ==
  /\ regs.pc \in Nat /\ regs.sp \in Word /\ regs.r \in Word
  /\ regs.rep \in BOOLEAN /\ regs.repc \in Word
  /\ regs.bkrep \in [0 .. 3 -> Frame]
  /\ regs.ie \in BOOLEAN /\ regs.ip \in [0 .. 2 -> BOOLEAN] /\ regs.vip \in BOOLEAN
  /\ regs.a1 \in -32768 .. 32767 /\ regs.b1 \in -32768 .. 32767
  /\ regs.flags \in Flags /\ regs.shadowFlags \in Flags /\ regs.swapped \in BOOLEAN
  /\ dm \in [DOMAIN dm -> Word]
  /\ fault \in STRING

(* Spec section 3: the block-repeat stack never holds more than four      *)
(* frames and lp is set exactly when a frame is live (Run, break_,        *)
(* BlockRepeat, StoreBlockRepeat and RestoreBlockRepeat all change them). *)
LoopStackWellFormed ==
  regs.bcn \in 0 .. 4 /\ (regs.lp <=> regs.bcn > 0)

(* An interrupt is transparent to the code it interrupts: the reti/retic  *)
(* that ends the handler gives back the PC and sp at which the interrupt  *)
(* was taken and the block-repeat stack live then; when the interrupt    *)
(* stored the context (ic/vic), retic also gives back a1, the flags and  *)
(* the banked registers (b1 holds a1's copy during the handler, so b1    *)
(* itself is not preserved) (Run's interrupt path, PushPC/PopPC,          *)
(* ContextStore/ContextRestore, bkrepsto/bkreprst inside handlers).       *)
IsrReturnRestores ==
  \A k \in DOMAIN ghost.lastReturn :
    LET s == ghost.lastReturn[k].saved
        r == ghost.lastReturn[k].restored
    IN /\ r.pc = s.pc /\ r.sp = s.sp /\ r.loops = s.loops
       /\ s.ctx => (r.a1 = s.a1 /\ r.flags = s.flags /\ r.swapped = s.swapped)

(***************************************************************************)
(* Refinement of LoopStack.  The live loops are slots 0 .. bcn-1 of the   *)
(* bkrep array, the outermost first; what each bkrepsto took out is its   *)
(* slot 0 when lp was set, taken from the ghost record of the stores not  *)
(* yet restored.  The frames a push may open are those the program's      *)
(* bkrep instructions describe (start after the instruction, the end on  *)
(* the page of that address for the 16-bit form).                         *)
(***************************************************************************)
BkrepFrames ==
  LET at == {a \in DOMAIN PROG : PROG[a].op \in {"bkrep", "bkrep_reg"}}
      next(a) == a + PROG[a].words
      end(a) == IF PROG[a].op = "bkrep" THEN PROG[a].addr + (next(a) \div 65536) * 65536
                ELSE PROG[a].addr
  IN {[start |-> next(a), end |-> end(a), lc |-> PROG[a].lc] : a \in at}

LS == INSTANCE LoopStack
        WITH loops <- [k \in 1 .. regs.bcn |-> regs.bkrep[k - 1]],
             stored <- [k \in DOMAIN ghost.loopSaves |->
                          IF ghost.loopSaves[k].lp THEN <<ghost.loopSaves[k].frames[0]>>
                          ELSE << >>],
             Frames <- BkrepFrames

(* The block-repeat stack of the control engine behaves as the stack of   *)
(* LoopStack: every cycle pushes a frame a bkrep describes, counts the    *)
(* innermost loop down, pops it, moves the outermost frame to memory or   *)
(* brings the frame stored last back underneath the live ones, or leaves *)
(* the stack alone (BlockRepeat, Run's end-of-loop step, break_,         *)
(* StoreBlockRepeat, RestoreBlockRepeat, through interrupts and returns). *)
LoopStackRefinement == LS!Spec

(* Spec section 4.1: bkreprst undoes the matching bkrepsto, so the loop    *)
(* stack after the restore is the stack before the store, every frame's   *)
(* start, end and remaining count included (StoreBlockRepeat,            *)
(* RestoreBlockRepeat).                                                   *)
LoopSaveRestore ==
  \A k \in DOMAIN ghost.lastRestore :
    ghost.lastRestore[k].restored = ghost.lastRestore[k].saved
(* Spec sections 5 and 8, interrupt acceptance: no cycle ends with ie   *)
(* set, no repeat active and an enabled interrupt still pending (the     *)
(* interrupt scan at the end of Run's cycle, after a handler such as     *)
(* eint or reti has set ie); a cycle that takes regular interrupt i has  *)
(* no lower enabled one pending, clears ip[i] and ie and vectors to      *)
(* 0x0006 + 8i, and a cycle that takes the vectored interrupt had no     *)
(* regular one pending and vectors to viaddr.                            *)
EnabledPending(r) == (\E i \in 0 .. 2 : IM[i] /\ r.ip[i]) \/ (VIM /\ r.vip)

InterruptAcceptance ==
  [][cycles' = cycles + 1 /\ fault' = "none" =>
       /\ ~(regs'.ie /\ ~regs'.rep /\ EnabledPending(regs'))
       /\ \A i \in 0 .. 2 :
            regs.ip[i] /\ ~regs'.ip[i] =>
              /\ regs'.pc = 6 + 8 * i /\ ~regs'.ie
              /\ \A j \in 0 .. i - 1 : ~(IM[j] /\ regs.ip[j])
       /\ regs.vip /\ ~regs'.vip =>
            /\ regs'.pc = regs.viaddr /\ ~regs'.ie
            /\ \A i \in 0 .. 2 : ~(IM[i] /\ regs.ip[i])]_vars

(* Spec section 5: an enabled interrupt the embedder signals is taken.   *)
(* Run accepts interrupts only at the end of a cycle with ie set and no  *)
(* rep active, one per cycle, the lowest regular one first, and a handler *)
(* runs with ie clear until its reti/retic; so every signalled interrupt *)
(* whose mask bit is set is eventually taken, provided Run keeps running *)
(* (Run's interrupt scan, rep, eint, reti, retic).                       *)
InterruptsServed ==
  /\ \A i \in 0 .. 2 : IM[i] /\ regs.ip[i] ~> ~regs.ip[i]
  /\ VIM /\ regs.vip ~> ~regs.vip
====
