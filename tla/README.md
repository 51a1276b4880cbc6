# TLA+ models of the Teak DSP interpreter

This directory holds TLA+ models of the Teak interpreter in `src/src/interpreter.h`,
the TLC configurations that check them, and `PROJECT.json`. `PROJECT.json` maps
every modelled definition to the source lines it translates, and it lists the runs,
the mutants, the findings and the hazards.

## The system

The interpreter runs as one thread on one core. The embedder calls `Run(n)`, and
between calls it may call `SignalInterrupt(i)` or `SignalVectoredInterrupt(addr)`.
The parts, as the source and `spec.md` name them:

| Part | Where | Status |
|------|-------|--------|
| Control engine (CE) | `Run`, `PushPC`/`PopPC`, branch/call/return handlers, `rep`, `bkrep`/`break`/`bkrepsto`/`bkreprst`, `ContextStore`/`ContextRestore`, `eint`/`dint` (interpreter.h 17-118, 965-1039, 1096-1190, 1340-1353, 1423-1428) | partly: `ControlEngine.tla` |
| Register file (RF) | `register.h`, which is not in `src/`: `SetPC`, `ShadowStore`/`ShadowSwap`/`ShadowRestore`, `ConditionPass` | partly: the pieces CE uses are modelled from the spec |
| Address generation (AGU) | `RnAddress`, `OffsetAddress`, `StepAddress`, `RnAndModify` (3252-3434); handlers `modr*`, `mov (Rn,step)`, `mov2`, `bitrev*`, `load_mod*`, `load_step*` | partly: `AGUArith.tla`, `AGU.tla` |
| ALU/MAC engine (AME) | accumulators, `AddSub`, `SaturateAcc`, shifts, multiply, `SetAccFlag` (2940-3130 and the arithmetic handlers) | partly: `AMEArith.tla`, `AME.tla`; `ControlEngine` uses `SetAccFlag`'s Z/M |
| Data moves | `mov`, `mov2`, `mov2s`, `mova`, `mov2_ax_mij`/`mji`, `mov2_axh_m_y0_m`, `mov2_abh_m`, `exchange_*`, `mov_p0*`, `RegToBus16`/`RegFromBus16` (1642-2202, 2988-3173) | partly: `DataMove.tla` |
| Data stack | `push`, `pop`, `pusha`, `popa` and the named `push_*`/`pop_*` forms (1218-1338) | partly: `RegStack.tla` |
| Memory interface (MIF) | `memory_interface.h`, which is not in `src/` | abstracted: sparse data memory, a constant program image |
| MMIO | `mmio.h` declares `MMIORegion` but has no implementation | not modelled |
| JIT IR | `ir/basic_block.h` declares a container of microinstructions | not modelled |

How the parts interact:

- CE fetches from program memory, decodes and executes.
- Handlers read and write RF registers, and read and write data memory through MIF.
- AGU computes data addresses.
- AME computes accumulator values and flags.
- Interrupts are raised only by the embedder. CE examines them at the end of each
  cycle, after the handler has run.

## ControlEngine.tla

This module models the control engine.

**State.** `regs` is a record of the `RegisterState` fields the control engine reads or writes:

- `pc`, `sp`, one address register `r`
- `rep`, `repc`
- `lp`, `bcn`, the four-slot `bkrep` stack
- `ie`, `ip`, `vip`, `viaddr`
- `a1`, `b1`, and the Z/M flags
- the shadowed flags and the bank swap

`dm` is the data memory. Only written words are stored; every other word reads 0,
and all arithmetic on addresses is 16-bit.

`fault` records the fatal error (`throw`) that ended `Run`.

`ghost` is history used only by the properties:

- how often each address was executed
- the state saved when an interrupt was taken
- the loop stack saved by each `bkrepsto`

**Actions.** Three actions make up `Next`:

- `RunCycle` is one iteration of the loop in `Run`, in the order the code uses:
  1. `Fetch`: the opcode and, for a two-word instruction, the expansion word.
  2. `RepeatStep`.
  3. `BlockRepeatStep`.
  4. `Execute`: the handler.
  5. `Interrupts`: the lowest pending enabled interrupt, else the vectored one,
     and `ContextStore` when `ic`/`vic` is set.

  A handler that throws ends the run. The interrupt scan does not happen after it.
  Each helper is an operator from machine state to machine state, named after its
  C++ counterpart. They are:
  - `PushPC`, `PopPC`, `SetPC`
  - `BlockRepeat`, `Bkrep`, `StoreBlockRepeat`, `RestoreBlockRepeat`
  - `Repeat`, `Break`
  - `ContextStore`, `ContextRestore`
  - `RegFromBus16`
- `SignalInterrupt(i)` and `SignalVectoredInterrupt(a)` model the embedder's calls.
  They interleave with cycles at any point, up to `MaxSignals` signals in total.

**Copying in `RestoreBlockRepeat`.** This is where the code has undefined behaviour.
`std::copy_backward(begin, begin + bcn, begin + 1)` treats `begin + 1` as the end of
the destination. So it writes slots `1 - bcn .. 0`. Only slot 0 lies inside the
array, and it receives the old top frame. The model does exactly that. The writes
before the array are out of bounds and are not modelled.

**Instructions.** An instruction is a decoded record (`op`, `words`, operands).
Conditions are always true, because `ConditionPass` is in `register.h`.

**MCControlEngine.tla.** This module holds the programs. Each program is a listing
of the decoded instruction at each address; expansion words are filled in by `Image`.

- Boot code sets `sp = 16` and `r = 31` and jumps to `Main`.
- The vectors are:
  - vector 0 (address 6) leads to a handler that saves the context;
  - vector 1 (address 14) leads to a handler that does not;
  - vectored interrupts go to address 96.

## LoopStack.tla: what the loop stack promises

`LoopStack` is an abstract specification of the block-repeat stack, free of the
four-slot array, `bcn` and the memory layout. `loops` is a sequence of frames with
the innermost last, and `stored` is the sequence of what each `bkrepsto` took out.
Its actions are:

- `Push`: a `bkrep`, below depth 4.
- `Iterate`: an iteration of the innermost loop.
- `Pop`: the last iteration, or `break`.
- `Save`: a `bkrepsto`, which takes the outermost frame, or nothing when no loop is live.
- `Restore`: a `bkreprst`, which puts the frame stored last back underneath the live ones.

`ControlEngine` instantiates it as `LS`. The refinement mapping is:

- `loops` is slots `0 .. bcn-1` of the `bkrep` array;
- `stored` is slot 0 of each stored stack not yet restored, taken from the ghost record;
- `Frames` is the set of frames the program's `bkrep` instructions describe
  (`BkrepFrames`).

`LoopStackRefinement == LS!Spec` is a property of `ce_core`. Every cycle, interrupts
and handler loops included, is a step of `LoopStack` or leaves its state unchanged.
With two loops live the code's `bkreprst` is not a `Restore`. That is why
`ce_isr_nested_loops` violates `LoopSaveRestore`: the same program breaks the refinement
as well.

## AGUArith.tla and AGU.tla

`AGUArith` holds the address arithmetic as operators over a record `g` of the
AGU registers. The registers are `r`, `m`, `brv`, `modi`/`modj`, `stepi`/`stepj`,
`fr`, and the mode bits `legacy_mod`, `bankstep`, `r3z` and `r7z`.

The operators, with their C++ counterparts:

- `RnAddress` applies bit reversal when `brv` is set and `m` is clear.
- `OffsetAddress` handles the four offset codes. A mask of at least one bit gives
  the modulo wrap.
- `StepSize` is the switch of `StepAddress`. It covers 7- or 9-bit sign extension
  and the `bankstep` choice of `stepi0`.
- `LegacyModStep` and `ModernModStep` are the two bodies of `StepAddress`'s modulo
  loop. `StepAddress` itself adds the early returns and iterates twice in step2
  mode 1.
- `RnAndModify` adds the r3/r7 zero-skip.

The loop that ORs `mod >> i` into the mask is `SmearBits`. Bit operations come from
the community `Bitwise` module. `BitReverse` is defined in a header outside `src/`
and is modelled from the spec.

`AGU` is the state machine of the handlers that change address registers. Its
actions are:

- `Modr`: `modr`, `modr_dmod`, `modr_i2`, `modr_d2` and their `_dmod` forms. It sets
  `fr`.
- `ModrPair`: `modr_eemod`/`edmod`/`demod`/`ddmod`, which do not touch `fr`.
- `MovLoad`: `mov (Rn, StepZIDS) -> register`.
- `Mov2Store`: `mov2 px -> (ArRn, ArStep)`, whose two writes go to the offset
  address and then the base address.
- `Bitrev`, `BitrevDbrv` and `BitrevEbrv`.
- `LoadMod` and `LoadStep`.

The `ArRn`/`ArStep` indirection tables (`GetArRnUnit`, `GetArStep`) are abstracted:
the handler takes a unit and a step code directly.

Data is abstracted. `last` records each `RnAndModify` call, with the registers
before it and the new value, and the addresses accessed, in order.

`MCAGU` runs one handler from every register set-up built from these values:

- units 3 (with zero-skip) and 4 (the j side);
- start addresses 4 and 21, which are inside and outside the windows;
- moduli 0, 4 and 7;
- steps +1 and -3;
- both dialects, both `bankstep` values, and `r3z` on or off.

The state in which a handler runs is any register contents software can set up, so
one handler per behaviour covers the handlers. `MCAGUArith` is a probe harness. Each
initial state is one call:

- a modulo configuration with a modulus from 0..9, a step of +1 or -1, and either
  dialect;
- an address from 0..40;
- a step code or an offset code.

`Compute` evaluates the call once, so the arithmetic is checked over all these
inputs.

## AMEArith.tla and AME.tla

`AMEArith` holds the arithmetic of the accumulator engine as pure operators over a
register record `m`. The record holds the accumulators, the flags (`fc1` included),
`sar`, `s`, `sv`, `x`, `y`, `p`, `psign`, `ps`, `ym` and the two `vtr` registers. TLC's integers are 32 bits wide, so a 40-bit
bus value is a record `[hi, lo]`, where `hi` is bits 39..16 (0..2^24-1) and `lo` is
bits 15..0. The operators follow the code's names and lines:

- `SetAccFlag`, `SaturateAcc`, `SaturateAccUnconditional` and `SetAcc` (2940-3130);
- `SwapTypes`, `SwapPrelude` and `SwapRegs`, the register transfers of `swap`
  (142-224); `AME`'s `Swap` stores them and sets the flags from the last write;
- `NormShift`, the accumulator part of `norm` (127-136); the handler itself, which
  also post-modifies an Rn and sets R, is `DataMove`'s `Norm`;
- `AddSub` (250-262), including C from bit 40 and V from the 40-bit signed overflow;
- `ProductToBus40` (3081-3096) and the two-step `ProductSum` (274-313);
- `ShiftBus40` (2204-2261), with both arithmetic and logic modes, both directions,
  and the saturation that clamps by the original sign;
- `Exp` (2340-2365);
- `DivsStep`, one step of the restoring division `divs` (2543-2552);
- `Less40`, `MinMaxTakes` and `MinMaxStep`: the comparison and update of
  `max_ge`/`max_gt`/`min_le`/`min_lt` (2437-2541);
- `MinMaxVtr`, with `SignedLane`, `TakesV` and `VtrShr`: the lane-wise max/min of
  `max2_vtr`/`min2_vtr`, which sets C and `fc1` per lane and shifts them into the
  `vtr` registers (2609-2623, `vtrshr` 2420-2424);
- `MulOps` and `MulGeneric`: the accumulate-then-multiply of the `mul` family
  (1430-1456).

`AME` applies them as handlers. Its variables:

- `ame`: the register record;
- `flagged`: a history variable naming the accumulator whose value the Z and M flags
  were last computed from, and how (`SetAcc`, a shift, or `none` after a flag write
  that describes no accumulator);
- `ops`: an operation counter;
- `fault`: set by an operand combination the code rejects with `UNREACHABLE`.

There is one action per handler family:

- `add`/`sub` of accumulators and products;
- the 14 product-sum handlers and the four `sv` ones;
- `alm` and `alu` (with `and #imm8`);
- `alb` on accumulator halves;
- `AndOr`, the three `or_` forms and `and_`: the bitwise result goes to an Ax through
  `SetAcc` without saturation (the flags describe it);
- the `moda` operations (`neg`, `rnd`, `pacr`, `clr`, `copy`, shifts and rotates...);
- `pacr1`, `shfc`, `shfi`, `movs`, `movsi`, `divs`, `swap` (14 types), `exp` and `lim`;
- the `movr` family;
- the multiplies (`mpy`, `mpyi`, `clrp`, `mac_x1to0`), `sqr_sqr_add3` and
  `sqr_mpysu_add3a` on accumulators, and `mma` on registers (`MulBoth` multiplies
  p0, then p1);
- `cmp` in all five forms (`cmp_p1_to` included), which sets flags and writes nothing;
- `max2_vtr`/`min2_vtr` (`MinMax2Vtr`), `vtrclr0`/`vtrclr1`/`vtrclr`, `vtrshr` and
  `vtrmov0`/`vtrmov1`/`vtrmov`;
- loads of `ps` and `sv`.

`MCAMEArith` is a probe harness, like `MCAGUArith`. Each probe is one call on
13 values at the edges of the 32- and 40-bit ranges, with 15 shift amounts and both
`s` and saturation settings. A `divs` probe runs sixteen steps (`DivsRepeat`, as
`rep #15` runs them). The divisors are 1, 3, 255, 256, 32767, 32768 and 65535. Each
dividend `nh * 2^16 + nl` has `nh < d`, with `nh` at 0, 1, `d/2` or `d - 1`, and `nl`
at the edges of a word. A `scan` probe runs a min/max handler over an array of three
words, as `rep` runs `max_gt_r0` and the rest (`MinMaxScan`). A `vtr` probe runs
`max2_vtr` or `min2_vtr` twice from set `vtr` registers, with lane values at the
signed edges of 24 and 16 bits (`VtrRun`). A `mac` probe runs one `mul_y0` op of the
Mac family over three word pairs at 1, 32768 and 65535, then one more step with zero
operands to flush the last product (`MacRun`), with `ps` 0 or 1. The reference is a signed pair `[shi, lo]` with an
unbounded high part, so it is independent of the limb encoding.

`MCAME` starts each behaviour from one of 512 register set-ups and allows one handler
(`MaxOps = 1`). The set-ups put the accumulators at the range edges. The flags either
describe one accumulator or none. The latches are set or clear. They cover both
saturation modes, both shift modes, a left and a right `sv`, and products that
overflow the bus when shifted. Any software-reachable state is a possible starting
state, so one step from a rich set of starting states covers what a longer run would
reach, at a fraction of the cost.

## RegStack.tla

`RegStack` holds the data-stack handlers and the bus conversions `RegToBus16` and
`RegFromBus16`, which `DataMove` uses too. A handler is an operator from a stack state
`[m, g, d, sp]` to the state after it. `m` is the AME registers, `g` the address
registers, `d` the data memory and `sp` the stack pointer. As in the code, every
push predecrements `sp` before its write and every pop postincrements it after its
read, both in u16:

- `PushImm16`, `PushRegister` (`push(Register)` and the named `push_r6`, `push_x0`,
  `push_x1`, `push_y1`, whose word is the register's), `PushAbe` (bits 32-47 of the
  read-saturated accumulator), `PushPx` (the low 32 bits of `ProductToBus40`) and
  `Pusha` (the read-saturated accumulator cut to 32 bits). A pair goes on low word
  first (`PushPair`).
- `PopRegister` (`pop(Register)`, `pop(Bx)` and the named forms, through
  `RegFromBus16`), `PopAbe` (the low byte, sign-extended, replaces bits 32-39 through
  `SetAcc`), `PopPx` (`ProductFromBus32`, psign from bit 31) and `Popa` (the two words
  sign-extended from bit 31, through `SetAcc`). A pair comes off high word first
  (`PopPair`).

`MCAMEArith` runs them as save/restore sequences (probe kind `"stack"`). Three saves
of distinct registers are pushed and then popped in reverse order. A save is one of:

- x0, sv or r6, through the register or named forms;
- the high word of p, through `Register p`;
- p0 or p1, through `Px`;
- b1, through `pusha`/`popa`;
- a0 as the idiom `push a0e; pusha a0` ... `popa a0; pop a0e`.

The runs start from `sp = 0`, so the first push wraps to 65535, and from
`sp = 100`. They cover every read and store saturation setting, an a0 that fits
32 bits and two that do not, products with psign equal to bit 31 and different from
it, and `ps` 0 and 1.


`DataMove` composes the AME registers (`ame`), the address registers of
`AGUArith` (`agu`) and the data memory `dm`. It adds `page`, the page field of `st1`.
Every AME handler stays an action, `AmeStep`, which leaves `agu`, `dm` and `page`
alone.

The data-move handlers are actions too. Each one includes the `RegToBus16` or
`RegFromBus16` conversion it goes through, with the saturation, sign extension and
flag update of that conversion. The actions are:

- `MovAb`, `MovToXY`, `MovXYTo`, `MovRegBx`, `MovRegReg`, `MovRegRegP`, `MovRegRegPc`;
- `MovImm`;
- `StoreMem` and `LoadMem`, the direct forms: `MemImm8` relative to `page`, and
  `MemImm16`, `MemR7Imm16` and `MemR7Imm7s` added to `r7` in u16 (`MemAddress`);
- `MovFromRn` and `MovToRn`, through `RnAddressAndModify`;
- `MovP0h`, `MovP0`, `MovP1To`;
- the paired stores and loads `Mov2Store` (`mov2`/`mov2s`), `Mov2Load`, `MovaStore`,
  `MovaLoad`, `Mov2AxhMY0M`, `Mov2AbhM`, which use the base and offset address of
  one unit (`OffsetPair`);
- `Mov2AxM`, `Mov2MAx` and `Exchange`, which use one i unit and one j unit (`ArpPair`);
- the dual adds of the `add_add` family: `AddAdd` (`add_add`, `add_sub`, `sub_add`,
  `sub_sub`), `AddSubSv`, `SubAddMovSv` and `AddSubMov`. `DualLanes` computes them: the
  high lane adds or subtracts the sign-extended words, the low lane adds or subtracts
  the words at the offset addresses, and no carry passes between the lanes. The result
  goes through `SetAcc_Simple`. `SubAddMovSv` then loads `sv` from the other unit's
  address. `AddSubMov` stores the read-saturated low word of b's old value there; it
  is recorded in `spill` with form `"word"`;
- `MaxMin` and `MaxMinR0`: `max_ge` ... `min_lt` against the other accumulator, or
  against the word at r0. They step r0, and leave r0's old value in `mixp` when they
  take the value;
- the multiplies with memory operands: `MulMem` (`mul` Rn/Imm16, `mul_y0` Rn,
  `mul` R45/R0123), `MsuMem` (both `msu` forms and `msusu`), `Mac1`,
  `SqrSqrAdd3Mem` and `Addhp`. The units step before the words are read;
- the `mma` memory forms: `MmaMem` (ArpRn), `MmaSwapY` (`mma_mx_xy`, `mma_xy_mx`),
  `MmaMyMy` and `MmaMov` (both forms). `MmaMov` stores two read-saturated high
  words, the offset address first, before the product sum, and records them in
  `spill`;
- `CbsAcc` and `CbsMem`, the three `cbs` forms. `Cbs` compares p0 and p1 before it
  squares `u`, and on success sets `mixp` and swaps the operands;
- `VtrMovWord` and `VtrMovPair`: the `max2_vtr`/`min2_vtr` forms that store the
  counterpart accumulator's low or high word at rN, or both words at i and j;
- `TstbMem`, `TstbRn`, `TstbReg` (`tstb` on MemImm8, Rn StepZIDS and Register,
  the Register form reading the halves without saturation) and `Tst4b` (both
  `tst4b` forms): Z (and for `tst4b`, C) takes one bit of the word; the Ax form
  first shifts a0 by sv into the Ax, keeps the shifter's C in C1 and puts back V, LV,
  M, N and E. The bit of `tstb` is sampled from {0, 15} (`TstBits`);
- `Norm`: with N set, nothing; otherwise `NormShift`, then `RnAndModify` on the unit
  and R set when it reaches 0. `NormStep` offers it in both families of `am_state`,
  so it runs from set-ups with N set and clear.

The multiply, `mma`, `cbs` and `vtr` memory forms are enumerated over a sample of
their operands (`MemUnits`, `MemOffsets`, `MemMulOps`, `MmaMemSums`, `MmaMemAccs`).
The sample is units 3 and 4, which name one address in both set-ups; the offsets Zero
and MinusOneDmod; Mac and Mpysu; and one product sum. Their arithmetic is the
register forms' and is enumerated in full in the AME family.

`MoveStep` is one data move and `DmNext` is `AmeStep \/ MoveStep`.
`Modified(agu)` is the result of `RnAddressAndModify` for every unit and step in
the state. A move uses the entry for its unit and step. It is computed once per
state, which keeps the model's size independent of the number of moves that step
an address register.

`spill` and `xchg` are history variables. It holds what a paired store meant to put in memory,
and where: the spec 4.2 value of the accumulator, read-saturated to 32 bits, or the
product or register word. `xchg` holds, for an exchange, the two addresses, the
word that went out and the word memory held at the read address before the step.

`MCDataMove` has two families of starting states:

- the 512 `MCAME` set-ups, which run AME handlers only;
- set-ups for the moves: flags clear, `sv = 4`, read saturation on or off, and two
  address-unit set-ups over units 0, 3, 4 and 7 (r0 = 41, linear, for the min/max handlers). The first is linear, with `r7 = 65500`
  so that the r7-relative forms wrap. The second has unit 3 in modulo mode and
  unit 4 in bit-reverse mode.

The memory holds a negative word, a word above 32767 and one at an odd address.
`MemImms` has one immediate below 256 and one above 32767.

## Runs

| Run | Expect | What it shows |
|-----|--------|---------------|
| `ce_core` | pass | See below. |
| `ce_rep_two_word` | violation of `RepCount` | `rep 2` before a two-word `mov`: the rewind by one word makes the next fetch read the expansion word as an opcode. Spec section 8 scenario 4 says the instruction repeats. |
| `ce_isr_nested_loops` | violation of `LoopSaveRestore` | Handler 0 runs two nested loops of its own between `bkrepsto` and `bkreprst`. When the restore happens with two loops live, the misdirected `copy_backward` leaves the handler's inner frame in slot 1. |
| `ce_loop_save_page` | violation of `LoopSaveRestore` | A loop from page 0 to page 1 is stored and restored. `flag[9:8]` holds `start[17:16]`, not `end[17:16]`, so the end comes back on page 0 (spec section 9, open question 1). |
| `ag_core` | pass | `TypeOK`, and `BitReversedAddressing`. With `brv` set and `m` clear, loads and `mov2` present the bit reversal of the register's old value, and the register moves linearly by the step (`stepi0`/`stepj0` for `PlusStep`), over 427,008 states. |
| `aa_core` | pass | `ModuloStepWraps`: in modulo mode, ±1 and `PlusStep` ±1 (both dialects) and step2 mode 1 ±2 (modern) move an address cyclically through the `mod + 1` addresses of its window. `OffsetWraps`: the same holds for the ±1 offsets, with a window of at least two words. The reference is arithmetic on the aligned block and is independent of the code's bit masks. |
| `aa_spec_cycle` | violation of `SpecPlusStepCycle` | Spec section 8 says a `PlusStep` traversal cycles through `mask + 1` addresses. The code cycles through `mod + 1`, which differs whenever `mod` is not a power of two minus one (first counterexample: `mod = 2`). |
| `ce_isr_store_sp` | violation of `IsrReturnRestores` | `bkrepsto` through `sp` in a handler. Its first word is written at `sp` itself, over the pushed PC, so `retic` returns elsewhere. |
| `am_core` | pass | `AddSubExact`, `StoreSaturates`, `ArithmeticShift`, `ExpNormalizes`, `ProductBusScales`, `ProductSumOverflow`: `AddSub`, store saturation, the shifter, `Exp`, the product bus and the two-step product sum agree with exact integer arithmetic on edge values. For the product sum, V is the overflow of the exact result whenever the two products have mixed polarity. `DivsDivides`: sixteen `divs` steps on a dividend below `d * 2^16` leave the remainder in the high word and the quotient in the low word, against a byte-by-byte long division. `MinMaxScanFinds`: the scan leaves the largest (smallest) element in the accumulator. `mixp` holds its first address for `gt`/`lt` and its last for `ge`/`le`. If no element beats the start (ties count for `ge`/`le`), nothing changes. This is checked from accumulators at the 40-bit edges, which a comparison cut to 40 bits gets wrong. `VtrTraceback`: after two `max2_vtr`/`min2_vtr` steps, a0 holds the lane-wise signed extreme, and `vtr0`/`vtr1` hold one decision bit per step, newest at bit 15, above the bits they held before. A comparison of the lanes as unsigned fields breaks it. `MacAccumulates`: a run of `mul_y0` Mac, Macsu, Macus or Macuu steps leaves the exact sum of the products in a, with each operand taken signed or unsigned as the op says, and halved when `ps = 1`. Swapping the signedness of Macsu breaks it. `StackRoundTrip`: three register saves pushed and popped in reverse order leave `sp` where it was. Each save comes back as the exact arithmetic says: a 16-bit register unchanged; a product as the low 32 bits of psign:p scaled by `ps`, with psign rebuilt from bit 31, so a psign that differs from bit 31 is lost; b1 through `pusha`/`popa` clamped to 32 bits with read saturation on and cut to 32 bits with it off; a0 through its extension byte and `pusha` unchanged only with both saturations off, and clamped otherwise, because `pop a0e` writes through `SetAcc`'s store saturation. A pop that reads the low word of a pair first breaks it. `NormNormalises`: after a load through `SetAcc`, the first `norm` leaves a normalised value (zero, or 32-bit with bits 31 and 30 different) alone and doubles any other value modulo 2^40. A value clamped to the 32-bit bound by the load is doubled too, because N was computed from the value before saturation. 32 `norm` steps bring a 32-bit value x to x * 2^(31 - its significant bits) without V. Dropping the 32-bit range test from N breaks it. `SwapExchanges`: every `swap` type moves each accumulator's old value where its mnemonic says (an exchange of one or two pairs, or a chain r1 -> r2 -> r3), all read before any is written, each written value through the store saturation; an exchange done twice gives the values back, clamped to 32 bits with saturation on. Reading the second source after the first write breaks it. 137,646 states in all. |
| `am_state` | pass | `MCDataMove`: one AME or data-move handler from every set-up. `DmTypeOK`: every address and word stays 16 bits wide, so the r7- and page-relative forms wrap. `FlagsDescribeWrite`: after any handler, Z and M describe the accumulator last written through `SetAcc`; `SetAcc_Simple` (the ij loads, `exchange`) leaves no flags describing that accumulator. `SpillFill`: after a paired store, memory holds the words the handler meant to store, so the offset forms' write order (low word at the offset, then high word at rN) keeps the high word when the two addresses meet. `add_sub_i_mov_j` and `add_sub_j_mov_i` store the word b presented before the same handler overwrote b. `ExchangeSwaps`: an exchange leaves the old high word of axh at the write address and brings the word the read address held into axh; when i and j name one address, the write comes first, so axh reads its own word back and the memory word is lost. `OverflowLatched`: no handler clears LV or `fls`, and every step that raises V raises LV. The `mma_mov` stores (offset first) and the `vtr` stores are checked by `SpillFill` too. 210,318 states. |
| `am_spec_scenarios` | violation of `SpecAmeScenarios` | Spec section 8 scenarios 1 to 3 each disagree with the code. `0x00_FFFF_FFFF + 1` gives C = 0, because C is the carry out of bit 39 (line 254). `0x7FFF_FFFF + 1` gives V = 0, because only the store saturates (line 257). `-16 >> 4` gives C = 0, because bit 3 is the last bit out (line 2240). |
| `am_spec_shift_flags` | violation of `SpecFlagsDescribeWrite` | A saturating left shift stores the bound of the original sign, but sets Z and M from the wrapped shifted value (line 2257). Shifting `2^30` left by 10 leaves `0x7FFF_FFFF` with Z = 1. |

In `ce_core`, the `Main` program runs:

- an outer `bkrep` (2 iterations) around a `rep 2` and an inner `bkrep` (2 iterations)
  whose last instruction is two words long;
- then a loop left by `break`;
- then an idle `brr -1`.

Handler 0 saves both loops with `bkrepsto r` and runs its own loop. It restores the
loops and returns with `retic`. Handler 1 changes `b1`. The vectored handler calls a
subroutine with `call`; that subroutine calls another with `callr`. It runs
`cntx_s`/`cntx_r` and `dint`, and returns with `rets`.

Up to two signals (interrupt 0, interrupt 1 or vectored) arrive at any cycle within
the first 70 of the run's 100 cycles (`MaxCycles = 100`, `Quiet = 30`). They produce interrupts in the middle of loops, during `rep`, back to back
(a second one taken right after a handler's `reti`), and coalesced. Handlers never
nest: no modelled handler runs `eint`, so a second `ContextStore` over the shadow
copy (line 1139) and handler code at a live loop's end+1 (line 69) are not reached. The run checks these properties:

- `TypeOK`.
- `LoopStackWellFormed`: `bcn` is in 0..4 and `lp` holds exactly when `bcn > 0`.
- `RepCount`: the instruction after `rep 2` has run three times per `rep` whenever no
  repeat is active.
- `LoopBodyCounts`: on reaching the idle loop, every instruction of `Main` has run
  exactly as often as its loops say, whatever interrupts came.
- `IsrReturnRestores`: each `reti`/`retic` gives back the PC, `sp` and loop stack of
  the interrupted code. With a context save, it also gives back `a1`, the flags and
  the banks. `b1` is not preserved: during the handler it holds `a1`'s copy.
- `LoopSaveRestore` is not in this run's configuration. The store/restore pairs of
  `ce_core` (zero, one and two loops live) are checked through `LoopStackRefinement`,
  whose abstract stack must come back on `bkreprst`. `LoopSaveRestore` itself (each
  `bkreprst` rebuilds the loop stack of the matching `bkrepsto`) is the property of
  the violation runs `ce_isr_nested_loops` and `ce_loop_save_page`.
- `LoopStackRefinement`: the control engine implements `LoopStack` (see above).
- `InterruptAcceptance` (action property, spec sections 5 and 8): no cycle ends with
  `ie` set, no repeat active and an enabled interrupt still pending. This includes a
  cycle whose handler (`eint`, `reti`, `retic`) set `ie`. A cycle that takes regular
  interrupt `i` had no lower enabled one pending, clears `ip[i]` and `ie`, and vectors
  to `0x0006 + 8i`. A cycle that takes the vectored interrupt had no regular one
  pending, and vectors to `viaddr`.
- `InterruptsServed` (liveness, under `FairSpec`): every signalled interrupt whose
  mask bit is set (`im`, `vim`) is eventually taken. It needs the `rep` to end, `Main`
  to reach `eint`, and every handler to end in `reti`/`retic`, which set `ie` again.
  105,692 states.

Why these bounds are enough:

- 70 cycles cover `Main` to its idle loop with two handlers taken. The 30 quiet
  cycles after the last possible signal are more than the longest wait for
  acceptance: a handler that runs to its return, then `rep`, then the next handler.
  If they were too few, `InterruptsServed` would fail at the end of the run.
- Two signals give back-to-back handlers (a second interrupt taken after `reti`)
  and coalescing (two signals of one kind).
- The four loop slots are reached: `Main`'s two loops, the loop left by `break` and
  a handler loop.

Each property of `ce_core` has a mutant, listed in `PROJECT.json`: a plausible bug in
the mapped code that TLC then finds.

## Fairness and liveness

`Run(n)` is one `for` loop that executes its `n` cycles back to back. It stops early
only when a handler throws. Within a call of `Run`, a cycle that can run therefore
does. `FairSpec` states this as weak fairness of the cycle step: `Spec /\
WF_cycles(CycleTick)`, where `CycleTick` is `RunCycle`'s guard and counter update.
`RunCycle` is the only action that changes `cycles`, and it can always step when
`CycleTick` can. So `WF_cycles(CycleTick)` is weak fairness of `RunCycle`, but TLC
evaluates its `ENABLED` from the guard alone. The embedder's signals get no fairness:
they may never come. Whether the embedder calls `Run` again is outside the code, so
the model's run ends after `MaxCycles` (`MaxCycles` is the `n` of one call). The
embedder raises no signal in the last `Quiet` cycles, the way the finitized
specifications of the TLA+ examples let the environment stop. A leads-to is then
checked on a finite graph.

The CE runs set `CHECK_DEADLOCK FALSE`: the model stops after `MaxCycles` or at a
fatal error, as `Run` returns. The AME and data-move runs do the same after `MaxOps`
handlers.

The liveness hazard at line 83: a pending enabled interrupt waits while `rep` is
active or a handler runs with `ie` clear. `InterruptAcceptance` states the safety
half: no cycle ends at a boundary with `ie` set, no repeat, and the interrupt still
pending. `InterruptsServed` states the liveness half under `FairSpec`: the interrupt
is taken in the end. Its mutant, a `reti` that does not set `ie` again, leaves the
second signal pending forever.

The violation runs of the CE use `Spec` and `Quiet = 0`: signals may come until the
last cycle.

## Not modelled, and why

- **Some AME handlers.** The two-accumulator `clr`/`clrr` forms (the `moda` forms
  are modelled), whose `Ab` filter encoding is in `operand.h`, are not modelled;
  nor are `tstb_r6` and `tstb(SttMod)`, whose registers the model does not hold.
- **Parts of the `mma` family.** The `dmodi`/`dmodj` variants of the ArpRn form are
  not modelled. Only the two sign patterns in `MmaSigns` are enumerated. The decoder
  that pairs each `mma` opcode with its signs and product sum is outside `src/`.
- **Operand combinations of the memory multiplies.** The multiply, `mma`, `cbs` and
  `vtr` memory forms are explored over the sample named in the DataMove section.
  Their arithmetic is enumerated in full in the register forms, so the sample keeps
  every addressing path: the two banks, modulo and bit-reversed steps, and
  coinciding addresses.
- **Data moves of registers the model does not hold.** These are
  `push`/`pop(ArArpSttMod)`, `push_repc`/`pop_repc`, `movp`/`movd` (program memory), `banke`, `mov` to or from `r6`, `repc`, `mixp`,
  `icr`, `stt*`, the `mixp` moves, `mod*`, `ar*`/`arp*` and `cfg*`, and the `movs`-style loads of the
  status words. Their registers and their packing are in `register.h`, outside
  `src/`. In `DataMove` a "Register" operand ranges over the accumulators and their
  halves, x0/x1/y0/y1, `sv`, p and the rN of the modelled units.
- **One stack for data and return addresses.** `push`/`pop` share `sp` with `PushPC`
  and `PopPC`. `RegStack` is not composed with `ControlEngine`, whose `a1`/`b1` are
  16-bit abstractions. So a handler that pushes registers under an interrupt is
  checked only for its `sp` balance (`IsrReturnRestores`), not for the values.
- **The `ArRn`/`ArpRn` indirection.** The decoder's choice of unit, step and offset
  is a choice among all of them.
- **`ConditionPass`, and the registers `ControlEngine` does not use.** They are in
  `register.h`, which is outside `src/`.
- **MMIO and the JIT IR.** Only declarations are in `src/`.
- **The decoder table.** `decoder.h` is not in `src/`. Instructions are given
  already decoded.

## Plan

1. Done: `AGUArith`/`AGU`, and `AMEArith`/`AME` for most arithmetic handlers.
2. Done: interrupt acceptance (`InterruptAcceptance`). Next: a relative-branch
   program at the image boundary, for `brr`'s missing range check.
3. Done: the abstract `LoopStack`, and `ControlEngine` shown to implement it.
   Done: `DataMove`.
   Done: `ExchangeSwaps` for the `exchange` aliasing hazard (line 2169).
   Done: the data stack (`RegStack`), whose `StackRoundTrip` pins down the
   `psign` loss of `pop(Px)`. Next: the same round trip through `mov2` (line
   2053), which needs two handlers per behaviour (`MaxOps = 2`) from fewer set-ups.
4. A multiply exactness probe for `DoMultiplication`, whose source comment asks
   whether it is right.
5. An `AME` run with `MaxOps = 2` from fewer set-ups. Done: the `vtr`, `cmp`,
   `mma`, `cbs`, `sqr` and memory-multiply handlers. Done: `NormNormalises` for the `norm` after a load (line 127); `norm` under
   an N that describes another accumulator still has no property.
