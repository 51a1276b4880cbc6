------------------------------- MODULE MCAME -------------------------------
(***************************************************************************)
(* One AME handler from every register set-up of MCInits. The set-ups    *)
(* put the accumulators at the edges of the 32- and 40-bit ranges, the    *)
(* flags either describing one accumulator (as after a SetAcc to it) or   *)
(* nothing, the latches LV and fls set or clear, both saturation and both *)
(* shift modes, a left and a right sv, and products that overflow the     *)
(* bus when shifted.                                                       *)
(***************************************************************************)
EXTENDS AME

B(shi, lo) == [hi |-> shi % W24, lo |-> lo]

(* a0 = 0x7FFF_FFFF, a1 = 2^39 - 1, b0 = 2^30, b1 = -1;                 *)
(* a0 = -2^39, a1 = 0, b0 = 0xFF_8000_0000, b1 = 0x60_0000_0000 >> 8.    *)
AccSets ==
  { [a0 |-> B(32767, 65535), a1 |-> B(2^23 - 1, 65535), b0 |-> B(16384, 0), b1 |-> B(-1, 65535)],
    [a0 |-> B(-2^23, 0), a1 |-> B(0, 0), b0 |-> B(-32768, 0), b1 |-> B(24576, 0)] }

MCInits ==
  { [acc |-> acc, fz |-> Flag(IsZero(acc[f])), fm |-> Sign(acc[f]), fn |-> fn, fe |-> 0,
     fv |-> 0, flv |-> lat, fc0 |-> c, fls |-> lat,
     sar |-> [i \in 0 .. 1 |-> IF i = 1 THEN sar1 ELSE 0], s |-> s, sv |-> sv,
     x |-> [i \in 0 .. 1 |-> 32768], y |-> [i \in 0 .. 1 |-> 32768],
     p |-> [i \in 0 .. 1 |-> IF i = 0 THEN [hi |-> 32767, lo |-> 65535] ELSE [hi |-> 32768, lo |-> 0]],
     psign |-> [i \in 0 .. 1 |-> i], ps |-> [i \in 0 .. 1 |-> ps], ym |-> 0,
     vtr |-> [i \in 0 .. 1 |-> IF i = 0 THEN 32769 ELSE 255], fc1 |-> 0] :
    acc \in AccSets, f \in {"a0", "b1"}, fn \in {0, 1}, lat \in {0, 1}, c \in {0, 1},
    sar1 \in {0, 1}, s \in {0, 1}, sv \in {4, 65532}, ps \in {0, 3} }

MCWords == {1, 32768}
MCShiftImms == {4, 31, 60}

(* Init with flagged describing the accumulator the set-up's Z and M     *)
(* were taken from.                                                       *)
MCInit ==
  /\ ame \in MCInits
  /\ flagged \in {NoFlags} \cup
       { [acc |-> a, via |-> "SetAcc"] :
           a \in {n \in {"a0", "b1"} : ame.fz = Flag(IsZero(ame.acc[n])) /\ ame.fm = Sign(ame.acc[n])} }
  /\ ops = 0
  /\ fault = FALSE

MCSpec == MCInit /\ [][Next]_vars
====
