----------------------------- MODULE MCDataMove -----------------------------
(***************************************************************************)
(* One handler, AME or data move, from every set-up of MCAME's MCInits     *)
(* (read saturation on) with linear addressing, and from a set-up of each *)
(* accumulator set with read saturation off under both address set-ups:   *)
(*   AguLinear: r3 = r4 = 40 (an i/j pair naming one address), r7 = 65500 *)
(*              (r7 + imm wraps past 65535);                              *)
(*   AguModBrv: unit 3 in modulo mode with modi = 3 (40 is the bottom of  *)
(*              its window), unit 4 bit-reversed, r7 = 5 (a negative Imm7s *)
(*              offset wraps below 0).                                    *)
(***************************************************************************)
EXTENDS DataMove, MCAME

AguSetup(r3, r4, r7, m3, brv4, modi) ==
  [r |-> (0 :> 41) @@ (3 :> r3) @@ (4 :> r4) @@ (7 :> r7),
   m |-> (0 :> FALSE) @@ (3 :> m3) @@ (4 :> FALSE) @@ (7 :> FALSE),
   brv |-> (0 :> FALSE) @@ (3 :> FALSE) @@ (4 :> brv4) @@ (7 :> FALSE), modi |-> modi, modj |-> 0,
   stepi |-> 1, stepj |-> 1, fr |-> FALSE, legacy |-> FALSE, bankstep |-> 0,
   r3z |-> FALSE, r7z |-> FALSE]

AguLinear == AguSetup(40, 40, 65500, FALSE, FALSE, 0)
AguModBrv == AguSetup(40, 40, 5, TRUE, TRUE, 3)
MCAguInits == {AguLinear, AguModBrv}

MCMemInits == {(39 :> 1) @@ (40 :> 32768) @@ (41 :> 43981) @@ (43 :> 7)}
MCMemImms == {100, 40000}
MCMoveSteps == {"Zero", "Increase"}

(* The set-ups the data moves start from: MCInits' set-ups with the      *)
(* latches, C, N, s, ps and sv at their first value, with read saturation *)
(* on and off.                                                             *)
MoveSetups ==
  LET base == {j \in MCInits : j.flv = 0 /\ j.fc0 = 0 /\ j.fn = 0 /\ j.s = 0 /\ j.ps[0] = 0 /\ j.sv = 4}
  IN base \cup {[i EXCEPT !.sar[0] = 1] : i \in base}

VARIABLE family

(* Two families of behaviours: every AME handler from every set-up of    *)
(* MCInits with linear addressing, and every handler, data moves         *)
(* included, from MoveSetups under both address set-ups.                  *)
MCDmInit ==
  /\ \/ family = "ame" /\ ame \in MCInits /\ agu = AguLinear
     \/ family = "move" /\ ame \in MoveSetups /\ agu \in AguInits
  /\ flagged \in {NoFlags} \cup
       { [acc |-> a, via |-> "SetAcc"] :
           a \in {n \in {"a0", "b1"} : ame.fz = Flag(IsZero(ame.acc[n])) /\ ame.fm = Sign(ame.acc[n])} }
  /\ ops = 0
  /\ fault = FALSE
  /\ dm \in MemInits /\ page \in Pages /\ spill = {} /\ xchg = {} /\ mixp = 0

MCDmNext == (AmeStep \/ NormStep \/ (family = "move" /\ MoveStep)) /\ UNCHANGED family

MCDmSpec == MCDmInit /\ [][MCDmNext]_<<allVars, family>>
====
