----------------------------- MODULE LoopStack -----------------------------
(***************************************************************************)
(* What the block-repeat stack of the Teak control engine promises (spec   *)
(* sections 3 and 4.1), free of the four-slot array, bcn and the memory    *)
(* layout that implement it.                                              *)
(*                                                                         *)
(* loops is the stack of live loops, the innermost last.  bkrep pushes a  *)
(* frame; an iteration counts the innermost frame down; the last          *)
(* iteration and break pop it.  bkrepsto takes the OUTERMOST frame out to *)
(* memory (nothing when no loop is live) and bkreprst puts the frame      *)
(* stored last back underneath the live ones.  stored is the sequence of  *)
(* what the stores took out, each entry <<frame>> or << >>.               *)
(***************************************************************************)
EXTENDS Naturals, Sequences

CONSTANTS
  Frames   \* the frames a bkrep of the program can open

VARIABLES loops, stored

vars == <<loops, stored>>

Depth == 4

Init == loops = << >> /\ stored = << >>

Push(f) ==
  /\ Len(loops) < Depth
  /\ loops' = Append(loops, f)
  /\ UNCHANGED stored

Iterate ==
  /\ loops # << >>
  /\ loops[Len(loops)].lc > 0
  /\ loops' = [loops EXCEPT ![Len(loops)].lc = @ - 1]
  /\ UNCHANGED stored

Pop ==
  /\ loops # << >>
  /\ loops' = SubSeq(loops, 1, Len(loops) - 1)
  /\ UNCHANGED stored

Save ==
  IF loops = << >> THEN stored' = Append(stored, << >>) /\ UNCHANGED loops
  ELSE stored' = Append(stored, <<Head(loops)>>) /\ loops' = Tail(loops)

(* An empty entry restores nothing, and only while no loop is live. *)
Restore ==
  /\ stored # << >>
  /\ LET entry == stored[Len(stored)]
     IN /\ entry # << >> \/ loops = << >>
        /\ Len(entry) + Len(loops) <= Depth
        /\ loops' = entry \o loops
        /\ stored' = SubSeq(stored, 1, Len(stored) - 1)

Next ==
  \/ \E f \in Frames : Push(f)
  \/ Iterate
  \/ Pop
  \/ Save
  \/ Restore

Spec == Init /\ [][Next]_vars
====
