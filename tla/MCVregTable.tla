---------------------------- MODULE MCVregTable ----------------------------
(***************************************************************************)
(* Every way nine of the registers can be used up to MaxUses times: more   *)
(* registers than slots, with ties.                                        *)
(***************************************************************************)
EXTENDS VregTable

CONSTANT MaxUses

MCUseCounts ==
    {[r \in RegId |-> IF r \in 4 .. 12 THEN c[r] ELSE 0] : c \in [4 .. 12 -> 0 .. MaxUses]}
=============================================================================
