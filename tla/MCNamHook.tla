----------------------------- MODULE MCNamHook -----------------------------
(***************************************************************************)
(* Values for a check of NamHook by TLC in which the pedals are            *)
(* interchangeable: no definition of NamHook tells one pedal from another. *)
(***************************************************************************)
EXTENDS NamHook, TLC

PedalSymmetry == Permutations(Pedals)
=============================================================================
