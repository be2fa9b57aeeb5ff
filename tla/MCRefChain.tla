---------------------------- MODULE MCRefChain ----------------------------
(***************************************************************************)
(* RefChain over four buffers whose refs carry one of two lengths, so     *)
(* that appending in every order with every length assignment is checked. *)
(***************************************************************************)
EXTENDS RefChain

MCNSlots == 4
MCLens == {1, 2}
=============================================================================
