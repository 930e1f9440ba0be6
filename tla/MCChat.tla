------------------------------- MODULE MCChat -------------------------------
(***************************************************************************)
(* Instances of Chat for TLC.                                              *)
(***************************************************************************)
EXTENDS Chat, TLC

OnlyWhole == {Whole}
Every == {Whole, Cut, Plain}

Symmetry == Permutations(Pages) \cup Permutations(Addrs) \cup Permutations(Names)
=============================================================================
