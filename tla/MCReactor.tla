----------------------------- MODULE MCReactor ------------------------------
(***************************************************************************)
(* Instances of Reactor for TLC.  Clients are interchangeable in the       *)
(* safety runs.                                                            *)
(***************************************************************************)
EXTENDS Reactor, TLC

Symmetry == Permutations(Conns) \cup Permutations(Workers)
=============================================================================
