------------------------------ MODULE MCPlayer ------------------------------
(* Instances of Player for TLC. *)
EXTENDS Player, TLC

\* Clients are alike, and so are workers: only safety runs may use this.
Symmetry == Permutations(Clients) \cup Permutations(Workers)
=============================================================================
