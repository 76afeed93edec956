----------------------------- MODULE MCDirectory -----------------------------
(***************************************************************************)
(* Instances of Directory.tla for TLC.  Nothing distinguishes calls,       *)
(* workers, cards or kiosks from each other.                               *)
(***************************************************************************)
EXTENDS Directory, TLC

DirectorySymmetry == Permutations(Calls) \cup Permutations(Workers) \cup Permutations(Cards)

=============================================================================
