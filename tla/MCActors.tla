------------------------------ MODULE MCActors ------------------------------
(***************************************************************************)
(* A small instance of Actors for TLC, with its promises.                   *)
(***************************************************************************)
EXTENDS ActorsDeathWatch, TLC

CONSTANTS r, a, b

\* The actors below the root are interchangeable where both or neither restart.
Symmetry == Permutations({a, b})
=============================================================================
