----------------------------- MODULE RollingHash -----------------------------
(***************************************************************************)
(* Hash::RollingHash (src/src/common/hash.cpp): a polynomial hash,         *)
(* h <- (h * kPrime + b) mod kMod for each appended byte.  The Chunker     *)
(* module keeps hash_ in its own state and calls append and reset through *)
(* these operators.  update(), the only call that uses the window and      *)
(* power_, is never called in the repository and is not modelled.         *)
(***************************************************************************)
EXTENDS Naturals, Sequences

CONSTANTS
    Prime,          \* kPrime
    Mod             \* kMod

\* append(byte): extend the hashed prefix by one byte.
appendHash(h, b) == (h * Prime + b) % Mod

=============================================================================
