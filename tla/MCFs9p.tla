------------------------------- MODULE MCFs9p -------------------------------
(* The safety run of Fs9p.  No definition tells one reader from another.   *)
EXTENDS Fs9p

Symmetry == Permutations(Reader)
=============================================================================
