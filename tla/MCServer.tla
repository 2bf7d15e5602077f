------------------------------ MODULE MCServer ------------------------------
(***************************************************************************)
(* Server on a small instance.  The actions and properties treat addresses *)
(* alike, and server salts alike, so both sets may be permuted.            *)
(***************************************************************************)
EXTENDS Server

CONSTANTS A, B, s1, s2, s3

MCAddress == {A, B}
MCServerSalt == {s1, s2, s3}

Symmetry == Permutations(MCAddress) \cup Permutations(MCServerSalt)
=============================================================================
