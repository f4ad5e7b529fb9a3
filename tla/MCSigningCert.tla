--------------------------- MODULE MCSigningCert ---------------------------
(* Small instances of SigningCert for TLC. *)
EXTENDS SigningCert, TLC

Alike == Permutations(Procs) \cup Permutations(Pairs)

=============================================================================
