----------------------------- MODULE MCAccounts -----------------------------
(* Small instances of Accounts for TLC. *)
EXTENDS Accounts, TLC

Goroutines == Permutations(Procs)

=============================================================================
