----------------------------- MODULE MCCatalog -----------------------------
(* Small instances of Catalog for TLC. *)
EXTENDS Catalog, TLC

CONSTANTS ios, android

(* Two iOS builds of one version name with different bytes. *)
IOSBuilds ==
    {[plat |-> ios, name |-> "1.0", bundle |-> "com.a", sha |-> 1],
     [plat |-> ios, name |-> "1.0", bundle |-> "com.a", sha |-> 2]}
OneBuild == {[plat |-> ios, name |-> "1.0", bundle |-> "com.a", sha |-> 1]}

Goroutines == Permutations(Procs)

=============================================================================
