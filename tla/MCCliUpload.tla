---------------------------- MODULE MCCliUpload ----------------------------
(* A small instance of CliUpload for TLC: one client, packages of both platforms. *)
EXTENDS CliUpload, TLC

CONSTANTS ios, android

MixedBuilds ==
    {[plat |-> ios, name |-> "1.0", bundle |-> "com.a", sha |-> 1],
     [plat |-> android, name |-> "1.0", bundle |-> "com.a", sha |-> 3]}

=============================================================================
