-------------------------- MODULE MCPackageInstall --------------------------
(* Two packages of each kind, setting all passwords and one of them. *)
EXTENDS PackageInstall

MCKey == {"viewer", "send"}

MCPackages ==
    {[name |-> "p", sealed |-> TRUE, sets |-> <<"viewer", "send">>, probes |-> FALSE],
     [name |-> "q", sealed |-> TRUE, sets |-> <<"send">>, probes |-> TRUE],
     [name |-> "r", sealed |-> FALSE, sets |-> <<"viewer", "send">>, probes |-> FALSE],
     [name |-> "s", sealed |-> FALSE, sets |-> <<"viewer">>, probes |-> FALSE]}
=============================================================================
