----------------------------- MODULE MCExposure -----------------------------
(* What tools report in the runs of ExposureRegistry.                      *)
EXTENDS ExposureRegistry

Reporting(upstream, health, described) ==
    [upstream |-> upstream, health |-> health, described |-> described]

(* A well-formed registration, and one that says only its name.            *)
Described == {Reporting("local", "healthy", TRUE), Reporting(None, None, TRUE)}

(* One that says everything, and one that leaves everything out, its       *)
(* description empty.                                                      *)
Careless == {Reporting("local", "healthy", TRUE), Reporting(None, None, FALSE)}
=============================================================================
