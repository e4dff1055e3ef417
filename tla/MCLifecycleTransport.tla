------------------------ MODULE MCLifecycleTransport ------------------------
(***************************************************************************)
(* Instances of LifecycleTransport for TLC.                                 *)
(***************************************************************************)
EXTENDS LifecycleTransport

CONSTANTS t1, t2

MCThreads   == {t1, t2}
AllFaults   == {"exit", "repeated", "retired"}
AbruptEnd   == {"exit"}
=============================================================================
