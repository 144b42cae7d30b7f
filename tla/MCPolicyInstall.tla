-------------------------- MODULE MCPolicyInstall --------------------------
(* Instances of PolicyInstall for TLC.                                     *)
EXTENDS PolicyInstall

=============================================================================
