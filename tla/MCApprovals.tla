---------------------------- MODULE MCApprovals ----------------------------
(* An instance of Approvals for TLC: all calls belong to one session, and  *)
(* there are fewer slots than goroutines that may ask at the same time.    *)
EXTENDS Approvals

MCSessionOf == [c \in Cmds |-> CHOOSE s \in Ids : TRUE]
============================================================================
