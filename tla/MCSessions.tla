----------------------------- MODULE MCSessions -----------------------------
(* Instances of Sessions for TLC: the parts that come and go while a       *)
(* session is in the map, and what only the undoing of a failed creation   *)
(* closes.                                                                 *)
EXTENDS Sessions, TLC

ProxyAndMount == {"db", "ws"}
\* Commands, and handlers, differ in nothing but their name.
Alike == Permutations(Cmds) \cup Permutations(Closers)
NetAndCreds == {"net", "llm"}
=============================================================================
