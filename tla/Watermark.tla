------------------------------ MODULE Watermark ------------------------------
(***************************************************************************)
(* Ack watermarks: (generation, sequence) tuples in lexicographic order,   *)
(* as the WAL, its meta.json and the transport compare them.               *)
(***************************************************************************)
EXTENDS Integers

\* No ack has been recorded: below every tuple.
NoAck == <<-1, -1>>
TupleLess(a, b) == a[1] < b[1] \/ (a[1] = b[1] /\ a[2] < b[2])
TupleLeq(a, b)  == a = b \/ TupleLess(a, b)
TupleMax(a, b)  == IF TupleLess(a, b) THEN b ELSE a
=============================================================================
