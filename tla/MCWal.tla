------------------------------- MODULE MCWal -------------------------------
(* Instances of Wal for TLC.                                               *)
EXTENDS Wal

\* Two events of one generation and one of the next.
ThreeStamps == {<<0, 0>>, <<0, 1>>, <<1, 0>>}
=============================================================================
