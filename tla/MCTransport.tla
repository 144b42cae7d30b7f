---------------------------- MODULE MCTransport ----------------------------
(* Instances of Transport for TLC.                                         *)
EXTENDS Transport

\* ServerClaims of a server that acks only what it has.
NoClaims == {}

\* ServerClaims of a server that may name any tuple at all.
AnyClaim == Gens \X (0..MaxSeq)
=============================================================================
