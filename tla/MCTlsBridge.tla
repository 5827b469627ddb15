----------------------------- MODULE MCTlsBridge -----------------------------
(* Streams of a few bytes over rings and windows that are smaller.         *)
EXTENDS TlsBridge
=============================================================================
