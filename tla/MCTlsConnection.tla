--------------------------- MODULE MCTlsConnection ---------------------------
(* TlsConnection on a small instance.                                      *)
EXTENDS TlsConnection
=============================================================================
