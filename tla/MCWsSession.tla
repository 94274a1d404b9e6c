---------------------------- MODULE MCWsSession ----------------------------
(* WsSession on a small instance; the liveness property excludes symmetry. *)
EXTENDS WsSession, TLC
=============================================================================
