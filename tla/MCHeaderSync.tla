---------------------------- MODULE MCHeaderSync ----------------------------
(* Header synchronisation with two or three peers. *)
EXTENDS HeaderSync
=============================================================================
