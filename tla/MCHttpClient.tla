---------------------------- MODULE MCHttpClient ----------------------------
(* TLC instances of HttpClient. *)
EXTENDS HttpClient, TLC

CONSTANTS c1, c2
=============================================================================
