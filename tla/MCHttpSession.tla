--------------------------- MODULE MCHttpSession ---------------------------
(* TLC instance of HttpSession: the tasks are model values.                  *)
EXTENDS HttpSession, TLC

CONSTANTS t1, t2, t3
==============================================================================
