----------------------------- MODULE MCSiteTask -----------------------------
(* TLC instances of SiteTask. *)
EXTENDS SiteTask, TLC

CONSTANTS c1, c2
=============================================================================
