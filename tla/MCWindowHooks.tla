---------------------------- MODULE MCWindowHooks ----------------------------
(* TLC instances of WindowHooks.  Windows and hooks are model values, and no  *)
(* property of the run distinguishes them.                                    *)
EXTENDS WindowHooks, TLC

CONSTANTS w1, w2, h1, h2, h3, own1

Symmetry == Permutations(Hooks) \cup Permutations(Windows)
==============================================================================
