---------------------------- MODULE MCTaskRunner ----------------------------
(* TLC instances of TaskRunner.  The tasks are model values and no property  *)
(* of the runs that use Symmetry distinguishes them.                         *)
EXTENDS TaskRunner, TLC, Integers

CONSTANTS t1, t2, t3

Symmetry == Permutations(Tasks)

TA == INSTANCE TimeArith

\* What the theorems of TimeArith say, on words of 2, 4, 6 and 8 values.
ASSUME Differences ==
    \A H \in 1..4 : \A e \in TA!Ticks(H) :
        /\ \A d \in TA!Differences(H) : TA!TimeDiff(H, TA!Word(H, e + d), e) = d
        /\ \A l \in TA!Ticks(H) :
            TA!TimeDiff(H, l, e) \in {-TA!TimeDiff(H, e, l), -H}
=============================================================================
