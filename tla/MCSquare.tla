------------------------------ MODULE MCSquare ------------------------------
(* TLC instance of Square: servers, users and feeds are model values and     *)
(* interchangeable; and what BuildTree makes of arrays of comments.          *)
EXTENDS Square, TLC

CONSTANTS s1, s2, u1, u2, f1, f2

Symmetry == Permutations(Servers) \cup Permutations(Users) \cup Permutations(Feeds)

Top == [p |-> "none", n |-> 0]
To(n) == [p |-> "int", n |-> n]

\* The examples of list2tree.py:6-33: a reply to a later comment is left out.
ASSUME TreeExamples ==
    /\ Shown(<<Top, To(0), To(0), To(1), Top, To(0)>>) = 1..6
    /\ Shown(<<Top>>) = {1} /\ Shown(<<Top, Top>>) = {1, 2}
    /\ Shown(<<Top, To(0)>>) = {1, 2} /\ Shown(<<Top, Top, To(1)>>) = 1..3
    /\ Shown(<<Top, To(2), Top>>) = {1, 3}

\* Every array of n comments in which a reply names an earlier comment.
Arrays(n) == {c \in [1..n -> {Top} \cup {To(k) : k \in 0..(n - 2)}] : \A i \in 1..n : c[i].p = "int" => c[i].n < i - 1}

\* First-level comments and replies to the first two are in the tree.  Up to three
\* comments none is lost; of four, the last is if it answers the third, a reply.
ASSUME TreeOfArrays ==
    \A n \in 0..6 : \A c \in Arrays(n) :
        /\ {i \in 1..n : c[i].p = "none" \/ c[i].n <= 1} \subseteq Shown(c)
        /\ n <= 3 => Shown(c) = 1..n
        /\ n = 4 => (Shown(c) # 1..n <=> c[2] = To(0) /\ c[3].p = "int" /\ c[4] = To(2))

\* Of comments stored by the handlers, whose parents are strings, just those that
\* name none are in the tree.
ASSUME TreeOfPosted ==
    \A n \in 0..6 : \A c \in [1..n -> [p : Posted]] :
        Shown(c) = {i \in 1..n : c[i].p # "string"}
==============================================================================
