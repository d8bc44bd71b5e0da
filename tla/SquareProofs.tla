---------------------------- MODULE SquareProofs ----------------------------
(***************************************************************************)
(* Every reader gets a feed once, and who comments sees the comment: for   *)
(* any number of servers, users and feeds and any bound on focuses and     *)
(* comments.                                                               *)
(***************************************************************************)
EXTENDS Square, FiniteSetTheorems, TLAPS

------------------------------------------------------------------------------
(* Counting in sequences.                                                    *)

Count(q, x) == Cardinality({i \in DOMAIN q : q[i] = x})

\* Appending counts.
LEMMA CountAppend ==
  ASSUME NEW S, NEW q \in Seq(S), NEW y, NEW x
  PROVE  /\ Count(q, x) \in Nat
         /\ Count(Append(q, y), x) = IF x = y THEN Count(q, x) + 1 ELSE Count(q, x)
<1> DEFINE In(r) == {i \in DOMAIN r : r[i] = x}
           n == Len(q) + 1
<1>1. Len(q) \in Nat /\ DOMAIN q = 1..Len(q)
  OBVIOUS
<1>2. IsFiniteSet(In(q))
  <2>1. IsFiniteSet(1..Len(q))
    BY <1>1, FS_Interval
  <2>2. QED
    BY <1>1, <2>1, FS_Subset
<1>3. DOMAIN Append(q, y) = 1..n /\ Append(q, y)[n] = y /\ \A i \in 1..Len(q) : Append(q, y)[i] = q[i]
  BY <1>1
<1>4. In(Append(q, y)) = IF x = y THEN In(q) \cup {n} ELSE In(q)
  BY <1>1, <1>3
<1>5. n \notin In(q)
  BY <1>1
<1>6. Cardinality(In(q)) \in Nat /\ Cardinality(In(q) \cup {n}) = Cardinality(In(q)) + 1
  BY <1>2, <1>5, FS_CardinalityType, FS_AddElement
<1> HIDE DEF n
<1>7. QED
  BY <1>4, <1>6 DEF Count

LEMMA CountNone ==
  ASSUME NEW S, NEW q \in Seq(S), NEW x, x \notin S
  PROVE  Count(q, x) = 0
<1>1. {i \in DOMAIN q : q[i] = x} = {}
  OBVIOUS
<1>2. QED
  BY <1>1, FS_EmptySet DEF Count

LEMMA CountEmpty == ASSUME NEW x PROVE Count(<<>>, x) = 0
<1>1. {i \in DOMAIN <<>> : <<>>[i] = x} = {}
  OBVIOUS
<1>2. QED
  BY <1>1, FS_EmptySet DEF Count

------------------------------------------------------------------------------
(* Types                                                                     *)

Kinds == {"rest", "find", "bulk", "slow", "push", "comment", "answer"}

\* A handler that is at work has a feed that is stored; one about to push has made
\* the list it pushes into; the comment a job added is there.
JobOK(j, stored, owners, n) ==
    /\ j.at # "rest" => j.feed \in stored
    /\ j.at = "push" => j.cur \in owners /\ j.uids[j.cur] > 0
    /\ j.mine <= n

JobInv == \A s \in Servers : JobOK(job[s], posts, has, pushed)

DbTypes ==
    /\ focus \in [Users -> 0..MaxFocus]
    /\ posts \subseteq Feeds /\ has \subseteq Users /\ done \subseteq posts
    /\ fids \in [Users -> Seq(posts)]
    /\ \A u \in Users \ has : fids[u] = <<>>
    /\ comments \in [Feeds -> Seq([by : Servers, id : 1..pushed, p : Posted])]
    /\ pushed \in 0..MaxComments
    /\ audience \in [Feeds -> SUBSET Users] /\ overlap \in [Feeds -> SUBSET Users]

LEMMA RestIsJob == Rest \in Jobs /\ Rest.at = "rest" /\ Rest.mine = 0
BY SquareAssumption DEF Rest, Jobs, Posted

LEMMA InitTypes == Init => TypeOK /\ JobInv
BY RestIsJob, SquareAssumption DEF Init, TypeOK, JobInv, JobOK

LEMMA TypeParts == TypeOK <=> DbTypes /\ job \in [Servers -> Jobs]
BY DEF TypeOK, DbTypes

LEMMA SetJob ==
    ASSUME job \in [Servers -> Jobs], NEW s \in Servers, NEW j \in Jobs,
           job' = [job EXCEPT ![s] = j]
    PROVE  /\ job' \in [Servers -> Jobs] /\ job'[s] = j
           /\ \A r \in Servers \ {s} : job'[r] = job[r]
OBVIOUS

\* A step of one server that takes nothing away.
LEMMA StepTypes ==
    ASSUME TypeOK, JobInv, NEW s \in Servers, NEW j \in Jobs, job' = [job EXCEPT ![s] = j],
           posts \subseteq posts', has \subseteq has', pushed <= pushed', pushed' \in Nat, JobOK(j, posts', has', pushed')
    PROVE  job' \in [Servers -> Jobs] /\ JobInv'
<1>1. /\ job' \in [Servers -> Jobs] /\ job'[s] = j
      /\ \A r \in Servers \ {s} : job'[r] = job[r]
  BY SetJob DEF TypeOK
<1>2. JobOK(job'[s], posts', has', pushed')
  BY <1>1 DEF JobOK
<1>3. ASSUME NEW r \in Servers \ {s} PROVE JobOK(job'[r], posts', has', pushed')
  <2>1. job[r] \in Jobs /\ job'[r] = job[r]
    BY <1>1 DEF TypeOK
  <2>2. job[r].mine \in Nat /\ pushed \in Nat
    BY <2>1, SquareAssumption DEF Jobs, TypeOK
  <2>3. JobOK(job[r], posts, has, pushed)
    BY DEF JobInv
  <2>4. QED
    BY <2>1, <2>2, <2>3 DEF JobOK
<1>4. QED
  BY <1>1, <1>2, <1>3 DEF JobInv

LEMMA ReturnJob ==
    ASSUME TypeOK, JobInv, NEW s \in Servers, Return(s)
    PROVE  /\ job' = [job EXCEPT ![s] = Rest] /\ Rest \in Jobs /\ JobOK(Rest, posts, has, pushed)
           /\ Rest.at = "rest" /\ Rest.mine = 0
BY RestIsJob, SquareAssumption DEF Return, JobOK, TypeOK

LEMMA NextTypes == TypeOK /\ JobInv /\ [Next]_vars => TypeOK' /\ JobInv'
<1> SUFFICES ASSUME TypeOK, JobInv, [Next]_vars PROVE TypeOK' /\ JobInv'
  OBVIOUS
<1>t. DbTypes /\ job \in [Servers -> Jobs]
  BY TypeParts
<1>n. pushed \in Nat /\ MaxFocus \in Nat /\ Kinds = {"rest", "find", "bulk", "slow", "push", "comment", "answer"}
  BY <1>t, SquareAssumption DEF DbTypes, Kinds
<1> SUFFICES DbTypes' /\ job' \in [Servers -> Jobs] /\ JobInv'
  BY DEF TypeOK, DbTypes
<1>j. ASSUME NEW s \in Servers PROVE job[s] \in Jobs /\ JobOK(job[s], posts, has, pushed)
  BY <1>t DEF JobInv
<1>s. ASSUME NEW s \in Servers, NEW j \in Jobs, job' = [job EXCEPT ![s] = j],
             posts \subseteq posts', has \subseteq has', pushed' = pushed, JobOK(j, posts', has', pushed')
      PROVE  job' \in [Servers -> Jobs] /\ JobInv'
  <2>1. pushed <= pushed' /\ pushed' \in Nat
    BY <1>s, <1>n
  <2>2. QED
    BY <1>s, <2>1, StepTypes
<1>1. ASSUME NEW u \in Users, AddFocus(u) PROVE DbTypes' /\ job' \in [Servers -> Jobs] /\ JobInv'
  <2>1. focus' \in [Users -> 0..MaxFocus]
    BY <1>1, <1>t, SquareAssumption DEF AddFocus, DbTypes
  <2>2. QED
    BY <1>1, <1>t, <2>1 DEF AddFocus, DbTypes, lists, JobInv, JobOK
<1>2. ASSUME NEW s \in Servers, NEW f \in Feeds, Publish(s, f)
      PROVE  DbTypes' /\ job' \in [Servers -> Jobs] /\ JobInv'
  <2> DEFINE j == [Rest EXCEPT !.at = "find", !.feed = f]
  <2>1. j \in Jobs /\ j.at = "find" /\ j.feed = f /\ j.mine = 0
    BY RestIsJob DEF Jobs
  <2>2. job' = [job EXCEPT ![s] = j] /\ posts' = posts \cup {f} /\ pushed' = pushed /\ has' = has
    BY <1>2 DEF Publish, lists
  <2>3. DbTypes'
    <3>1. fids' \in [Users -> Seq(posts')]
      BY <1>2, <1>t, <2>2 DEF Publish, DbTypes, lists
    <3>2. QED
      BY <1>2, <1>t, <2>2, <3>1 DEF Publish, DbTypes, lists
  <2> HIDE DEF j
  <2>4. JobOK(j, posts', has', pushed')
    BY <1>n, <2>1, <2>2 DEF JobOK
  <2>5. QED
    BY <1>s, <2>1, <2>2, <2>3, <2>4
<1>3. ASSUME NEW s \in Servers, Find(s) PROVE DbTypes' /\ job' \in [Servers -> Jobs] /\ JobInv'
  <2> DEFINE i == [job[s] EXCEPT !.at = "bulk", !.uids = focus]
  <2>1. i \in Jobs /\ i.at = "bulk" /\ i.feed = job[s].feed /\ i.mine = job[s].mine
    BY <1>j, <1>t DEF Jobs, DbTypes
  <2>2. job' = [job EXCEPT ![s] = i] /\ posts' = posts /\ pushed' = pushed /\ has' = has
    BY <1>3, <1>t DEF Find, lists
  <2>3. DbTypes'
    BY <1>3, <1>t DEF Find, DbTypes, lists
  <2> HIDE DEF i
  <2>4. JobOK(i, posts', has', pushed')
    BY <1>n, <1>j, <1>3, <2>1, <2>2 DEF JobOK, Find, Is
  <2>5. QED
    BY <1>s, <2>1, <2>2, <2>3, <2>4
<1>4. ASSUME NEW s \in Servers, Bulk(s) PROVE DbTypes' /\ job' \in [Servers -> Jobs] /\ JobInv'
  <2>1. job[s].at = "bulk" /\ job[s].feed \in posts
    BY <1>4, <1>j DEF Bulk, Is, JobOK
  <2>2. posts' = posts /\ has' = has /\ pushed' = pushed
    BY <1>4 DEF Bulk
  <2>3. DbTypes'
    <3>1. fids' \in [Users -> Seq(posts')]
      BY <1>4, <1>t, <2>1, <2>2 DEF Bulk, DbTypes
    <3>2. \A u \in Users \ has : fids'[u] = <<>>
      BY <1>4, <1>t DEF Bulk, DbTypes
    <3>3. done' \subseteq posts'
      BY <1>4, <1>t, <2>1, <2>2 DEF Bulk, DbTypes, Return
    <3>4. QED
      BY <1>4, <1>t, <2>2, <3>1, <3>2, <3>3 DEF Bulk, DbTypes
  <2>4. CASE Return(s)
    <3>1. job' = [job EXCEPT ![s] = Rest] /\ Rest \in Jobs /\ JobOK(Rest, posts, has, pushed)
      BY <2>4, ReturnJob
    <3>2. JobOK(Rest, posts', has', pushed')
      BY <2>2, <3>1
    <3>3. QED
      BY <1>s, <2>2, <2>3, <3>1, <3>2
  <2>5. CASE Go(s, "slow")
    <3> DEFINE j == [job[s] EXCEPT !.at = "slow"]
    <3>1. j \in Jobs /\ j.at = "slow" /\ j.feed = job[s].feed /\ j.mine = job[s].mine
      BY <1>j DEF Jobs
    <3>2. job' = [job EXCEPT ![s] = j]
      BY <1>t, <2>5 DEF Go
    <3> HIDE DEF j
    <3>3. JobOK(j, posts', has', pushed')
      BY <1>j, <2>1, <2>2, <3>1 DEF JobOK
    <3>4. QED
      BY <1>s, <2>2, <2>3, <3>1, <3>2, <3>3
  <2>6. QED
    BY <1>4, <2>4, <2>5 DEF Bulk
<1>5. ASSUME NEW s \in Servers, NEW u \in Users, SlowInsert(s, u)
      PROVE  DbTypes' /\ job' \in [Servers -> Jobs] /\ JobInv'
  <2>1. /\ posts' = posts /\ pushed' = pushed /\ has \subseteq has' /\ has' \subseteq Users
        /\ job[s].at = "slow" /\ job[s].uids[u] > 0
    BY <1>5, <1>t DEF SlowInsert, DbTypes, Is
  <2>2. overlap' \in [Feeds -> SUBSET Users]
    <3>1. \A g \in Feeds : overlap[g] \in SUBSET Users /\ overlap[g] \cup {u} \in SUBSET Users
      BY <1>t DEF DbTypes
    <3>2. \/ overlap' = overlap
          \/ \E P : overlap' = [g \in Feeds |-> IF g \in P THEN overlap[g] \cup {u} ELSE overlap[g]]
      <4> DEFINE P == {g \in Feeds : \E r \in Servers \ {s} : job[r].feed = g /\ job[r].at \in {"slow", "push"}
                                                            /\ job[r].uids[u] > 0}
      <4>1. \/ overlap' = overlap
            \/ overlap' = [g \in Feeds |-> IF g \in P THEN overlap[g] \cup {u} ELSE overlap[g]]
        BY <1>5 DEF SlowInsert
      <4>2. QED
        BY <4>1
    <3>3. QED
      BY <1>t, <3>1, <3>2 DEF DbTypes
  <2>3. DbTypes'
    BY <1>5, <1>t, <2>1, <2>2 DEF SlowInsert, DbTypes
  <2>4. CASE u \in has
    <3> DEFINE j == [job[s] EXCEPT !.uids[u] = @ - 1]
    <3>1. /\ j \in Jobs /\ j.at = "slow" /\ j.feed = job[s].feed /\ j.mine = job[s].mine
      BY <1>j, <1>n, <2>1 DEF Jobs
    <3>2. job' = [job EXCEPT ![s] = j]
      BY <1>5, <1>t, <2>4 DEF SlowInsert
    <3> HIDE DEF j
    <3>3. JobOK(j, posts', has', pushed')
      BY <1>j, <2>1, <3>1 DEF JobOK
    <3>4. QED
      BY <1>s, <2>1, <2>3, <3>1, <3>2, <3>3
  <2>5. CASE u \notin has
    <3> DEFINE j == [job[s] EXCEPT !.at = "push", !.cur = u]
    <3>1. /\ j \in Jobs /\ j.at = "push" /\ j.cur = u /\ j.uids = job[s].uids
          /\ j.feed = job[s].feed /\ j.mine = job[s].mine
      BY <1>j DEF Jobs
    <3>2. job' = [job EXCEPT ![s] = j] /\ has' = has \cup {u}
      BY <1>5, <1>t, <2>5 DEF SlowInsert
    <3> HIDE DEF j
    <3>3. JobOK(j, posts', has', pushed')
      BY <1>j, <2>1, <3>1, <3>2 DEF JobOK
    <3>4. QED
      BY <1>s, <2>1, <2>3, <3>1, <3>2, <3>3
  <2>6. QED
    BY <2>4, <2>5
<1>6. ASSUME NEW s \in Servers, SlowPush(s) PROVE DbTypes' /\ job' \in [Servers -> Jobs] /\ JobInv'
  <2> DEFINE u == job[s].cur
             j == [job[s] EXCEPT !.at = "slow", !.uids[u] = @ - 1, !.cur = NoOne]
  <2>1. /\ posts' = posts /\ pushed' = pushed /\ has' = has
        /\ job[s].at = "push" /\ job[s].uids[u] > 0 /\ u \in has /\ job[s].feed \in posts
    BY <1>6, <1>j DEF SlowPush, Is, JobOK
  <2>2. u \in Users
    BY <1>t, <2>1 DEF DbTypes
  <2>3. DbTypes'
    <3>1. fids' \in [Users -> Seq(posts')]
      BY <1>6, <1>t, <2>1, <2>2 DEF SlowPush, DbTypes
    <3>2. \A v \in Users \ has : fids'[v] = <<>>
      BY <1>6, <1>t, <2>1, <2>2 DEF SlowPush, DbTypes
    <3>3. QED
      BY <1>6, <1>t, <2>1, <3>1, <3>2 DEF SlowPush, DbTypes
  <2>4. /\ j \in Jobs /\ j.at = "slow" /\ j.feed = job[s].feed /\ j.mine = job[s].mine
    <3> DEFINE uids == [job[s].uids EXCEPT ![u] = @ - 1]
    <3>1. uids \in [Users -> 0..MaxFocus]
      BY <1>j, <1>n, <2>1, <2>2 DEF Jobs
    <3>2. j = [job[s] EXCEPT !.at = "slow", !.uids = uids, !.cur = NoOne]
      OBVIOUS
    <3> HIDE DEF uids, j, u
    <3>3. QED
      BY <1>j, <3>1, <3>2 DEF Jobs
  <2>5. job' = [job EXCEPT ![s] = j]
    BY <1>6, <1>t DEF SlowPush
  <2> HIDE DEF j, u
  <2>6. JobOK(j, posts', has', pushed')
    BY <1>j, <2>1, <2>4 DEF JobOK
  <2>7. QED
    BY <1>s, <2>1, <2>3, <2>4, <2>5, <2>6
<1>7. ASSUME NEW s \in Servers, SlowEnd(s) PROVE DbTypes' /\ job' \in [Servers -> Jobs] /\ JobInv'
  <2>1. /\ posts' = posts /\ has' = has /\ pushed' = pushed /\ job[s].at = "slow" /\ job[s].feed \in posts
    BY <1>7, <1>j DEF SlowEnd, lists, Is, JobOK
  <2>2. DbTypes'
    BY <1>7, <1>t, <2>1 DEF SlowEnd, lists, Return, DbTypes
  <2>3. job' = [job EXCEPT ![s] = Rest] /\ Rest \in Jobs /\ JobOK(Rest, posts, has, pushed)
    BY <1>7, ReturnJob DEF SlowEnd
  <2>4. JobOK(Rest, posts', has', pushed')
    BY <2>1, <2>3
  <2>5. QED
    BY <1>s, <2>1, <2>2, <2>3, <2>4
<1>8. ASSUME NEW s \in Servers, Answer(s)
      PROVE  DbTypes' /\ job' \in [Servers -> Jobs] /\ JobInv'
  <2>1. job' = [job EXCEPT ![s] = Rest] /\ UNCHANGED <<posting, comments, pushed>>
    BY <1>8 DEF Answer
  <2>2. DbTypes' /\ posts' = posts /\ has' = has /\ pushed' = pushed
    BY <1>t, <2>1 DEF DbTypes, posting, lists
  <2>3. JobOK(Rest, posts', has', pushed')
    BY <1>n, <2>2, RestIsJob DEF JobOK
  <2>4. QED
    BY <1>s, <2>1, <2>2, <2>3, RestIsJob
<1>9. ASSUME NEW s \in Servers, NEW f \in Feeds, Ask(s, f)
      PROVE  DbTypes' /\ job' \in [Servers -> Jobs] /\ JobInv'
  <2>1. DbTypes' /\ posts' = posts /\ has' = has /\ pushed' = pushed /\ f \in posts
    BY <1>9, <1>t DEF Ask, DbTypes, posting, lists
  <2>2. PICK p \in Posted : job' = [job EXCEPT ![s] = [Rest EXCEPT !.at = "comment", !.feed = f, !.p = p]]
    BY <1>9 DEF Ask
  <2> DEFINE j == [Rest EXCEPT !.at = "comment", !.feed = f, !.p = p]
  <2>3. j \in Jobs /\ j.at = "comment" /\ j.feed = f /\ j.mine = 0
    BY RestIsJob DEF Jobs
  <2>5. job' = [job EXCEPT ![s] = j]
    BY <2>2
  <2> HIDE DEF j
  <2>6. JobOK(j, posts', has', pushed')
    BY <1>n, <2>1, <2>3 DEF JobOK
  <2>7. QED
    BY <1>s, <2>1, <2>3, <2>5, <2>6
<1>10. ASSUME NEW s \in Servers, NEW f \in Feeds, Like(s, f)
       PROVE  DbTypes' /\ job' \in [Servers -> Jobs] /\ JobInv'
  <2> DEFINE j == [Rest EXCEPT !.at = "answer", !.feed = f]
  <2>1. DbTypes' /\ posts' = posts /\ has' = has /\ pushed' = pushed /\ f \in posts
    BY <1>10, <1>t DEF Like, DbTypes, posting, lists
  <2>2. j \in Jobs /\ j.at = "answer" /\ j.feed = f /\ j.mine = 0
    BY RestIsJob DEF Jobs
  <2>3. job' = [job EXCEPT ![s] = j]
    BY <1>10 DEF Like
  <2> HIDE DEF j
  <2>4. JobOK(j, posts', has', pushed')
    BY <1>n, <2>1, <2>2 DEF JobOK
  <2>5. QED
    BY <1>s, <2>1, <2>2, <2>3, <2>4
<1>11. ASSUME NEW s \in Servers, Comment(s) PROVE DbTypes' /\ job' \in [Servers -> Jobs] /\ JobInv'
  <2> DEFINE f == job[s].feed
             j == [job[s] EXCEPT !.at = "answer", !.mine = pushed + 1]
             C == [by : Servers, id : 1..pushed, p : Posted]
             D == [by : Servers, id : 1..pushed + 1, p : Posted]
  <2>1. /\ pushed' = pushed + 1 /\ pushed < MaxComments /\ posts' = posts /\ has' = has
        /\ f \in posts
    BY <1>11, <1>j DEF Comment, posting, lists, Is, JobOK
  <2>2. pushed' \in 0..MaxComments /\ f \in Feeds
    BY <1>n, <1>t, <2>1, SquareAssumption DEF DbTypes
  <2>3. NewComment(s) \in D /\ C \subseteq D
    BY <1>n, <1>j DEF NewComment, Jobs, JobOK
  <2>4. comments' \in [Feeds -> Seq(D)]
    <3>1. comments \in [Feeds -> Seq(C)]
      BY <1>t DEF DbTypes
    <3> HIDE DEF C, D
    <3>2. comments[f] \in Seq(D) /\ \A g \in Feeds : comments[g] \in Seq(D)
      BY <2>2, <2>3, <3>1
    <3>3. Append(comments[f], NewComment(s)) \in Seq(D)
      BY <2>3, <3>2
    <3>4. QED
      BY <1>11, <2>2, <3>1, <3>2, <3>3 DEF Comment
  <2>5. DbTypes'
    BY <1>11, <1>t, <2>1, <2>2, <2>4 DEF Comment, posting, lists, DbTypes
  <2>6. j \in Jobs /\ j.at = "answer" /\ j.feed = f /\ j.mine = pushed + 1
    <3> DEFINE m == pushed + 1
    <3>1. m \in Nat /\ job[s] \in Jobs
      BY <1>n, <1>j
    <3> HIDE DEF m, C, D
    <3>2. [job[s] EXCEPT !.at = "answer", !.mine = m] \in Jobs
      BY <3>1 DEF Jobs
    <3>3. /\ [job[s] EXCEPT !.at = "answer", !.mine = m].at = "answer"
          /\ [job[s] EXCEPT !.at = "answer", !.mine = m].feed = job[s].feed
          /\ [job[s] EXCEPT !.at = "answer", !.mine = m].mine = m
      BY <3>1 DEF Jobs
    <3>4. QED
      BY <3>2, <3>3 DEF m
  <2>7. job' = [job EXCEPT ![s] = j]
    BY <1>11, <1>t DEF Comment
  <2> HIDE DEF j
  <2>8. JobOK(j, posts', has', pushed')
    <3>1. JobOK(job[s], posts, has, pushed)
      BY <1>j DEF Jobs
    <3>2. QED
      BY <1>n, <2>1, <2>6, <3>1 DEF JobOK
  <2>9. pushed <= pushed' /\ pushed' \in Nat /\ posts \subseteq posts' /\ has \subseteq has'
    BY <1>n, <2>1
  <2>10. QED
    BY <2>5, <2>6, <2>7, <2>8, <2>9, StepTypes
<1>12. CASE UNCHANGED vars
  BY <1>12, <1>t DEF vars, DbTypes, JobInv, JobOK
<1>13. QED
  BY <1>1, <1>2, <1>3, <1>4, <1>5, <1>6, <1>7, <1>8, <1>9, <1>10, <1>11, <1>12 DEF Next

LEMMA AlwaysTypes == Spec => [](TypeOK /\ JobInv)
<1>1. Init => TypeOK /\ JobInv
  BY InitTypes
<1>2. TypeOK /\ JobInv /\ [Next]_vars => (TypeOK /\ JobInv)'
  BY NextTypes
<1>3. QED
  BY <1>1, <1>2, PTL DEF Spec

\* The variables keep their types.
THEOREM TypeCorrect == Spec => []TypeOK
BY AlwaysTypes, PTL

------------------------------------------------------------------------------
(* Comments                                                                  *)

\* What a $push does to the comments, and to the server.
LEMMA CommentStep ==
    ASSUME TypeOK, JobInv, NEW s \in Servers, Comment(s)
    PROVE  LET f == job[s].feed  n == Len(comments[f]) + 1 IN
           /\ f \in Feeds /\ Len(comments[f]) \in Nat /\ pushed \in Nat
           /\ DOMAIN comments[f] = 1..n - 1
           /\ DOMAIN comments'[f] = 1..n /\ Len(comments'[f]) = n
           /\ comments'[f][n] = NewComment(s)
           /\ \A i \in 1..n - 1 : comments'[f][i] = comments[f][i]
           /\ \A g \in Feeds : g # f => comments'[g] = comments[g]
           /\ job'[s].at = "answer" /\ job'[s].mine = pushed + 1 /\ job'[s].feed = f
           /\ \A r \in Servers : r # s => job'[r] = job[r]
<1> DEFINE f == job[s].feed
           q == comments[f]
           C == [by : Servers, id : 1..pushed, p : Posted]
<1>1. job[s] \in Jobs /\ f \in Feeds /\ pushed \in Nat
  BY SquareAssumption DEF TypeOK, JobInv, JobOK, Comment, Is
<1>2. q \in Seq(C) /\ comments' = [comments EXCEPT ![f] = Append(q, NewComment(s))]
  BY <1>1 DEF TypeOK, Comment
<1>3. /\ comments'[f] = Append(q, NewComment(s))
      /\ \A g \in Feeds : g # f => comments'[g] = comments[g]
  BY <1>1, <1>2 DEF TypeOK
<1>4. /\ Len(q) \in Nat /\ DOMAIN q = 1..Len(q)
      /\ Len(Append(q, NewComment(s))) = Len(q) + 1
      /\ DOMAIN Append(q, NewComment(s)) = 1..Len(q) + 1
      /\ Append(q, NewComment(s))[Len(q) + 1] = NewComment(s)
      /\ \A i \in 1..Len(q) : Append(q, NewComment(s))[i] = q[i]
  <2> HIDE DEF q, C
  <2>1. QED
    BY <1>2
<1>5. /\ job'[s].at = "answer" /\ job'[s].mine = pushed + 1 /\ job'[s].feed = f
      /\ \A r \in Servers : r # s => job'[r] = job[r]
  <2>1. job' = [job EXCEPT ![s].at = "answer", ![s].mine = pushed + 1]
    BY DEF Comment
  <2>2. QED
    BY <1>1, <2>1 DEF TypeOK, Jobs
<1>6. Len(q) + 1 - 1 = Len(q)
  BY <1>4
<1> HIDE DEF C
<1>7. QED
  BY <1>1, <1>3, <1>4, <1>5, <1>6

\* Every other step leaves the comments alone, and brings a server before the show of
\* a comment of its own never.
LEMMA OtherSteps ==
    ASSUME TypeOK, JobInv, [Next]_vars, ~\E s \in Servers : Comment(s)
    PROVE  /\ comments' = comments
           /\ \A s \in Servers :
                job'[s].at = "answer" /\ job'[s].mine # 0 => job'[s] = job[s]
<1> DEFINE Quiet(s) == job'[s].at = "answer" /\ job'[s].mine # 0 => job'[s] = job[s]
<1>j. \A s \in Servers : job[s] \in Jobs
  BY DEF TypeOK
<1>o. ASSUME NEW s \in Servers, NEW j, job' = [job EXCEPT ![s] = j],
             j.at = "answer" => j.mine = 0
      PROVE  \A r \in Servers : Quiet(r)
  BY <1>o DEF TypeOK
<1>1. ASSUME NEW u \in Users, AddFocus(u) PROVE comments' = comments /\ \A s \in Servers : Quiet(s)
  BY <1>1 DEF AddFocus
<1>2. ASSUME NEW s \in Servers, NEW f \in Feeds, Publish(s, f)
      PROVE  comments' = comments /\ \A r \in Servers : Quiet(r)
  <2> DEFINE j == [Rest EXCEPT !.at = "find", !.feed = f]
  <2>1. job' = [job EXCEPT ![s] = j] /\ j.at = "find" /\ comments' = comments
    BY <1>2, RestIsJob DEF Publish, Rest
  <2> HIDE DEF j
  <2>2. QED
    BY <1>o, <2>1
<1>3. ASSUME NEW s \in Servers, Find(s) PROVE comments' = comments /\ \A r \in Servers : Quiet(r)
  <2> DEFINE j == [job[s] EXCEPT !.at = "bulk", !.uids = focus]
  <2>1. job' = [job EXCEPT ![s] = j] /\ j.at = "bulk" /\ comments' = comments
    BY <1>3, <1>j DEF Find, TypeOK, Jobs
  <2> HIDE DEF j
  <2>2. QED
    BY <1>o, <2>1
<1>r. ASSUME NEW s \in Servers, Return(s) PROVE \A r \in Servers : Quiet(r)
  BY <1>o, <1>r, ReturnJob
<1>4. ASSUME NEW s \in Servers, Bulk(s) PROVE comments' = comments /\ \A r \in Servers : Quiet(r)
  <2>1. comments' = comments /\ job[s].at = "bulk"
    BY <1>4 DEF Bulk, Is
  <2>2. CASE Return(s)
    BY <1>r, <2>1, <2>2
  <2>3. CASE Go(s, "slow")
    <3> DEFINE j == [job[s] EXCEPT !.at = "slow"]
    <3>1. job' = [job EXCEPT ![s] = j] /\ j.at = "slow"
      BY <1>j, <2>3 DEF Go, TypeOK, Jobs
    <3> HIDE DEF j
    <3>2. QED
      BY <1>o, <2>1, <3>1
  <2>4. QED
    BY <1>4, <2>2, <2>3 DEF Bulk
<1>5. ASSUME NEW s \in Servers, NEW u \in Users, SlowInsert(s, u)
      PROVE  comments' = comments /\ \A r \in Servers : Quiet(r)
  <2>1. comments' = comments /\ job[s].at = "slow"
    BY <1>5 DEF SlowInsert, Is
  <2>2. CASE u \in has
    <3> DEFINE j == [job[s] EXCEPT !.uids[u] = @ - 1]
    <3>1. job' = [job EXCEPT ![s] = j] /\ j.at = "slow"
      BY <1>5, <1>j, <2>1, <2>2 DEF SlowInsert, TypeOK, Jobs
    <3> HIDE DEF j
    <3>2. QED
      BY <1>o, <2>1, <3>1
  <2>3. CASE u \notin has
    <3> DEFINE j == [job[s] EXCEPT !.at = "push", !.cur = u]
    <3>1. job' = [job EXCEPT ![s] = j] /\ j.at = "push"
      BY <1>5, <1>j, <2>3 DEF SlowInsert, TypeOK, Jobs
    <3> HIDE DEF j
    <3>2. QED
      BY <1>o, <2>1, <3>1
  <2>4. QED
    BY <2>2, <2>3
<1>6. ASSUME NEW s \in Servers, SlowPush(s) PROVE comments' = comments /\ \A r \in Servers : Quiet(r)
  <2> DEFINE j == [job[s] EXCEPT !.at = "slow", !.uids[job[s].cur] = @ - 1, !.cur = NoOne]
  <2>1. job' = [job EXCEPT ![s] = j] /\ j.at = "slow" /\ comments' = comments
    BY <1>6, <1>j DEF SlowPush, TypeOK, Jobs
  <2> HIDE DEF j
  <2>2. QED
    BY <1>o, <2>1
<1>7. ASSUME NEW s \in Servers, SlowEnd(s) PROVE comments' = comments /\ \A r \in Servers : Quiet(r)
  BY <1>7, <1>r DEF SlowEnd, Is
<1>8. ASSUME NEW s \in Servers, Answer(s)
      PROVE  comments' = comments /\ \A r \in Servers : Quiet(r)
  BY <1>8, <1>o, RestIsJob DEF Answer
<1>9. ASSUME NEW s \in Servers, NEW f \in Feeds, Ask(s, f)
      PROVE  comments' = comments /\ \A r \in Servers : Quiet(r)
  <2>0. PICK p \in Posted : job' = [job EXCEPT ![s] = [Rest EXCEPT !.at = "comment", !.feed = f, !.p = p]]
    BY <1>9 DEF Ask
  <2> DEFINE j == [Rest EXCEPT !.at = "comment", !.feed = f, !.p = p]
  <2>1. job' = [job EXCEPT ![s] = j] /\ j.at = "comment" /\ comments' = comments
    BY <1>9, <2>0 DEF Ask, Rest
  <2> HIDE DEF j
  <2>2. QED
    BY <1>o, <2>1
<1>10. ASSUME NEW s \in Servers, NEW f \in Feeds, Like(s, f)
       PROVE  comments' = comments /\ \A r \in Servers : Quiet(r)
  <2> DEFINE j == [Rest EXCEPT !.at = "answer", !.feed = f]
  <2>1. job' = [job EXCEPT ![s] = j] /\ j.at = "answer" /\ j.mine = 0 /\ comments' = comments
    BY <1>10 DEF Like, Rest
  <2> HIDE DEF j
  <2>2. QED
    BY <1>o, <2>1
<1>11. CASE UNCHANGED vars
  BY <1>11 DEF vars
<1>12. QED
  BY <1>1, <1>2, <1>3, <1>4, <1>5, <1>6, <1>7, <1>8, <1>9, <1>10, <1>11 DEF Next

Seen(c, m, r) == \E i \in DOMAIN c : c[i].id = m /\ \A j \in i + 1..Len(c) : c[j].by # r

LEMMA OwnCommentStep == TypeOK /\ JobInv /\ OwnCommentShown /\ [Next]_vars => OwnCommentShown'
<1> SUFFICES ASSUME TypeOK, JobInv, OwnCommentShown, [Next]_vars,
                    NEW r \in Servers, job'[r].at = "answer", job'[r].mine # 0
             PROVE  Seen(comments'[job'[r].feed], job'[r].mine, r)
  BY DEF OwnCommentShown, Is, Seen
<1>o. job[r].at = "answer" /\ job[r].mine # 0 => Seen(comments[job[r].feed], job[r].mine, r)
  BY DEF OwnCommentShown, Is, Seen
<1>1. CASE ~\E s \in Servers : Comment(s)
  <2>1. comments' = comments /\ job'[r] = job[r]
    BY <1>1, OtherSteps
  <2>2. QED
    BY <1>o, <2>1
<1>2. ASSUME NEW s \in Servers, Comment(s) PROVE Seen(comments'[job'[r].feed], job'[r].mine, r)
  <2> DEFINE f == job[s].feed
             c == comments[f]
             n == Len(c) + 1
             d == comments'[f]
  <2>1. /\ f \in Feeds /\ n \in Nat /\ Len(c) = n - 1 /\ DOMAIN c = 1..n - 1
        /\ DOMAIN d = 1..n /\ Len(d) = n
        /\ d[n] = NewComment(s) /\ \A i \in 1..n - 1 : d[i] = c[i]
        /\ job'[s].mine = pushed + 1 /\ job'[s].feed = f
        /\ \A t \in Servers : t # s => job'[t] = job[t]
        /\ \A g \in Feeds : g # f => comments'[g] = comments[g]
    BY <1>2, CommentStep
  <2>2. d[n].id = pushed + 1 /\ d[n].by = s
    BY <2>1 DEF NewComment
  <2>3. CASE r = s
    <3>1. n \in DOMAIN d /\ \A j \in n + 1..Len(d) : d[j].by # r
      BY <2>1
    <3> HIDE DEF n, d, c, f
    <3>2. Seen(d, pushed + 1, r)
      BY <2>2, <3>1 DEF Seen
    <3>3. QED
      BY <2>1, <2>3, <3>2 DEF d, f
  <2>4. CASE r # s
    <3>0. job'[r] = job[r]
      BY <2>1, <2>4
    <3>1. /\ job'[r] = job[r] /\ job[r].at = "answer"
          /\ Seen(comments[job[r].feed], job[r].mine, r)
      <4>1. job[r].at = "answer" /\ job[r].mine # 0
        BY <3>0
      <4>2. QED
        BY <1>o, <3>0, <4>1
    <3>2. CASE job[r].feed # f
      <4>1. job[r].feed \in Feeds
        BY <3>1 DEF TypeOK, JobInv, JobOK
      <4>2. QED
        BY <2>1, <3>1, <3>2, <4>1
    <3>3. CASE job[r].feed = f
      <4>1. PICK i \in DOMAIN c : c[i].id = job[r].mine /\ \A j \in i + 1..Len(c) : c[j].by # r
        BY <3>1, <3>3 DEF Seen
      <4> HIDE DEF n, d, c, f
      <4>2. i \in DOMAIN d /\ d[i].id = job[r].mine
        BY <2>1, <4>1
      <4>3. ASSUME NEW j \in i + 1..Len(d) PROVE d[j].by # r
        <5>1. CASE j = n
          BY <2>2, <2>4, <5>1
        <5>2. CASE j # n
          <6>1. j \in i + 1..Len(c) /\ j \in 1..n - 1
            BY <2>1, <4>1, <4>3, <5>2
          <6>2. QED
            BY <2>1, <4>1, <6>1
        <5>3. QED
          BY <5>1, <5>2
      <4>4. Seen(d, job[r].mine, r)
        BY <4>2, <4>3 DEF Seen
      <4>5. QED
        BY <3>1, <3>3, <4>4 DEF d, f
    <3>4. QED
      BY <3>2, <3>3
  <2>5. QED
    BY <2>3, <2>4
<1>3. QED
  BY <1>1, <1>2

\* A handler shows the comment it has just added, and only comments of other servers
\* after it.
THEOREM CommentShown == Spec => []OwnCommentShown
<1>1. Init => OwnCommentShown
  BY RestIsJob DEF Init, OwnCommentShown, Is
<1>2. TypeOK /\ JobInv /\ OwnCommentShown /\ [Next]_vars => OwnCommentShown'
  BY OwnCommentStep
<1>3. QED
  BY <1>1, <1>2, AlwaysTypes, PTL DEF Spec

------------------------------------------------------------------------------
(* Delivery                                                                  *)

Working(s) == job[s].at \in {"find", "bulk", "slow", "push"}

Untouched(f) == overlap[f] = {} /\ \A u \in Users : Times(f, u) = 0

Reached(f, u) == IF u \in has THEN Times(f, u) = 0 <=> u \in overlap[f] ELSE u \notin overlap[f]

Got(f) == \A u \in audience[f] : u \in has /\ (Times(f, u) = 0 <=> u \in overlap[f])

\* A server that publishes f: nobody has f before the update of all lists; after it
\* everybody found is reached, or has no list and is still to be attempted.
WorkOK(s) ==
    LET f == job[s].feed  uids == job[s].uids IN
    /\ f \notin done
    /\ job[s].at \in {"find", "bulk"} => Untouched(f)
    /\ job[s].at = "bulk" => audience[f] = {u \in Users : uids[u] > 0}
    /\ job[s].at \in {"slow", "push"} => \A u \in Users :
         /\ uids[u] > 0 => u \in audience[f]
         /\ u \in audience[f] /\ uids[u] = 0 => u \in has
         /\ u \in audience[f] /\ (job[s].at = "push" => u # job[s].cur) => Reached(f, u)
    /\ job[s].at = "push" => Times(f, job[s].cur) = 0 /\ job[s].cur \notin overlap[f]

\* One server at most publishes a feed.
PublishInv ==
    /\ \A f \in Feeds \ posts : Untouched(f)
    /\ \A r, s \in Servers : Working(r) /\ Working(s) /\ job[r].feed = job[s].feed => r = s
    /\ \A s \in Servers : Working(s) => WorkOK(s)

LEMMA TimesType ==
    ASSUME TypeOK, NEW f \in Feeds, NEW u \in Users
    PROVE  Times(f, u) = Count(fids[u], f) /\ Times(f, u) \in Nat /\ (u \notin has => Times(f, u) = 0)
<1>1. fids[u] \in Seq(posts) /\ (u \notin has => fids[u] = <<>>)
  BY DEF TypeOK
<1>2. Times(f, u) = Count(fids[u], f)
  BY DEF Times, Count
<1>3. QED
  BY <1>1, <1>2, CountAppend, CountEmpty

\* A feed of which a step changes nothing.
LEMMA SameFeed ==
    ASSUME TypeOK, NEW g \in Feeds, has' = has, audience'[g] = audience[g], overlap'[g] = overlap[g],
           \A u \in Users : Times(g, u)' = Times(g, u)
    PROVE  /\ Untouched(g) => Untouched(g)'
           /\ Got(g) => Got(g)'
           /\ \A u \in Users : Reached(g, u) => Reached(g, u)'
<1>1. audience[g] \subseteq Users
  BY DEF TypeOK
<1>2. Untouched(g) => Untouched(g)'
  BY DEF Untouched
<1>3. Got(g) => Got(g)'
  BY <1>1 DEF Got
<1>4. \A u \in Users : Reached(g, u) => Reached(g, u)'
  BY DEF Reached
<1>5. QED
  BY <1>2, <1>3, <1>4

LEMMA SameWork ==
    ASSUME TypeOK, JobInv, NEW r \in Servers, Working(r), job'[r] = job[r], WorkOK(r),
           NEW g, g = job[r].feed, has' = has, audience'[g] = audience[g], overlap'[g] = overlap[g],
           \A u \in Users : Times(g, u)' = Times(g, u), g \notin done'
    PROVE  WorkOK(r)'
<1>1. g \in Feeds /\ (job[r].at = "push" => job[r].cur \in Users)
  BY DEF Working, JobInv, JobOK, TypeOK
<1>2. /\ Untouched(g) => Untouched(g)'
      /\ \A u \in Users : Reached(g, u) => Reached(g, u)'
  BY <1>1, SameFeed
<1>3. QED
  BY <1>1, <1>2 DEF WorkOK

\* A step of the one server that publishes f.
LEMMA WorkStep ==
    ASSUME TypeOK, JobInv, PublishInv, Delivered,
           NEW s \in Servers, NEW f \in Feeds, f \notin done,
           \A r \in Servers \ {s} : Working(r) => job[r].feed # f,
           \A r \in Servers \ {s} : job'[r] = job[r],
           has' = has, posts' = posts \cup {f}, done' \in {done, done \cup {f}},
           \A g \in Feeds \ {f} : /\ audience'[g] = audience[g] /\ overlap'[g] = overlap[g]
                                 /\ \A u \in Users : Times(g, u)' = Times(g, u),
           Working(s)' => job'[s].feed = f /\ WorkOK(s)',
           f \in done' => Got(f)',
           \A u \in Users : Times(f, u)' <= 1
    PROVE  PublishInv' /\ Delivered'
<1>1. ASSUME NEW g \in Feeds \ {f}
      PROVE  (Untouched(g) => Untouched(g)') /\ (Got(g) => Got(g)')
  BY SameFeed
<1>2. \A g \in Feeds \ posts' : Untouched(g)'
  BY <1>1 DEF PublishInv
<1>3. ASSUME NEW r \in Servers \ {s}, Working(r)' PROVE job'[r].feed # f /\ WorkOK(r)'
  <2>1. Working(r) /\ job'[r] = job[r] /\ WorkOK(r) /\ job[r].feed # f
    BY <1>3 DEF Working, PublishInv
  <2>2. job[r].feed \in Feeds /\ job[r].feed \notin done'
    BY <2>1 DEF Working, JobInv, JobOK, TypeOK, WorkOK
  <2>3. QED
    BY <2>1, <2>2, SameWork
<1>4. \A q, r \in Servers : Working(q)' /\ Working(r)' /\ job'[q].feed = job'[r].feed => q = r
  <2> SUFFICES ASSUME NEW q \in Servers, NEW r \in Servers, Working(q)', Working(r)', job'[q].feed = job'[r].feed,
                      q # r
               PROVE  FALSE
    OBVIOUS
  <2>1. CASE q = s \/ r = s
    BY <1>3, <2>1
  <2>2. CASE q # s /\ r # s
    <3>1. job'[q] = job[q] /\ job'[r] = job[r]
      BY <2>2
    <3>2. Working(q) /\ Working(r)
      BY <3>1 DEF Working
    <3>3. QED
      BY <3>1, <3>2 DEF PublishInv
  <2>3. QED
    BY <2>1, <2>2
<1>5. PublishInv'
  BY <1>2, <1>3, <1>4 DEF PublishInv
<1>6. \A g \in Feeds, u \in Users : Times(g, u)' <= 1
  <2>1. \A g \in Feeds \ {f}, u \in Users : Times(g, u)' <= 1
    BY DEF Delivered
  <2>2. QED
    BY <2>1
<1>7. \A g \in done' : Got(g)'
  <2>1. done \subseteq Feeds /\ \A g \in done : Got(g)
    BY DEF TypeOK, Delivered, Got
  <2>2. QED
    BY <1>1, <2>1
<1>8. QED
  BY <1>5, <1>6, <1>7 DEF Delivered, Got

\* A step that publishes nothing.
LEMMA QuietStep ==
    ASSUME TypeOK, JobInv, PublishInv, Delivered, UNCHANGED <<posts, lists, audience, done>>,
           \A r \in Servers : Working(r)' => job'[r] = job[r]
    PROVE  PublishInv' /\ Delivered'
<1>1. \A g \in Feeds, u \in Users : Times(g, u)' = Times(g, u)
  BY DEF lists, Times
<1>2. Delivered'
  <2>1. done \subseteq Feeds /\ \A f \in Feeds : audience[f] \subseteq Users
    BY DEF TypeOK
  <2>2. QED
    BY <1>1, <2>1 DEF Delivered, lists
<1>3. \A f \in Feeds \ posts' : Untouched(f)'
  BY <1>1 DEF PublishInv, Untouched, lists
<1>4. ASSUME NEW r \in Servers, Working(r)' PROVE Working(r) /\ job'[r] = job[r] /\ WorkOK(r)'
  <2>1. Working(r) /\ job'[r] = job[r]
    BY <1>4 DEF Working
  <2>2. WorkOK(r)
    BY <2>1 DEF PublishInv
  <2>3. job[r].feed \in Feeds /\ job[r].feed \notin done'
    BY <2>1, <2>2 DEF Working, JobInv, JobOK, TypeOK, WorkOK
  <2>4. WorkOK(r)'
    BY <1>1, <2>1, <2>2, <2>3, SameWork DEF lists
  <2>5. QED
    BY <2>1, <2>4
<1>5. QED
  BY <1>2, <1>3, <1>4 DEF PublishInv

\* A feed appended to some lists is counted once more there, and no other feed is.
LEMMA TimesAppend ==
    ASSUME TypeOK, NEW f \in Feeds, NEW To \in SUBSET Users,
           \A u \in Users : fids'[u] = IF u \in To THEN Append(fids[u], f) ELSE fids[u]
    PROVE  /\ \A u \in Users : Times(f, u)' = IF u \in To THEN Times(f, u) + 1 ELSE Times(f, u)
           /\ \A g \in Feeds \ {f}, u \in Users : Times(g, u)' = Times(g, u)
<1> SUFFICES ASSUME NEW g \in Feeds, NEW u \in Users
             PROVE  Times(g, u)' = IF g = f /\ u \in To THEN Times(g, u) + 1 ELSE Times(g, u)
  OBVIOUS
<1>1. fids[u] \in Seq(posts)
  BY DEF TypeOK
<1>2. Times(g, u)' = Count(fids'[u], g) /\ Times(g, u) = Count(fids[u], g)
  BY DEF Times, Count
<1>3. Count(Append(fids[u], f), g) = IF g = f THEN Count(fids[u], g) + 1 ELSE Count(fids[u], g)
  BY <1>1, CountAppend
<1>4. QED
  BY <1>2, <1>3

LEMMA PublishStarts ==
    ASSUME TypeOK, JobInv, PublishInv, Delivered,
           NEW s \in Servers, NEW f \in Feeds, Publish(s, f)
    PROVE  PublishInv' /\ Delivered'
<1>1. /\ f \notin posts /\ f \notin done /\ posts' = posts \cup {f} /\ Untouched(f)
      /\ has' = has /\ fids' = fids /\ overlap' = overlap /\ audience' = audience /\ done' = done
  BY DEF Publish, lists, TypeOK, PublishInv
<1>2. \A r \in Servers \ {s} : Working(r) => job[r].feed # f
  BY <1>1 DEF Working, JobInv, JobOK
<1>3. job'[s].at = "find" /\ job'[s].feed = f /\ \A r \in Servers \ {s} : job'[r] = job[r]
  BY DEF Publish, TypeOK, Rest
<1>4. \A g \in Feeds, v \in Users : Times(g, v)' = Times(g, v)
  BY <1>1 DEF Times
<1>5. Untouched(f)' /\ \A v \in Users : Times(f, v)' <= 1
  BY <1>1, <1>4 DEF Untouched
<1>6. WorkOK(s)'
  BY <1>1, <1>3, <1>5 DEF WorkOK
<1>7. QED
  BY <1>1, <1>2, <1>3, <1>4, <1>5, <1>6, WorkStep

\* A server at work publishes a feed that no other server publishes.
LEMMA AtWork ==
    ASSUME TypeOK, JobInv, PublishInv, NEW s \in Servers, Working(s)
    PROVE  /\ job[s].feed \in posts /\ job[s].feed \in Feeds /\ job[s].feed \notin done
           /\ job[s].uids \in [Users -> Nat]
           /\ WorkOK(s)
           /\ \A r \in Servers \ {s} : Working(r) => job[r].feed # job[s].feed
<1>1. job[s] \in Jobs /\ job[s].feed \in posts
  BY DEF Working, TypeOK, JobInv, JobOK
<1>2. job[s].uids \in [Users -> Nat]
  BY <1>1, SquareAssumption DEF Jobs
<1>3. WorkOK(s) /\ job[s].feed \notin done
  BY DEF PublishInv, WorkOK
<1>4. QED
  BY <1>1, <1>2, <1>3 DEF PublishInv, TypeOK

LEMMA FindStep ==
    ASSUME TypeOK, JobInv, PublishInv, Delivered, NEW s \in Servers, Find(s)
    PROVE  PublishInv' /\ Delivered'
<1>f. PICK f : f = job[s].feed
  OBVIOUS
<1>1. /\ Working(s) /\ job[s].at = "find"
      /\ posts' = posts /\ has' = has /\ fids' = fids /\ overlap' = overlap /\ done' = done
      /\ audience' = [audience EXCEPT ![f] = {u \in Users : focus[u] > 0}]
  BY <1>f DEF Find, Is, Working, lists
<1>2. /\ f \in posts /\ f \in Feeds /\ f \notin done /\ WorkOK(s)
      /\ \A r \in Servers \ {s} : Working(r) => job[r].feed # f
  BY <1>1, <1>f, AtWork
<1>3. /\ job'[s].at = "bulk" /\ job'[s].feed = f /\ job'[s].uids = focus
      /\ \A r \in Servers \ {s} : job'[r] = job[r]
  BY <1>f DEF Find, TypeOK, Jobs
<1>4. \A g \in Feeds, v \in Users : Times(g, v)' = Times(g, v)
  BY <1>1 DEF Times
<1>5. Untouched(f)' /\ \A v \in Users : Times(f, v)' <= 1
  BY <1>1, <1>2, <1>4, <1>f DEF Untouched, WorkOK
<1>6. /\ audience'[f] = {u \in Users : focus[u] > 0}
      /\ \A g \in Feeds \ {f} : audience'[g] = audience[g]
  BY <1>1, <1>2 DEF TypeOK
<1>7. WorkOK(s)'
  BY <1>1, <1>2, <1>3, <1>5, <1>6 DEF WorkOK
<1>8. QED
  BY <1>1, <1>2, <1>3, <1>4, <1>5, <1>6, <1>7, WorkStep

\* The end of New.
LEMMA ReturnStep ==
    ASSUME TypeOK, JobInv, PublishInv, Delivered, NEW s \in Servers, Working(s), Return(s),
           NEW f, f = job[s].feed, posts' = posts, has' = has, overlap' = overlap, audience' = audience,
           \A g \in Feeds \ {f}, u \in Users : Times(g, u)' = Times(g, u),
           \A u \in Users : Times(f, u)' <= 1,
           Got(f)'
    PROVE  PublishInv' /\ Delivered'
<1>1. /\ f \in posts /\ f \in Feeds /\ f \notin done
      /\ \A r \in Servers \ {s} : Working(r) => job[r].feed # f
  BY AtWork
<1>2. done' = done \cup {f}
  BY DEF Return
<1>3. job' = [job EXCEPT ![s] = Rest] /\ Rest.at = "rest"
  BY ReturnJob
<1>4. job'[s].at = "rest" /\ \A r \in Servers \ {s} : job'[r] = job[r]
  BY <1>3 DEF TypeOK
<1>5. ~Working(s)'
  BY <1>4 DEF Working
<1>6. posts' = posts \cup {f}
  BY <1>1
<1>7. QED
  BY <1>1, <1>2, <1>4, <1>5, <1>6, WorkStep

LEMMA BulkStep ==
    ASSUME TypeOK, JobInv, PublishInv, Delivered, NEW s \in Servers, Bulk(s)
    PROVE  PublishInv' /\ Delivered'
<1>f. PICK f : f = job[s].feed
  OBVIOUS
<1>u. PICK uids : uids = job[s].uids
  OBVIOUS
<1> DEFINE To(have) == {u \in Users : uids[u] > 0 /\ u \in have}
<1>1. /\ Working(s) /\ job[s].at = "bulk"
      /\ posts' = posts /\ has' = has /\ overlap' = overlap /\ audience' = audience
      /\ \A u \in Users : fids'[u] = IF u \in To(has) THEN Append(fids[u], f) ELSE fids[u]
  BY <1>f, <1>u DEF Bulk, Is, Working
<1>2. /\ f \in posts /\ f \in Feeds /\ f \notin done /\ uids \in [Users -> Nat]
      /\ Untouched(f) /\ audience[f] = {u \in Users : uids[u] > 0}
      /\ \A r \in Servers \ {s} : Working(r) => job[r].feed # f
  BY <1>1, <1>f, <1>u, AtWork DEF WorkOK
<1>3. /\ \A u \in Users : Times(f, u)' = IF u \in To(has) THEN Times(f, u) + 1 ELSE Times(f, u)
      /\ \A g \in Feeds \ {f}, u \in Users : Times(g, u)' = Times(g, u)
  <2>1. To(has) \in SUBSET Users
    OBVIOUS
  <2> HIDE DEF To
  <2>2. QED
    BY <1>1, <1>2, <2>1, TimesAppend
<1>4. /\ overlap'[f] = {}
      /\ \A u \in Users : Times(f, u)' = IF uids[u] > 0 /\ u \in has THEN 1 ELSE 0
  BY <1>1, <1>2, <1>3 DEF Untouched
<1>5. \A u \in Users : Times(f, u)' <= 1
  BY <1>4
<1> HIDE DEF To
<1>6. CASE AllUpdated(uids) /\ Return(s)
  <2>1. Got(f)'
    BY <1>1, <1>2, <1>4, <1>6 DEF AllUpdated, Got
  <2>2. QED
    BY <1>1, <1>3, <1>5, <1>6, <1>f, <2>1, ReturnStep
<1>7. CASE Go(s, "slow") /\ UNCHANGED done
  <2>1. /\ job'[s].at = "slow" /\ job'[s].feed = f /\ job'[s].uids = uids
        /\ \A r \in Servers \ {s} : job'[r] = job[r]
    BY <1>7, <1>f, <1>u DEF Go, TypeOK, Jobs
  <2>2. WorkOK(s)'
    BY <1>1, <1>2, <1>4, <1>7, <2>1 DEF WorkOK, Reached
  <2>3. posts' = posts \cup {f} /\ done' = done
    BY <1>1, <1>2, <1>7
  <2>4. QED
    BY <1>1, <1>2, <1>3, <1>5, <2>1, <2>2, <2>3, WorkStep
<1>8. QED
  BY <1>6, <1>7, <1>u DEF Bulk

\* A user whose list is there already.
LEMMA PassStep ==
    ASSUME TypeOK, JobInv, PublishInv, Delivered, NEW s \in Servers, NEW u \in Users,
           SlowInsert(s, u), u \in has
    PROVE  PublishInv' /\ Delivered'
<1>f. PICK f : f = job[s].feed
  OBVIOUS
<1>u. PICK uids : uids = job[s].uids
  OBVIOUS
<1>1. /\ Working(s) /\ job[s].at = "slow" /\ uids[u] > 0
      /\ posts' = posts /\ has' = has /\ fids' = fids /\ overlap' = overlap /\ audience' = audience /\ done' = done
      /\ job' = [job EXCEPT ![s].uids[u] = @ - 1]
  BY <1>u DEF SlowInsert, Is, Working
<1>2. /\ f \in posts /\ f \in Feeds /\ f \notin done /\ uids \in [Users -> Nat] /\ WorkOK(s)
      /\ \A r \in Servers \ {s} : Working(r) => job[r].feed # f
  BY <1>1, <1>f, <1>u, AtWork
<1>3. /\ job'[s].at = "slow" /\ job'[s].feed = f /\ job'[s].uids = [uids EXCEPT ![u] = @ - 1]
      /\ \A r \in Servers \ {s} : job'[r] = job[r]
  BY <1>1, <1>f, <1>u DEF TypeOK, Jobs
<1>4. \A g \in Feeds, v \in Users : Times(g, v)' = Times(g, v)
  BY <1>1 DEF Times
<1>5. \A v \in Users : Times(f, v)' <= 1
  BY <1>2, <1>4 DEF Delivered
<1>6. ASSUME NEW v \in Users
      PROVE  /\ job'[s].uids[v] > 0 => v \in audience[f]
             /\ v \in audience[f] /\ job'[s].uids[v] = 0 => v \in has
             /\ v \in audience[f] => Reached(f, v)
  <2>1. /\ uids[v] > 0 => v \in audience[f]
        /\ v \in audience[f] /\ uids[v] = 0 => v \in has
        /\ v \in audience[f] => Reached(f, v)
    BY <1>1, <1>2, <1>f, <1>u DEF WorkOK
  <2>2. job'[s].uids[v] = IF v = u THEN uids[u] - 1 ELSE uids[v]
    BY <1>2, <1>3
  <2>3. QED
    BY <1>1, <1>2, <2>1, <2>2
<1>7. \A v \in Users : Reached(f, v) => Reached(f, v)'
  BY <1>1, <1>2, <1>4, SameFeed
<1>8. WorkOK(s)'
  BY <1>1, <1>2, <1>3, <1>6, <1>7 DEF WorkOK
<1>9. posts' = posts \cup {f}
  BY <1>1, <1>2
<1>10. QED
  BY <1>1, <1>2, <1>3, <1>4, <1>5, <1>8, <1>9, WorkStep

LEMMA PushStep ==
    ASSUME TypeOK, JobInv, PublishInv, Delivered, NEW s \in Servers, SlowPush(s)
    PROVE  PublishInv' /\ Delivered'
<1>f. PICK f : f = job[s].feed
  OBVIOUS
<1>u. PICK uids : uids = job[s].uids
  OBVIOUS
<1>c. PICK u : u = job[s].cur
  OBVIOUS
<1>1. /\ Working(s) /\ job[s].at = "push"
      /\ posts' = posts /\ has' = has /\ overlap' = overlap /\ audience' = audience /\ done' = done
      /\ fids' = [fids EXCEPT ![u] = Append(@, f)]
      /\ job' = [job EXCEPT ![s].at = "slow", ![s].uids[u] = @ - 1, ![s].cur = NoOne]
  BY <1>f, <1>u, <1>c DEF SlowPush, Is, Working
<1>2. /\ f \in posts /\ f \in Feeds /\ f \notin done /\ uids \in [Users -> Nat] /\ WorkOK(s)
      /\ \A r \in Servers \ {s} : Working(r) => job[r].feed # f
  BY <1>1, <1>f, <1>u, AtWork
<1>3. /\ u \in Users /\ u \in has /\ uids[u] > 0
      /\ Times(f, u) = 0 /\ u \notin overlap[f]
  BY <1>1, <1>2, <1>f, <1>u, <1>c DEF WorkOK, JobInv, JobOK, TypeOK
<1>4. /\ job'[s].at = "slow" /\ job'[s].feed = f /\ job'[s].uids = [uids EXCEPT ![u] = @ - 1]
      /\ \A r \in Servers \ {s} : job'[r] = job[r]
  BY <1>1, <1>f, <1>u DEF TypeOK, Jobs
<1>5. /\ \A v \in Users : Times(f, v)' = IF v = u THEN 1 ELSE Times(f, v)
      /\ \A g \in Feeds \ {f}, v \in Users : Times(g, v)' = Times(g, v)
  <2>1. \A v \in Users : fids'[v] = IF v \in {u} THEN Append(fids[v], f) ELSE fids[v]
    BY <1>1, <1>3 DEF TypeOK
  <2>2. /\ \A v \in Users : Times(f, v)' = IF v \in {u} THEN Times(f, v) + 1 ELSE Times(f, v)
        /\ \A g \in Feeds \ {f}, v \in Users : Times(g, v)' = Times(g, v)
    <3> DEFINE To == {u}
    <3>1. To \in SUBSET Users /\ \A v \in Users : fids'[v] = IF v \in To THEN Append(fids[v], f) ELSE fids[v]
      BY <1>3, <2>1
    <3> HIDE DEF To
    <3>2. /\ \A v \in Users : Times(f, v)' = IF v \in To THEN Times(f, v) + 1 ELSE Times(f, v)
          /\ \A g \in Feeds \ {f}, v \in Users : Times(g, v)' = Times(g, v)
      BY <1>2, <3>1, TimesAppend
    <3>3. QED
      BY <3>2 DEF To
  <2>3. QED
    BY <1>3, <2>2
<1>6. \A v \in Users : Times(f, v)' <= 1
  BY <1>2, <1>5 DEF Delivered
<1>7. ASSUME NEW v \in Users
      PROVE  /\ job'[s].uids[v] > 0 => v \in audience[f]
             /\ v \in audience[f] /\ job'[s].uids[v] = 0 => v \in has
             /\ v \in audience[f] => Reached(f, v)'
  <2>1. /\ uids[v] > 0 => v \in audience[f]
        /\ v \in audience[f] /\ uids[v] = 0 => v \in has
        /\ v \in audience[f] /\ v # u => Reached(f, v)
    BY <1>1, <1>2, <1>f, <1>u, <1>c DEF WorkOK
  <2>2. job'[s].uids[v] = IF v = u THEN uids[u] - 1 ELSE uids[v]
    BY <1>2, <1>4
  <2>3. CASE v = u
    <3>1. Reached(f, v)'
      BY <1>1, <1>3, <1>5, <2>3 DEF Reached
    <3>2. QED
      BY <1>2, <1>3, <2>1, <2>2, <2>3, <3>1
  <2>4. CASE v # u
    <3>1. Reached(f, v) => Reached(f, v)'
      BY <1>1, <1>5, <2>4 DEF Reached
    <3>2. QED
      BY <2>1, <2>2, <2>4, <3>1
  <2>5. QED
    BY <2>3, <2>4
<1>8. WorkOK(s)'
  BY <1>1, <1>2, <1>4, <1>7 DEF WorkOK
<1>9. posts' = posts \cup {f}
  BY <1>1, <1>2
<1>10. QED
  BY <1>1, <1>2, <1>4, <1>5, <1>6, <1>8, <1>9, WorkStep

LEMMA EndStep ==
    ASSUME TypeOK, JobInv, PublishInv, Delivered, NEW s \in Servers, SlowEnd(s)
    PROVE  PublishInv' /\ Delivered'
<1>f. PICK f : f = job[s].feed
  OBVIOUS
<1>1. /\ Working(s) /\ job[s].at = "slow" /\ Return(s) /\ \A u \in Users : job[s].uids[u] = 0
      /\ posts' = posts /\ has' = has /\ fids' = fids /\ overlap' = overlap /\ audience' = audience
  BY DEF SlowEnd, Is, Working, lists
<1>2. f \in Feeds /\ WorkOK(s)
  BY <1>1, <1>f, AtWork
<1>3. \A g \in Feeds, v \in Users : Times(g, v)' = Times(g, v)
  BY <1>1 DEF Times
<1>4. \A v \in Users : Times(f, v)' <= 1
  BY <1>2, <1>3 DEF Delivered
<1>5. Got(f)'
  <2>1. audience[f] \subseteq Users
    BY <1>2 DEF TypeOK
  <2>2. \A v \in audience[f] : v \in has /\ Reached(f, v)
    BY <1>1, <1>2, <1>f, <2>1 DEF WorkOK
  <2>3. Got(f)
    BY <2>2 DEF Got, Reached
  <2>4. QED
    BY <1>1, <1>2, <1>3, <2>3, SameFeed
<1>6. QED
  BY <1>1, <1>2, <1>3, <1>4, <1>5, <1>f, ReturnStep

\* A user who has no list: now there is one, and the others that found the user pass it.
LEMMA InsertStep ==
    ASSUME TypeOK, JobInv, PublishInv, Delivered, NEW s \in Servers, NEW u \in Users,
           SlowInsert(s, u), u \notin has
    PROVE  PublishInv' /\ Delivered'
<1> DEFINE Passed(g, who) == \E r \in Servers \ {s} : /\ who[r].feed = g /\ who[r].at \in {"slow", "push"}
                                                     /\ who[r].uids[u] > 0
<1>f. PICK f : f = job[s].feed
  OBVIOUS
<1>j. PICK who : who = job
  OBVIOUS
<1>1. /\ Working(s) /\ job[s].at = "slow" /\ job[s].uids[u] > 0
      /\ posts' = posts /\ has' = has \cup {u} /\ fids' = fids /\ audience' = audience /\ done' = done
      /\ job' = [job EXCEPT ![s].at = "push", ![s].cur = u]
      /\ \A g \in Feeds : overlap'[g] = IF Passed(g, who) THEN overlap[g] \cup {u} ELSE overlap[g]
  BY <1>j DEF SlowInsert, Is, Working
<1>2. /\ f \in posts /\ f \in Feeds /\ f \notin done /\ job[s].uids \in [Users -> Nat] /\ WorkOK(s)
      /\ \A r \in Servers \ {s} : Working(r) => job[r].feed # f
  BY <1>1, <1>f, AtWork
<1>3. /\ job'[s].at = "push" /\ job'[s].feed = f /\ job'[s].uids = job[s].uids /\ job'[s].cur = u
      /\ \A r \in Servers \ {s} : job'[r] = job[r]
  BY <1>1, <1>f DEF TypeOK, Jobs
<1>4. /\ \A g \in Feeds, v \in Users : Times(g, v)' = Times(g, v)
      /\ \A g \in Feeds : Times(g, u) = 0
  BY <1>1, TimesType DEF Times
<1>5. ASSUME NEW g \in Feeds, Passed(g, who)
      PROVE  \E r \in Servers \ {s} : Working(r) /\ job[r].feed = g /\ job[r].at \in {"slow", "push"} /\ job[r].uids[u] > 0
  BY <1>5, <1>j DEF Working
<1> HIDE DEF Passed
<1>6. \A g \in Feeds \ posts : Untouched(g)'
  <2>1. \A g \in Feeds \ posts : ~Passed(g, who)
    BY <1>5, AtWork
  <2>2. QED
    BY <1>1, <1>4, <2>1 DEF PublishInv, Untouched
<1>7. \A q, r \in Servers : Working(q)' /\ Working(r)' /\ job'[q].feed = job'[r].feed => q = r
  <2>1. \A r \in Servers : Working(r)' => Working(r) /\ job'[r].feed = job[r].feed
    BY <1>1, <1>3, <1>f DEF Working
  <2>2. QED
    BY <2>1 DEF PublishInv
<1>8. WorkOK(s)'
  <2>1. ~Passed(f, who)
    BY <1>2, <1>5
  <2>2. overlap'[f] = overlap[f]
    BY <1>1, <1>2, <2>1
  <2>3. ASSUME NEW v \in Users
        PROVE  /\ job[s].uids[v] > 0 => v \in audience[f]
               /\ v \in audience[f] /\ job[s].uids[v] = 0 => v \in has
               /\ v \in audience[f] => Reached(f, v)
    BY <1>1, <1>2, <1>f DEF WorkOK
  <2>4. u \notin overlap[f]
    BY <1>1, <2>3 DEF Reached
  <2>5. \A v \in Users : Reached(f, v) /\ v # u => Reached(f, v)'
    BY <1>1, <1>2, <1>4, <2>2 DEF Reached
  <2>6. Times(f, u)' = 0 /\ u \notin overlap'[f] /\ audience'[f] = audience[f]
    BY <1>1, <1>2, <1>4, <2>2, <2>4
  <2>7. ASSUME NEW v \in Users
        PROVE  /\ job'[s].uids[v] > 0 => v \in audience'[f]
               /\ v \in audience'[f] /\ job'[s].uids[v] = 0 => v \in has'
               /\ v \in audience'[f] /\ v # u => Reached(f, v)'
    BY <1>1, <1>3, <2>3, <2>5, <2>6
  <2>8. QED
    BY <1>1, <1>2, <1>3, <2>6, <2>7 DEF WorkOK
<1>9. ASSUME NEW r \in Servers \ {s}, Working(r) PROVE WorkOK(r)'
  <2>g. PICK g : g = job[r].feed
    OBVIOUS
  <2>1. /\ g \in Feeds /\ g \notin done /\ job[r].uids \in [Users -> Nat] /\ WorkOK(r)
        /\ \A t \in Servers \ {r} : Working(t) => job[t].feed # g
    BY <1>9, <2>g, AtWork
  <2>2. job'[r] = job[r] /\ audience'[g] = audience[g] /\ g \notin done'
    BY <1>1, <1>3, <2>1
  <2>3. Passed(g, who) <=> job[r].at \in {"slow", "push"} /\ job[r].uids[u] > 0
    <3>1. Passed(g, who) => job[r].at \in {"slow", "push"} /\ job[r].uids[u] > 0
      BY <1>5, <2>1
    <3>2. job[r].at \in {"slow", "push"} /\ job[r].uids[u] > 0 => Passed(g, who)
      BY <1>j, <2>g DEF Passed
    <3>3. QED
      BY <3>1, <3>2
  <2>4. overlap'[g] = IF Passed(g, who) THEN overlap[g] \cup {u} ELSE overlap[g]
    BY <1>1, <2>1
  <2>5. CASE job[r].at \in {"find", "bulk"}
    <3>1. Untouched(g)'
      BY <1>4, <2>1, <2>3, <2>4, <2>5, <2>g DEF WorkOK, Untouched
    <3>2. QED
      BY <2>1, <2>2, <2>5, <2>g, <3>1 DEF WorkOK
  <2>6. CASE job[r].at \in {"slow", "push"}
    <3>1. job[r].at = "push" => job[r].cur \in Users /\ job[r].cur # u
      BY <1>9 DEF JobInv, JobOK, TypeOK
    <3>2. ASSUME NEW v \in Users
          PROVE  /\ job[r].uids[v] > 0 => v \in audience[g]
                 /\ v \in audience[g] /\ job[r].uids[v] = 0 => v \in has
                 /\ v \in audience[g] /\ (job[r].at = "push" => v # job[r].cur) => Reached(g, v)
      BY <2>1, <2>6, <2>g DEF WorkOK
    <3>3. ASSUME NEW v \in Users, v \in audience[g], job[r].at = "push" => v # job[r].cur
          PROVE  Reached(g, v)'
      <4>1. CASE v = u
        <5>1. job[r].uids[u] > 0
          BY <1>9, <2>1, <3>2, <3>3, <4>1
        <5>2. u \in overlap'[g] /\ u \in has'
          BY <1>1, <2>3, <2>4, <2>6, <5>1
        <5>3. QED
          BY <1>4, <2>1, <4>1, <5>2 DEF Reached
      <4>2. CASE v # u
        <5>1. Reached(g, v)
          BY <3>2, <3>3
        <5>2. QED
          BY <1>1, <1>4, <2>1, <2>4, <4>2, <5>1 DEF Reached
      <4>3. QED
        BY <4>1, <4>2
    <3>4. job[r].at = "push" => Times(g, job[r].cur) = 0 /\ job[r].cur \notin overlap[g]
      BY <2>1, <2>g DEF WorkOK
    <3>w. PICK w : w = job[r].cur
      OBVIOUS
    <3>5. job[r].at = "push" => Times(g, w)' = 0 /\ w \notin overlap'[g]
      BY <1>4, <2>1, <2>4, <3>1, <3>4, <3>w
    <3>6. QED
      BY <1>1, <2>2, <2>6, <2>g, <3>2, <3>3, <3>5, <3>w DEF WorkOK
  <2>7. QED
    BY <1>9, <2>5, <2>6 DEF Working
<1>10. PublishInv'
  <2>1. \A r \in Servers : Working(r)' => WorkOK(r)'
    <3>1. \A r \in Servers \ {s} : Working(r)' => Working(r)
      BY <1>3 DEF Working
    <3>2. QED
      BY <1>8, <1>9, <3>1
  <2>2. QED
    BY <1>1, <1>6, <1>7, <2>1 DEF PublishInv
<1>11. Delivered'
  <2>1. \A g \in Feeds, v \in Users : Times(g, v)' <= 1
    BY <1>4 DEF Delivered
  <2>2. ASSUME NEW g \in done PROVE Got(g)'
    <3>1. g \in Feeds /\ audience[g] \subseteq Users /\ Got(g)
      BY DEF TypeOK, Delivered, Got
    <3>2. ~Passed(g, who)
      BY <1>5, <3>1, AtWork
    <3>3. overlap'[g] = overlap[g]
      BY <1>1, <3>1, <3>2
    <3>4. QED
      BY <1>1, <1>4, <3>1, <3>3 DEF Got
  <2>3. QED
    BY <1>1, <2>1, <2>2 DEF Delivered, Got
<1>12. QED
  BY <1>10, <1>11

LEMMA PublishNext == TypeOK /\ JobInv /\ PublishInv /\ Delivered /\ [Next]_vars => PublishInv' /\ Delivered'
<1> SUFFICES ASSUME TypeOK, JobInv, PublishInv, Delivered, [Next]_vars PROVE PublishInv' /\ Delivered'
  OBVIOUS
<1>1. ASSUME NEW u \in Users, AddFocus(u) PROVE PublishInv' /\ Delivered'
  BY <1>1, QuietStep DEF AddFocus
<1>2. ASSUME NEW s \in Servers, NEW f \in Feeds, Publish(s, f)
      PROVE  PublishInv' /\ Delivered'
  BY <1>2, PublishStarts
<1>3. ASSUME NEW s \in Servers, Find(s) PROVE PublishInv' /\ Delivered'
  BY <1>3, FindStep
<1>4. ASSUME NEW s \in Servers, Bulk(s) PROVE PublishInv' /\ Delivered'
  BY <1>4, BulkStep
<1>5. ASSUME NEW s \in Servers, NEW u \in Users, SlowInsert(s, u) PROVE PublishInv' /\ Delivered'
  BY <1>5, PassStep, InsertStep
<1>6. ASSUME NEW s \in Servers, SlowPush(s) PROVE PublishInv' /\ Delivered'
  BY <1>6, PushStep
<1>7. ASSUME NEW s \in Servers, SlowEnd(s) PROVE PublishInv' /\ Delivered'
  BY <1>7, EndStep
<1>8. ASSUME NEW s \in Servers, UNCHANGED posting, job'[s].at \in {"rest", "comment", "answer"},
             \A r \in Servers \ {s} : job'[r] = job[r]
      PROVE  PublishInv' /\ Delivered'
  <2>1. \A r \in Servers : Working(r)' => job'[r] = job[r]
    BY <1>8 DEF Working
  <2>2. QED
    BY <1>8, <2>1, QuietStep DEF posting
<1>9. ASSUME NEW s \in Servers, Answer(s) PROVE PublishInv' /\ Delivered'
  BY <1>8, <1>9, RestIsJob DEF Answer, TypeOK
<1>10. ASSUME NEW s \in Servers, NEW f \in Feeds, Ask(s, f) PROVE PublishInv' /\ Delivered'
  <2>1. PICK p \in Posted : job' = [job EXCEPT ![s] = [Rest EXCEPT !.at = "comment", !.feed = f, !.p = p]]
    BY <1>10 DEF Ask
  <2>2. job'[s].at = "comment" /\ \A r \in Servers \ {s} : job'[r] = job[r]
    BY <2>1 DEF TypeOK, Rest
  <2>3. QED
    BY <1>8, <1>10, <2>2 DEF Ask
<1>11. ASSUME NEW s \in Servers, NEW f \in Feeds, Like(s, f) PROVE PublishInv' /\ Delivered'
  <2>1. job'[s].at = "answer" /\ \A r \in Servers \ {s} : job'[r] = job[r]
    BY <1>11 DEF Like, TypeOK, Rest
  <2>2. QED
    BY <1>8, <1>11, <2>1 DEF Like
<1>12. ASSUME NEW s \in Servers, Comment(s) PROVE PublishInv' /\ Delivered'
  <2>1. job'[s].at = "answer" /\ \A r \in Servers \ {s} : job'[r] = job[r]
    BY <1>12, CommentStep
  <2>2. QED
    BY <1>8, <1>12, <2>1 DEF Comment
<1>13. CASE UNCHANGED vars
  BY <1>13, QuietStep DEF vars, lists
<1>14. QED
  BY <1>1, <1>2, <1>3, <1>4, <1>5, <1>6, <1>7, <1>9, <1>10, <1>11, <1>12, <1>13 DEF Next

\* No list has a feed twice; when New has returned, every user it found has a list, with
\* the feed in it but for those whose list another server made meanwhile.
THEOREM FeedsDelivered == Spec => []Delivered
<1>1. Init => PublishInv /\ Delivered
  <2> SUFFICES ASSUME Init PROVE PublishInv /\ Delivered
    OBVIOUS
  <2>1. \A f \in Feeds, u \in Users : Times(f, u) = 0
    BY CountEmpty DEF Init, Times, Count
  <2>2. QED
    BY <2>1, RestIsJob DEF Init, PublishInv, Delivered, Untouched, Working
<1>2. TypeOK /\ JobInv /\ PublishInv /\ Delivered /\ [Next]_vars => (PublishInv /\ Delivered)'
  BY PublishNext
<1>3. QED
  BY <1>1, <1>2, AlwaysTypes, PTL DEF Spec
==============================================================================
