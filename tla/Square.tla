------------------------------- MODULE Square -------------------------------
(***************************************************************************)
(* Feeds and comments of the square (tags/square/feed.py, list2tree.py):   *)
(* server processes (main.py takes the port and the database as options)   *)
(* that publish feeds to the lists of their readers and add comments, one  *)
(* database statement after the other.  MongoDB is external: a statement   *)
(* is one step.  All feeds are published at one place; focus[u] is how     *)
(* many focuses of u are in range of it.                                   *)
(***************************************************************************)
EXTENDS Integers, Sequences, FiniteSets

CONSTANTS Servers, Users, Feeds, NoOne,
          MaxFocus,   \* bound: focuses of a user in range
          MaxComments \* bound: comments

ASSUME SquareAssumption ==
    /\ NoOne \notin Users \cup Feeds
    /\ MaxFocus \in Nat \ {0} /\ MaxComments \in Nat

VARIABLES
    focus,     \* db.focus: the number of focuses of a user in range
    posts,     \* db.feed: the feeds that are stored
    has,       \* db.feedlist: the users that have a list
    fids,      \* fids[u]: the feeds in the list of u, in order
    comments,  \* comments[f] of db.feed
    job,       \* what each server is doing
    pushed,    \* the number of comments so far
    audience,  \* history: the users New found in range
    overlap,   \* history: of them, those whose list another New made meanwhile
    done       \* history: the feeds whose New returned

vars == <<focus, posts, has, fids, comments, job, pushed, audience, overlap, done>>
lists == <<has, fids, overlap>>
posting == <<focus, posts, lists, audience, done>>

\* 'p' as the handlers store it: None leaves it out; anything else is the string that
\* get_argument returned, never equal to the number -1 (feed.py:53).  The page always
\* sends '-1'; another string may hold an index.
Posted == {"none", "-1", "string"}

\* uids is a bag: find returns a user once for every focus.
Rest == [at |-> "rest", feed |-> NoOne, uids |-> [u \in Users |-> 0], cur |-> NoOne,
         p |-> "none", mine |-> 0]

Is(s, at) == job[s].at = at
Go(s, at) == job' = [job EXCEPT ![s].at = at]

------------------------------------------------------------------------------
(* Feed.New, called by JsonHandler                                           *)

\* A user follows the place: User.AddFocus.
AddFocus(u) ==
    /\ focus[u] < MaxFocus
    /\ focus' = [focus EXCEPT ![u] = @ + 1]
    /\ UNCHANGED <<posts, lists, comments, job, pushed, audience, done>>

\* JsonHandler publishes for a user who follows the place.  (PublishHandler fails before
\* New: it reads user.center, which no user has, feed.py:86.)
Publish(s, f) ==
    /\ Is(s, "rest") /\ f \notin posts
    /\ \E u \in Users : focus[u] > 0
    /\ posts' = posts \cup {f}
    /\ job' = [job EXCEPT ![s] = [Rest EXCEPT !.at = "find", !.feed = f]]
    /\ UNCHANGED <<focus, lists, comments, pushed, audience, done>>

Find(s) ==
    /\ Is(s, "find")
    /\ job' = [job EXCEPT ![s].at = "bulk", ![s].uids = focus]
    /\ audience' = [audience EXCEPT ![job[s].feed] = {u \in Users : focus[u] > 0}]
    /\ UNCHANGED <<focus, posts, lists, comments, pushed, done>>

\* Mutant of AllUpdated: that something was updated is enough.
SomeUpdated(uids) == \E u \in Users : uids[u] > 0 /\ u \in has

\* updatedExisting, and n is len(uids): every user once, and every one with a list.
AllUpdated(uids) ==
    /\ \E u \in Users : uids[u] > 0
    /\ \A u \in Users : uids[u] > 0 => uids[u] = 1 /\ u \in has

\* New returns; JsonHandler answers with the feed.
Return(s) ==
    /\ done' = done \cup {job[s].feed}
    /\ job' = [job EXCEPT ![s] = Rest]

\* Mutant of Bulk: into every list, without a look whether it is there.
BulkBlind(s) ==
    LET f == job[s].feed  uids == job[s].uids IN
    /\ Is(s, "bulk")
    /\ fids' = [u \in Users |-> IF uids[u] > 0 THEN Append(fids[u], f) ELSE fids[u]]
    /\ IF AllUpdated(uids)
       THEN Return(s)
       ELSE Go(s, "slow") /\ UNCHANGED done
    /\ UNCHANGED <<focus, posts, has, overlap, comments, pushed, audience>>

\* The update with multi=True: into the lists that are there.
Bulk(s) ==
    LET f == job[s].feed  uids == job[s].uids IN
    /\ Is(s, "bulk")
    /\ fids' = [u \in Users |-> IF uids[u] > 0 /\ u \in has THEN Append(fids[u], f) ELSE fids[u]]
    /\ IF AllUpdated(uids)
       THEN Return(s)
       ELSE Go(s, "slow") /\ UNCHANGED done
    /\ UNCHANGED <<focus, posts, has, overlap, comments, pushed, audience>>

\* One user of the loop: a new empty list, or DuplicateKeyError and on to the next.
SlowInsert(s, u) ==
    LET f == job[s].feed IN
    /\ Is(s, "slow") /\ job[s].uids[u] > 0
    /\ \/ /\ u \in has
          /\ job' = [job EXCEPT ![s].uids[u] = @ - 1]
          /\ UNCHANGED <<has, overlap>>
       \/ /\ u \notin has
          /\ has' = has \cup {u}
          /\ job' = [job EXCEPT ![s].at = "push", ![s].cur = u]
          /\ overlap' = [g \in Feeds |->
                IF \E r \in Servers \ {s} : job[r].feed = g /\ job[r].at \in {"slow", "push"}
                                            /\ job[r].uids[u] > 0
                THEN overlap[g] \cup {u} ELSE overlap[g]]
    /\ UNCHANGED <<focus, posts, fids, comments, pushed, audience, done>>

SlowPush(s) ==
    LET u == job[s].cur IN
    /\ Is(s, "push")
    /\ fids' = [fids EXCEPT ![u] = Append(@, job[s].feed)]
    /\ job' = [job EXCEPT ![s].at = "slow", ![s].uids[u] = @ - 1, ![s].cur = NoOne]
    /\ UNCHANGED <<focus, posts, has, overlap, comments, pushed, audience, done>>

SlowEnd(s) ==
    /\ Is(s, "slow") /\ \A u \in Users : job[s].uids[u] = 0
    /\ Return(s)
    /\ UNCHANGED <<focus, posts, lists, comments, pushed, audience>>

------------------------------------------------------------------------------
(* Comments                                                                  *)

\* A comment is asked for, on the feed or with a parent.
Ask(s, f) ==
    /\ Is(s, "rest") /\ f \in posts
    /\ \E p \in Posted :
        job' = [job EXCEPT ![s] = [Rest EXCEPT !.at = "comment", !.feed = f, !.p = p]]
    /\ UNCHANGED <<posting, comments, pushed>>

\* 'like', and any other action, changes nothing.
Like(s, f) ==
    /\ Is(s, "rest") /\ f \in posts
    /\ job' = [job EXCEPT ![s] = [Rest EXCEPT !.at = "answer", !.feed = f]]
    /\ UNCHANGED <<posting, comments, pushed>>

NewComment(s) == [by |-> s, id |-> pushed + 1, p |-> job[s].p]

\* Mutant of Comment: the newest comment comes first.
CommentFirst(s) ==
    LET f == job[s].feed IN
    /\ Is(s, "comment") /\ pushed < MaxComments
    /\ comments' = [comments EXCEPT ![f] = <<NewComment(s)>> \o @]
    /\ pushed' = pushed + 1
    /\ job' = [job EXCEPT ![s].at = "answer", ![s].mine = pushed + 1]
    /\ UNCHANGED posting

\* Feed.Comment: the $push.
Comment(s) ==
    LET f == job[s].feed IN
    /\ Is(s, "comment") /\ pushed < MaxComments
    /\ comments' = [comments EXCEPT ![f] = Append(@, NewComment(s))]
    /\ pushed' = pushed + 1
    /\ job' = [job EXCEPT ![s].at = "answer", ![s].mine = pushed + 1]
    /\ UNCHANGED posting

\* The handler reads the feed and shows its last comment; a feed without comments
\* it fails on.
Answer(s) ==
    /\ Is(s, "answer")
    /\ job' = [job EXCEPT ![s] = Rest]
    /\ UNCHANGED <<posting, comments, pushed>>

------------------------------------------------------------------------------
(* BuildTree, of an array c of comments.  Where p is "int", as only tests    *)
(* pass it, n is the index of the parent.                                    *)

FirstLevel(c, i) == c[i].p \in {"none", "-1"}

\* len(tree) when the loop comes to comment i
Roots(c, i) == Cardinality({j \in 1..(i - 1) : FirstLevel(c, j)})

\* Appended to the children of its parent: a string is no int, and is passed over.
Child(c, i) == c[i].p = "int" /\ Roots(c, i) >= c[i].n

\* arr[a['p']]
Parent(c, i) == c[i].n + 1

\* What DumpTree, or a page, reaches from the roots; not a child of itself.
Shown(c) ==
    LET shown[i \in DOMAIN c] ==
            \/ FirstLevel(c, i)
            \/ Child(c, i) /\ Parent(c, i) < i /\ shown[Parent(c, i)]
    IN  {i \in DOMAIN c : shown[i]}

------------------------------------------------------------------------------
Init ==
    /\ focus \in [Users -> 0..1]
    /\ posts = {} /\ has = {} /\ done = {}
    /\ fids = [u \in Users |-> <<>>]
    /\ comments = [f \in Feeds |-> <<>>]
    /\ job = [s \in Servers |-> Rest]
    /\ pushed = 0
    /\ audience = [f \in Feeds |-> {}]
    /\ overlap = [f \in Feeds |-> {}]

Next ==
    \/ \E u \in Users : AddFocus(u)
    \/ \E s \in Servers :
        \/ Find(s)
        \/ Bulk(s)
        \/ \E u \in Users : SlowInsert(s, u)
        \/ SlowPush(s)
        \/ SlowEnd(s)
        \/ \E f \in Feeds : Publish(s, f) \/ Ask(s, f) \/ Like(s, f)
        \/ Comment(s)
        \/ Answer(s)

Spec == Init /\ [][Next]_vars

------------------------------------------------------------------------------
(* Properties                                                                *)

Jobs == [at : {"rest", "find", "bulk", "slow", "push", "comment", "answer"},
         feed : Feeds \cup {NoOne}, uids : [Users -> 0..MaxFocus], cur : Users \cup {NoOne},
         p : Posted, mine : Nat]

\* The variables keep their types; only users with a list have feeds in it.
TypeOK ==
    /\ focus \in [Users -> 0..MaxFocus]
    /\ posts \subseteq Feeds /\ has \subseteq Users /\ done \subseteq posts
    /\ fids \in [Users -> Seq(posts)]
    /\ \A u \in Users \ has : fids[u] = <<>>
    /\ comments \in [Feeds -> Seq([by : Servers, id : 1..pushed, p : Posted])]
    /\ job \in [Servers -> Jobs]
    /\ pushed \in 0..MaxComments
    /\ audience \in [Feeds -> SUBSET Users] /\ overlap \in [Feeds -> SUBSET Users]

Times(f, u) == Cardinality({i \in DOMAIN fids[u] : fids[u][i] = f})

\* No list has a feed twice.  When New has returned every user it found has a list
\* with the feed in it, except just those whose list another server made between
\* its update of all lists and its own attempt: New passes them over (feed.py:206).
Delivered ==
    /\ \A f \in Feeds, u \in Users : Times(f, u) <= 1
    /\ \A f \in done : \A u \in audience[f] :
        u \in has /\ (Times(f, u) = 0 <=> u \in overlap[f])

\* When a handler reads the feed to show the comment it has just added, that comment
\* is there, and only another server can have added one after it (feed.py:60).
OwnCommentShown ==
    \A s \in Servers : Is(s, "answer") /\ job[s].mine # 0 =>
        LET c == comments[job[s].feed] IN
        \E i \in DOMAIN c : c[i].id = job[s].mine /\ \A j \in i + 1..Len(c) : c[j].by # s
==============================================================================
