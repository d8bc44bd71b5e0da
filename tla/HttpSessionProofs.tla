-------------------------- MODULE HttpSessionProofs --------------------------
(***************************************************************************)
(* Where the tasks of a session are and who may use what, for any number   *)
(* of tasks.                                                               *)
(***************************************************************************)
EXTENDS HttpSession, SequenceTheorems, TLAPS

------------------------------------------------------------------------------
(* Queues                                                                    *)

Has(q, m)       == \E i \in DOMAIN q : q[i] = m
Once(q, m)      == \A i, j \in DOMAIN q : q[i] = m /\ q[j] = m => i = j
Before(q, m, n) == \A i, j \in DOMAIN q : q[i] = m /\ q[j] = n => i < j

LEMMA AppendFacts ==
    ASSUME NEW M, NEW q \in Seq(M), NEW x \in M
    PROVE  /\ Append(q, x) \in Seq(M)
           /\ \A m : Has(Append(q, x), m) <=> Has(q, m) \/ m = x
           /\ \A m : Once(q, m) /\ (m = x => ~Has(q, m)) => Once(Append(q, x), m)
           /\ \A m, n : Before(q, m, n) /\ m # n /\ (m = x => ~Has(q, n)) => Before(Append(q, x), m, n)
<1>1. /\ Append(q, x) \in Seq(M) /\ Len(Append(q, x)) = Len(q) + 1 /\ Len(q) \in Nat
      /\ DOMAIN q = 1..Len(q) /\ DOMAIN Append(q, x) = 1..Len(q) + 1
  OBVIOUS
<1>2. (\A i \in 1..Len(q) : Append(q, x)[i] = q[i]) /\ Append(q, x)[Len(q) + 1] = x
  OBVIOUS
<1> HIDE DEF Has
<1> DEFINE a == Append(q, x)
<1>3. DOMAIN a = 1..Len(q) + 1 /\ (\A i \in 1..Len(q) : a[i] = q[i]) /\ a[Len(q) + 1] = x
  BY <1>1, <1>2
<1> HIDE DEF a
<1>4. \A m : Has(a, m) <=> Has(q, m) \/ m = x
  BY <1>1, <1>3 DEF Has
<1>5. \A m : Once(q, m) /\ (m = x => ~Has(q, m)) => Once(a, m)
  BY <1>1, <1>3 DEF Has, Once
<1>6. \A m, n : Before(q, m, n) /\ m # n /\ (m = x => ~Has(q, n)) => Before(a, m, n)
  BY <1>1, <1>3 DEF Has, Before
<1>7. QED
  BY <1>1, <1>4, <1>5, <1>6 DEF a

LEMMA TailFacts ==
    ASSUME NEW M, NEW q \in Seq(M), q # <<>>
    PROVE  /\ Tail(q) \in Seq(M) /\ Head(q) \in M
           /\ \A m : Has(q, m) <=> Has(Tail(q), m) \/ m = Head(q)
           /\ \A m : Once(q, m) => Once(Tail(q), m) /\ (m = Head(q) => ~Has(Tail(q), m))
           /\ \A m, n : Before(q, m, n) => Before(Tail(q), m, n) /\ (n = Head(q) => ~Has(q, m))
<1> DEFINE a == Tail(q)
           x == Head(q)
<1>1. /\ a \in Seq(M) /\ x \in M /\ Len(a) = Len(q) - 1 /\ Len(q) \in Nat \ {0}
      /\ DOMAIN q = 1..Len(q) /\ DOMAIN a = 1..Len(q) - 1
  OBVIOUS
<1>2. (\A i \in 1..Len(q) - 1 : a[i] = q[i + 1]) /\ x = q[1]
  OBVIOUS
<1> HIDE DEF a, x
<1>3. \A i \in DOMAIN q : i = 1 \/ (i - 1 \in DOMAIN a /\ q[i] = a[i - 1])
  BY <1>1, <1>2
<1>4. \A i \in DOMAIN a : i + 1 \in DOMAIN q /\ q[i + 1] = a[i]
  BY <1>1, <1>2
<1>5. \A m : Has(q, m) <=> Has(a, m) \/ m = x
  <2> SUFFICES ASSUME NEW m PROVE Has(q, m) <=> Has(a, m) \/ m = x
    OBVIOUS
  <2>1. ASSUME Has(q, m) PROVE Has(a, m) \/ m = x
    BY <2>1, <1>2, <1>3 DEF Has
  <2>2. ASSUME Has(a, m) PROVE Has(q, m)
    BY <2>2, <1>4 DEF Has
  <2>3. ASSUME m = x PROVE Has(q, m)
    BY <2>3, <1>1, <1>2 DEF Has
  <2>4. QED
    BY <2>1, <2>2, <2>3
<1>6. ASSUME NEW m, Once(q, m) PROVE Once(a, m) /\ (m = x => ~Has(a, m))
  <2>1. ASSUME NEW i \in DOMAIN a, NEW j \in DOMAIN a, a[i] = m, a[j] = m PROVE i = j
    <3>1. i + 1 = j + 1
      BY <1>4, <1>6, <2>1 DEF Once
    <3>2. QED
      BY <3>1, <1>1
  <2>2. ASSUME m = x, NEW i \in DOMAIN a, a[i] = m PROVE FALSE
    <3>1. i + 1 = 1
      BY <1>1, <1>2, <1>4, <1>6, <2>2 DEF Once
    <3>2. QED
      BY <3>1, <1>1
  <2>3. QED
    BY <2>1, <2>2 DEF Once, Has
<1>7. ASSUME NEW m, NEW n, Before(q, m, n) PROVE Before(a, m, n) /\ (n = x => ~Has(q, m))
  <2>1. ASSUME NEW i \in DOMAIN a, NEW j \in DOMAIN a, a[i] = m, a[j] = n PROVE i < j
    <3>1. i + 1 < j + 1
      BY <1>4, <1>7, <2>1 DEF Before
    <3>2. QED
      BY <3>1, <1>1
  <2>2. ASSUME n = x, NEW i \in DOMAIN q, q[i] = m PROVE FALSE
    <3>1. i < 1
      BY <1>1, <1>2, <1>7, <2>2 DEF Before
    <3>2. QED
      BY <3>1, <1>1
  <2>3. QED
    BY <2>1, <2>2 DEF Before, Has
<1>8. QED
  BY <1>1, <1>5, <1>6, <1>7 DEF a, x

------------------------------------------------------------------------------
(* The inductive invariant                                                   *)

Messages == [id : {"START", "DELETE"}, task : started]
S(t) == Msg("START", t)
D(t) == Msg("DELETE", t)

\* A task is started once and before it is deleted; it is in tasks_ while it runs;
\* whoever posts DELETE has either seen it end or owns it; and only a connection
\* that was kept makes the session post DELETE twice.
TaskInv(q, t) ==
    /\ Once(q, S(t)) /\ Before(q, S(t), D(t))
    /\ t \in tasks <=> client[t] = "running"
    /\ client[t] = "kept" => t \in complete
    /\ t \in tasks => ~Ended(t)
    /\ Has(q, S(t)) => t \notin tasks /\ ~Ended(t)
    /\ Has(q, D(t)) => IF manage THEN Ended(t) ELSE t \in released
    /\ (manage /\ late # {}) \/ Once(q, D(t))

GoneInv(q, t) ==
    t \in deleted =>
        /\ Ended(t)
        /\ manage \/ t \in released
        /\ (manage /\ late # {}) \/ ~Has(q, D(t))

PlaceInv ==
    app.at # "gone" =>
        \A t \in started : Has(queue, S(t)) \/ t \in tasks \/ Ended(t)

AppInv ==
    /\ app.task # Null => app.task \in started \ released
    /\ app.at \in {"cancel", "cancelled"} => ~manage
    /\ ~overtaken /\ app.at \in {"quit", "pool", "thread"} => \A t \in Tasks : ~Has(queue, S(t))
    /\ ~overtaken /\ app.at \in {"pool", "thread", "gone"} => tasks = {}

SessionInv ==
    /\ TypeOK
    /\ \A t \in Tasks : TaskInv(queue, t)
    /\ \A t \in Tasks : GoneInv(queue, t)
    /\ PlaceInv
    /\ AppInv
    /\ SafeUse

LEMMA MsgFacts ==
    /\ \A t, u : (S(t) = S(u) => t = u) /\ (D(t) = D(u) => t = u) /\ S(t) # D(u)
    /\ \A t \in started : S(t) \in Messages /\ D(t) \in Messages
    /\ \A m \in Messages : /\ m.task \in started
                           /\ m.id = "START" => m = S(m.task)
                           /\ m.id = "DELETE" => m = D(m.task)
BY DEF S, D, Msg, Messages

\* What is posted when a task is finished.
LEMMA FinishFacts ==
    ASSUME NEW t \in started, NEW q \in Seq(Messages), Finish(t, q)
    PROVE  /\ tasks' = tasks \ {t} /\ queue' \in Seq(Messages)
           /\ \A m : Has(queue', m) <=> Has(q, m) \/ (manage /\ m = D(t))
           /\ \A u : Once(q, S(u)) => Once(queue', S(u))
           /\ \A u : Before(q, S(u), D(u)) => Before(queue', S(u), D(u))
           /\ \A u : Once(q, D(u)) /\ (manage /\ u = t => ~Has(q, D(t))) => Once(queue', D(u))
<1> DEFINE M == Messages
           x == D(t)
<1>1. CASE manage
  <2>1. queue' = Append(q, x) /\ tasks' = tasks \ {t}
    BY <1>1 DEF Finish, D
  <2>2. x \in M /\ q \in Seq(M)
    BY MsgFacts
  <2> HIDE DEF M, x
  <2>3. /\ Append(q, x) \in Seq(M)
        /\ \A m : Has(Append(q, x), m) <=> Has(q, m) \/ m = x
        /\ \A m : Once(q, m) /\ (m = x => ~Has(q, m)) => Once(Append(q, x), m)
        /\ \A m, n : Before(q, m, n) /\ m # n /\ (m = x => ~Has(q, n)) => Before(Append(q, x), m, n)
    BY <2>2, AppendFacts
  <2>4. \A u : S(u) # x /\ S(u) # D(u) /\ (D(u) = x => u = t)
    BY MsgFacts DEF x
  <2>5. QED
    BY <1>1, <2>1, <2>3, <2>4 DEF M, x
<1>2. CASE ~manage
  BY <1>2 DEF Finish
<1>3. QED
  BY <1>1, <1>2

\* A request that ends, with q in the queue, keeps what is known of every task.
LEMMA EndKeeps ==
    ASSUME TypeOK, NEW t \in started, NEW q \in Seq(Messages),
           \A u \in Tasks : TaskInv(q, u), ~Has(q, S(t)), ~Ended(t), End(t, q),
           UNCHANGED <<manage, started, closed, late, released>>
    PROVE  /\ tasks' = tasks \ {t} /\ complete' = complete \cup {t}
           /\ client' \in [Tasks -> {"idle", "running", "kept"}]
           /\ queue' \in Seq(Messages)
           /\ \A m : Has(queue', m) <=> Has(q, m) \/ (manage /\ m = D(t))
           /\ \A u \in Tasks : TaskInv(queue, u)'
<1>1. /\ tasks' = tasks \ {t} /\ queue' \in Seq(Messages)
      /\ \A m : Has(queue', m) <=> Has(q, m) \/ (manage /\ m = D(t))
      /\ \A u : Once(q, S(u)) => Once(queue', S(u))
      /\ \A u : Before(q, S(u), D(u)) => Before(queue', S(u), D(u))
      /\ \A u : Once(q, D(u)) /\ (manage /\ u = t => ~Has(q, D(t))) => Once(queue', D(u))
  BY FinishFacts DEF End
<1>2. /\ complete' = complete \cup {t} /\ t \in Tasks
      /\ client' \in [Tasks -> {"idle", "running", "kept"}]
      /\ client'[t] \in {"idle", "kept"}
      /\ \A u \in Tasks \ {t} : client'[u] = client[u]
  BY DEF End, TypeOK
<1>3. \A u \in Tasks : TaskInv(queue, u)'
  <2> SUFFICES ASSUME NEW u \in Tasks PROVE TaskInv(queue, u)'
    OBVIOUS
  <2>1. TaskInv(q, u) /\ TaskInv(q, t)
    BY <1>2
  <2>2. Once(queue', S(u)) /\ Before(queue', S(u), D(u))
    BY <1>1, <2>1 DEF TaskInv
  <2>3. (Has(queue', S(u)) <=> Has(q, S(u))) /\ (u # t => (Has(queue', D(u)) <=> Has(q, D(u))))
    BY <1>1, MsgFacts
  <2>4. Ended(u)' <=> Ended(u) \/ u = t
    BY <1>2 DEF Ended
  <2>5. (manage /\ late # {})' \/ Once(queue', D(u))
    BY <1>1, <2>1 DEF TaskInv
  <2>6. CASE u = t
    BY <1>1, <1>2, <2>1, <2>2, <2>3, <2>4, <2>5, <2>6 DEF TaskInv
  <2>7. CASE u # t
    BY <1>1, <1>2, <2>1, <2>2, <2>3, <2>4, <2>5, <2>7 DEF TaskInv
  <2>8. QED
    BY <2>6, <2>7
<1>4. QED
  BY <1>1, <1>2, <1>3

\* reset() leaves the task ended or still to be started, and loses no other.
LEMMA ResetKeeps ==
    ASSUME TypeOK, NEW t \in started, NEW q \in Seq(Messages),
           \A u \in Tasks : TaskInv(q, u), Reset(t, q),
           UNCHANGED <<manage, started, closed, late, released>>
    PROVE  /\ tasks' = tasks \ {t} /\ complete \subseteq complete' /\ complete' \subseteq started
           /\ client' \in [Tasks -> {"idle", "running", "kept"}]
           /\ queue' \in Seq(Messages)
           /\ t \in tasks => t \in complete'
           /\ \A u : Has(queue', S(u)) <=> Has(q, S(u))
           /\ \A u : Has(queue', D(u)) => Has(q, D(u)) \/ (manage /\ u = t /\ ~Ended(t))
           /\ \A u \in Tasks : TaskInv(queue, u)'
<1>1. t \in Tasks /\ TaskInv(q, t)
  BY DEF TypeOK
<1>2. CASE client[t] = "running"
  <2>1. End(t, q) /\ ~Ended(t) /\ ~Has(q, S(t))
    BY <1>1, <1>2 DEF Reset, TaskInv
  <2>2. /\ tasks' = tasks \ {t} /\ complete' = complete \cup {t}
        /\ client' \in [Tasks -> {"idle", "running", "kept"}]
        /\ queue' \in Seq(Messages)
        /\ \A m : Has(queue', m) <=> Has(q, m) \/ (manage /\ m = D(t))
        /\ \A u \in Tasks : TaskInv(queue, u)'
    BY <2>1, EndKeeps
  <2>3. complete' \subseteq started
    BY <2>2 DEF TypeOK
  <2>4. QED
    BY <2>1, <2>2, <2>3, MsgFacts
<1>3. CASE client[t] # "running"
  <2>1. UNCHANGED <<tasks, client, complete>> /\ queue' = q
    BY <1>3 DEF Reset
  <2>2. \A u \in Tasks : TaskInv(queue, u)'
    BY <2>1 DEF TaskInv, Ended
  <2>3. t \notin tasks
    BY <1>1, <1>3 DEF TaskInv
  <2>4. QED
    BY <2>1, <2>2, <2>3 DEF TypeOK
<1>4. QED
  BY <1>2, <1>3

\* An access to what was freed is one of those SafeUse allows.
LEMMA FaultKeeps ==
    ASSUME SessionInv, NEW what \in {"freed task", "freed pool"}, Fault(what),
           what = "freed task" => manage /\ (app.at = "stop" \/ late # {}),
           what = "freed pool" => overtaken
    PROVE  SessionInv'
BY DEF SessionInv, Fault, taskVars, history, TypeOK, TaskInv, GoneInv, PlaceInv, AppInv,
       SafeUse, Ended

\* The front of the queue.
LEMMA HeadFacts ==
    ASSUME SessionInv, queue # <<>>
    PROVE  LET t == Head(queue).task  q == Tail(queue) IN
           /\ t \in started /\ t \in Tasks /\ q \in Seq(Messages)
           /\ \A u \in Tasks : TaskInv(q, u)
           /\ \A m : Has(queue, m) <=> Has(q, m) \/ m = Head(queue)
           /\ Head(queue).id = "START" => Head(queue) = S(t) /\ ~Has(q, S(t))
           /\ Head(queue).id = "DELETE" =>
                  /\ Head(queue) = D(t) /\ ~Has(queue, S(t))
                  /\ (manage /\ late # {}) \/ ~Has(q, D(t))
<1> DEFINE t == Head(queue).task
           q == Tail(queue)
           M == Messages
<1>1. queue \in Seq(M) /\ started \subseteq Tasks
  BY DEF SessionInv, TypeOK, Messages
<1> HIDE DEF M
<1>2. /\ q \in Seq(M) /\ Head(queue) \in M
      /\ \A m : Has(queue, m) <=> Has(q, m) \/ m = Head(queue)
      /\ \A m : Once(queue, m) => Once(q, m) /\ (m = Head(queue) => ~Has(q, m))
      /\ \A m, n : Before(queue, m, n) => Before(q, m, n) /\ (n = Head(queue) => ~Has(queue, m))
  BY <1>1, TailFacts
<1>3. /\ t \in started /\ t \in Tasks
      /\ Head(queue).id = "START" => Head(queue) = S(t)
      /\ Head(queue).id = "DELETE" => Head(queue) = D(t)
  BY <1>1, <1>2, MsgFacts DEF M
<1> HIDE DEF t, q
<1>4. \A u \in Tasks : TaskInv(queue, u)
  BY DEF SessionInv
<1>5. \A u \in Tasks : TaskInv(q, u)
  BY <1>2, <1>4 DEF TaskInv
<1>6. Head(queue).id = "START" => ~Has(q, S(t))
  BY <1>2, <1>3, <1>4 DEF TaskInv
<1>7. Head(queue).id = "DELETE" => ~Has(queue, S(t)) /\ ((manage /\ late # {}) \/ ~Has(q, D(t)))
  BY <1>2, <1>3, <1>4 DEF TaskInv
<1>8. QED
  BY <1>1, <1>2, <1>3, <1>5, <1>6, <1>7 DEF t, q, M

------------------------------------------------------------------------------
(* The application                                                           *)

\* A message is appended and nothing happens to the tasks.
LEMMA StartTaskKeeps ==
    ASSUME SessionInv, NEW t \in Tasks, StartTask(t)
    PROVE  SessionInv'
<1> DEFINE M == Messages'
<1>1. /\ started' = started \cup {t} /\ queue' = Append(queue, S(t)) /\ t \notin started
      /\ app = Idle /\ fault = "none"
      /\ UNCHANGED <<manage, app, tasks, client, complete, deleted, pool, history, fault>>
  BY DEF StartTask, AppReady, S
<1>2. TypeOK /\ queue \in Seq(Messages)
  BY DEF SessionInv, TypeOK, Messages
<1>3. Messages \subseteq M /\ S(t) \in M
  BY <1>1, MsgFacts DEF Messages, S, Msg
<1>4. queue \in Seq(M)
  BY <1>2, <1>3, SeqMonotonic
<1> HIDE DEF M
<1>5. /\ queue' \in Seq(M)
      /\ \A m : Has(queue', m) <=> Has(queue, m) \/ m = S(t)
      /\ \A m : Once(queue, m) /\ (m = S(t) => ~Has(queue, m)) => Once(queue', m)
      /\ \A m, n : Before(queue, m, n) /\ m # n /\ (m = S(t) => ~Has(queue, n)) => Before(queue', m, n)
  BY <1>1, <1>3, <1>4, AppendFacts
<1>6. ~Has(queue, S(t)) /\ ~Has(queue, D(t))
  <2>1. \A i \in DOMAIN queue : queue[i] \in Messages
    BY <1>2
  <2>2. QED
    BY <2>1, <1>1 DEF Has, Messages, S, D, Msg
<1>7. TypeOK'
  <2>1. queue' \in Seq([id : {"START", "DELETE"}, task : started'])
    BY <1>5 DEF M, Messages
  <2>2. QED
    BY <2>1, <1>1, <1>2 DEF TypeOK, Idle, At, history
<1>8. ASSUME NEW u \in Tasks PROVE TaskInv(queue, u)' /\ GoneInv(queue, u)'
  <2>1. TaskInv(queue, u) /\ GoneInv(queue, u)
    BY DEF SessionInv
  <2>2. /\ Has(queue', D(u)) <=> Has(queue, D(u))
        /\ Has(queue', S(u)) => Has(queue, S(u)) \/ u = t
    BY <1>5, MsgFacts
  <2>3. Once(queue', S(u)) /\ Before(queue', S(u), D(u)) /\ (Once(queue, D(u)) => Once(queue', D(u)))
    BY <1>5, <1>6, <2>1, MsgFacts DEF TaskInv
  <2>4. Ended(u)' <=> Ended(u)
    BY <1>1 DEF Ended, history
  <2>5. t \notin tasks /\ ~Ended(t)
    BY <1>1, <1>2 DEF TypeOK, Ended
  <2>6. UNCHANGED <<manage, tasks, client, complete, deleted, late, released>>
    BY <1>1 DEF history
  <2>7. QED
    BY <2>1, <2>2, <2>3, <2>4, <2>5, <2>6 DEF TaskInv, GoneInv
<1>9. PlaceInv'
  BY <1>1, <1>5 DEF SessionInv, PlaceInv, Ended, history
<1>10. AppInv' /\ SafeUse'
  BY <1>1 DEF SessionInv, AppInv, SafeUse, Idle, At, history
<1>11. QED
  BY <1>7, <1>8, <1>9, <1>10 DEF SessionInv

\* DELETE is posted for a task whose release has not posted it yet.
LEMMA PostDeleteKeeps ==
    ASSUME SessionInv, NEW t \in started \ released, ~manage, fault = "none",
           PostDelete(t), app' = Idle, app.at \in {"idle", "cancelled"},
           UNCHANGED <<manage, started, deleted, pool, fault>>
    PROVE  SessionInv'
<1> DEFINE M == Messages
<1>1. TypeOK /\ queue \in Seq(M) /\ D(t) \in M
  BY MsgFacts DEF SessionInv, TypeOK, Messages
<1>2. /\ queue' = Append(queue, D(t)) /\ released' = released \cup {t}
      /\ UNCHANGED <<tasks, client, complete, closed, late, overtaken>>
  BY DEF PostDelete, D
<1> HIDE DEF M
<1>3. /\ queue' \in Seq(M)
      /\ \A m : Has(queue', m) <=> Has(queue, m) \/ m = D(t)
      /\ \A m : Once(queue, m) /\ (m = D(t) => ~Has(queue, m)) => Once(queue', m)
      /\ \A m, n : Before(queue, m, n) /\ m # n /\ (m = D(t) => ~Has(queue, n)) => Before(queue', m, n)
  BY <1>1, <1>2, AppendFacts
<1>4. /\ queue' \in Seq([id : {"START", "DELETE"}, task : started'])
      /\ app' \in [at : {"idle", "stop", "cancel", "cancelled", "quit", "pool", "thread", "gone"},
                   task : Tasks \cup {Null}]
  BY <1>3 DEF M, Messages, Idle, At
<1>5. TypeOK'
  BY <1>1, <1>2, <1>4 DEF TypeOK, Idle, At
<1>6. ASSUME NEW u \in Tasks PROVE TaskInv(queue, u)' /\ GoneInv(queue, u)'
  <2>1. TaskInv(queue, u) /\ GoneInv(queue, u)
    BY DEF SessionInv
  <2>2. /\ Has(queue', D(u)) <=> Has(queue, D(u)) \/ u = t
        /\ Has(queue', S(u)) <=> Has(queue, S(u))
    BY <1>3, MsgFacts
  <2>3. u = t => ~Has(queue, D(u)) /\ u \notin deleted
    BY <2>1 DEF TaskInv, GoneInv
  <2>4. Once(queue', S(u)) /\ Before(queue', S(u), D(u)) /\ (Once(queue, D(u)) => Once(queue', D(u)))
    BY <1>3, <2>1, <2>3, MsgFacts DEF TaskInv
  <2>5. Ended(u)' <=> Ended(u)
    BY <1>2 DEF Ended
  <2>6. QED
    BY <1>2, <2>1, <2>2, <2>3, <2>4, <2>5 DEF TaskInv, GoneInv
<1>7. PlaceInv'
  BY <1>2, <1>3 DEF SessionInv, PlaceInv, Ended
<1>8. AppInv' /\ SafeUse'
  BY <1>1, <1>2 DEF SessionInv, AppInv, SafeUse, TypeOK, Idle, At
<1>9. QED
  BY <1>5, <1>6, <1>7, <1>8 DEF SessionInv

\* A step of the application alone.
LEMMA AppKeeps ==
    ASSUME SessionInv, TypeOK', AppInv', SafeUse', app.at # "gone",
           UNCHANGED <<manage, taskVars, started, deleted, closed, late, released>>
    PROVE  SessionInv'
<1>1. \A u \in Tasks : TaskInv(queue, u)' /\ GoneInv(queue, u)'
  BY DEF SessionInv, TaskInv, GoneInv, Ended, taskVars
<1>2. PlaceInv'
  BY DEF SessionInv, PlaceInv, Ended, taskVars
<1>3. QED
  BY <1>1, <1>2 DEF SessionInv

\* The application enters or leaves a call.
LEMMA CallsKeep ==
    ASSUME SessionInv,
           \/ \E t \in Tasks : StopTask(t) \/ ReleaseTask(t)
           \/ ReleaseCancelled \/ Destroy \/ DeletePool
    PROVE  SessionInv'
<1>1. ASSUME NEW t \in Tasks, NEW a \in {"stop", "cancel"}, app = Idle, app' = At(a, t), t \in started \ released,
             a = "cancel" => ~manage, fault = "none",
             UNCHANGED <<manage, taskVars, started, deleted, pool, history, fault>>
      PROVE  SessionInv'
  <2>1. TypeOK'
    BY <1>1, SessionAssumption DEF SessionInv, TypeOK, Idle, At, taskVars, history
  <2>2. AppInv' /\ SafeUse'
    BY <1>1 DEF SessionInv, AppInv, SafeUse, TypeOK, Idle, At, taskVars, history
  <2>3. QED
    BY <1>1, <2>1, <2>2, AppKeeps DEF Idle, At, history
<1>2. ASSUME NEW t \in Tasks, ReleaseTask(t) PROVE SessionInv'
  <2>1. CASE t \in complete
    <3>1. PostDelete(t) /\ app' = Idle /\ app = Idle /\ t \in started \ released
          /\ ~manage /\ fault = "none" /\ UNCHANGED <<manage, started, deleted, pool, fault>>
      BY <1>2, <2>1 DEF ReleaseTask, AppReady
    <3>2. app.at \in {"idle", "cancelled"}
      BY <3>1 DEF Idle, At
    <3>3. QED
      BY <3>1, <3>2, PostDeleteKeeps
  <2>2. CASE t \notin complete
    BY <1>1, <1>2, <2>2 DEF ReleaseTask, AppReady
  <2>3. QED
    BY <2>1, <2>2
<1>3. ASSUME ReleaseCancelled PROVE SessionInv'
  <2>1. app.task \in started \ released /\ ~manage
    BY <1>3 DEF ReleaseCancelled, SessionInv, AppInv, TypeOK
  <2>2. QED
    BY <1>3, <2>1, PostDeleteKeeps DEF ReleaseCancelled
<1>4. ASSUME Destroy PROVE SessionInv'
  <2>1. /\ app' = IF tasks # {} THEN At("quit", Null) ELSE At("pool", Null)
        /\ overtaken' = (\E u \in Tasks : Has(queue, S(u)))
        /\ app = Idle /\ fault = "none"
        /\ UNCHANGED <<manage, taskVars, started, deleted, pool, closed, late, released, fault>>
    BY <1>4 DEF Destroy, AppReady, Posted, Has, S
  <2>2. overtaken' \in BOOLEAN
    BY <2>1
  <2>3. TypeOK'
    BY <2>1, <2>2 DEF SessionInv, TypeOK, Idle, At, taskVars
  <2>4. AppInv'
    BY <2>1 DEF SessionInv, AppInv, Idle, At, taskVars
  <2>5. SafeUse'
    BY <2>1, <2>3 DEF SessionInv, SafeUse, TypeOK, Idle, At, taskVars
  <2>6. QED
    BY <2>1, <2>3, <2>4, <2>5, AppKeeps DEF Idle, At
<1>5. ASSUME DeletePool PROVE SessionInv'
  <2>1. TypeOK'
    BY <1>5 DEF DeletePool, At, SessionInv, taskVars, history, TypeOK
  <2>2. AppInv'
    BY <1>5 DEF DeletePool, At, SessionInv, taskVars, history, AppInv
  <2>3. ~overtaken => \A u \in Tasks : client[u] # "running"
    BY <1>5 DEF DeletePool, SessionInv, TaskInv, AppInv
  <2>4. SafeUse'
    BY <1>5, <2>3 DEF DeletePool, SessionInv, taskVars, history, SafeUse
  <2>5. QED
    BY <1>5, <2>1, <2>2, <2>4, AppKeeps DEF DeletePool, history
<1>6. ASSUME NEW t \in Tasks, StopTask(t) PROVE SessionInv'
  BY <1>1, <1>6 DEF StopTask, AppReady
<1>7. QED
  BY <1>2, <1>3, <1>4, <1>5, <1>6

\* What was posted goes with the work thread.
LEMMA ThreadEndKeeps ==
    ASSUME SessionInv, EndWorkThread
    PROVE  SessionInv'
<1>1. /\ app.at = "thread" /\ app' = At("gone", Null) /\ queue' = <<>> /\ fault = "none"
      /\ UNCHANGED <<manage, tasks, client, complete, started, deleted, pool, history, fault>>
  BY DEF EndWorkThread
<1>2. queue' \in Seq([id : {"START", "DELETE"}, task : started'])
  BY <1>1
<1>3. TypeOK'
  BY <1>1, <1>2 DEF SessionInv, TypeOK, At, history
<1>4. \A m, n : ~Has(queue', m) /\ Once(queue', m) /\ Before(queue', m, n)
  BY <1>1 DEF Has, Once, Before
<1>5. \A u \in Tasks : TaskInv(queue, u)' /\ GoneInv(queue, u)'
  BY <1>1, <1>4 DEF SessionInv, TaskInv, GoneInv, Ended, history
<1>6. PlaceInv' /\ AppInv' /\ SafeUse'
  BY <1>1 DEF SessionInv, PlaceInv, AppInv, SafeUse, At, history
<1>7. QED
  BY <1>3, <1>5, <1>6 DEF SessionInv

------------------------------------------------------------------------------
(* The work thread                                                           *)

\* A task is reset, without a message being taken from the queue.
LEMMA ResetStep ==
    ASSUME SessionInv, NEW t \in started, Reset(t, queue), fault = "none", app.at # "gone",
           pool,
           \/ app' = app
           \/ app.at = "stop" /\ app' = Idle
           \/ app.at = "cancel" /\ app' = At("cancelled", app.task),
           UNCHANGED <<manage, started, deleted, pool, history, fault>>
    PROVE  SessionInv'
<1>1. TypeOK /\ queue \in Seq(Messages) /\ \A u \in Tasks : TaskInv(queue, u)
  BY DEF SessionInv, TypeOK, Messages
<1>2. /\ tasks' = tasks \ {t} /\ complete \subseteq complete' /\ complete' \subseteq started
      /\ client' \in [Tasks -> {"idle", "running", "kept"}]
      /\ queue' \in Seq(Messages)
      /\ t \in tasks => t \in complete'
      /\ \A u : Has(queue', S(u)) <=> Has(queue, S(u))
      /\ \A u : Has(queue', D(u)) => Has(queue, D(u)) \/ (manage /\ u = t /\ ~Ended(t))
      /\ \A u \in Tasks : TaskInv(queue, u)'
  BY <1>1, ResetKeeps DEF history
<1>3. /\ app' \in [at : {"idle", "stop", "cancel", "cancelled", "quit", "pool", "thread", "gone"},
                   task : Tasks \cup {Null}]
      /\ app'.at # "gone" /\ (app'.at \in {"thread", "gone"} <=> app.at \in {"thread", "gone"})
      /\ app'.at \in {"stop", "cancel", "cancelled"} <=> app'.task # Null
  BY <1>1 DEF TypeOK, Idle, At
<1>4. queue' \in Seq([id : {"START", "DELETE"}, task : started'])
  BY <1>2 DEF Messages
<1>5. TypeOK'
  BY <1>1, <1>2, <1>3, <1>4 DEF TypeOK, history
<1>6. ASSUME NEW u \in Tasks PROVE GoneInv(queue, u)'
  BY <1>2 DEF SessionInv, GoneInv, Ended, history
<1>7. PlaceInv'
  BY <1>2 DEF SessionInv, PlaceInv, Ended, history
<1>8. AppInv'
  BY <1>1, <1>2 DEF SessionInv, AppInv, TypeOK, Idle, At, history
<1>9. SafeUse'
  BY DEF SafeUse, history
<1>10. QED
  BY <1>2, <1>5, <1>6, <1>7, <1>8, <1>9 DEF SessionInv

\* Without an overtaken START the pool outlives every request.
LEMMA PoolFacts ==
    ASSUME SessionInv, app.at # "gone", ~pool, ~overtaken
    PROVE  tasks = {} /\ \A t \in Tasks : client[t] # "running" /\ ~Has(queue, S(t))
BY DEF SessionInv, TypeOK, AppInv, TaskInv

LEMMA CancelKeeps ==
    ASSUME SessionInv, Cancel
    PROVE  SessionInv'
<1> DEFINE t == app.task
<1>1. /\ app.at \in {"stop", "cancel"} /\ fault = "none" /\ app.at # "gone"
      /\ t \in started \ released /\ pool /\ (app.at = "cancel" => ~manage)
  BY DEF Cancel, Working, SessionInv, TypeOK, AppInv
<1>2. CASE t \in deleted /\ Fault("freed task")
  <2>1. manage /\ app.at = "stop"
    BY <1>1, <1>2 DEF SessionInv, GoneInv, TypeOK
  <2>2. QED
    BY <1>2, <2>1, FaultKeeps
<1>3. CASE t \notin deleted /\ Reset(t, queue)
           /\ app' = (IF app.at = "cancel" THEN At("cancelled", t) ELSE Idle)
           /\ UNCHANGED <<manage, started, deleted, pool, history, fault>>
  BY <1>1, <1>3, ResetStep
<1>4. QED
  BY <1>2, <1>3 DEF Cancel

LEMMA QuitKeeps ==
    ASSUME SessionInv, Quit
    PROVE  SessionInv'
<1>1. app.at = "quit" /\ fault = "none" /\ pool /\ TypeOK
  BY DEF Quit, Working, SessionInv, TypeOK
<1>2. CASE tasks = {} /\ app' = At("pool", Null) /\ UNCHANGED taskVars
  <2>1. UNCHANGED <<manage, taskVars, started, deleted, pool, history, fault>>
    BY <1>2 DEF Quit
  <2>2. TypeOK'
    BY <1>1, <1>2, <2>1 DEF TypeOK, At, taskVars, history
  <2>3. AppInv'
    BY <1>1, <1>2, <2>1 DEF SessionInv, AppInv, At, taskVars, history
  <2>4. SafeUse'
    BY <1>1, <2>1 DEF SafeUse, taskVars, history
  <2>5. QED
    BY <1>1, <2>1, <2>2, <2>3, <2>4, AppKeeps DEF history
<1>3. CASE UNCHANGED app /\ \E t \in tasks : Reset(t, queue)
  <2>1. PICK t \in tasks : Reset(t, queue)
    BY <1>3
  <2>2. t \in started /\ UNCHANGED <<manage, started, deleted, pool, history, fault>>
    BY <1>1 DEF Quit, TypeOK
  <2>3. QED
    BY <1>1, <1>3, <2>1, <2>2, ResetStep
<1>4. QED
  BY <1>2, <1>3 DEF Quit

LEMMA CompleteKeeps ==
    ASSUME SessionInv, NEW t \in Tasks, Complete(t)
    PROVE  SessionInv'
<1>1. client[t] = "running" /\ fault = "none" /\ app.at # "gone" /\ t \in started
  BY DEF Complete, Working, SessionInv, TaskInv, TypeOK
<1>2. CASE ~pool /\ Fault("freed pool")
  BY <1>1, <1>2, FaultKeeps, PoolFacts
<1>3. CASE pool /\ End(t, queue) /\ UNCHANGED <<manage, app, started, deleted, pool, history, fault>>
  BY <1>1, <1>3, ResetStep DEF Reset
<1>4. QED
  BY <1>2, <1>3 DEF Complete

\* A connection that closes under a running request ends it; one that was kept
\* has ended before, and now DELETE may be posted again.
LEMMA ClosedKeeps ==
    ASSUME SessionInv, NEW t \in Tasks, Closed(t)
    PROVE  SessionInv'
<1>1. /\ t \notin deleted /\ client[t] # "idle" /\ fault = "none" /\ app.at # "gone"
      /\ client' = [client EXCEPT ![t] = "idle"]
      /\ IF client[t] = "running"
         THEN closed' = closed \cup {t} /\ UNCHANGED late
         ELSE late' = late \cup {t} /\ UNCHANGED closed
      /\ Finish(t, queue)
      /\ UNCHANGED <<manage, app, complete, started, deleted, pool, released, overtaken, fault>>
  BY DEF Closed, Working
<1>2. TypeOK /\ queue \in Seq(Messages) /\ \A u \in Tasks : TaskInv(queue, u) /\ GoneInv(queue, u)
  BY DEF SessionInv, TypeOK, Messages
<1>3. /\ t \in started /\ client[t] \in {"running", "kept"}
      /\ client[t] = "kept" => Ended(t) /\ t \notin tasks
      /\ client[t] = "running" => t \in tasks /\ ~Ended(t)
  BY <1>1, <1>2 DEF TaskInv, TypeOK, Ended
<1>4. /\ tasks' = tasks \ {t} /\ queue' \in Seq(Messages)
      /\ \A m : Has(queue', m) <=> Has(queue, m) \/ (manage /\ m = D(t))
      /\ \A u : Once(queue, S(u)) => Once(queue', S(u))
      /\ \A u : Before(queue, S(u), D(u)) => Before(queue', S(u), D(u))
      /\ \A u : Once(queue, D(u)) /\ (manage /\ u = t => ~Has(queue, D(t))) => Once(queue', D(u))
  BY <1>1, <1>2, <1>3, FinishFacts
<1>5. queue' \in Seq([id : {"START", "DELETE"}, task : started'])
  BY <1>1, <1>4 DEF Messages
<1>6. TypeOK'
  BY <1>1, <1>2, <1>3, <1>4, <1>5 DEF TypeOK
<1>7. ASSUME NEW u \in Tasks
      PROVE  /\ Has(queue', S(u)) <=> Has(queue, S(u))
             /\ Has(queue', D(u)) <=> Has(queue, D(u)) \/ (manage /\ u = t)
             /\ Ended(u)' <=> Ended(u) \/ u = t
  BY <1>1, <1>3, <1>4, MsgFacts DEF Ended
<1>8. (manage /\ late # {}) => (manage /\ late # {})'
  BY <1>1
<1>9. client[t] = "kept" /\ manage => (manage /\ late # {})'
  BY <1>1
<1>10. ASSUME NEW u \in Tasks PROVE TaskInv(queue, u)'
  <2>1. TaskInv(queue, u) /\ Once(queue', S(u)) /\ Before(queue', S(u), D(u))
    BY <1>2, <1>4 DEF TaskInv
  <2>2. (manage /\ late # {})' \/ Once(queue', D(u))
    <3>1. CASE (manage /\ late # {})'
      BY <3>1
    <3>2. CASE ~(manage /\ late # {})'
      <4>1. Once(queue, D(u))
        BY <1>8, <2>1, <3>2 DEF TaskInv
      <4>2. manage /\ u = t => ~Has(queue, D(t))
        BY <1>3, <1>9, <2>1, <3>2 DEF TaskInv
      <4>3. QED
        BY <1>4, <4>1, <4>2
    <3>3. QED
      BY <3>1, <3>2
  <2>3. /\ u \in tasks' <=> u \in tasks /\ u # t
        /\ client'[u] = IF u = t THEN "idle" ELSE client[u]
        /\ UNCHANGED <<manage, complete, released>>
    BY <1>1, <1>2, <1>4 DEF TypeOK
  <2>4. QED
    BY <1>3, <1>7, <2>1, <2>2, <2>3 DEF TaskInv
<1>11. ASSUME NEW u \in Tasks PROVE GoneInv(queue, u)'
  BY <1>1, <1>2, <1>7, <1>8 DEF GoneInv
<1>12. PlaceInv'
  BY <1>1, <1>2, <1>4, <1>7 DEF SessionInv, PlaceInv, TypeOK
<1>13. AppInv'
  BY <1>1, <1>4, <1>7 DEF SessionInv, AppInv
<1>14. SafeUse'
  BY <1>1, <1>2 DEF SessionInv, SafeUse, TypeOK
<1>15. QED
  BY <1>6, <1>10, <1>11, <1>12, <1>13, <1>14 DEF SessionInv

LEMMA StartKeeps ==
    ASSUME SessionInv, Start
    PROVE  SessionInv'
<1> DEFINE t == Head(queue).task
           q == Tail(queue)
<1>1. queue # <<>> /\ Head(queue).id = "START" /\ fault = "none" /\ app.at # "gone"
  BY DEF Start, Working
<1>2. /\ t \in started /\ t \in Tasks /\ q \in Seq(Messages)
      /\ \A u \in Tasks : TaskInv(q, u)
      /\ \A m : Has(queue, m) <=> Has(q, m) \/ m = S(t)
      /\ ~Has(q, S(t))
  BY <1>1, HeadFacts
<1>3. /\ \/ ~pool /\ Fault("freed pool")
         \/ /\ pool
            /\ \/ /\ tasks' = tasks \cup {t}
                  /\ client' = [client EXCEPT ![t] = "running"]
                  /\ queue' = q
                  /\ UNCHANGED complete
               \/ End(t, q)
            /\ UNCHANGED <<manage, app, started, deleted, pool, history, fault>>
  BY DEF Start
<1> HIDE DEF t, q
<1>4. TypeOK /\ TaskInv(queue, t) /\ \A u \in Tasks : GoneInv(queue, u)
  BY <1>2 DEF SessionInv
<1>5. t \notin tasks /\ ~Ended(t) /\ t \notin deleted
  BY <1>2, <1>4 DEF TaskInv, GoneInv
<1>6. CASE ~pool /\ Fault("freed pool")
  BY <1>1, <1>2, <1>6, FaultKeeps, PoolFacts
<1>7. ASSUME pool, UNCHANGED <<manage, app, started, deleted, pool, history, fault>>,
             tasks' \in {tasks, tasks \cup {t}}, complete' \in {complete, complete \cup {t}},
             t \in tasks' \/ t \in complete',
             client' \in [Tasks -> {"idle", "running", "kept"}], queue' \in Seq(Messages),
             \A u : Has(queue', S(u)) <=> Has(q, S(u)),
             \A u : Has(queue', D(u)) => Has(q, D(u)) \/ (manage /\ u = t),
             \A u \in Tasks : TaskInv(queue, u)'
      PROVE  SessionInv'
  <2>1. queue' \in Seq([id : {"START", "DELETE"}, task : started'])
    BY <1>7 DEF Messages
  <2>2. TypeOK'
    BY <1>1, <1>2, <1>4, <1>7, <2>1 DEF TypeOK, history
  <2>3. \A u : Has(queue, S(u)) <=> Has(queue', S(u)) \/ u = t
    BY <1>2, <1>7, MsgFacts
  <2>4. \A u : Has(queue', D(u)) => Has(queue, D(u)) \/ u = t
    BY <1>2, <1>7
  <2>5. \A u \in Tasks : GoneInv(queue, u)'
    BY <1>4, <1>5, <1>7, <2>4 DEF GoneInv, Ended, history
  <2>6. PlaceInv'
    BY <1>4, <1>7, <2>3 DEF SessionInv, PlaceInv, Ended, TypeOK, history
  <2>7. app.at \notin {"thread", "gone"} /\ Has(queue, S(t))
    BY <1>4, <1>7, <2>3 DEF TypeOK
  <2>8. AppInv'
    BY <1>2, <1>7, <2>3, <2>7 DEF SessionInv, AppInv, history
  <2>9. SafeUse'
    BY <1>1, <1>7 DEF SafeUse, history
  <2>10. QED
    BY <1>7, <2>2, <2>5, <2>6, <2>8, <2>9 DEF SessionInv
<1>8. CASE /\ pool /\ tasks' = tasks \cup {t} /\ client' = [client EXCEPT ![t] = "running"]
           /\ queue' = q /\ UNCHANGED complete
           /\ UNCHANGED <<manage, app, started, deleted, pool, history, fault>>
  <2>1. ASSUME NEW u \in Tasks PROVE TaskInv(queue, u)'
    <3>1. /\ u \in tasks' <=> u \in tasks \/ u = t
          /\ client'[u] = IF u = t THEN "running" ELSE client[u]
          /\ Ended(u)' <=> Ended(u)
          /\ queue' = q /\ UNCHANGED <<manage, complete, late, released>>
      BY <1>4, <1>8 DEF Ended, TypeOK, history
    <3>2. QED
      BY <1>2, <1>5, <3>1 DEF TaskInv
  <2>2. client' \in [Tasks -> {"idle", "running", "kept"}]
    BY <1>4, <1>8 DEF TypeOK
  <2>3. QED
    BY <1>2, <1>7, <1>8, <2>1, <2>2
<1>9. CASE pool /\ End(t, q) /\ UNCHANGED <<manage, app, started, deleted, pool, history, fault>>
  <2>1. /\ tasks' = tasks \ {t} /\ complete' = complete \cup {t}
        /\ client' \in [Tasks -> {"idle", "running", "kept"}]
        /\ queue' \in Seq(Messages)
        /\ \A m : Has(queue', m) <=> Has(q, m) \/ (manage /\ m = D(t))
        /\ \A u \in Tasks : TaskInv(queue, u)'
    BY <1>2, <1>4, <1>5, <1>9, EndKeeps DEF history
  <2>2. tasks' = tasks /\ t \in complete'
    BY <1>5, <2>1
  <2>3. /\ \A u : Has(queue', S(u)) <=> Has(q, S(u))
        /\ \A u : Has(queue', D(u)) => Has(q, D(u)) \/ (manage /\ u = t)
    BY <2>1, MsgFacts
  <2>4. QED
    BY <1>7, <1>9, <2>1, <2>2, <2>3
<1>10. QED
  BY <1>3, <1>6, <1>8, <1>9

LEMMA DeleteKeeps ==
    ASSUME SessionInv, Delete
    PROVE  SessionInv'
<1> DEFINE t == Head(queue).task
           q == Tail(queue)
<1>1. queue # <<>> /\ Head(queue).id = "DELETE" /\ fault = "none" /\ app.at # "gone"
  BY DEF Delete, Working
<1>2. /\ t \in started /\ t \in Tasks /\ q \in Seq(Messages)
      /\ \A u \in Tasks : TaskInv(q, u)
      /\ \A m : Has(queue, m) <=> Has(q, m) \/ m = D(t)
      /\ ~Has(queue, S(t))
      /\ (manage /\ late # {}) \/ ~Has(q, D(t))
  BY <1>1, HeadFacts
<1>3. \/ t \in deleted /\ Fault("freed task")
      \/ client[t] = "running" /\ ~pool /\ Fault("freed pool")
      \/ /\ t \notin deleted /\ (client[t] = "running" => pool)
         /\ Reset(t, q)
         /\ deleted' = deleted \cup {t}
         /\ UNCHANGED <<manage, app, started, pool, history, fault>>
  BY DEF Delete
<1> HIDE DEF t, q
<1>4. TypeOK /\ TaskInv(queue, t) /\ \A u \in Tasks : GoneInv(queue, u)
  BY <1>2 DEF SessionInv
<1>5. Has(queue, D(t)) /\ (manage => Ended(t)) /\ (~manage => t \in released)
  BY <1>2, <1>4 DEF TaskInv
<1>6. CASE t \in deleted /\ Fault("freed task")
  <2>1. manage /\ late # {}
    BY <1>2, <1>4, <1>5, <1>6 DEF GoneInv
  <2>2. QED
    BY <1>6, <2>1, FaultKeeps
<1>7. CASE client[t] = "running" /\ ~pool /\ Fault("freed pool")
  BY <1>1, <1>2, <1>7, FaultKeeps, PoolFacts
<1>8. CASE /\ Reset(t, q) /\ deleted' = deleted \cup {t}
           /\ UNCHANGED <<manage, app, started, pool, history, fault>>
  <2>1. /\ tasks' = tasks \ {t} /\ complete \subseteq complete' /\ complete' \subseteq started
        /\ client' \in [Tasks -> {"idle", "running", "kept"}]
        /\ queue' \in Seq(Messages)
        /\ t \in tasks => t \in complete'
        /\ \A u : Has(queue', S(u)) <=> Has(q, S(u))
        /\ \A u : Has(queue', D(u)) => Has(q, D(u)) \/ (manage /\ u = t /\ ~Ended(t))
        /\ \A u \in Tasks : TaskInv(queue, u)'
    BY <1>2, <1>4, <1>8, ResetKeeps DEF history
  <2>2. queue' \in Seq([id : {"START", "DELETE"}, task : started'])
    BY <1>8, <2>1 DEF Messages
  <2>3. TypeOK'
    BY <1>1, <1>2, <1>4, <1>8, <2>1, <2>2 DEF TypeOK, history
  <2>4. \A u : Has(queue, S(u)) <=> Has(queue', S(u))
    BY <1>2, <2>1, MsgFacts
  <2>5. \A u : Has(queue', D(u)) => Has(q, D(u))
    BY <1>5, <2>1
  <2>6. t \in complete' \cup closed'
    BY <1>1, <1>2, <1>8, <2>1 DEF SessionInv, PlaceInv, Ended, history
    \* not to be started, so in tasks_ and reset, or ended before
  <2>7. ASSUME NEW u \in Tasks PROVE GoneInv(queue, u)'
    <3>1. Has(queue', D(u)) => Has(queue, D(u))
      BY <1>2, <2>5
    <3>2. CASE u = t
      BY <1>2, <1>5, <1>8, <2>5, <2>6, <3>2 DEF GoneInv, Ended, history
    <3>3. CASE u # t
      BY <1>4, <1>8, <2>1, <3>1, <3>3 DEF GoneInv, Ended, history
    <3>4. QED
      BY <3>2, <3>3
  <2>8. PlaceInv'
    BY <1>8, <2>1, <2>4, <2>6 DEF SessionInv, PlaceInv, Ended, history
  <2>9. AppInv'
    BY <1>8, <2>1, <2>4 DEF SessionInv, AppInv, history
  <2>10. SafeUse'
    <3>1. \A u \in Tasks : client'[u] = "running" => client[u] = "running" /\ u # t
      BY <1>4, <1>2, <2>1 DEF SessionInv, TaskInv
    <3>2. ASSUME NEW u \in Tasks \ deleted', client'[u] = "running", ~pool PROVE overtaken
      BY <1>1, <3>1, <3>2, PoolFacts
    <3>3. QED
      BY <1>1, <1>8, <3>2 DEF SafeUse, history
  <2>11. QED
    BY <2>1, <2>3, <2>7, <2>8, <2>9, <2>10 DEF SessionInv
<1>9. QED
  BY <1>3, <1>6, <1>7, <1>8

------------------------------------------------------------------------------
(* The theorems                                                              *)

LEMMA InitHolds == Init => SessionInv
<1> SUFFICES ASSUME Init PROVE SessionInv
  OBVIOUS
<1>1. queue \in Seq([id : {"START", "DELETE"}, task : started])
  BY DEF Init
<1>2. TypeOK
  BY <1>1, SessionAssumption DEF Init, TypeOK, Idle, At
<1>3. \A m, n : ~Has(queue, m) /\ Once(queue, m) /\ Before(queue, m, n)
  BY DEF Init, Has, Once, Before
<1>4. QED
  BY <1>2, <1>3 DEF Init, SessionInv, TaskInv, GoneInv, PlaceInv, AppInv, SafeUse, Ended, Idle, At

LEMMA StepKeeps ==
    ASSUME SessionInv, [Next]_vars
    PROVE  SessionInv'
<1>1. CASE \E t \in Tasks : StartTask(t) \/ StopTask(t) \/ ReleaseTask(t)
  BY <1>1, StartTaskKeeps, CallsKeep
<1>2. CASE Destroy \/ ReleaseCancelled \/ DeletePool
  BY <1>2, CallsKeep
<1>3. CASE EndWorkThread
  BY <1>3, ThreadEndKeeps
<1>4. CASE Worker
  BY <1>4, CancelKeeps, QuitKeeps, StartKeeps, DeleteKeeps DEF Worker
<1>5. CASE \E t \in Tasks : Complete(t) \/ Closed(t)
  BY <1>5, CompleteKeeps, ClosedKeeps
<1>6. CASE UNCHANGED vars
  BY <1>6 DEF vars, SessionInv, TypeOK, TaskInv, GoneInv, PlaceInv, AppInv, SafeUse, Ended
<1>7. QED
  BY <1>1, <1>2, <1>3, <1>4, <1>5, <1>6 DEF Next, Application

LEMMA AlwaysSessionInv == Spec => []SessionInv
<1>1. SessionInv /\ [Next]_vars => SessionInv'
  BY StepKeeps
<1>2. QED
  BY InitHolds, <1>1, PTL DEF Spec

\* The variables keep their types, and a deleted work thread leaves no message.
THEOREM TypeCorrect == Spec => []TypeOK
<1>1. SessionInv => TypeOK
  BY DEF SessionInv
<1>2. QED
  BY AlwaysSessionInv, <1>1, PTL

\* While there is a work thread each task that was started is in exactly one
\* place: to be started, in tasks_, or ended (httpsession.cpp:134, 182, 219).
THEOREM TasksAreAccounted == Spec => []Accounted
<1>1. SessionInv => Accounted
  <2> SUFFICES ASSUME SessionInv, app.at # "gone", NEW t \in started
               PROVE  /\ t \in tasks <=> client[t] = "running"
                      /\ Posted(Msg("START", t)) => t \notin tasks /\ ~Ended(t)
                      /\ t \in tasks => ~Ended(t)
                      /\ Posted(Msg("START", t)) \/ t \in tasks \/ Ended(t)
                      /\ t \in deleted => Ended(t)
    BY DEF Accounted
  <2>1. t \in Tasks /\ TaskInv(queue, t) /\ GoneInv(queue, t)
    BY DEF SessionInv, TypeOK
  <2>2. Posted(Msg("START", t)) <=> Has(queue, S(t))
    BY DEF Posted, Has, S
  <2>3. Has(queue, S(t)) \/ t \in tasks \/ Ended(t)
    BY DEF SessionInv, PlaceInv
  <2>4. QED
    BY <2>1, <2>2, <2>3 DEF TaskInv, GoneInv
<1>2. QED
  BY AlwaysSessionInv, <1>1, PTL

\* A freed task is used only by StopTask, or after a connection closed late, and
\* only in a session that manages its tasks; the freed pool only if ~HttpSession
\* overtook a START (httpsession.cpp:134, 166, 259).
THEOREM FreedIsNotUsed == Spec => []SafeUse
<1>1. SessionInv => SafeUse
  BY DEF SessionInv
<1>2. QED
  BY AlwaysSessionInv, <1>1, PTL
==============================================================================
