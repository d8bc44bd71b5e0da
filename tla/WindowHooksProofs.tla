-------------------------- MODULE WindowHooksProofs --------------------------
(***************************************************************************)
(* The chain of hooks of every window stays whole, its procedures stay in  *)
(* order, a dead window leaves nothing behind and a hook that is still on  *)
(* its window forwards safely, for any number of windows and hooks and any *)
(* depth of calls.                                                         *)
(***************************************************************************)
EXTENDS WindowHooks, SequenceTheorems, TLAPS

HookTypes ==
    /\ proc \in [Windows -> Procs]
    /\ map \in [Windows -> Hooks \cup {Null}]
    /\ next \in [Hooks -> Hooks \cup {Null}]
    /\ old \in [Hooks -> Procs \cup {Null}]
    /\ hwnd \in [Hooks -> Windows \cup {Null}]
    /\ live \in SUBSET Hooks

\* A hook has a procedure below it just while it is on a window.
SavedInv == \A h \in Hooks : hwnd[h] = Null <=> old[h] = Null

ChainInv == HookTypes /\ SavedInv /\ ChainSound

\* What ChainSound says of one hook.
Linked(g) ==
    /\ g \in live
    /\ next[g] # Null => hwnd[next[g]] = hwnd[g] /\ map[hwnd[g]] # next[g]
    /\ map[hwnd[g]] = g \/ \E x \in Hooks : hwnd[x] = hwnd[g] /\ next[x] = g
    /\ \A x \in Hooks : hwnd[x] = hwnd[g] /\ next[x] = next[g] => x = g

\* A window with a hook has an entry in the map: of its hooks, the one that no other
\* leads to is the first.
LEMMA ChainHasFront ==
    ASSUME ChainInv, NEW w \in Windows, NEW g \in On(w)
    PROVE  map[w] # Null
<1>1. On(w) \in SUBSET {h \in Hooks : hwnd[h] # Null} /\ On(w) # {}
  BY HooksAssumption DEF On
<1>2. PICK h \in On(w) : \A x \in On(w) : next[x] # h
  BY <1>1 DEF ChainInv, ChainSound
<1>3. h \in Hooks /\ hwnd[h] = w /\ hwnd[h] # Null
  BY HooksAssumption DEF On
<1>4. map[w] = h
  BY <1>2, <1>3 DEF ChainInv, ChainSound
<1>5. QED
  BY <1>3, <1>4, HooksAssumption

\* HookWindow(w) of a hook that is on no window.
LEMMA HookKeepsChain ==
    ASSUME ChainInv, NEW h \in Hooks, NEW w \in Windows, hwnd[h] = Null,
           Hook(h, w), live' = live \cup {h}
    PROVE  ChainInv'
<1> USE HooksAssumption
<1>1. /\ map' = [map EXCEPT ![w] = h] /\ next' = [next EXCEPT ![h] = map[w]]
      /\ hwnd' = [hwnd EXCEPT ![h] = w]
  BY DEF Hook
<1>t. HookTypes
  BY DEF ChainInv
<1>2. map[w] # Null => hwnd[map[w]] = w /\ map[w] \in Hooks /\ map[w] # h
  BY <1>t DEF ChainInv, ChainSound, HookTypes
<1>3. \A g \in Hooks : hwnd[g] # Null => next[g] # h
  BY DEF ChainInv, ChainSound
<1>4. HookTypes' /\ SavedInv'
  <2>1. CASE map[w] = Null
    <3>1. old' = [old EXCEPT ![h] = proc[w]] /\ proc' = [proc EXCEPT ![w] = "hooks"]
      BY <2>1 DEF Hook, SetWindowLong
    <3>2. proc[w] \in Procs /\ proc[w] # Null
      BY <1>t DEF HookTypes, Procs
    <3>3. QED
      BY <1>1, <1>t, <3>1, <3>2 DEF ChainInv, HookTypes, SavedInv, Procs
  <2>2. CASE map[w] # Null
    <3>1. old' = [old EXCEPT ![h] = old[map[w]]] /\ proc' = proc
      BY <2>2 DEF Hook
    <3>2. old[map[w]] \in Procs /\ old[map[w]] # Null
      BY <1>t, <1>2, <2>2 DEF ChainInv, SavedInv, HookTypes
    <3>3. QED
      BY <1>1, <1>t, <3>1, <3>2 DEF ChainInv, HookTypes, SavedInv
  <2>3. QED
    BY <2>1, <2>2
<1>5. \A v \in Windows : map'[v] # Null => hwnd'[map'[v]] = v
  BY <1>1, <1>t DEF ChainInv, ChainSound, HookTypes
<1>n. \A x \in Hooks : hwnd[x] = w => next[x] # map[w]
  <2> SUFFICES ASSUME NEW x \in Hooks, hwnd[x] = w PROVE next[x] # map[w]
    OBVIOUS
  <2>1. map[w] # Null
    BY ChainHasFront DEF On
  <2>2. QED
    BY <2>1, <1>t DEF ChainInv, ChainSound, HookTypes
<1>6. ASSUME NEW g \in Hooks, hwnd'[g] # Null
      PROVE  Linked(g)'
  <2>1. CASE g = h
    <3>1. hwnd'[g] = w /\ next'[g] = map[w] /\ map'[w] = h /\ g \in live'
      BY <1>1, <1>t, <2>1 DEF HookTypes
    <3>2. map[w] # Null => hwnd'[map[w]] = w
      BY <1>1, <1>2, <1>t DEF HookTypes
    <3>3. \A x \in Hooks : x # h => next'[x] = next[x] /\ hwnd'[x] = hwnd[x]
      BY <1>1, <1>t DEF HookTypes
    <3>4. next'[g] # Null => hwnd'[next'[g]] = hwnd'[g] /\ map'[hwnd'[g]] # next'[g]
      BY <3>1, <3>2, <1>2
    <3>5. \A x \in Hooks : hwnd'[x] = hwnd'[g] /\ next'[x] = next'[g] => x = g
      BY <3>1, <3>3, <1>n, <2>1
    <3>6. QED
      BY <3>1, <3>4, <3>5, <2>1 DEF Linked
  <2>2. CASE g # h
    <3>1. hwnd'[g] = hwnd[g] /\ next'[g] = next[g] /\ hwnd[g] \in Windows
      BY <1>1, <1>t, <1>6, <2>2 DEF HookTypes
    <3>2. Linked(g)
      BY <3>1 DEF ChainInv, ChainSound, Linked, On
    <3>3. next[g] # h /\ next[g] \in Hooks \cup {Null}
      BY <1>3, <1>t, <3>1 DEF HookTypes
    <3>4. next[g] # Null => hwnd'[next[g]] = hwnd[g] /\ map'[hwnd[g]] # next[g]
      BY <3>2, <3>3, <1>1, <1>t, <3>1 DEF HookTypes, Linked
    <3>5. map'[hwnd[g]] = g \/ \E x \in Hooks : hwnd'[x] = hwnd[g] /\ next'[x] = g
      <4>1. CASE map[hwnd[g]] = g
        BY <4>1, <1>1, <1>t, <3>1 DEF HookTypes
      <4>2. CASE \E x \in Hooks : hwnd[x] = hwnd[g] /\ next[x] = g
        BY <4>2, <1>1, <1>t, <3>1 DEF HookTypes
      <4>3. QED
        BY <3>2, <4>1, <4>2 DEF Linked
    <3>6. \A x \in Hooks : hwnd'[x] = hwnd[g] /\ next'[x] = next[g] => x = g
      BY <1>n, <1>1, <1>t, <3>1, <3>2, <2>2 DEF HookTypes, Linked
    <3>7. g \in live'
      BY <3>2 DEF Linked
    <3>8. QED
      BY <3>1, <3>4, <3>5, <3>6, <3>7 DEF Linked
  <2>3. QED
    BY <2>1, <2>2
<1>7. ASSUME NEW S \in SUBSET {x \in Hooks : hwnd'[x] # Null}, S # {}
      PROVE  \E x \in S : \A g \in S : next'[g] # x
  <2>1. CASE h \in S
    <3>1. \A g \in S : next'[g] # h
      BY <1>1, <1>2, <1>3, <1>t DEF HookTypes
    <3>2. QED
      BY <2>1, <3>1
  <2>2. CASE h \notin S
    <3>1. S \in SUBSET {x \in Hooks : hwnd[x] # Null}
      BY <2>2, <1>1, <1>t DEF HookTypes
    <3>2. PICK x \in S : \A g \in S : next[g] # x
      BY <3>1, <1>7 DEF ChainInv, ChainSound
    <3>3. \A g \in S : next'[g] = next[g]
      BY <2>2, <1>1, <1>t DEF HookTypes
    <3>4. QED
      BY <3>2, <3>3
  <2>3. QED
    BY <2>1, <2>2
<1>8. ChainSound'
  BY <1>5, <1>6, <1>7 DEF ChainSound, Linked, On
<1>9. QED
  BY <1>4, <1>8 DEF ChainInv

\* HookWindow(NULL) of a hook that is on a window, which may be freed with it.
LEMMA UnhookKeepsChain ==
    ASSUME ChainInv, NEW h \in Hooks, hwnd[h] # Null,
           Unhook(h), live' = live \/ live' = live \ {h}
    PROVE  ChainInv'
<1> USE HooksAssumption
<1> DEFINE w == hwnd[h]
           k == next[h]
<1>t. HookTypes
  BY DEF ChainInv
<1>1. /\ w \in Windows /\ k \in Hooks \cup {Null} /\ h \in live
      /\ hwnd' = [hwnd EXCEPT ![h] = Null] /\ old' = [old EXCEPT ![h] = Null]
  BY <1>t DEF HookTypes, Unhook, ChainInv, ChainSound
<1>2. \A g \in Hooks : hwnd[g] # Null => Linked(g)
  BY DEF ChainInv, ChainSound, Linked, On
<1>3. \A v \in Windows : map[v] # Null => hwnd[map[v]] = v
  BY DEF ChainInv, ChainSound
<1>4. \A S \in SUBSET {x \in Hooks : hwnd[x] # Null} : S # {} => \E x \in S : \A g \in S : next[g] # x
  BY DEF ChainInv, ChainSound
<1>5. k # h
  <2>1. {h} \in SUBSET {x \in Hooks : hwnd[x] # Null} /\ {h} # {}
    OBVIOUS
  <2>2. PICK x \in {h} : \A g \in {h} : next[g] # x
    BY <2>1, <1>4
  <2>3. QED
    BY <2>2
<1>6. k # Null => hwnd[k] = w /\ map[w] # k
  BY <1>2 DEF Linked
<1>7. \A g \in Hooks : hwnd'[g] # Null <=> g # h /\ hwnd[g] # Null
  BY <1>1, <1>t DEF HookTypes
<1>8. \A g \in Hooks : g # h => hwnd'[g] = hwnd[g]
  BY <1>1, <1>t DEF HookTypes
<1>9. CASE map[w] = h
  <2>1. map' = [map EXCEPT ![w] = k] /\ next' = next /\ proc' = IF k = Null THEN [proc EXCEPT ![w] = old[h]] ELSE proc
    BY <1>9 DEF Unhook, SetWindowLong
  <2>2. HookTypes' /\ SavedInv'
    <3>1. old[h] \in Procs
      BY <1>t DEF ChainInv, SavedInv, HookTypes
    <3>2. HookTypes'
      BY <1>1, <1>t, <2>1, <3>1 DEF HookTypes
    <3>3. SavedInv'
      BY <1>1, <1>t DEF ChainInv, SavedInv, HookTypes
    <3>4. QED
      BY <3>2, <3>3
  <2>3. \A v \in Windows : map'[v] # Null => hwnd'[map'[v]] = v
    BY <1>1, <1>3, <1>5, <1>6, <1>t, <2>1 DEF HookTypes
  <2>4. ASSUME NEW g \in Hooks, hwnd'[g] # Null PROVE Linked(g)'
    <3>1. g # h /\ hwnd'[g] = hwnd[g] /\ hwnd[g] \in Windows /\ Linked(g) /\ next[g] \in Hooks \cup {Null}
      BY <1>2, <1>7, <1>8, <2>4, <1>t DEF HookTypes
    <3>2. next[g] # h
      BY <3>1, <1>9 DEF Linked
    <3>3. g \in live'
      BY <3>1 DEF Linked
    <3>4. next'[g] # Null => hwnd'[next'[g]] = hwnd'[g]
      BY <3>1, <3>2, <1>8, <2>1 DEF Linked
    <3>5. next'[g] # Null => map'[hwnd'[g]] # next'[g]
      BY <3>1, <2>1, <1>t, <1>1 DEF Linked, HookTypes
    <3>6. map'[hwnd'[g]] = g \/ \E x \in Hooks : hwnd'[x] = hwnd'[g] /\ next'[x] = g
      <4>1. CASE map[hwnd[g]] = g
        BY <4>1, <3>1, <2>1, <1>9, <1>t DEF HookTypes
      <4>2. CASE \E x \in Hooks : hwnd[x] = hwnd[g] /\ next[x] = g
        <5>1. PICK x \in Hooks : hwnd[x] = hwnd[g] /\ next[x] = g
          BY <4>2
        <5>2. CASE x = h
          BY <5>1, <5>2, <3>1, <2>1, <1>t, <1>1 DEF HookTypes
        <5>3. CASE x # h
          BY <5>1, <5>3, <3>1, <2>1, <1>8
        <5>4. QED
          BY <5>2, <5>3
      <4>3. QED
        BY <3>1, <4>1, <4>2 DEF Linked
    <3>7. \A x \in Hooks : hwnd'[x] = hwnd'[g] /\ next'[x] = next'[g] => x = g
      BY <3>1, <2>1, <1>7, <1>8 DEF Linked
    <3>8. QED
      BY <3>3, <3>4, <3>5, <3>6, <3>7 DEF Linked
  <2>5. ASSUME NEW S \in SUBSET {x \in Hooks : hwnd'[x] # Null}, S # {}
        PROVE  \E x \in S : \A g \in S : next'[g] # x
    <3>1. S \in SUBSET {x \in Hooks : hwnd[x] # Null}
      BY <1>7
    <3>2. QED
      BY <3>1, <1>4, <2>1, <2>5
  <2>6. ChainSound'
    BY <2>3, <2>4, <2>5 DEF ChainSound, Linked, On
  <2>7. QED
    BY <2>2, <2>6 DEF ChainInv
<1>10. CASE map[w] # h
  <2>0. PICK b \in On(w) : next[b] = h /\ next' = [next EXCEPT ![b] = k]
    BY <1>10 DEF Unhook
  <2>1. map' = map /\ proc' = proc /\ b \in Hooks /\ hwnd[b] = w /\ b # h
    BY <1>10, <1>5, <2>0 DEF Unhook, On
  <2>n. \A x \in Hooks : x # b => next'[x] = next[x]
    BY <2>0, <1>t DEF HookTypes
  <2>b. next'[b] = k
    BY <2>0, <2>1, <1>t DEF HookTypes
  <2>2. HookTypes' /\ SavedInv'
    <3>1. HookTypes'
      BY <1>1, <1>t, <2>0, <2>1 DEF HookTypes
    <3>2. SavedInv'
      BY <1>1, <1>t DEF ChainInv, SavedInv, HookTypes
    <3>3. QED
      BY <3>1, <3>2
  <2>3. \A v \in Windows : map'[v] # Null => hwnd'[map'[v]] = v
    BY <1>1, <1>3, <1>10, <1>t, <2>1 DEF HookTypes
  <2>k. k # b
    <3>1. {h, b} \in SUBSET {x \in Hooks : hwnd[x] # Null} /\ {h, b} # {}
      BY <2>1
    <3>2. PICK x \in {h, b} : \A g \in {h, b} : next[g] # x
      BY <3>1, <1>4
    <3>3. QED
      BY <3>2, <2>0
  <2>4. ASSUME NEW g \in Hooks, hwnd'[g] # Null PROVE Linked(g)'
    <3>1. g # h /\ hwnd'[g] = hwnd[g] /\ hwnd[g] \in Windows /\ Linked(g) /\ next[g] \in Hooks \cup {Null}
      BY <1>2, <1>7, <1>8, <2>4, <1>t DEF HookTypes
    <3>2. g # b => next[g] # h
      BY <3>1, <2>0, <2>1, <1>2 DEF Linked
    <3>3. g \in live'
      BY <3>1 DEF Linked
    <3>4. next'[g] # Null => hwnd'[next'[g]] = hwnd'[g] /\ map'[hwnd'[g]] # next'[g]
      <4>1. CASE g = b
        BY <4>1, <3>1, <1>5, <1>6, <1>8, <1>1, <2>1, <2>b
      <4>2. CASE g # b
        BY <4>2, <3>1, <3>2, <1>8, <2>1, <2>n DEF Linked
      <4>3. QED
        BY <4>1, <4>2
    <3>6. map'[hwnd'[g]] = g \/ \E x \in Hooks : hwnd'[x] = hwnd'[g] /\ next'[x] = g
      <4>1. CASE map[hwnd[g]] = g
        BY <4>1, <3>1, <2>1
      <4>2. CASE \E x \in Hooks : hwnd[x] = hwnd[g] /\ next[x] = g
        <5>1. PICK x \in Hooks : hwnd[x] = hwnd[g] /\ next[x] = g
          BY <4>2
        <5>2. CASE x = h
          BY <5>1, <5>2, <3>1, <2>1, <2>b, <1>8
        <5>3. CASE x # h
          <6>1. x # b
            BY <5>1, <2>0, <3>1
          <6>2. QED
            BY <5>1, <5>3, <6>1, <3>1, <2>n, <1>8
        <5>4. QED
          BY <5>2, <5>3
      <4>3. QED
        BY <3>1, <4>1, <4>2 DEF Linked
    <3>7. ASSUME NEW x \in Hooks, hwnd'[x] = hwnd'[g], next'[x] = next'[g] PROVE x = g
      <4>1. x # h /\ hwnd[x] = hwnd[g]
        BY <3>1, <3>7, <1>7, <1>8, <2>4
      <4>2. CASE x = b /\ g # b
        <5>1. next[g] = k /\ hwnd[g] = w
          BY <4>1, <4>2, <3>7, <2>b, <2>n, <2>1
        <5>2. QED
          BY <5>1, <3>1, <1>2 DEF Linked
      <4>3. CASE g = b /\ x # b
        <5>1. next[x] = k /\ hwnd[x] = w
          BY <4>1, <4>3, <3>7, <2>b, <2>n, <2>1
        <5>2. QED
          BY <5>1, <4>1, <1>2 DEF Linked
      <4>4. CASE x # b /\ g # b
        BY <4>1, <4>4, <3>1, <3>7, <2>n DEF Linked
      <4>5. QED
        BY <4>2, <4>3, <4>4
    <3>8. QED
      BY <3>3, <3>4, <3>6, <3>7 DEF Linked
  <2>5. ASSUME NEW S \in SUBSET {x \in Hooks : hwnd'[x] # Null}, S # {}
        PROVE  \E x \in S : \A g \in S : next'[g] # x
    <3>1. S \in SUBSET {x \in Hooks : hwnd[x] # Null} /\ h \notin S
      BY <1>7
    <3>2. S \cup {h} \in SUBSET {x \in Hooks : hwnd[x] # Null} /\ S \cup {h} # {}
      BY <3>1
    <3>3. PICK x \in S \cup {h} : \A g \in S \cup {h} : next[g] # x
      BY <3>2, <1>4
    <3>4. CASE x # h
      <4>1. ASSUME NEW g \in S PROVE next'[g] # x
        <5>1. CASE g = b
          BY <5>1, <3>3, <2>b
        <5>2. CASE g # b
          BY <5>2, <3>1, <3>3, <2>n
        <5>3. QED
          BY <5>1, <5>2
      <4>2. QED
        BY <4>1, <3>3, <3>4
    <3>5. CASE x = h
      <4>1. b \notin S
        BY <3>3, <3>5, <2>0
      <4>2. \A g \in S : next'[g] = next[g]
        BY <4>1, <3>1, <2>n
      <4>3. QED
        BY <4>2, <3>1, <1>4, <2>5
    <3>6. QED
      BY <3>4, <3>5
  <2>6. ChainSound'
    BY <2>3, <2>4, <2>5 DEF ChainSound, Linked, On
  <2>7. QED
    BY <2>2, <2>6 DEF ChainInv
<1>11. QED
  BY <1>9, <1>10

\* RemoveAll.
LEMMA UnhookAllKeepsChain ==
    ASSUME ChainInv, NEW w \in Windows, UnhookAll(w), live' = live
    PROVE  ChainInv'
<1> USE HooksAssumption
<1>t. HookTypes
  BY DEF ChainInv
<1>1. /\ next' = next /\ map' = [map EXCEPT ![w] = Null]
      /\ old' = [h \in Hooks |-> IF hwnd[h] = w THEN Null ELSE old[h]]
      /\ hwnd' = [h \in Hooks |-> IF hwnd[h] = w THEN Null ELSE hwnd[h]]
  BY DEF UnhookAll, On
<1>2. PICK last \in On(w) : proc' = [proc EXCEPT ![w] = old[last]]
  BY DEF UnhookAll, SetWindowLong
<1>3. old[last] \in Procs
  BY <1>2, <1>t DEF ChainInv, SavedInv, HookTypes, On
<1>4. HookTypes'
  BY <1>1, <1>2, <1>3, <1>t DEF HookTypes
<1>5. SavedInv'
  BY <1>1, <1>t DEF ChainInv, SavedInv, HookTypes
<1>6. \A v \in Windows : map'[v] # Null => hwnd'[map'[v]] = v
  BY <1>1, <1>t DEF ChainInv, ChainSound, HookTypes
<1>7. ASSUME NEW g \in Hooks, hwnd'[g] # Null PROVE Linked(g)'
  <2>1. hwnd[g] # w /\ hwnd'[g] = hwnd[g] /\ hwnd[g] \in Windows /\ next[g] \in Hooks \cup {Null}
    BY <1>1, <1>7, <1>t DEF HookTypes
  <2>2. Linked(g)
    BY <2>1 DEF ChainInv, ChainSound, Linked, On
  <2>3. \A x \in Hooks : hwnd'[x] = hwnd[g] <=> hwnd[x] = hwnd[g]
    BY <1>1, <2>1
  <2>4. map'[hwnd[g]] = map[hwnd[g]]
    BY <1>1, <2>1, <1>t DEF HookTypes
  <2>5. QED
    BY <1>1, <2>1, <2>2, <2>3, <2>4 DEF Linked
<1>8. ASSUME NEW S \in SUBSET {x \in Hooks : hwnd'[x] # Null}, S # {}
      PROVE  \E x \in S : \A g \in S : next'[g] # x
  <2>1. S \in SUBSET {x \in Hooks : hwnd[x] # Null}
    BY <1>1
  <2>2. QED
    BY <2>1, <1>1, <1>8 DEF ChainInv, ChainSound
<1>9. ChainSound'
  BY <1>6, <1>7, <1>8 DEF ChainSound, Linked, On
<1>10. QED
  BY <1>4, <1>5, <1>9 DEF ChainInv

\* The end of a hook that is on no window.
LEMMA FreeKeepsChain ==
    ASSUME ChainInv, NEW h \in Hooks, hwnd[h] = Null, UNCHANGED hookVars, live' = live \ {h}
    PROVE  ChainInv'
<1>1. HookTypes' /\ SavedInv'
  BY DEF ChainInv, HookTypes, SavedInv, hookVars
<1>2. ChainSound'
  BY HooksAssumption DEF ChainInv, ChainSound, On, hookVars
<1>3. QED
  BY <1>1, <1>2 DEF ChainInv

------------------------------------------------------------------------------
(* Every step keeps the types and the chains.                                *)

RestTypes ==
    /\ win \in [Windows -> {"none", "live", "dying"}]
    /\ own \in [Windows -> OwnProcs]
    /\ owner \in [Hooks -> Windows \cup {Null}]
    /\ hooked \in SUBSET Windows
    /\ control \in SUBSET Windows
    /\ kept \in SUBSET Windows
    /\ default \in Procs \cup {Null}
    /\ stack \in Seq(Frames)
    /\ fault \in {"none", "orphan", "freed hook", "no procedure"}

HooksInv == ChainInv /\ RestTypes

LEMMA HooksInvTypes == HooksInv <=> TypeOK /\ SavedInv /\ ChainSound
  BY DEF HooksInv, ChainInv, RestTypes, HookTypes, TypeOK

LEMMA MarkType ==
    ASSUME NEW s \in Seq(Frames), NEW hs, NEW what \in {"left", "gone"}
    PROVE  Mark(s, hs, what) \in Seq(Frames)
<1>1. \A i \in 1..Len(s) : s[i] \in Frames
  OBVIOUS
<1>2. \A f \in Frames : [f EXCEPT !.since = what] \in Frames
  BY DEF Frames
<1>3. DOMAIN s = 1..Len(s) /\ Len(s) \in Nat
  OBVIOUS
<1>4. Mark(s, hs, what) = [i \in 1..Len(s) |->
        IF s[i].at \in hs /\ s[i].since # "gone" THEN [s[i] EXCEPT !.since = what] ELSE s[i]]
  BY <1>3 DEF Mark
<1>5. QED
  BY <1>1, <1>2, <1>3, <1>4

LEMMA TopType ==
    ASSUME stack \in Seq(Frames), stack # <<>>
    PROVE  Top \in Frames /\ Popped \in Seq(Frames)
  BY DEF Top, Popped

LEMMA FrameType ==
    ASSUME NEW a \in Hooks \cup {"control", "hooks"}, NEW w \in Windows, NEW m \in {"any", "ncdestroy"},
           NEW p \in Procs \cup {Null}, NEW s \in {"hooked", "left", "gone"}
    PROVE  Frame(a, w, m, p, s) \in Frames
  BY DEF Frame, Frames

LEMMA PushTypes ==
    ASSUME RestTypes, NEW s \in Seq(Frames), NEW f \in Frames, NEW m, Push(s, f, m)
    PROVE  stack' \in Seq(Frames) /\ win' \in [Windows -> {"none", "live", "dying"}]
<1>1. stack' \in Seq(Frames)
  BY DEF Push
<1>2. win' \in [Windows -> {"none", "live", "dying"}]
  BY DEF Push, RestTypes
<1>3. QED
  BY <1>1, <1>2

LEMMA CallKeeps ==
    ASSUME HooksInv, NEW p \in Procs \cup {Null}, NEW w \in Windows, NEW m \in {"any", "ncdestroy"},
           NEW s \in Seq(Frames), Call(p, w, m, s)
    PROVE  HooksInv'
<1> USE HooksAssumption
<1>t. RestTypes /\ HookTypes /\ ChainInv
  BY DEF HooksInv, ChainInv
<1>s. ASSUME UNCHANGED <<hookVars, live>> PROVE ChainInv'
  <2>1. HookTypes' /\ SavedInv'
    BY <1>s, <1>t DEF ChainInv, HookTypes, SavedInv, hookVars
  <2>2. ChainSound'
    BY <1>s, <1>t DEF ChainInv, ChainSound, On, hookVars
  <2>3. QED
    BY <2>1, <2>2 DEF ChainInv
<1>1. CASE CallOwn(w, m, s)
  <2>1. ChainInv'
    BY <1>1, <1>s DEF CallOwn, hookObjs
  <2>2. RestTypes'
    BY <1>1, <1>t DEF CallOwn, RestTypes, hookObjs
  <2>3. QED
    BY <2>1, <2>2 DEF HooksInv
<1>2. CASE CallControl(w, m, s)
  <2>1. Frame("control", w, m, Null, "hooked") \in Frames
    BY FrameType
  <2>2. stack' \in Seq(Frames) /\ win' \in [Windows -> {"none", "live", "dying"}]
    BY <1>2, <1>t, <2>1, PushTypes DEF CallControl
  <2>3. CASE UNCHANGED <<hookVars, hookObjs>>
    <3>1. ChainInv'
      BY <2>3, <1>s DEF hookObjs
    <3>2. RestTypes'
      BY <1>2, <1>t, <2>2, <2>3 DEF CallControl, RestTypes, hookObjs
    <3>3. QED
      BY <3>1, <3>2 DEF HooksInv
  <2>4. CASE ~UNCHANGED <<hookVars, hookObjs>>
    <3>1. PICK h \in Hooks \ live : Hook(h, w) /\ live' = live \cup {h} /\ owner' = [owner EXCEPT ![h] = w]
      BY <1>2, <2>4 DEF CallControl
    <3>2. hwnd[h] = Null
      BY <3>1, <1>t DEF ChainInv, ChainSound
    <3>3. ChainInv'
      BY <1>t, <3>1, <3>2, HookKeepsChain
    <3>4. RestTypes'
      BY <1>2, <1>t, <2>2, <3>1 DEF CallControl, RestTypes
    <3>5. QED
      BY <3>3, <3>4 DEF HooksInv
  <2>5. QED
    BY <2>3, <2>4
<1>3. CASE CallHooks(w, m, s)
  <2>1. CASE map[w] = Null
    <3>1. ChainInv'
      BY <1>3, <2>1, <1>s DEF CallHooks, hookObjs
    <3>2. RestTypes'
      BY <1>3, <1>t, <2>1 DEF CallHooks, RestTypes, hookObjs
    <3>3. QED
      BY <3>1, <3>2 DEF HooksInv
  <2>2. CASE map[w] # Null /\ m = "any"
    <3>1. Frame(map[w], w, m, Null, "hooked") \in Frames
      BY <1>t, <2>2, FrameType DEF HookTypes
    <3>2. stack' \in Seq(Frames) /\ win' \in [Windows -> {"none", "live", "dying"}]
      BY <1>3, <1>t, <2>2, <3>1, PushTypes DEF CallHooks
    <3>3. ChainInv'
      BY <1>3, <2>2, <1>s DEF CallHooks, hookObjs
    <3>4. RestTypes'
      BY <1>3, <1>t, <2>2, <3>2 DEF CallHooks, RestTypes, hookObjs
    <3>5. QED
      BY <3>3, <3>4 DEF HooksInv
  <2>3. CASE map[w] # Null /\ m = "ncdestroy"
    <3>1. Frame("hooks", w, m, old[map[w]], "hooked") \in Frames
      BY <1>t, <2>3, FrameType DEF HookTypes
    <3>2. Mark(s, On(w), "left") \in Seq(Frames)
      BY MarkType
    <3>3. stack' \in Seq(Frames) /\ win' \in [Windows -> {"none", "live", "dying"}]
      BY <1>3, <1>t, <2>3, <3>1, <3>2, PushTypes DEF CallHooks
    <3>4. ChainInv'
      BY <1>3, <2>3, <1>t, UnhookAllKeepsChain DEF CallHooks, hookObjs
    <3>5. RestTypes'
      BY <1>3, <1>t, <2>3, <3>3 DEF CallHooks, RestTypes, hookObjs
    <3>6. QED
      BY <3>4, <3>5 DEF HooksInv
  <2>4. QED
    BY <2>1, <2>2, <2>3
<1>4. QED
  BY <1>1, <1>2, <1>3 DEF Call

\* The end of a control that had a hook, or of none.
LEMMA ReleaseKeeps ==
    ASSUME HooksInv, stack # <<>>, NEW w \in Windows, Release(w)
    PROVE  ChainInv' /\ stack' \in Seq(Frames) /\ owner' \in [Hooks -> Windows \cup {Null}]
<1>t. RestTypes /\ HookTypes /\ ChainInv
  BY DEF HooksInv, ChainInv
<1>p. Popped \in Seq(Frames)
  BY <1>t, TopType DEF RestTypes
<1>1. CASE UNCHANGED <<hookVars, hookObjs>> /\ stack' = Popped
  <2>1. HookTypes' /\ SavedInv'
    BY <1>1, <1>t DEF ChainInv, HookTypes, SavedInv, hookVars, hookObjs
  <2>2. ChainSound'
    BY <1>1, <1>t DEF ChainInv, ChainSound, On, hookVars, hookObjs
  <2>3. QED
    BY <1>1, <1>p, <1>t, <2>1, <2>2 DEF ChainInv, RestTypes, hookObjs
<1>2. CASE \E h \in Hooks : /\ owner[h] = w /\ Destruct(h) /\ live' = live \ {h}
                           /\ owner' = [owner EXCEPT ![h] = Null]
                           /\ stack' = Mark(Popped, {h}, "gone")
  <2>1. PICK h \in Hooks : /\ Destruct(h) /\ live' = live \ {h}
                           /\ owner' = [owner EXCEPT ![h] = Null]
                           /\ stack' = Mark(Popped, {h}, "gone")
    BY <1>2
  <2>2. ChainInv'
    BY <2>1, <1>t, UnhookKeepsChain, FreeKeepsChain DEF Destruct
  <2>3. stack' \in Seq(Frames)
    BY <2>1, <1>p, MarkType
  <2>4. QED
    BY <2>1, <2>2, <2>3, <1>t DEF RestTypes
<1>3. QED
  BY <1>1, <1>2 DEF Release

\* A control without a hook, handled WM_NCDESTROY or not, takes none with it.
LEMMA KeepReleases == KeepControl => Release(Top.win)
  BY DEF KeepControl, Release

LEMMA StepKeeps == HooksInv /\ [Next]_vars => HooksInv'
<1> SUFFICES ASSUME HooksInv, [Next]_vars PROVE HooksInv'
  OBVIOUS
<1> USE HooksAssumption
<1>t. RestTypes /\ HookTypes /\ ChainInv
  BY DEF HooksInv, ChainInv
<1>s. ASSUME UNCHANGED <<hookVars, live>> PROVE ChainInv'
  <2>1. HookTypes' /\ SavedInv'
    BY <1>s, <1>t DEF ChainInv, HookTypes, SavedInv, hookVars
  <2>2. ChainSound'
    BY <1>s, <1>t DEF ChainInv, ChainSound, On, hookVars
  <2>3. QED
    BY <2>1, <2>2 DEF ChainInv
<1>f. ASSUME stack # <<>>
      PROVE  Top \in Frames /\ Popped \in Seq(Frames) /\ Top.at \in Hooks \cup {"control", "hooks"}
             /\ Top.win \in Windows /\ Top.msg \in {"any", "ncdestroy"} /\ Top.then \in Procs \cup {Null}
  <2>1. Top \in Frames /\ Popped \in Seq(Frames)
    BY <1>t, <1>f, TopType DEF RestTypes
  <2>2. QED
    BY <2>1 DEF Frames
<1>p. ASSUME NEW w \in Windows, \/ \E p \in OwnProcs : CreateWindow(w, p)
                               \/ InstallHook(w)
      PROVE  HooksInv'
  <2>1. UNCHANGED <<map, next, old, hwnd, live>>
    BY <1>p DEF CreateWindow, InstallHook, hookObjs
  <2>2. proc' \in [Windows -> Procs]
    BY <1>p, <1>t DEF CreateWindow, InstallHook, SetWindowLong, HookTypes, Procs
  <2>3. ChainInv'
    <3>1. HookTypes' /\ SavedInv'
      BY <2>1, <2>2, <1>t DEF ChainInv, HookTypes, SavedInv
    <3>2. ChainSound'
      BY <2>1, <1>t DEF ChainInv, ChainSound, On
    <3>3. QED
      BY <3>1, <3>2 DEF ChainInv
  <2>4. RestTypes'
    <3>1. CASE \E p \in OwnProcs : CreateWindow(w, p)
      <4>1. PICK p \in OwnProcs : CreateWindow(w, p)
        BY <3>1
      <4>2. win' = [win EXCEPT ![w] = "live"] /\ own' = [own EXCEPT ![w] = p]
            /\ UNCHANGED <<owner, hooked, control, kept, default, stack, fault>>
        BY <4>1 DEF CreateWindow, hookObjs
      <4>3. QED
        BY <4>2, <1>t DEF RestTypes
    <3>2. CASE InstallHook(w)
      <4>1. proc[w] \in Procs
        BY <1>t DEF HookTypes
      <4>2. QED
        BY <3>2, <4>1, <1>t DEF InstallHook, RestTypes, hookObjs
    <3>3. QED
      BY <1>p, <3>1, <3>2
  <2>5. QED
    BY <2>3, <2>4 DEF HooksInv
<1>1. ASSUME NEW w \in Windows, SendMessage(w) \/ DestroyWindow(w) PROVE HooksInv'
  <2>1. proc[w] \in Procs \cup {Null} /\ stack \in Seq(Frames)
    BY <1>t DEF HookTypes, RestTypes
  <2>2. QED
    BY <1>1, <2>1, CallKeeps DEF SendMessage, DestroyWindow
<1>2. ASSUME NEW h \in Hooks, NEW w \in Windows, HookWindow(h, w) PROVE HooksInv'
  <2>1. ChainInv'
    BY <1>2, <1>t, HookKeepsChain DEF HookWindow
  <2>2. RestTypes'
    BY <1>2, <1>t DEF HookWindow, RestTypes
  <2>3. QED
    BY <2>1, <2>2 DEF HooksInv
<1>3. ASSUME NEW h \in Hooks, UnhookWindow(h) PROVE HooksInv'
  <2>1. ChainInv'
    BY <1>3, <1>t, UnhookKeepsChain DEF UnhookWindow, hookObjs
  <2>2. stack' \in Seq(Frames)
    BY <1>3, <1>t, MarkType DEF UnhookWindow, RestTypes
  <2>3. RestTypes'
    BY <1>3, <1>t, <2>2 DEF UnhookWindow, RestTypes, hookObjs
  <2>4. QED
    BY <2>1, <2>3 DEF HooksInv
<1>4. ASSUME NEW h \in Hooks, DeleteHook(h) PROVE HooksInv'
  <2>1. ChainInv'
    BY <1>4, <1>t, UnhookKeepsChain, FreeKeepsChain DEF DeleteHook, Destruct
  <2>2. stack' \in Seq(Frames)
    BY <1>4, <1>t, MarkType DEF DeleteHook, RestTypes
  <2>3. RestTypes'
    BY <1>4, <1>t, <2>2 DEF DeleteHook, RestTypes
  <2>4. QED
    BY <2>1, <2>3 DEF HooksInv
<1>5. CASE Forward
  <2> DEFINE h == Top.at
             n == next[h]
  <2>1. stack # <<>> /\ h \in Hooks /\ n \in Hooks \cup {Null}
    BY <1>5, <1>t DEF Forward, Running, HookTypes
  <2>2. ASSUME NEW what \in {"freed hook", "no procedure"}, Fault(what) PROVE HooksInv'
    <3>1. ChainInv'
      BY <2>2, <1>s DEF Fault, hookObjs
    <3>2. RestTypes'
      BY <2>2, <1>t DEF Fault, RestTypes, hookObjs
    <3>3. QED
      BY <3>1, <3>2 DEF HooksInv
  <2>3. ASSUME n # Null, Push(stack, Frame(n, Top.win, Top.msg, Null,
                                IF hwnd[n] = Top.win THEN "hooked" ELSE "left"), Top.msg),
               UNCHANGED <<own, hookVars, hookObjs, hooked, control, kept, default, fault>>
        PROVE  HooksInv'
    <3>1. Frame(n, Top.win, Top.msg, Null, IF hwnd[n] = Top.win THEN "hooked" ELSE "left") \in Frames
      BY <1>f, <2>1, <2>3, FrameType
    <3>2. stack' \in Seq(Frames) /\ win' \in [Windows -> {"none", "live", "dying"}]
      BY <2>3, <3>1, <1>t, PushTypes DEF RestTypes
    <3>3. ChainInv'
      BY <2>3, <1>s DEF hookObjs
    <3>4. RestTypes'
      BY <2>3, <3>2, <1>t DEF RestTypes, hookObjs
    <3>5. QED
      BY <3>3, <3>4 DEF HooksInv
  <2>4. ASSUME old[h] # Null, Call(old[h], hwnd[h], Top.msg, stack) PROVE HooksInv'
    <3>1. old[h] \in Procs \cup {Null} /\ hwnd[h] \in Windows
      BY <2>1, <2>4, <1>t DEF HookTypes, ChainInv, SavedInv
    <3>2. stack \in Seq(Frames)
      BY <1>t DEF RestTypes
    <3>3. QED
      BY <2>1, <2>4, <3>1, <3>2, <1>f, CallKeeps
  <2>5. QED
    BY <1>5, <2>2, <2>3, <2>4 DEF Forward
<1>6. CASE PassDestroy
  <2>1. stack # <<>> /\ Call(Top.then, Top.win, "ncdestroy", Popped)
    BY <1>6 DEF PassDestroy, Running
  <2>2. QED
    BY <2>1, <1>f, CallKeeps
<1>7. CASE ReturnHook
  <2>1. stack # <<>> /\ stack' = Popped
    BY <1>7 DEF ReturnHook, Running
  <2>2. ChainInv'
    BY <1>7, <1>s DEF ReturnHook, hookObjs
  <2>3. RestTypes'
    BY <1>7, <1>t, <1>f, <2>1 DEF ReturnHook, RestTypes, hookObjs
  <2>4. QED
    BY <2>2, <2>3 DEF HooksInv
<1>8. CASE ReturnControl \/ DestroyControl \/ KeepControl
  <2>1. stack # <<>> /\ Release(Top.win)
    BY <1>8, KeepReleases DEF ReturnControl, DestroyControl, KeepControl, Running
  <2>2. Top.win \in Windows
    BY <2>1, <1>f
  <2>3. ChainInv' /\ stack' \in Seq(Frames) /\ owner' \in [Hooks -> Windows \cup {Null}]
    BY <2>1, <2>2, ReleaseKeeps
  <2>4. RestTypes'
    BY <1>8, <1>t, <2>2, <2>3 DEF ReturnControl, DestroyControl, KeepControl, RestTypes
  <2>5. QED
    BY <2>3, <2>4 DEF HooksInv
<1>9. CASE UNCHANGED vars
  <2>1. ChainInv'
    BY <1>9, <1>s DEF vars, hookVars
  <2>2. RestTypes'
    BY <1>9, <1>t DEF vars, RestTypes
  <2>3. QED
    BY <2>1, <2>2 DEF HooksInv
<1>10. QED
  BY <1>p, <1>1, <1>2, <1>3, <1>4, <1>5, <1>6, <1>7, <1>8, <1>9 DEF Next

LEMMA InitHolds == Init => HooksInv
<1> SUFFICES ASSUME Init PROVE HooksInv
  OBVIOUS
<1>1. HookTypes /\ SavedInv
  BY HooksAssumption DEF Init, HookTypes, SavedInv, Procs
<1>2. ChainSound
  BY HooksAssumption DEF Init, ChainSound, On
<1>3. RestTypes
  BY HooksAssumption DEF Init, RestTypes
<1>4. QED
  BY <1>1, <1>2, <1>3 DEF HooksInv, ChainInv

LEMMA AlwaysHooksInv == Spec => []HooksInv
  BY InitHolds, StepKeeps, PTL DEF Spec

------------------------------------------------------------------------------
(* The order of the procedures.                                              *)

OrderInv == ProceduresInOrder /\ DeadIsForgotten /\ StackInv /\ ControlInv

\* The procedures as HookWindow and its inverse leave them.
Ordered(p, m, o, h) ==
    /\ \A w \in Windows : win[w] # "none" =>
        p[w] = IF m[w] # Null THEN "hooks" ELSE Below(w)
    /\ \A g \in Hooks : h[g] # Null => o[g] = Below(h[g])

LEMMA BelowType ==
    ASSUME RestTypes, NEW w \in Windows
    PROVE  Below(w) \in OwnProcs \cup {"control"} /\ Below(w) \notin {"hooks", Null}
<1>1. Below(w) \in OwnProcs \cup {"control"}
  BY DEF RestTypes, Below
<1>2. "hooks" \notin OwnProcs /\ Null \notin OwnProcs /\ Null # "control"
  BY HooksAssumption, Zenon
<1>3. QED
  BY <1>1, <1>2

LEMMA NoHooks ==
    ASSUME HooksInv, NEW w \in Windows, map[w] = Null
    PROVE  \A h \in Hooks : hwnd[h] # w
  BY ChainHasFront DEF HooksInv, On

LEMMA HookKeepsOrder ==
    ASSUME HooksInv, ProceduresInOrder, NEW h \in Hooks, NEW w \in Windows,
           win[w] # "none", Hook(h, w)
    PROVE  Ordered(proc', map', old', hwnd')
<1> USE HooksAssumption
<1>t. HookTypes
  BY DEF HooksInv, ChainInv
<1>1. /\ map' = [map EXCEPT ![w] = h] /\ hwnd' = [hwnd EXCEPT ![h] = w]
      /\ h # Null
  BY DEF Hook
<1>2. CASE map[w] = Null
  <2>1. old' = [old EXCEPT ![h] = proc[w]] /\ proc' = [proc EXCEPT ![w] = "hooks"]
    BY <1>2 DEF Hook, SetWindowLong
  <2>2. proc[w] = Below(w)
    BY <1>2 DEF ProceduresInOrder
  <2>3. QED
    BY <1>t, <1>1, <2>1, <2>2 DEF HookTypes, ProceduresInOrder, Ordered
<1>3. CASE map[w] # Null
  <2>1. old' = [old EXCEPT ![h] = old[map[w]]] /\ proc' = proc
    BY <1>3 DEF Hook
  <2>2. map[w] \in Hooks /\ hwnd[map[w]] = w
    BY <1>3, <1>t DEF HooksInv, ChainInv, ChainSound, HookTypes
  <2>3. old[map[w]] = Below(w) /\ proc[w] = "hooks"
    BY <1>3, <2>2 DEF ProceduresInOrder
  <2>4. QED
    BY <1>t, <1>1, <2>1, <2>3 DEF HookTypes, ProceduresInOrder, Ordered
<1>4. QED
  BY <1>2, <1>3

LEMMA UnhookKeepsOrder ==
    ASSUME HooksInv, ProceduresInOrder, NEW h \in Hooks, hwnd[h] # Null, Unhook(h)
    PROVE  Ordered(proc', map', old', hwnd')
<1> USE HooksAssumption
<1>t. HookTypes
  BY DEF HooksInv, ChainInv
<1>1. /\ old' = [old EXCEPT ![h] = Null] /\ hwnd' = [hwnd EXCEPT ![h] = Null]
      /\ hwnd[h] \in Windows /\ old[h] = Below(hwnd[h])
  BY <1>t DEF Unhook, HookTypes, ProceduresInOrder
<1>2. \A g \in Hooks : hwnd'[g] # Null => old'[g] = Below(hwnd'[g])
  BY <1>t, <1>1 DEF HookTypes, ProceduresInOrder
<1>3. CASE map[hwnd[h]] = h
  <2>1. /\ map' = [map EXCEPT ![hwnd[h]] = next[h]]
        /\ proc' = IF next[h] = Null THEN [proc EXCEPT ![hwnd[h]] = old[h]] ELSE proc
    BY <1>3 DEF Unhook, SetWindowLong
  <2>2. QED
    BY <1>t, <1>1, <1>2, <1>3, <2>1 DEF HookTypes, ProceduresInOrder, Ordered
<1>4. CASE UNCHANGED <<map, proc>>
  BY <1>2, <1>4 DEF ProceduresInOrder, Ordered
<1>5. QED
  BY <1>3, <1>4 DEF Unhook

LEMMA UnhookAllKeepsOrder ==
    ASSUME HooksInv, ProceduresInOrder, NEW w \in Windows, UnhookAll(w)
    PROVE  Ordered(proc', map', old', hwnd')
<1> USE HooksAssumption
<1>t. HookTypes
  BY DEF HooksInv, ChainInv
<1>1. /\ map' = [map EXCEPT ![w] = Null]
      /\ old' = [h \in Hooks |-> IF hwnd[h] = w THEN Null ELSE old[h]]
      /\ hwnd' = [h \in Hooks |-> IF hwnd[h] = w THEN Null ELSE hwnd[h]]
  BY DEF UnhookAll, On
<1>2. PICK last \in On(w) : proc' = [proc EXCEPT ![w] = old[last]]
  BY DEF UnhookAll, SetWindowLong
<1>3. old[last] = Below(w)
  BY <1>2 DEF On, ProceduresInOrder
<1>4. \A g \in Hooks : hwnd'[g] # Null => old'[g] = Below(hwnd'[g])
  BY <1>1 DEF ProceduresInOrder
<1>5. \A v \in Windows : win[v] # "none" =>
        proc'[v] = IF map'[v] # Null THEN "hooks" ELSE Below(v)
  BY <1>t, <1>1, <1>2, <1>3 DEF HookTypes, ProceduresInOrder
<1>6. QED
  BY <1>4, <1>5 DEF Ordered

------------------------------------------------------------------------------
(* The stack.                                                                *)

SameFrame(f, g) == f.at = g.at /\ f.win = g.win /\ f.msg = g.msg /\ f.then = g.then

LEMMA SameInterval ==
    ASSUME NEW a \in Nat, NEW b \in Nat, 1..a = 1..b
    PROVE  a = b
<1>1. (a = 0 \/ a \in 1..a) /\ (b = 0 \/ b \in 1..b)
  OBVIOUS
<1>2. (a = 0 \/ a \in 1..b) /\ (b = 0 \/ b \in 1..a)
  BY <1>1
<1>3. QED
  BY <1>2

LEMMA MarkSame ==
    ASSUME NEW s \in Seq(Frames), NEW hs, NEW what \in {"left", "gone"}
    PROVE  /\ DOMAIN Mark(s, hs, what) = DOMAIN s /\ Len(Mark(s, hs, what)) = Len(s)
           /\ \A i \in DOMAIN s : SameFrame(Mark(s, hs, what)[i], s[i])
<1>1. DOMAIN s = 1..Len(s) /\ Len(s) \in Nat
  OBVIOUS
<1>2. DOMAIN Mark(s, hs, what) = DOMAIN s
  BY DEF Mark
<1>3. Mark(s, hs, what) \in Seq(Frames)
  BY MarkType
<1>4. \A i \in DOMAIN s : s[i] \in Frames
  OBVIOUS
<1>5. \A f \in Frames : SameFrame([f EXCEPT !.since = what], f) /\ SameFrame(f, f)
  BY DEF Frames, SameFrame
<1>6. \A i \in DOMAIN s : SameFrame(Mark(s, hs, what)[i], s[i])
  BY <1>4, <1>5 DEF Mark
<1>7. Len(Mark(s, hs, what)) = Len(s)
  <2> DEFINE t == Mark(s, hs, what)
  <2>1. t \in Seq(Frames) /\ DOMAIN t = DOMAIN s
    BY <1>2, <1>3
  <2> HIDE DEF t
  <2>2. DOMAIN t = 1..Len(t) /\ Len(t) \in Nat
    BY <2>1
  <2>3. QED
    BY <1>1, <2>1, <2>2, SameInterval DEF t
<1>8. QED
  BY <1>2, <1>6, <1>7

LEMMA PoppedFrames ==
    ASSUME stack \in Seq(Frames), stack # <<>>
    PROVE  /\ Len(stack) \in Nat \ {0} /\ DOMAIN stack = 1..Len(stack)
           /\ Popped \in Seq(Frames) /\ Len(Popped) = Len(stack) - 1
           /\ DOMAIN Popped = 1..(Len(stack) - 1)
           /\ \A i \in DOMAIN Popped : Popped[i] = stack[i] /\ i \in DOMAIN stack /\ i # Len(stack)
           /\ \A i \in DOMAIN stack : i # Len(stack) => i \in DOMAIN Popped
           /\ Top = stack[Len(stack)] /\ Top \in Frames
<1>1. Len(stack) \in Nat \ {0} /\ DOMAIN stack = 1..Len(stack)
  OBVIOUS
<1>2. Popped \in Seq(Frames) /\ Top \in Frames
  BY TopType
<1>3. /\ Len(Popped) = Len(stack) - 1
      /\ \A i \in 1..(Len(stack) - 1) : Popped[i] = stack[i]
  BY <1>1 DEF Popped
<1>4. DOMAIN Popped = 1..(Len(stack) - 1)
  BY <1>2, <1>3, LenProperties
<1>5. QED
  BY <1>1, <1>2, <1>3, <1>4 DEF Top

\* The frames s, from which message m is about to be sent to window w.
Ready(s, w, m) ==
    /\ \A i \in DOMAIN s :
        LET f == s[i] IN
        /\ f.at # "hooks"
        /\ f.at \in Hooks => f.msg = "any"
        /\ f.at = "control" => f.win \in control \/ win[f.win] = "none"
        /\ f.msg = "ncdestroy" => win[f.win] = "dying" /\ (m = "ncdestroy" => f.win # w)
    /\ \A i, j \in DOMAIN s :
        IsDestroy(s[i], s[j].win) /\ s[j].msg = "ncdestroy" => i = j
    /\ \A v \in Windows : win[v] = "dying" /\ (m = "any" \/ v # w) =>
        \E i \in DOMAIN s : IsDestroy(s[i], v)
    /\ \A h \in Hooks : owner[h] # Null =>
        owner[h] \in control \/ \E i \in DOMAIN s : IsControl(s[i], owner[h])
    /\ \A h \in Hooks : hwnd[h] # Null /\ win[hwnd[h]] = "dying" =>
        \A i \in DOMAIN s : IsControl(s[i], hwnd[h]) =>
            \E j \in 1..i : IsDestroy(s[j], hwnd[h])

\* Any procedure but HookWndProc may send a message to a window, or destroy it.
LEMMA SenderIsReady ==
    ASSUME HooksInv, OrderInv, stack # <<>> => Top.at # "hooks",
           NEW w \in Windows, NEW m \in {"any", "ncdestroy"},
           m = "ncdestroy" => win[w] = "live"
    PROVE  Ready(stack, w, m)
<1>1. stack \in Seq(Frames)
  BY DEF HooksInv, RestTypes
<1>2. \A i \in DOMAIN stack : stack[i].at # "hooks"
  <2>1. ASSUME NEW i \in DOMAIN stack, stack[i].at = "hooks" PROVE FALSE
    <3>1. i = Len(stack) /\ stack # <<>>
      BY <1>1, <2>1 DEF OrderInv, StackInv
    <3>2. QED
      BY <2>1, <3>1 DEF Top
  <2>2. QED
    BY <2>1
<1>3. QED
  BY <1>2 DEF Ready, OrderInv, StackInv, ControlInv

\* HookWndProc passes WM_NCDESTROY on.
LEMMA PasserIsReady ==
    ASSUME HooksInv, OrderInv, stack # <<>>, Top.at = "hooks"
    PROVE  /\ Ready(Popped, Top.win, "ncdestroy") /\ win[Top.win] # "none"
           /\ Top.win \in Windows /\ map[Top.win] = Null /\ Top.then = Below(Top.win)
<1> USE HooksAssumption
<1>1. stack \in Seq(Frames)
  BY DEF HooksInv, RestTypes
<1> DEFINE n == Len(stack)
<1>2. /\ n \in DOMAIN stack /\ Top = stack[n] /\ Top \in Frames
      /\ DOMAIN stack = 1..n /\ n \in Nat
      /\ \A i \in DOMAIN Popped : Popped[i] = stack[i] /\ i \in DOMAIN stack /\ i # n /\ i \in 1..(n - 1)
      /\ \A i \in DOMAIN stack : i # n => i \in DOMAIN Popped
      /\ DOMAIN Popped = 1..(n - 1)
  BY <1>1, PoppedFrames
<1>3. /\ stack[n].msg = "ncdestroy" /\ map[Top.win] = Null /\ Top.then = Below(Top.win)
      /\ win[Top.win] = "dying" /\ Top.win \in Windows
  BY <1>2 DEF OrderInv, StackInv, Frames
<1> HIDE DEF n
<1>4. ASSUME NEW i \in DOMAIN Popped
      PROVE  LET f == Popped[i] IN
             /\ f.at # "hooks"
             /\ f.at \in Hooks => f.msg = "any"
             /\ f.at = "control" => f.win \in control \/ win[f.win] = "none"
             /\ f.msg = "ncdestroy" => win[f.win] = "dying" /\ f.win # Top.win
  <2>1. Popped[i] = stack[i] /\ i \in DOMAIN stack /\ i # n
    BY <1>2
  <2>2. stack[i].at # "hooks"
    BY <2>1 DEF OrderInv, StackInv, n
  <2>3. stack[i].msg = "ncdestroy" => stack[i].win # Top.win
    BY <2>1, <1>2, <1>3 DEF OrderInv, StackInv, IsDestroy
  <2>4. QED
    BY <2>1, <2>2, <2>3 DEF OrderInv, StackInv
<1>5. \A i, j \in DOMAIN Popped :
        IsDestroy(Popped[i], Popped[j].win) /\ Popped[j].msg = "ncdestroy" => i = j
  BY <1>2 DEF OrderInv, StackInv
<1>6. ASSUME NEW v \in Windows, win[v] = "dying", v # Top.win
      PROVE  \E i \in DOMAIN Popped : IsDestroy(Popped[i], v)
  <2>1. PICK i \in DOMAIN stack : IsDestroy(stack[i], v)
    BY <1>6 DEF OrderInv, StackInv
  <2>2. i # n
    BY <1>2, <1>6, <2>1 DEF IsDestroy
  <2>3. QED
    BY <1>2, <2>1, <2>2
<1>7. ASSUME NEW h \in Hooks, owner[h] # Null, owner[h] \notin control
      PROVE  \E i \in DOMAIN Popped : IsControl(Popped[i], owner[h])
  <2>1. PICK i \in DOMAIN stack : IsControl(stack[i], owner[h])
    BY <1>7 DEF OrderInv, ControlInv
  <2>2. i # n
    BY <1>2, <2>1 DEF IsControl
  <2>3. QED
    BY <1>2, <2>1, <2>2
<1>8. ASSUME NEW h \in Hooks, hwnd[h] # Null, win[hwnd[h]] = "dying",
             NEW i \in DOMAIN Popped, IsControl(Popped[i], hwnd[h])
      PROVE  \E j \in 1..i : IsDestroy(Popped[j], hwnd[h])
  <2>1. i \in DOMAIN stack /\ IsControl(stack[i], hwnd[h]) /\ i \in 1..(n - 1)
    BY <1>2, <1>8
  <2>2. PICK j \in 1..i : IsDestroy(stack[j], hwnd[h])
    BY <1>8, <2>1 DEF OrderInv, ControlInv
  <2>3. j \in DOMAIN Popped
    BY <1>2, <2>1, <2>2
  <2>4. QED
    BY <1>2, <2>2, <2>3
<1>9. QED
  BY <1>3, <1>4, <1>5, <1>6, <1>7, <1>8 DEF Ready

\* A procedure entered for message m of window w: f on top of s.
Pushed(s, f) ==
    /\ stack' \in Seq(Frames) /\ Len(stack') = Len(s) + 1
    /\ \A i \in DOMAIN s : SameFrame(stack'[i], s[i])
    /\ SameFrame(stack'[Len(s) + 1], f)

LEMMA AppendPushes ==
    ASSUME NEW s \in Seq(Frames), NEW t \in Seq(Frames), NEW f \in Frames,
           DOMAIN t = DOMAIN s, Len(t) = Len(s), \A i \in DOMAIN s : SameFrame(t[i], s[i]),
           stack' = Append(t, f)
    PROVE  Pushed(s, f)
<1>1. stack' \in Seq(Frames) /\ Len(stack') = Len(s) + 1
  OBVIOUS
<1>2. \A i \in DOMAIN s : stack'[i] = t[i]
  OBVIOUS
<1>3. stack'[Len(s) + 1] = f
  OBVIOUS
<1>4. QED
  BY <1>1, <1>2, <1>3 DEF Pushed, SameFrame

\* The frames of a stack with one frame more.
LEMMA PushedFrames ==
    ASSUME NEW s \in Seq(Frames), NEW f \in Frames, Pushed(s, f)
    PROVE  /\ Len(s) \in Nat /\ DOMAIN s = 1..Len(s) /\ DOMAIN stack' = 1..(Len(s) + 1)
           /\ Len(stack') = Len(s) + 1
           /\ \A i \in DOMAIN stack' :
                \/ i \in DOMAIN s /\ i # Len(s) + 1 /\ SameFrame(stack'[i], s[i])
                \/ i = Len(s) + 1 /\ i \notin DOMAIN s /\ SameFrame(stack'[i], f)
           /\ \A i \in DOMAIN s : i \in DOMAIN stack' /\ SameFrame(stack'[i], s[i])
           /\ Len(s) + 1 \in DOMAIN stack' /\ SameFrame(stack'[Len(s) + 1], f)
<1>1. Len(s) \in Nat /\ DOMAIN s = 1..Len(s)
  OBVIOUS
<1>2. DOMAIN stack' = 1..(Len(s) + 1) /\ Len(stack') = Len(s) + 1
  BY DEF Pushed
<1>3. QED
  BY <1>1, <1>2 DEF Pushed

LEMMA PushKeepsStack ==
    ASSUME HooksInv, HooksInv', NEW w \in Windows, NEW m \in {"any", "ncdestroy"},
           NEW s \in Seq(Frames), NEW f \in Frames, Ready(s, w, m), Pushed(s, f),
           f.win = w, f.msg = m, f.at \in Hooks => m = "any",
           f.at = "control" => w \in control',
           f.at = "hooks" => m = "ncdestroy" /\ map'[w] = Null /\ f.then = Below(w)',
           win' = IF m = "ncdestroy" THEN [win EXCEPT ![w] = "dying"] ELSE win,
           control \subseteq control', m = "ncdestroy" => win[w] # "none"
    PROVE  StackInv'
<1> USE HooksAssumption DEF SameFrame, IsDestroy
<1> DEFINE n == Len(s) + 1
<1>1. /\ \A i \in DOMAIN stack' :
           \/ i \in DOMAIN s /\ i # n /\ SameFrame(stack'[i], s[i])
           \/ i = n /\ i \notin DOMAIN s /\ SameFrame(stack'[i], f)
      /\ \A i \in DOMAIN s : i \in DOMAIN stack' /\ SameFrame(stack'[i], s[i])
      /\ n \in DOMAIN stack' /\ SameFrame(stack'[n], f) /\ n = Len(stack')
  BY PushedFrames
<1>t. win \in [Windows -> {"none", "live", "dying"}]
  BY DEF HooksInv, RestTypes
<1>w. /\ \A v \in Windows : v # w \/ m = "any" => win'[v] = win[v]
      /\ m = "ncdestroy" => win'[w] = "dying"
  BY <1>t
<1>f. \A i \in DOMAIN s : s[i].win \in Windows
  <2>1. \A i \in DOMAIN s : s[i] \in Frames
    OBVIOUS
  <2>2. QED
    BY <2>1 DEF Frames
<1> HIDE DEF n
<1>2. ASSUME NEW i \in DOMAIN stack'
      PROVE  LET g == stack'[i] IN
             /\ g.at \in Hooks => g.msg = "any"
             /\ g.at = "hooks" => /\ i = Len(stack') /\ g.msg = "ncdestroy"
                                  /\ map'[g.win] = Null
                                  /\ g.then = IF g.win \in hooked' THEN "control"
                                                                   ELSE own'[g.win]
             /\ g.at = "control" => g.win \in control' \/ win'[g.win] = "none"
             /\ g.msg = "ncdestroy" => win'[g.win] = "dying"
  <2>1. CASE i = n
    <3>1. stack'[i].at = f.at /\ stack'[i].win = w /\ stack'[i].msg = m /\ stack'[i].then = f.then
      BY <1>1, <2>1
    <3>2. f.at = "hooks" => f.then = IF w \in hooked' THEN "control" ELSE own'[w]
      BY DEF Below
    <3>3. QED
      BY <1>1, <1>w, <2>1, <3>1, <3>2
  <2>2. CASE i \in DOMAIN s /\ SameFrame(stack'[i], s[i])
    <3>1. /\ s[i].at # "hooks" /\ (s[i].at \in Hooks => s[i].msg = "any")
          /\ s[i].at = "control" => s[i].win \in control \/ win[s[i].win] = "none"
          /\ s[i].msg = "ncdestroy" => /\ win[s[i].win] = "dying"
                                       /\ m = "ncdestroy" => s[i].win # w
      BY <2>2 DEF Ready
    <3>2. s[i].win \in Windows
      BY <1>f, <2>2
    <3>3. QED
      BY <1>w, <2>2, <3>1, <3>2
  <2>3. QED
    BY <1>1, <2>1, <2>2
<1>3. ASSUME NEW i \in DOMAIN stack', NEW j \in DOMAIN stack',
             IsDestroy(stack'[i], stack'[j].win), stack'[j].msg = "ncdestroy"
      PROVE  i = j
  <2>1. CASE i \in DOMAIN s /\ j \in DOMAIN s
    BY <1>1, <1>3, <2>1 DEF Ready
  <2>2. CASE i = n /\ j \in DOMAIN s
    BY <1>1, <1>3, <2>2 DEF Ready
  <2>3. CASE j = n /\ i \in DOMAIN s
    BY <1>1, <1>3, <2>3 DEF Ready
  <2>4. QED
    BY <1>1, <2>1, <2>2, <2>3
<1>4. ASSUME NEW v \in Windows, win'[v] = "dying"
      PROVE  \E i \in DOMAIN stack' : IsDestroy(stack'[i], v)
  <2>1. CASE m = "ncdestroy" /\ v = w
    BY <1>1, <2>1
  <2>2. CASE m = "any" \/ v # w
    <3>1. PICK i \in DOMAIN s : IsDestroy(s[i], v)
      BY <1>w, <1>4, <2>2 DEF Ready
    <3>2. QED
      BY <1>1, <3>1
  <2>3. QED
    BY <2>1, <2>2
<1>5. QED
  BY <1>2, <1>3, <1>4 DEF StackInv, IsDestroy, Below

------------------------------------------------------------------------------
(* Every step keeps the order.                                               *)

LEMMA SameHooksOrder ==
    ASSUME ProceduresInOrder, UNCHANGED hookVars
    PROVE  Ordered(proc', map', old', hwnd')
  BY DEF ProceduresInOrder, Ordered, hookVars

LEMMA OrderedInOrder ==
    ASSUME ProceduresInOrder, Ordered(proc', map', old', hwnd'),
           \A v \in Windows : win'[v] # "none" => win[v] # "none",
           UNCHANGED <<own, hooked, default>>, fault' # "orphan"
    PROVE  ProceduresInOrder'
  BY DEF ProceduresInOrder, Ordered, Below

\* What a message may come to: a procedure of the window, if it is there.
LEMMA CalledProcedure ==
    ASSUME HooksInv, OrderInv, NEW w \in Windows, win[w] # "none",
           NEW p \in {proc[w], Below(w)}
    PROVE  /\ p \in Procs
           /\ p = "hooks" => map[w] # Null
           /\ p = "control" => w \in hooked
           /\ p \in OwnProcs => w \notin hooked
<1>1. RestTypes /\ Below(w) # "hooks" /\ "control" \notin OwnProcs /\ "hooks" \notin OwnProcs
  <2>1. "control" \notin OwnProcs /\ "hooks" \notin OwnProcs
    BY HooksAssumption, Zenon
  <2>2. QED
    BY <2>1, BelowType DEF HooksInv
<1>2. proc[w] = IF map[w] # Null THEN "hooks" ELSE Below(w)
  BY DEF OrderInv, ProceduresInOrder
<1>3. own[w] \in OwnProcs
  BY <1>1 DEF RestTypes
<1>4. QED
  BY <1>1, <1>2, <1>3 DEF Below, Procs

LEMMA CallOwnKeepsOrder ==
    ASSUME HooksInv, HooksInv', OrderInv,
           NEW w \in Windows, NEW m \in {"any", "ncdestroy"}, NEW s \in Seq(Frames),
           Ready(s, w, m), win[w] # "none", w \notin hooked, m = "ncdestroy" => map[w] = Null,
           CallOwn(w, m, s)
    PROVE  OrderInv'
<1> USE HooksAssumption
<1>1. /\ stack' = s
      /\ win' = IF m = "ncdestroy" THEN [win EXCEPT ![w] = "none"] ELSE win
      /\ UNCHANGED <<own, hookVars, hookObjs, hooked, control, kept, default, fault>>
  BY DEF CallOwn
<1>t. win \in [Windows -> {"none", "live", "dying"}]
  BY DEF HooksInv, RestTypes
<1>w. /\ \A v \in Windows : v # w \/ m = "any" => win'[v] = win[v]
      /\ m = "ncdestroy" => win'[w] = "none"
  BY <1>1, <1>t
<1>2. ProceduresInOrder'
  <2>1. \A v \in Windows : win'[v] # "none" => win[v] # "none"
    BY <1>w DEF Ready
  <2>2. QED
    BY <1>1, <2>1, SameHooksOrder, OrderedInOrder DEF OrderInv, ProceduresInOrder
<1>3. DeadIsForgotten'
  <2>1. m = "ncdestroy" => map[w] = Null /\ On(w) = {} /\ w \notin hooked \cup control
    BY NoHooks DEF On, OrderInv, ControlInv
  <2>2. \A v \in Windows : On(v)' = On(v)
    BY <1>1 DEF On, hookVars
  <2>3. QED
    BY <1>1, <1>w, <2>1, <2>2 DEF OrderInv, DeadIsForgotten, hookVars
<1>4. StackInv'
  <2>0. \A i \in DOMAIN s : s[i].win \in Windows
    <3>1. \A i \in DOMAIN s : s[i] \in Frames
      OBVIOUS
    <3>2. QED
      BY <3>1 DEF Frames
  <2>1. ASSUME NEW i \in DOMAIN s
        PROVE  /\ s[i].at # "hooks"
               /\ s[i].at \in Hooks => s[i].msg = "any"
               /\ s[i].at = "control" => s[i].win \in control \/ win'[s[i].win] = "none"
               /\ s[i].msg = "ncdestroy" => win'[s[i].win] = "dying"
    BY <1>w, <2>0 DEF Ready
  <2>2. \A i, j \in DOMAIN s :
          IsDestroy(s[i], s[j].win) /\ s[j].msg = "ncdestroy" => i = j
    BY DEF Ready
  <2>3. \A v \in Windows : win'[v] = "dying" => \E i \in DOMAIN s : IsDestroy(s[i], v)
    BY <1>w DEF Ready
  <2>4. stack' = s /\ control' = control
    BY <1>1
  <2>5. QED
    BY <2>1, <2>2, <2>3, <2>4 DEF StackInv
<1>5. ControlInv'
  <2>1. UNCHANGED <<control, hooked, owner, hwnd>>
    BY <1>1 DEF hookVars, hookObjs
  <2>2. \A h \in Hooks : hwnd[h] # Null => hwnd[h] \in Windows
    BY DEF HooksInv, ChainInv, HookTypes
  <2>3. \A h \in Hooks : hwnd[h] # Null /\ win'[hwnd[h]] = "dying" => win[hwnd[h]] = "dying"
    BY <1>w, <2>2
  <2>4. \A h \in Hooks : owner[h] # Null =>
          owner[h] \in control \/ \E i \in DOMAIN s : IsControl(s[i], owner[h])
    BY DEF Ready
  <2>5. \A h \in Hooks : hwnd[h] # Null /\ win'[hwnd[h]] = "dying" =>
          /\ owner[h] = hwnd[h]
          /\ \A i \in DOMAIN s : IsControl(s[i], hwnd[h]) =>
              \E j \in 1..i : IsDestroy(s[j], hwnd[h])
    BY <2>3 DEF Ready, OrderInv, ControlInv
  <2>6. QED
    BY <1>1, <2>1, <2>4, <2>5 DEF OrderInv, ControlInv
<1>6. QED
  BY <1>2, <1>3, <1>4, <1>5 DEF OrderInv

\* The frames below a procedure that was just entered answer for the hooks of the
\* controls and of the dying windows.
LEMMA PushKeepsControl ==
    ASSUME HooksInv, HooksInv', OrderInv, NEW w \in Windows, NEW m \in {"any", "ncdestroy"},
           NEW s \in Seq(Frames), NEW f \in Frames, Ready(s, w, m), Pushed(s, f),
           f.win = w, f.msg = m, f.at # "control" \/ w \in control',
           win' = IF m = "ncdestroy" THEN [win EXCEPT ![w] = "dying"] ELSE win,
           control \subseteq control', control' \subseteq hooked', owner' = owner,
           \A h \in Hooks : hwnd'[h] # Null => hwnd'[h] = hwnd[h],
           m = "ncdestroy" => \A h \in Hooks : hwnd'[h] # w
    PROVE  ControlInv'
<1> USE HooksAssumption
<1> DEFINE n == Len(s) + 1
<1>1. /\ \A i \in DOMAIN stack' :
           \/ i \in DOMAIN s /\ i # n /\ SameFrame(stack'[i], s[i])
           \/ i = n /\ i \notin DOMAIN s /\ SameFrame(stack'[i], f)
      /\ \A i \in DOMAIN s : i \in DOMAIN stack' /\ SameFrame(stack'[i], s[i])
      /\ n \in DOMAIN stack' /\ SameFrame(stack'[n], f) /\ n = Len(stack')
      /\ n \in Nat /\ DOMAIN s = 1..(n - 1)
  BY PushedFrames
<1> HIDE DEF n
<1>t. /\ win \in [Windows -> {"none", "live", "dying"}]
      /\ \A h \in Hooks : hwnd[h] # Null => hwnd[h] \in Windows
  BY DEF HooksInv, RestTypes, ChainInv, HookTypes
<1>w. \A v \in Windows : v # w \/ m = "any" => win'[v] = win[v]
  BY <1>t
<1>2. ASSUME NEW h \in Hooks, owner[h] # Null
      PROVE  /\ hwnd'[h] \in {owner[h], Null}
             /\ owner[h] \in control' \/ \E i \in DOMAIN stack' : IsControl(stack'[i], owner[h])
             /\ \A g \in Hooks : owner[g] = owner[h] => g = h
  <2>1. CASE owner[h] \in control
    BY <1>2, <2>1 DEF OrderInv, ControlInv
  <2>2. CASE owner[h] \notin control
    <3>1. PICK i \in DOMAIN s : IsControl(s[i], owner[h])
      BY <1>2, <2>2 DEF Ready
    <3>2. i \in DOMAIN stack' /\ IsControl(stack'[i], owner[h])
      BY <1>1, <3>1 DEF IsControl, SameFrame
    <3>3. QED
      BY <1>2, <3>2 DEF OrderInv, ControlInv
  <2>3. QED
    BY <2>1, <2>2
<1>3. ASSUME NEW h \in Hooks, hwnd'[h] # Null, win'[hwnd[h]] = "dying"
      PROVE  /\ owner[h] = hwnd[h]
             /\ \A i \in DOMAIN stack' : IsControl(stack'[i], hwnd[h]) =>
                 \E j \in 1..i : IsDestroy(stack'[j], hwnd[h])
  <2>0. hwnd[h] # Null /\ hwnd[h] \in Windows /\ (m = "ncdestroy" => hwnd[h] # w)
    BY <1>3, <1>t
  <2>1. win[hwnd[h]] = "dying"
    BY <1>3, <1>w, <2>0
  <2>2. owner[h] = hwnd[h]
    BY <2>0, <2>1 DEF OrderInv, ControlInv
  <2>3. ASSUME NEW i \in DOMAIN stack', IsControl(stack'[i], hwnd[h])
        PROVE  \E j \in 1..i : IsDestroy(stack'[j], hwnd[h])
    <3>1. CASE i \in DOMAIN s
      <4>1. IsControl(s[i], hwnd[h])
        BY <1>1, <2>3, <3>1 DEF IsControl, SameFrame
      <4>2. PICK j \in 1..i : IsDestroy(s[j], hwnd[h])
        BY <2>0, <2>1, <3>1, <4>1 DEF Ready
      <4>3. j \in DOMAIN s
        BY <1>1, <3>1, <4>2
      <4>4. QED
        BY <1>1, <4>2, <4>3 DEF IsDestroy, SameFrame
    <3>2. CASE i = n
      <4>1. PICK j \in DOMAIN s : IsDestroy(s[j], hwnd[h])
        BY <2>0, <2>1 DEF Ready
      <4>2. j \in 1..n
        BY <1>1, <4>1
      <4>3. QED
        BY <1>1, <3>2, <4>1, <4>2 DEF IsDestroy, SameFrame
    <3>3. QED
      BY <1>1, <3>1, <3>2
  <2>4. QED
    BY <2>2, <2>3
<1>4. \A h \in Hooks : hwnd'[h] # Null /\ win'[hwnd'[h]] = "dying" =>
        /\ owner'[h] = hwnd'[h]
        /\ \A i \in DOMAIN stack' : IsControl(stack'[i], hwnd'[h]) =>
            \E j \in 1..i : IsDestroy(stack'[j], hwnd'[h])
  BY <1>3
<1>5. QED
  BY <1>2, <1>4 DEF ControlInv, IsControl, IsDestroy

\* A window that was gone is gone after a procedure was entered, and as forgotten.
LEMMA PushKeepsDead ==
    ASSUME HooksInv, OrderInv, NEW w \in Windows, win[w] # "none",
           \A v \in Windows : v # w => win'[v] = win[v],
           win'[w] # "none", hooked' = hooked,
           \A v \in Windows : v # w => (map'[v] = map[v] /\ (v \in control' <=> v \in control)),
           \A h \in Hooks : hwnd'[h] \in {hwnd[h], w, Null}
    PROVE  DeadIsForgotten'
<1>1. ASSUME NEW v \in Windows, win'[v] = "none"
      PROVE  map'[v] = Null /\ (\A h \in Hooks : hwnd'[h] # v) /\ v \notin hooked' \cup control'
  <2>1. v # w /\ win[v] = "none" /\ v # Null
    BY <1>1, HooksAssumption
  <2>2. map[v] = Null /\ (\A h \in Hooks : hwnd[h] # v) /\ v \notin hooked \cup control
    BY <2>1 DEF OrderInv, DeadIsForgotten, On
  <2>3. QED
    BY <2>1, <2>2
<1>2. QED
  BY <1>1 DEF DeadIsForgotten, On

LEMMA PushWin ==
    ASSUME RestTypes, NEW s, NEW f, NEW m, f.win \in Windows, win[f.win] # "none", Push(s, f, m)
    PROVE  /\ win' = IF m = "ncdestroy" THEN [win EXCEPT ![f.win] = "dying"] ELSE win
           /\ \A v \in Windows : v # f.win => win'[v] = win[v]
           /\ win'[f.win] # "none"
           /\ \A v \in Windows : win'[v] # "none" => win[v] # "none"
           /\ \A v \in Windows : win'[v] = "dying" => win[v] = "dying" \/ (v = f.win /\ m = "ncdestroy")
  BY DEF Push, RestTypes

\* A procedure enters ControlProc, whose control may hook its window.
LEMMA CallControlKeepsOrder ==
    ASSUME HooksInv, HooksInv', OrderInv,
           NEW w \in Windows, NEW m \in {"any", "ncdestroy"}, NEW s \in Seq(Frames),
           Ready(s, w, m), win[w] # "none", w \in hooked, m = "ncdestroy" => map[w] = Null,
           CallControl(w, m, s)
    PROVE  OrderInv'
<1> USE HooksAssumption
<1> DEFINE f == Frame("control", w, m, Null, "hooked")
<1>1. /\ Push(s, f, m) /\ stack' = Append(s, f) /\ control' = control \cup {w}
      /\ UNCHANGED <<own, hooked, kept, default, fault>>
  BY DEF CallControl, Push
<1>f. f \in Frames /\ f.at = "control" /\ f.win = w /\ f.msg = m
  BY FrameType DEF Frame
<1> HIDE DEF f
<1>t. RestTypes /\ win[w] # "none"
  BY DEF HooksInv, Ready
<1>w. /\ win' = IF m = "ncdestroy" THEN [win EXCEPT ![w] = "dying"] ELSE win
      /\ \A v \in Windows : v # w => win'[v] = win[v]
      /\ win'[w] # "none"
      /\ \A v \in Windows : win'[v] # "none" => win[v] # "none"
      /\ \A v \in Windows : win'[v] = "dying" => win[v] = "dying" \/ (v = w /\ m = "ncdestroy")
  BY <1>1, <1>f, <1>t, PushWin
<1>2. Pushed(s, f)
  BY <1>1, <1>f, AppendPushes DEF SameFrame
<1>3. f.at \notin Hooks /\ f.at # "hooks"
  <2>1. "control" \notin Hooks
    BY HooksAssumption, Zenon
  <2>2. QED
    BY <1>f, <2>1
<1>4. StackInv'
  BY <1>1, <1>2, <1>3, <1>f, <1>w, PushKeepsStack
<1>5. control \subseteq control' /\ control' \subseteq hooked'
  BY <1>1 DEF OrderInv, ControlInv
<1>6. CASE UNCHANGED <<hookVars, hookObjs>>
  <2>1. ProceduresInOrder'
    BY <1>1, <1>6, <1>w, SameHooksOrder, OrderedInOrder DEF OrderInv, ProceduresInOrder
  <2>2. DeadIsForgotten'
    BY <1>1, <1>6, <1>t, <1>w, PushKeepsDead DEF hookVars
  <2>3. m = "ncdestroy" => \A h \in Hooks : hwnd'[h] # w
    BY <1>6, NoHooks DEF hookVars
  <2>4. ControlInv'
    BY <1>1, <1>2, <1>5, <1>6, <1>f, <1>w, <2>3, PushKeepsControl DEF hookVars, hookObjs
  <2>5. QED
    BY <1>4, <2>1, <2>2, <2>4 DEF OrderInv
<1>7. CASE ~UNCHANGED <<hookVars, hookObjs>>
  <2>1. PICK h \in Hooks \ live : /\ w \notin control /\ Hook(h, w)
                                  /\ owner' = [owner EXCEPT ![h] = w]
    BY <1>7 DEF CallControl
  <2>2. /\ hwnd[h] = Null
        /\ hwnd' = [hwnd EXCEPT ![h] = w] /\ map' = [map EXCEPT ![w] = h]
    BY <2>1 DEF Hook, HooksInv, ChainInv, ChainSound
  <2>t. /\ hwnd \in [Hooks -> Windows \cup {Null}] /\ map \in [Windows -> Hooks \cup {Null}]
        /\ owner \in [Hooks -> Windows \cup {Null}]
        /\ win \in [Windows -> {"none", "live", "dying"}]
    BY DEF HooksInv, ChainInv, HookTypes, RestTypes
  <2>3. ProceduresInOrder'
    BY <1>1, <1>t, <1>w, <2>1, HookKeepsOrder, OrderedInOrder DEF OrderInv, ProceduresInOrder
  <2>4. DeadIsForgotten'
    <3>1. \A v \in Windows : v # w => (map'[v] = map[v] /\ (v \in control' <=> v \in control))
      BY <1>1, <2>2, <2>t
    <3>2. \A g \in Hooks : hwnd'[g] \in {hwnd[g], w, Null}
      BY <2>2, <2>t
    <3>3. QED
      BY <1>1, <1>t, <1>w, <3>1, <3>2, PushKeepsDead
  <2>5. \A i \in DOMAIN s : ~IsControl(s[i], w)
    BY <1>t, <2>1 DEF Ready, IsControl
  <2>6. win[w] = "dying" => m = "ncdestroy"
    <3>1. SUFFICES ASSUME win[w] = "dying", m = "any" PROVE FALSE
      OBVIOUS
    <3>2. PICK i \in DOMAIN s : IsDestroy(s[i], w)
      BY <3>1 DEF Ready
    <3>3. s[i].at \in Hooks \cup {"control", "hooks"}
      <4>1. s[i] \in Frames
        OBVIOUS
      <4>2. QED
        BY <4>1 DEF Frames
    <3>4. s[i].at = "control"
      BY <3>2, <3>3 DEF Ready, IsDestroy
    <3>5. QED
      BY <2>5, <3>2, <3>4 DEF IsControl, IsDestroy
  <2>7. \A g \in Hooks : owner[g] # w
    <3>1. ASSUME NEW g \in Hooks, owner[g] = w PROVE FALSE
      <4>1. \E i \in DOMAIN s : IsControl(s[i], w)
        BY <2>1, <3>1 DEF Ready
      <4>2. QED
        BY <2>5, <4>1
    <3>2. QED
      BY <3>1
  <2>8. /\ \A i \in DOMAIN stack' :
             \/ i \in DOMAIN s /\ i # Len(s) + 1 /\ SameFrame(stack'[i], s[i])
             \/ i = Len(s) + 1 /\ i \notin DOMAIN s /\ SameFrame(stack'[i], f)
        /\ \A i \in DOMAIN s : i \in DOMAIN stack' /\ SameFrame(stack'[i], s[i])
        /\ Len(s) + 1 \in DOMAIN stack' /\ SameFrame(stack'[Len(s) + 1], f)
        /\ Len(s) \in Nat /\ DOMAIN s = 1..Len(s)
    BY <1>2, <1>f, PushedFrames
  <2>9. ASSUME NEW g \in Hooks, owner'[g] # Null
        PROVE  /\ hwnd'[g] \in {owner'[g], Null}
               /\ owner'[g] \in control'
                  \/ \E i \in DOMAIN stack' : IsControl(stack'[i], owner'[g])
               /\ \A k \in Hooks : owner'[k] = owner'[g] => k = g
    <3>1. CASE g = h
      BY <1>1, <2>1, <2>2, <2>7, <2>t, <3>1
    <3>2. CASE g # h
      <4>1. owner'[g] = owner[g] /\ hwnd'[g] = hwnd[g] /\ owner[g] # w
        BY <2>1, <2>2, <2>7, <2>t, <3>2
      <4>2. \A k \in Hooks : owner'[k] = owner[g] => k = g
        BY <2>1, <2>9, <2>t, <4>1 DEF OrderInv, ControlInv
      <4>3. owner[g] \in control' \/ \E i \in DOMAIN stack' : IsControl(stack'[i], owner[g])
        <5>1. CASE owner[g] \in control
          BY <1>5, <5>1
        <5>2. CASE \E i \in DOMAIN s : IsControl(s[i], owner[g])
          BY <2>8, <5>2 DEF IsControl, SameFrame
        <5>3. QED
          BY <2>9, <4>1, <5>1, <5>2 DEF Ready
      <4>4. hwnd[g] \in {owner[g], Null}
        BY <2>9, <4>1 DEF OrderInv, ControlInv
      <4>5. QED
        BY <4>1, <4>2, <4>3, <4>4
    <3>3. QED
      BY <3>1, <3>2
  <2>10. ASSUME NEW g \in Hooks, hwnd'[g] # Null, win'[hwnd'[g]] = "dying"
         PROVE  /\ owner'[g] = hwnd'[g]
                /\ \A i \in DOMAIN stack' : IsControl(stack'[i], hwnd'[g]) =>
                    \E j \in 1..i : IsDestroy(stack'[j], hwnd'[g])
    <3>1. CASE g = h
      <4>1. hwnd'[g] = w /\ owner'[g] = w /\ m = "ncdestroy"
        BY <1>w, <2>1, <2>2, <2>6, <2>10, <2>t, <3>1
      <4>2. ASSUME NEW i \in DOMAIN stack', IsControl(stack'[i], w)
            PROVE  \E j \in 1..i : IsDestroy(stack'[j], w)
        <5>1. i = Len(s) + 1
          BY <2>5, <2>8, <4>2 DEF IsControl, SameFrame
        <5>2. i \in 1..i /\ IsDestroy(stack'[i], w)
          BY <1>f, <2>8, <4>1, <5>1 DEF IsDestroy, SameFrame
        <5>3. QED
          BY <5>2
      <4>3. QED
        BY <4>1, <4>2
    <3>2. CASE g # h
      <4>1. owner'[g] = owner[g] /\ hwnd'[g] = hwnd[g] /\ hwnd[g] \in Windows
        BY <2>1, <2>2, <2>10, <2>t, <3>2
      <4>2. hwnd[g] # w /\ win[hwnd[g]] = "dying"
        <5>1. hwnd[g] = w => m = "ncdestroy"
          BY <1>w, <2>6, <2>10, <4>1
        <5>2. hwnd[g] # w
          BY <5>1, NoHooks
        <5>3. QED
          BY <1>w, <2>10, <4>1, <5>2
      <4>3. owner[g] = hwnd[g]
        BY <2>10, <4>1, <4>2 DEF OrderInv, ControlInv
      <4>4. ASSUME NEW i \in DOMAIN stack', IsControl(stack'[i], hwnd[g])
            PROVE  \E j \in 1..i : IsDestroy(stack'[j], hwnd[g])
        <5>1. i \in DOMAIN s /\ IsControl(s[i], hwnd[g])
          BY <1>f, <2>8, <4>2, <4>4 DEF IsControl, SameFrame
        <5>2. PICK j \in 1..i : IsDestroy(s[j], hwnd[g])
          BY <2>10, <4>1, <4>2, <5>1 DEF Ready
        <5>3. j \in DOMAIN s
          BY <2>8, <5>1, <5>2
        <5>4. QED
          BY <2>8, <5>2, <5>3 DEF IsDestroy, SameFrame
      <4>5. QED
        BY <4>1, <4>3, <4>4
    <3>3. QED
      BY <3>1, <3>2
  <2>11. ControlInv'
    BY <1>5, <2>9, <2>10 DEF ControlInv, IsControl, IsDestroy
  <2>12. QED
    BY <1>4, <2>3, <2>4, <2>11 DEF OrderInv
<1>8. QED
  BY <1>6, <1>7

\* A procedure enters HookWndProc, and with it the first hook, or none of them.
LEMMA CallHooksKeepsOrder ==
    ASSUME HooksInv, HooksInv', OrderInv,
           NEW w \in Windows, NEW m \in {"any", "ncdestroy"}, NEW s \in Seq(Frames),
           Ready(s, w, m), win[w] # "none", map[w] # Null, CallHooks(w, m, s)
    PROVE  OrderInv'
<1> USE HooksAssumption
<1>t. RestTypes /\ HookTypes /\ win[w] # "none"
  BY DEF HooksInv, ChainInv, Ready
<1>c. "control" \notin Hooks /\ "hooks" \notin Hooks
  BY HooksAssumption, Zenon
<1>s. DOMAIN s = DOMAIN s /\ Len(s) = Len(s) /\ \A i \in DOMAIN s : SameFrame(s[i], s[i])
  BY DEF SameFrame
<1>1. CASE m = "any"
  <2> DEFINE f == Frame(map[w], w, m, Null, "hooked")
  <2>1. /\ Push(s, f, m) /\ stack' = Append(s, f)
        /\ UNCHANGED <<own, hookVars, hookObjs, hooked, control, kept, default, fault>>
    BY <1>1 DEF CallHooks, Push
  <2>2. f \in Frames /\ f.at \in Hooks /\ f.win = w /\ f.msg = m
    BY <1>t, FrameType DEF Frame, HookTypes
  <2> HIDE DEF f
  <2>3. Pushed(s, f)
    BY <1>s, <2>1, <2>2, AppendPushes
  <2>4. win' = win
    BY <1>1, <2>1 DEF Push
  <2>5. f.at # "control" /\ f.at # "hooks"
    BY <1>c, <2>2
  <2>6. StackInv'
    BY <1>1, <2>1, <2>2, <2>3, <2>4, <2>5, PushKeepsStack
  <2>7. control' \subseteq hooked'
    BY <2>1 DEF OrderInv, ControlInv
  <2>8. ControlInv'
    BY <1>1, <2>1, <2>2, <2>3, <2>4, <2>5, <2>7, PushKeepsControl DEF hookVars, hookObjs
  <2>9. ProceduresInOrder'
    BY <2>1, <2>4, SameHooksOrder, OrderedInOrder DEF OrderInv, ProceduresInOrder
  <2>10. DeadIsForgotten'
    BY <2>1, <2>4 DEF OrderInv, DeadIsForgotten, On, hookVars
  <2>11. QED
    BY <2>6, <2>8, <2>9, <2>10 DEF OrderInv
<1>2. CASE m = "ncdestroy"
  <2> DEFINE f == Frame("hooks", w, m, old[map[w]], "hooked")
             t == Mark(s, On(w), "left")
  <2>1. /\ Push(t, f, m) /\ stack' = Append(t, f) /\ UnhookAll(w)
        /\ UNCHANGED <<own, hookObjs, hooked, control, kept, default, fault>>
    BY <1>2 DEF CallHooks, Push
  <2>2. f \in Frames /\ f.at = "hooks" /\ f.win = w /\ f.msg = m /\ f.then = old[map[w]]
    BY <1>t, FrameType DEF Frame, HookTypes
  <2>3. t \in Seq(Frames) /\ DOMAIN t = DOMAIN s /\ Len(t) = Len(s)
        /\ \A i \in DOMAIN s : SameFrame(t[i], s[i])
    BY MarkType, MarkSame
  <2> HIDE DEF f, t
  <2>4. Pushed(s, f)
    BY <2>1, <2>2, <2>3, AppendPushes
  <2>w. /\ win' = IF m = "ncdestroy" THEN [win EXCEPT ![w] = "dying"] ELSE win
        /\ \A v \in Windows : v # w => win'[v] = win[v]
        /\ win'[w] # "none"
        /\ \A v \in Windows : win'[v] # "none" => win[v] # "none"
    BY <1>t, <2>1, <2>2, PushWin
  <2>5. /\ map' = [map EXCEPT ![w] = Null] /\ map'[w] = Null
        /\ hwnd' = [h \in Hooks |-> IF hwnd[h] = w THEN Null ELSE hwnd[h]]
    BY <1>t, <2>1 DEF UnhookAll, On, HookTypes
  <2>6. f.then = Below(w)'
    <3>1. map[w] \in Hooks /\ hwnd[map[w]] = w
      BY <1>t DEF HooksInv, ChainInv, ChainSound, HookTypes
    <3>2. old[map[w]] = Below(w)
      BY <3>1 DEF OrderInv, ProceduresInOrder
    <3>3. QED
      BY <2>1, <2>2, <3>2 DEF Below
  <2>7. f.at # "control" /\ f.at \notin Hooks
    BY <1>c, <2>2
  <2>8. StackInv'
    BY <1>2, <2>1, <2>2, <2>4, <2>5, <2>6, <2>7, <2>w, PushKeepsStack
  <2>9. control' \subseteq hooked'
    BY <2>1 DEF OrderInv, ControlInv
  <2>10. \A h \in Hooks : (hwnd'[h] # Null => hwnd'[h] = hwnd[h]) /\ hwnd'[h] # w
    BY <2>5
  <2>11. ControlInv'
    BY <2>1, <2>2, <2>4, <2>7, <2>9, <2>10, <2>w, PushKeepsControl DEF hookObjs
  <2>12. ProceduresInOrder'
    BY <2>1, <2>w, UnhookAllKeepsOrder, OrderedInOrder DEF OrderInv, ProceduresInOrder
  <2>13. DeadIsForgotten'
    <3>1. \A v \in Windows : v # w => map'[v] = map[v]
      BY <1>t, <2>5 DEF HookTypes
    <3>2. \A h \in Hooks : hwnd'[h] \in {hwnd[h], w, Null}
      BY <2>5
    <3>3. QED
      BY <1>t, <2>1, <2>w, <3>1, <3>2, PushKeepsDead
  <2>14. QED
    BY <2>8, <2>11, <2>12, <2>13 DEF OrderInv
<1>3. QED
  BY <1>1, <1>2

LEMMA CallKeepsOrder ==
    ASSUME HooksInv, HooksInv', OrderInv,
           NEW w \in Windows, NEW m \in {"any", "ncdestroy"}, NEW s \in Seq(Frames),
           Ready(s, w, m), win[w] # "none", NEW p \in {proc[w], Below(w)},
           m = "ncdestroy" => p = "hooks" \/ map[w] = Null, Call(p, w, m, s)
    PROVE  OrderInv'
<1>1. /\ p \in Procs
      /\ p = "hooks" => map[w] # Null
      /\ p = "control" => w \in hooked
      /\ p \in OwnProcs => w \notin hooked
  BY CalledProcedure DEF Ready
<1>2. /\ "hooks" \notin OwnProcs /\ "control" \notin OwnProcs /\ Null \notin OwnProcs
      /\ "hooks" # Null /\ "control" # Null
  <2>1. "hooks" \notin OwnProcs /\ "control" \notin OwnProcs
    BY HooksAssumption, Zenon
  <2>2. "hooks" # Null /\ "control" # Null
    BY HooksAssumption, Zenon
  <2>3. Null \notin OwnProcs
    BY HooksAssumption
  <2>4. QED
    BY <2>1, <2>2, <2>3
<1>3. CASE p \in OwnProcs
  <2>1. CallOwn(w, m, s) /\ w \notin hooked /\ (m = "ncdestroy" => map[w] = Null)
    BY <1>1, <1>2, <1>3 DEF Call
  <2>2. QED
    BY <2>1, CallOwnKeepsOrder
<1>4. CASE p = "control"
  <2>1. CallControl(w, m, s) /\ w \in hooked /\ (m = "ncdestroy" => map[w] = Null)
    BY <1>1, <1>2, <1>4 DEF Call
  <2>2. QED
    BY <2>1, CallControlKeepsOrder
<1>5. CASE p = "hooks"
  <2>1. CallHooks(w, m, s) /\ map[w] # Null
    BY <1>1, <1>2, <1>5 DEF Call
  <2>2. QED
    BY <2>1, CallHooksKeepsOrder
<1>6. QED
  BY <1>1, <1>3, <1>4, <1>5 DEF Procs

\* A procedure that is not on its way with WM_NCDESTROY returns.
LEMMA PopKeepsStack ==
    ASSUME HooksInv, OrderInv, stack # <<>>, Top.msg = "any",
           stack' \in Seq(Frames), DOMAIN stack' = DOMAIN Popped,
           \A i \in DOMAIN Popped : SameFrame(stack'[i], Popped[i]),
           UNCHANGED <<win, control>>
    PROVE  StackInv'
<1> DEFINE n == Len(stack)
<1>0. stack \in Seq(Frames)
  BY DEF HooksInv, RestTypes
<1>1. /\ n \in DOMAIN stack /\ Top = stack[n]
      /\ \A i \in DOMAIN Popped : Popped[i] = stack[i] /\ i \in DOMAIN stack /\ i # n
      /\ \A i \in DOMAIN stack : i # n => i \in DOMAIN Popped
  BY <1>0, PoppedFrames
<1>2. \A i \in DOMAIN stack' : i \in DOMAIN stack /\ i # n /\ SameFrame(stack'[i], stack[i])
  BY <1>1
<1>3. \A i \in DOMAIN stack : i # n => i \in DOMAIN stack' /\ SameFrame(stack'[i], stack[i])
  BY <1>1
<1>4. \A i \in DOMAIN stack' : stack'[i].at # "hooks"
  BY <1>2 DEF OrderInv, StackInv, SameFrame
<1> HIDE DEF n
<1> USE DEF SameFrame, IsDestroy
<1>5. ASSUME NEW i \in DOMAIN stack'
      PROVE  /\ stack'[i].at \in Hooks => stack'[i].msg = "any"
             /\ stack'[i].at = "control" =>
                    stack'[i].win \in control \/ win[stack'[i].win] = "none"
             /\ stack'[i].msg = "ncdestroy" => win[stack'[i].win] = "dying"
  BY <1>2 DEF OrderInv, StackInv
<1>6. \A i, j \in DOMAIN stack' :
        IsDestroy(stack'[i], stack'[j].win) /\ stack'[j].msg = "ncdestroy" => i = j
  BY <1>2 DEF OrderInv, StackInv
<1>7. ASSUME NEW v \in Windows, win[v] = "dying"
      PROVE  \E i \in DOMAIN stack' : IsDestroy(stack'[i], v)
  <2>1. PICK i \in DOMAIN stack : IsDestroy(stack[i], v)
    BY <1>7 DEF OrderInv, StackInv
  <2>2. i # n
    BY <1>1, <2>1
  <2>3. QED
    BY <1>3, <2>1, <2>2
<1>8. QED
  BY <1>4, <1>5, <1>6, <1>7 DEF StackInv

LEMMA ReturnHookKeepsOrder ==
    ASSUME HooksInv, HooksInv', OrderInv, ReturnHook
    PROVE  OrderInv'
<1> DEFINE n == Len(stack)
<1>0. /\ stack # <<>> /\ Top.at \in Hooks /\ stack' = Popped
      /\ UNCHANGED <<win, own, hookVars, hookObjs, hooked, control, kept, default, fault>>
  BY DEF ReturnHook, Running
<1>t. stack \in Seq(Frames)
  BY DEF HooksInv, RestTypes
<1>1. /\ n \in DOMAIN stack /\ Top = stack[n] /\ n \in Nat /\ DOMAIN stack = 1..n
      /\ \A i \in DOMAIN Popped : Popped[i] = stack[i] /\ i \in DOMAIN stack /\ i # n
      /\ \A i \in DOMAIN stack : i # n => i \in DOMAIN Popped
      /\ Popped \in Seq(Frames) /\ DOMAIN Popped = 1..(n - 1)
  BY <1>0, <1>t, PoppedFrames
<1>2. Top.msg = "any" /\ Top.at # "control"
  <2>1. "control" \notin Hooks
    BY HooksAssumption, Zenon
  <2>2. QED
    BY <1>0, <1>1, <2>1 DEF OrderInv, StackInv
<1> HIDE DEF n
<1>3. StackInv'
  BY <1>0, <1>1, <1>2, PopKeepsStack DEF SameFrame
<1>4. ProceduresInOrder'
  BY <1>0, SameHooksOrder, OrderedInOrder DEF OrderInv, ProceduresInOrder
<1>5. DeadIsForgotten'
  BY <1>0 DEF OrderInv, DeadIsForgotten, On, hookVars
<1>6. ControlInv'
  <2>1. ASSUME NEW h \in Hooks, owner[h] # Null
        PROVE  owner[h] \in control \/ \E i \in DOMAIN Popped : IsControl(Popped[i], owner[h])
    <3>1. CASE \E i \in DOMAIN stack : IsControl(stack[i], owner[h])
      BY <1>1, <1>2, <3>1 DEF IsControl
    <3>2. QED
      BY <2>1, <3>1 DEF OrderInv, ControlInv
  <2>2. ASSUME NEW h \in Hooks, hwnd[h] # Null, win[hwnd[h]] = "dying",
               NEW i \in DOMAIN Popped, IsControl(Popped[i], hwnd[h])
        PROVE  \E j \in 1..i : IsDestroy(Popped[j], hwnd[h])
    <3>1. PICK j \in 1..i : IsDestroy(stack[j], hwnd[h])
      BY <1>1, <2>2 DEF OrderInv, ControlInv
    <3>2. j \in DOMAIN Popped
      BY <1>1, <2>2, <3>1
    <3>3. QED
      BY <1>1, <3>1, <3>2
  <2>3. stack' = Popped /\ UNCHANGED <<win, owner, hwnd, control, hooked>>
    BY <1>0 DEF hookVars, hookObjs
  <2>4. QED
    BY <2>1, <2>2, <2>3 DEF OrderInv, ControlInv
<1>7. QED
  BY <1>3, <1>4, <1>5, <1>6 DEF OrderInv

\* What is known when the ControlProc of w ends, with its frame at n of the stack.
LEMMA ReleaseFacts ==
    ASSUME HooksInv, OrderInv, stack # <<>>, Top.at = "control", NEW w \in Windows,
           w = Top.win, Release(w)
    PROVE  \/ /\ UNCHANGED <<hookVars, hookObjs>> /\ stack' = Popped
              /\ \/ w \in control'
                 \/ \E i \in DOMAIN Popped : IsControl(Popped[i], w)
                 \/ \A h \in Hooks : owner[h] # w
           \/ /\ w \notin control'
              /\ \A i \in DOMAIN Popped : ~IsControl(Popped[i], w)
              /\ \E h \in Hooks :
                   /\ owner[h] = w /\ Destruct(h) /\ live' = live \ {h}
                   /\ owner' = [owner EXCEPT ![h] = Null]
                   /\ stack' = Mark(Popped, {h}, "gone")
<1>1. CASE w \in control' \/ \E i \in DOMAIN Popped : Popped[i].at = "control" /\ Popped[i].win = w
  BY <1>1 DEF Release, IsControl
<1>2. CASE ~(w \in control' \/ \E i \in DOMAIN Popped : Popped[i].at = "control" /\ Popped[i].win = w)
  BY <1>2 DEF Release, IsControl
<1>3. QED
  BY <1>1, <1>2

\* The frames that are left when ControlProc ends.
LEMMA ReleaseFrames ==
    ASSUME HooksInv, stack # <<>>,
           stack' = Popped \/ \E h \in Hooks : stack' = Mark(Popped, {h}, "gone")
    PROVE  /\ stack' \in Seq(Frames) /\ DOMAIN stack' = DOMAIN Popped
           /\ \A i \in DOMAIN Popped : SameFrame(stack'[i], Popped[i])
           /\ \A i \in DOMAIN stack' :
                i \in DOMAIN stack /\ i \in 1..(Len(stack) - 1) /\ SameFrame(stack'[i], stack[i])
           /\ \A i \in DOMAIN stack : i # Len(stack) =>
                i \in DOMAIN stack' /\ SameFrame(stack'[i], stack[i])
           /\ Len(stack) \in DOMAIN stack /\ Top = stack[Len(stack)]
           /\ Len(stack) \in Nat /\ DOMAIN stack = 1..Len(stack)
           /\ DOMAIN stack' = 1..(Len(stack) - 1)
<1>0. stack \in Seq(Frames)
  BY DEF HooksInv, RestTypes
<1>1. /\ Len(stack) \in DOMAIN stack /\ Top = stack[Len(stack)]
      /\ Len(stack) \in Nat /\ DOMAIN stack = 1..Len(stack)
      /\ Popped \in Seq(Frames) /\ DOMAIN Popped = 1..(Len(stack) - 1)
      /\ \A i \in DOMAIN Popped : Popped[i] = stack[i] /\ i \in DOMAIN stack
      /\ \A i \in DOMAIN stack : i # Len(stack) => i \in DOMAIN Popped
  BY <1>0, PoppedFrames
<1>2. /\ stack' \in Seq(Frames) /\ DOMAIN stack' = DOMAIN Popped
      /\ \A i \in DOMAIN Popped : SameFrame(stack'[i], Popped[i])
  <2>1. CASE stack' = Popped
    BY <1>1, <2>1 DEF SameFrame
  <2>2. CASE \E h \in Hooks : stack' = Mark(Popped, {h}, "gone")
    BY <1>1, <2>2, MarkSame, MarkType
  <2>3. QED
    BY <2>1, <2>2
<1>3. QED
  BY <1>1, <1>2

\* ControlProc ends; if its control ends with it, its window was destroyed meanwhile,
\* and the hook is on it no more.
LEMMA ReturnControlKeepsOrder ==
    ASSUME HooksInv, HooksInv', OrderInv, ReturnControl
    PROVE  OrderInv'
<1> USE HooksAssumption
<1> DEFINE w == Top.win
           n == Len(stack)
<1>0. /\ stack # <<>> /\ Top.at = "control" /\ Top.msg = "any" /\ Release(w)
      /\ UNCHANGED <<win, own, hooked, control, kept, default, fault>>
  BY DEF ReturnControl, Running
<1>t. /\ stack \in Seq(Frames) /\ owner \in [Hooks -> Windows \cup {Null}]
      /\ hwnd \in [Hooks -> Windows \cup {Null}]
  BY DEF HooksInv, RestTypes, ChainInv, HookTypes
<1>w. w \in Windows
  BY <1>0, <1>t, TopType DEF Frames
<1>1. \/ /\ UNCHANGED <<hookVars, hookObjs>> /\ stack' = Popped
         /\ \/ w \in control'
            \/ \E i \in DOMAIN Popped : IsControl(Popped[i], w)
            \/ \A h \in Hooks : owner[h] # w
      \/ /\ w \notin control'
         /\ \A i \in DOMAIN Popped : ~IsControl(Popped[i], w)
         /\ \E h \in Hooks :
              /\ owner[h] = w /\ Destruct(h) /\ live' = live \ {h}
              /\ owner' = [owner EXCEPT ![h] = Null]
              /\ stack' = Mark(Popped, {h}, "gone")
  BY <1>0, <1>w, ReleaseFacts
<1>2. stack' = Popped \/ \E h \in Hooks : stack' = Mark(Popped, {h}, "gone")
  BY <1>1
<1>3. /\ stack' \in Seq(Frames) /\ DOMAIN stack' = DOMAIN Popped
      /\ \A i \in DOMAIN Popped : SameFrame(stack'[i], Popped[i])
      /\ \A i \in DOMAIN stack' :
           i \in DOMAIN stack /\ i \in 1..(n - 1) /\ SameFrame(stack'[i], stack[i])
      /\ \A i \in DOMAIN stack : i # n => i \in DOMAIN stack' /\ SameFrame(stack'[i], stack[i])
      /\ n \in DOMAIN stack /\ Top = stack[n]
      /\ n \in Nat /\ DOMAIN stack = 1..n /\ DOMAIN stack' = 1..(n - 1)
  BY <1>0, <1>2, ReleaseFrames
<1>4. w \in control \/ win[w] = "none"
  BY <1>0, <1>3 DEF OrderInv, StackInv
<1> HIDE DEF n, w
<1>5. StackInv'
  BY <1>0, <1>3, PopKeepsStack
<1>6. UNCHANGED hookVars /\ \A g \in Hooks : owner'[g] # Null =>
        /\ owner'[g] = owner[g]
        /\ owner[g] = w => w \in control \/ \E i \in DOMAIN Popped : IsControl(Popped[i], w)
  <2>1. CASE UNCHANGED <<hookVars, hookObjs>>
             /\ \/ w \in control'
                \/ \E i \in DOMAIN Popped : IsControl(Popped[i], w)
                \/ \A h \in Hooks : owner[h] # w
    BY <1>0, <2>1 DEF hookObjs
  <2>2. ASSUME w \notin control', NEW h \in Hooks, owner[h] = w, Destruct(h),
               owner' = [owner EXCEPT ![h] = Null]
        PROVE  UNCHANGED hookVars /\ \A g \in Hooks : owner'[g] # Null =>
                 owner'[g] = owner[g] /\ owner[g] # w
    <3>1. win[w] = "none"
      BY <1>0, <1>4, <2>2
    <3>2. \A g \in Hooks : hwnd[g] # w
      BY <1>w, <3>1 DEF OrderInv, DeadIsForgotten, On
    <3>3. hwnd[h] = Null
      BY <1>w, <2>2, <3>2 DEF OrderInv, ControlInv
    <3>4. \A g \in Hooks : owner[g] = w => g = h
      BY <1>w, <2>2 DEF OrderInv, ControlInv
    <3>5. QED
      BY <1>t, <2>2, <3>3, <3>4 DEF Destruct
  <2>3. QED
    BY <1>1, <2>1, <2>2
<1>7. ProceduresInOrder'
  BY <1>0, <1>6, SameHooksOrder, OrderedInOrder DEF OrderInv, ProceduresInOrder
<1>8. DeadIsForgotten'
  BY <1>0, <1>6 DEF OrderInv, DeadIsForgotten, On, hookVars
<1>9. ASSUME NEW h \in Hooks, owner'[h] # Null
      PROVE  /\ hwnd[h] \in {owner[h], Null}
             /\ owner[h] \in control \/ \E i \in DOMAIN stack' : IsControl(stack'[i], owner[h])
             /\ \A g \in Hooks : owner'[g] = owner[h] => g = h
  <2>1. owner'[h] = owner[h] /\ owner[h] # Null
    BY <1>6, <1>9
  <2>2. \A g \in Hooks : owner'[g] = owner[h] => g = h
    BY <1>6, <2>1 DEF OrderInv, ControlInv
  <2>3. owner[h] \in control \/ \E i \in DOMAIN stack' : IsControl(stack'[i], owner[h])
    <3>1. CASE owner[h] = w
      BY <1>3, <1>6, <1>9, <3>1 DEF IsControl, SameFrame
    <3>2. CASE owner[h] # w /\ \E i \in DOMAIN stack : IsControl(stack[i], owner[h])
      <4>1. PICK i \in DOMAIN stack : IsControl(stack[i], owner[h])
        BY <3>2
      <4>2. i # n
        BY <1>3, <3>2, <4>1 DEF IsControl, w
      <4>3. QED
        BY <1>3, <4>1, <4>2 DEF IsControl, SameFrame
    <3>3. QED
      BY <2>1, <3>1, <3>2 DEF OrderInv, ControlInv
  <2>4. QED
    BY <2>1, <2>2, <2>3 DEF OrderInv, ControlInv
<1>10. ASSUME NEW h \in Hooks, hwnd[h] # Null, win[hwnd[h]] = "dying"
       PROVE  /\ owner'[h] = hwnd[h]
              /\ \A i \in DOMAIN stack' : IsControl(stack'[i], hwnd[h]) =>
                  \E j \in 1..i : IsDestroy(stack'[j], hwnd[h])
  <2>1. owner[h] = hwnd[h]
    BY <1>10 DEF OrderInv, ControlInv
  <2>2. owner'[h] = owner[h]
    <3>1. CASE UNCHANGED hookObjs
      BY <3>1 DEF hookObjs
    <3>2. ASSUME w \notin control', NEW g \in Hooks, owner' = [owner EXCEPT ![g] = Null], owner[g] = w
          PROVE  owner'[h] = owner[h]
      <4>1. win[w] = "none"
        BY <1>0, <1>4, <3>2
      <4>2. g # h
        BY <1>10, <2>1, <3>2, <4>1
      <4>3. QED
        BY <1>t, <3>2, <4>2
    <3>3. QED
      BY <1>1, <3>1, <3>2
  <2>3. ASSUME NEW i \in DOMAIN stack', IsControl(stack'[i], hwnd[h])
        PROVE  \E j \in 1..i : IsDestroy(stack'[j], hwnd[h])
    <3>1. i \in DOMAIN stack /\ i \in 1..(n - 1) /\ IsControl(stack[i], hwnd[h])
      BY <1>3, <2>3 DEF IsControl, SameFrame
    <3>2. PICK j \in 1..i : IsDestroy(stack[j], hwnd[h])
      BY <1>10, <3>1 DEF OrderInv, ControlInv
    <3>3. j \in DOMAIN stack /\ j # n
      BY <1>3, <3>1, <3>2
    <3>4. QED
      BY <1>3, <3>2, <3>3 DEF IsDestroy, SameFrame
  <2>4. QED
    BY <2>1, <2>2, <2>3
<1>11. ControlInv'
  <2>1. UNCHANGED <<hwnd, win, control, hooked>>
    BY <1>0, <1>6 DEF hookVars
  <2>2. \A h \in Hooks : owner'[h] # Null => owner'[h] = owner[h]
    BY <1>6
  <2>3. QED
    BY <1>9, <1>10, <2>1, <2>2 DEF OrderInv, ControlInv, IsControl, IsDestroy
<1>12. QED
  BY <1>5, <1>7, <1>8, <1>11 DEF OrderInv

\* The control of a dying window ends with WM_NCDESTROY, and takes off the window the
\* only hook that can be on it, its own.
LEMMA DestroyControlKeepsOrder ==
    ASSUME HooksInv, HooksInv', OrderInv, DestroyControl \/ KeepControl
    PROVE  OrderInv'
<1> USE HooksAssumption
<1> DEFINE w == Top.win
           n == Len(stack)
<1>0. /\ stack # <<>> /\ Top.at = "control" /\ Top.msg = "ncdestroy" /\ Release(w)
      /\ win' = [win EXCEPT ![w] = "none"]
      /\ control' = control \ {w} /\ hooked' = hooked \ {w}
      /\ UNCHANGED <<own, default, fault>>
  BY KeepReleases DEF DestroyControl, KeepControl, Running
<1>t. /\ stack \in Seq(Frames) /\ owner \in [Hooks -> Windows \cup {Null}]
      /\ hwnd \in [Hooks -> Windows \cup {Null}] /\ map \in [Windows -> Hooks \cup {Null}]
      /\ win \in [Windows -> {"none", "live", "dying"}]
  BY DEF HooksInv, RestTypes, ChainInv, HookTypes
<1>w. w \in Windows
  BY <1>0, <1>t, TopType DEF Frames
<1>1. \/ /\ UNCHANGED <<hookVars, hookObjs>> /\ stack' = Popped
         /\ \/ w \in control'
            \/ \E i \in DOMAIN Popped : IsControl(Popped[i], w)
            \/ \A h \in Hooks : owner[h] # w
      \/ /\ w \notin control'
         /\ \A i \in DOMAIN Popped : ~IsControl(Popped[i], w)
         /\ \E h \in Hooks :
              /\ owner[h] = w /\ Destruct(h) /\ live' = live \ {h}
              /\ owner' = [owner EXCEPT ![h] = Null]
              /\ stack' = Mark(Popped, {h}, "gone")
  BY <1>0, <1>w, ReleaseFacts
<1>2. stack' = Popped \/ \E h \in Hooks : stack' = Mark(Popped, {h}, "gone")
  BY <1>1
<1>3. /\ stack' \in Seq(Frames) /\ DOMAIN stack' = DOMAIN Popped
      /\ \A i \in DOMAIN Popped : SameFrame(stack'[i], Popped[i])
      /\ \A i \in DOMAIN stack' :
           i \in DOMAIN stack /\ i \in 1..(n - 1) /\ SameFrame(stack'[i], stack[i])
      /\ \A i \in DOMAIN stack : i # n => i \in DOMAIN stack' /\ SameFrame(stack'[i], stack[i])
      /\ n \in DOMAIN stack /\ Top = stack[n]
      /\ n \in Nat /\ DOMAIN stack = 1..n /\ DOMAIN stack' = 1..(n - 1)
  BY <1>0, <1>2, ReleaseFrames
<1>f. \A i \in DOMAIN stack : stack[i].win \in Windows
  <2>1. \A i \in DOMAIN stack : stack[i] \in Frames
    BY <1>t
  <2>2. QED
    BY <2>1 DEF Frames
<1>4. stack[n].win = w /\ stack[n].msg = "ncdestroy" /\ win[w] = "dying"
  BY <1>0, <1>3 DEF OrderInv, StackInv
<1>5. \A i \in DOMAIN stack : IsDestroy(stack[i], w) => i = n
  BY <1>3, <1>4 DEF OrderInv, StackInv, IsDestroy
<1>6. \A i \in DOMAIN stack : i # n => stack[i].at # "hooks"
  BY DEF OrderInv, StackInv
<1> HIDE DEF n, w
<1>v. win'[w] = "none" /\ \A v \in Windows : v # w => win'[v] = win[v]
  BY <1>0, <1>t, <1>w
<1>7. StackInv'
  <2>1. ASSUME NEW i \in DOMAIN stack'
        PROVE  /\ stack'[i].at # "hooks"
               /\ stack'[i].at \in Hooks => stack'[i].msg = "any"
               /\ stack'[i].at = "control" =>
                      stack'[i].win \in control' \/ win'[stack'[i].win] = "none"
               /\ stack'[i].msg = "ncdestroy" => win'[stack'[i].win] = "dying"
    <3>1. i \in DOMAIN stack /\ i # n /\ SameFrame(stack'[i], stack[i])
      BY <1>3
    <3>2. stack[i].msg = "ncdestroy" => stack[i].win # w
      BY <1>5, <3>1 DEF IsDestroy
    <3>3. stack[i].win \in Windows /\ stack[i].at # "hooks"
      BY <1>6, <1>f, <3>1
    <3>4. /\ stack[i].at \in Hooks => stack[i].msg = "any"
          /\ stack[i].at = "control" => stack[i].win \in control \/ win[stack[i].win] = "none"
          /\ stack[i].msg = "ncdestroy" => win[stack[i].win] = "dying"
      BY <3>1 DEF OrderInv, StackInv
    <3>5. QED
      BY <1>0, <1>v, <3>1, <3>2, <3>3, <3>4 DEF SameFrame
  <2>2. \A i, j \in DOMAIN stack' :
          IsDestroy(stack'[i], stack'[j].win) /\ stack'[j].msg = "ncdestroy" => i = j
    BY <1>3 DEF OrderInv, StackInv, IsDestroy, SameFrame
  <2>3. ASSUME NEW v \in Windows, win'[v] = "dying"
        PROVE  \E i \in DOMAIN stack' : IsDestroy(stack'[i], v)
    <3>1. v # w /\ win[v] = "dying"
      BY <1>v, <2>3
    <3>2. PICK i \in DOMAIN stack : IsDestroy(stack[i], v)
      BY <3>1 DEF OrderInv, StackInv
    <3>3. i # n
      BY <1>4, <3>1, <3>2 DEF IsDestroy
    <3>4. QED
      BY <1>3, <3>2, <3>3 DEF IsDestroy, SameFrame
  <2>4. QED
    BY <2>1, <2>2, <2>3 DEF StackInv, IsDestroy
\* A hook still on w is the control's, and no other ControlProc of w is running.
<1>8. ASSUME NEW h \in Hooks, hwnd[h] = w
      PROVE  owner[h] = w /\ \A i \in DOMAIN Popped : ~IsControl(Popped[i], w)
  <2>1. owner[h] = w
    BY <1>4, <1>8, <1>w DEF OrderInv, ControlInv
  <2>2. ASSUME NEW i \in DOMAIN Popped, IsControl(Popped[i], w) PROVE FALSE
    <3>1. i \in DOMAIN stack /\ i \in 1..(n - 1) /\ IsControl(stack[i], w)
      BY <1>3, <2>2 DEF IsControl, SameFrame
    <3>2. PICK j \in 1..i : IsDestroy(stack[j], w)
      BY <1>4, <1>8, <1>w, <3>1 DEF OrderInv, ControlInv
    <3>3. j \in DOMAIN stack /\ j # n
      BY <1>3, <3>1, <3>2
    <3>4. QED
      BY <1>5, <3>2, <3>3
  <2>3. QED
    BY <2>1, <2>2
<1>9. w \notin control'
  BY <1>0
<1>10. /\ \A h \in Hooks : hwnd'[h] # w /\ (hwnd'[h] # Null => hwnd'[h] = hwnd[h])
       /\ \A v \in Windows : v # w => map'[v] = map[v]
       /\ Ordered(proc', map', old', hwnd')
       /\ \A g \in Hooks : owner'[g] # Null => owner'[g] = owner[g]
       /\ \A g \in Hooks : owner'[g] = w => \E i \in DOMAIN Popped : IsControl(Popped[i], w)
       /\ \A g \in Hooks : owner[g] # w => owner'[g] = owner[g]
  <2>1. CASE /\ UNCHANGED <<hookVars, hookObjs>>
             /\ \/ \E i \in DOMAIN Popped : IsControl(Popped[i], w)
                \/ \A h \in Hooks : owner[h] # w
    <3>1. \A h \in Hooks : hwnd[h] # w
      BY <1>8, <2>1
    <3>2. Ordered(proc', map', old', hwnd')
      BY <2>1, SameHooksOrder DEF OrderInv
    <3>3. QED
      BY <2>1, <3>1, <3>2 DEF hookVars, hookObjs
  <2>2. ASSUME NEW h \in Hooks, owner[h] = w, Destruct(h), owner' = [owner EXCEPT ![h] = Null]
        PROVE  /\ \A g \in Hooks : hwnd'[g] # w /\ (hwnd'[g] # Null => hwnd'[g] = hwnd[g])
               /\ \A v \in Windows : v # w => map'[v] = map[v]
               /\ Ordered(proc', map', old', hwnd')
               /\ \A g \in Hooks : owner'[g] # Null => owner'[g] = owner[g]
               /\ \A g \in Hooks : owner'[g] # w
               /\ \A g \in Hooks : owner[g] # w => owner'[g] = owner[g]
    <3>1. \A g \in Hooks : owner[g] = w => g = h
      BY <1>w, <2>2 DEF OrderInv, ControlInv
    <3>2. /\ \A g \in Hooks : owner'[g] # Null => owner'[g] = owner[g]
          /\ \A g \in Hooks : owner'[g] # w
          /\ \A g \in Hooks : owner[g] # w => owner'[g] = owner[g]
      BY <1>t, <1>w, <2>2, <3>1
    <3>3. \A g \in Hooks : hwnd[g] = w => g = h
      BY <1>8, <3>1
    <3>4. CASE hwnd[h] = Null
      <4>1. UNCHANGED hookVars
        BY <2>2, <3>4 DEF Destruct
      <4>2. Ordered(proc', map', old', hwnd')
        BY <4>1, SameHooksOrder DEF OrderInv
      <4>3. QED
        BY <1>w, <3>2, <3>3, <3>4, <4>1, <4>2 DEF hookVars
    <3>5. CASE hwnd[h] # Null
      <4>1. hwnd[h] = w
        BY <1>w, <2>2, <3>5 DEF OrderInv, ControlInv
      <4>2. Unhook(h)
        BY <2>2, <3>5 DEF Destruct
      <4>3. Ordered(proc', map', old', hwnd')
        BY <3>5, <4>2, UnhookKeepsOrder DEF OrderInv
      <4>4. hwnd' = [hwnd EXCEPT ![h] = Null]
        BY <4>2 DEF Unhook
      <4>5. \A v \in Windows : v # w => map'[v] = map[v]
        <5>1. map' = map \/ map' = [map EXCEPT ![w] = next[h]]
          BY <4>1, <4>2 DEF Unhook
        <5>2. QED
          BY <1>t, <1>w, <5>1
      <4>6. QED
        BY <1>t, <1>w, <3>2, <3>3, <4>3, <4>4, <4>5
    <3>6. QED
      BY <3>4, <3>5
  <2>3. QED
    BY <1>1, <1>9, <2>1, <2>2
<1>11. map'[w] = Null
  <2>1. map'[w] # Null => map'[w] \in Hooks /\ hwnd'[map'[w]] = w
    BY <1>w DEF HooksInv, ChainInv, ChainSound, HookTypes
  <2>2. QED
    BY <1>10, <2>1
<1>12. ProceduresInOrder'
  <2>1. \A v \in Windows : win'[v] # "none" => v # w /\ win[v] # "none"
    BY <1>v
  <2>2. \A v \in Windows : v # w => (v \in hooked' <=> v \in hooked)
    BY <1>0
  <2>3. \A v \in Windows : win'[v] # "none" =>
          proc'[v] = IF map'[v] # Null THEN "hooks"
                     ELSE IF v \in hooked' THEN "control" ELSE own'[v]
    BY <1>0, <1>10, <2>1, <2>2 DEF Ordered, Below
  <2>4. ASSUME NEW h \in Hooks, hwnd'[h] # Null
        PROVE  old'[h] = IF hwnd'[h] \in hooked' THEN "control" ELSE own'[hwnd'[h]]
    <3>1. hwnd'[h] \in Windows /\ hwnd'[h] # w
      BY <1>10, <1>t, <2>4
    <3>2. QED
      BY <1>0, <1>10, <2>2, <2>4, <3>1 DEF Ordered, Below
  <2>5. /\ default' \in OwnProcs \cup {Null} /\ fault' # "orphan"
        /\ hooked' # {} => default' # Null
    BY <1>0 DEF OrderInv, ProceduresInOrder
  <2>6. QED
    BY <2>3, <2>4, <2>5 DEF ProceduresInOrder, Below
<1>13. DeadIsForgotten'
  <2>1. ASSUME NEW v \in Windows, win'[v] = "none"
        PROVE  map'[v] = Null /\ (\A h \in Hooks : hwnd'[h] # v) /\ v \notin hooked' \cup control'
    <3>1. CASE v = w
      BY <1>0, <1>10, <1>11, <3>1
    <3>2. CASE v # w
      <4>1. map[v] = Null /\ (\A h \in Hooks : hwnd[h] # v) /\ v \notin hooked \cup control
        BY <1>v, <2>1, <3>2 DEF OrderInv, DeadIsForgotten, On
      <4>2. QED
        BY <1>0, <1>10, <3>2, <4>1
    <3>3. QED
      BY <3>1, <3>2
  <2>2. QED
    BY <2>1 DEF DeadIsForgotten, On
<1>14. ControlInv'
  <2>1. control' \subseteq hooked'
    BY <1>0 DEF OrderInv, ControlInv
  <2>2. ASSUME NEW h \in Hooks, owner'[h] # Null
        PROVE  /\ hwnd'[h] \in {owner[h], Null}
               /\ owner[h] \in control' \/ \E i \in DOMAIN stack' : IsControl(stack'[i], owner[h])
               /\ \A g \in Hooks : owner'[g] = owner[h] => g = h
    <3>1. owner'[h] = owner[h] /\ owner[h] # Null
      BY <1>10, <2>2
    <3>2. hwnd'[h] \in {owner[h], Null}
      BY <1>10, <3>1 DEF OrderInv, ControlInv
    <3>3. \A g \in Hooks : owner'[g] = owner[h] => g = h
      BY <1>10, <3>1 DEF OrderInv, ControlInv
    <3>4. owner[h] \in control' \/ \E i \in DOMAIN stack' : IsControl(stack'[i], owner[h])
      <4>1. CASE owner[h] = w
        BY <1>3, <1>10, <3>1, <4>1 DEF IsControl, SameFrame
      <4>2. CASE owner[h] # w /\ owner[h] \in control
        BY <1>0, <4>2
      <4>3. CASE owner[h] # w /\ \E i \in DOMAIN stack : IsControl(stack[i], owner[h])
        <5>1. PICK i \in DOMAIN stack : IsControl(stack[i], owner[h])
          BY <4>3
        <5>2. i # n
          BY <1>4, <4>3, <5>1 DEF IsControl
        <5>3. QED
          BY <1>3, <5>1, <5>2 DEF IsControl, SameFrame
      <4>4. QED
        BY <3>1, <4>1, <4>2, <4>3 DEF OrderInv, ControlInv
    <3>5. QED
      BY <3>2, <3>3, <3>4
  <2>3. ASSUME NEW h \in Hooks, hwnd'[h] # Null, win'[hwnd[h]] = "dying"
        PROVE  /\ owner'[h] = hwnd[h]
               /\ \A i \in DOMAIN stack' : IsControl(stack'[i], hwnd[h]) =>
                   \E j \in 1..i : IsDestroy(stack'[j], hwnd[h])
    <3>1. hwnd[h] # w /\ hwnd[h] \in Windows /\ hwnd[h] # Null
      BY <1>10, <1>t, <2>3
    <3>2. win[hwnd[h]] = "dying"
      BY <1>v, <2>3, <3>1
    <3>3. owner[h] = hwnd[h]
      BY <3>1, <3>2 DEF OrderInv, ControlInv
    <3>4. owner'[h] = owner[h]
      BY <1>10, <3>1, <3>3
    <3>5. ASSUME NEW i \in DOMAIN stack', IsControl(stack'[i], hwnd[h])
          PROVE  \E j \in 1..i : IsDestroy(stack'[j], hwnd[h])
      <4>1. i \in DOMAIN stack /\ i \in 1..(n - 1) /\ IsControl(stack[i], hwnd[h])
        BY <1>3, <3>5 DEF IsControl, SameFrame
      <4>2. PICK j \in 1..i : IsDestroy(stack[j], hwnd[h])
        BY <3>1, <3>2, <4>1 DEF OrderInv, ControlInv
      <4>3. j \in DOMAIN stack /\ j # n
        BY <1>3, <4>1, <4>2
      <4>4. QED
        BY <1>3, <4>2, <4>3 DEF IsDestroy, SameFrame
    <3>6. QED
      BY <3>3, <3>4, <3>5
  <2>4. \A h \in Hooks : hwnd'[h] # Null => hwnd'[h] = hwnd[h]
    BY <1>10
  <2>5. \A h \in Hooks : owner'[h] # Null => owner'[h] = owner[h]
    BY <1>10
  <2>6. QED
    BY <2>1, <2>2, <2>3, <2>4, <2>5 DEF ControlInv, IsControl, IsDestroy
<1>15. QED
  BY <1>7, <1>12, <1>13, <1>14 DEF OrderInv

\* Making, hooking and unhooking, by any procedure but HookWndProc: no message moves.
LEMMA QuietKeepsStack ==
    ASSUME HooksInv, OrderInv, stack # <<>> => Top.at # "hooks",
           stack' \in Seq(Frames), DOMAIN stack' = DOMAIN stack,
           \A i \in DOMAIN stack : SameFrame(stack'[i], stack[i]),
           \A i \in DOMAIN stack : win'[stack[i].win] = win[stack[i].win],
           \A v \in Windows : win'[v] = "dying" => win[v] = "dying",
           control' = control
    PROVE  StackInv'
<1> USE DEF SameFrame, IsDestroy
<1>1. \A i \in DOMAIN stack : stack[i].at # "hooks"
  <2>1. ASSUME NEW i \in DOMAIN stack, stack[i].at = "hooks" PROVE FALSE
    <3>1. stack \in Seq(Frames)
      BY DEF HooksInv, RestTypes
    <3>2. i = Len(stack) /\ stack # <<>>
      BY <2>1, <3>1 DEF OrderInv, StackInv
    <3>3. QED
      BY <2>1, <3>2 DEF Top
  <2>2. QED
    BY <2>1
<1>2. \A i \in DOMAIN stack' :
        /\ stack'[i].at \in Hooks => stack'[i].msg = "any"
        /\ stack'[i].at = "control" =>
               stack'[i].win \in control \/ win'[stack'[i].win] = "none"
        /\ stack'[i].msg = "ncdestroy" => win'[stack'[i].win] = "dying"
  BY DEF OrderInv, StackInv
<1>3. \A i, j \in DOMAIN stack' :
        IsDestroy(stack'[i], stack'[j].win) /\ stack'[j].msg = "ncdestroy" => i = j
  BY DEF OrderInv, StackInv
<1>4. \A v \in Windows : win'[v] = "dying" => \E i \in DOMAIN stack' : IsDestroy(stack'[i], v)
  BY DEF OrderInv, StackInv
<1>5. QED
  BY <1>1, <1>2, <1>3, <1>4 DEF StackInv

LEMMA QuietKeepsControl ==
    ASSUME HooksInv, OrderInv, DOMAIN stack' = DOMAIN stack,
           \A i \in DOMAIN stack : SameFrame(stack'[i], stack[i]), stack \in Seq(Frames),
           owner' = owner, control' = control, control \subseteq hooked',
           \A h \in Hooks : owner[h] # Null => hwnd'[h] \in {hwnd[h], Null},
           \A h \in Hooks : hwnd'[h] # Null /\ win'[hwnd'[h]] = "dying" =>
               hwnd'[h] = hwnd[h] /\ win[hwnd[h]] = "dying"
    PROVE  ControlInv'
<1> USE DEF SameFrame
<1>0. DOMAIN stack = 1..Len(stack) /\ Len(stack) \in Nat
  OBVIOUS
<1>1. ASSUME NEW h \in Hooks, owner[h] # Null
      PROVE  /\ hwnd'[h] \in {owner[h], Null}
             /\ owner[h] \in control' \/ \E i \in DOMAIN stack' : IsControl(stack'[i], owner[h])
             /\ \A g \in Hooks : owner[g] = owner[h] => g = h
  <2>1. hwnd'[h] \in {owner[h], Null} /\ \A g \in Hooks : owner[g] = owner[h] => g = h
    BY <1>1 DEF OrderInv, ControlInv
  <2>2. owner[h] \in control \/ \E i \in DOMAIN stack : IsControl(stack[i], owner[h])
    BY <1>1 DEF OrderInv, ControlInv
  <2>3. QED
    BY <2>1, <2>2 DEF IsControl
<1>2. ASSUME NEW h \in Hooks, hwnd'[h] # Null, win'[hwnd'[h]] = "dying"
      PROVE  /\ owner[h] = hwnd[h] /\ hwnd'[h] = hwnd[h]
             /\ \A i \in DOMAIN stack' : IsControl(stack'[i], hwnd[h]) =>
                 \E j \in 1..i : IsDestroy(stack'[j], hwnd[h])
  <2>1. hwnd'[h] = hwnd[h] /\ win[hwnd[h]] = "dying" /\ hwnd[h] # Null
    BY <1>2
  <2>2. ASSUME NEW i \in DOMAIN stack', IsControl(stack'[i], hwnd[h])
        PROVE  \E j \in 1..i : IsDestroy(stack'[j], hwnd[h])
    <3>1. i \in DOMAIN stack /\ IsControl(stack[i], hwnd[h])
      BY <2>2 DEF IsControl
    <3>2. PICK j \in 1..i : IsDestroy(stack[j], hwnd[h])
      BY <2>1, <3>1 DEF OrderInv, ControlInv
    <3>3. j \in DOMAIN stack
      BY <1>0, <3>1, <3>2
    <3>4. QED
      BY <3>2, <3>3 DEF IsDestroy
  <2>3. QED
    BY <2>1, <2>2 DEF OrderInv, ControlInv
<1>3. \A h \in Hooks : hwnd'[h] # Null /\ win'[hwnd'[h]] = "dying" =>
        /\ owner'[h] = hwnd'[h]
        /\ \A i \in DOMAIN stack' : IsControl(stack'[i], hwnd'[h]) =>
            \E j \in 1..i : IsDestroy(stack'[j], hwnd'[h])
  BY <1>2
<1>4. QED
  BY <1>1, <1>3 DEF ControlInv, IsControl, IsDestroy

LEMMA CreateWindowKeepsOrder ==
    ASSUME HooksInv, HooksInv', OrderInv, NEW w \in Windows, NEW p \in OwnProcs, CreateWindow(w, p)
    PROVE  OrderInv'
<1> USE HooksAssumption
<1>0. /\ stack # <<>> => Top.at # "hooks"
      /\ win[w] = "none" /\ ~Entered(w)
      /\ win' = [win EXCEPT ![w] = "live"] /\ own' = [own EXCEPT ![w] = p]
      /\ proc' = [proc EXCEPT ![w] = p]
      /\ UNCHANGED <<map, next, old, hwnd, hookObjs, hooked, control, kept, default, stack, fault>>
  BY DEF CreateWindow, UserRuns
<1>t. /\ stack \in Seq(Frames) /\ win \in [Windows -> {"none", "live", "dying"}]
      /\ own \in [Windows -> OwnProcs] /\ proc \in [Windows -> Procs]
      /\ hwnd \in [Hooks -> Windows \cup {Null}]
  BY DEF HooksInv, RestTypes, ChainInv, HookTypes
<1>1. map[w] = Null /\ (\A h \in Hooks : hwnd[h] # w) /\ w \notin hooked \cup control
  BY <1>0 DEF OrderInv, DeadIsForgotten, On
<1>2. \A i \in DOMAIN stack : stack[i].win # w /\ stack[i].win \in Windows
  <2>1. \A i \in DOMAIN stack : stack[i] \in Frames
    BY <1>t
  <2>2. QED
    BY <1>0, <2>1 DEF Entered, Frames
<1>3. StackInv'
  <2>1. \A i \in DOMAIN stack : win'[stack[i].win] = win[stack[i].win]
    BY <1>0, <1>2, <1>t
  <2>2. \A v \in Windows : win'[v] = "dying" => win[v] = "dying"
    BY <1>0, <1>t
  <2>3. QED
    BY <1>0, <1>t, <2>1, <2>2, QuietKeepsStack DEF SameFrame
<1>4. ControlInv'
  <2>1. \A h \in Hooks : hwnd[h] # Null /\ win'[hwnd[h]] = "dying" => win[hwnd[h]] = "dying"
    BY <1>0, <1>1, <1>t
  <2>2. control \subseteq hooked
    BY DEF OrderInv, ControlInv
  <2>3. QED
    BY <1>0, <1>t, <2>1, <2>2, QuietKeepsControl DEF SameFrame, hookObjs
<1>5. ProceduresInOrder'
  <2>1. \A v \in Windows : win'[v] # "none" =>
          proc'[v] = IF map'[v] # Null THEN "hooks"
                     ELSE IF v \in hooked' THEN "control" ELSE own'[v]
    BY <1>0, <1>1, <1>t DEF OrderInv, ProceduresInOrder, Below
  <2>2. \A h \in Hooks : hwnd'[h] # Null =>
          old'[h] = IF hwnd'[h] \in hooked' THEN "control" ELSE own'[hwnd'[h]]
    BY <1>0, <1>1, <1>t DEF OrderInv, ProceduresInOrder, Below
  <2>3. QED
    BY <1>0, <2>1, <2>2 DEF OrderInv, ProceduresInOrder, Below
<1>6. DeadIsForgotten'
  BY <1>0, <1>t DEF OrderInv, DeadIsForgotten, On
<1>7. QED
  BY <1>3, <1>4, <1>5, <1>6 DEF OrderInv

LEMMA InstallHookKeepsOrder ==
    ASSUME HooksInv, HooksInv', OrderInv, NEW w \in Windows, InstallHook(w)
    PROVE  OrderInv'
<1> USE HooksAssumption
<1>0. /\ stack # <<>> => Top.at # "hooks"
      /\ win[w] = "live" /\ w \notin hooked /\ map[w] = Null
      /\ hooked' = hooked \cup {w} /\ default' = proc[w]
      /\ proc' = [proc EXCEPT ![w] = "control"]
      /\ UNCHANGED <<win, own, map, next, old, hwnd, hookObjs, control, stack, fault>>
  BY DEF InstallHook, UserRuns, SetWindowLong
<1>t. /\ stack \in Seq(Frames) /\ own \in [Windows -> OwnProcs] /\ proc \in [Windows -> Procs]
      /\ hwnd \in [Hooks -> Windows \cup {Null}]
  BY DEF HooksInv, RestTypes, ChainInv, HookTypes
<1>1. /\ \A h \in Hooks : hwnd[h] # w
      /\ proc[w] = own[w] /\ own[w] \in OwnProcs /\ Null \notin OwnProcs
  BY <1>0, <1>t, NoHooks DEF OrderInv, ProceduresInOrder, Below
<1>2. StackInv'
  BY <1>0, <1>t, QuietKeepsStack DEF SameFrame
<1>3. ControlInv'
  <2>1. control \subseteq hooked'
    BY <1>0 DEF OrderInv, ControlInv
  <2>2. QED
    BY <1>0, <1>t, <2>1, QuietKeepsControl DEF SameFrame, hookObjs
<1>4. ProceduresInOrder'
  <2>1. \A v \in Windows : win'[v] # "none" =>
          proc'[v] = IF map'[v] # Null THEN "hooks"
                     ELSE IF v \in hooked' THEN "control" ELSE own'[v]
    BY <1>0, <1>t DEF OrderInv, ProceduresInOrder, Below
  <2>2. \A h \in Hooks : hwnd'[h] # Null =>
          old'[h] = IF hwnd'[h] \in hooked' THEN "control" ELSE own'[hwnd'[h]]
    BY <1>0, <1>1, <1>t DEF OrderInv, ProceduresInOrder, Below
  <2>3. default' \in OwnProcs /\ default' # Null /\ fault' # "orphan"
    BY <1>0, <1>1 DEF OrderInv, ProceduresInOrder
  <2>4. QED
    BY <2>1, <2>2, <2>3 DEF ProceduresInOrder, Below
<1>5. DeadIsForgotten'
  BY <1>0 DEF OrderInv, DeadIsForgotten, On
<1>6. QED
  BY <1>2, <1>3, <1>4, <1>5 DEF OrderInv

LEMMA HookWindowKeepsOrder ==
    ASSUME HooksInv, HooksInv', OrderInv, NEW h \in Hooks, NEW w \in Windows, HookWindow(h, w)
    PROVE  OrderInv'
<1> USE HooksAssumption
<1>0. /\ stack # <<>> => Top.at # "hooks"
      /\ win[w] = "live" /\ hwnd[h] = Null /\ owner[h] = Null /\ Hook(h, w)
      /\ UNCHANGED <<win, own, owner, hooked, control, kept, default, stack, fault>>
  BY DEF HookWindow, UserRuns
<1>t. /\ stack \in Seq(Frames) /\ hwnd \in [Hooks -> Windows \cup {Null}]
      /\ map \in [Windows -> Hooks \cup {Null}]
  BY DEF HooksInv, RestTypes, ChainInv, HookTypes
<1>1. hwnd' = [hwnd EXCEPT ![h] = w] /\ map' = [map EXCEPT ![w] = h]
  BY <1>0 DEF Hook
<1>2. StackInv'
  BY <1>0, <1>t, QuietKeepsStack DEF SameFrame
<1>3. ControlInv'
  <2>1. control \subseteq hooked'
    BY <1>0 DEF OrderInv, ControlInv
  <2>2. \A g \in Hooks : owner[g] # Null => hwnd'[g] \in {hwnd[g], Null}
    BY <1>0, <1>1, <1>t
  <2>3. \A g \in Hooks : hwnd'[g] # Null /\ win'[hwnd'[g]] = "dying" =>
          hwnd'[g] = hwnd[g] /\ win[hwnd[g]] = "dying"
    BY <1>0, <1>1, <1>t
  <2>4. QED
    BY <1>0, <1>t, <2>1, <2>2, <2>3, QuietKeepsControl DEF SameFrame
<1>4. ProceduresInOrder'
  BY <1>0, HookKeepsOrder, OrderedInOrder DEF OrderInv, ProceduresInOrder
<1>5. DeadIsForgotten'
  <2>1. ASSUME NEW v \in Windows, win[v] = "none"
        PROVE  map'[v] = Null /\ (\A g \in Hooks : hwnd'[g] # v) /\ v \notin hooked \cup control
    <3>1. v # w
      BY <1>0, <2>1
    <3>2. map[v] = Null /\ (\A g \in Hooks : hwnd[g] # v) /\ v \notin hooked \cup control
      BY <2>1 DEF OrderInv, DeadIsForgotten, On
    <3>3. QED
      BY <1>1, <1>t, <3>1, <3>2
  <2>2. QED
    BY <1>0, <2>1 DEF DeadIsForgotten, On
<1>6. QED
  BY <1>2, <1>3, <1>4, <1>5 DEF OrderInv

\* A hook that is no member of a control is taken off, or freed, or both.
LEMMA TakeOffKeepsOrder ==
    ASSUME HooksInv, HooksInv', OrderInv, NEW h \in Hooks,
           UnhookWindow(h) \/ DeleteHook(h)
    PROVE  OrderInv'
<1> USE HooksAssumption
<1>0. /\ stack # <<>> => Top.at # "hooks"
      /\ UNCHANGED <<win, own, owner, hooked, control, kept, default, fault>>
      /\ \/ hwnd[h] # Null /\ Unhook(h)
         \/ hwnd[h] = Null /\ UNCHANGED hookVars
      /\ \E what \in {"left", "gone"} : stack' = Mark(stack, {h}, what)
  <2>1. CASE UnhookWindow(h)
    BY <2>1 DEF UnhookWindow, UserRuns, hookObjs
  <2>2. CASE DeleteHook(h)
    BY <2>2 DEF DeleteHook, Destruct, UserRuns
  <2>3. QED
    BY <2>1, <2>2
<1>t. /\ stack \in Seq(Frames) /\ hwnd \in [Hooks -> Windows \cup {Null}]
      /\ map \in [Windows -> Hooks \cup {Null}]
  BY DEF HooksInv, RestTypes, ChainInv, HookTypes
<1>s. /\ stack' \in Seq(Frames) /\ DOMAIN stack' = DOMAIN stack
      /\ \A i \in DOMAIN stack : SameFrame(stack'[i], stack[i])
  BY <1>0, <1>t, MarkSame, MarkType
<1>1. \A g \in Hooks : hwnd'[g] \in {hwnd[g], Null}
  BY <1>0, <1>t DEF Unhook, hookVars
<1>2. StackInv'
  BY <1>0, <1>s, QuietKeepsStack
<1>3. ControlInv'
  <2>1. control \subseteq hooked'
    BY <1>0 DEF OrderInv, ControlInv
  <2>2. QED
    BY <1>0, <1>1, <1>s, <1>t, <2>1, QuietKeepsControl
<1>4. ProceduresInOrder'
  <2>1. Ordered(proc', map', old', hwnd')
    BY <1>0, UnhookKeepsOrder, SameHooksOrder DEF OrderInv
  <2>2. QED
    BY <1>0, <2>1, OrderedInOrder DEF OrderInv, ProceduresInOrder
<1>5. DeadIsForgotten'
  <2>1. ASSUME NEW v \in Windows, win[v] = "none"
        PROVE  map'[v] = Null /\ (\A g \in Hooks : hwnd'[g] # v) /\ v \notin hooked \cup control
    <3>1. map[v] = Null /\ (\A g \in Hooks : hwnd[g] # v) /\ v \notin hooked \cup control
      BY <2>1 DEF OrderInv, DeadIsForgotten, On
    <3>2. map'[v] # Null => map'[v] \in Hooks /\ hwnd'[map'[v]] = v
      BY DEF HooksInv, ChainInv, ChainSound, HookTypes
    <3>3. QED
      BY <1>1, <3>1, <3>2
  <2>2. QED
    BY <1>0, <2>1 DEF DeadIsForgotten, On
<1>6. QED
  BY <1>2, <1>3, <1>4, <1>5 DEF OrderInv

LEMMA FaultKeepsOrder ==
    ASSUME OrderInv, NEW what \in {"freed hook", "no procedure"}, Fault(what)
    PROVE  OrderInv'
<1>1. UNCHANGED <<win, own, hookVars, hookObjs, hooked, control, kept, default, stack>>
      /\ fault' # "orphan"
  BY DEF Fault
<1>2. ProceduresInOrder'
  BY <1>1, SameHooksOrder, OrderedInOrder DEF OrderInv
<1>3. DeadIsForgotten' /\ StackInv' /\ ControlInv'
  BY <1>1 DEF OrderInv, DeadIsForgotten, StackInv, ControlInv, On, Below, hookVars, hookObjs
<1>4. QED
  BY <1>2, <1>3 DEF OrderInv

\* A hook's WindowProc passes a message on: to the next hook, though the window may be
\* gone, or to the procedure below the hooks, of a window that is there.
LEMMA ForwardKeepsOrder ==
    ASSUME HooksInv, HooksInv', OrderInv, Forward
    PROVE  OrderInv'
<1> USE HooksAssumption
<1> DEFINE h == Top.at
           n == next[h]
           w == Top.win
<1>0. stack # <<>> /\ h \in Hooks
  BY DEF Forward, Running
<1>t. /\ stack \in Seq(Frames) /\ next \in [Hooks -> Hooks \cup {Null}]
      /\ hwnd \in [Hooks -> Windows \cup {Null}] /\ SavedInv
  BY DEF HooksInv, RestTypes, ChainInv, HookTypes
<1>1. w \in Windows /\ Top.msg = "any"
  <2>1. Len(stack) \in DOMAIN stack /\ Top = stack[Len(stack)] /\ Top \in Frames
    BY <1>0, <1>t, PoppedFrames
  <2>2. QED
    BY <1>0, <2>1 DEF OrderInv, StackInv, Frames
<1>2. Top.at # "hooks" /\ "control" \notin Hooks /\ "hooks" \notin Hooks
  <2>1. "control" \notin Hooks /\ "hooks" \notin Hooks
    BY HooksAssumption, Zenon
  <2>2. QED
    BY <1>0, <2>1
<1>3. \A v \in Windows : Ready(stack, v, "any")
  BY <1>2, SenderIsReady
<1> HIDE DEF h, n, w
<1>4. ASSUME NEW since \in {"hooked", "left"}, n \in Hooks,
             Push(stack, Frame(n, w, "any", Null, since), "any"),
             UNCHANGED <<own, hookVars, hookObjs, hooked, control, kept, default, fault>>
      PROVE  OrderInv'
  <2> DEFINE f == Frame(n, w, "any", Null, since)
  <2>1. f \in Frames /\ f.at = n /\ f.win = w /\ f.msg = "any"
    BY <1>1, <1>4, FrameType DEF Frame
  <2>2. stack' = Append(stack, f) /\ win' = win
    BY <1>4 DEF Push
  <2> HIDE DEF f
  <2>3. Pushed(stack, f)
    BY <1>t, <2>1, <2>2, AppendPushes DEF SameFrame
  <2>4. f.at \in Hooks /\ f.at # "control" /\ f.at # "hooks"
    BY <1>2, <1>4, <2>1
  <2>5. StackInv'
    BY <1>1, <1>3, <1>4, <1>t, <2>1, <2>2, <2>3, <2>4, PushKeepsStack
  <2>6. control' \subseteq hooked'
    BY <1>4 DEF OrderInv, ControlInv
  <2>7. ControlInv'
    BY <1>1, <1>3, <1>4, <1>t, <2>1, <2>2, <2>3, <2>4, <2>6, PushKeepsControl
       DEF hookVars, hookObjs
  <2>8. ProceduresInOrder'
    BY <1>4, <2>2, SameHooksOrder, OrderedInOrder DEF OrderInv, ProceduresInOrder
  <2>9. DeadIsForgotten'
    BY <1>4, <2>2 DEF OrderInv, DeadIsForgotten, On, hookVars
  <2>10. QED
    BY <2>5, <2>7, <2>8, <2>9 DEF OrderInv
<1>5. ASSUME old[h] # Null, Call(old[h], hwnd[h], "any", stack)
      PROVE  OrderInv'
  <2>1. hwnd[h] \in Windows
    BY <1>0, <1>5, <1>t DEF SavedInv
  <2>2. old[h] = Below(hwnd[h]) /\ win[hwnd[h]] # "none"
    BY <1>0, <2>1 DEF OrderInv, ProceduresInOrder, DeadIsForgotten, On
  <2>3. QED
    BY <1>3, <1>5, <1>t, <2>1, <2>2, CallKeepsOrder
<1>6. \/ Fault("freed hook") \/ Fault("no procedure")
      \/ /\ n \in Hooks /\ UNCHANGED <<own, hookVars, hookObjs, hooked, control, kept, default, fault>>
         /\ \E since \in {"hooked", "left"} : Push(stack, Frame(n, w, "any", Null, since), "any")
      \/ old[h] # Null /\ Call(old[h], hwnd[h], "any", stack)
  <2>1. n \in Hooks \cup {Null}
    BY <1>0, <1>t DEF n
  <2>2. QED
    BY <1>1, <2>1 DEF Forward, h, n, w
<1>7. QED
  BY <1>4, <1>5, <1>6, FaultKeepsOrder

LEMMA StepKeepsOrder == HooksInv /\ HooksInv' /\ OrderInv /\ [Next]_vars => OrderInv'
<1> SUFFICES ASSUME HooksInv, HooksInv', OrderInv, [Next]_vars PROVE OrderInv'
  OBVIOUS
<1> USE HooksAssumption
<1>1. ASSUME NEW w \in Windows, NEW p \in OwnProcs, CreateWindow(w, p) PROVE OrderInv'
  BY <1>1, CreateWindowKeepsOrder
<1>2. ASSUME NEW w \in Windows, InstallHook(w) PROVE OrderInv'
  BY <1>2, InstallHookKeepsOrder
<1>3. ASSUME NEW w \in Windows, SendMessage(w) PROVE OrderInv'
  <2>1. win[w] # "none" /\ Call(proc[w], w, "any", stack) /\ (stack # <<>> => Top.at # "hooks")
    BY <1>3 DEF SendMessage, UserRuns
  <2>2. Ready(stack, w, "any") /\ stack \in Seq(Frames)
    BY <2>1, SenderIsReady DEF HooksInv, RestTypes
  <2>3. QED
    BY <2>1, <2>2, CallKeepsOrder
<1>4. ASSUME NEW w \in Windows, DestroyWindow(w) PROVE OrderInv'
  <2>1. /\ win[w] = "live" /\ Call(proc[w], w, "ncdestroy", stack)
        /\ stack # <<>> => Top.at # "hooks"
    BY <1>4 DEF DestroyWindow, UserRuns
  <2>2. Ready(stack, w, "ncdestroy") /\ stack \in Seq(Frames)
    BY <2>1, SenderIsReady DEF HooksInv, RestTypes
  <2>3. proc[w] = "hooks" \/ map[w] = Null
    BY <2>1 DEF OrderInv, ProceduresInOrder
  <2>4. QED
    BY <2>1, <2>2, <2>3, CallKeepsOrder
<1>5. ASSUME NEW h \in Hooks, NEW w \in Windows, HookWindow(h, w) PROVE OrderInv'
  BY <1>5, HookWindowKeepsOrder
<1>6. ASSUME NEW h \in Hooks, UnhookWindow(h) \/ DeleteHook(h) PROVE OrderInv'
  BY <1>6, TakeOffKeepsOrder
<1>7. CASE Forward
  BY <1>7, ForwardKeepsOrder
<1>8. CASE PassDestroy
  <2>1. stack # <<>> /\ Top.at = "hooks" /\ Call(Top.then, Top.win, "ncdestroy", Popped)
    BY <1>8 DEF PassDestroy, Running
  <2>2. /\ Ready(Popped, Top.win, "ncdestroy") /\ win[Top.win] # "none"
        /\ Top.win \in Windows /\ map[Top.win] = Null /\ Top.then = Below(Top.win)
    BY <2>1, PasserIsReady
  <2>3. Popped \in Seq(Frames)
    BY <2>1, TopType DEF HooksInv, RestTypes
  <2>4. QED
    BY <2>1, <2>2, <2>3, CallKeepsOrder
<1>9. CASE ReturnHook
  BY <1>9, ReturnHookKeepsOrder
<1>10. CASE ReturnControl
  BY <1>10, ReturnControlKeepsOrder
<1>11. CASE DestroyControl \/ KeepControl
  BY <1>11, DestroyControlKeepsOrder
<1>12. CASE UNCHANGED vars
  <2>1. ProceduresInOrder'
    BY <1>12 DEF OrderInv, ProceduresInOrder, Below, vars, hookVars
  <2>2. DeadIsForgotten'
    BY <1>12 DEF OrderInv, DeadIsForgotten, On, vars, hookVars
  <2>3. StackInv' /\ ControlInv'
    BY <1>12 DEF OrderInv, StackInv, ControlInv, Below, vars, hookVars, hookObjs
  <2>4. QED
    BY <2>1, <2>2, <2>3 DEF OrderInv
<1>13. QED
  BY <1>1, <1>2, <1>3, <1>4, <1>5, <1>6, <1>7, <1>8, <1>9, <1>10, <1>11, <1>12 DEF Next

LEMMA InitOrder == Init => OrderInv
<1> SUFFICES ASSUME Init PROVE OrderInv
  OBVIOUS
<1> USE HooksAssumption DEF Init
<1>1. ProceduresInOrder
  BY DEF ProceduresInOrder, Below
<1>2. DeadIsForgotten
  BY DEF DeadIsForgotten, On
<1>3. StackInv /\ ControlInv
  BY DEF StackInv, ControlInv
<1>4. QED
  BY <1>1, <1>2, <1>3 DEF OrderInv

LEMMA AlwaysOrderInv == Spec => []OrderInv
<1>1. HooksInv /\ HooksInv' /\ OrderInv /\ [Next]_vars => OrderInv'
  BY StepKeepsOrder
<1>2. QED
  BY <1>1, InitOrder, AlwaysHooksInv, PTL DEF Spec

------------------------------------------------------------------------------
(* What the running hooks know.                                              *)

Since(s, hw) ==
    \A i \in DOMAIN s : s[i].at \in Hooks /\ s[i].since = "hooked" => hw[s[i].at] = s[i].win

LEMMA KeepSince ==
    ASSUME NEW s \in Seq(Frames), NEW a, NEW b, Since(s, a),
           \A h \in Hooks : a[h] # Null => b[h] = a[h]
    PROVE  Since(s, b)
<1>1. \A i \in DOMAIN s : s[i].win \in Windows
  <2>1. \A i \in DOMAIN s : s[i] \in Frames
    OBVIOUS
  <2>2. QED
    BY <2>1 DEF Frames
<1>2. QED
  BY <1>1, HooksAssumption DEF Since

LEMMA MarkSince ==
    ASSUME NEW s \in Seq(Frames), NEW a, NEW b, Since(s, a), NEW hs, NEW what \in {"left", "gone"},
           \A h \in Hooks : h \notin hs /\ a[h] # Null => b[h] = a[h]
    PROVE  Since(Mark(s, hs, what), b)
<1>1. \A i \in DOMAIN s : s[i] \in Frames /\ s[i].win \in Windows
  <2>1. \A i \in DOMAIN s : s[i] \in Frames
    OBVIOUS
  <2>2. QED
    BY <2>1 DEF Frames
<1>2. \A f \in Frames : /\ [f EXCEPT !.since = what].since = what
                        /\ [f EXCEPT !.since = what].at = f.at
                        /\ [f EXCEPT !.since = what].win = f.win
  BY DEF Frames
<1>3. ASSUME NEW i \in DOMAIN s, Mark(s, hs, what)[i].at \in Hooks,
             Mark(s, hs, what)[i].since = "hooked"
      PROVE  b[Mark(s, hs, what)[i].at] = Mark(s, hs, what)[i].win
  <2>1. Mark(s, hs, what)[i] = IF s[i].at \in hs /\ s[i].since # "gone"
                               THEN [s[i] EXCEPT !.since = what] ELSE s[i]
    BY DEF Mark
  <2>2. ~(s[i].at \in hs /\ s[i].since # "gone")
    BY <1>1, <1>2, <1>3, <2>1
  <2>3. a[s[i].at] = s[i].win /\ s[i].at \notin hs /\ s[i].at \in Hooks
    BY <1>3, <2>1, <2>2 DEF Since
  <2>4. QED
    BY <1>1, <2>1, <2>2, <2>3, HooksAssumption
<1>4. DOMAIN Mark(s, hs, what) = DOMAIN s
  BY DEF Mark
<1>5. QED
  BY <1>3, <1>4 DEF Since

LEMMA PushSince ==
    ASSUME NEW s \in Seq(Frames), NEW f \in Frames, NEW a, Since(s, a),
           f.at \in Hooks /\ f.since = "hooked" => a[f.at] = f.win
    PROVE  Since(Append(s, f), a)
<1>1. \A i \in DOMAIN Append(s, f) :
        (i \in DOMAIN s /\ Append(s, f)[i] = s[i]) \/ Append(s, f)[i] = f
  OBVIOUS
<1>2. QED
  BY <1>1 DEF Since

LEMMA PopSince ==
    ASSUME HooksInv, SinceInv, stack # <<>>
    PROVE  Since(Popped, hwnd)
<1>1. stack \in Seq(Frames)
  BY DEF HooksInv, RestTypes
<1>2. \A i \in DOMAIN Popped : Popped[i] = stack[i] /\ i \in DOMAIN stack
  BY <1>1, PoppedFrames
<1>3. QED
  BY <1>2 DEF Since, SinceInv

LEMMA HookMoves ==
    ASSUME HooksInv, NEW h \in Hooks, NEW w \in Windows, hwnd[h] = Null, Hook(h, w)
    PROVE  \A g \in Hooks : hwnd[g] # Null => hwnd'[g] = hwnd[g]
  BY DEF HooksInv, ChainInv, HookTypes, Hook

LEMMA DestructMoves ==
    ASSUME HooksInv, NEW h \in Hooks, Destruct(h)
    PROVE  \A g \in Hooks : g \notin {h} => hwnd'[g] = hwnd[g]
<1>1. hwnd \in [Hooks -> Windows \cup {Null}]
  BY DEF HooksInv, ChainInv, HookTypes
<1>2. hwnd' = hwnd \/ hwnd' = [hwnd EXCEPT ![h] = Null]
  BY DEF Destruct, Unhook, hookVars
<1>3. QED
  BY <1>1, <1>2

LEMMA CallKeepsSince ==
    ASSUME HooksInv, NEW p, NEW w \in Windows, NEW m \in {"any", "ncdestroy"},
           NEW s \in Seq(Frames), Since(s, hwnd), Call(p, w, m, s)
    PROVE  SinceInv'
<1> USE HooksAssumption
<1>t. HookTypes /\ ChainInv
  BY DEF HooksInv, ChainInv
<1>c. "control" \notin Hooks /\ "hooks" \notin Hooks
  BY HooksAssumption, Zenon
<1>0. SUFFICES Since(stack', hwnd')
  BY DEF Since, SinceInv
<1>1. CASE CallOwn(w, m, s)
  BY <1>1 DEF CallOwn, hookVars
<1>2. CASE CallControl(w, m, s)
  <2> DEFINE f == Frame("control", w, m, Null, "hooked")
  <2>1. f \in Frames /\ f.at \notin Hooks
    BY <1>c, FrameType DEF Frame
  <2>2. stack' = Append(s, f)
    BY <1>2 DEF CallControl, Push
  <2> HIDE DEF f
  <2>3. \A g \in Hooks : hwnd[g] # Null => hwnd'[g] = hwnd[g]
    <3>1. CASE UNCHANGED hookVars
      BY <3>1 DEF hookVars
    <3>2. CASE \E h \in Hooks \ live : Hook(h, w)
      <4>1. PICK h \in Hooks \ live : Hook(h, w)
        BY <3>2
      <4>2. hwnd[h] = Null
        BY <1>t, <4>1 DEF ChainInv, ChainSound
      <4>3. QED
        BY <4>1, <4>2, HookMoves
    <3>3. QED
      BY <1>2, <3>1, <3>2 DEF CallControl
  <2>4. Since(s, hwnd')
    BY <2>3, KeepSince
  <2>5. QED
    BY <2>1, <2>2, <2>4, PushSince
<1>3. CASE CallHooks(w, m, s)
  <2>1. CASE map[w] = Null
    BY <1>3, <2>1 DEF CallHooks, hookVars
  <2>2. CASE map[w] # Null /\ m = "any"
    <3> DEFINE f == Frame(map[w], w, m, Null, "hooked")
    <3>1. f \in Frames /\ f.at = map[w] /\ f.win = w
      BY <1>t, <2>2, FrameType DEF HookTypes, Frame
    <3>2. stack' = Append(s, f) /\ hwnd' = hwnd
      BY <1>3, <2>2 DEF CallHooks, Push, hookVars
    <3>3. hwnd[map[w]] = w
      BY <1>t, <2>2 DEF ChainInv, ChainSound
    <3> HIDE DEF f
    <3>4. QED
      BY <3>1, <3>2, <3>3, PushSince
  <2>3. CASE map[w] # Null /\ m = "ncdestroy"
    <3> DEFINE f == Frame("hooks", w, m, old[map[w]], "hooked")
               t == Mark(s, On(w), "left")
    <3>1. f \in Frames /\ f.at \notin Hooks
      BY <1>c, <1>t, <2>3, FrameType DEF HookTypes, Frame
    <3>2. stack' = Append(t, f) /\ UnhookAll(w)
      BY <1>3, <2>3 DEF CallHooks, Push
    <3>3. \A g \in Hooks : g \notin On(w) => hwnd'[g] = hwnd[g]
      BY <3>2 DEF UnhookAll, On
    <3>4. t \in Seq(Frames) /\ Since(t, hwnd')
      BY <3>3, MarkType, MarkSince
    <3> HIDE DEF f, t
    <3>5. QED
      BY <3>1, <3>2, <3>4, PushSince
  <2>4. QED
    BY <2>1, <2>2, <2>3
<1>4. QED
  BY <1>1, <1>2, <1>3 DEF Call

LEMMA StepKeepsSince == HooksInv /\ OrderInv /\ SinceInv /\ [Next]_vars => SinceInv'
<1> SUFFICES ASSUME HooksInv, OrderInv, SinceInv, [Next]_vars PROVE SinceInv'
  OBVIOUS
<1> USE HooksAssumption
<1>0. SUFFICES Since(stack', hwnd')
  BY DEF Since, SinceInv
<1>t. /\ stack \in Seq(Frames) /\ Since(stack, hwnd)
      /\ HookTypes /\ ChainInv
  BY DEF HooksInv, RestTypes, SinceInv, Since, ChainInv
<1>1. ASSUME NEW w \in Windows,
             \/ \E p \in OwnProcs : CreateWindow(w, p)
             \/ InstallHook(w)
      PROVE  Since(stack', hwnd')
  BY <1>1, <1>t DEF CreateWindow, InstallHook
<1>2. ASSUME NEW w \in Windows, SendMessage(w) \/ DestroyWindow(w) PROVE Since(stack', hwnd')
  <2>1. SinceInv'
    BY <1>2, <1>t, CallKeepsSince DEF SendMessage, DestroyWindow
  <2>2. QED
    BY <2>1 DEF Since, SinceInv
<1>3. ASSUME NEW h \in Hooks, NEW w \in Windows, HookWindow(h, w) PROVE Since(stack', hwnd')
  <2>1. \A g \in Hooks : hwnd[g] # Null => hwnd'[g] = hwnd[g]
    BY <1>3, HookMoves DEF HookWindow
  <2>2. Since(stack, hwnd')
    BY <1>t, <2>1, KeepSince
  <2>3. QED
    BY <1>3, <2>2 DEF HookWindow
<1>4. ASSUME NEW h \in Hooks, UnhookWindow(h) \/ DeleteHook(h) PROVE Since(stack', hwnd')
  <2>1. \A g \in Hooks : g \notin {h} => hwnd'[g] = hwnd[g]
    BY <1>4, DestructMoves DEF UnhookWindow, DeleteHook, Destruct
  <2>2. PICK what \in {"left", "gone"} : stack' = Mark(stack, {h}, what)
    BY <1>4 DEF UnhookWindow, DeleteHook
  <2>3. QED
    BY <1>t, <2>1, <2>2, MarkSince
<1>5. CASE Forward
  <2>1. stack # <<>> /\ Top.at \in Hooks
    BY <1>5 DEF Forward, Running
  <2>2. Top \in Frames /\ Top.win \in Windows /\ Top.msg \in {"any", "ncdestroy"}
    BY <1>t, <2>1, TopType DEF Frames
  <2>3. CASE Fault("freed hook") \/ Fault("no procedure")
    BY <1>t, <2>3 DEF Fault, hookVars
  <2>4. ASSUME NEW n \in Hooks, UNCHANGED hookVars,
               Push(stack, Frame(n, Top.win, Top.msg, Null,
                                 IF hwnd[n] = Top.win THEN "hooked" ELSE "left"), Top.msg)
        PROVE  Since(stack', hwnd')
    <3> DEFINE f == Frame(n, Top.win, Top.msg, Null,
                          IF hwnd[n] = Top.win THEN "hooked" ELSE "left")
    <3>1. f \in Frames
      BY <2>2, FrameType
    <3>2. f.at = n /\ f.win = Top.win /\ (f.since = "hooked" => hwnd[n] = Top.win)
      BY DEF Frame
    <3>3. stack' = Append(stack, f) /\ hwnd' = hwnd
      BY <2>4 DEF Push, hookVars
    <3> HIDE DEF f
    <3>4. QED
      BY <1>t, <3>1, <3>2, <3>3, PushSince
  <2>5. ASSUME old[Top.at] # Null, Call(old[Top.at], hwnd[Top.at], Top.msg, stack)
        PROVE  Since(stack', hwnd')
    <3>1. hwnd[Top.at] \in Windows
      BY <1>t, <2>1, <2>5 DEF ChainInv, SavedInv, HookTypes
    <3>2. SinceInv'
      BY <1>t, <2>2, <2>5, <3>1, CallKeepsSince
    <3>3. QED
      BY <3>2 DEF Since, SinceInv
  <2>6. next[Top.at] # Null => next[Top.at] \in Hooks
    BY <1>t, <2>1 DEF HookTypes
  <2>7. QED
    BY <1>5, <2>3, <2>4, <2>5, <2>6 DEF Forward
<1>6. CASE PassDestroy
  <2>1. stack # <<>> /\ Call(Top.then, Top.win, "ncdestroy", Popped)
    BY <1>6 DEF PassDestroy, Running
  <2>2. Top \in Frames /\ Top.win \in Windows /\ Popped \in Seq(Frames) /\ Since(Popped, hwnd)
    BY <1>t, <2>1, TopType, PopSince DEF Frames
  <2>3. SinceInv'
    BY <2>1, <2>2, CallKeepsSince
  <2>4. QED
    BY <2>3 DEF Since, SinceInv
<1>7. CASE ReturnHook
  BY <1>7, PopSince DEF ReturnHook, Running, hookVars
<1>8. CASE ReturnControl \/ DestroyControl \/ KeepControl
  <2>1. stack # <<>> /\ Release(Top.win) /\ Top.at = "control"
    BY <1>8, KeepReleases DEF ReturnControl, DestroyControl, KeepControl, Running
  <2>2. Popped \in Seq(Frames) /\ Since(Popped, hwnd) /\ Top.win \in Windows
    BY <1>t, <2>1, TopType, PopSince DEF Frames
  <2>3. CASE UNCHANGED hookVars /\ stack' = Popped
    BY <2>2, <2>3 DEF hookVars
  <2>4. ASSUME NEW h \in Hooks, Destruct(h), stack' = Mark(Popped, {h}, "gone")
        PROVE  Since(stack', hwnd')
    <3>1. \A g \in Hooks : g \notin {h} => hwnd'[g] = hwnd[g]
      BY <2>4, DestructMoves
    <3>2. QED
      BY <2>2, <2>4, <3>1, MarkSince
  <2>5. QED
    BY <2>1, <2>2, <2>3, <2>4, ReleaseFacts
<1>9. CASE UNCHANGED vars
  BY <1>9, <1>t DEF vars, hookVars
<1>10. QED
  BY <1>1, <1>2, <1>3, <1>4, <1>5, <1>6, <1>7, <1>8, <1>9 DEF Next

\* A hook that is still on its window has a hook of that window next, or none and the
\* window's own procedure or its control.
LEMMA HookedForwards ==
    ASSUME HooksInv, OrderInv, SinceInv, Forward, Top.since = "hooked"
    PROVE  /\ fault' = "none"
           /\ Len(stack') > Len(stack) =>
                LET f == stack'[Len(stack')] IN f.win = Top.win /\ f.since = "hooked"
<1> USE HooksAssumption
<1> DEFINE h == Top.at
           n == next[h]
           w == Top.win
<1>0. stack # <<>> /\ h \in Hooks /\ fault = "none"
  BY DEF Forward, Running
<1>t. stack \in Seq(Frames) /\ HookTypes /\ ChainInv
  BY DEF HooksInv, RestTypes, ChainInv
<1>1. /\ Len(stack) \in DOMAIN stack /\ Top = stack[Len(stack)] /\ Len(stack) \in Nat
      /\ w \in Windows /\ Top.msg \in {"any", "ncdestroy"}
  BY <1>0, <1>t, PoppedFrames DEF Frames
<1>2. hwnd[h] = w
  BY <1>0, <1>1 DEF SinceInv
<1>3. n # Null => n \in live /\ hwnd[n] = w /\ n \in Hooks
  BY <1>0, <1>1, <1>2, <1>t DEF ChainInv, ChainSound, HookTypes
<1>4. old[h] # Null /\ old[h] = Below(w) /\ old[h] \in Procs
  BY <1>0, <1>1, <1>2, <1>t DEF OrderInv, ProceduresInOrder, ChainInv, SavedInv, HookTypes
<1>5. CASE n # Null
  <2> DEFINE f == Frame(n, w, Top.msg, Null, IF hwnd[n] = w THEN "hooked" ELSE "left")
  <2>1. Push(stack, f, Top.msg) /\ fault' = fault
    BY <1>3, <1>5 DEF Forward
  <2>2. f.win = w /\ f.since = "hooked"
    BY <1>3, <1>5 DEF Frame
  <2>3. stack' = Append(stack, f)
    BY <2>1 DEF Push
  <2> HIDE DEF f
  <2>4. stack'[Len(stack')] = f
    BY <1>t, <2>3
  <2>5. QED
    BY <1>0, <2>1, <2>2, <2>4
<1>6. CASE n = Null
  <2>1. Call(old[h], w, Top.msg, stack)
    BY <1>2, <1>4, <1>6 DEF Forward
  <2>2. old[h] # "hooks"
    BY <1>1, <1>4, BelowType DEF HooksInv
  <2>3. CASE CallOwn(w, Top.msg, stack)
    BY <1>0, <1>1, <2>3 DEF CallOwn
  <2>4. CASE CallControl(w, Top.msg, stack)
    <3> DEFINE f == Frame("control", w, Top.msg, Null, "hooked")
    <3>1. stack' = Append(stack, f) /\ fault' = fault
      BY <2>4 DEF CallControl, Push
    <3>2. f.win = w /\ f.since = "hooked"
      BY DEF Frame
    <3> HIDE DEF f
    <3>3. stack'[Len(stack')] = f
      BY <1>t, <3>1
    <3>4. QED
      BY <1>0, <3>1, <3>2, <3>3
  <2>5. QED
    BY <2>1, <2>2, <2>3, <2>4 DEF Call
<1>7. QED
  BY <1>5, <1>6

------------------------------------------------------------------------------
(* The theorems.                                                             *)

\* The variables keep their types; in particular no window is ever given NULL for
\* its procedure by a hook that is taken off.
THEOREM TypeCorrect == Spec => []TypeOK
<1>1. HooksInv => TypeOK
  BY HooksInvTypes
<1>2. QED
  BY AlwaysHooksInv, <1>1, PTL

\* Whatever handlers hook, unhook, delete and destroy while messages run down the
\* chains: the chain of each window has just its hooks, each once, and
\* CSubclassWndMap::Remove finds the hook it looks for.
THEOREM ChainsStaySound == Spec => []ChainSound
<1>1. HooksInv => ChainSound
  BY HooksInvTypes
<1>2. QED
  BY AlwaysHooksInv, <1>1, PTL

\* The procedures of a window are always in order, however its hooks come and go: the
\* last hook puts back what the first one found, and neither HookWndProc nor
\* ControlProc ever becomes the procedure below itself (subclass.cpp:89, 160).
THEOREM ProceduresStayInOrder == Spec => []ProceduresInOrder
<1>1. OrderInv => ProceduresInOrder
  BY DEF OrderInv
<1>2. QED
  BY AlwaysOrderInv, <1>1, PTL

\* A window that is gone has left no trace in the maps, at any depth of messages within
\* messages: its handle can be used again (SkinCtrl.h:312, subclass.cpp:130).
THEOREM DeadAreForgotten == Spec => []DeadIsForgotten
<1>1. OrderInv => DeadIsForgotten
  BY DEF OrderInv
<1>2. QED
  BY AlwaysOrderInv, <1>1, PTL

\* A hook that stayed on its window since its WindowProc was entered passes the message
\* on to the same window, and never into freed memory, whatever the handlers before it
\* hooked, unhooked, deleted or destroyed (subclass.cpp:59-61).
THEOREM HookedForwardSafely == Spec => HookedForwardsSafely
<1>1. Init => SinceInv
  BY DEF Init, SinceInv
<1>2. HooksInv /\ OrderInv /\ SinceInv /\ [Next]_vars => SinceInv'
  BY StepKeepsSince
<1>3. HooksInv /\ OrderInv /\ SinceInv /\ [Next]_vars =>
        [(Forward /\ Top.since = "hooked") =>
            /\ fault' = "none"
            /\ Len(stack') > Len(stack) =>
                LET f == stack'[Len(stack')] IN f.win = Top.win /\ f.since = "hooked"]_vars
  BY HookedForwards
<1>4. QED
  BY <1>1, <1>2, <1>3, AlwaysHooksInv, AlwaysOrderInv, PTL DEF Spec, HookedForwardsSafely
==============================================================================
