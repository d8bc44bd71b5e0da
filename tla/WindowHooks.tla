----------------------------- MODULE WindowHooks -----------------------------
(***************************************************************************)
(* The window procedures of the skin library (skin/src): what hangs on the *)
(* one procedure slot of a window, and how a message comes down through it.*)
(*                                                                         *)
(*   "hooks"    HookWndProc (base/subclass.cpp), in front of the chain of  *)
(*              CSubclassWnd hooks of the window;                          *)
(*   "control"  SkinControlImpl::ControlProc with HookPolicy               *)
(*              (base/SkinCtrl.h): the window's skin control, an object    *)
(*              made at the first message and kept in _handle_maps;        *)
(*   own[w]     the procedure the window was created with.                 *)
(*                                                                         *)
(* One thread.  Procedures call each other, and a handler may send, hook,  *)
(* unhook, delete and destroy: stack holds the procedures that are         *)
(* running, the innermost last.  As in the library a control comes first   *)
(* (SkinFramehWnd) and hooks come over it (CSkinMenuBar::SetWnd).          *)
(***************************************************************************)
EXTENDS Naturals, Sequences

CONSTANTS Windows,    \* window handles
          Hooks,      \* places for CSubclassWnd objects
          OwnProcs,   \* procedures windows are created with
          Null,
          MaxDepth    \* bound: procedures running at once

ASSUME HooksAssumption ==
    /\ Null \notin Windows \cup Hooks \cup OwnProcs
    /\ {"control", "hooks"} \cap (Hooks \cup OwnProcs \cup {Null}) = {}
    /\ MaxDepth \in Nat

VARIABLES
    win,      \* win[w]: "none", "live", or "dying" from DestroyWindow on
    own,      \* own[w]: the procedure w was created with
    proc,     \* proc[w]: the procedure it has, GWL_WNDPROC
    map,      \* theHookMap: the first hook of w
    next,     \* m_pNext
    old,      \* m_pOldWndProc
    hwnd,     \* m_hWnd
    live,     \* the hooks that are constructed
    owner,    \* owner[h]: the window whose control has h as a member (m_hookFrame)
    hooked,   \* the keys of _hook_maps that are not in kept
    control,  \* the keys of _handle_maps that are not in kept
    kept,     \* the keys of both whose control has handled WM_NCDESTROY
    default,  \* HookPolicy::_defaultproc, one for all windows
    stack,    \* the procedures running
    fault     \* "none", or what a procedure ran into

vars == <<win, own, proc, map, next, old, hwnd, live, owner,
          hooked, control, kept, default, stack, fault>>

hookVars == <<proc, map, next, old, hwnd>>
hookObjs == <<live, owner>>

Procs == OwnProcs \cup {"control", "hooks"}

\* A running procedure: a hook's WindowProc, ControlProc, or HookWndProc about to
\* pass WM_NCDESTROY on.  since: what became of the hook since it was entered.
Frames == [at : Hooks \cup {"control", "hooks"}, win : Windows, msg : {"any", "ncdestroy"},
           then : Procs \cup {Null}, since : {"hooked", "left", "gone"}]

Frame(a, w, m, p, s) == [at |-> a, win |-> w, msg |-> m, then |-> p, since |-> s]

Top     == stack[Len(stack)]
Popped  == SubSeq(stack, 1, Len(stack) - 1)
Running == fault = "none" /\ stack # <<>>

\* s with the frames of the hooks hs told what became of their hook.
Mark(s, hs, what) ==
    [i \in DOMAIN s |->
        IF s[i].at \in hs /\ s[i].since # "gone" THEN [s[i] EXCEPT !.since = what] ELSE s[i]]

On(w) == {h \in Hooks : hwnd[h] = w}

------------------------------------------------------------------------------
(* CSubclassWndMap and HookWindow                                            *)

SetWindowLong(w, p) == [proc EXCEPT ![w] = p]

\* Mutant of Hook: the procedure of the window is saved for every hook, not only
\* for the first.
HookSavesAgain(h, w) ==
    /\ map'  = [map EXCEPT ![w] = h]
    /\ next' = [next EXCEPT ![h] = map[w]]
    /\ hwnd' = [hwnd EXCEPT ![h] = w]
    /\ old'  = [old EXCEPT ![h] = proc[w]]
    /\ proc' = SetWindowLong(w, "hooks")

\* HookWindow(w) of h: to the front of the chain of w.
Hook(h, w) ==
    /\ map'  = [map EXCEPT ![w] = h]
    /\ next' = [next EXCEPT ![h] = map[w]]
    /\ hwnd' = [hwnd EXCEPT ![h] = w]
    /\ IF map[w] = Null
       THEN /\ old'  = [old EXCEPT ![h] = proc[w]]
            /\ proc' = SetWindowLong(w, "hooks")
       ELSE /\ old'  = [old EXCEPT ![h] = old[map[w]]]
            /\ UNCHANGED proc

\* Mutant of Unhook: the hook before h keeps its m_pNext.
UnhookLeavesNext(h) ==
    LET w == hwnd[h] IN
    /\ \/ /\ map[w] = h
          /\ map' = [map EXCEPT ![w] = next[h]]
          /\ proc' = IF next[h] = Null THEN SetWindowLong(w, old[h]) ELSE proc
       \/ map[w] # h /\ UNCHANGED <<map, proc>>
    /\ old'  = [old EXCEPT ![h] = Null]
    /\ hwnd' = [hwnd EXCEPT ![h] = Null]
    /\ UNCHANGED next

\* Mutant of Unhook: the chain is cut behind the hook before h.
UnhookCuts(h) ==
    LET w == hwnd[h] IN
    /\ \/ /\ map[w] = h
          /\ map' = [map EXCEPT ![w] = next[h]]
          /\ proc' = IF next[h] = Null THEN SetWindowLong(w, old[h]) ELSE proc
          /\ UNCHANGED next
       \/ /\ map[w] # h
          /\ \E g \in On(w) : next[g] = h /\ next' = [next EXCEPT ![g] = Null]
          /\ UNCHANGED <<map, proc>>
    /\ old'  = [old EXCEPT ![h] = Null]
    /\ hwnd' = [hwnd EXCEPT ![h] = Null]

\* HookWindow(NULL) of h: off the front, or out of the middle; m_pNext stays.
Unhook(h) ==
    LET w == hwnd[h] IN
    /\ \/ /\ map[w] = h
          /\ map' = [map EXCEPT ![w] = next[h]]
          /\ proc' = IF next[h] = Null THEN SetWindowLong(w, old[h]) ELSE proc
          /\ UNCHANGED next
       \/ /\ map[w] # h
          /\ \E g \in On(w) : next[g] = h /\ next' = [next EXCEPT ![g] = next[h]]
          /\ UNCHANGED <<map, proc>>
    /\ old'  = [old EXCEPT ![h] = Null]
    /\ hwnd' = [hwnd EXCEPT ![h] = Null]

\* Mutant of UnhookAll: the saved procedure is put back after it was cleared.
UnhookAllTooLate(w) ==
    /\ map'  = [map EXCEPT ![w] = Null]
    /\ old'  = [h \in Hooks |-> IF h \in On(w) THEN Null ELSE old[h]]
    /\ hwnd' = [h \in Hooks |-> IF h \in On(w) THEN Null ELSE hwnd[h]]
    /\ \E last \in On(w) : next[last] = Null /\ proc' = SetWindowLong(w, old'[last])
    /\ UNCHANGED next

\* RemoveAll: HookWindow(NULL) of the first hook until there is none.
UnhookAll(w) ==
    /\ \E last \in On(w) : next[last] = Null /\ proc' = SetWindowLong(w, old[last])
    /\ map'  = [map EXCEPT ![w] = Null]
    /\ old'  = [h \in Hooks |-> IF h \in On(w) THEN Null ELSE old[h]]
    /\ hwnd' = [h \in Hooks |-> IF h \in On(w) THEN Null ELSE hwnd[h]]
    /\ UNCHANGED next

------------------------------------------------------------------------------
(* Calling a procedure: p gets message m for window w while s is running     *)

\* A window's own procedure, or DefWindowProc; after WM_NCDESTROY w is gone.
CallOwn(w, m, s) ==
    /\ stack' = s
    /\ win' = IF m = "ncdestroy" THEN [win EXCEPT ![w] = "none"] ELSE win
    /\ UNCHANGED <<own, hookVars, hookObjs, hooked, control, kept, default, fault>>

Push(s, f, m) ==
    /\ Len(s) < MaxDepth
    /\ stack' = Append(s, f)
    /\ win' = IF m = "ncdestroy" THEN [win EXCEPT ![f.win] = "dying"] ELSE win

\* ControlProc up to ProcessWindowMessage.  The first message makes the control;
\* OnFirstMessage of a frame with a menu hooks its window.
CallControl(w, m, s) ==
    /\ Push(s, Frame("control", w, m, Null, "hooked"), m)
    /\ control' = control \cup {w}
    /\ \/ UNCHANGED <<hookVars, hookObjs>>
       \/ \E h \in Hooks \ live :
            /\ w \notin control
            /\ Hook(h, w)
            /\ live' = live \cup {h}
            /\ owner' = [owner EXCEPT ![h] = w]
    /\ UNCHANGED <<own, hooked, kept, default, fault>>

\* HookWndProc.
CallHooks(w, m, s) ==
    \/ /\ map[w] = Null
       /\ fault' = "orphan"
       /\ stack' = s
       /\ UNCHANGED <<win, own, hookVars, hookObjs, hooked, control, kept, default>>
    \/ /\ map[w] # Null /\ m = "any"
       /\ Push(s, Frame(map[w], w, m, Null, "hooked"), m)
       /\ UNCHANGED <<own, hookVars, hookObjs, hooked, control, kept, default, fault>>
    \/ /\ map[w] # Null /\ m = "ncdestroy"
       /\ UnhookAll(w)
       /\ Push(Mark(s, On(w), "left"), Frame("hooks", w, m, old[map[w]], "hooked"), m)
       /\ UNCHANGED <<own, hookObjs, hooked, control, kept, default, fault>>

Call(p, w, m, s) ==
    \/ p \in OwnProcs \cup {Null} /\ CallOwn(w, m, s)
    \/ p = "control" /\ CallControl(w, m, s)
    \/ p = "hooks" /\ CallHooks(w, m, s)

------------------------------------------------------------------------------
(* What the application and the handlers do                                  *)

\* HookWndProc has no user code in it.
UserRuns == fault = "none" /\ (stack # <<>> => Top.at # "hooks")

Entered(w) == \E i \in DOMAIN stack : stack[i].win = w

\* A handle comes back only when nothing of its last window is running.
CreateWindow(w, p) ==
    /\ UserRuns /\ win[w] = "none" /\ ~Entered(w)
    /\ win'  = [win EXCEPT ![w] = "live"]
    /\ own'  = [own EXCEPT ![w] = p]
    /\ proc' = [proc EXCEPT ![w] = p]
    /\ UNCHANGED <<map, next, old, hwnd, hookObjs, hooked, control, kept, default, stack, fault>>

SendMessage(w) ==
    /\ UserRuns /\ win[w] # "none"
    /\ Call(proc[w], w, "any", stack)

DestroyWindow(w) ==
    /\ UserRuns /\ win[w] = "live"
    /\ Call(proc[w], w, "ncdestroy", stack)

\* SkinFramehWnd -> InstallHook -> HookPolicy::Install, on a window without hooks.
InstallHook(w) ==
    /\ UserRuns /\ win[w] = "live" /\ map[w] = Null
    /\ w \notin hooked \cup kept
    /\ hooked' = hooked \cup {w}
    /\ default' = proc[w]
    /\ proc' = SetWindowLong(w, "control")
    /\ UNCHANGED <<win, own, map, next, old, hwnd, hookObjs, kept, control, stack, fault>>

\* A hook that is no member of a control: constructed if need be, and hooked.
HookWindow(h, w) ==
    /\ UserRuns /\ win[w] = "live" /\ hwnd[h] = Null /\ owner[h] = Null
    /\ Hook(h, w)
    /\ live' = live \cup {h}
    /\ UNCHANGED <<win, own, owner, hooked, control, kept, default, stack, fault>>

UnhookWindow(h) ==
    /\ UserRuns /\ hwnd[h] # Null /\ owner[h] = Null
    /\ Unhook(h)
    /\ stack' = Mark(stack, {h}, "left")
    /\ UNCHANGED <<win, own, hookObjs, hooked, control, kept, default, fault>>

\* ~CSubclassWnd
Destruct(h) == IF hwnd[h] # Null THEN Unhook(h) ELSE UNCHANGED hookVars

DeleteHook(h) ==
    /\ UserRuns /\ h \in live /\ owner[h] = Null
    /\ Destruct(h)
    /\ live' = live \ {h}
    /\ stack' = Mark(stack, {h}, "gone")
    /\ UNCHANGED <<win, own, owner, hooked, control, kept, default, fault>>

------------------------------------------------------------------------------
(* The procedures going on                                                   *)

Fault(what) ==
    /\ fault' = what
    /\ UNCHANGED <<win, own, hookVars, hookObjs, hooked, control, kept, default, stack>>

\* A hook's WindowProc passes the message on to CSubclassWnd::WindowProc.
Forward ==
    LET h == Top.at  n == next[h] IN
    /\ Running /\ h \in Hooks
    /\ \/ Top.since = "gone" /\ Fault("freed hook")
       \/ /\ Top.since # "gone" /\ n # Null
          /\ \/ n \notin live /\ Fault("freed hook")
             \/ /\ n \in live
                /\ Push(stack, Frame(n, Top.win, Top.msg, Null,
                                     IF hwnd[n] = Top.win THEN "hooked" ELSE "left"), Top.msg)
                /\ UNCHANGED <<own, hookVars, hookObjs, hooked, control, kept, default, fault>>
       \/ /\ Top.since # "gone" /\ n = Null
          /\ \/ old[h] = Null /\ Fault("no procedure")
             \/ old[h] # Null /\ Call(old[h], hwnd[h], Top.msg, stack)

\* HookWndProc, WM_NCDESTROY: CallWindowProc of the procedure saved before RemoveAll.
PassDestroy ==
    /\ Running /\ Top.at = "hooks"
    /\ Call(Top.then, Top.win, "ncdestroy", Popped)

ReturnHook ==
    /\ Running /\ Top.at \in Hooks
    /\ stack' = Popped
    /\ UNCHANGED <<win, own, hookVars, hookObjs, hooked, control, kept, default, fault>>

\* The end of ControlProc for w, safeptr released: the control dies with the last
\* reference to it, _handle_maps' or a running ControlProc's, and its hook with it.
Release(w) ==
    IF w \in control' \/ \E i \in DOMAIN Popped : Popped[i].at = "control" /\ Popped[i].win = w
    THEN stack' = Popped /\ UNCHANGED <<hookVars, hookObjs>>
    ELSE \/ /\ \A h \in Hooks : owner[h] # w
            /\ stack' = Popped
            /\ UNCHANGED <<hookVars, hookObjs>>
         \/ \E h \in Hooks :
            /\ owner[h] = w
            /\ Destruct(h)
            /\ live' = live \ {h}
            /\ owner' = [owner EXCEPT ![h] = Null]
            /\ stack' = Mark(Popped, {h}, "gone")

\* The message was handled, or went to the default procedure.
ReturnControl ==
    /\ Running /\ Top.at = "control" /\ Top.msg = "any"
    /\ UNCHANGED control
    /\ Release(Top.win)
    /\ UNCHANGED <<win, own, hooked, kept, default, fault>>

\* Mutant of DestroyControl: _hook_maps keeps the window.
DestroyControlKeepsHook ==
    LET w == Top.win IN
    /\ Running /\ Top.at = "control" /\ Top.msg = "ncdestroy"
    /\ win' = [win EXCEPT ![w] = "none"]
    /\ control' = control \ {w}
    /\ Release(w)
    /\ UNCHANGED <<own, hooked, kept, default, fault>>

\* WM_NCDESTROY, not handled: default procedure, then out of both maps.
DestroyControl ==
    LET w == Top.win IN
    /\ Running /\ Top.at = "control" /\ Top.msg = "ncdestroy"
    /\ win' = [win EXCEPT ![w] = "none"]
    /\ control' = control \ {w}
    /\ hooked' = hooked \ {w}
    /\ Release(w)
    /\ UNCHANGED <<own, kept, default, fault>>

\* WM_NCDESTROY, handled: no default procedure, and both maps keep the window, as
\* with ClassPolicy SkinHookToolBarCtrl does.  No control with a hook handles it.
KeepControl ==
    LET w == Top.win IN
    /\ Running /\ Top.at = "control" /\ Top.msg = "ncdestroy"
    /\ \A h \in Hooks : owner[h] # w
    /\ win' = [win EXCEPT ![w] = "none"]
    /\ control' = control \ {w}
    /\ hooked' = hooked \ {w}
    /\ kept' = kept \cup {w}
    /\ stack' = Popped
    /\ UNCHANGED <<own, hookVars, hookObjs, default, fault>>

------------------------------------------------------------------------------
Init ==
    /\ win = [w \in Windows |-> "none"]
    /\ own \in [Windows -> OwnProcs]
    /\ proc = own
    /\ map = [w \in Windows |-> Null]
    /\ next = [h \in Hooks |-> Null]
    /\ old = [h \in Hooks |-> Null]
    /\ hwnd = [h \in Hooks |-> Null]
    /\ live = {}
    /\ owner = [h \in Hooks |-> Null]
    /\ hooked = {} /\ control = {} /\ kept = {}
    /\ default = Null
    /\ stack = <<>>
    /\ fault = "none"

Next ==
    \/ \E w \in Windows :
        \/ \E p \in OwnProcs : CreateWindow(w, p)
        \/ SendMessage(w)
        \/ DestroyWindow(w)
        \/ InstallHook(w)
    \/ \E h \in Hooks :
        \/ \E w \in Windows : HookWindow(h, w)
        \/ UnhookWindow(h)
        \/ DeleteHook(h)
    \/ Forward
    \/ PassDestroy
    \/ ReturnHook
    \/ ReturnControl
    \/ DestroyControl
    \/ KeepControl

Spec == Init /\ [][Next]_vars

------------------------------------------------------------------------------
(* Properties                                                                *)

\* The variables keep their types.
TypeOK ==
    /\ win \in [Windows -> {"none", "live", "dying"}]
    /\ own \in [Windows -> OwnProcs]
    /\ proc \in [Windows -> Procs]
    /\ map \in [Windows -> Hooks \cup {Null}]
    /\ next \in [Hooks -> Hooks \cup {Null}]
    /\ old \in [Hooks -> Procs \cup {Null}]
    /\ hwnd \in [Hooks -> Windows \cup {Null}]
    /\ live \in SUBSET Hooks
    /\ owner \in [Hooks -> Windows \cup {Null}]
    /\ hooked \in SUBSET Windows
    /\ control \in SUBSET Windows
    /\ kept \in SUBSET Windows
    /\ default \in Procs \cup {Null}
    /\ stack \in Seq(Frames)
    /\ fault \in {"none", "orphan", "freed hook", "no procedure"}

\* The chain of a window, from its entry in the hook map along m_pNext, has the
\* hooks with that m_hWnd and no other, each once, all constructed: whatever
\* handlers hook, unhook and delete in between, Remove finds its hook on the walk
\* (subclass.cpp:164).  Every set of hooks has one that none of the set leads to: no
\* hooks are left in a ring of their own.
ChainSound ==
    /\ \A w \in Windows : map[w] # Null => hwnd[map[w]] = w
    /\ \A h \in Hooks : hwnd[h] # Null =>
        /\ h \in live
        /\ next[h] # Null => hwnd[next[h]] = hwnd[h] /\ map[hwnd[h]] # next[h]
        /\ map[hwnd[h]] = h \/ \E g \in On(hwnd[h]) : next[g] = h
        /\ \A g \in On(hwnd[h]) : next[g] = next[h] => g = h
    /\ \A S \in SUBSET {h \in Hooks : hwnd[h] # Null} :
        S # {} => \E h \in S : \A g \in S : next[g] # h

\* The procedure of w below its hooks.
Below(w) == IF w \in hooked THEN "control" ELSE own[w]

\* The procedures of a window are in order: hooks over the control over its own.
\* The last hook to go puts back what the first one found (subclass.cpp:160), and
\* neither procedure ever comes to call itself.  HookWndProc always finds a hook:
\* its assertion (subclass.cpp:89), with handlers unhooking between any two calls.
ProceduresInOrder ==
    /\ \A w \in Windows : win[w] # "none" =>
        proc[w] = IF map[w] # Null THEN "hooks" ELSE Below(w)
    /\ \A h \in Hooks : hwnd[h] # Null => old[h] = Below(hwnd[h])
    /\ default \in OwnProcs \cup {Null}
    /\ hooked # {} => default # Null
    /\ fault # "orphan"

\* A window that is gone is in no map and has no hook: WM_NCDESTROY comes down
\* through all of them, however deep in other messages it was sent.  Its handle
\* can be used again (SkinCtrl.h:312, subclass.cpp:130).  Only a control that says
\* it has handled WM_NCDESTROY stays in the two maps of SkinControlImpl, kept, and
\* its handle with it (SkinCtrl.h:629); CSubclassWndMap forgets that window too.
DeadIsForgotten ==
    \A w \in Windows : win[w] = "none" =>
        /\ map[w] = Null /\ On(w) = {}
        /\ w \notin hooked \cup control

\* A hook that stayed on its window since its WindowProc was entered passes the
\* message on safely, whatever came and went around it (subclass.cpp:59-61): to
\* a hook of the same window, or to a procedure, never to freed memory.  Only a
\* hook that was taken off meanwhile runs into a fault or into another chain.
HookedForwardsSafely ==
    [][(Forward /\ Top.since = "hooked") =>
        /\ fault' = "none"
        /\ Len(stack') > Len(stack) =>
            LET f == stack'[Len(stack')] IN f.win = Top.win /\ f.since = "hooked"]_vars

------------------------------------------------------------------------------
(* The invariant behind them                                                 *)

IsDestroy(f, w) == f.msg = "ncdestroy" /\ f.win = w
IsControl(f, w) == f.at = "control" /\ f.win = w

\* WM_NCDESTROY is on its way just in the windows that are dying, once, and only in
\* ControlProc and HookWndProc, which has taken all hooks off.  A window whose
\* ControlProc is running has its control, or is gone.
StackInv ==
    /\ \A i \in DOMAIN stack :
        LET f == stack[i] IN
        /\ f.at \in Hooks => f.msg = "any"
        /\ f.at = "hooks" => /\ i = Len(stack) /\ f.msg = "ncdestroy"
                             /\ map[f.win] = Null /\ f.then = Below(f.win)
        /\ f.at = "control" => f.win \in control \/ win[f.win] = "none"
        /\ f.msg = "ncdestroy" => win[f.win] = "dying"
    /\ \A i, j \in DOMAIN stack :
        IsDestroy(stack[i], stack[j].win) /\ stack[j].msg = "ncdestroy" => i = j
    /\ \A w \in Windows :
        win[w] = "dying" => \E i \in DOMAIN stack : IsDestroy(stack[i], w)

\* A control has one hook at most, on its own window, and lives while it is in
\* _handle_maps or running.  A dying window has no other hook than the one its
\* control made on WM_NCDESTROY, its first message: no earlier ControlProc is left
\* to keep that control alive.
ControlInv ==
    /\ control \subseteq hooked
    /\ \A h \in Hooks : owner[h] # Null =>
        /\ hwnd[h] \in {owner[h], Null}
        /\ owner[h] \in control \/ \E i \in DOMAIN stack : IsControl(stack[i], owner[h])
        /\ \A g \in Hooks : owner[g] = owner[h] => g = h
    /\ \A h \in Hooks : hwnd[h] # Null /\ win[hwnd[h]] = "dying" =>
        /\ owner[h] = hwnd[h]
        /\ \A i \in DOMAIN stack : IsControl(stack[i], hwnd[h]) =>
            \E j \in 1..i : IsDestroy(stack[j], hwnd[h])

\* A hook that has not been taken off since its WindowProc was entered is on that window.
SinceInv ==
    \A i \in DOMAIN stack : stack[i].at \in Hooks /\ stack[i].since = "hooked" =>
        hwnd[stack[i].at] = stack[i].win
==============================================================================
