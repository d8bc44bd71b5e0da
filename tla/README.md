# TLA+ verification of jezzitest

The repository holds several programs, and this project has models of the parts of
them that have a protocol of their own:

- **infostudio** (`infostudio/studio`), a Windows program that registers with and
  publishes to web sites: a cooperative task scheduler, an asynchronous HTTP client
  on top of WinINet, and an engine whose tasks perform a site's actions, one HTTP
  request each. All three are modelled, model-checked and proved about.
- **tagpath/network**, an HTTP session with a worker thread.
- **cwf**, a FastCGI framework and the example HTTP server next to it.
- **skin**, a skin library that hooks windows.
- **tags/square**, a web site in Python over MongoDB.

Paths are relative to `src/branches/initialize/` unless they start with `tags/`.

## 1. Inventory

### Modelled

**Task scheduler** - `infostudio/studio/base/task.h`, `task.cpp`,
`engine/wndrunner.h`. *State:* per task `parent_`, `children_`, `child_error_`,
`state_`, `blocked_`, `done_`, `aborted_`, `error_`, `timeout_seconds_`,
`timeout_time_`, `timeout_suspended_`; in the runner `tasks_`,
`tasks_running_`, `next_timeout_task_`; the window's queue of `WM_WAKETASK`.
*Operations:* construct, `Start`, `Wake`, `Error`, `Abort`,
`set_timeout_seconds`, `SuspendTimeout`/`ResumeTimeout`, `RunTasks`,
`PollTasks`, `~TaskRunner`. *Hard:* callbacks call back into the scheduler, for
any task, while `RunTasks` iterates; a stop takes a subtree with it; tasks delete
themselves; a nested message loop eats the wake-up of another task. *Correct
when:* a task that can run gets its turn, one that ended never does, nothing is
freed twice or followed after it was freed, a parent learns whether a child
failed.

**HTTP client** - `base/asynchttp.h`, `asynchttp.cpp`, `synchttp.h`. *State:* the
handles `hConn_`, `hRequest_`, the event `event_`, `delete_self_`, `parent_` of an
`AsyncHttp`; `handler_` of a `SyncHttp`; the hidden window and its queue of
`WM_USER`. *Operations:* `PrepareGet`/`PreparePost`, `Close`, both destructors,
and WinINet's callbacks `REQUEST_COMPLETE` and `HANDLE_CLOSING`. *Hard:* two
threads share these fields without a lock; either may free the object; a
destructor waits without a timeout; an answer may be on the way when its
receiver goes. *Correct when:* no callback finds a freed object, an answer is
posted whole and once, closing ends.

**Site engine** - `engine/infoengine.h`, `infoengine.cpp` (what is compiled: the
code after `#if 0` is not). *State:* `state_`, `sent_`, `curact_`, the owned
`http_`. *Operations:* `ProcessStart`, `ProcessResponse`, `OnHttpResponse`, the
signals `SignalActionResponse` and `SignalDone`. *Hard:* any wake-up after the
request was sent is taken for its answer; the next request may begin only when
the last one is closed. *Correct when:* the actions are answered in order, each
once, by the answer to their own request.

*Interactions:* `SiteTask` is stepped by the scheduler and owns a `SyncHttp`;
`SyncHttp` allocates one `AsyncHttp` per request; the WinINet thread calls the
`AsyncHttp` back, which posts to the hidden window; the window thread hands the
content to `GeneralTask::OnHttpResponse`, which calls `Task::Wake`; `Wake` posts
`WM_WAKETASK`, whose handler calls `RunTasks`.

**HTTP session** - `tagpath/network/httpsession.h`, `httpsession.cpp`. *State:*
`tasks_`, `manage_`, `pool_`; of a task its `client_` and `complete_`; the message
queue of the worker thread. *Operations:* `StartTask`, `StopTask`, `ReleaseTask`,
`~HttpSession` on the caller's thread, the messages START, CANCELTASK, DELETE, QUIT and
the client's signals on the worker's. *Hard:* a Send overtakes what was posted;
`tasks_` and `done()` are read on the wrong thread; DELETE may be posted twice.
*Correct when:* no task is lost or in two places, nothing is used after it was
freed, what was begun ends.

**Servers** - `cwf/httpserver2`, `cwf/cwf.cpp`. *State:* the acceptor, the round
robin of `io_service`s, per connection the parser and the reply. *Operations:* the
handlers of accept, read and write, `stop`. *Hard:* a request comes in pieces cut
anywhere; every operation may fail, and nothing is tried again; an assertion of cwf is
`int 3` in every build (cwf.cpp:7-9) and ends the server for all. *Correct when:* the
answer does not depend on the cuts, every connection ends.

**Window procedures of the skin library** - `skin/src/base/subclass.h`,
`subclass.cpp`, `mapptr.cpp`, `SkinCtrl.h`. *State:* a window's procedure slot; the
chain of `CSubclassWnd` hooks on it (`theHookMap`, `m_pNext`, `m_pOldWndProc`,
`m_hWnd`); the skin control under it (`_hook_maps`, `_handle_maps`,
`_defaultproc`). *Operations:* `HookWindow`, `RemoveAll`, `~CSubclassWnd`, `Install`,
and the delivery of messages through all of it. *Hard:* hooks come and go, and
the window dies, while messages run down the chain. *Correct when:* the chain is
whole, the procedures stay in order and are put back, nothing of a dead window
stays, no freed hook is called by one that is in place.

**Square** - `tags/square/feed.py`, `base.py`, `list2tree.py`. *State:* foci, feeds
with their comments, feed lists in MongoDB; what each server process is doing.
*Operations:* `AddFocus`, `Feed.New` with its bulk update and its loop,
`Feed.Comment`, the handlers around them, `BuildTree`. *Hard:* publishing is several
database statements, several processes may share the database; comments name
their parent by an index, which the handlers store as a string. *Correct when:* a
reader in range gets a feed once, a handler shows the comment it added.

**Time arithmetic** - `infostudio/studio/base/base.cpp`: `TimeIsBetween` and
`TimeDiff`, on words that wrap around.

### Not modelled

Each with its reason in `PROJECT.json`: the data layer over SQLite (one thread,
SQLite's transactions), the user interfaces, painting code and the skin manager
(GDI calls), string conversions, headers, dates and templates (pure functions of
strings: `HttpDateToSeconds`, http.cpp:330, loses the time of a date with a numeric
zone to the precedence of `?:`), the tag path parser (text in, calls out), sign-in and
uploads of the square (one or two statements each), AsyncTask (in no build file),
older copies of the same sources, and third-party code. Most of the repository's
lines are of these kinds: SQLite, WTL, the scroll-bar library, tornado, pymongo.

The hazards of the code, each at its line, are listed in `PROJECT.json` under
`hazards` with the properties that watch them.

## 2. Modules

| Module | Models | Extends |
|---|---|---|
| `TaskRunner` | the scheduler | |
| `HttpClient` | `SyncHttp`, `AsyncHttp`, the two threads | |
| `ActionSequence` | what site tasks promise: the abstract specification | |
| `SiteTask` | the engine's tasks over the HTTP client | `HttpClient`; refines `ActionSequence` |
| `HttpSession` | `HttpSession`, `HttpTask`, the caller's and the worker thread | |
| `RequestParser` | the request parser of httpserver2, and what a request is | |
| `HttpServer` | both servers of cwf: accepting, reading, answering | `RequestParser` |
| `WindowHooks` | hooks, skin controls and message delivery | |
| `Square` | feeds, feed lists and comments on a shared database | |
| `TimeArith` | `TimeIsBetween`, `TimeDiff`, with theorems | `TLAPS` |
| `MC...` | model values, symmetry, inputs for TLC | the module of that name |
| `...Proofs` | theorems | the module of that name |

### TaskRunner

Everything runs on the window thread, so an action is a piece of code between
two points where user code may run or the loop goes round. `pc` says who has the
thread: `"idle"` the message loop, `"scan"` the stepping loop of `RunTasks`,
`"process"` a callback of `tasks_[cur]` (its `busy_` flag), `"sweep"` the deletion
loop, `"dead"` after `~TaskRunner`. `tasks_running_` is `pc` being one of the
three in the middle.

| Action | Code |
|---|---|
| `Create`, `Start`, `Wake`, `Error`, `Abort`, `SetTimeoutSeconds`, `SuspendTimeout` | the public operations, from a handler or from inside a callback |
| `RunTasks`, `RunTasksNested` | `WM_WAKETASK`, the second from a nested loop, where `RunTasks` returns at once |
| `ScanSkip`, `ScanAgain`, `ScanQuiet` | the stepping loop around `Step` |
| `StepEnded`, `StepInit`, `StepProcess`, `Return` | `Task::Step`, cut where `Process` calls user code |
| `SweepKeep`, `SweepDelete`, `SweepEnd` | the deletion loop and the recalculation of the timeout |
| `PollTasks`, `Tick` | the poll, the clock |
| `Destroy` | `~TaskRunner`: `AbortAllChildren`, then `RunTasks` |

`Abort` -> `Stop` -> `AbortAllChildren` -> `Abort` is recursive in the code. The
model takes the set of tasks the recursion reaches (`AbortTree`, the smallest set
closed under those calls) and applies the effect at once (`StopTasks`): no user
code runs in between. Deadlines are in ticks; `now` starts at 1 because 0 means
"no deadline" in the code.

What the user's code is taken to respect: a task is started once (a second
`Start` before the first `Step` would list it twice), no child is created under a
task that is done or freed, operations are called on live tasks. A questionable call
that the code seems to expect and handles badly is a switch in `Usage`:
`"abortBusy"`, aborting the task that is executing or an ancestor of it. `Error` may be
called on any task, the executing one included ("Called inside", task.h:68).
`SetState`, used by
AsyncTask alone, is left out. `wndpump.h`, which dispatches the messages, is not
in the repository; `WindowRunner` shows what it must do. `WindowRunner` itself
never calls `PollTasks`; the model has it as an operation of the runner, called
from the message loop. (task.h speaks of time in units of 100 ns,
`WindowRunner::CurrentTime` returns milliseconds; the model's tick stands for
either.)

### HttpClient

Two threads: the window thread, whose place inside `Close` or a destructor is
`mpc`, working on Handler `mh`; and for each Handler the place of the worker
thread in one of its callbacks, `wpc`. A step is what lies between two accesses
the other thread can see. `handler_`, `parent_`, `delete_self_` and `event_` are
variables of their own; a handle is `"null"`, `"open"`, or `"closing"` from
`InternetCloseHandle` to its `HANDLE_CLOSING`.

| Action | Code |
|---|---|
| `Construct`, `Prepare` | `SyncHttp`, `PrepareGet`/`PreparePost` with `SendRequest`, and how far it got |
| `Close`, `CloseRequest`, `CloseConn` | `SyncHttp::Close` -> `Close2` -> `AsyncHttp::Close` |
| `Delete`, `Deleted` | `~SyncHttp` -> `~AsyncHttp`, which waits for `event_` |
| `Dispatch` | `ThreadProxy::OnHttpResponse`, `SyncHttp::Response` |
| `Complete` | `REQUEST_COMPLETE` enters `RequestComplete` |
| `ReadPiece`, `ReadPending`, `ReadEnd`, `OnResponse` | its read loop, and the notification |
| `HandleClosing`, `DeleteSelf` | `HANDLE_CLOSING` up to `SetEvent`, and the read of `delete_self_` after it |

Undefined behaviour is a value: `mpc = "undefined"` and the model stops. It is
reached where a message is dispatched to a client that is gone or has no Handler,
possibly where it has another Handler by now, and in `DeleteSelf` when the other
thread has freed the Handler between `SetEvent` and the read of `delete_self_`
(asynchttp.cpp:345-347).

WinINet is external. What the code relies on, and the model grants: callbacks of
one Handler do not overlap; `HANDLE_CLOSING` comes after `InternetCloseHandle`
and is the last callback of its handle; a connection that breaks is reported by
`REQUEST_COMPLETE`, so that `InternetReadFileEx` fails at once only when its handle
was closed (the code's own assertion, asynchttp.cpp:459, is stricter still, while line
463 takes any error for the end of the body). `OneWholeAnswer`, `DestructorReturns` and
their theorems rest on this. The comment at asynchttp.cpp:462 says that such an
error ("err = 6") leads to a deadlock; the path below it does not block in the
modelled code: `finished` ends the loop, the callback returns, and `HANDLE_CLOSING`
comes as always. The model follows the release build, where `Assert` is
nothing (base.h:14-24): an assertion is a precondition of an operation
(`Prepare` needs `handler_` to be empty) or a property. Headers, cookies, status
codes and saving to a file change nothing the properties speak of and are left
out.

### SiteTask

Client `c` of `HttpClient` is `http_` of task `c`. Of the scheduler only this is
kept: a task that is not blocked is stepped on the window thread, `BLOCKED` holds
it until `Wake`, a task that is done is deleted. The first step, `STATE_INIT` to
`STATE_START`, calls nobody and is part of `Start`. Each action of a task is the
engine's method together with the operation of `HttpClient` it performs:
`BuildRequest` is `Prepare` and more, `NextAction` is `Close` and more, `Free` is
`Delete`, `OnHttpResponse` is `Dispatch` and more. `Abort` is a part of
`AbortSpec` only: nothing in the studio calls it but a parent that ends.

`ActionSequence` is what the owner of a task may rely on: the answers of a task
come as 0, 1, ..., last, each once, and `SignalDone` after the last of them.

### HttpSession

The application's thread is in at most one call, `app`; the worker thread is in
none between two actions. `queue` is what is posted to the worker. A sent message is
not in it: `Cancel` and `Quit` handle what `app` is waiting for, at any time before
what is posted, as `Send` does.

| Action | Code |
|---|---|
| `StartTask`, `StopTask`, `ReleaseTask`, `ReleaseCancelled` | the operations; `ReleaseTask` is cut at its `Send`, having read `done()` before |
| `Destroy`, `DeletePool`, `EndWorkThread` | `~HttpSession`, which reads `tasks_`, deletes the pool, and then the thread |
| `Start`, `Cancel`, `Delete`, `Quit` | `OnMessage`; `Quit` is one round of the loop |
| `Complete`, `Closed` | the signals of a client: `OnHttpComplete`, `OnHttpClosed`, then `OnTaskFinish` |

talk_base, the library below, is not in the repository; the module's head says what
is expected of it. A use of freed memory is a value of `fault`, and the model stops.
The application starts a task once and releases it once.

### RequestParser, HttpServer

`Edges` is the `switch` of `consume`, one entry for each way on; what is in no entry
is refused. Characters are the classes it tells apart. `After` is the loop of
`parse`. `IsRequest` says without states what a request is: where lines begin and end,
that the first is a request line, the last empty, the others headers and their
continuations.

`HttpServer` is one model of two servers, which differ in how a connection reads.
A read ends anywhere after what was read before; `Read` is `handle_read` with the
loop of `parse` in it, as nothing else touches the connection meanwhile. `HandleRead`
is cwf's, of records in whole units, of which what follows the parameters is not looked
at. Its `Process` has three outcomes: a request, none, and `"trap"`, where the server
ends with every connection. It traps on a parameter that says it is 0xffff characters
or longer (cwf.cpp:82, 97), and may do anything with parameters that were announced
and have not all come, as line 67 reads beyond what came. `Up` is a server that
has neither stopped nor trapped. `Breaks` is the error branch of a read or a
write, `AcceptFails` that of an accept. boost.asio is external: handlers of one
connection do not overlap (one thread per `io_service`, or a strand), `stop` lets no
further handler run. What `handle_request` answers is data.

### WindowHooks

One thread, whose nested calls are `stack`, the innermost last: a hook's
`WindowProc`, a `ControlProc`, or `HookWndProc` about to pass `WM_NCDESTROY` on. A
step is what happens between two points where a handler can do something; in between
it may send, hook, unhook, delete, create and destroy at will.

| Action | Code |
|---|---|
| `CreateWindow`, `SendMessage`, `DestroyWindow` | Windows: a procedure slot, a call of what is in it, `WM_NCDESTROY` |
| `InstallHook` | `HookPolicy::Install` |
| `HookWindow`, `UnhookWindow`, `DeleteHook` | `CSubclassWnd::HookWindow`, its destructor |
| `CallHooks`, `Forward`, `PassDestroy`, `ReturnHook` | `HookWndProc` with `RemoveAll`, `CSubclassWnd::WindowProc` |
| `CallControl`, `ReturnControl` | `ControlProc`: makes the control, calls it |
| `DestroyControl`, `KeepControl` | the end of `ControlProc` with `WM_NCDESTROY`: the control leaves both maps, or stays in them because one of its handlers has handled the message (SkinCtrl.h:629) |

What a hook's frame says in `since`, that its hook was taken off or freed, the code
does not know: it is there to say what goes wrong then. Taken from the library's own
use: a control is installed before there are hooks on the window; a hook that is a
member of a control goes with it, and no such control handles `WM_NCDESTROY`.
`_hook_maps` has the keys `hooked` and `kept`, `_handle_maps` the keys `control` and
`kept`. (Of the library's controls SkinHookToolBarCtrl handles `WM_NCDESTROY`,
hooktoolbar.h:34, 46-50: it calls `SetMsgHandled(FALSE)`, which `MESSAGE_HANDLER` does
not look at. It installs with `ClassPolicy`, which is not modelled; `ControlProc` is the
same.) Taken from Windows: a handle is reused only when no
procedure of its last window is running.

### Square

A step is one database statement, by one of the server processes; `job[s]` is where
the handler of process `s` is. `uids` is a bag, as `find` returns a user once for
every focus. `Bulk` is the update with `multi=True`, `SlowInsert` and `SlowPush` the loop
for who had no list. All feeds are at one place, so that of a position only the
number of a user's foci in range remains. Only `JsonHandler` publishes: `PublishHandler`
reads `user.center`, which no user has (feed.py:86, base.py:131-137), and fails before
`Feed.New`. A comment's `p` is absent, `'-1'`, or another string (feed.py:49, 124, 223).
MongoDB is external; that its update of many documents is one step is an assumption.

`BuildTree`, which `HomeHandler` (main.py:62) calls on the comments of a feed, is the
operators `FirstLevel`, `Roots`, `Child`, `Parent`; `Shown` is what is reached from the
roots. It is evaluated on bounded arrays, as assumptions of `MCSquare`. A reply posted
through a handler is stored with a string for its parent, and `BuildTree` skips it
(list2tree.py:48), so that it is never shown (`TreeOfPosted`); the page itself sends
`'-1'` only. With integer parents, as in the doctest, the index is compared with the
number of roots and not of comments: the first reply to be lost is the fourth
comment, if it answers the third and only the first is a root (`TreeOfArrays`). The
examples at list2tree.py:6-33 hold (`TreeExamples`), while the one at 34-36 expects `[]`
where the code returns both roots.

### TimeArith

Operators on words of `2 * H` values; `H` is 2^31 in the code.

## 3. Runs

| Run | Instance | What it shows |
|---|---|---|
| `task_tree` | 3 tasks, any tree, 2 queued messages, no timeouts | the safety properties of the scheduler |
| `task_live` | 2 tasks, one with timeouts of 0 or 1, clock to 3 | every runnable task runs, ended tasks are freed, a deadline is not forgotten |
| `next_timeout` | 2 tasks with timeouts | *violated:* `next_timeout_task_` is not the nearest after it pushed its own deadline back |
| `abort_busy` | 2 tasks, `"abortBusy"` | *violated:* a task aborted while it runs is called again |
| `http_client` | 2 clients, 2 requests, bodies of 0 or 1 piece | nothing freed is called back, answers whole and once, closing ends |
| `read_error` | 1 client, 2 requests | *violated:* a read fails because the handle was closed, which the code asserts away |
| `site_task` | 2 tasks, 2 actions, 4 requests | order of actions, refinement of `ActionSequence`, termination |
| `site_abort` | as above, with `Abort` | *violated:* an aborted task is called back |
| `http_session` | 3 tasks, a session that manages them or not | every task in one place, nothing freed is used, calls and deletions end |
| `http_server` | 2 clients, 2 `io_service`s, either server | the answer whatever the cuts, who is answered |
| `window_hooks` | 2 windows, 3 hooks, 3 procedures running at once | chain, procedures, dead windows, forwarding |
| `square` | 2 processes, 2 users, 2 feeds, 3 comments | who gets a feed, which comment is shown; beside the run, what `BuildTree` shows |

The passing properties:

- `DoneImpliesBlocked` is the assertion in `Task::Step` (task.cpp:59-63).
  `NoLostWake`: when the thread goes back to the message loop, every task that can
  run has a message waiting. `NoDanglingPointer`: nothing the library follows
  leads to a freed task, and none is listed twice. `ChildErrorIsTrue`: a parent's
  flag says exactly whether a child ended in `STATE_ERROR`. `ErrorWakes`: a task
  comes to wait with an error pending in one way only, by blocking in the `Process`
  in which its own `Error` was called (task.cpp:141, where `Wake` finds it awake);
  no `Process` begins with an error pending. `DestroyIsSilent`: `~TaskRunner`
  calls no task back and frees all. `NoCallbackAfterAbort`: without
  `"abortBusy"`, no callback after the end.
- `DeadlinePolled`, `RunnableRuns`, `EndedIsFreed`: timeouts and progress.
- `CallbackFindsHandler`, `ClosedBelongsToWorker`, `HandlerIsLive`: whichever
  thread frees a Handler, no callback and no client is left with it.
  `OneWholeAnswer`: at most one notification, after the whole body.
  `ClosedIsFreed`, `DestructorReturns`, `AnswerArrives`: progress.
- `AnswersAreCurrent`: every message in the queue is the answer to the request
  its task waits for. `WaitingIsServed`: a waiting task has its request with
  WinINet, with the worker, in the queue, or failed - and a failed request is
  never reported, so that such a task waits for ever: the code has no other way
  out than a timeout nobody sets. `ActionsInOrder`: the refinement.
  `EveryTaskFinishes`: when no request fails.
- `Accounted`: a task of the session is to be started, running, or ended, and in
  `tasks_` just while it runs, however stopping, releasing and destroying come in
  between. It says where a task is, not that `StopTask` has stopped it: a START
  that was overtaken by CANCELTASK still runs, and a task whose connection closed never
  gets `complete_`. `SafeUse`: three ways lead to freed memory, and no other: in a session that
  manages its tasks, `StopTask` of a task that is gone, and a kept connection that
  closes late, which has DELETE posted twice; and `~HttpSession` with a START in the
  queue, which sees an empty `tasks_`, sends no QUIT and deletes the pool under the
  request. `Settles`: `ReleaseTask`, `~HttpSession` and the QUIT loop return, tasks are
  deleted. (With the thread its queue goes: a DELETE in it is never handled, and the task
  is leaked.)
- `RightAnswer`: httpserver2 handles what begins with a request, wherever it was cut,
  and nothing else. `Served`: who connects is answered, unless the connection breaks,
  the input is a beginning and no more, an accept failed before (that ends accepting
  for good, server.cpp:50), or the server of cwf trapped on anybody's request: after
  that nobody is served. cwf answers only what its one read brought, and
  may do so, or trap, with parameters that have not come; a whole request without a
  parameter that is too long is neither dropped nor a trap, which is the other
  half of `RightAnswer`. `ParserTakesRequests`, evaluated with
  the run, compares the parser with `IsRequest` on every string one character off a
  request and every header section of up to five characters.
- `ChainSound`: the chain is whole at every moment a handler can look at it.
  `ProceduresInOrder`: hooks over the control over the window's own procedure; the
  last hook puts back what the first one found; `HookWndProc` finds a hook.
  `DeadIsForgotten`: nothing of a destroyed window stays behind, however deep in other
  messages it was destroyed, with one exception: a control that has handled
  `WM_NCDESTROY` stays in the two maps of `SkinControlImpl` (`kept`), and its handle
  can never have a control again. `HookedForwardsSafely`: a hook that stayed in place
  forwards safely; one that was taken off while its `WindowProc` ran may not
  (subclass.cpp:59-61), and the model shows each of the ways.
- `Delivered`: when `Feed.New` has returned, who was found in range has the feed once,
  save those whose list another process made in between. `OwnCommentShown`: only
  another process's comment can take the place of one's own. (The handler
  at feed.py:60 takes the last comment for its own all the same; that it may be
  another's is a defect this property allows.)

**Bounds.** Three tasks give every tree of depth three and two siblings under a
parent, where aborts cross; stopping is recursive on the tree and adds nothing
with depth. Two `WM_WAKETASK` suffice to have one eaten by a nested loop with one
left over; operations that post wait for room (`MaxWakes`), which only delays
user code. The clock stops at `MaxTime`; deadlines are compared, never computed
with, and three ticks order two of them in every way. Two Handlers, one closing
while its client uses the other, is the most the code has per client; a body of
one piece reaches every branch of the read loop. Two tasks of two actions are the
least where one is between actions while another ends; four requests let both
finish. Three tasks of a session give one in the queue, one running and one being
released. Two clients are enough to see that an accept failed while another is
served; their input has every transition of the parser but those the evaluated
statement covers. Three hooks give a front, a middle and an end on one window, or two
windows with hooks; three running procedures let a message be sent from the middle
of another, and a window die in that. Two processes, two feeds and two users with up to
two foci reach every branch of `Feed.New`, racing; arrays of up to six comments are
evaluated beside the run, as three do not reach a lost reply. `CHECK_DEADLOCK FALSE` everywhere: the runs are meant to end, when the
runner is destroyed, the requests are used up, the server has stopped, all is published or the model has stopped at
undefined behaviour.

**Fairness.** Of the scheduler: the message loop dispatches (`WF` of `RunTasks`),
`RunTasks` goes on by itself (`WF` of `Steps`), a callback returns (`WF` of
`Return`), and does not return a non-blocking state for ever (`SF` of the
returns that block or end), which task.h asks of tasks ("Running continues until
all tasks are Blocked"). User code gets no fairness; where a liveness property
needs it to leave the scheduler alone, that is its premise (`UserQuiet`). Of the
HTTP client: a begun close goes on, the queue is dispatched, WinINet calls back
(`WF`), the server sends all of a body (`SF` of `ReadPiece`: without it reads
could stay pending and resume for ever). The engine adds that the scheduler steps
runnable tasks, which `RunnableRuns` is about. Of the session: the two threads go on
with what they have begun, and the worker handles its messages (`WF`); requests need
not end. Of the servers: the threads of the pool run handlers and a client that
sends sends on (`WF` of `Serve`); a client that sends half a request and waits is not
answered, and the property says so.

## 4. What the counterexamples say

1. **`next_timeout`** (task.cpp:370): the comment wants "the next timeout-able
   task"; when that task itself moves its deadline later, the code compares the
   deadline with itself and keeps it, and another, nearer deadline is polled late.
2. **`abort_busy`** (task.cpp:85): after the callback of a task that was aborted
   meanwhile, `Step` calls `Abort(true)`, which returns because `aborted_` is set;
   the task is called back again and again.
3. **`read_error`** (asynchttp.cpp:459-464): the comment asks why a read fails with
   error 6; because `Close` on the other thread closed the handle. The request
   then counts as complete.
4. **`site_abort`** (synchttp.h:78): `Abort` promises no more callbacks, but leaves
   the request open, and its answer is delivered.

Found on the way, without a run of its own: `Wake();  // to self-delete` in `Abort`
(task.cpp:124) does nothing, as `Abort` has just set `done_`; a waiting task that is
aborted stays allocated until some other wake-up. `EndedIsFreed` is what does hold: a
task that ends while `RunTasks` is at work is freed.

## 5. Proofs

For every number of tasks, clients, requests, actions, windows and hooks, and every
value of the bounds, from the assumptions named in the modules (`TasksAssumption`,
`BoundsAssumption`, `HttpAssumption`, `NumberAssumption`, `SiteAssumption`,
`SessionAssumption`, `HooksAssumption`, `SquareAssumption`, `ServerAssumption`: NULL is
not an object, a procedure is not a hook, inputs are made of characters, numbers are
numbers). The theorems of `TimeArith` are about every word width
and assume nothing.

| Theorem | States |
|---|---|
| `TaskRunnerProofs!TypeCorrect` | `Spec => []TypeOK` |
| `EndedTasksStayBlocked`, `WakeUpsAreKept`, `FreedTasksAreForgotten` | `DoneImpliesBlocked`, `NoLostWake`, `NoDanglingPointer` are invariant, for any `Usage` |
| `ChildErrorsAreKnown`, `DeadlinesArePolled`, `DestructionIsSilent` | `ChildErrorIsTrue`, `DeadlinePolled`, `DestroyIsSilent` are invariant, for any `Usage` |
| `ErrorsWake` | `Spec => ErrorWakes`, an action property, for any `Usage` |
| `AbortEndsCallbacks` | `NoCallbackAfterAbort` holds when `Abort` does not reach the running task (`"abortBusy" \notin Usage`) |
| `HttpClientProofs!TypeCorrect` | `Spec => []TypeOK` |
| `FreedHandlersAreSilent`, `WorkerOwnsClosed`, `HandlersAreLive`, `AnswersAreWhole` | `CallbackFindsHandler`, `ClosedBelongsToWorker`, `HandlerIsLive`, `OneWholeAnswer` are invariant |
| `SiteTypeCorrect`, `QueuedAnswersAreCurrent`, `WaitersAreServed` | `SiteTypeOK`, `AnswersAreCurrent`, `WaitingIsServed` are invariant |
| `SiteTasksFollowSequence` | `SiteSpec => ActionsInOrder`: the refinement |
| `HttpSessionProofs!TypeCorrect`, `TasksAreAccounted`, `FreedIsNotUsed` | `TypeOK`, `Accounted`, `SafeUse` are invariant |
| `WindowHooksProofs!TypeCorrect`, `ChainsStaySound`, `ProceduresStayInOrder`, `DeadAreForgotten` | `TypeOK`, `ChainSound`, `ProceduresInOrder`, `DeadIsForgotten` are invariant |
| `HookedForwardSafely` | `Spec => HookedForwardsSafely`, an action property |
| `SquareProofs!TypeCorrect`, `FeedsDelivered`, `CommentShown` | `TypeOK`, `Delivered`, `OwnCommentShown` are invariant |
| `HttpServerProofs!TakesRequests` | the parser takes a string to its end, and not before, just when it `IsRequest`, for strings of any length |
| `TypeCorrect`, `RightAnswers` | `TypeOK`, `RightAnswer` are invariant, whatever clients send and however it is cut |
| `TimeArith!TimeDiffRecovers`, `TimeDiffAntisymmetric` | what `TimeDiff` returns, across the wrap-around |

**`SchedulerInv`.** `NoLostWake` is not inductive: what matters is that a pass of
`RunTasks` in which nothing ran has found every task blocked, and that is
`PassInv`, about the tasks before `cur`. It needs `StepInv`: a task that is
aborted but not done is exactly the one being stepped, so it cannot be lying
unblocked behind `cur`. `NoDanglingPointer` needs `TreeInv`: `children_` is the
inverse of `parent_` on tasks that have not ended, and such a task has a live
parent, because whoever ends takes its children along. That in turn rests on
`AbortTree` being closed (`AbortTreeFacts`), the one place where the recursion of
the code enters. The proof has one step per action; stopping is factored into
`StopTasksInv`.

**`FlagInv`, `TimerInv`, `DyingInv`** stand on `SchedulerInv`. `FlagInv`: only the
running task can be aborted and not done, which needs the call that the condition of
`AbortEndsCallbacks` excludes. `ErrorsWake` follows from it by a look at each
action: `Error` on a task other than the running one wakes it, `StepProcess` and
`Return` are the only steps after which a task runs or waits that did not before,
and every other step leaves errors alone or ends the task. `TimerInv`: only a
task past `STATE_INIT`, which is listed, has a deadline, `next_timeout_task_` is
listed, and a deadline is forgotten only between a deletion and the end of
`RunTasks`, where `need_timeout_recalc` makes up for it. `~TaskRunner` needs
`Acyclic`, that no live set of tasks is closed under `parent_`: then aborting the
top-level tasks reaches every one, and `DyingInv` follows the rest of the destructor.

**`HttpInv`.** `event_` carries the argument: it says how far a live Handler has
come with closing (`EventInv`), a Handler whose window-thread half is under way
still has its connection open (`MainInv`), so `HANDLE_CLOSING` cannot complete
before the window thread is through; and a callback in the read loop holds the
request handle in WinINet (`ReadInv`), so the last `HANDLE_CLOSING` cannot come
while it is there.

**`SiteInv`.** Position and answers correspond (`ProgressInv`), only the request a
task waits for may not have posted its answer yet (`RequestInv`), and a queued
message is the one answer to it (`QueueInv`). Together with `HttpInv`, of which
the engine is an instance (`StepIsHttpStep`: every step of the composition is a
step of `HttpClient` or a stutter), they make each step a step of
`ActionSequence`. `EndInv` says the waiting destructor runs only for tasks that
are done, so that no answer of another is thrown away with the window.
`WaitingIsServed` is inductive on top of the two: whatever takes the answer of a
task from one place (WinINet, the worker, the queue) puts it in the next or wakes
the task.

**`SessionInv`.** The worker's queue is described by the order of its messages: a
task's START is in it at most once and before its DELETE (`TaskInv`). Whoever posts
DELETE has seen the task end or owns it, so the DELETE of a task finds it ended
(`GoneInv`), and it is posted twice only when a managing session has a connection
that closes late. `PlaceInv` is the other half of `Accounted`, `AppInv` what the
application's thread may rely on in each of its calls.

**`HooksInv`.** `ChainSound` says of each hook on a window that it is alive, leads to
nothing or a hook of the same window, and is first in the map or led to by just one
hook. These do not exclude a circle beside the chain; that none arises, so that the
walk of `Remove` ends, is stated about sets: of every set of hooked hooks one is led
to by none of the set. `ChainHasFront` follows: a window with a hook is in the map.
`SavedInv` keeps NULL out of procedure slots: a hook has a procedure below it just
while it is on a window.

**`OrderInv`.** The order of procedures depends on what is running. `StackInv`:
`WM_NCDESTROY` is on the stack exactly for the windows that are dying, once, and
never inside a hook's `WindowProc`, as `HookWndProc` has taken all hooks off before.
`ControlInv`: the only hook of a dying window is the one its control made on its
first message, and no earlier `ControlProc` is left on the stack to keep that control
alive; when it returns, the hook goes too. So a window that is gone has none; a control
that stays because it handled `WM_NCDESTROY` has no hook, and the window is no longer
its. On top
of it `SinceInv` ties the frames of a window procedure to the window, which is what
`HookedForwardsSafely` needs.

**Square.** `JobInv` says what a job may rely on: a feed that is stored, a list to push
into, comments that are there. For `Delivered`, `PublishInv` adds that a feed not posted
is in no list, that one server at most works on a feed, and how far that one has come
(`WorkOK`): before its update of all lists nobody has the feed, afterwards whoever it
found and has a list is reached, having the feed or being in `overlap`, and whoever has
none is still to be attempted. The hard step is `InsertStep`, where a new list makes
every other server that had found this user pass the user over.
`OwnCommentShown` is inductive on top of the types.

**Parser.** `Trace(Start, s)` is the state of the parser at every position of `s`.
`FirstLineInv` and `HeaderInv` say what it must have seen to be in that state; `Forward`
proves both for every position. So wherever the parser is between lines, the lines
before were those of a request (`LinesAreGood`, by the least position where they
would not be), and what it takes is a request (`TakenIsRequest`). The other way, a
line of a request brings the parser from one line to the next (`TakesRequestLine`,
`TakesHeader`, `TakesContinuation`, `TakesNewLine`), and it remembers whether there was
a header just when there was one (`RequestLinesTaken`).

**`ServerInv`.** The parser of a connection of httpserver2 is where it would be had all
that was read come in one piece (`HttpInv`; `TracePiece` is why: parsing goes on in a
piece where it stopped). What was read begins with a request when the parser was content
somewhere on the way, and then it still is (`GoodIsPrefix`). A connection of cwf that
reads has read nothing before (`CgiInv`).

**Recursive functions.** The library's induction theorems cannot be used, but every set
of numbers that is not empty has a least element (`NatLessThanWellFounded`), and from
that follow induction over a set and the existence of the function a recursive
definition describes: `UpTo` and `TraceSteps` in `HttpServerProofs`.

**Model-checked only.** Liveness under fairness is out of the prover's reach:
`RunnableRuns`, `EndedIsFreed`, `ClosedIsFreed`, `DestructorReturns`, `AnswerArrives`,
`EveryTaskFinishes`, `Settles`, `Served`. Every safety property of a passing run is a
theorem. Evaluated on bounded inputs and not proved: what `BuildTree` shows
(`TreeExamples`, `TreeOfArrays`, `TreeOfPosted`), and `IsRequest` against the parser
(`ParserTakesRequests`), cheaper than the proof when either changes.

## 6. Plan

Everything with a protocol of its own, several actors or a life cycle, is modelled, and
every invariant and action property of the passing runs is proved. In the order of what
it would add:

1. `WindowHooks`: `ClassPolicy` and `RegisterPolicy`, which put `ControlProc` in a
   window class before there are windows of it.
2. `Square`: `User.Remove`, should anything but its test come to call it.
3. AsyncTask, should a build file come to list it: `SetState` from another thread.
