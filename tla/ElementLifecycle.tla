--------------------------- MODULE ElementLifecycle ---------------------------
(***************************************************************************)
(* change_state of the sender (src/plugins/gstmprtpsender.c) and of the    *)
(* receiver (src/plugins/gstmprtpreceiver.c): the two tasks of an element  *)
(* are made, started, stopped, joined and destroyed, one call after the    *)
(* other, while the tasks and the streaming thread go on.                  *)
(*                                                                         *)
(* GstTask, pad activation and the rest of the pipeline are external: a    *)
(* task calls its function until it is stopped and a join waits for that;  *)
(* elements downstream change state first; what is pushed into a sink that *)
(* is paused waits there; deactivating a sink pad waits for its chain      *)
(* function.  The thread of the sender's rtcp_sink is left out.            *)
(***************************************************************************)
EXTENDS Integers, Sequences

CONSTANT None   \* no thread

VARIABLES
  element,   \* the element this is: "sender" or "receiver"
  state,     \* the element's state
  target,    \* the state it is brought to
  plan,      \* the calls change_state still has to make
  sink,      \* the state of the elements downstream
  task,      \* the tasks
  stream,    \* what the streaming thread is about to do
  active,    \* the pads are active
  path,      \* some subflow is active
  lock       \* owner of the element's mutex

moving == <<state, target, plan, sink, task, stream, active, path, lock>>
vars == <<element, moving>>

States == <<"null", "ready", "paused", "playing">>
Level(s) == CHOOSE i \in 1..4 : States[i] = s
Adjacent(s, t) == Level(t) - Level(s) \in {-1, 1}

\* The riporter is common to both; the other element's task is never made.
Task == {"scheduler", "playouter", "riporter"}
First == IF element = "sender" THEN "scheduler" ELSE "playouter"
Running(t) == task[t].at # "out"

-----------------------------------------------------------------------------
(* The calls of each transition, in order.                                 *)

Call(op, t) == [op |-> op, task |-> t]
ForBoth(op) == <<Call(op, First), Call(op, "riporter")>>

\* Bug: the tasks are stopped and not waited for.
StopOnly == ForBoth("stop")

StopTasks == ForBoth("stop") \o ForBoth("join")

SenderCalls(from, to) ==
  CASE <<from, to>> = <<"null", "ready">>     -> ForBoth("new")
    [] <<from, to>> = <<"paused", "playing">> -> ForBoth("start")
    [] <<from, to>> = <<"playing", "paused">> -> StopTasks
    [] <<from, to>> = <<"ready", "null">>     -> ForBoth("unref")
    [] OTHER -> << >>

ReceiverCalls(from, to) ==
  CASE <<from, to>> = <<"null", "ready">>     -> <<Call("new", "riporter"), Call("new", First)>>
    [] <<from, to>> = <<"paused", "playing">> -> ForBoth("start")
    [] <<from, to>> = <<"playing", "paused">> -> StopTasks
    [] <<from, to>> = <<"ready", "null">>     -> ForBoth("unref")
    [] OTHER -> << >>

\* GstElement's own change_state activates and deactivates the pads.
ParentCalls(from, to) ==
  CASE <<from, to>> = <<"ready", "paused">> -> <<Call("activate", None)>>
    [] <<from, to>> = <<"paused", "ready">> -> <<Call("flush", None), Call("drain", None)>>
    [] OTHER -> << >>

Calls(from, to) ==
  ParentCalls(from, to) \o
    (IF element = "sender" THEN SenderCalls(from, to) ELSE ReceiverCalls(from, to))

NoTask == [made |-> FALSE, started |-> FALSE, at |-> "out"]

Init ==
  /\ element \in {"sender", "receiver"}
  /\ state = "null" /\ target = "null" /\ plan = << >>
  /\ sink = "null"
  /\ task = [t \in Task |-> NoTask]
  /\ stream = "idle" /\ active = FALSE /\ path = FALSE
  /\ lock = None

-----------------------------------------------------------------------------
(* The thread that changes the state.                                      *)

Begin(to) ==
  /\ plan = << >> /\ state = target /\ Adjacent(state, to)
  /\ target' = to
  /\ sink' = to
  /\ plan' = Calls(state, to)
  /\ UNCHANGED <<state, task, stream, active, path, lock>>

End ==
  /\ plan = << >> /\ state # target
  /\ state' = target
  /\ UNCHANGED <<target, plan, sink, task, stream, active, path, lock>>

Does(op) == plan # << >> /\ Head(plan).op = op
Subject == Head(plan).task
CallDone == plan' = Tail(plan)

TaskNew ==
  /\ Does("new")
  /\ CallDone
  /\ task' = [task EXCEPT ![Subject] = [NoTask EXCEPT !.made = TRUE]]
  /\ UNCHANGED <<state, target, sink, stream, active, path, lock>>

TaskStart ==
  /\ Does("start")
  /\ CallDone
  /\ task' = [task EXCEPT ![Subject].started = TRUE,
                          ![Subject].at = IF @ = "out" THEN "top" ELSE @]
  /\ UNCHANGED <<state, target, sink, stream, active, path, lock>>

TaskStop ==
  /\ Does("stop")
  /\ CallDone
  /\ task' = [task EXCEPT ![Subject].started = FALSE]
  /\ UNCHANGED <<state, target, sink, stream, active, path, lock>>

TaskJoin ==
  /\ Does("join") /\ ~ Running(Subject)
  /\ CallDone
  /\ UNCHANGED <<state, target, sink, task, stream, active, path, lock>>

\* The task is given up and the lock it runs under is cleared.
TaskUnref ==
  /\ Does("unref")
  /\ CallDone
  /\ task' = [task EXCEPT ![Subject].made = FALSE]
  /\ UNCHANGED <<state, target, sink, stream, active, path, lock>>

PadsActivate ==
  /\ Does("activate") \/ Does("flush")
  /\ CallDone
  /\ active' = Does("activate")
  /\ UNCHANGED <<state, target, sink, task, stream, path, lock>>

PadsDrain ==
  /\ Does("drain") /\ stream = "idle"
  /\ CallDone
  /\ UNCHANGED <<state, target, sink, task, stream, active, path, lock>>

-----------------------------------------------------------------------------
(* The tasks.                                                              *)

TaskAt(t, from, to) == task[t].at = from /\ task' = [task EXCEPT ![t].at = to]

TaskLoop(t) ==
  /\ TaskAt(t, "top", IF task[t].started THEN "lock" ELSE "out")
  /\ UNCHANGED <<state, target, plan, sink, stream, active, path, lock>>

\* scheduler_run finds out whether there is a path, and signals.
SchedulerRun ==
  /\ element = "sender" /\ lock = None
  /\ TaskAt("scheduler", "lock", "clock")
  /\ path' \in BOOLEAN
  /\ stream' = IF path' /\ stream = "cond" THEN "woken" ELSE stream
  /\ UNCHANGED <<state, target, plan, sink, active, lock>>

\* The sender's riporter_run pushes its reports under the mutex.
RiporterRun ==
  /\ element = "sender" /\ lock = None
  /\ TaskAt("riporter", "lock", "push")
  /\ lock' = "riporter"
  /\ UNCHANGED <<state, target, plan, sink, stream, active, path>>

\* The receiver's tasks push nothing; a sender's riporter may have nothing due.
QuietRun(t) ==
  /\ element = "receiver" \/ t = "riporter"
  /\ lock = None
  /\ TaskAt(t, "lock", "clock")
  /\ UNCHANGED <<state, target, plan, sink, stream, active, path, lock>>

SinkTakes == sink # "paused"

TaskPush(t) ==
  /\ SinkTakes
  /\ TaskAt(t, "push", "clock")
  /\ lock' = None
  /\ UNCHANGED <<state, target, plan, sink, stream, active, path>>

TaskClock(t) ==
  /\ TaskAt(t, "clock", "top")
  /\ UNCHANGED <<state, target, plan, sink, stream, active, path, lock>>

-----------------------------------------------------------------------------
(* The streaming thread.                                                   *)

Chain ==
  /\ active /\ stream = "idle"
  /\ stream' = "chain"
  /\ UNCHANGED <<state, target, plan, sink, task, active, path, lock>>

\* The sender keeps the mutex for the push, or waits for a path without it.
SenderChain ==
  /\ element = "sender"
  /\ stream = "chain" /\ lock = None
  /\ IF path THEN stream' = "push" /\ lock' = "stream"
     ELSE stream' = "cond" /\ UNCHANGED lock
  /\ UNCHANGED <<state, target, plan, sink, task, active, path>>

SenderResume ==
  /\ stream = "woken" /\ lock = None
  /\ stream' = "push" /\ lock' = "stream"
  /\ UNCHANGED <<state, target, plan, sink, task, active, path>>

ReceiverChain ==
  /\ element = "receiver"
  /\ stream = "chain" /\ lock = None
  /\ stream' = "push"
  /\ UNCHANGED <<state, target, plan, sink, task, active, path, lock>>

StreamPush ==
  /\ SinkTakes
  /\ stream = "push" /\ stream' = "idle"
  /\ lock' = IF lock = "stream" THEN None ELSE lock
  /\ UNCHANGED <<state, target, plan, sink, task, active, path>>

\* The receiver's request_new_pad keeps the mutex when it refuses a pad.
RequestRefuse ==
  /\ element = "receiver" /\ lock = None
  /\ lock' = "app"
  /\ UNCHANGED <<state, target, plan, sink, task, stream, active, path>>

-----------------------------------------------------------------------------
ChangeStep ==
  \/ End
  \/ TaskNew \/ TaskStart \/ TaskStop \/ TaskJoin \/ TaskUnref
  \/ PadsActivate \/ PadsDrain

TaskRun(t) ==
  \/ QuietRun(t)
  \/ t = "scheduler" /\ SchedulerRun
  \/ t = "riporter" /\ RiporterRun

StreamRun == SenderChain \/ SenderResume \/ ReceiverChain

Next ==
  /\ \/ \E to \in {"null", "ready", "paused", "playing"} : Begin(to)
     \/ ChangeStep
     \/ \E t \in Task : TaskLoop(t) \/ TaskRun(t) \/ TaskPush(t) \/ TaskClock(t)
     \/ Chain \/ StreamRun \/ StreamPush
     \/ RequestRefuse
  /\ UNCHANGED element

\* Every thread goes on when it can, and the mutex is handed to each waiter
\* some time.  Nobody has to change the state or to send packets.
Fairness ==
  /\ WF_moving(ChangeStep)
  /\ \A t \in Task : WF_moving(TaskLoop(t)) /\ SF_moving(TaskRun(t))
                     /\ WF_moving(TaskPush(t)) /\ WF_moving(TaskClock(t))
  /\ SF_moving(StreamRun) /\ WF_moving(StreamPush)

Spec == Init /\ [][Next]_vars /\ Fairness

-----------------------------------------------------------------------------
(* Properties.                                                             *)

\* The variables stay in their domains.
TypeOK ==
  /\ element \in {"sender", "receiver"}
  /\ {state, target, sink} \subseteq {"null", "ready", "paused", "playing"}
  /\ Len(plan) <= 4
  /\ task \in [Task -> [made : BOOLEAN, started : BOOLEAN,
                        at : {"out", "top", "lock", "push", "clock"}]]
  /\ stream \in {"idle", "chain", "push", "cond", "woken"}
  /\ active \in BOOLEAN /\ path \in BOOLEAN
  /\ lock \in Task \cup {"stream", "app", None}

\* "task %p should be stopped by now": in READY and below no thread is inside
\* the element and none has its mutex, so that pads can be torn down, tasks
\* given up, and the locks they run under cleared.
QuietBelowPaused ==
  plan = << >> /\ state = target /\ state \in {"null", "ready"} =>
    /\ stream = "idle" /\ \A t \in Task : ~ Running(t)
    /\ lock \in {None, "app"}

\* The sender's two ways to be stuck for good: a task is joined that waits for
\* the mutex, whose holder pushes into a sink that is paused already; and the
\* pads wait for a packet that waits for a path no scheduler will find.
StuckBehindSink ==
  /\ element = "sender"
  /\ Does("join") /\ sink = "paused"
  /\ \/ lock = "stream" /\ stream = "push"
     \/ \E t \in Task : lock = t /\ task[t].at = "push"

StuckInWait ==
  /\ element = "sender"
  /\ Does("drain") /\ stream = "cond"
  /\ ~ Running("scheduler")

\* Every state change comes to an end, unless it ends in one of these two
\* deadlocks or the receiver's mutex was lost to a refused request.
ChangeReturns ==
  plan # << >> ~> plan = << >> \/ StuckBehindSink \/ StuckInWait \/ lock = "app"
=============================================================================
