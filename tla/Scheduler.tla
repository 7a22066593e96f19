------------------------------- MODULE Scheduler -------------------------------
(***************************************************************************)
(* The task queue of Scheduler and the threads around it: clients call     *)
(* scheduleTask and callAsap, one thread (the daemon's main loop) calls    *)
(* update again and again.  This is the synchronous mode, the one that     *)
(* GeoMeshd_main.cpp uses; SchedulerAsync adds the background thread.      *)
(*                                                                         *)
(* A step is what a thread does between two operations on a mutex, on the  *)
(* condition variable or on a callback.                                    *)
(***************************************************************************)
EXTENDS Integers, FiniteSets

CONSTANTS
    Client,      \* threads that schedule tasks
    Runner,      \* the thread that runs them
    Nobody,      \* no thread: the mutex is free
    NoTask,      \* a thread has no Task object in hand
    Task,        \* each is scheduled at most once
    Call,        \* subset of {"schedule", "asap", "wait"}: the calls that clients make
    Async,       \* whether the runner is the background thread of SchedulerAsync
    Interval,    \* the interval of repeating tasks
    MaxNow       \* bound: the last instant

ASSUME SchedulerAssumption ==
    /\ Runner \notin Client
    /\ Nobody \notin Client \cup {Runner}
    /\ Call \subseteq {"schedule", "asap", "wait"}
    /\ Async \in BOOLEAN
    /\ Interval \in Nat \ {0}
    /\ MaxNow \in Nat

Thread == Client \cup {Runner}

VARIABLES
    now,        \* steady_clock::now()
    tasks,      \* the priority queue
    mutex,      \* tasksMux: the thread that locked it last, or Nobody
    waiting,    \* the threads that wait on the condition variable
    pc,         \* what each thread does next
    held,       \* the Task object that each thread has in hand
    unborn,     \* the tasks that nobody has scheduled yet
    inCall,     \* the calls of callAsap that have not returned
    released,   \* the waiting calls whose mutex their task has unlocked
    runs        \* how often the callback of each task was called

vars == <<now, tasks, mutex, waiting, pc, held, unborn, inCall, released, runs>>

\* `first' is the time that a task was planned for when it was scheduled.
Entry == [task : Task, first : 0 .. MaxNow, planned : 0 .. MaxNow + Interval,
          repeats : BOOLEAN, call : Call]

ClientLabel == {"idle", "lock", "push", "notify", "await"}
RunnerLabel == {"check", "test", "take", "pop", "callback", "release", "relock", "repush",
                "leave", "sleep", "again", "exited"}

\* What the runner does after a task: update goes on, runAsync leaves a scope.
AfterTask == IF Async THEN "leave" ELSE "check"

TypeOK ==
    /\ now \in 0 .. MaxNow
    /\ tasks \subseteq Entry
    /\ mutex \in Thread \cup {Nobody}
    /\ waiting \subseteq Thread
    /\ pc \in [Thread -> ClientLabel \cup RunnerLabel]
    /\ held \in [Thread -> Entry \cup {NoTask}]
    /\ unborn \subseteq Task
    /\ inCall \subseteq Task
    /\ released \subseteq Task
    /\ runs \in [Task -> 0 .. MaxNow + 1]

Init ==
    /\ now = 0
    /\ tasks = {}
    /\ mutex = Nobody
    /\ waiting = {}
    /\ pc = [t \in Thread |-> IF t = Runner THEN "check" ELSE "idle"]
    /\ held = [t \in Thread |-> NoTask]
    /\ unborn = Task
    /\ inCall = {}
    /\ released = {}
    /\ runs = [t \in Task |-> 0]

------------------------------------------------------------------------------
(* Mutex, condition variable, queue.                                       *)

Goto(t, from, to) == pc[t] = from /\ pc' = [pc EXCEPT ![t] = to]

Lock(t) == mutex = Nobody /\ mutex' = t

Unlock == mutex' = Nobody

\* notify_one, where at most one thread waits.
Notify == waiting' = {}

\* Mutation of Top: the order of the queue is reversed.
LatestTop == {e \in tasks : \A other \in tasks : other.planned <= e.planned}

\* tasks.top(): one of the tasks with the earliest time.
Top == {e \in tasks : \A other \in tasks : e.planned <= other.planned}

NextTaskDue == \E e \in Top : e.planned <= now

------------------------------------------------------------------------------
(* Clients.                                                                *)

\* scheduleTask and callAsap make the Task; callAsap plans it for now, once.
Begin(c, e) ==
    /\ Goto(c, "idle", "lock")
    /\ e.task \in unborn
    /\ e.planned = e.first /\ e.planned <= MaxNow
    /\ e.call # "schedule" => e.planned = now /\ ~e.repeats
    /\ held' = [held EXCEPT ![c] = e]
    /\ unborn' = unborn \ {e.task}
    /\ inCall' = IF e.call = "schedule" THEN inCall ELSE inCall \cup {e.task}
    /\ UNCHANGED <<now, tasks, mutex, waiting, released, runs>>

ClientLock(c) ==
    /\ Goto(c, "lock", "push")
    /\ Lock(c)
    /\ UNCHANGED <<now, tasks, waiting, held, unborn, inCall, released, runs>>

Push(c) ==
    /\ Goto(c, "push", "notify")
    /\ tasks' = tasks \cup {held[c]}
    /\ Unlock
    /\ UNCHANGED <<now, waiting, held, unborn, inCall, released, runs>>

\* Mutation of ScheduleTaskReturns: no call waits.
ScheduleTaskReturnsAtOnce(c) ==
    /\ Goto(c, "notify", "idle")
    /\ Notify
    /\ inCall' = inCall \ {held[c].task}
    /\ UNCHANGED <<now, tasks, mutex, held, unborn, released, runs>>

\* After scheduleTask, callAsap returns at once or waits for its own mutex.
ScheduleTaskReturns(c) ==
    /\ Goto(c, "notify", IF held[c].call = "wait" THEN "await" ELSE "idle")
    /\ Notify
    /\ inCall' = IF held[c].call = "wait" THEN inCall ELSE inCall \ {held[c].task}
    /\ UNCHANGED <<now, tasks, mutex, held, unborn, released, runs>>

CallAsapReturns(c) ==
    /\ Goto(c, "await", "idle")
    /\ held[c].task \in released
    /\ inCall' = inCall \ {held[c].task}
    /\ UNCHANGED <<now, tasks, mutex, waiting, held, unborn, released, runs>>

ClientStep(c) == ClientLock(c) \/ Push(c) \/ ScheduleTaskReturns(c) \/ CallAsapReturns(c)

------------------------------------------------------------------------------
(* The thread that calls update.                                           *)

RunnerLock(from, to) ==
    /\ Goto(Runner, from, to)
    /\ Lock(Runner)
    /\ UNCHANGED <<now, tasks, waiting, held, unborn, inCall, released, runs>>

\* Mutation of IsNextTaskDue: a task is due a tick early.
IsNextTaskDueSoon ==
    /\ Goto(Runner, "test",
            IF \E e \in Top : e.planned <= now + 1 THEN "take" ELSE "check")
    /\ Unlock
    /\ UNCHANGED <<now, tasks, waiting, held, unborn, inCall, released, runs>>

\* The rest of isNextTaskDue; when nothing is due, update ends and begins again.
IsNextTaskDue ==
    /\ Goto(Runner, "test", IF NextTaskDue THEN "take" ELSE "check")
    /\ Unlock
    /\ UNCHANGED <<now, tasks, waiting, held, unborn, inCall, released, runs>>

Pop ==
    /\ Goto(Runner, "pop", "callback")
    /\ \E e \in Top :
          /\ held' = [held EXCEPT ![Runner] = e]
          /\ tasks' = tasks \ {e}
    /\ Unlock
    /\ UNCHANGED <<now, waiting, unborn, inCall, released, runs>>

\* The callback may cancel a repeating task.
Callback ==
    /\ pc[Runner] = "callback"
    /\ \E repeats \in {FALSE, held[Runner].repeats} :
          /\ Goto(Runner, "callback", IF held[Runner].call = "wait" THEN "release"
                                      ELSE IF repeats THEN "relock" ELSE AfterTask)
          /\ held' = [held EXCEPT ![Runner].repeats = repeats]
    /\ runs' = [runs EXCEPT ![held[Runner].task] = @ + 1]
    /\ UNCHANGED <<now, tasks, mutex, waiting, unborn, inCall, released>>

\* The task of a waiting call unlocks the mutex that its caller waits for.
Release ==
    /\ Goto(Runner, "release", AfterTask)
    /\ released' = released \cup {held[Runner].task}
    /\ UNCHANGED <<now, tasks, mutex, waiting, held, unborn, inCall, runs>>

\* Mutation of Replan: the interval begins when the callback ends.
ReplanFromNow(e) == [e EXCEPT !.planned = now + Interval]

\* Mutation of Replan: the planned time stays.
ReplanUnchanged(e) == e

Replan(e) == [e EXCEPT !.planned = @ + Interval]

Repush ==
    /\ Goto(Runner, "repush", AfterTask)
    /\ tasks' = tasks \cup {Replan(held[Runner])}
    /\ Unlock
    /\ UNCHANGED <<now, waiting, held, unborn, inCall, released, runs>>

Update ==
    \/ RunnerLock("check", "test")
    \/ IsNextTaskDue
    \/ RunnerLock("take", "pop")
    \/ Pop
    \/ Callback
    \/ Release
    \/ RunnerLock("relock", "repush")
    \/ Repush

Tick ==
    /\ now < MaxNow
    /\ now' = now + 1
    /\ UNCHANGED <<tasks, mutex, waiting, pc, held, unborn, inCall, released, runs>>

Next ==
    \/ \E c \in Client : (\E e \in Entry : Begin(c, e)) \/ ClientStep(c)
    \/ Update
    \/ Tick

Spec == Init /\ [][Next]_vars

\* Threads that can go on do; clients need not call.
FairSpec ==
    /\ Spec
    /\ \A c \in Client : WF_vars(ClientStep(c))
    /\ WF_vars(Update)
    /\ WF_vars(Tick)

------------------------------------------------------------------------------
(* Properties.                                                             *)

\* update unlocks the queue between looking at its top and taking it.  Other threads
\* may push in between; what it takes is still there, and due.
TakesDueTask ==
    pc[Runner] = "pop" => tasks # {} /\ \A e \in Top : e.planned <= now

\* A repeating task keeps to the times it was planned for, each served once, however
\* late the thread is (Scheduler_test.cpp, test_sync).
NoDrift ==
    \A e \in tasks : /\ e.planned = e.first + Interval * runs[e.task]
                     /\ ~e.repeats => runs[e.task] = 0

\* callAsap without immediate return: the call has been made when it returns, and the
\* variables that the task refers to live until then.
WaitingCallMade ==
    \A t \in Task \ unborn :
        /\ t \in released => runs[t] = 1
        /\ pc[Runner] \in {"callback", "release"} /\ held[Runner].task = t
               /\ held[Runner].call = "wait"
           => t \in inCall

\* A task in the queue is run in the end, whatever is scheduled before or after it.
EventuallyRun ==
    \A t \in Task : (\E e \in tasks : e.task = t) ~> runs[t] > 0

==============================================================================
