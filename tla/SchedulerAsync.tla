----------------------------- MODULE SchedulerAsync ----------------------------
(***************************************************************************)
(* The asynchronous mode of Scheduler: the runner is a background thread   *)
(* (runAsync) that sleeps on the condition variable until a task is due or *)
(* the queue is changed, and the destructor ends it.                       *)
(*                                                                         *)
(* runAsync locks tasksMux through a unique_lock and unlocks it directly,  *)
(* before the callback; the unique_lock, which does not know, unlocks it   *)
(* once more at the end of the scope.  Unlocking a mutex one does not hold *)
(* is undefined; the mutex of the GNU C library that the build uses comes  *)
(* free, whichever thread had locked it.                                   *)
(***************************************************************************)
EXTENDS Scheduler   \* with Async = TRUE

VARIABLES
    wakeAt,      \* when cv.wait_until will end, Never after cv.wait
    stop,        \* tells the background thread to end
    destroyer    \* what the thread that destroys the scheduler does next

asyncVars == <<vars, wakeAt, stop, destroyer>>

Never == MaxNow + Interval + 1

AsyncInit ==
    /\ Init
    /\ wakeAt = Never
    /\ stop = FALSE
    /\ destroyer = "using"

------------------------------------------------------------------------------
(* The background thread.                                                  *)

\* The head of the outer loop.
While ==
    /\ Goto(Runner, "check", IF stop THEN "exited" ELSE "take")
    /\ UNCHANGED <<now, tasks, mutex, waiting, held, unborn, inCall, released, runs, wakeAt>>

\* cv.wait or cv.wait_until: the mutex comes free and the thread sleeps, in one step.
Sleep ==
    /\ ~NextTaskDue
    /\ Goto(Runner, "pop", "sleep")
    /\ Unlock
    /\ waiting' = waiting \cup {Runner}
    /\ \/ tasks = {} /\ wakeAt' = Never
       \/ \E e \in Top : wakeAt' = e.planned
    /\ UNCHANGED <<now, tasks, held, unborn, inCall, released, runs>>

TimedOut ==
    /\ Runner \in waiting
    /\ wakeAt <= now
    /\ waiting' = {}
    /\ UNCHANGED <<now, tasks, mutex, pc, held, unborn, inCall, released, runs, wakeAt>>

SpuriousWakeUp ==
    /\ Runner \in waiting
    /\ waiting' = {}
    /\ UNCHANGED <<now, tasks, mutex, pc, held, unborn, inCall, released, runs, wakeAt>>

\* The wait returns with the mutex locked.
Awake ==
    /\ Runner \notin waiting
    /\ RunnerLock("sleep", "again")
    /\ UNCHANGED wakeAt

\* The unique_lock is destroyed: after a wait (again) or after a task (leave).
LeaveScope(label) ==
    /\ Goto(Runner, label, "check")
    /\ Unlock
    /\ UNCHANGED <<now, tasks, waiting, held, unborn, inCall, released, runs, wakeAt>>

RunAsync ==
    \/ While
    \/ RunnerLock("take", "pop") /\ UNCHANGED wakeAt
    \/ Sleep
    \/ Awake
    \/ NextTaskDue /\ Pop /\ UNCHANGED wakeAt
    \/ Callback /\ UNCHANGED wakeAt
    \/ Release /\ UNCHANGED wakeAt
    \/ RunnerLock("relock", "repush") /\ UNCHANGED wakeAt
    \/ Repush /\ UNCHANGED wakeAt
    \/ LeaveScope("again")
    \/ LeaveScope("leave")

------------------------------------------------------------------------------
(* The destructor, called when no other thread uses the scheduler.         *)

SetStop ==
    /\ destroyer = "using"
    /\ \A c \in Client : pc[c] = "idle"
    /\ stop' = TRUE
    /\ destroyer' = "notify"
    /\ UNCHANGED <<vars, wakeAt>>

NotifyAll ==
    /\ destroyer = "notify"
    /\ destroyer' = "join"
    /\ waiting' = {}
    /\ UNCHANGED <<now, tasks, mutex, pc, held, unborn, inCall, released, runs, wakeAt, stop>>

Join ==
    /\ destroyer = "join"
    /\ pc[Runner] = "exited"
    /\ destroyer' = "done"
    /\ UNCHANGED <<vars, wakeAt, stop>>

------------------------------------------------------------------------------

Use ==
    /\ \/ \E c \in Client : \/ \E e \in Entry : Begin(c, e)
                            \/ ClientStep(c)
       \/ Tick
    /\ UNCHANGED wakeAt

\* While the destructor runs, nothing but the background thread does.
AsyncNext ==
    \/ (RunAsync \/ TimedOut \/ SpuriousWakeUp) /\ UNCHANGED <<stop, destroyer>>
    \/ destroyer = "using" /\ Use /\ UNCHANGED <<stop, destroyer>>
    \/ SetStop
    \/ NotifyAll
    \/ Join

AsyncSpec == AsyncInit /\ [][AsyncNext]_asyncVars

------------------------------------------------------------------------------
(* Properties.                                                             *)

\* "Obtain a lock to avoid the background thread interfering with us"
\* (Scheduler.cpp:25-26): two threads are never between locking and unlocking tasksMux.
QueueExclusive ==
    \A c \in Client :
        pc[c] = "push" => /\ pc[Runner] \notin {"pop", "repush", "again"}
                          /\ \A other \in Client \ {c} : pc[other] # "push"

==============================================================================
