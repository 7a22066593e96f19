---------------------------- MODULE SchedulerProofs ----------------------------
(***************************************************************************)
(* The synchronous scheduler takes only tasks that are due, for any number *)
(* of threads and tasks: update looks at the queue and takes from it under *)
(* two separate locks, but nobody else takes, time does not run backwards, *)
(* and a task pushed in between comes first only if it is due as well.     *)
(***************************************************************************)
EXTENDS Scheduler, TLAPS

\* A thread holds the mutex exactly between locking and unlocking it.
Critical == {"push", "test", "pop", "repush"}

InHand == {"lock", "push", "callback", "release", "relock", "repush"}

AnyEntry == [task : Task, first : Nat, planned : Nat, repeats : BOOLEAN, call : Call]

LabelInv ==
    /\ pc \in [Thread -> ClientLabel \cup RunnerLabel]
    /\ \A c \in Client : pc[c] \in ClientLabel
    /\ pc[Runner] \in RunnerLabel

LockInv == \A t \in Thread : mutex = t <=> pc[t] \in Critical

EntryInv ==
    /\ now \in Nat
    /\ tasks \subseteq AnyEntry
    /\ held \in [Thread -> AnyEntry \cup {NoTask}]
    /\ \A t \in Thread : pc[t] \in InHand => held[t] \in AnyEntry

DueInv == pc[Runner] \in {"take", "pop"} => \E e \in tasks : e.planned <= now

IInv == LabelInv /\ LockInv /\ EntryInv /\ DueInv

USE DEF ClientLabel, RunnerLabel, AfterTask, Critical, InHand, Goto, Unlock, Lock

LEMMA Threads ==
    /\ Runner \in Thread /\ Runner # Nobody
    /\ \A c \in Client : c \in Thread /\ c # Runner /\ c # Nobody
    BY SchedulerAssumption DEF Thread

LEMMA EntriesAre == Entry \subseteq AnyEntry
    BY SchedulerAssumption DEF Entry, AnyEntry

LEMMA InitIInv == Init => IInv
    BY Threads, SchedulerAssumption DEF Init, IInv, LabelInv, LockInv, EntryInv, DueInv, Thread

\* What locking and unlocking do to LockInv.
LEMMA Acquire ==
    ASSUME LabelInv, LockInv, NEW t \in Thread, NEW to \in Critical,
           pc' = [pc EXCEPT ![t] = to], mutex = Nobody, mutex' = t
    PROVE  LockInv'
<1> SUFFICES ASSUME NEW u \in Thread PROVE mutex' = u <=> pc'[u] \in Critical
    BY DEF LockInv
<1>1. u # Nobody
    BY Threads DEF Thread
<1>2. CASE u = t
    BY <1>2 DEF LabelInv
<1>3. CASE u # t
  <2>1. pc'[u] = pc[u] /\ pc[u] \notin Critical
    BY <1>1, <1>3 DEF LabelInv, LockInv
  <2> QED BY <1>3, <2>1
<1> QED BY <1>2, <1>3

LEMMA Leave ==
    ASSUME LabelInv, LockInv, NEW t \in Thread, NEW to, to \notin Critical,
           pc[t] \in Critical, pc' = [pc EXCEPT ![t] = to], mutex' = Nobody
    PROVE  LockInv'
<1> SUFFICES ASSUME NEW u \in Thread PROVE mutex' # u /\ pc'[u] \notin Critical
    BY DEF LockInv
<1>1. u # Nobody
    BY Threads DEF Thread
<1>2. CASE u = t
    BY <1>1, <1>2 DEF LabelInv
<1>3. CASE u # t
  <2>1. pc'[u] = pc[u] /\ mutex = t
    BY <1>3 DEF LabelInv, LockInv
  <2> QED BY <1>1, <1>3, <2>1 DEF LockInv
<1> QED BY <1>2, <1>3

LEMMA StepBegin ==
    ASSUME IInv, NEW c \in Client, NEW e \in Entry, Begin(c, e)
    PROVE  IInv'
<1> USE Threads
<1>1. LabelInv'
    BY DEF Begin, IInv, LabelInv
<1>2. LockInv'
    BY DEF Begin, IInv, LabelInv, LockInv
<1>3. EntryInv'
    BY EntriesAre DEF Begin, IInv, LabelInv, EntryInv
<1>4. DueInv'
    BY DEF Begin, IInv, LabelInv, DueInv
<1> QED BY <1>1, <1>2, <1>3, <1>4 DEF IInv

LEMMA StepClient ==
    ASSUME IInv, NEW c \in Client, ClientStep(c)
    PROVE  IInv'
<1> USE Threads
<1>1. CASE ClientLock(c)
  <2>1. LabelInv'
    BY <1>1 DEF ClientLock, IInv, LabelInv
  <2>2. LockInv'
    BY <1>1, Acquire DEF ClientLock, IInv
  <2>3. EntryInv'
    BY <1>1 DEF ClientLock, IInv, LabelInv, EntryInv
  <2>4. DueInv'
    BY <1>1 DEF ClientLock, IInv, LabelInv, DueInv
  <2> QED BY <2>1, <2>2, <2>3, <2>4 DEF IInv
<1>2. CASE Push(c)
  <2>1. LabelInv'
    BY <1>2 DEF Push, IInv, LabelInv
  <2>2. LockInv'
    BY <1>2, Leave DEF Push, IInv
  <2>3. EntryInv'
    BY <1>2 DEF Push, IInv, LabelInv, EntryInv
  <2>4. DueInv'
    BY <1>2 DEF Push, IInv, LabelInv, DueInv
  <2> QED BY <2>1, <2>2, <2>3, <2>4 DEF IInv
<1>3. CASE ScheduleTaskReturns(c)
  <2>1. LabelInv'
    BY <1>3 DEF ScheduleTaskReturns, IInv, LabelInv
  <2>2. LockInv'
    BY <1>3 DEF ScheduleTaskReturns, IInv, LabelInv, LockInv
  <2>3. EntryInv'
    BY <1>3 DEF ScheduleTaskReturns, IInv, LabelInv, EntryInv
  <2>4. DueInv'
    BY <1>3 DEF ScheduleTaskReturns, IInv, LabelInv, DueInv
  <2> QED BY <2>1, <2>2, <2>3, <2>4 DEF IInv
<1>4. CASE CallAsapReturns(c)
  <2>1. LabelInv'
    BY <1>4 DEF CallAsapReturns, IInv, LabelInv
  <2>2. LockInv'
    BY <1>4 DEF CallAsapReturns, IInv, LabelInv, LockInv
  <2>3. EntryInv'
    BY <1>4 DEF CallAsapReturns, IInv, LabelInv, EntryInv
  <2>4. DueInv'
    BY <1>4 DEF CallAsapReturns, IInv, LabelInv, DueInv
  <2> QED BY <2>1, <2>2, <2>3, <2>4 DEF IInv
<1> QED BY <1>1, <1>2, <1>3, <1>4 DEF ClientStep

\* Taking the lock is a step of update in three places.
LEMMA StepRunnerLock ==
    ASSUME IInv, NEW from \in {"check", "take", "relock"}, NEW to \in {"test", "pop", "repush"},
           from = "check" => to = "test", from = "take" => to = "pop",
           from = "relock" => to = "repush", RunnerLock(from, to)
    PROVE  IInv'
<1> USE Threads
<1>1. LabelInv'
    BY DEF RunnerLock, IInv, LabelInv
<1>2. LockInv'
    BY Acquire DEF RunnerLock, IInv
<1>3. EntryInv'
    BY DEF RunnerLock, IInv, LabelInv, EntryInv
<1>4. DueInv'
    BY DEF RunnerLock, IInv, LabelInv, DueInv
<1> QED BY <1>1, <1>2, <1>3, <1>4 DEF IInv

LEMMA StepUpdate == IInv /\ Update => IInv'
<1> SUFFICES ASSUME IInv, Update PROVE IInv'
    OBVIOUS
<1> USE Threads
<1>1. CASE RunnerLock("check", "test") \/ RunnerLock("take", "pop")
           \/ RunnerLock("relock", "repush")
    BY <1>1, StepRunnerLock
<1>2. CASE IsNextTaskDue
  <2>1. LabelInv'
    BY <1>2 DEF IsNextTaskDue, IInv, LabelInv
  <2>2. LockInv'
    <3>1. PICK to \in {"take", "check"} : pc' = [pc EXCEPT ![Runner] = to]
      BY <1>2 DEF IsNextTaskDue
    <3> QED BY <1>2, <3>1, Leave DEF IsNextTaskDue, IInv
  <2>3. EntryInv'
    BY <1>2 DEF IsNextTaskDue, IInv, LabelInv, EntryInv
  <2>4. DueInv'
    BY <1>2 DEF IsNextTaskDue, IInv, LabelInv, DueInv, NextTaskDue, Top
  <2> QED BY <2>1, <2>2, <2>3, <2>4 DEF IInv
<1>3. CASE Pop
  <2>1. LabelInv'
    BY <1>3 DEF Pop, IInv, LabelInv
  <2>2. LockInv'
    BY <1>3, Leave DEF Pop, IInv
  <2>3. EntryInv'
    BY <1>3 DEF Pop, Top, IInv, LabelInv, EntryInv
  <2>4. DueInv'
    BY <1>3 DEF Pop, IInv, LabelInv, DueInv
  <2> QED BY <2>1, <2>2, <2>3, <2>4 DEF IInv
<1>4. CASE Callback
  <2>1. LabelInv'
    BY <1>4 DEF Callback, IInv, LabelInv
  <2>2. LockInv'
    BY <1>4 DEF Callback, IInv, LabelInv, LockInv
  <2>3. EntryInv'
    <3>1. held[Runner] \in AnyEntry
      BY <1>4 DEF Callback, IInv, EntryInv
    <3>2. PICK repeats \in {FALSE, held[Runner].repeats} :
              held' = [held EXCEPT ![Runner].repeats = repeats]
      BY <1>4 DEF Callback
    <3>3. repeats \in BOOLEAN
      BY <3>1, <3>2 DEF AnyEntry
    <3>4. [held[Runner] EXCEPT !.repeats = repeats] \in AnyEntry
      BY <3>1, <3>3 DEF AnyEntry
    <3>5. held' = [held EXCEPT ![Runner] = [held[Runner] EXCEPT !.repeats = repeats]]
      BY <3>2
    <3>6. /\ held' \in [Thread -> AnyEntry \cup {NoTask}]
          /\ held'[Runner] \in AnyEntry
          /\ \A c \in Client : held'[c] = held[c]
      BY <3>4, <3>5 DEF IInv, EntryInv
    <3>7. \A c \in Client : pc'[c] = pc[c]
      BY <1>4 DEF Callback, IInv, LabelInv
    <3>8. \A t \in Thread : t = Runner \/ t \in Client
      BY DEF Thread
    <3>9. now' = now /\ tasks' = tasks
      BY <1>4 DEF Callback
    <3> QED BY <3>6, <3>7, <3>8, <3>9 DEF IInv, EntryInv
  <2>4. DueInv'
    BY <1>4 DEF Callback, IInv, LabelInv, DueInv
  <2> QED BY <2>1, <2>2, <2>3, <2>4 DEF IInv
<1>5. CASE Release
  <2>1. LabelInv'
    BY <1>5 DEF Release, IInv, LabelInv
  <2>2. LockInv'
    BY <1>5 DEF Release, IInv, LabelInv, LockInv
  <2>3. EntryInv'
    BY <1>5 DEF Release, IInv, LabelInv, EntryInv
  <2>4. DueInv'
    BY <1>5 DEF Release, IInv, LabelInv, DueInv
  <2> QED BY <2>1, <2>2, <2>3, <2>4 DEF IInv
<1>6. CASE Repush
  <2>1. LabelInv'
    BY <1>6 DEF Repush, IInv, LabelInv
  <2>2. LockInv'
    <3>1. PICK to \in {"leave", "check"} : pc' = [pc EXCEPT ![Runner] = to]
      BY <1>6 DEF Repush
    <3> QED BY <1>6, <3>1, Leave DEF Repush, IInv
  <2>3. EntryInv'
    <3>1. held[Runner] \in AnyEntry
      BY <1>6 DEF Repush, IInv, EntryInv
    <3>2. Replan(held[Runner]) \in AnyEntry
      BY <3>1, SchedulerAssumption DEF Replan, AnyEntry
    <3> QED BY <1>6, <3>2 DEF Repush, IInv, LabelInv, EntryInv
  <2>4. DueInv'
    BY <1>6 DEF Repush, IInv, LabelInv, DueInv
  <2> QED BY <2>1, <2>2, <2>3, <2>4 DEF IInv
<1> QED BY <1>1, <1>2, <1>3, <1>4, <1>5, <1>6 DEF Update

LEMMA StepTick == IInv /\ Tick => IInv'
<1> SUFFICES ASSUME IInv, Tick PROVE IInv'
    OBVIOUS
<1>1. now' = now + 1 /\ now \in Nat
    BY DEF Tick, IInv, EntryInv
<1>2. LabelInv' /\ LockInv' /\ EntryInv'
    BY <1>1 DEF Tick, IInv, LabelInv, LockInv, EntryInv
<1>3. DueInv'
    BY <1>1 DEF Tick, IInv, DueInv, EntryInv, AnyEntry
<1> QED BY <1>2, <1>3 DEF IInv

THEOREM IInvCorrect == Spec => []IInv
<1>1. IInv /\ [Next]_vars => IInv'
  <2> SUFFICES ASSUME IInv, [Next]_vars PROVE IInv'
    OBVIOUS
  <2>1. CASE UNCHANGED vars
    BY <2>1 DEF vars, IInv, LabelInv, LockInv, EntryInv, DueInv
  <2> QED BY <2>1, StepBegin, StepClient, StepUpdate, StepTick DEF Next
<1> QED BY <1>1, InitIInv, PTL DEF Spec

\* update takes a task only when there is one and it is due.
THEOREM DueTasksTaken == Spec => []TakesDueTask
<1>1. IInv => TakesDueTask
    BY DEF IInv, DueInv, EntryInv, AnyEntry, TakesDueTask, Top
<1> QED BY <1>1, IInvCorrect, PTL

\* No two threads touch the queue at the same time.
THEOREM QueueLocked ==
    Spec => [](\A t, u \in Thread : pc[t] \in Critical /\ pc[u] \in Critical => t = u)
<1>1. IInv => \A t, u \in Thread : pc[t] \in Critical /\ pc[u] \in Critical => t = u
    BY DEF IInv, LockInv
<1> QED BY <1>1, IInvCorrect, PTL

------------------------------------------------------------------------------
(* What was scheduled is in one place: in the hand of the client that      *)
(* schedules it, in the queue, or in the hand of the runner.               *)

\* A client that has yet to push its task; a client in a call; the runner with a task.
Pushing(c) == pc[c] \in {"lock", "push"}
Calling(c) == pc[c] \in {"lock", "push", "notify", "await"}
Running == pc[Runner] \in {"callback", "release", "relock", "repush"}

Known(t) == t \notin unborn /\ t \notin released

OnTime(e) == e.planned = e.first + Interval * runs[e.task]

\* e is still to be run.
Scheduled(e) ==
    /\ Known(e.task)
    /\ OnTime(e)
    /\ ~e.repeats => runs[e.task] = 0
    /\ e.call = "wait" => e.task \in inCall /\ ~e.repeats

CountInv ==
    /\ runs \in [Task -> Nat]
    /\ \A t \in unborn : t \notin released /\ runs[t] = 0
    /\ \A t \in Task \ unborn : t \in released => runs[t] = 1

QueueInv == \A e \in tasks : Scheduled(e)

HandInv == \A c \in Client : Pushing(c) => Scheduled(held[c])

\* From the callback on, the count is one ahead of the planned time.
RunnerInv ==
    LET e == held[Runner]
    IN  /\ pc[Runner] = "callback" => Scheduled(e)
        /\ pc[Runner] = "release" => Known(e.task) /\ e.call = "wait" /\ e.task \in inCall
                                       /\ runs[e.task] = 1
        /\ pc[Runner] \in {"relock", "repush"} =>
             Known(e.task) /\ e.repeats /\ e.call # "wait"
               /\ e.planned + Interval = e.first + Interval * runs[e.task]

\* No task is in two places.
ApartInv ==
    /\ \A e, f \in tasks : e.task = f.task => e = f
    /\ \A c \in Client : Pushing(c) => \A e \in tasks : e.task # held[c].task
    /\ \A c, d \in Client : Calling(c) /\ Calling(d) /\ held[c].task = held[d].task => c = d
    /\ Running => /\ \A e \in tasks : e.task # held[Runner].task
                  /\ \A c \in Client : Pushing(c) => held[c].task # held[Runner].task

\* A call and its task agree on whether the call waits.
CallInv ==
    \A c \in Client : Calling(c) =>
        /\ held[c].task \notin unborn
        /\ \A e \in tasks : e.task = held[c].task => e.call = held[c].call
        /\ Running /\ held[Runner].task = held[c].task => held[Runner].call = held[c].call

TaskInv == CountInv /\ QueueInv /\ HandInv /\ RunnerInv /\ ApartInv /\ CallInv

LEMMA InitTaskInv == Init => TaskInv
    BY Threads DEF Init, TaskInv, CountInv, QueueInv, HandInv, RunnerInv, ApartInv, CallInv,
       Pushing, Calling, Running

\* What a step of a client leaves alone.
LEMMA ClientKeepsRunner ==
    ASSUME IInv, NEW c \in Client, NEW to, pc' = [pc EXCEPT ![c] = to]
    PROVE  /\ pc'[Runner] = pc[Runner] /\ pc'[c] = to
           /\ \A d \in Client \ {c} : pc'[d] = pc[d]
    BY Threads DEF IInv, LabelInv

LEMMA TaskBegin ==
    ASSUME IInv, TaskInv, NEW c \in Client, NEW e \in Entry, Begin(c, e)
    PROVE  TaskInv'
<1>1. /\ e.task \in unborn /\ unborn' = unborn \ {e.task}
      /\ e.planned = e.first
      /\ e.call # "schedule" => ~e.repeats
      /\ inCall' = IF e.call = "schedule" THEN inCall ELSE inCall \cup {e.task}
      /\ UNCHANGED <<now, tasks, mutex, waiting, released, runs>>
    BY DEF Begin
<1>2. /\ pc'[Runner] = pc[Runner] /\ pc'[c] = "lock" /\ pc[c] = "idle"
      /\ \A d \in Client \ {c} : pc'[d] = pc[d]
    BY ClientKeepsRunner DEF Begin
<1>3. /\ held'[c] = e /\ held'[Runner] = held[Runner]
      /\ \A d \in Client \ {c} : held'[d] = held[d]
    BY Threads DEF Begin, IInv, EntryInv
<1>4. e \in AnyEntry /\ e.planned \in Nat /\ e.first \in Nat /\ Interval \in Nat /\ e.task \in Task
    BY EntriesAre, SchedulerAssumption DEF AnyEntry
<1>5. /\ runs[e.task] = 0 /\ e.task \notin released
      /\ e.planned = e.first + Interval * runs[e.task]
  <2>1. runs[e.task] = 0 /\ e.task \notin released
    BY <1>1 DEF TaskInv, CountInv
  <2>2. Interval * 0 = 0
    BY <1>4
  <2> QED BY <1>1, <1>4, <2>1, <2>2
<1>6. \A f : Scheduled(f) => Scheduled(f)' /\ f.task # e.task
    BY <1>1 DEF Scheduled, Known, OnTime
<1>7. \A t : Known(t) => Known(t)' /\ t # e.task
    BY <1>1 DEF Known
<1>8. Scheduled(held[c])'
    BY <1>1, <1>3, <1>5 DEF Scheduled, Known, OnTime
<1>9. CountInv'
    BY <1>1, <1>4, <1>5 DEF TaskInv, CountInv
<1>10. QueueInv'
    BY <1>1, <1>6 DEF TaskInv, QueueInv
<1>11. HandInv'
  <2> SUFFICES ASSUME NEW d \in Client, Pushing(d)' PROVE Scheduled(held[d])'
    BY DEF HandInv
  <2>1. CASE d = c
    BY <1>8, <2>1
  <2>2. CASE d # c
    <3>1. Scheduled(held[d])
      BY <1>2, <2>2 DEF TaskInv, HandInv, Pushing
    <3> QED BY <1>1, <1>3, <2>2, <3>1 DEF Scheduled, Known, OnTime
  <2> QED BY <2>1, <2>2
<1>12. RunnerInv'
    BY <1>1, <1>2, <1>3 DEF TaskInv, RunnerInv, Scheduled, Known, OnTime
<1>13. /\ \A f \in tasks : f.task # e.task
       /\ \A d \in Client \ {c} : Calling(d) => held[d].task # e.task
       /\ Running => held[Runner].task # e.task
    BY <1>1, <1>6, <1>7 DEF TaskInv, QueueInv, CallInv, RunnerInv, Running
<1>14. ApartInv'
    BY <1>1, <1>2, <1>3, <1>13 DEF TaskInv, ApartInv, Pushing, Calling, Running
<1>15. CallInv'
    BY <1>1, <1>2, <1>3, <1>13 DEF TaskInv, CallInv, Calling, Running
<1> QED BY <1>9, <1>10, <1>11, <1>12, <1>14, <1>15 DEF TaskInv

LEMMA TaskClientLock ==
    ASSUME IInv, TaskInv, NEW c \in Client, ClientLock(c)
    PROVE  TaskInv'
<1>1. /\ pc'[Runner] = pc[Runner] /\ pc'[c] = "push" /\ pc[c] = "lock"
      /\ \A d \in Client \ {c} : pc'[d] = pc[d]
    BY ClientKeepsRunner DEF ClientLock
<1>2. UNCHANGED <<tasks, held, unborn, inCall, released, runs>>
    BY DEF ClientLock
<1> QED
    BY <1>1, <1>2 DEF TaskInv, CountInv, QueueInv, HandInv, RunnerInv, ApartInv, CallInv,
       Pushing, Calling, Running, Scheduled, Known, OnTime

LEMMA TaskPush ==
    ASSUME IInv, TaskInv, NEW c \in Client, Push(c)
    PROVE  TaskInv'
<1>1. /\ pc'[Runner] = pc[Runner] /\ pc'[c] = "notify" /\ pc[c] = "push"
      /\ \A d \in Client \ {c} : pc'[d] = pc[d]
    BY ClientKeepsRunner DEF Push
<1>2. /\ tasks' = tasks \cup {held[c]}
      /\ UNCHANGED <<held, unborn, inCall, released, runs>>
    BY DEF Push
<1>3. \A e : Scheduled(e)' <=> Scheduled(e)
    BY <1>2 DEF Scheduled, Known, OnTime
<1>4. CountInv' /\ RunnerInv'
    BY <1>1, <1>2 DEF TaskInv, CountInv, RunnerInv, Scheduled, Known, OnTime
<1>5. Scheduled(held[c])
    BY <1>1 DEF TaskInv, HandInv, Pushing
<1>6. QueueInv'
    BY <1>2, <1>3, <1>5 DEF TaskInv, QueueInv
<1>7. HandInv'
    BY <1>1, <1>2 DEF TaskInv, HandInv, Pushing, Scheduled, Known, OnTime
<1>8. ApartInv'
    BY <1>1, <1>2 DEF TaskInv, ApartInv, Pushing, Calling, Running
<1>9. CallInv'
    BY <1>1, <1>2 DEF TaskInv, CallInv, ApartInv, Calling, Running
<1> QED BY <1>4, <1>6, <1>7, <1>8, <1>9 DEF TaskInv

\* When a call returns, no task relies on it any more.
LEMMA TaskReturns ==
    ASSUME IInv, TaskInv, NEW c \in Client,
           ScheduleTaskReturns(c) \/ CallAsapReturns(c)
    PROVE  TaskInv'
<1>1. PICK to \in {"await", "idle"} : pc' = [pc EXCEPT ![c] = to]
    BY DEF ScheduleTaskReturns, CallAsapReturns
<1>2. /\ pc'[Runner] = pc[Runner] /\ pc'[c] = to /\ pc[c] \in {"notify", "await"}
      /\ \A d \in Client \ {c} : pc'[d] = pc[d]
    BY <1>1, ClientKeepsRunner DEF ScheduleTaskReturns, CallAsapReturns
<1>3. UNCHANGED <<tasks, held, unborn, released, runs>>
    BY DEF ScheduleTaskReturns, CallAsapReturns
<1>4. \/ inCall' = inCall
      \/ inCall' = inCall \ {held[c].task}
           /\ (held[c].call # "wait" \/ held[c].task \in released)
    BY DEF ScheduleTaskReturns, CallAsapReturns
<1>5. \A e \in tasks : Scheduled(e)'
    BY <1>2, <1>3, <1>4 DEF TaskInv, QueueInv, CallInv, Calling, Scheduled, Known, OnTime
<1>6. \A d \in Client : Pushing(d)' => Scheduled(held[d])'
  <2> SUFFICES ASSUME NEW d \in Client, Pushing(d)' PROVE Scheduled(held[d])'
    OBVIOUS
  <2>1. d # c /\ Pushing(d)
    BY <1>2 DEF Pushing
  <2>2. Scheduled(held[d])
    BY <2>1 DEF TaskInv, HandInv
  <2>3. held[d].task # held[c].task
    BY <1>2, <2>1 DEF TaskInv, ApartInv, Pushing, Calling
  <2> QED BY <1>3, <1>4, <2>2, <2>3 DEF Scheduled, Known, OnTime
<1>7. RunnerInv'
    BY <1>2, <1>3, <1>4
       DEF TaskInv, RunnerInv, CallInv, Calling, Running, Scheduled, Known, OnTime
<1>8. CountInv' /\ ApartInv' /\ CallInv'
    BY <1>2, <1>3 DEF TaskInv, CountInv, ApartInv, CallInv, Pushing, Calling, Running
<1> QED BY <1>3, <1>5, <1>6, <1>7, <1>8 DEF TaskInv, QueueInv, HandInv

\* What a step of the runner leaves alone.
LEMMA RunnerKeepsClients ==
    ASSUME IInv, NEW to, pc' = [pc EXCEPT ![Runner] = to]
    PROVE  /\ pc'[Runner] = to
           /\ \A c \in Client : /\ pc'[c] = pc[c]
                                /\ Pushing(c)' <=> Pushing(c)
                                /\ Calling(c)' <=> Calling(c)
    BY Threads DEF IInv, LabelInv, Pushing, Calling

\* Steps in which the runner only goes on without a task, or goes to fetch the lock again.
LEMMA TaskQuiet ==
    ASSUME IInv, TaskInv, UNCHANGED <<tasks, held, unborn, inCall, released, runs>>,
           NEW to, pc' = [pc EXCEPT ![Runner] = to],
           \/ to \in {"check", "test", "take", "pop", "leave"}
           \/ to = "repush" /\ pc[Runner] = "relock"
    PROVE  TaskInv'
<1>1. /\ pc'[Runner] = to
      /\ \A c \in Client : (Pushing(c)' <=> Pushing(c)) /\ (Calling(c)' <=> Calling(c))
    BY RunnerKeepsClients
<1>2. \A e : Scheduled(e)' <=> Scheduled(e)
    BY DEF Scheduled, Known, OnTime
<1>3. CountInv' /\ QueueInv' 
    BY <1>2 DEF TaskInv, CountInv, QueueInv
<1>4. HandInv'
    BY <1>1 DEF TaskInv, HandInv, Scheduled, Known, OnTime
<1>5. RunnerInv'
    BY <1>1 DEF TaskInv, RunnerInv, Known
<1>6. Running' => Running
    BY <1>1 DEF Running
<1>7. ApartInv' /\ CallInv'
    BY <1>1, <1>6 DEF TaskInv, ApartInv, CallInv
<1> QED BY <1>3, <1>4, <1>5, <1>7 DEF TaskInv

LEMMA TaskPop ==
    ASSUME IInv, TaskInv, Pop
    PROVE  TaskInv'
<1>1. PICK e \in Top : held' = [held EXCEPT ![Runner] = e] /\ tasks' = tasks \ {e}
    BY DEF Pop
<1>2. e \in tasks /\ Scheduled(e)
    BY <1>1 DEF Top, TaskInv, QueueInv
<1>3. /\ pc'[Runner] = "callback"
      /\ \A c \in Client : (Pushing(c)' <=> Pushing(c)) /\ (Calling(c)' <=> Calling(c))
    BY RunnerKeepsClients DEF Pop
<1>4. held'[Runner] = e /\ \A c \in Client : held'[c] = held[c]
    BY <1>1, Threads DEF IInv, EntryInv
<1>5. UNCHANGED <<unborn, inCall, released, runs>>
    BY DEF Pop
<1>6. CountInv' /\ QueueInv'
    BY <1>1, <1>5 DEF TaskInv, CountInv, QueueInv, Scheduled, Known, OnTime
<1>7. HandInv'
    BY <1>3, <1>4, <1>5 DEF TaskInv, HandInv, Scheduled, Known, OnTime
<1>8. RunnerInv'
    BY <1>2, <1>3, <1>4, <1>5 DEF RunnerInv, Scheduled, Known, OnTime
<1>9. ApartInv'
    BY <1>1, <1>2, <1>3, <1>4 DEF TaskInv, ApartInv
<1>10. CallInv'
    BY <1>1, <1>2, <1>3, <1>4, <1>5 DEF TaskInv, CallInv
<1> QED BY <1>6, <1>7, <1>8, <1>9, <1>10 DEF TaskInv

LEMMA OneMore ==
    ASSUME NEW n \in Nat
    PROVE  Interval * (n + 1) = Interval * n + Interval
    BY SchedulerAssumption

LEMMA TaskCallback ==
    ASSUME IInv, TaskInv, Callback
    PROVE  TaskInv'
<1>1. PICK repeats \in {FALSE, held[Runner].repeats} :
           /\ Goto(Runner, "callback", IF held[Runner].call = "wait" THEN "release"
                                       ELSE IF repeats THEN "relock" ELSE AfterTask)
           /\ held' = [held EXCEPT ![Runner].repeats = repeats]
    BY DEF Callback
<1>2. /\ runs' = [runs EXCEPT ![held[Runner].task] = @ + 1]
      /\ UNCHANGED <<tasks, unborn, inCall, released>>
    BY DEF Callback
<1>3. PICK t : t = held[Runner].task
    OBVIOUS
<1>4. held[Runner] \in AnyEntry /\ t \in Task /\ Scheduled(held[Runner]) /\ Running
    BY <1>1, <1>3, Threads DEF IInv, EntryInv, AnyEntry, TaskInv, RunnerInv, Running
<1>5. /\ held' = [held EXCEPT ![Runner] = [held[Runner] EXCEPT !.repeats = repeats]]
      /\ held'[Runner] = [held[Runner] EXCEPT !.repeats = repeats]
      /\ \A c \in Client : held'[c] = held[c]
    BY <1>1, Threads DEF IInv, EntryInv
<1>6. /\ held'[Runner].task = t /\ held'[Runner].call = held[Runner].call
      /\ held'[Runner].planned = held[Runner].planned
      /\ held'[Runner].first = held[Runner].first
      /\ held'[Runner].repeats = repeats
    BY <1>3, <1>4, <1>5 DEF AnyEntry
<1>7. /\ runs \in [Task -> Nat] /\ runs' \in [Task -> Nat]
      /\ runs'[t] = runs[t] + 1 /\ \A u \in Task \ {t} : runs'[u] = runs[u]
    BY <1>2, <1>3, <1>4 DEF TaskInv, CountInv
<1>8. PICK to \in {"release", "relock", "check", "leave"} :
          /\ pc' = [pc EXCEPT ![Runner] = to]
          /\ to = "release" <=> held[Runner].call = "wait"
          /\ to = "relock" => repeats
    BY <1>1
<1>9. /\ pc'[Runner] = to
      /\ \A c \in Client : (Pushing(c)' <=> Pushing(c)) /\ (Calling(c)' <=> Calling(c))
    BY <1>8, RunnerKeepsClients
<1>10. CountInv'
    BY <1>2, <1>3, <1>4, <1>7 DEF TaskInv, CountInv, Scheduled, Known, IInv
<1>11. QueueInv'
  <2> SUFFICES ASSUME NEW e \in tasks PROVE Scheduled(e)'
    BY <1>2 DEF QueueInv
  <2>1. e.task \in Task \ {t} /\ Scheduled(e)
    BY <1>3, <1>4 DEF TaskInv, ApartInv, QueueInv, IInv, EntryInv, AnyEntry
  <2> QED BY <1>2, <1>7, <2>1 DEF Scheduled, Known, OnTime
<1>12. HandInv'
  <2> SUFFICES ASSUME NEW c \in Client, Pushing(c)' PROVE Scheduled(held[c])'
    BY DEF HandInv
  <2>1. Pushing(c) /\ Scheduled(held[c])
    BY <1>9 DEF TaskInv, HandInv
  <2>2. held[c] \in AnyEntry
    BY <2>1, Threads DEF IInv, EntryInv, Pushing
  <2>3. held[c].task \in Task \ {t}
    BY <1>3, <1>4, <2>1, <2>2 DEF TaskInv, ApartInv, AnyEntry
  <2> QED BY <1>2, <1>5, <1>7, <2>1, <2>3 DEF Scheduled, Known, OnTime
<1>13. RunnerInv'
  <2>1. Known(t)' /\ Known(t)
    BY <1>2, <1>3, <1>4 DEF Scheduled, Known
  <2>2. CASE to = "release"
    <3>1. held[Runner].call = "wait" /\ t \in inCall /\ runs[t] = 0
      BY <1>3, <1>4, <1>8, <2>2 DEF Scheduled
    <3> QED BY <1>2, <1>6, <1>7, <1>9, <2>1, <2>2, <3>1 DEF RunnerInv
  <2>3. CASE to = "relock"
    <3>1. held[Runner].planned = held[Runner].first + Interval * runs[t]
      BY <1>3, <1>4 DEF Scheduled, OnTime
    <3>2. Interval * runs'[t] = Interval * runs[t] + Interval
      BY <1>4, <1>7, OneMore
    <3>3. /\ held[Runner].first \in Nat /\ Interval \in Nat /\ Interval * runs[t] \in Nat
      BY <1>4, <1>7, SchedulerAssumption DEF AnyEntry
    <3>4. held[Runner].planned + Interval = held[Runner].first + Interval * runs'[t]
      BY <3>1, <3>2, <3>3
    <3> QED BY <1>6, <1>8, <1>9, <2>1, <2>3, <3>4 DEF RunnerInv
  <2>4. CASE to \in {"check", "leave"}
    BY <1>9, <2>4 DEF RunnerInv
  <2> QED BY <2>2, <2>3, <2>4
<1>14. ApartInv'
    BY <1>2, <1>3, <1>4, <1>5, <1>6, <1>9 DEF TaskInv, ApartInv
<1>15. CallInv'
    BY <1>2, <1>3, <1>4, <1>5, <1>6, <1>9 DEF TaskInv, CallInv
<1> QED BY <1>10, <1>11, <1>12, <1>13, <1>14, <1>15 DEF TaskInv

LEMMA TaskRelease ==
    ASSUME IInv, TaskInv, Release
    PROVE  TaskInv'
<1>1. PICK to \in {"check", "leave"} : pc' = [pc EXCEPT ![Runner] = to]
    BY DEF Release
<1>2. /\ pc'[Runner] = to
      /\ \A c \in Client : (Pushing(c)' <=> Pushing(c)) /\ (Calling(c)' <=> Calling(c))
    BY <1>1, RunnerKeepsClients
<1>3. /\ released' = released \cup {held[Runner].task}
      /\ UNCHANGED <<tasks, held, unborn, inCall, runs>>
      /\ pc[Runner] = "release" /\ Running
    BY DEF Release, Running
<1>4. Known(held[Runner].task) /\ runs[held[Runner].task] = 1
    BY <1>3 DEF TaskInv, RunnerInv
<1>5. CountInv'
    BY <1>3, <1>4 DEF TaskInv, CountInv, Known
<1>6. QueueInv'
    BY <1>3 DEF TaskInv, QueueInv, ApartInv, Scheduled, Known, OnTime
<1>7. HandInv'
    BY <1>2, <1>3 DEF TaskInv, HandInv, ApartInv, Scheduled, Known, OnTime
<1>8. RunnerInv' /\ ~Running'
    BY <1>1, <1>2 DEF RunnerInv, Running
<1>9. ApartInv' /\ CallInv'
    BY <1>2, <1>3, <1>8 DEF TaskInv, ApartInv, CallInv
<1> QED BY <1>5, <1>6, <1>7, <1>8, <1>9 DEF TaskInv

LEMMA TaskRepush ==
    ASSUME IInv, TaskInv, Repush
    PROVE  TaskInv'
<1>1. PICK to \in {"check", "leave"} : pc' = [pc EXCEPT ![Runner] = to]
    BY DEF Repush
<1>2. /\ pc'[Runner] = to
      /\ \A c \in Client : (Pushing(c)' <=> Pushing(c)) /\ (Calling(c)' <=> Calling(c))
    BY <1>1, RunnerKeepsClients
<1>3. PICK e : e = Replan(held[Runner])
    OBVIOUS
<1>4. /\ tasks' = tasks \cup {e}
      /\ UNCHANGED <<held, unborn, inCall, released, runs>>
      /\ pc[Runner] = "repush" /\ Running
    BY <1>3 DEF Repush, Running
<1>5. held[Runner] \in AnyEntry
    BY <1>4, Threads DEF IInv, EntryInv
<1>6. /\ e.task = held[Runner].task /\ e.call = held[Runner].call
      /\ e.planned = held[Runner].planned + Interval
      /\ e.first = held[Runner].first /\ e.repeats = held[Runner].repeats
    BY <1>3, <1>5 DEF Replan, AnyEntry
<1>7. Scheduled(e)'
    BY <1>4, <1>6 DEF TaskInv, RunnerInv, Scheduled, Known, OnTime
<1>8. CountInv'
    BY <1>4 DEF TaskInv, CountInv
<1>9. QueueInv'
  <2>1. \A f \in tasks : Scheduled(f)'
    BY <1>4 DEF TaskInv, QueueInv, Scheduled, Known, OnTime
  <2> QED BY <1>4, <1>7, <2>1 DEF QueueInv
<1>10. HandInv'
    BY <1>2, <1>4 DEF TaskInv, HandInv, Scheduled, Known, OnTime
<1>11. RunnerInv' /\ ~Running'
    BY <1>1, <1>2 DEF RunnerInv, Running
<1>12. ApartInv'
    BY <1>2, <1>4, <1>6, <1>11 DEF TaskInv, ApartInv
<1>13. CallInv'
    BY <1>2, <1>4, <1>6, <1>11 DEF TaskInv, CallInv
<1> QED BY <1>8, <1>9, <1>10, <1>11, <1>12, <1>13 DEF TaskInv

LEMMA TaskUpdate ==
    ASSUME IInv, TaskInv, Update
    PROVE  TaskInv'
<1>1. CASE RunnerLock("check", "test") \/ RunnerLock("take", "pop")
           \/ RunnerLock("relock", "repush")
    BY <1>1, TaskQuiet DEF RunnerLock
<1>2. CASE IsNextTaskDue
  <2>1. PICK to \in {"take", "check"} : pc' = [pc EXCEPT ![Runner] = to]
    BY <1>2 DEF IsNextTaskDue
  <2> QED BY <1>2, <2>1, TaskQuiet DEF IsNextTaskDue
<1> QED BY <1>1, <1>2, TaskPop, TaskCallback, TaskRelease, TaskRepush DEF Update

LEMMA TaskInvCorrect == Spec => []TaskInv
<1>1. IInv /\ TaskInv /\ [Next]_vars => TaskInv'
  <2> SUFFICES ASSUME IInv, TaskInv, [Next]_vars PROVE TaskInv'
    OBVIOUS
  <2>1. CASE UNCHANGED vars \/ Tick
    BY <2>1 DEF vars, Tick, TaskInv, CountInv, QueueInv, HandInv, RunnerInv, ApartInv, CallInv,
       Pushing, Calling, Running, Scheduled, Known, OnTime
  <2>2. CASE \E c \in Client : (\E e \in Entry : Begin(c, e)) \/ ClientStep(c)
    BY <2>2, TaskBegin, TaskClientLock, TaskPush, TaskReturns DEF ClientStep
  <2>3. CASE Update
    BY <2>3, TaskUpdate
  <2> QED BY <2>1, <2>2, <2>3 DEF Next
<1> QED BY <1>1, InitTaskInv, IInvCorrect, PTL DEF Spec

\* A repeating task keeps to the times it was first planned for, each served once, however
\* late the runner is (Scheduler.cpp:103-108).
THEOREM TimesKept == Spec => []NoDrift
<1>1. TaskInv => NoDrift
    BY DEF TaskInv, QueueInv, Scheduled, OnTime, NoDrift
<1> QED BY <1>1, TaskInvCorrect, PTL

\* A call of callAsap that waits returns after its call was made, and not before its task is
\* done with the variables of the call (Scheduler.cpp:58-74).
THEOREM WaitingCallsMade == Spec => []WaitingCallMade
<1>1. TaskInv => WaitingCallMade
    BY DEF TaskInv, CountInv, RunnerInv, Scheduled, WaitingCallMade
<1> QED BY <1>1, TaskInvCorrect, PTL

------------------------------------------------------------------------------
(* Types: a task is planned at most one interval ahead, and run at most    *)
(* once for each instant.                                                  *)

TypeInv ==
    /\ TypeOK
    /\ \A t \in Thread : pc[t] \in InHand => held[t] \in Entry
    /\ pc[Runner] \in {"callback", "relock", "repush"} => held[Runner].planned <= now

LEMMA IntervalsPass ==
    ASSUME NEW n \in Nat
    PROVE  Interval * n >= n
<1>1. PICK k \in Nat : Interval = k + 1
    BY SchedulerAssumption
<1>2. Interval * n = k * n + n
    BY <1>1
<1>3. k * n \in Nat
    OBVIOUS
<1> QED BY <1>2, <1>3

LEMMA InitTypeInv == Init => TypeInv
    BY Threads, SchedulerAssumption DEF Init, TypeInv, TypeOK

LEMMA TypeClient ==
    ASSUME IInv, TypeInv, NEW c \in Client,
           (\E e \in Entry : Begin(c, e)) \/ ClientStep(c)
    PROVE  TypeInv'
<1> USE Threads
<1>1. ASSUME NEW e \in Entry, Begin(c, e)
      PROVE  TypeInv'
  <2>1. TypeOK'
    BY <1>1 DEF Begin, TypeInv, TypeOK, Entry
  <2>2. /\ pc'[Runner] = pc[Runner] /\ held'[Runner] = held[Runner] /\ now' = now
        /\ held'[c] = e
        /\ \A t \in Thread \ {c} : pc'[t] = pc[t] /\ held'[t] = held[t]
    BY <1>1 DEF Begin, TypeInv, TypeOK
  <2> QED BY <2>1, <2>2 DEF TypeInv
<1>2. CASE ClientStep(c)
  <2>1. /\ UNCHANGED <<now, held, unborn, released, runs>>
        /\ \E to \in ClientLabel : pc' = [pc EXCEPT ![c] = to]
        /\ pc'[c] \in InHand => pc[c] \in InHand
    BY <1>2 DEF ClientStep, ClientLock, Push, ScheduleTaskReturns, CallAsapReturns,
                TypeInv, TypeOK
  <2>2. /\ mutex' \in Thread \cup {Nobody} /\ waiting' \subseteq Thread
        /\ inCall' \subseteq Task
    BY <1>2 DEF ClientStep, ClientLock, Push, ScheduleTaskReturns, CallAsapReturns, Notify,
                TypeInv, TypeOK
  <2>3. tasks' \subseteq Entry
    BY <1>2 DEF ClientStep, ClientLock, Push, ScheduleTaskReturns, CallAsapReturns,
                TypeInv, TypeOK
  <2>4. pc' \in [Thread -> ClientLabel \cup RunnerLabel]
    BY <2>1 DEF TypeInv, TypeOK
  <2>5. /\ pc'[Runner] = pc[Runner]
        /\ \A t \in Thread \ {c} : pc'[t] = pc[t]
    BY <2>1 DEF TypeInv, TypeOK
  <2>6. TypeOK'
    BY <2>1, <2>2, <2>3, <2>4 DEF TypeInv, TypeOK
  <2> QED BY <2>1, <2>5, <2>6 DEF TypeInv
<1> QED BY <1>1, <1>2

\* A step of the runner, by what it does to its task.
LEMMA TypeRunner ==
    ASSUME IInv, TypeInv, UNCHANGED <<now, unborn, inCall>>,
           NEW to \in RunnerLabel, pc' = [pc EXCEPT ![Runner] = to],
           NEW e \in Entry \cup {NoTask}, held' = [held EXCEPT ![Runner] = e],
           to \in InHand => e \in Entry,
           to \in {"callback", "relock", "repush"} => e.planned <= now,
           tasks' \subseteq Entry, mutex' \in Thread \cup {Nobody}, UNCHANGED waiting,
           released' \subseteq Task, runs' \in [Task -> 0 .. MaxNow + 1]
    PROVE  TypeInv'
<1> USE Threads
<1>1. /\ pc'[Runner] = to /\ held'[Runner] = e
      /\ \A t \in Thread \ {Runner} : pc'[t] = pc[t] /\ held'[t] = held[t]
    BY DEF TypeInv, TypeOK
<1>2. /\ pc' \in [Thread -> ClientLabel \cup RunnerLabel]
      /\ held' \in [Thread -> Entry \cup {NoTask}]
    BY DEF TypeInv, TypeOK
<1>3. TypeOK'
    BY <1>2 DEF TypeInv, TypeOK
<1> QED BY <1>1, <1>3 DEF TypeInv

LEMMA TypeUpdate ==
    ASSUME IInv, TaskInv, TypeInv, Update
    PROVE  TypeInv'
<1> USE Threads
<1>0. /\ held[Runner] \in Entry \cup {NoTask}
      /\ held = [held EXCEPT ![Runner] = held[Runner]]
      /\ pc[Runner] \in InHand => held[Runner] \in Entry
      /\ tasks \subseteq Entry /\ released \subseteq Task
      /\ runs \in [Task -> 0 .. MaxNow + 1] /\ mutex \in Thread \cup {Nobody}
      /\ now \in 0 .. MaxNow
    BY DEF TypeInv, TypeOK
<1>1. ASSUME NEW from \in {"check", "take", "relock"}, NEW to \in {"test", "pop", "repush"},
             to = "repush" => from = "relock", RunnerLock(from, to)
      PROVE  TypeInv'
  <2>1. to \in InHand => held[Runner] \in Entry /\ held[Runner].planned <= now
    BY <1>1 DEF RunnerLock, TypeInv
  <2>2. /\ pc' = [pc EXCEPT ![Runner] = to] /\ to \in RunnerLabel
        /\ mutex' \in Thread \cup {Nobody}
        /\ UNCHANGED <<now, unborn, inCall, tasks, waiting, released, runs, held>>
    BY <1>1 DEF RunnerLock
  <2>3. held' = [held EXCEPT ![Runner] = held[Runner]]
    BY <1>0, <2>2
  <2> QED BY <1>0, <2>1, <2>2, <2>3, TypeRunner
<1>2. CASE IsNextTaskDue
  <2>1. PICK to \in {"take", "check"} : pc' = [pc EXCEPT ![Runner] = to]
    BY <1>2 DEF IsNextTaskDue
  <2>2. /\ mutex' = Nobody
        /\ UNCHANGED <<now, unborn, inCall, tasks, waiting, released, runs, held>>
    BY <1>2 DEF IsNextTaskDue
  <2>3. held' = [held EXCEPT ![Runner] = held[Runner]]
    BY <1>0, <2>2
  <2> QED BY <1>0, <2>1, <2>2, <2>3, TypeRunner
<1>3. CASE Pop
  <2>1. PICK e \in Top : held' = [held EXCEPT ![Runner] = e] /\ tasks' = tasks \ {e}
    BY <1>3 DEF Pop
  <2>2. e \in Entry /\ e.planned <= now
    <3>1. e \in tasks
      BY DEF Top
    <3>2. PICK f \in tasks : f.planned <= now
      BY <1>3 DEF Pop, IInv, DueInv
    <3>3. e.planned <= f.planned
      BY <3>2 DEF Top
    <3>4. e.planned \in Nat /\ f.planned \in Nat /\ now \in Nat
      BY <3>1, <3>2 DEF IInv, EntryInv, AnyEntry
    <3> QED BY <1>0, <3>1, <3>2, <3>3, <3>4
  <2>3. /\ pc' = [pc EXCEPT ![Runner] = "callback"] /\ mutex' = Nobody
        /\ UNCHANGED <<now, unborn, inCall, waiting, released, runs>>
    BY <1>3 DEF Pop
  <2> QED BY <1>0, <2>1, <2>2, <2>3, TypeRunner
<1>4. CASE Callback
  <2>1. PICK e : e = held[Runner]
    OBVIOUS
  <2>2. /\ e \in Entry /\ e.task \in Task /\ e.planned <= now
        /\ e.first \in Nat /\ e.planned \in Nat /\ e.repeats \in BOOLEAN
    <3>1. e \in Entry /\ e.planned <= now
      BY <1>0, <1>4, <2>1 DEF Callback, TypeInv
    <3> QED BY <3>1, EntriesAre DEF AnyEntry
  <2>3. PICK repeats \in {FALSE, e.repeats} :
          /\ held' = [held EXCEPT ![Runner].repeats = repeats]
          /\ \E to \in {"release", "relock", "leave", "check"} :
                pc' = [pc EXCEPT ![Runner] = to]
    BY <1>4, <2>1 DEF Callback
  <2>4. PICK to \in {"release", "relock", "leave", "check"} : pc' = [pc EXCEPT ![Runner] = to]
    BY <2>3
  <2>5. PICK f : f = [e EXCEPT !.repeats = repeats]
    OBVIOUS
  <2>6. f \in Entry /\ f.planned = e.planned
    BY <2>2, <2>3, <2>5 DEF Entry
  <2>7. held' = [held EXCEPT ![Runner] = f]
    BY <2>1, <2>3, <2>5
  <2>8. runs[e.task] \in Nat /\ e.planned = e.first + Interval * runs[e.task]
    BY <1>4, <2>1, <2>2 DEF Callback, TaskInv, CountInv, RunnerInv, Scheduled, OnTime
  <2>9. runs[e.task] + 1 \in 0 .. MaxNow + 1
    <3>1. PICK r \in Nat : r = runs[e.task]
      BY <2>8
    <3>2. Interval * r >= r /\ Interval * r \in Nat
      BY IntervalsPass, SchedulerAssumption
    <3>3. r <= now
      BY <1>0, <2>2, <2>8, <3>1, <3>2, SchedulerAssumption
    <3> QED BY <1>0, <3>1, <3>3, SchedulerAssumption
  <2>10. runs' = [runs EXCEPT ![e.task] = runs[e.task] + 1]
    BY <1>4, <2>1 DEF Callback
  <2>11. runs' \in [Task -> 0 .. MaxNow + 1]
    BY <1>0, <2>9, <2>10
  <2>12. UNCHANGED <<now, unborn, inCall, tasks, mutex, waiting, released>>
    BY <1>4 DEF Callback
  <2> QED BY <1>0, <2>2, <2>4, <2>6, <2>7, <2>11, <2>12, TypeRunner
<1>5. CASE Release
  <2>1. PICK to \in {"leave", "check"} : pc' = [pc EXCEPT ![Runner] = to]
    BY <1>5 DEF Release
  <2>2. held[Runner].task \in Task
    BY <1>0, <1>5 DEF Release, Entry
  <2>3. /\ released' \subseteq Task
        /\ UNCHANGED <<now, unborn, inCall, tasks, mutex, waiting, held, runs>>
    BY <1>0, <1>5, <2>2 DEF Release
  <2>4. held' = [held EXCEPT ![Runner] = held[Runner]]
    BY <1>0, <2>3
  <2> QED BY <1>0, <2>1, <2>3, <2>4, TypeRunner
<1>6. CASE Repush
  <2>1. PICK to \in {"leave", "check"} : pc' = [pc EXCEPT ![Runner] = to]
    BY <1>6 DEF Repush
  <2>2. PICK e : e = held[Runner]
    OBVIOUS
  <2>3. e \in Entry /\ e.planned <= now
    BY <1>0, <1>6, <2>2 DEF Repush, TypeInv
  <2>4. Replan(e) \in Entry
    <3>1. e.planned + Interval \in 0 .. MaxNow + Interval
      BY <1>0, <2>3, SchedulerAssumption DEF Entry
    <3> QED BY <2>3, <3>1 DEF Replan, Entry
  <2>5. /\ tasks' = tasks \cup {Replan(e)} /\ mutex' = Nobody
        /\ UNCHANGED <<now, unborn, inCall, waiting, held, released, runs>>
    BY <1>6, <2>2 DEF Repush
  <2>6. held' = [held EXCEPT ![Runner] = held[Runner]] /\ tasks' \subseteq Entry
    BY <1>0, <2>4, <2>5
  <2> QED BY <1>0, <2>1, <2>5, <2>6, TypeRunner
<1> QED BY <1>1, <1>2, <1>3, <1>4, <1>5, <1>6 DEF Update

\* The scheduler keeps its types; in particular no task is planned later than one interval
\* ahead, and none is run more often than the time that has passed has room for.
THEOREM TypeCorrect == Spec => []TypeOK
<1>1. IInv /\ TaskInv /\ TypeInv /\ [Next]_vars => TypeInv'
  <2> SUFFICES ASSUME IInv, TaskInv, TypeInv, [Next]_vars PROVE TypeInv'
    OBVIOUS
  <2>1. CASE UNCHANGED vars
    BY <2>1 DEF vars, TypeInv, TypeOK
  <2>2. CASE Tick
    <3>1. now' = now + 1 /\ now \in 0 .. MaxNow /\ now < MaxNow
      BY <2>2 DEF Tick, TypeInv, TypeOK
    <3>2. now' \in 0 .. MaxNow
      BY <3>1, SchedulerAssumption
    <3>3. TypeOK'
      BY <2>2, <3>2 DEF Tick, TypeInv, TypeOK
    <3>4. pc[Runner] \in {"callback", "relock", "repush"} => held[Runner].planned \in Nat
      BY Threads DEF IInv, EntryInv, AnyEntry
    <3> QED BY <2>2, <3>1, <3>3, <3>4 DEF Tick, TypeInv
  <2>3. CASE \E c \in Client : (\E e \in Entry : Begin(c, e)) \/ ClientStep(c)
    BY <2>3, TypeClient
  <2>4. CASE Update
    BY <2>4, TypeUpdate
  <2> QED BY <2>1, <2>2, <2>3, <2>4 DEF Next
<1>2. TypeInv => TypeOK
    BY DEF TypeInv
<1> QED BY <1>1, <1>2, InitTypeInv, IInvCorrect, TaskInvCorrect, PTL DEF Spec

================================================================================
