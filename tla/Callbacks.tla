------------------------------ MODULE Callbacks ------------------------------
(***************************************************************************)
(* SingleThreadedSchedulerClient on top of CScheduler (src/scheduler.cpp): *)
(* a queue of callbacks that any number of scheduler threads work off, one *)
(* at a time.  A step is one critical section of newTaskMutex or of        *)
(* m_cs_callbacks_pending, or a whole callback, which has no lock.         *)
(*                                                                         *)
(* All tasks of the scheduler are ProcessQueue and are due when scheduled; *)
(* the end of a callback (pc "callback" to "ran") is left to its body.     *)
(***************************************************************************)
EXTENDS Naturals, Sequences

CONSTANTS
  Threads,    \* threads in CScheduler::serviceQueue
  Clients,    \* threads that add callbacks
  Callback,   \* callbacks
  NONE

VARIABLES
  pending,    \* m_callbacks_pending
  running,    \* m_are_callbacks_running
  tasks,      \* number of entries of taskQueue
  pc,         \* where a thread is
  current     \* the callback a scheduler thread has taken

callbackVars == <<pending, running, tasks, pc, current>>

PC == {"idle", "loop", "waiting", "process", "callback", "ran", "check",
       "schedule", "notify"}

\* where a thread goes when it is done
Home(p) == IF p \in Threads THEN "loop" ELSE "idle"

CallbacksInit ==
  /\ pending = <<>> /\ running = FALSE /\ tasks = 0
  /\ pc = [p \in Threads \cup Clients |-> Home(p)]
  /\ current = [t \in Threads |-> NONE]

Goto(p, l) == pc' = [pc EXCEPT ![p] = l]

\* AddToProcessQueue, up to its call of MaybeScheduleProcessQueue
AddToProcessQueue(p, c) ==
  /\ pc[p] = "idle"
  /\ pending' = Append(pending, c)
  /\ Goto(p, "check")
  /\ UNCHANGED <<running, tasks, current>>

\* MaybeScheduleProcessQueue, its critical section
MaybeScheduleProcessQueue(p) ==
  /\ pc[p] = "check"
  /\ Goto(p, IF running \/ pending = <<>> THEN Home(p) ELSE "schedule")
  /\ UNCHANGED <<pending, running, tasks, current>>

\* CScheduler::schedule, its critical section
Schedule(p) ==
  /\ pc[p] = "schedule"
  /\ tasks' = tasks + 1
  /\ Goto(p, "notify")
  /\ UNCHANGED <<pending, running, current>>

\* schedule, newTaskScheduled.notify_one: it ends the wait of one thread, or the
\* wait_until of a thread that found a task and is on its way to take it
Notify(p) ==
  /\ pc[p] = "notify"
  /\ \/ /\ \A t \in Threads : pc[t] # "waiting"
        /\ Goto(p, Home(p))
     \/ /\ tasks > 0 /\ \E t \in Threads : pc[t] = "loop"
        /\ Goto(p, Home(p))
     \/ \E t \in Threads : /\ pc[t] = "waiting"
                           /\ pc' = [pc EXCEPT ![p] = Home(p), ![t] = "loop"]
  /\ UNCHANGED <<pending, running, tasks, current>>

\* serviceQueue: newTaskScheduled.wait
Wait(t) ==
  /\ pc[t] = "loop" /\ tasks = 0
  /\ Goto(t, "waiting")
  /\ UNCHANGED <<pending, running, tasks, current>>

\* a condition variable may wake without a notification
SpuriousWakeup(t) ==
  /\ pc[t] = "waiting"
  /\ Goto(t, "loop")
  /\ UNCHANGED <<pending, running, tasks, current>>

\* serviceQueue: a task is taken off the queue
Take(t) ==
  /\ pc[t] = "loop" /\ tasks > 0
  /\ tasks' = tasks - 1
  /\ Goto(t, "process")
  /\ UNCHANGED <<pending, running, current>>

\* ProcessQueue, its critical section
ProcessQueue(t) ==
  /\ pc[t] = "process"
  /\ IF running \/ pending = <<>>
     THEN Goto(t, "loop") /\ UNCHANGED <<pending, running, current>>
     ELSE /\ running' = TRUE
          /\ current' = [current EXCEPT ![t] = Head(pending)]
          /\ pending' = Tail(pending)
          /\ Goto(t, "callback")
  /\ UNCHANGED tasks

\* the callback returns
Return(t) ==
  /\ pc[t] = "callback"
  /\ Goto(t, "ran")
  /\ UNCHANGED <<pending, running, tasks, current>>

\* ~RAIICallbacksRunning, up to its call of MaybeScheduleProcessQueue
CallbacksRan(t) ==
  /\ pc[t] = "ran"
  /\ running' = FALSE
  /\ current' = [current EXCEPT ![t] = NONE]
  /\ Goto(t, "check")
  /\ UNCHANGED <<pending, tasks>>

\* the steps that are not an addition and not a callback
Service(p) ==
  \/ MaybeScheduleProcessQueue(p) \/ Schedule(p) \/ Notify(p)
  \/ p \in Threads /\ (Wait(p) \/ Take(p) \/ ProcessQueue(p) \/ CallbacksRan(p))

CallbacksNext ==
  \/ \E p \in Threads \cup Clients : Service(p)
  \/ \E p \in Clients, c \in Callback : AddToProcessQueue(p, c)
  \/ \E t \in Threads : Return(t) \/ SpuriousWakeup(t)

CallbacksSpec == CallbacksInit /\ [][CallbacksNext]_callbackVars

-----------------------------------------------------------------------------

\* the variables keep their types
CallbacksTypeOK ==
  /\ pending \in Seq(Callback) /\ running \in BOOLEAN /\ tasks \in Nat
  /\ pc \in [Threads \cup Clients -> PC]
  /\ current \in [Threads -> Callback \cup {NONE}]

\* the threads that run a callback, and the callbacks they run
Callers == {t \in Threads : pc[t] \in {"callback", "ran"}}
InCallback == {current[t] : t \in Callers}

Serial == INSTANCE SerialQueue
            WITH queue <- pending, busy <- InCallback, Callbacks <- Callback

\* MainSignalsInstance, "must ensure all callbacks happen in-order": they run one
\* at a time and in the order of their addition, with any number of scheduler
\* threads
CallbacksSerial == Serial!Spec

\* MaybeScheduleProcessQueue, ~RAIICallbacksRunning: a callback that waits is
\* never forgotten, although a ProcessQueue that finds another one running goes
\* away and an addition then schedules nothing
NeverForgotten ==
  pending # <<>> =>
    \/ running \/ tasks > 0
    \/ \E p \in Threads \cup Clients : pc[p] \in {"process", "check", "schedule"}

\* CScheduler: a task that is due is not left while all threads sleep and nobody
\* is about to notify one of them, whoever a notification has reached
NeverOverslept ==
  tasks > 0 => \/ \E t \in Threads : pc[t] # "waiting"
               \/ \E p \in Threads \cup Clients : pc[p] = "notify"

=============================================================================
