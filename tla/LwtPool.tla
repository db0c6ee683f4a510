-------------------------------- MODULE LwtPool --------------------------------
(***************************************************************************)
(* The thread pool of Lwt_unix, on which every call of the file-backed     *)
(* disk runs (vendored: lwt/src/unix/lwt_unix_stubs.c, and run_job_aux and *)
(* call_notification of lwt_unix.cppo.ml).                                 *)
(*                                                                         *)
(* The main thread runs all OCaml code.  It hands a job to the pool, looks *)
(* once whether the job is done already, and otherwise is woken by a       *)
(* notification: a number in a buffer, and an event on a descriptor if the *)
(* buffer was empty.  The result of a job is read, and the job freed, by   *)
(* the main thread.  Each action is the code of one thread between two     *)
(* points where another thread can matter to it: a section under a mutex   *)
(* is one action unless it is left in between or another thread reads its  *)
(* variables without the mutex.                                            *)
(***************************************************************************)
EXTENDS Naturals, Sequences, FiniteSets

CONSTANTS
    Jobs,        \* the jobs that the program creates, each run once
    Workers,     \* the threads that the system could start
    pool_size,   \* how many of them the pool may have
    MaxWaiting   \* bound: no spurious wakeup when the counter has this value

ASSUME PoolAssumption == pool_size \in Nat /\ MaxWaiting \in Nat

VARIABLES
    state,       \* of each job; "NEW" before it is created
    fast,        \* whether the main thread has not asked for a notification
    locked,      \* the jobs whose mutex a worker holds
    freed,       \* the jobs whose memory was given back
    called,      \* history: how often the function of a job was called
    promise,     \* what the caller of run_job has: "none", a promise whose
                 \* job will be looked at ("paused") or notified ("asleep"),
                 \* or one that is "resolved" or "rejected"
    pool_queue,  \* the queued jobs, first one first
    thread_waiting_count,
    worker,      \* where each thread is, and its job
    main,        \* where the main thread is, and its job
    notifications, \* the buffer, as a sequence of jobs
    signalled,   \* the descriptor is readable
    delivered    \* the notifications that the main thread has yet to call

jobvars == <<state, fast, locked, freed, called, promise>>
notevars == <<notifications, signalled, delivered>>
poolvars == <<jobvars, notevars, pool_queue, thread_waiting_count, worker, main>>

NoJob == "none"
At(place, j) == [at |-> place, job |-> j]
Loop == At("loop", NoJob)    \* the main thread is between two pieces of OCaml code

PoolInit ==
    /\ state = [j \in Jobs |-> "NEW"]
    /\ fast = [j \in Jobs |-> TRUE]
    /\ locked = {}
    /\ freed = {}
    /\ called = [j \in Jobs |-> 0]
    /\ promise = [j \in Jobs |-> "none"]
    /\ pool_queue = <<>>
    /\ thread_waiting_count = 0
    /\ worker = [w \in Workers |-> At("unborn", NoJob)]
    /\ main = Loop
    /\ notifications = <<>>
    /\ signalled = FALSE
    /\ delivered = <<>>

Threads == {w \in Workers : worker[w].at # "unborn"}
Waiting == {w \in Workers : worker[w].at = "wait"}
thread_count == Cardinality(Threads)

(* Threads that were not started do not differ.                             *)
NewThread == CHOOSE w \in Workers : w \notin Threads

Goes(w, place) == worker' = [worker EXCEPT ![w].at = place]

-------------------------------------------------------------------------------
(* The main thread: lwt_unix_start_job.                                    *)

(* Mutant: the bound of the pool is off by one.                             *)
NoWorkerToHaveByOne == thread_waiting_count = 0 /\ thread_count > pool_size

(* No worker waits and no more can be launched: the job runs right here.    *)
(* The check is made without the mutex, but only the main thread makes the  *)
(* counter smaller: a worker that begins to wait right after the check is a *)
(* worker that begins to wait after the whole step.                         *)
NoWorkerToHave == thread_waiting_count = 0 /\ thread_count >= pool_size

(* One waiting worker, if there is any, goes on.                            *)
condition_signal ==
    IF Waiting = {} THEN UNCHANGED worker ELSE \E w \in Waiting : Goes(w, "enter")

Created(j) ==
    /\ main = Loop /\ state[j] = "NEW" /\ promise[j] = "none"
    /\ state' = [state EXCEPT ![j] = "PENDING"]
    /\ fast' = [fast EXCEPT ![j] = TRUE]
    /\ UNCHANGED <<locked, freed, called, notevars>>

RunHere(j) ==
    /\ Created(j)
    /\ NoWorkerToHave
    /\ main' = At("sync", j)
    /\ UNCHANGED <<promise, pool_queue, thread_waiting_count, worker>>

Launch(j) ==
    /\ Created(j)
    /\ ~NoWorkerToHave /\ thread_waiting_count = 0
    /\ Workers # Threads
    /\ worker' = [worker EXCEPT ![NewThread] = At("execute", j)]
    /\ main' = At("started", j)
    /\ UNCHANGED <<promise, pool_queue, thread_waiting_count>>

(* The system refuses a thread: start_job raises, and run_job with it.      *)
LaunchFails(j) ==
    /\ Created(j)
    /\ ~NoWorkerToHave /\ thread_waiting_count = 0
    /\ promise' = [promise EXCEPT ![j] = "rejected"]
    /\ UNCHANGED <<main, pool_queue, thread_waiting_count, worker>>

(* Mutant: no worker is woken for the job.                                  *)
EnqueueUnsignalled(j) ==
    /\ Created(j)
    /\ thread_waiting_count > 0
    /\ pool_queue' = Append(pool_queue, j)
    /\ thread_waiting_count' = thread_waiting_count - 1
    /\ main' = At("started", j)
    /\ UNCHANGED <<promise, worker>>

Enqueue(j) ==
    /\ Created(j)
    /\ thread_waiting_count > 0
    /\ pool_queue' = Append(pool_queue, j)
    /\ thread_waiting_count' = thread_waiting_count - 1
    /\ condition_signal
    /\ main' = At("started", j)
    /\ UNCHANGED promise

(* The state is read without the mutex of the job: a worker may just have   *)
(* written it, and the read may see the old value.  If it is DONE, the main *)
(* thread waits for the worker to leave the mutex.                          *)
ReadState ==
    /\ main.at = "started"
    /\ \/ /\ state[main.job] = "DONE"
          /\ main' = At("joining", main.job)
          /\ UNCHANGED promise
       \/ /\ main' = Loop
          /\ promise' = [promise EXCEPT ![main.job] = "paused"]
    /\ UNCHANGED <<state, fast, locked, freed, called, notevars, pool_queue,
                   thread_waiting_count, worker>>

(* result job: the result is read and the memory of the job given back.     *)
Answer(j) ==
    /\ promise' = [promise EXCEPT ![j] = "resolved"]
    /\ freed' = freed \cup {j}

(* Mutant: the job is freed without waiting for its mutex.                  *)
JoinAtOnce ==
    /\ main.at = "joining"
    /\ Answer(main.job)
    /\ main' = Loop
    /\ UNCHANGED <<state, fast, locked, called, notevars, pool_queue,
                   thread_waiting_count, worker>>

Join ==
    /\ main.at = "joining" /\ main.job \notin locked
    /\ Answer(main.job)
    /\ main' = Loop
    /\ UNCHANGED <<state, fast, locked, called, notevars, pool_queue,
                   thread_waiting_count, worker>>

RunSync ==
    /\ main.at = "sync"
    /\ called' = [called EXCEPT ![main.job] = @ + 1]
    /\ Answer(main.job)
    /\ main' = Loop
    /\ UNCHANGED <<state, fast, locked, notevars, pool_queue, thread_waiting_count, worker>>

(* The pause of run_job_aux is over: lwt_unix_check_job.                    *)
CheckJob(j) ==
    /\ main = Loop /\ promise[j] = "paused" /\ j \notin locked
    /\ fast' = [fast EXCEPT ![j] = FALSE]
    /\ \/ /\ state[j] = "DONE"
          /\ Answer(j)
       \/ /\ state[j] # "DONE"
          /\ promise' = [promise EXCEPT ![j] = "asleep"]
          /\ UNCHANGED freed
    /\ UNCHANGED <<state, locked, called, notevars, pool_queue, thread_waiting_count,
                   worker, main>>

-------------------------------------------------------------------------------
(* The main thread: lwt_unix_recv_notifications and handle_notifications.  *)

(* The event is taken from the descriptor; the mutex of the buffer is then  *)
(* left to allocate a tuple for as many numbers as the buffer holds.        *)
RecvEvent ==
    /\ main = Loop /\ signalled /\ delivered = <<>>
    /\ signalled' = FALSE
    /\ main' = At("alloc", Len(notifications))
    /\ UNCHANGED <<jobvars, notifications, delivered, pool_queue, thread_waiting_count, worker>>

(* The buffer has grown: another tuple.                                     *)
RecvAgain ==
    /\ main.at = "alloc" /\ main.job # Len(notifications)
    /\ main' = At("alloc", Len(notifications))
    /\ UNCHANGED <<jobvars, notevars, pool_queue, thread_waiting_count, worker>>

(* Mutant: what was added during the allocation is not noticed.             *)
RecvFirst ==
    /\ main.at = "alloc"
    /\ delivered' = SubSeq(notifications, 1, main.job)
    /\ notifications' = <<>>
    /\ main' = Loop
    /\ UNCHANGED <<jobvars, signalled, pool_queue, thread_waiting_count, worker>>

RecvAll ==
    /\ main.at = "alloc" /\ main.job = Len(notifications)
    /\ delivered' = notifications
    /\ notifications' = <<>>
    /\ main' = Loop
    /\ UNCHANGED <<jobvars, signalled, pool_queue, thread_waiting_count, worker>>

(* call_notification: the notifier of a job is there until it is called.    *)
CallNotification ==
    LET j == Head(delivered)
    IN  /\ main = Loop /\ delivered # <<>>
        /\ delivered' = Tail(delivered)
        /\ IF promise[j] \in {"paused", "asleep"} THEN Answer(j)
           ELSE UNCHANGED <<promise, freed>>
        /\ UNCHANGED <<state, fast, locked, called, notifications, signalled, pool_queue,
                       thread_waiting_count, worker, main>>

-------------------------------------------------------------------------------
(* A worker: worker_loop.                                                   *)

NextJob(w) ==
    /\ worker[w].at = "enter"
    /\ pool_queue # <<>>
    /\ worker' = [worker EXCEPT ![w] = At("execute", Head(pool_queue))]
    /\ pool_queue' = Tail(pool_queue)
    /\ UNCHANGED <<jobvars, notevars, thread_waiting_count, main>>

Wait(w) ==
    /\ worker[w].at = "enter"
    /\ pool_queue = <<>>
    /\ thread_waiting_count' = thread_waiting_count + 1
    /\ worker' = [worker EXCEPT ![w] = At("wait", NoJob)]
    /\ UNCHANGED <<jobvars, notevars, pool_queue, main>>

(* condition_wait may return without a signal.  The worker then counts      *)
(* itself a second time when it waits again.                                *)
SpuriousWakeup(w) ==
    /\ worker[w].at = "wait" /\ thread_waiting_count < MaxWaiting
    /\ Goes(w, "enter")
    /\ UNCHANGED <<jobvars, notevars, pool_queue, thread_waiting_count, main>>

(* execute_job.                                                             *)
Execute(w) ==
    /\ worker[w].at = "execute"
    /\ state' = [state EXCEPT ![worker[w].job] = "RUNNING"]
    /\ Goes(w, "run")
    /\ UNCHANGED <<fast, locked, freed, called, promise, notevars, pool_queue,
                   thread_waiting_count, main>>

Run(w) ==
    /\ worker[w].at = "run"
    /\ called' = [called EXCEPT ![worker[w].job] = @ + 1]
    /\ Goes(w, "finish")
    /\ UNCHANGED <<state, fast, locked, freed, promise, notevars, pool_queue,
                   thread_waiting_count, main>>

(* Under the mutex of the job: DONE is written, and then fast is read.      *)
Finish(w) ==
    /\ worker[w].at = "finish"
    /\ state' = [state EXCEPT ![worker[w].job] = "DONE"]
    /\ locked' = locked \cup {worker[w].job}
    /\ Goes(w, "test")
    /\ UNCHANGED <<fast, freed, called, promise, notevars, pool_queue,
                   thread_waiting_count, main>>

TestFast(w) ==
    /\ worker[w].at = "test"
    /\ locked' = locked \ {worker[w].job}
    /\ Goes(w, IF fast[worker[w].job] THEN "enter" ELSE "notify")
    /\ UNCHANGED <<state, fast, freed, called, promise, notevars, pool_queue,
                   thread_waiting_count, main>>

(* lwt_unix_send_notification, under the mutex of the buffer: the main      *)
(* thread is signalled if the buffer was empty.                             *)
Notify(w) ==
    /\ worker[w].at = "notify"
    /\ notifications' = Append(notifications, worker[w].job)
    /\ signalled' = (signalled \/ notifications = <<>>)
    /\ Goes(w, "enter")
    /\ UNCHANGED <<jobvars, delivered, pool_queue, thread_waiting_count, main>>

-------------------------------------------------------------------------------
StartJob(j) == RunHere(j) \/ Launch(j) \/ LaunchFails(j) \/ Enqueue(j)

MainStep ==
    \/ ReadState \/ Join \/ RunSync
    \/ RecvEvent \/ RecvAgain \/ RecvAll \/ CallNotification

WorkerStep(w) ==
    \/ NextJob(w) \/ Wait(w)
    \/ Execute(w) \/ Run(w) \/ Finish(w) \/ TestFast(w) \/ Notify(w)

PoolNext ==
    \/ \E j \in Jobs : StartJob(j) \/ CheckJob(j)
    \/ MainStep
    \/ \E w \in Workers : WorkerStep(w) \/ SpuriousWakeup(w)

(* The system runs every thread, jobs end, and the loop of Lwt_main reaches *)
(* every paused promise and every readable descriptor.                      *)
PoolFairness ==
    /\ WF_poolvars(MainStep)
    /\ \A j \in Jobs : WF_poolvars(CheckJob(j))
    /\ \A w \in Workers : WF_poolvars(WorkerStep(w))

PoolSpec == PoolInit /\ [][PoolNext]_poolvars /\ PoolFairness

-------------------------------------------------------------------------------
(* Properties.                                                              *)

(* What the caller of run_job sees of a job.                                *)
Phase(j) ==
    CASE promise[j] = "rejected" /\ called[j] = 0 -> "refused"
      [] promise[j] = "resolved" /\ called[j] = 1 -> "answered"
      [] promise[j] \notin {"resolved", "rejected"} /\ called[j] = 1 -> "ran"
      [] promise[j] = "none" /\ called[j] = 0 /\ state[j] = "NEW" -> "new"
      [] promise[j] \notin {"resolved", "rejected"} /\ called[j] = 0 /\ state[j] # "NEW" -> "asked"
      [] OTHER -> "broken"

phases == [j \in Jobs |-> Phase(j)]

Service == INSTANCE JobService WITH phase <- phases

(* run_job: the function of a job is called once, in some thread, the       *)
(* promise is resolved only afterwards, and it is resolved in the end       *)
(* (no job and no notification is lost, whatever the threads do).           *)
ImplementsJobService == Service!Spec

(* A job in the hands of a worker, and a queued one, is not freed: the main *)
(* thread frees a job while a worker runs only if that worker is done with  *)
(* it, although each looks at the other's variables just once.              *)
NoUseAfterFree ==
    /\ \A w \in Workers :
          worker[w].at \in {"execute", "run", "finish", "test", "notify"}
             => worker[w].job \notin freed
    /\ \A i \in DOMAIN pool_queue : pool_queue[i] \notin freed

(* The pool stays within its size ("Maximum number of system threads that   *)
(* can be started", lwt_unix_stubs.c:957), although the check is made before *)
(* the mutex is taken.                                                      *)
PoolBounded == thread_count <= pool_size

(* A queued job is never left with every worker waiting, although a wakeup  *)
(* may be taken by a worker that was not waiting, and the counter be too    *)
(* high after a spurious one.                                               *)
QueueServed == pool_queue # <<>> => Threads \ Waiting # {}
===============================================================================
