----------------------------- MODULE DeviceProofs -----------------------------
(***************************************************************************)
(* Proofs about what is under the kernel.  The thread pool (LwtPool), for  *)
(* any jobs, any threads that the system could start, and any size of the  *)
(* pool.  The disk (FileDisk), for any file and calls, one at a time.  A   *)
(* packet (Packet) of any content and length, which arrives as it was sent *)
(* or not at all, and of which one wrong byte is noticed.  The unikernel   *)
(* (MirageNet), which takes every datagram for its port out of its frame,  *)
(* for any payloads and any mtu, and whose own frames the host takes, the  *)
(* header checksum included.                                               *)
(***************************************************************************)
EXTENDS LwtPool, FileDisk, Packet, MirageNet, FiniteSetTheorems, SequenceTheorems,
        WellFoundedInduction, TLAPS

-------------------------------------------------------------------------------
(* The pool: where its threads are.                                        *)

Busy == {"execute", "run", "finish", "test", "notify"}
WorkerPlaces == Busy \cup {"unborn", "enter", "wait"}
WorkerState == [at : WorkerPlaces, job : Jobs \cup {NoJob}]
OwnsJob == {"started", "joining", "sync"}

WorkersTyped(f) ==
    /\ f \in [Workers -> WorkerState]
    /\ \A w \in Workers : f[w].at \in Busy => f[w].job \in Jobs

PoolTypeOK ==
    /\ state \in [Jobs -> {"NEW", "PENDING", "RUNNING", "DONE"}]
    /\ fast \in [Jobs -> BOOLEAN]
    /\ locked \subseteq Jobs /\ freed \subseteq Jobs
    /\ promise \in [Jobs -> {"none", "paused", "asleep", "resolved", "rejected"}]
    /\ pool_queue \in Seq(Jobs) /\ notifications \in Seq(Jobs) /\ delivered \in Seq(Jobs)
    /\ thread_waiting_count \in Nat
    /\ WorkersTyped(worker)
    /\ main \in [at : OwnsJob \cup {"loop", "alloc"}, job : Jobs \cup {NoJob} \cup Nat]
    /\ main.at \in OwnsJob => main.job \in Jobs

-------------------------------------------------------------------------------
(* Sequences without a repeated element.                                    *)

InSeq(s, x) == \E i \in 1 .. Len(s) : s[i] = x
Distinct(s) == \A i, k \in 1 .. Len(s) : s[i] = s[k] => i = k

LEMMA Appended ==
    ASSUME NEW s \in Seq(Jobs), NEW x \in Jobs
    PROVE  /\ Append(s, x) \in Seq(Jobs)
           /\ \A y : InSeq(Append(s, x), y) <=> InSeq(s, y) \/ y = x
           /\ Distinct(s) /\ ~InSeq(s, x) => Distinct(Append(s, x))
<1>1. /\ Append(s, x) \in Seq(Jobs) /\ Len(Append(s, x)) = Len(s) + 1 /\ Len(s) \in Nat
      /\ Append(s, x)[Len(s) + 1] = x
      /\ \A i \in 1 .. Len(s) : Append(s, x)[i] = s[i]
  OBVIOUS
<1>2. \A y : InSeq(Append(s, x), y) <=> InSeq(s, y) \/ y = x
  <2> TAKE y
  <2>1. \A i \in 1 .. (Len(s) + 1) : i \in 1 .. Len(s) \/ i = Len(s) + 1 BY <1>1
  <2>2. 1 .. Len(s) \subseteq 1 .. (Len(s) + 1) /\ Len(s) + 1 \in 1 .. (Len(s) + 1) BY <1>1
  <2> QED BY <1>1, <2>1, <2>2 DEF InSeq
<1>3. Distinct(s) /\ ~InSeq(s, x) => Distinct(Append(s, x))
  <2>1. \A i \in 1 .. (Len(s) + 1) : i \in 1 .. Len(s) \/ i = Len(s) + 1 BY <1>1
  <2> QED BY <1>1, <2>1 DEF InSeq, Distinct
<1> QED BY <1>1, <1>2, <1>3

LEMMA TailOf ==
    ASSUME NEW s \in Seq(Jobs), s # <<>>
    PROVE  /\ Head(s) \in Jobs /\ Tail(s) \in Seq(Jobs)
           /\ InSeq(s, Head(s))
           /\ \A y : InSeq(Tail(s), y) => InSeq(s, y)
           /\ Distinct(s) => Distinct(Tail(s)) /\ ~InSeq(Tail(s), Head(s))
<1>1. /\ Head(s) \in Jobs /\ Tail(s) \in Seq(Jobs) /\ Len(s) \in Nat /\ Len(s) >= 1
      /\ Head(s) = s[1] /\ Len(Tail(s)) = Len(s) - 1
      /\ \A i \in 1 .. Len(Tail(s)) : Tail(s)[i] = s[i + 1]
  OBVIOUS
<1>2. \A i \in 1 .. Len(Tail(s)) : i + 1 \in 1 .. Len(s) /\ i + 1 # 1 BY <1>1
<1>3. 1 \in 1 .. Len(s) BY <1>1
<1>4. InSeq(s, Head(s)) BY <1>1, <1>3 DEF InSeq
<1>5. \A y : InSeq(Tail(s), y) => InSeq(s, y) BY <1>1, <1>2 DEF InSeq
<1>6. Distinct(s) => ~InSeq(Tail(s), Head(s)) BY <1>1, <1>2, <1>3 DEF InSeq, Distinct
<1>7. ASSUME Distinct(s) PROVE Distinct(Tail(s))
  <2> SUFFICES ASSUME NEW i \in 1 .. Len(Tail(s)), NEW k \in 1 .. Len(Tail(s)),
                      Tail(s)[i] = Tail(s)[k]
               PROVE  i = k
    BY DEF Distinct
  <2>1. i + 1 = k + 1 BY <1>1, <1>2, <1>7 DEF Distinct
  <2> QED BY <1>1, <2>1
<1> QED BY <1>1, <1>4, <1>5, <1>6, <1>7

-------------------------------------------------------------------------------
(* Types.                                                                  *)

(* A worker that moves: its own place is the new one, nothing else differs. *)
LEMMA Moved ==
    ASSUME WorkersTyped(worker), NEW w \in Workers, NEW place \in WorkerPlaces,
           place \in Busy => worker[w].job \in Jobs, Goes(w, place)
    PROVE  /\ WorkersTyped(worker')
           /\ worker'[w].at = place /\ worker'[w].job = worker[w].job
           /\ \A v \in Workers : v # w => worker'[v] = worker[v]
<1>1. /\ worker'[w].at = place /\ worker'[w].job = worker[w].job
      /\ \A v \in Workers : v # w => worker'[v] = worker[v]
  BY DEF Goes, WorkersTyped, WorkerState
<1>2. worker' \in [Workers -> WorkerState]
  BY DEF Goes, WorkersTyped, WorkerState
<1>3. \A v \in Workers : worker'[v].at \in Busy => worker'[v].job \in Jobs
  BY <1>1 DEF WorkersTyped
<1> QED BY <1>1, <1>2, <1>3 DEF WorkersTyped

(* A worker that gets another place and another job.                       *)
LEMMA Placed ==
    ASSUME WorkersTyped(worker), NEW w \in Workers, NEW place \in WorkerPlaces,
           NEW j \in Jobs \cup {NoJob}, place \in Busy => j \in Jobs,
           worker' = [worker EXCEPT ![w] = At(place, j)]
    PROVE  /\ WorkersTyped(worker')
           /\ worker'[w].at = place /\ worker'[w].job = j
           /\ \A v \in Workers : v # w => worker'[v] = worker[v]
<1>1. At(place, j) \in WorkerState BY DEF At, WorkerState
<1>2. /\ worker'[w].at = place /\ worker'[w].job = j
      /\ \A v \in Workers : v # w => worker'[v] = worker[v]
  BY DEF WorkersTyped, At
<1>3. worker' \in [Workers -> WorkerState] BY <1>1 DEF WorkersTyped
<1>4. \A v \in Workers : worker'[v].at \in Busy => worker'[v].job \in Jobs
  BY <1>2 DEF WorkersTyped
<1> QED BY <1>2, <1>3, <1>4 DEF WorkersTyped

(* condition_signal moves one waiting worker, or nobody.                   *)
LEMMA Signalled ==
    ASSUME WorkersTyped(worker), condition_signal
    PROVE  /\ WorkersTyped(worker')
           /\ \A v \in Workers :
                 \/ worker'[v] = worker[v]
                 \/ worker[v].at = "wait" /\ worker'[v].at = "enter"
<1>1. CASE Waiting = {} BY <1>1 DEF condition_signal
<1>2. CASE Waiting # {}
  <2>1. PICK w \in Waiting : Goes(w, "enter") BY <1>2 DEF condition_signal
  <2>2. w \in Workers /\ worker[w].at = "wait" BY DEF Waiting
  <2> QED BY <2>1, <2>2, Moved DEF WorkerPlaces, Busy
<1> QED BY <1>1, <1>2

LEMMA PoolTypeInit == PoolInit => PoolTypeOK
  BY DEF PoolInit, PoolTypeOK, WorkersTyped, WorkerState, WorkerPlaces, OwnsJob, Busy, At, Loop, NoJob

LEMMA PoolTypeNext == PoolTypeOK /\ [PoolNext]_poolvars => PoolTypeOK'
<1> SUFFICES ASSUME PoolTypeOK, [PoolNext]_poolvars PROVE PoolTypeOK' OBVIOUS
<1> USE DEF PoolTypeOK
<1>1. ASSUME NEW j \in Jobs, RunHere(j) PROVE PoolTypeOK'
  BY <1>1 DEF RunHere, Created, At, OwnsJob, notevars
<1>2. ASSUME NEW j \in Jobs, Launch(j) PROVE PoolTypeOK'
  <2>1. NewThread \in Workers BY <1>2 DEF Launch, NewThread, Threads
  <2>2. WorkersTyped(worker')
    BY <1>2, <2>1, Placed DEF Launch, WorkerPlaces, Busy
  <2> QED BY <1>2, <2>2 DEF Launch, Created, At, OwnsJob, notevars
<1>3. ASSUME NEW j \in Jobs, LaunchFails(j) PROVE PoolTypeOK'
  BY <1>3 DEF LaunchFails, Created, notevars
<1>4. ASSUME NEW j \in Jobs, Enqueue(j) PROVE PoolTypeOK'
  <2>1. pool_queue' \in Seq(Jobs) BY <1>4, Appended DEF Enqueue
  <2>2. WorkersTyped(worker') BY <1>4, Signalled DEF Enqueue
  <2>3. thread_waiting_count' \in Nat BY <1>4 DEF Enqueue
  <2> QED BY <1>4, <2>1, <2>2, <2>3 DEF Enqueue, Created, At, OwnsJob, notevars
<1>5. ASSUME NEW j \in Jobs, CheckJob(j) PROVE PoolTypeOK'
  BY <1>5 DEF CheckJob, Answer, notevars
<1>6. CASE ReadState BY <1>6 DEF ReadState, At, Loop, OwnsJob, notevars
<1>7. CASE Join BY <1>7 DEF Join, Answer, At, Loop, OwnsJob, notevars
<1>8. CASE RunSync BY <1>8 DEF RunSync, Answer, At, Loop, OwnsJob, notevars
<1>9. CASE RecvEvent BY <1>9 DEF RecvEvent, At, OwnsJob, jobvars
<1>10. CASE RecvAgain BY <1>10 DEF RecvAgain, At, OwnsJob, jobvars, notevars
<1>11. CASE RecvAll BY <1>11 DEF RecvAll, At, Loop, OwnsJob, jobvars
<1>12. CASE CallNotification
  <2>1. Head(delivered) \in Jobs /\ delivered' \in Seq(Jobs)
    BY <1>12, TailOf DEF CallNotification
  <2>2. CASE promise[Head(delivered)] \in {"paused", "asleep"}
    <3>1. Answer(Head(delivered)) BY <1>12, <2>2 DEF CallNotification
    <3>2. freed' \subseteq Jobs BY <2>1, <3>1 DEF Answer
    <3>3. promise' \in [Jobs -> {"none", "paused", "asleep", "resolved", "rejected"}]
      BY <2>1, <3>1 DEF Answer
    <3> QED BY <1>12, <2>1, <3>2, <3>3 DEF CallNotification
  <2>3. CASE ~(promise[Head(delivered)] \in {"paused", "asleep"})
    <3>1. UNCHANGED <<promise, freed>> BY <1>12, <2>3 DEF CallNotification
    <3> QED BY <1>12, <2>1, <3>1 DEF CallNotification
  <2> QED BY <2>2, <2>3
<1>13. ASSUME NEW w \in Workers, NextJob(w) PROVE PoolTypeOK'
  <2>1. Head(pool_queue) \in Jobs /\ pool_queue' \in Seq(Jobs)
    BY <1>13, TailOf DEF NextJob
  <2>2. WorkersTyped(worker')
    BY <1>13, <2>1, Placed DEF NextJob, WorkerPlaces, Busy
  <2> QED BY <1>13, <2>1, <2>2 DEF NextJob, jobvars, notevars
<1>14. ASSUME NEW w \in Workers, Wait(w) PROVE PoolTypeOK'
  <2>1. WorkersTyped(worker') BY <1>14, Placed DEF Wait, WorkerPlaces, Busy
  <2> QED BY <1>14, <2>1 DEF Wait, jobvars, notevars
<1>15. ASSUME NEW w \in Workers, SpuriousWakeup(w) PROVE PoolTypeOK'
  <2>1. WorkersTyped(worker') BY <1>15, Moved DEF SpuriousWakeup, WorkerPlaces, Busy
  <2> QED BY <1>15, <2>1 DEF SpuriousWakeup, jobvars, notevars
<1>16. ASSUME NEW w \in Workers, Execute(w) PROVE PoolTypeOK'
  <2>1. worker[w].job \in Jobs BY <1>16 DEF Execute, WorkersTyped, Busy
  <2>2. WorkersTyped(worker') BY <1>16, <2>1, Moved DEF Execute, WorkerPlaces, Busy
  <2> QED BY <1>16, <2>1, <2>2 DEF Execute, notevars
<1>17. ASSUME NEW w \in Workers, Run(w) PROVE PoolTypeOK'
  <2>1. worker[w].job \in Jobs BY <1>17 DEF Run, WorkersTyped, Busy
  <2>2. WorkersTyped(worker') BY <1>17, <2>1, Moved DEF Run, WorkerPlaces, Busy
  <2> QED BY <1>17, <2>1, <2>2 DEF Run, notevars
<1>18. ASSUME NEW w \in Workers, Finish(w) PROVE PoolTypeOK'
  <2>1. worker[w].job \in Jobs BY <1>18 DEF Finish, WorkersTyped, Busy
  <2>2. WorkersTyped(worker') BY <1>18, <2>1, Moved DEF Finish, WorkerPlaces, Busy
  <2> QED BY <1>18, <2>1, <2>2 DEF Finish, notevars
<1>19. ASSUME NEW w \in Workers, TestFast(w) PROVE PoolTypeOK'
  <2>1. worker[w].job \in Jobs BY <1>19 DEF TestFast, WorkersTyped, Busy
  <2>2. WorkersTyped(worker') BY <1>19, <2>1, Moved DEF TestFast, WorkerPlaces, Busy
  <2> QED BY <1>19, <2>2 DEF TestFast, notevars
<1>20. ASSUME NEW w \in Workers, Notify(w) PROVE PoolTypeOK'
  <2>1. worker[w].job \in Jobs BY <1>20 DEF Notify, WorkersTyped, Busy
  <2>2. WorkersTyped(worker') BY <1>20, Moved DEF Notify, WorkerPlaces, Busy
  <2>3. notifications' \in Seq(Jobs) BY <1>20, <2>1, Appended DEF Notify
  <2> QED BY <1>20, <2>2, <2>3 DEF Notify, jobvars
<1>21. CASE UNCHANGED poolvars BY <1>21 DEF poolvars, jobvars, notevars
<1> QED BY <1>1, <1>2, <1>3, <1>4, <1>5, <1>6, <1>7, <1>8, <1>9, <1>10, <1>11, <1>12, <1>13,
           <1>14, <1>15, <1>16, <1>17, <1>18, <1>19, <1>20, <1>21
        DEF PoolNext, StartJob, MainStep, WorkerStep
-------------------------------------------------------------------------------
(* Threads: the size of the pool, and the queue.                           *)

PoolShape ==
    /\ IsFiniteSet(Threads)
    /\ PoolBounded
    /\ thread_waiting_count > 0 => Threads # {}
    /\ QueueServed

(* A step in which no thread is started and none begins to wait.           *)
LEMMA SameThreads ==
    ASSUME PoolShape,
           \A v \in Workers :
              \/ worker'[v].at = worker[v].at
              \/ /\ worker[v].at # "unborn"
                 /\ worker'[v].at \notin {"unborn", "wait"}
    PROVE  /\ Threads' = Threads
           /\ Waiting' \subseteq Waiting
           /\ IsFiniteSet(Threads)' /\ PoolBounded'
           /\ (Threads \ Waiting) \subseteq (Threads \ Waiting)'
<1>1. Threads' = Threads BY DEF Threads
<1>2. Waiting' \subseteq Waiting BY DEF Waiting
<1>3. IsFiniteSet(Threads)' /\ PoolBounded' BY <1>1 DEF PoolShape, PoolBounded, thread_count
<1> QED BY <1>1, <1>2, <1>3

LEMMA ShapeInit == PoolInit => PoolShape
<1> SUFFICES ASSUME PoolInit PROVE PoolShape OBVIOUS
<1>1. Threads = {} BY DEF PoolInit, Threads, At
<1>2. IsFiniteSet(Threads) /\ thread_count = 0 BY <1>1, FS_EmptySet DEF thread_count
<1>3. PoolBounded BY <1>2, PoolAssumption DEF PoolBounded
<1> QED BY <1>2, <1>3 DEF PoolShape, PoolInit, QueueServed

LEMMA ShapeNext == PoolTypeOK /\ PoolShape /\ [PoolNext]_poolvars => PoolShape'
<1> SUFFICES ASSUME PoolTypeOK, PoolShape, [PoolNext]_poolvars PROVE PoolShape' OBVIOUS
<1>w. WorkersTyped(worker) /\ thread_waiting_count \in Nat BY DEF PoolTypeOK
<1>1. ASSUME UNCHANGED <<worker, pool_queue, thread_waiting_count>> PROVE PoolShape'
  <2>1. \A v \in Workers : worker'[v].at = worker[v].at BY <1>1
  <2> QED BY <1>1, <2>1, SameThreads DEF PoolShape, QueueServed
<1>2. ASSUME NEW w \in Workers, NEW place \in WorkerPlaces \ {"unborn", "wait"},
             worker[w].at # "unborn", worker'[w].at = place,
             \A v \in Workers : v # w => worker'[v] = worker[v],
             UNCHANGED thread_waiting_count
      PROVE  PoolShape'
  <2>1. \A v \in Workers : \/ worker'[v].at = worker[v].at
                           \/ worker[v].at # "unborn" /\ worker'[v].at \notin {"unborn", "wait"}
    BY <1>2
  <2>2. w \in (Threads \ Waiting)' BY <1>2 DEF Threads, Waiting
  <2> QED BY <1>2, <2>1, <2>2, SameThreads DEF PoolShape, QueueServed
<1>3. ASSUME NEW j \in Jobs, Launch(j) PROVE PoolShape'
  <2>1. NewThread \in Workers /\ NewThread \notin Threads
    BY <1>3 DEF Launch, NewThread, Threads
  <2>2. /\ worker'[NewThread].at = "execute"
        /\ \A v \in Workers : v # NewThread => worker'[v] = worker[v]
    BY <1>w, <1>3, <2>1, Placed DEF Launch, WorkerPlaces, Busy
  <2>3. Threads' = Threads \cup {NewThread} BY <2>1, <2>2 DEF Threads
  <2>4. IsFiniteSet(Threads)' /\ thread_count' = thread_count + 1
    BY <2>1, <2>3, FS_AddElement DEF PoolShape, thread_count
  <2>5. thread_count \in Nat BY FS_CardinalityType DEF PoolShape, thread_count
  <2>6. ~(thread_count >= pool_size) BY <1>3 DEF Launch, NoWorkerToHave
  <2>7. PoolBounded' BY <2>4, <2>5, <2>6, PoolAssumption DEF PoolBounded
  <2>8. NewThread \in (Threads \ Waiting)' BY <2>1, <2>2 DEF Threads, Waiting
  <2> QED BY <2>3, <2>4, <2>7, <2>8 DEF PoolShape, QueueServed
<1>4. ASSUME NEW j \in Jobs, Enqueue(j) PROVE PoolShape'
  <2>1. condition_signal /\ thread_waiting_count > 0 BY <1>4 DEF Enqueue
  <2>2. \A v \in Workers : \/ worker'[v].at = worker[v].at
                           \/ worker[v].at # "unborn" /\ worker'[v].at \notin {"unborn", "wait"}
    BY <1>w, <2>1, Signalled
  <2>3. /\ Threads' = Threads /\ (Threads \ Waiting) \subseteq (Threads \ Waiting)'
        /\ IsFiniteSet(Threads)' /\ PoolBounded'
    BY <2>2, SameThreads
  <2>4. Threads # {} BY <2>1 DEF PoolShape
  <2>5. (Threads \ Waiting)' # {}
    <3>1. CASE Waiting = {} BY <2>3, <2>4, <3>1
    <3>2. CASE Waiting # {}
      <4>1. PICK w \in Waiting : Goes(w, "enter") BY <2>1, <3>2 DEF condition_signal
      <4>2. w \in Workers /\ worker[w].at = "wait" BY DEF Waiting
      <4>3. worker'[w].at = "enter" BY <1>w, <4>1, <4>2, Moved DEF WorkerPlaces, Busy
      <4> QED BY <4>2, <4>3 DEF Threads, Waiting
    <3> QED BY <3>1, <3>2
  <2> QED BY <2>3, <2>4, <2>5 DEF PoolShape, QueueServed
<1>5. ASSUME NEW w \in Workers, NextJob(w) PROVE PoolShape'
  <2>1. Head(pool_queue) \in Jobs BY <1>5, TailOf DEF NextJob, PoolTypeOK
  <2>2. /\ worker'[w].at = "execute"
        /\ \A v \in Workers : v # w => worker'[v] = worker[v]
    BY <1>w, <1>5, <2>1, Placed DEF NextJob, WorkerPlaces, Busy
  <2> QED BY <1>2, <1>5, <2>2 DEF NextJob, WorkerPlaces, Busy
<1>6. ASSUME NEW w \in Workers, Wait(w) PROVE PoolShape'
  <2>1. /\ worker'[w].at = "wait"
        /\ \A v \in Workers : v # w => worker'[v] = worker[v]
    BY <1>w, <1>6, Placed DEF Wait, WorkerPlaces, Busy
  <2>2. Threads' = Threads /\ w \in Threads BY <1>6, <2>1 DEF Wait, Threads
  <2>3. pool_queue' = <<>> BY <1>6 DEF Wait
  <2> QED BY <2>2, <2>3 DEF PoolShape, PoolBounded, QueueServed, thread_count
<1>7. ASSUME NEW w \in Workers, NEW place \in WorkerPlaces \ {"unborn", "wait"},
             Goes(w, place), worker[w].at # "unborn",
             place \in Busy => worker[w].job \in Jobs, UNCHANGED thread_waiting_count
      PROVE  PoolShape'
  <2>1. /\ worker'[w].at = place
        /\ \A v \in Workers : v # w => worker'[v] = worker[v]
    BY <1>w, <1>7, Moved
  <2> QED BY <1>2, <1>7, <2>1
<1>8. ASSUME NEW w \in Workers, worker[w].at \in Busy PROVE worker[w].job \in Jobs
  BY <1>w, <1>8 DEF WorkersTyped
<1>9. ASSUME NEW w \in Workers, SpuriousWakeup(w) PROVE PoolShape'
  BY <1>7, <1>9 DEF SpuriousWakeup, WorkerPlaces, Busy
<1>10. ASSUME NEW w \in Workers, Execute(w) PROVE PoolShape'
  BY <1>7, <1>8, <1>10 DEF Execute, WorkerPlaces, Busy
<1>11. ASSUME NEW w \in Workers, Run(w) PROVE PoolShape'
  BY <1>7, <1>8, <1>11 DEF Run, WorkerPlaces, Busy
<1>12. ASSUME NEW w \in Workers, Finish(w) PROVE PoolShape'
  BY <1>7, <1>8, <1>12 DEF Finish, WorkerPlaces, Busy
<1>13. ASSUME NEW w \in Workers, TestFast(w) PROVE PoolShape'
  BY <1>7, <1>8, <1>13 DEF TestFast, WorkerPlaces, Busy
<1>14. ASSUME NEW w \in Workers, Notify(w) PROVE PoolShape'
  BY <1>7, <1>8, <1>14 DEF Notify, WorkerPlaces, Busy
<1>15. ASSUME NEW j \in Jobs, RunHere(j) \/ LaunchFails(j) \/ CheckJob(j) PROVE PoolShape'
  BY <1>1, <1>15 DEF RunHere, LaunchFails, CheckJob
<1>16. CASE MainStep
  BY <1>1, <1>16 DEF MainStep, ReadState, Join, RunSync, RecvEvent, RecvAgain, RecvAll,
                     CallNotification
<1>17. CASE UNCHANGED poolvars BY <1>1, <1>17 DEF poolvars
<1> QED BY <1>3, <1>4, <1>5, <1>6, <1>9, <1>10, <1>11, <1>12, <1>13, <1>14, <1>15, <1>16,
           <1>17
        DEF PoolNext, StartJob, WorkerStep
-------------------------------------------------------------------------------
(* Jobs: who has a job in its hands, and what that says of its state.      *)

Held(j, w) == worker[w].at \in Busy /\ worker[w].job = j
Queued(j) == InSeq(pool_queue, j)
InHands(j) == Queued(j) \/ \E w \in Workers : Held(j, w)
Noted(j) == InSeq(notifications, j) \/ InSeq(delivered, j)

(* A job is in one pair of hands.                                           *)
InOnePlace ==
    /\ Distinct(pool_queue)
    /\ \A j \in Jobs : \A v, w \in Workers : Held(j, v) /\ Held(j, w) => v = w
    /\ \A j \in Jobs : \A w \in Workers : Held(j, w) => ~Queued(j)

(* Nobody has what was not created.                                         *)
NewIsNowhere ==
    \A j \in Jobs : state[j] = "NEW" => ~InHands(j) /\ ~Noted(j) /\ j \notin freed

(* DONE is not seen before the worker holds the mutex, and a worker that    *)
(* goes on to notify has read that fast is false.                           *)
HandsAndState ==
    \A j \in Jobs :
       /\ Queued(j) => state[j] # "DONE"
       /\ \A w \in Workers : Held(j, w) =>
             /\ worker[w].at \in {"execute", "run", "finish"} => state[j] # "DONE"
             /\ worker[w].at = "test" => j \in locked
             /\ worker[w].at = "notify" => ~fast[j]

(* fast is false only from the last look of the main thread on.             *)
SlowIsAsleep == \A j \in Jobs : ~fast[j] => promise[j] \in {"asleep", "resolved"}

MainOwns ==
    main.at \in OwnsJob =>
       /\ promise[main.job] = "none" /\ state[main.job] # "NEW"
       /\ main.at = "joining" => state[main.job] = "DONE"
       /\ main.at = "sync" => ~InHands(main.job)

(* The notification of a job is the last thing that a worker does with it.  *)
NotedIsDone == \A j \in Jobs : Noted(j) => ~InHands(j) /\ state[j] # "NEW"

FreedIsNowhere == \A j \in freed : ~InHands(j)

JobInv ==
    /\ InOnePlace /\ NewIsNowhere /\ HandsAndState /\ SlowIsAsleep
    /\ MainOwns /\ NotedIsDone /\ FreedIsNowhere

LEMMA JobInit == PoolInit => JobInv
<1> SUFFICES ASSUME PoolInit PROVE JobInv OBVIOUS
<1>1. \A s : s = <<>> => Distinct(s) /\ \A j : ~InSeq(s, j) BY DEF Distinct, InSeq
<1>2. \A j : \A w \in Workers : ~Held(j, w) BY DEF PoolInit, Held, At, Busy
<1>3. \A j : ~InHands(j) /\ ~Noted(j) BY <1>1, <1>2 DEF PoolInit, InHands, Noted, Queued
<1> QED BY <1>1, <1>2, <1>3
        DEF PoolInit, JobInv, InOnePlace, NewIsNowhere, HandsAndState, SlowIsAsleep, MainOwns,
            NotedIsDone, FreedIsNowhere, Queued, InHands, Loop, At, OwnsJob

(* The main thread gives a job back only when nobody has it in his hands.   *)
LEMMA AnswerSafe ==
    ASSUME PoolTypeOK, JobInv, NEW j \in Jobs, ~InHands(j), state[j] # "NEW", Answer(j),
           main' = Loop,
           UNCHANGED <<state, fast, locked, pool_queue, worker, notifications>>,
           \A k \in Jobs : InSeq(delivered', k) => InSeq(delivered, k)
    PROVE  JobInv'
<1>1. /\ \A k : \A w : Held(k, w)' <=> Held(k, w)
      /\ \A k : (Queued(k)' <=> Queued(k)) /\ (InHands(k)' <=> InHands(k))
      /\ \A k \in Jobs : Noted(k)' => Noted(k)
  BY DEF Held, Queued, InHands, Noted
<1>2. promise' = [promise EXCEPT ![j] = "resolved"] /\ freed' = freed \cup {j} BY DEF Answer
<1>3. \A k \in Jobs : promise'[k] = promise[k] \/ promise'[k] = "resolved"
  BY <1>2 DEF PoolTypeOK
<1>4. InOnePlace' BY <1>1 DEF JobInv, InOnePlace
<1>5. NewIsNowhere' BY <1>1, <1>2 DEF JobInv, NewIsNowhere
<1>6. HandsAndState' BY <1>1 DEF JobInv, HandsAndState
<1>7. SlowIsAsleep' BY <1>3 DEF JobInv, SlowIsAsleep
<1>8. MainOwns' BY DEF MainOwns, Loop, At, OwnsJob
<1>9. NotedIsDone' BY <1>1 DEF JobInv, NotedIsDone
<1>10. FreedIsNowhere' BY <1>1, <1>2 DEF JobInv, FreedIsNowhere
<1> QED BY <1>4, <1>5, <1>6, <1>7, <1>8, <1>9, <1>10 DEF JobInv

(* A job that the main thread looks at and finds DONE, whose mutex is free, *)
(* is in nobody's hands unless a notification was asked for.                *)
LEMMA DoneIsFree ==
    ASSUME PoolTypeOK, JobInv, NEW j \in Jobs, state[j] = "DONE", j \notin locked, fast[j]
    PROVE  ~InHands(j)
<1>1. ~Queued(j) BY DEF JobInv, HandsAndState
<1>2. ASSUME NEW w \in Workers, Held(j, w) PROVE FALSE
  <2>1. worker[w].at \in {"execute", "run", "finish", "test", "notify"} BY <1>2 DEF Held, Busy
  <2> QED BY <1>2, <2>1 DEF JobInv, HandsAndState
<1> QED BY <1>1, <1>2 DEF InHands

(* A new job comes into the hands of a worker, or into the queue.           *)
LEMMA CreatedSafe ==
    ASSUME PoolTypeOK, JobInv, NEW j \in Jobs, Created(j),
           \A k \in Jobs : \A w \in Workers :
              k # j => (Held(k, w)' <=> Held(k, w)) /\ (Held(k, w) => worker'[w] = worker[w]),
           \A k \in Jobs : k # j => (Queued(k)' <=> Queued(k)),
           Distinct(pool_queue'),
           \A v, w \in Workers : Held(j, v)' /\ Held(j, w)' => v = w,
           \A w \in Workers : Held(j, w)' => worker'[w].at = "execute" /\ ~Queued(j)',
           \A k \in Jobs : promise'[k] = promise[k] \/ k = j,
           \/ main' = Loop
           \/ main' = At("started", j) /\ promise' = promise
           \/ main' = At("sync", j) /\ promise' = promise /\ ~InHands(j)'
    PROVE  JobInv'
<1>1. /\ state[j] = "NEW" /\ promise[j] = "none"
      /\ state' = [state EXCEPT ![j] = "PENDING"]
      /\ fast' = [fast EXCEPT ![j] = TRUE]
      /\ UNCHANGED <<locked, freed, called, notifications, delivered>>
  BY DEF Created, notevars
<1>2. /\ state'[j] = "PENDING" /\ fast'[j]
      /\ \A k \in Jobs : k # j => state'[k] = state[k] /\ fast'[k] = fast[k]
  BY <1>1 DEF PoolTypeOK
<1>3. /\ \A k \in Jobs : Noted(k)' <=> Noted(k)
      /\ \A k \in Jobs : k # j => (InHands(k)' <=> InHands(k))
  BY <1>1 DEF Noted, InHands
<1>4. ~InHands(j) /\ ~Noted(j) /\ j \notin freed BY <1>1 DEF JobInv, NewIsNowhere
<1>5. InOnePlace'
  <2>1. \A k \in Jobs : \A v, w \in Workers : Held(k, v)' /\ Held(k, w)' => v = w
    BY DEF JobInv, InOnePlace
  <2>2. \A k \in Jobs : \A w \in Workers : Held(k, w)' => ~Queued(k)'
    BY DEF JobInv, InOnePlace
  <2> QED BY <2>1, <2>2 DEF InOnePlace
<1>6. NewIsNowhere' BY <1>1, <1>2, <1>3 DEF JobInv, NewIsNowhere
<1>7. HandsAndState'
  <2> SUFFICES ASSUME NEW k \in Jobs
               PROVE  /\ Queued(k)' => state'[k] # "DONE"
                      /\ \A w \in Workers : Held(k, w)' =>
                            /\ worker'[w].at \in {"execute", "run", "finish"} => state'[k] # "DONE"
                            /\ worker'[w].at = "test" => k \in locked'
                            /\ worker'[w].at = "notify" => ~fast'[k]
    BY DEF HandsAndState
  <2>1. CASE k = j BY <1>2, <2>1
  <2>2. CASE k # j BY <1>1, <1>2, <2>2 DEF JobInv, HandsAndState
  <2> QED BY <2>1, <2>2
<1>8. SlowIsAsleep' BY <1>2 DEF JobInv, SlowIsAsleep
<1>9. MainOwns' BY <1>1, <1>2 DEF MainOwns, Loop, At, OwnsJob
<1>10. NotedIsDone' BY <1>2, <1>3, <1>4 DEF JobInv, NotedIsDone
<1>11. FreedIsNowhere' BY <1>1, <1>3, <1>4 DEF JobInv, FreedIsNowhere, PoolTypeOK
<1> QED BY <1>5, <1>6, <1>7, <1>8, <1>9, <1>10, <1>11 DEF JobInv

(* A step that changes nothing but places outside Busy, or the main thread  *)
(* between its looks at jobs.                                               *)
LEMMA Aside ==
    ASSUME PoolTypeOK, JobInv,
           \A v \in Workers : \/ worker'[v] = worker[v]
                              \/ worker[v].at \notin Busy /\ worker'[v].at \notin Busy,
           UNCHANGED <<state, fast, locked, freed, promise, pool_queue>>,
           \A k \in Jobs : Noted(k)' => Noted(k),
           main' = main \/ main'.at \notin OwnsJob
    PROVE  JobInv'
<1>1. \A k \in Jobs : \A v \in Workers :
         (Held(k, v)' <=> Held(k, v)) /\ (Held(k, v) => worker'[v] = worker[v])
  BY DEF Held
<1>2. /\ \A k \in Jobs : Queued(k)' <=> Queued(k)
      /\ \A k \in Jobs : InHands(k)' <=> InHands(k)
  BY <1>1 DEF Queued, InHands
<1>3. InOnePlace' BY <1>1, <1>2 DEF JobInv, InOnePlace
<1>4. NewIsNowhere' BY <1>1, <1>2 DEF JobInv, NewIsNowhere
<1>5. HandsAndState' BY <1>1, <1>2 DEF JobInv, HandsAndState
<1>6. SlowIsAsleep' BY DEF JobInv, SlowIsAsleep
<1>7. MainOwns' BY <1>2 DEF JobInv, MainOwns, PoolTypeOK
<1>8. NotedIsDone' BY <1>1, <1>2 DEF JobInv, NotedIsDone
<1>9. FreedIsNowhere' BY <1>2 DEF JobInv, FreedIsNowhere, PoolTypeOK
<1> QED BY <1>3, <1>4, <1>5, <1>6, <1>7, <1>8, <1>9 DEF JobInv

(* A worker goes on with its job.                                           *)
LEMMA GoesOn ==
    ASSUME PoolTypeOK, JobInv, NEW w \in Workers, NEW j \in Jobs, Held(j, w),
           NEW place \in Busy, Goes(w, place),
           UNCHANGED <<fast, freed, promise, pool_queue, notifications, delivered, main>>,
           \A k \in Jobs \ {j} : state'[k] = state[k] /\ (k \in locked => k \in locked'),
           state'[j] # "NEW", state[j] = "DONE" => state'[j] = "DONE",
           place \in {"execute", "run", "finish"} => state'[j] # "DONE",
           place = "test" => j \in locked',
           place = "notify" => ~fast[j]
    PROVE  JobInv'
<1>1. /\ worker'[w].at = place /\ worker'[w].job = worker[w].job
      /\ \A v \in Workers : v # w => worker'[v] = worker[v]
  BY Moved DEF PoolTypeOK, Held, WorkerPlaces
<1>2. \A k \in Jobs : \A v \in Workers : Held(k, v)' <=> Held(k, v) BY <1>1 DEF Held
<1>3. /\ \A k \in Jobs : Queued(k)' <=> Queued(k)
      /\ \A k \in Jobs : InHands(k)' <=> InHands(k)
      /\ \A k \in Jobs : Noted(k)' <=> Noted(k)
  BY <1>2 DEF Queued, InHands, Noted
<1>4. InHands(j) /\ ~Queued(j) /\ \A v \in Workers : Held(j, v) => v = w
  BY DEF InHands, JobInv, InOnePlace
<1>5. InOnePlace' BY <1>2, <1>3 DEF JobInv, InOnePlace
<1>6. NewIsNowhere' BY <1>3 DEF JobInv, NewIsNowhere
<1>7. HandsAndState'
  <2> SUFFICES ASSUME NEW k \in Jobs
               PROVE  /\ Queued(k)' => state'[k] # "DONE"
                      /\ \A v \in Workers : Held(k, v)' =>
                            /\ worker'[v].at \in {"execute", "run", "finish"} => state'[k] # "DONE"
                            /\ worker'[v].at = "test" => k \in locked'
                            /\ worker'[v].at = "notify" => ~fast'[k]
    BY DEF HandsAndState
  <2>1. CASE k = j BY <1>1, <1>2, <1>3, <1>4, <2>1
  <2>2. CASE k # j
    <3>1. ~Held(k, w) BY <2>2 DEF Held
    <3> QED BY <1>1, <1>2, <1>3, <2>2, <3>1 DEF JobInv, HandsAndState
  <2> QED BY <2>1, <2>2
<1>8. SlowIsAsleep' BY DEF JobInv, SlowIsAsleep
<1>9. MainOwns'
  <2> SUFFICES ASSUME main.at \in OwnsJob PROVE MainOwns' BY DEF MainOwns
  <2>1. main.job \in Jobs BY DEF PoolTypeOK
  <2> QED BY <1>3, <2>1 DEF JobInv, MainOwns
<1>10. NotedIsDone' BY <1>3 DEF JobInv, NotedIsDone
<1>11. FreedIsNowhere' BY <1>3 DEF JobInv, FreedIsNowhere, PoolTypeOK
<1> QED BY <1>5, <1>6, <1>7, <1>8, <1>9, <1>10, <1>11 DEF JobInv

(* A worker puts its job down.                                              *)
LEMMA PutsDown ==
    ASSUME PoolTypeOK, JobInv, NEW w \in Workers, NEW j \in Jobs, Held(j, w), Goes(w, "enter"),
           UNCHANGED <<state, fast, freed, promise, pool_queue, main>>,
           \A k \in Jobs \ {j} : k \in locked => k \in locked',
           \A k \in Jobs \ {j} : Noted(k)' => Noted(k)
    PROVE  JobInv'
<1>1. /\ worker'[w].at = "enter"
      /\ \A v \in Workers : v # w => worker'[v] = worker[v]
  BY Moved DEF PoolTypeOK, Held, WorkerPlaces, Busy
<1>2. InHands(j) /\ ~Queued(j) /\ \A v \in Workers : Held(j, v) => v = w
  BY DEF InHands, JobInv, InOnePlace
<1>3. \A k \in Jobs : \A v \in Workers : Held(k, v)' <=> Held(k, v) /\ v # w
  BY <1>1 DEF Held, Busy
<1>4. /\ \A k \in Jobs : Queued(k)' <=> Queued(k)
      /\ \A k \in Jobs : InHands(k)' => InHands(k)
      /\ ~InHands(j)'
  BY <1>2, <1>3 DEF Queued, InHands
<1>5. state[j] # "NEW" BY <1>2 DEF JobInv, NewIsNowhere
<1>6. InOnePlace' BY <1>3, <1>4 DEF JobInv, InOnePlace
<1>7. NewIsNowhere' BY <1>4, <1>5 DEF JobInv, NewIsNowhere
<1>8. HandsAndState'
  <2> SUFFICES ASSUME NEW k \in Jobs
               PROVE  /\ Queued(k)' => state'[k] # "DONE"
                      /\ \A v \in Workers : Held(k, v)' =>
                            /\ worker'[v].at \in {"execute", "run", "finish"} => state'[k] # "DONE"
                            /\ worker'[v].at = "test" => k \in locked'
                            /\ worker'[v].at = "notify" => ~fast'[k]
    BY DEF HandsAndState
  <2>1. CASE k = j BY <1>2, <1>3, <1>4, <2>1
  <2>2. CASE k # j BY <1>1, <1>3, <1>4, <2>2 DEF JobInv, HandsAndState
  <2> QED BY <2>1, <2>2
<1>9. SlowIsAsleep' BY DEF JobInv, SlowIsAsleep
<1>10. MainOwns'
  <2> SUFFICES ASSUME main.at \in OwnsJob PROVE MainOwns' BY DEF MainOwns
  <2>1. main.job \in Jobs BY DEF PoolTypeOK
  <2> QED BY <1>4, <2>1 DEF JobInv, MainOwns
<1>11. NotedIsDone' BY <1>4, <1>5 DEF JobInv, NotedIsDone
<1>12. FreedIsNowhere' BY <1>4 DEF JobInv, FreedIsNowhere, PoolTypeOK
<1> QED BY <1>6, <1>7, <1>8, <1>9, <1>10, <1>11, <1>12 DEF JobInv

(* A worker takes the first queued job.                                     *)
LEMMA TakesJob ==
    ASSUME PoolTypeOK, JobInv, NEW w \in Workers, NextJob(w)
    PROVE  JobInv'
<1>0. pool_queue \in Seq(Jobs) /\ pool_queue # <<>> BY DEF PoolTypeOK, NextJob
<1>1. PICK q \in Jobs : q = Head(pool_queue) BY <1>0, TailOf
<1>2. /\ Queued(q) /\ ~Queued(q)' /\ Distinct(pool_queue')
      /\ \A k : Queued(k)' => Queued(k)
  BY <1>0, <1>1, TailOf DEF NextJob, Queued, JobInv, InOnePlace
<1>3. /\ worker'[w].at = "execute" /\ worker'[w].job = q
      /\ \A v \in Workers : v # w => worker'[v] = worker[v]
      /\ worker[w].at = "enter"
  BY <1>1, <1>2, Placed DEF NextJob, PoolTypeOK, WorkerPlaces, Busy
<1>4. /\ \A k \in Jobs : \A v \in Workers : Held(k, v)' <=> Held(k, v) \/ (v = w /\ k = q)
      /\ \A k \in Jobs : ~Held(k, w)
  BY <1>3 DEF Held, Busy
<1>5. InHands(q) /\ \A k \in Jobs : InHands(k)' => InHands(k)
  BY <1>2, <1>4 DEF InHands
<1>7. UNCHANGED <<state, fast, locked, freed, promise, notifications, delivered, main>>
  BY DEF NextJob, jobvars, notevars
<1>8. \A k \in Jobs : Noted(k)' <=> Noted(k) BY <1>7 DEF Noted
<1>9. InOnePlace'
  <2>1. \A k \in Jobs : \A u, v \in Workers : Held(k, u)' /\ Held(k, v)' => u = v
    BY <1>2, <1>4 DEF JobInv, InOnePlace
  <2>2. \A k \in Jobs : \A v \in Workers : Held(k, v)' => ~Queued(k)'
    BY <1>2, <1>4 DEF JobInv, InOnePlace
  <2> QED BY <1>2, <2>1, <2>2 DEF InOnePlace
<1>10. NewIsNowhere' BY <1>5, <1>7, <1>8 DEF JobInv, NewIsNowhere
<1>11. HandsAndState'
  <2> SUFFICES ASSUME NEW k \in Jobs
               PROVE  /\ Queued(k)' => state'[k] # "DONE"
                      /\ \A v \in Workers : Held(k, v)' =>
                            /\ worker'[v].at \in {"execute", "run", "finish"} => state'[k] # "DONE"
                            /\ worker'[v].at = "test" => k \in locked'
                            /\ worker'[v].at = "notify" => ~fast'[k]
    BY DEF HandsAndState
  <2>1. Queued(k)' => state'[k] # "DONE" BY <1>2, <1>7 DEF JobInv, HandsAndState
  <2>2. ASSUME NEW v \in Workers, Held(k, v)', v = w
        PROVE  worker'[v].at = "execute" /\ state'[k] # "DONE"
    <3>1. k = q BY <1>4, <2>2
    <3> QED BY <1>2, <1>3, <1>7, <2>2, <3>1 DEF JobInv, HandsAndState
  <2>3. ASSUME NEW v \in Workers, Held(k, v)', v # w
        PROVE  /\ worker'[v].at \in {"execute", "run", "finish"} => state'[k] # "DONE"
               /\ worker'[v].at = "test" => k \in locked'
               /\ worker'[v].at = "notify" => ~fast'[k]
    BY <1>3, <1>4, <1>7, <2>3 DEF JobInv, HandsAndState
  <2> QED BY <2>1, <2>2, <2>3
<1>12. SlowIsAsleep' BY <1>7 DEF JobInv, SlowIsAsleep
<1>13. MainOwns'
  <2> SUFFICES ASSUME main.at \in OwnsJob PROVE MainOwns' BY <1>7 DEF MainOwns
  <2>1. main.job \in Jobs BY DEF PoolTypeOK
  <2> QED BY <1>5, <1>7, <2>1 DEF JobInv, MainOwns
<1>14. NotedIsDone' BY <1>5, <1>7, <1>8 DEF JobInv, NotedIsDone
<1>15. FreedIsNowhere' BY <1>5, <1>7 DEF JobInv, FreedIsNowhere, PoolTypeOK
<1> QED BY <1>9, <1>10, <1>11, <1>12, <1>13, <1>14, <1>15 DEF JobInv

LEMMA JobNext == PoolTypeOK /\ JobInv /\ [PoolNext]_poolvars => JobInv'
<1> SUFFICES ASSUME PoolTypeOK, JobInv, [PoolNext]_poolvars PROVE JobInv' OBVIOUS
<1>w. WorkersTyped(worker) BY DEF PoolTypeOK
<1>j. ASSUME NEW w \in Workers, worker[w].at \in Busy
      PROVE  worker[w].job \in Jobs /\ Held(worker[w].job, w)
  BY <1>w, <1>j DEF WorkersTyped, Held
<1>m. main.at \in OwnsJob => main.job \in Jobs BY DEF PoolTypeOK
<1>n. ASSUME NEW j \in Jobs, state[j] = "NEW"
      PROVE  /\ ~Queued(j) /\ ~InHands(j) /\ \A w \in Workers : ~Held(j, w)
             /\ Distinct(pool_queue)
  BY <1>n DEF JobInv, NewIsNowhere, InOnePlace, InHands
<1>1. ASSUME NEW j \in Jobs, RunHere(j) PROVE JobInv'
  <2>1. state[j] = "NEW" /\ Created(j) /\ main' = At("sync", j)
        /\ UNCHANGED <<promise, pool_queue, worker>>
    BY <1>1 DEF RunHere, Created
  <2>2. /\ \A k \in Jobs : \A w \in Workers : Held(k, w)' <=> Held(k, w)
        /\ \A k \in Jobs : (Queued(k)' <=> Queued(k)) /\ (InHands(k)' <=> InHands(k))
    BY <2>1 DEF Held, Queued, InHands
  <2> QED BY <1>n, <2>1, <2>2, CreatedSafe
<1>2. ASSUME NEW j \in Jobs, LaunchFails(j) PROVE JobInv'
  <2>1. state[j] = "NEW" /\ Created(j) /\ main' = Loop
        /\ UNCHANGED <<pool_queue, worker>>
        /\ \A k \in Jobs : promise'[k] = promise[k] \/ k = j
    BY <1>2 DEF LaunchFails, Created, PoolTypeOK
  <2>2. /\ \A k \in Jobs : \A w \in Workers : Held(k, w)' <=> Held(k, w)
        /\ \A k \in Jobs : Queued(k)' <=> Queued(k)
    BY <2>1 DEF Held, Queued
  <2> QED BY <1>n, <2>1, <2>2, CreatedSafe
<1>3. ASSUME NEW j \in Jobs, Launch(j) PROVE JobInv'
  <2>1. state[j] = "NEW" /\ Created(j) /\ main' = At("started", j)
        /\ UNCHANGED <<promise, pool_queue>>
    BY <1>3 DEF Launch, Created
  <2>2. PICK t \in Workers : t = NewThread /\ worker[t].at = "unborn"
    BY <1>3 DEF Launch, NewThread, Threads
  <2>3. /\ worker'[t].at = "execute" /\ worker'[t].job = j
        /\ \A v \in Workers : v # t => worker'[v] = worker[v]
    BY <1>w, <1>3, <2>2, Placed DEF Launch, WorkerPlaces, Busy
  <2>4. \A k \in Jobs : \A v \in Workers :
          /\ Held(k, v)' <=> Held(k, v) \/ (v = t /\ k = j)
          /\ Held(k, v) => v # t
    BY <2>2, <2>3 DEF Held, Busy
  <2>5. \A k \in Jobs : Queued(k)' <=> Queued(k) BY <2>1 DEF Queued
  <2>6. \A v \in Workers : Held(j, v)' => v = t BY <1>n, <2>1, <2>4
  <2>7. \A v \in Workers : Held(j, v)' => worker'[v].at = "execute" /\ ~Queued(j)'
    BY <1>n, <2>1, <2>3, <2>5, <2>6
  <2>8. \A k \in Jobs : \A v \in Workers :
          k # j => (Held(k, v)' <=> Held(k, v)) /\ (Held(k, v) => worker'[v] = worker[v])
    BY <2>3, <2>4
  <2> QED BY <1>n, <2>1, <2>5, <2>6, <2>7, <2>8, CreatedSafe
<1>4. ASSUME NEW j \in Jobs, Enqueue(j) PROVE JobInv'
  <2>1. state[j] = "NEW" /\ Created(j) /\ main' = At("started", j)
        /\ UNCHANGED promise /\ pool_queue' = Append(pool_queue, j)
    BY <1>4 DEF Enqueue, Created
  <2>2. \A v \in Workers : \/ worker'[v] = worker[v]
                           \/ worker[v].at = "wait" /\ worker'[v].at = "enter"
    BY <1>w, <1>4, Signalled DEF Enqueue
  <2>3. \A k \in Jobs : \A v \in Workers :
          (Held(k, v)' <=> Held(k, v)) /\ (Held(k, v) => worker'[v] = worker[v])
    BY <2>2 DEF Held, Busy
  <2>4. pool_queue \in Seq(Jobs) BY DEF PoolTypeOK
  <2>5. /\ \A k \in Jobs : k # j => (Queued(k)' <=> Queued(k))
        /\ Distinct(pool_queue')
    BY <1>n, <2>1, <2>4, Appended DEF Queued
  <2> QED BY <1>n, <2>1, <2>3, <2>5, CreatedSafe
<1>5. ASSUME NEW j \in Jobs, CheckJob(j) PROVE JobInv'
  <2>1. /\ main = Loop /\ main' = Loop /\ promise[j] = "paused" /\ j \notin locked
        /\ fast' = [fast EXCEPT ![j] = FALSE]
        /\ UNCHANGED <<state, locked, pool_queue, worker, notifications, delivered>>
    BY <1>5 DEF CheckJob, notevars
  <2>2. fast[j] BY <2>1 DEF JobInv, SlowIsAsleep
  <2>3. /\ \A k : \A w : Held(k, w)' <=> Held(k, w)
        /\ \A k : (Queued(k)' <=> Queued(k)) /\ (InHands(k)' <=> InHands(k))
        /\ \A k \in Jobs : Noted(k)' <=> Noted(k)
    BY <2>1 DEF Held, Queued, InHands, Noted
  <2>4. \A k \in Jobs : ~fast[k] => ~fast'[k] BY <2>1 DEF PoolTypeOK
  <2>5. /\ promise'[j] \in {"asleep", "resolved"}
        /\ \A k \in Jobs : k # j => promise'[k] = promise[k] /\ fast'[k] = fast[k]
    BY <1>5, <2>1 DEF CheckJob, Answer, PoolTypeOK
  <2>6. \A k \in freed' : k \in freed \/ (k = j /\ ~InHands(j) /\ state[j] = "DONE")
    BY <1>5, <2>1, <2>2, DoneIsFree DEF CheckJob, Answer
  <2>7. InOnePlace' BY <2>1, <2>3 DEF JobInv, InOnePlace
  <2>8. NewIsNowhere' BY <2>1, <2>3, <2>6 DEF JobInv, NewIsNowhere
  <2>9. HandsAndState' BY <2>1, <2>3, <2>4 DEF JobInv, HandsAndState
  <2>10. SlowIsAsleep' BY <2>5 DEF JobInv, SlowIsAsleep
  <2>11. MainOwns' BY <2>1 DEF MainOwns, Loop, At, OwnsJob
  <2>12. NotedIsDone' BY <2>1, <2>3 DEF JobInv, NotedIsDone
  <2>13. FreedIsNowhere' BY <2>3, <2>6 DEF JobInv, FreedIsNowhere
  <2> QED BY <2>7, <2>8, <2>9, <2>10, <2>11, <2>12, <2>13 DEF JobInv
<1>6. CASE ReadState
  <2>1. PICK j \in Jobs : j = main.job BY <1>m, <1>6 DEF ReadState, OwnsJob
  <2>2. promise[j] = "none" /\ state[j] # "NEW" /\ fast[j]
    BY <1>6, <2>1 DEF ReadState, JobInv, MainOwns, SlowIsAsleep, OwnsJob
  <2>3. UNCHANGED <<state, fast, locked, freed, notifications, delivered, pool_queue, worker>>
    BY <1>6 DEF ReadState, notevars
  <2>4. /\ \A k : \A w : Held(k, w)' <=> Held(k, w)
        /\ \A k : (Queued(k)' <=> Queued(k)) /\ (InHands(k)' <=> InHands(k))
        /\ \A k \in Jobs : Noted(k)' <=> Noted(k)
    BY <2>3 DEF Held, Queued, InHands, Noted
  <2>5. \A k \in Jobs : k # j => promise'[k] = promise[k]
    BY <1>6, <2>1 DEF ReadState, PoolTypeOK
  <2>6. InOnePlace' BY <2>3, <2>4 DEF JobInv, InOnePlace
  <2>7. NewIsNowhere' BY <2>3, <2>4 DEF JobInv, NewIsNowhere
  <2>8. HandsAndState' BY <2>3, <2>4 DEF JobInv, HandsAndState
  <2>9. SlowIsAsleep' BY <2>2, <2>3, <2>5 DEF JobInv, SlowIsAsleep
  <2>10. MainOwns'
    BY <1>6, <2>1, <2>2, <2>3 DEF ReadState, MainOwns, Loop, At, OwnsJob
  <2>11. NotedIsDone' BY <2>3, <2>4 DEF JobInv, NotedIsDone
  <2>12. FreedIsNowhere' BY <2>3, <2>4 DEF JobInv, FreedIsNowhere
  <2> QED BY <2>6, <2>7, <2>8, <2>9, <2>10, <2>11, <2>12 DEF JobInv
<1>7. CASE Join
  <2>1. PICK j \in Jobs : j = main.job BY <1>m, <1>7 DEF Join, OwnsJob
  <2>2. state[j] = "DONE" /\ promise[j] = "none" /\ j \notin locked
    BY <1>7, <2>1 DEF Join, JobInv, MainOwns, OwnsJob
  <2>3. fast[j] BY <2>2 DEF JobInv, SlowIsAsleep
  <2>4. ~InHands(j) BY <2>2, <2>3, DoneIsFree
  <2> QED BY <1>7, <2>1, <2>2, <2>4, AnswerSafe DEF Join, notevars
<1>8. CASE RunSync
  <2>1. PICK j \in Jobs : j = main.job BY <1>m, <1>8 DEF RunSync, OwnsJob
  <2>2. state[j] # "NEW" /\ ~InHands(j) BY <1>8, <2>1 DEF RunSync, JobInv, MainOwns, OwnsJob
  <2> QED BY <1>8, <2>1, <2>2, AnswerSafe DEF RunSync, notevars
<1>9. CASE CallNotification
  <2>0. delivered \in Seq(Jobs) /\ delivered # <<>> BY <1>9 DEF PoolTypeOK, CallNotification
  <2>1. PICK j \in Jobs : j = Head(delivered) BY <2>0, TailOf
  <2>2. /\ InSeq(delivered, j)
        /\ \A k \in Jobs : InSeq(delivered', k) => InSeq(delivered, k)
    BY <1>9, <2>0, <2>1, TailOf DEF CallNotification
  <2>3. state[j] # "NEW" /\ ~InHands(j) BY <2>2 DEF JobInv, NotedIsDone, Noted
  <2>4. /\ main' = Loop
        /\ UNCHANGED <<state, fast, locked, pool_queue, worker, notifications, main>>
    BY <1>9 DEF CallNotification
  <2>5. CASE promise[j] \in {"paused", "asleep"}
    <3>1. Answer(j) BY <1>9, <2>1, <2>5 DEF CallNotification
    <3> QED BY <2>2, <2>3, <2>4, <3>1, AnswerSafe
  <2>6. CASE ~(promise[j] \in {"paused", "asleep"})
    <3>1. UNCHANGED <<promise, freed>> BY <1>9, <2>1, <2>6 DEF CallNotification
    <3>2. \A k \in Jobs : Noted(k)' => Noted(k) BY <2>2, <2>4 DEF Noted
    <3> QED BY <2>4, <3>1, <3>2, Aside
  <2> QED BY <2>5, <2>6
<1>10. CASE RecvEvent \/ RecvAgain
  <2>1. \A k \in Jobs : Noted(k)' => Noted(k)
    BY <1>10 DEF RecvEvent, RecvAgain, notevars, Noted
  <2> QED BY <1>10, <2>1, Aside DEF RecvEvent, RecvAgain, jobvars, At, OwnsJob
<1>11. CASE RecvAll
  <2>1. \A k \in Jobs : Noted(k)' => Noted(k)
    BY <1>11 DEF RecvAll, Noted, InSeq
  <2> QED BY <1>11, <2>1, Aside DEF RecvAll, jobvars, Loop, At, OwnsJob
<1>12. ASSUME NEW w \in Workers, NextJob(w) PROVE JobInv' BY <1>12, TakesJob
<1>13. ASSUME NEW w \in Workers, Wait(w) PROVE JobInv'
  <2>1. /\ worker'[w].at = "wait" /\ worker[w].at = "enter"
        /\ \A v \in Workers : v # w => worker'[v] = worker[v]
    BY <1>w, <1>13, Placed DEF Wait, WorkerPlaces, Busy
  <2>2. \A k \in Jobs : Noted(k)' => Noted(k) BY <1>13 DEF Wait, notevars, Noted
  <2> QED BY <1>13, <2>1, <2>2, Aside DEF Wait, jobvars, Busy
<1>14. ASSUME NEW w \in Workers, SpuriousWakeup(w) PROVE JobInv'
  <2>1. /\ worker'[w].at = "enter" /\ worker[w].at = "wait"
        /\ \A v \in Workers : v # w => worker'[v] = worker[v]
    BY <1>w, <1>14, Moved DEF SpuriousWakeup, WorkerPlaces, Busy
  <2>2. \A k \in Jobs : Noted(k)' => Noted(k) BY <1>14 DEF SpuriousWakeup, notevars, Noted
  <2> QED BY <1>14, <2>1, <2>2, Aside DEF SpuriousWakeup, jobvars, Busy
<1>15. ASSUME NEW w \in Workers, Execute(w) PROVE JobInv'
  <2>1. PICK j \in Jobs : j = worker[w].job /\ Held(j, w)
    BY <1>j, <1>15 DEF Execute, Busy
  <2>2. /\ state' = [state EXCEPT ![j] = "RUNNING"]
        /\ UNCHANGED <<fast, locked, freed, promise, pool_queue, notifications, delivered, main>>
        /\ Goes(w, "run") /\ worker[w].at = "execute"
    BY <1>15, <2>1 DEF Execute, notevars
  <2>3. state[j] # "DONE" BY <2>1, <2>2 DEF JobInv, HandsAndState
  <2>4. /\ state'[j] = "RUNNING"
        /\ \A k \in Jobs \ {j} : state'[k] = state[k]
    BY <2>2 DEF PoolTypeOK
  <2> QED BY <2>1, <2>2, <2>3, <2>4, GoesOn DEF Busy
<1>16. ASSUME NEW w \in Workers, Run(w) PROVE JobInv'
  <2>1. PICK j \in Jobs : j = worker[w].job /\ Held(j, w)
    BY <1>j, <1>16 DEF Run, Busy
  <2>2. /\ UNCHANGED <<state, fast, locked, freed, promise, pool_queue, notifications, delivered,
                       main>>
        /\ Goes(w, "finish") /\ worker[w].at = "run"
    BY <1>16 DEF Run, notevars
  <2>3. state[j] # "DONE" BY <2>1, <2>2 DEF JobInv, HandsAndState
  <2>4. state[j] # "NEW" BY <2>1 DEF JobInv, NewIsNowhere, InHands
  <2> QED BY <2>1, <2>2, <2>3, <2>4, GoesOn DEF Busy
<1>17. ASSUME NEW w \in Workers, Finish(w) PROVE JobInv'
  <2>1. PICK j \in Jobs : j = worker[w].job /\ Held(j, w)
    BY <1>j, <1>17 DEF Finish, Busy
  <2>2. /\ state' = [state EXCEPT ![j] = "DONE"] /\ locked' = locked \cup {j}
        /\ UNCHANGED <<fast, freed, promise, pool_queue, notifications, delivered, main>>
        /\ Goes(w, "test")
    BY <1>17, <2>1 DEF Finish, notevars
  <2>3. /\ state'[j] = "DONE"
        /\ \A k \in Jobs \ {j} : state'[k] = state[k]
    BY <2>2 DEF PoolTypeOK
  <2> QED BY <2>1, <2>2, <2>3, GoesOn DEF Busy
<1>18. ASSUME NEW w \in Workers, TestFast(w) PROVE JobInv'
  <2>1. PICK j \in Jobs : j = worker[w].job /\ Held(j, w)
    BY <1>j, <1>18 DEF TestFast, Busy
  <2>2. /\ locked' = locked \ {j}
        /\ UNCHANGED <<state, fast, freed, promise, pool_queue, notifications, delivered, main>>
        /\ Goes(w, IF fast[j] THEN "enter" ELSE "notify") /\ worker[w].at = "test"
    BY <1>18, <2>1 DEF TestFast, notevars
  <2>3. \A k \in Jobs : Noted(k)' => Noted(k) BY <2>2 DEF Noted
  <2>4. CASE fast[j]
    <3>1. Goes(w, "enter") BY <2>2, <2>4
    <3> QED BY <2>1, <2>2, <2>3, <3>1, PutsDown
  <2>5. CASE ~fast[j]
    <3>1. Goes(w, "notify") BY <2>2, <2>5
    <3>2. state[j] # "NEW" BY <2>1 DEF JobInv, NewIsNowhere, InHands
    <3> QED BY <2>1, <2>2, <2>5, <3>1, <3>2, GoesOn DEF Busy
  <2> QED BY <2>4, <2>5
<1>19. ASSUME NEW w \in Workers, Notify(w) PROVE JobInv'
  <2>1. PICK j \in Jobs : j = worker[w].job /\ Held(j, w)
    BY <1>j, <1>19 DEF Notify, Busy
  <2>2. /\ notifications' = Append(notifications, j) /\ Goes(w, "enter")
        /\ UNCHANGED <<state, fast, locked, freed, promise, pool_queue, delivered, main>>
    BY <1>19, <2>1 DEF Notify, jobvars
  <2>3. \A k \in Jobs \ {j} : Noted(k)' => Noted(k)
    <3>1. notifications \in Seq(Jobs) BY DEF PoolTypeOK
    <3> QED BY <2>2, <3>1, Appended DEF Noted
  <2> QED BY <2>1, <2>2, <2>3, PutsDown
<1>20. CASE UNCHANGED poolvars
  <2>1. \A k \in Jobs : Noted(k)' => Noted(k) BY <1>20 DEF poolvars, notevars, Noted
  <2> QED BY <1>20, <2>1, Aside DEF poolvars, jobvars
<1> QED BY <1>1, <1>2, <1>3, <1>4, <1>5, <1>6, <1>7, <1>8, <1>9, <1>10, <1>11, <1>12, <1>13,
           <1>14, <1>15, <1>16, <1>17, <1>18, <1>19, <1>20
        DEF PoolNext, StartJob, MainStep, WorkerStep

-------------------------------------------------------------------------------
(* Runs: how often the function of a job was called, and what the caller   *)
(* of run_job sees.                                                        *)

Ran(b) == IF b THEN 1 ELSE 0

JobFine(j) ==
    /\ called[j] \in {0, 1}
    /\ state[j] = "NEW" => promise[j] = "none" /\ called[j] = 0
    /\ state[j] = "DONE" => called[j] = 1
    /\ Queued(j) => called[j] = 0
    /\ \A w \in Workers : Held(j, w) => called[j] = Ran(worker[w].at \notin {"execute", "run"})
    /\ Noted(j) => called[j] = 1
    /\ main.at = "sync" /\ main.job = j => called[j] = 0
    /\ promise[j] = "resolved" => called[j] = 1
    /\ promise[j] = "rejected" => called[j] = 0 /\ ~InHands(j)

RunsInv == called \in [Jobs -> Nat] /\ \A j \in Jobs : JobFine(j)

LEMMA RunsInit == PoolInit => RunsInv /\ Service!Init
<1> SUFFICES ASSUME PoolInit PROVE RunsInv /\ Service!Init OBVIOUS
<1>1. \A s : s = <<>> => \A j : ~InSeq(s, j) BY DEF InSeq
<1>2. \A j : \A w \in Workers : ~Held(j, w) BY DEF PoolInit, Held, At, Busy
<1>3. \A j : ~Queued(j) /\ ~InHands(j) /\ ~Noted(j)
  BY <1>1, <1>2 DEF PoolInit, InHands, Noted, Queued
<1>4. RunsInv BY <1>2, <1>3 DEF PoolInit, RunsInv, JobFine, Loop, At
<1>5. \A j \in Jobs : Phase(j) = "new" BY DEF PoolInit, Phase
<1> QED BY <1>4, <1>5 DEF Service!Init, phases

(* What the caller sees.                                                    *)
LEMMA PhaseIs ==
    ASSUME NEW j \in Jobs
    PROVE  /\ promise[j] = "rejected" /\ called[j] = 0 => Phase(j) = "refused"
           /\ promise[j] = "resolved" /\ called[j] = 1 => Phase(j) = "answered"
           /\ promise[j] \in {"none", "paused", "asleep"} /\ called[j] = 1 => Phase(j) = "ran"
           /\ promise[j] = "none" /\ called[j] = 0 /\ state[j] = "NEW" => Phase(j) = "new"
           /\ promise[j] \in {"none", "paused", "asleep"} /\ called[j] = 0 /\ state[j] # "NEW"
                 => Phase(j) = "asked"
  BY DEF Phase

LEMMA PhaseWillBe ==
    ASSUME NEW j \in Jobs
    PROVE  /\ promise'[j] = "rejected" /\ called'[j] = 0 => Phase(j)' = "refused"
           /\ promise'[j] = "resolved" /\ called'[j] = 1 => Phase(j)' = "answered"
           /\ promise'[j] \in {"none", "paused", "asleep"} /\ called'[j] = 1 => Phase(j)' = "ran"
           /\ promise'[j] = "none" /\ called'[j] = 0 /\ state'[j] = "NEW" => Phase(j)' = "new"
           /\ promise'[j] \in {"none", "paused", "asleep"} /\ called'[j] = 0 /\ state'[j] # "NEW"
                 => Phase(j)' = "asked"
  BY DEF Phase

(* A job of which the caller notices nothing.                               *)
LEMMA Unnoticed ==
    ASSUME PoolTypeOK, NEW k \in Jobs, JobFine(k), called'[k] = called[k],
           state'[k] = "NEW" <=> state[k] = "NEW",
           state'[k] = "DONE" => called[k] = 1,
           \/ promise'[k] = promise[k]
           \/ /\ promise[k] \in {"none", "paused", "asleep"} /\ state[k] # "NEW"
              /\ promise'[k] \in {"none", "paused", "asleep"},
           InHands(k)' => InHands(k),
           Queued(k)' => called[k] = 0,
           \A w \in Workers :
              Held(k, w)' => called[k] = Ran(worker'[w].at \notin {"execute", "run"}),
           Noted(k)' => called[k] = 1,
           main'.at = "sync" /\ main'.job = k => called[k] = 0
    PROVE  JobFine(k)' /\ Phase(k)' = Phase(k)
<1>1. JobFine(k)' BY DEF JobFine
<1>2. promise[k] \in {"none", "paused", "asleep", "resolved", "rejected"} BY DEF PoolTypeOK
<1>3. Phase(k)' = Phase(k) BY <1>2, PhaseIs, PhaseWillBe DEF JobFine
<1> QED BY <1>1, <1>3

(* A step of one job.                                                       *)
LEMMA OneJob ==
    ASSUME NEW j \in Jobs, NEW from, NEW to,
           Phase(j) = from, Phase(j)' = to,
           \A k \in Jobs : k # j => Phase(k)' = Phase(k)
    PROVE  Service!Becomes(j, from, to)
  BY DEF Service!Becomes, phases

(* A job is created: it goes into the hands of a thread, or is refused.     *)
LEMMA CreatedRuns ==
    ASSUME PoolTypeOK, JobInv, RunsInv, NEW j \in Jobs, Created(j),
           \A k \in Jobs : k # j =>
              /\ promise'[k] = promise[k]
              /\ Queued(k)' => Queued(k)
              /\ \A w \in Workers : Held(k, w)' => Held(k, w) /\ worker'[w] = worker[w]
              /\ ~(main'.at = "sync" /\ main'.job = k),
           \A w \in Workers : Held(j, w)' => worker'[w].at = "execute",
           \/ promise' = promise
           \/ promise'[j] = "rejected" /\ ~InHands(j)'
    PROVE  RunsInv' /\ Service!Next
<1>1. /\ state[j] = "NEW" /\ state' = [state EXCEPT ![j] = "PENDING"] /\ promise[j] = "none"
      /\ UNCHANGED <<called, notifications, delivered>>
  BY DEF Created, notevars
<1>2. /\ called[j] = 0 /\ state'[j] = "PENDING" /\ ~Noted(j)'
      /\ \A k \in Jobs : Noted(k)' <=> Noted(k)
  BY <1>1 DEF RunsInv, JobFine, PoolTypeOK, Noted, JobInv, NewIsNowhere
<1>3. JobFine(j)' BY <1>1, <1>2 DEF JobFine, Ran
<1>4. ASSUME NEW k \in Jobs, k # j PROVE JobFine(k)' /\ Phase(k)' = Phase(k)
  <2>1. state'[k] = state[k] BY <1>1, <1>4 DEF PoolTypeOK
  <2>2. InHands(k)' => InHands(k) BY <1>4 DEF InHands
  <2>3. JobFine(k) BY DEF RunsInv
  <2>4. /\ called'[k] = called[k] /\ promise'[k] = promise[k]
        /\ Queued(k)' => called[k] = 0
        /\ Noted(k)' => called[k] = 1
        /\ state'[k] = "DONE" => called[k] = 1
    BY <1>1, <1>2, <1>4, <2>1, <2>3 DEF JobFine
  <2>5. \A w \in Workers : Held(k, w)' => called[k] = Ran(worker'[w].at \notin {"execute", "run"})
    BY <1>4, <2>3 DEF JobFine
  <2>6. ~(main'.at = "sync" /\ main'.job = k) BY <1>4
  <2> QED BY <2>1, <2>2, <2>3, <2>4, <2>5, <2>6, Unnoticed
<1>5. Phase(j) = "new" BY <1>1, <1>2, PhaseIs
<1>6. Phase(j)' \in {"asked", "refused"} BY <1>1, <1>2, PhaseWillBe
<1>7. Service!Ask(j) \/ Service!Refuse(j)
  BY <1>4, <1>5, <1>6, OneJob DEF Service!Ask, Service!Refuse
<1>8. called' \in [Jobs -> Nat] BY <1>1 DEF RunsInv
<1> QED BY <1>3, <1>4, <1>7, <1>8 DEF RunsInv, Service!Next

(* The caller of a job is answered; its function was called already, or is  *)
(* called in this step by the main thread.                                  *)
LEMMA AnswerRuns ==
    ASSUME PoolTypeOK, JobInv, RunsInv, NEW j \in Jobs, Answer(j), main' = Loop,
           promise[j] \in {"none", "paused", "asleep"}, state[j] # "NEW",
           UNCHANGED <<state, pool_queue, worker, notifications>>,
           \A k \in Jobs : InSeq(delivered', k) => InSeq(delivered, k),
           \/ called[j] = 1 /\ UNCHANGED called
           \/ called[j] = 0 /\ ~InHands(j) /\ called' = [called EXCEPT ![j] = @ + 1]
    PROVE  RunsInv' /\ Service!Next
<1>1. /\ promise'[j] = "resolved" /\ called'[j] = 1 /\ called' \in [Jobs -> Nat]
      /\ \A k \in Jobs : k # j => promise'[k] = promise[k] /\ called'[k] = called[k]
  <2>1. /\ promise'[j] = "resolved"
        /\ \A k \in Jobs : k # j => promise'[k] = promise[k]
    BY DEF Answer, PoolTypeOK
  <2>2. called \in [Jobs -> Nat] BY DEF RunsInv
  <2>3. CASE called[j] = 1 /\ UNCHANGED called BY <2>1, <2>2, <2>3
  <2>4. CASE called[j] = 0 /\ called' = [called EXCEPT ![j] = @ + 1]
    <3>1. called' = [called EXCEPT ![j] = 1] BY <2>2, <2>4
    <3> QED BY <2>1, <2>2, <3>1
  <2> QED BY <2>3, <2>4
<1>2. /\ \A k : \A w : Held(k, w)' <=> Held(k, w)
      /\ \A k : (Queued(k)' <=> Queued(k)) /\ (InHands(k)' <=> InHands(k))
      /\ \A k \in Jobs : Noted(k)' => Noted(k)
  BY DEF Held, Queued, InHands, Noted
<1>3. \A k \in Jobs : ~(main'.at = "sync" /\ main'.job = k) BY DEF Loop, At
<1>4. \A k \in Jobs : JobFine(k) BY DEF RunsInv
<1>5. JobFine(j)'
  <2>1. CASE called[j] = 1 BY <1>1, <1>2, <1>3, <1>4, <2>1 DEF JobFine
  <2>2. CASE ~InHands(j)
    <3>1. ~Queued(j)' /\ \A w \in Workers : ~Held(j, w)' BY <1>2, <2>2 DEF InHands
    <3> QED BY <1>1, <1>2, <1>3, <1>4, <3>1 DEF JobFine
  <2> QED BY <2>1, <2>2
<1>6. ASSUME NEW k \in Jobs, k # j PROVE JobFine(k)' /\ Phase(k)' = Phase(k)
  <2>1. called'[k] = called[k] /\ promise'[k] = promise[k] BY <1>1, <1>6
  <2>2. \A w \in Workers : Held(k, w)' => called[k] = Ran(worker'[w].at \notin {"execute", "run"})
    BY <1>2, <1>4 DEF JobFine
  <2>3. /\ state'[k] = "DONE" => called[k] = 1
        /\ Queued(k)' => called[k] = 0
        /\ Noted(k)' => called[k] = 1
    BY <1>2, <1>4 DEF JobFine
  <2> QED BY <1>2, <1>3, <1>4, <2>1, <2>2, <2>3, Unnoticed
<1>7. Phase(j) \in {"asked", "ran"} /\ (Phase(j) = "asked" <=> called[j] = 0)
  BY PhaseIs
<1>8. Phase(j)' = "answered" BY <1>1, PhaseWillBe
<1>9. Service!Answer(j) \/ Service!RunAndAnswer(j)
  BY <1>6, <1>7, <1>8, OneJob DEF Service!Answer, Service!RunAndAnswer
<1> QED BY <1>1, <1>5, <1>6, <1>9 DEF RunsInv, Service!Next

(* A step of which no caller notices anything.                              *)
LEMMA QuietRuns ==
    ASSUME PoolTypeOK, RunsInv, UNCHANGED called,
           \A k \in Jobs :
              /\ state'[k] = "NEW" <=> state[k] = "NEW"
              /\ state'[k] = "DONE" => called[k] = 1
              /\ \/ promise'[k] = promise[k]
                 \/ /\ promise[k] \in {"none", "paused", "asleep"} /\ state[k] # "NEW"
                    /\ promise'[k] \in {"none", "paused", "asleep"}
              /\ InHands(k)' => InHands(k)
              /\ Queued(k)' => called[k] = 0
              /\ \A w \in Workers :
                    Held(k, w)' => called[k] = Ran(worker'[w].at \notin {"execute", "run"})
              /\ Noted(k)' => called[k] = 1
              /\ main'.at = "sync" /\ main'.job = k => called[k] = 0
    PROVE  RunsInv' /\ UNCHANGED phases
<1>1. ASSUME NEW k \in Jobs PROVE JobFine(k)' /\ Phase(k)' = Phase(k)
  <2>1. JobFine(k) BY DEF RunsInv
  <2> QED BY <2>1, Unnoticed
<1> QED BY <1>1 DEF RunsInv, phases

(* No worker puts a job down or takes one up.                               *)
LEMMA AsideRuns ==
    ASSUME PoolTypeOK, RunsInv,
           \A v \in Workers : \/ worker'[v] = worker[v]
                              \/ worker[v].at \notin Busy /\ worker'[v].at \notin Busy,
           UNCHANGED <<state, promise, called, pool_queue>>,
           \A k \in Jobs : Noted(k)' => Noted(k),
           main' = main \/ main'.at \notin OwnsJob
    PROVE  RunsInv' /\ UNCHANGED phases
<1>1. \A k \in Jobs : \A v \in Workers :
         (Held(k, v)' <=> Held(k, v)) /\ (Held(k, v) => worker'[v] = worker[v])
  BY DEF Held
<1>2. /\ \A k \in Jobs : Queued(k)' <=> Queued(k)
      /\ \A k \in Jobs : InHands(k)' <=> InHands(k)
  BY <1>1 DEF Queued, InHands
<1>3. \A k \in Jobs :
         /\ state[k] = "DONE" => called[k] = 1
         /\ Queued(k) => called[k] = 0
         /\ Noted(k) => called[k] = 1
         /\ main.at = "sync" /\ main.job = k => called[k] = 0
  BY DEF RunsInv, JobFine
<1>4. \A k \in Jobs : \A v \in Workers :
         Held(k, v) => called[k] = Ran(worker[v].at \notin {"execute", "run"})
  BY DEF RunsInv, JobFine
<1>5. \A k \in Jobs : \A v \in Workers :
         Held(k, v)' => called[k] = Ran(worker'[v].at \notin {"execute", "run"})
  BY <1>1, <1>4
<1>6. \A k \in Jobs : main'.at = "sync" /\ main'.job = k => called[k] = 0
  BY <1>3 DEF OwnsJob
<1> QED BY <1>2, <1>3, <1>5, <1>6, QuietRuns

(* A worker moves, with its job or without it from now on.                  *)
LEMMA MovesRuns ==
    ASSUME PoolTypeOK, JobInv, RunsInv, NEW w \in Workers, NEW j \in Jobs, Held(j, w),
           NEW place \in WorkerPlaces, Goes(w, place),
           UNCHANGED <<promise, called, pool_queue, main>>,
           \A k \in Jobs \ {j} : state'[k] = state[k],
           state'[j] # "NEW", state'[j] = "DONE" => called[j] = 1,
           place \in Busy => called[j] = Ran(place \notin {"execute", "run"}),
           \A k \in Jobs : Noted(k)' => Noted(k) \/ (k = j /\ called[j] = 1)
    PROVE  RunsInv' /\ UNCHANGED phases
<1>1. /\ worker'[w].at = place /\ worker'[w].job = j
      /\ \A v \in Workers : v # w => worker'[v] = worker[v]
  BY Moved DEF PoolTypeOK, WorkersTyped, Held, Busy
<1>2. \A k \in Jobs : \A v \in Workers : Held(k, v)' => Held(k, v)
  BY <1>1 DEF Held
<1>3. /\ \A k \in Jobs : Queued(k)' <=> Queued(k)
      /\ \A k \in Jobs : InHands(k)' => InHands(k)
  BY <1>2 DEF Queued, InHands
<1>4. \A k \in Jobs :
         /\ state[k] = "DONE" => called[k] = 1
         /\ Queued(k) => called[k] = 0
         /\ Noted(k) => called[k] = 1
         /\ main.at = "sync" /\ main.job = k => called[k] = 0
  BY DEF RunsInv, JobFine
<1>5. \A k \in Jobs : \A v \in Workers :
         Held(k, v) => called[k] = Ran(worker[v].at \notin {"execute", "run"})
  BY DEF RunsInv, JobFine
<1>6. ASSUME NEW k \in Jobs, NEW v \in Workers, Held(k, v)'
      PROVE  called[k] = Ran(worker'[v].at \notin {"execute", "run"})
  <2>1. CASE v = w
    <3>1. k = j /\ place \in Busy BY <1>1, <1>6, <2>1 DEF Held
    <3> QED BY <1>1, <2>1, <3>1
  <2>2. CASE v # w
    <3>1. worker'[v] = worker[v] /\ Held(k, v) BY <1>1, <1>2, <1>6, <2>2
    <3> QED BY <1>5, <3>1
  <2> QED BY <2>1, <2>2
<1>7. state[j] # "NEW" BY DEF JobInv, NewIsNowhere, InHands
<1>8. ASSUME NEW k \in Jobs
      PROVE  /\ state'[k] = "NEW" <=> state[k] = "NEW"
             /\ state'[k] = "DONE" => called[k] = 1
             /\ Noted(k)' => called[k] = 1
  BY <1>4, <1>7, <1>8
<1> QED BY <1>3, <1>4, <1>6, <1>8, QuietRuns

(* A worker calls the function of its job.                                  *)
LEMMA RunRuns ==
    ASSUME PoolTypeOK, JobInv, RunsInv, NEW w \in Workers, Run(w)
    PROVE  RunsInv' /\ Service!Next
<1>1. PICK j \in Jobs : j = worker[w].job /\ Held(j, w) /\ worker[w].at = "run"
  BY DEF Run, PoolTypeOK, WorkersTyped, Held, Busy
<1>2. /\ UNCHANGED <<state, promise, pool_queue, notifications, delivered, main>>
      /\ called' = [called EXCEPT ![j] = @ + 1]
  BY <1>1 DEF Run, notevars
<1>3. /\ worker'[w].at = "finish" /\ worker'[w].job = j
      /\ \A v \in Workers : v # w => worker'[v] = worker[v]
  BY <1>1, Moved DEF Run, PoolTypeOK, WorkersTyped, WorkerPlaces, Busy
<1>4. JobFine(j) BY DEF RunsInv
<1>5. called[j] = 0 BY <1>1, <1>4 DEF JobFine, Ran
<1>6. called \in [Jobs -> Nat] BY DEF RunsInv
<1>7. called' = [called EXCEPT ![j] = 1] BY <1>2, <1>5, <1>6
<1>8. /\ called'[j] = 1 /\ called' \in [Jobs -> Nat]
      /\ \A k \in Jobs : k # j => called'[k] = called[k]
  BY <1>6, <1>7
<1>9. /\ InHands(j) /\ ~Queued(j) /\ ~Noted(j) /\ state[j] # "NEW"
      /\ \A v \in Workers : Held(j, v) => v = w
  <2>1. InHands(j) BY <1>1 DEF InHands
  <2> QED BY <1>1, <2>1 DEF JobInv, InOnePlace, NewIsNowhere, NotedIsDone
<1>10. ~(main.at = "sync" /\ main.job = j) BY <1>9 DEF JobInv, MainOwns, OwnsJob
<1>11. \A k \in Jobs : \A v \in Workers : Held(k, v)' <=> Held(k, v)
  BY <1>1, <1>3 DEF Held, Busy
<1>12. /\ \A k \in Jobs : (Queued(k)' <=> Queued(k)) /\ (Noted(k)' <=> Noted(k))
       /\ \A k \in Jobs : InHands(k)' <=> InHands(k)
  BY <1>2, <1>11 DEF Queued, InHands, Noted
<1>13. promise[j] \in {"none", "paused", "asleep"}
  BY <1>4, <1>5, <1>9 DEF JobFine, PoolTypeOK
<1>14. JobFine(j)'
  <2>1. \A v \in Workers :
           Held(j, v)' => called'[j] = Ran(worker'[v].at \notin {"execute", "run"})
    BY <1>3, <1>8, <1>9, <1>11 DEF Ran
  <2> QED BY <1>2, <1>8, <1>9, <1>10, <1>12, <1>13, <2>1 DEF JobFine
<1>15. ASSUME NEW k \in Jobs, k # j PROVE JobFine(k)' /\ Phase(k)' = Phase(k)
  <2>1. JobFine(k) BY DEF RunsInv
  <2>2. \A v \in Workers :
           Held(k, v)' => called[k] = Ran(worker'[v].at \notin {"execute", "run"})
    <3> SUFFICES ASSUME NEW v \in Workers, Held(k, v)'
                 PROVE  called[k] = Ran(worker'[v].at \notin {"execute", "run"})
      OBVIOUS
    <3>1. Held(k, v) BY <1>11
    <3>2. v # w BY <1>1, <1>15, <3>1 DEF Held
    <3> QED BY <1>3, <2>1, <3>1, <3>2 DEF JobFine
  <2>3. /\ state[k] = "DONE" => called[k] = 1
        /\ Queued(k) => called[k] = 0
        /\ Noted(k) => called[k] = 1
        /\ main.at = "sync" /\ main.job = k => called[k] = 0
    BY <2>1 DEF JobFine
  <2> QED BY <1>2, <1>8, <1>12, <1>15, <2>1, <2>2, <2>3, Unnoticed
<1>16. Phase(j) = "asked" BY <1>5, <1>9, <1>13, PhaseIs
<1>17. Phase(j)' = "ran" BY <1>2, <1>8, <1>13, PhaseWillBe
<1>18. Service!Run(j) BY <1>15, <1>16, <1>17, OneJob DEF Service!Run
<1> QED BY <1>8, <1>14, <1>15, <1>18 DEF RunsInv, Service!Next

(* The caller of a job learns what becomes of its promise: nothing yet.     *)
LEMMA PromisedRuns ==
    ASSUME PoolTypeOK, RunsInv, NEW j \in Jobs,
           promise[j] \in {"none", "paused", "asleep"}, state[j] # "NEW",
           promise'[j] \in {"none", "paused", "asleep"},
           \A k \in Jobs : k # j => promise'[k] = promise[k],
           UNCHANGED <<state, called, notifications, delivered, pool_queue, worker>>,
           main'.at # "sync"
    PROVE  RunsInv' /\ UNCHANGED phases
<1>1. /\ \A k : \A w : Held(k, w)' <=> Held(k, w)
      /\ \A k : (Queued(k)' <=> Queued(k)) /\ (InHands(k)' <=> InHands(k))
      /\ \A k \in Jobs : Noted(k)' <=> Noted(k)
  BY DEF Held, Queued, InHands, Noted
<1>2. \A k \in Jobs :
         /\ state[k] = "DONE" => called[k] = 1
         /\ Queued(k) => called[k] = 0
         /\ Noted(k) => called[k] = 1
  BY DEF RunsInv, JobFine
<1>3. \A k \in Jobs : \A v \in Workers :
         Held(k, v) => called[k] = Ran(worker[v].at \notin {"execute", "run"})
  BY DEF RunsInv, JobFine
<1>4. \A k \in Jobs : \A v \in Workers :
         Held(k, v)' => called[k] = Ran(worker'[v].at \notin {"execute", "run"})
  BY <1>1, <1>3
<1>5. \A k \in Jobs : \/ promise'[k] = promise[k]
                       \/ /\ promise[k] \in {"none", "paused", "asleep"} /\ state[k] # "NEW"
                          /\ promise'[k] \in {"none", "paused", "asleep"}
  OBVIOUS
<1> QED BY <1>1, <1>2, <1>4, <1>5, QuietRuns

(* A worker takes the first queued job.                                     *)
LEMMA TakesRuns ==
    ASSUME PoolTypeOK, JobInv, RunsInv, NEW w \in Workers, NextJob(w)
    PROVE  RunsInv' /\ UNCHANGED phases
<1>1. pool_queue \in Seq(Jobs) /\ pool_queue # <<>> BY DEF PoolTypeOK, NextJob
<1>2. PICK q \in Jobs : q = Head(pool_queue) BY <1>1, TailOf
<1>3. Queued(q) /\ \A k : Queued(k)' => Queued(k)
  BY <1>1, <1>2, TailOf DEF NextJob, Queued
<1>4. /\ worker'[w].at = "execute" /\ worker'[w].job = q
      /\ \A v \in Workers : v # w => worker'[v] = worker[v]
  BY <1>2, Placed DEF NextJob, PoolTypeOK, WorkerPlaces, Busy
<1>5. UNCHANGED <<state, called, promise, notifications, delivered, main>>
  BY DEF NextJob, jobvars, notevars
<1>6. \A k \in Jobs : Noted(k)' <=> Noted(k) BY <1>5 DEF Noted
<1>7. \A k \in Jobs :
         /\ state[k] = "DONE" => called[k] = 1
         /\ Queued(k) => called[k] = 0
         /\ Noted(k) => called[k] = 1
         /\ main.at = "sync" /\ main.job = k => called[k] = 0
  BY DEF RunsInv, JobFine
<1>8. \A k \in Jobs : \A v \in Workers :
         Held(k, v) => called[k] = Ran(worker[v].at \notin {"execute", "run"})
  BY DEF RunsInv, JobFine
<1>9. \A k \in Jobs : \A v \in Workers :
         Held(k, v)' => Held(k, v) \/ (v = w /\ k = q)
  BY <1>4 DEF Held
<1>10. \A k \in Jobs : InHands(k)' => InHands(k) BY <1>3, <1>9 DEF InHands
<1>11. ASSUME NEW k \in Jobs, NEW v \in Workers, Held(k, v)'
       PROVE  called[k] = Ran(worker'[v].at \notin {"execute", "run"})
  <2>1. CASE v = w
    <3>1. k = q BY <1>4, <1>11, <2>1 DEF Held
    <3> QED BY <1>3, <1>4, <1>7, <2>1, <3>1 DEF Ran
  <2>2. CASE v # w BY <1>4, <1>8, <1>9, <1>11, <2>2
  <2> QED BY <2>1, <2>2
<1> QED BY <1>3, <1>5, <1>6, <1>7, <1>10, <1>11, QuietRuns

(* Every step of the pool is a step of the service, or none.                *)
LEMMA RunsNext ==
    PoolTypeOK /\ JobInv /\ RunsInv /\ [PoolNext]_poolvars
       => RunsInv' /\ [Service!Next]_phases
<1> SUFFICES ASSUME PoolTypeOK, JobInv, RunsInv, [PoolNext]_poolvars
             PROVE  RunsInv' /\ [Service!Next]_phases
  OBVIOUS
<1> DEFINE Goal == RunsInv' /\ [Service!Next]_phases
<1>w. WorkersTyped(worker) BY DEF PoolTypeOK
<1>j. ASSUME NEW w \in Workers, worker[w].at \in Busy
      PROVE  worker[w].job \in Jobs /\ Held(worker[w].job, w)
  BY <1>w, <1>j DEF WorkersTyped, Held
<1>m. main.at \in OwnsJob => main.job \in Jobs BY DEF PoolTypeOK
<1>n. ASSUME NEW j \in Jobs, state[j] = "NEW"
      PROVE  ~Queued(j) /\ ~InHands(j) /\ \A w \in Workers : ~Held(j, w)
  BY <1>n DEF JobInv, NewIsNowhere, InHands
<1>f. /\ \A k \in Jobs : state[k] = "DONE" => called[k] = 1
      /\ \A k \in Jobs : Noted(k) => called[k] = 1
      /\ \A k \in Jobs : main.at = "sync" /\ main.job = k => called[k] = 0
      /\ \A k \in Jobs : \A w \in Workers :
            Held(k, w) => called[k] = Ran(worker[w].at \notin {"execute", "run"})
  BY DEF RunsInv, JobFine
<1>1. ASSUME NEW j \in Jobs, RunHere(j) PROVE Goal
  <2>1. state[j] = "NEW" /\ Created(j) /\ main' = At("sync", j)
        /\ UNCHANGED <<promise, pool_queue, worker>>
    BY <1>1 DEF RunHere, Created
  <2>2. /\ \A k \in Jobs : \A w \in Workers : Held(k, w)' <=> Held(k, w)
        /\ \A k \in Jobs : Queued(k)' <=> Queued(k)
    BY <2>1 DEF Held, Queued
  <2>3. \A k \in Jobs : k # j => ~(main'.at = "sync" /\ main'.job = k) BY <2>1 DEF At
  <2> QED BY <1>n, <2>1, <2>2, <2>3, CreatedRuns
<1>2. ASSUME NEW j \in Jobs, LaunchFails(j) PROVE Goal
  <2>1. state[j] = "NEW" /\ Created(j) /\ main' = Loop
        /\ UNCHANGED <<pool_queue, worker>>
        /\ promise'[j] = "rejected" /\ \A k \in Jobs : k # j => promise'[k] = promise[k]
    BY <1>2 DEF LaunchFails, Created, PoolTypeOK
  <2>2. /\ \A k \in Jobs : \A w \in Workers : Held(k, w)' <=> Held(k, w)
        /\ \A k \in Jobs : (Queued(k)' <=> Queued(k)) /\ (InHands(k)' <=> InHands(k))
    BY <2>1 DEF Held, Queued, InHands
  <2>3. \A k \in Jobs : ~(main'.at = "sync" /\ main'.job = k) BY <2>1 DEF At, Loop
  <2> QED BY <1>n, <2>1, <2>2, <2>3, CreatedRuns
<1>3. ASSUME NEW j \in Jobs, Launch(j) PROVE Goal
  <2>1. state[j] = "NEW" /\ Created(j) /\ main' = At("started", j)
        /\ UNCHANGED <<promise, pool_queue>>
    BY <1>3 DEF Launch, Created
  <2>2. PICK t \in Workers : t = NewThread /\ worker[t].at = "unborn"
    BY <1>3 DEF Launch, NewThread, Threads
  <2>3. /\ worker'[t].at = "execute" /\ worker'[t].job = j
        /\ \A v \in Workers : v # t => worker'[v] = worker[v]
    BY <1>w, <1>3, <2>2, Placed DEF Launch, WorkerPlaces, Busy
  <2>4. \A k \in Jobs : \A v \in Workers :
          k # j /\ Held(k, v)' => Held(k, v) /\ worker'[v] = worker[v]
    BY <2>3 DEF Held
  <2>5. \A v \in Workers : Held(j, v)' => worker'[v].at = "execute"
    <3>1. \A v \in Workers : v # t => ~Held(j, v)' BY <1>n, <2>1, <2>3 DEF Held
    <3> QED BY <2>3, <3>1
  <2>6. \A k \in Jobs : Queued(k)' <=> Queued(k) BY <2>1 DEF Queued
  <2>7. \A k \in Jobs : ~(main'.at = "sync" /\ main'.job = k) BY <2>1 DEF At
  <2> QED BY <1>n, <2>1, <2>4, <2>5, <2>6, <2>7, CreatedRuns
<1>4. ASSUME NEW j \in Jobs, Enqueue(j) PROVE Goal
  <2>1. state[j] = "NEW" /\ Created(j) /\ main' = At("started", j)
        /\ UNCHANGED promise /\ pool_queue' = Append(pool_queue, j)
    BY <1>4 DEF Enqueue, Created
  <2>2. \A v \in Workers : \/ worker'[v] = worker[v]
                           \/ worker[v].at = "wait" /\ worker'[v].at = "enter"
    BY <1>w, <1>4, Signalled DEF Enqueue
  <2>3. \A k \in Jobs : \A v \in Workers :
          Held(k, v)' => Held(k, v) /\ worker'[v] = worker[v]
    BY <2>2 DEF Held, Busy
  <2>4. pool_queue \in Seq(Jobs) BY DEF PoolTypeOK
  <2>5. \A k \in Jobs : k # j => (Queued(k)' <=> Queued(k))
    BY <2>1, <2>4, Appended DEF Queued
  <2>6. \A k \in Jobs : ~(main'.at = "sync" /\ main'.job = k) BY <2>1 DEF At
  <2>7. \A v \in Workers : ~Held(j, v)' BY <1>n, <2>1, <2>3
  <2> QED BY <2>1, <2>3, <2>5, <2>6, <2>7, CreatedRuns
<1>5. ASSUME NEW j \in Jobs, CheckJob(j) PROVE Goal
  <2>1. /\ main = Loop /\ main' = Loop /\ promise[j] = "paused"
        /\ UNCHANGED <<state, called, pool_queue, worker, notifications, delivered>>
    BY <1>5 DEF CheckJob, notevars
  <2>2. state[j] # "NEW" BY <2>1 DEF RunsInv, JobFine
  <2>3. CASE state[j] = "DONE"
    <3>1. Answer(j) BY <1>5, <2>3 DEF CheckJob
    <3> QED BY <1>f, <2>1, <2>2, <2>3, <3>1, AnswerRuns
  <2>4. CASE state[j] # "DONE"
    <3>1. promise' = [promise EXCEPT ![j] = "asleep"] BY <1>5, <2>4 DEF CheckJob
    <3>2. /\ promise'[j] = "asleep"
          /\ \A k \in Jobs : k # j => promise'[k] = promise[k]
      BY <3>1 DEF PoolTypeOK
    <3> QED BY <2>1, <2>2, <3>2, PromisedRuns DEF Loop, At
  <2> QED BY <2>3, <2>4
<1>6. CASE ReadState
  <2>1. PICK j \in Jobs : j = main.job BY <1>m, <1>6 DEF ReadState, OwnsJob
  <2>2. promise[j] = "none" /\ state[j] # "NEW"
    BY <1>6, <2>1 DEF ReadState, JobInv, MainOwns, OwnsJob
  <2>3. UNCHANGED <<state, called, notifications, delivered, pool_queue, worker>>
    BY <1>6 DEF ReadState, notevars
  <2>4. main'.at # "sync" BY <1>6 DEF ReadState, Loop, At
  <2>5. /\ promise'[j] \in {"none", "paused", "asleep"}
        /\ \A k \in Jobs : k # j => promise'[k] = promise[k]
    BY <1>6, <2>1, <2>2 DEF ReadState, PoolTypeOK
  <2> QED BY <2>2, <2>3, <2>4, <2>5, PromisedRuns
<1>7. CASE Join
  <2>1. PICK j \in Jobs : j = main.job BY <1>m, <1>7 DEF Join, OwnsJob
  <2>2. state[j] = "DONE" /\ promise[j] = "none"
    BY <1>7, <2>1 DEF Join, JobInv, MainOwns, OwnsJob
  <2>3. called[j] = 1 BY <1>f, <2>2
  <2> QED BY <1>7, <2>1, <2>2, <2>3, AnswerRuns DEF Join, notevars
<1>8. CASE RunSync
  <2>1. PICK j \in Jobs : j = main.job BY <1>m, <1>8 DEF RunSync, OwnsJob
  <2>2. state[j] # "NEW" /\ ~InHands(j) /\ promise[j] = "none" /\ called[j] = 0
    BY <1>f, <1>8, <2>1 DEF RunSync, JobInv, MainOwns, OwnsJob
  <2> QED BY <1>8, <2>1, <2>2, AnswerRuns DEF RunSync, notevars
<1>9. CASE CallNotification
  <2>0. delivered \in Seq(Jobs) /\ delivered # <<>> BY <1>9 DEF PoolTypeOK, CallNotification
  <2>1. PICK j \in Jobs : j = Head(delivered) BY <2>0, TailOf
  <2>2. /\ InSeq(delivered, j)
        /\ \A k \in Jobs : InSeq(delivered', k) => InSeq(delivered, k)
    BY <1>9, <2>0, <2>1, TailOf DEF CallNotification
  <2>3. state[j] # "NEW" /\ called[j] = 1
    BY <1>f, <2>2 DEF JobInv, NotedIsDone, Noted
  <2>4. /\ main' = Loop
        /\ UNCHANGED <<state, called, pool_queue, worker, notifications, main>>
    BY <1>9 DEF CallNotification
  <2>5. CASE promise[j] \in {"paused", "asleep"}
    <3>1. Answer(j) BY <1>9, <2>1, <2>5 DEF CallNotification
    <3> QED BY <2>2, <2>3, <2>4, <2>5, <3>1, AnswerRuns
  <2>6. CASE ~(promise[j] \in {"paused", "asleep"})
    <3>1. UNCHANGED promise BY <1>9, <2>1, <2>6 DEF CallNotification
    <3>2. \A k \in Jobs : Noted(k)' => Noted(k) BY <2>2, <2>4 DEF Noted
    <3> QED BY <2>4, <3>1, <3>2, AsideRuns
  <2> QED BY <2>5, <2>6
<1>10. CASE RecvEvent \/ RecvAgain
  <2>1. \A k \in Jobs : Noted(k)' => Noted(k)
    BY <1>10 DEF RecvEvent, RecvAgain, notevars, Noted
  <2> QED BY <1>10, <2>1, AsideRuns DEF RecvEvent, RecvAgain, jobvars, At, OwnsJob
<1>11. CASE RecvAll
  <2>1. \A k \in Jobs : Noted(k)' => Noted(k)
    BY <1>11 DEF RecvAll, Noted, InSeq
  <2> QED BY <1>11, <2>1, AsideRuns DEF RecvAll, jobvars, Loop, At, OwnsJob
<1>12. ASSUME NEW w \in Workers, NextJob(w) PROVE Goal BY <1>12, TakesRuns
<1>13. ASSUME NEW w \in Workers, Wait(w) PROVE Goal
  <2>1. /\ worker'[w].at = "wait" /\ worker[w].at = "enter"
        /\ \A v \in Workers : v # w => worker'[v] = worker[v]
    BY <1>w, <1>13, Placed DEF Wait, WorkerPlaces, Busy
  <2>2. \A k \in Jobs : Noted(k)' => Noted(k) BY <1>13 DEF Wait, notevars, Noted
  <2> QED BY <1>13, <2>1, <2>2, AsideRuns DEF Wait, jobvars, Busy
<1>14. ASSUME NEW w \in Workers, SpuriousWakeup(w) PROVE Goal
  <2>1. /\ worker'[w].at = "enter" /\ worker[w].at = "wait"
        /\ \A v \in Workers : v # w => worker'[v] = worker[v]
    BY <1>w, <1>14, Moved DEF SpuriousWakeup, WorkerPlaces, Busy
  <2>2. \A k \in Jobs : Noted(k)' => Noted(k) BY <1>14 DEF SpuriousWakeup, notevars, Noted
  <2> QED BY <1>14, <2>1, <2>2, AsideRuns DEF SpuriousWakeup, jobvars, Busy
<1>15. ASSUME NEW w \in Workers, Execute(w) PROVE Goal
  <2>1. PICK j \in Jobs : j = worker[w].job /\ Held(j, w)
    BY <1>j, <1>15 DEF Execute, Busy
  <2>2. /\ state' = [state EXCEPT ![j] = "RUNNING"]
        /\ UNCHANGED <<called, promise, pool_queue, notifications, delivered, main>>
        /\ Goes(w, "run") /\ worker[w].at = "execute"
    BY <1>15, <2>1 DEF Execute, notevars
  <2>3. called[j] = Ran(FALSE) BY <1>f, <2>1, <2>2 DEF Ran
  <2>4. /\ state'[j] = "RUNNING"
        /\ \A k \in Jobs \ {j} : state'[k] = state[k]
    BY <2>2 DEF PoolTypeOK
  <2>5. \A k \in Jobs : Noted(k)' => Noted(k) BY <2>2 DEF Noted
  <2> QED BY <2>1, <2>2, <2>3, <2>4, <2>5, MovesRuns DEF Busy, WorkerPlaces, Ran
<1>16. ASSUME NEW w \in Workers, Run(w) PROVE Goal BY <1>16, RunRuns
<1>17. ASSUME NEW w \in Workers, Finish(w) PROVE Goal
  <2>1. PICK j \in Jobs : j = worker[w].job /\ Held(j, w)
    BY <1>j, <1>17 DEF Finish, Busy
  <2>2. /\ state' = [state EXCEPT ![j] = "DONE"]
        /\ UNCHANGED <<called, promise, pool_queue, notifications, delivered, main>>
        /\ Goes(w, "test") /\ worker[w].at = "finish"
    BY <1>17, <2>1 DEF Finish, notevars
  <2>3. called[j] = 1 BY <1>f, <2>1, <2>2 DEF Ran
  <2>4. /\ state'[j] = "DONE"
        /\ \A k \in Jobs \ {j} : state'[k] = state[k]
    BY <2>2 DEF PoolTypeOK
  <2>5. \A k \in Jobs : Noted(k)' => Noted(k) BY <2>2 DEF Noted
  <2> QED BY <2>1, <2>2, <2>3, <2>4, <2>5, MovesRuns DEF Busy, WorkerPlaces, Ran
<1>18. ASSUME NEW w \in Workers, TestFast(w) PROVE Goal
  <2>1. PICK j \in Jobs : j = worker[w].job /\ Held(j, w)
    BY <1>j, <1>18 DEF TestFast, Busy
  <2>2. PICK place \in {"enter", "notify"} : Goes(w, place) BY <1>18 DEF TestFast
  <2>3. /\ UNCHANGED <<state, called, promise, pool_queue, notifications, delivered, main>>
        /\ worker[w].at = "test"
    BY <1>18 DEF TestFast, notevars
  <2>4. called[j] = 1 BY <1>f, <2>1, <2>3 DEF Ran
  <2>5. \A k \in Jobs : Noted(k)' => Noted(k) BY <2>3 DEF Noted
  <2>6. state[j] # "NEW" BY <2>1 DEF JobInv, NewIsNowhere, InHands
  <2>7. place \in WorkerPlaces /\ (place \in Busy => called[j] = Ran(place \notin {"execute", "run"}))
    BY <2>4 DEF WorkerPlaces, Busy, Ran
  <2> QED BY <2>1, <2>2, <2>3, <2>4, <2>5, <2>6, <2>7, MovesRuns
<1>19. ASSUME NEW w \in Workers, Notify(w) PROVE Goal
  <2>1. PICK j \in Jobs : j = worker[w].job /\ Held(j, w)
    BY <1>j, <1>19 DEF Notify, Busy
  <2>2. /\ notifications' = Append(notifications, j) /\ Goes(w, "enter")
        /\ UNCHANGED <<state, called, promise, pool_queue, delivered, main>>
        /\ worker[w].at = "notify"
    BY <1>19, <2>1 DEF Notify, jobvars
  <2>3. called[j] = 1 BY <1>f, <2>1, <2>2 DEF Ran
  <2>4. \A k \in Jobs : Noted(k)' => Noted(k) \/ (k = j /\ called[j] = 1)
    <3>1. notifications \in Seq(Jobs) BY DEF PoolTypeOK
    <3> QED BY <2>2, <2>3, <3>1, Appended DEF Noted
  <2>5. state[j] # "NEW" BY <2>1 DEF JobInv, NewIsNowhere, InHands
  <2> QED BY <2>1, <2>2, <2>3, <2>4, <2>5, MovesRuns DEF Busy, WorkerPlaces
<1>20. CASE UNCHANGED poolvars
  <2>1. \A k \in Jobs : Noted(k)' => Noted(k) BY <1>20 DEF poolvars, notevars, Noted
  <2> QED BY <1>20, <2>1, AsideRuns DEF poolvars, jobvars
<1> QED BY <1>1, <1>2, <1>3, <1>4, <1>5, <1>6, <1>7, <1>8, <1>9, <1>10, <1>11, <1>12, <1>13,
           <1>14, <1>15, <1>16, <1>17, <1>18, <1>19, <1>20
        DEF PoolNext, StartJob, MainStep, WorkerStep

-------------------------------------------------------------------------------
(* Theorems.                                                               *)

LEMMA PoolInvariant == PoolSpec => [](PoolTypeOK /\ PoolShape /\ JobInv)
<1>1. PoolInit => PoolTypeOK /\ PoolShape /\ JobInv BY PoolTypeInit, ShapeInit, JobInit
<1>2. PoolTypeOK /\ PoolShape /\ JobInv /\ [PoolNext]_poolvars
         => (PoolTypeOK /\ PoolShape /\ JobInv)'
  BY PoolTypeNext, ShapeNext, JobNext
<1> QED BY <1>1, <1>2, PTL DEF PoolSpec

(* run_job keeps what it promises, as far as it does at all: a job is       *)
(* refused at once or its function is called exactly once, in a worker or   *)
(* in the main thread, and only then is the caller answered; after that     *)
(* nothing changes for the caller.  (That he is answered in the end is      *)
(* liveness.)                                                               *)
THEOREM JobsRunOnce == PoolSpec => Service!Init /\ [][Service!Next]_phases
<1>1. PoolInit => RunsInv /\ Service!Init BY RunsInit
<1>2. PoolTypeOK /\ JobInv /\ RunsInv /\ [PoolNext]_poolvars => RunsInv' /\ [Service!Next]_phases
  BY RunsNext
<1> QED BY <1>1, <1>2, PoolInvariant, PTL DEF PoolSpec

(* The main thread never frees a job that a worker has or that is queued    *)
(* (lwt_unix_start_job, lwt_unix_check_job and the self_result functions    *)
(* against execute_job).                                                    *)
THEOREM PoolMemory == PoolSpec => []NoUseAfterFree
<1>1. PoolTypeOK /\ JobInv => NoUseAfterFree
  <2> SUFFICES ASSUME PoolTypeOK, JobInv PROVE NoUseAfterFree OBVIOUS
  <2>1. ASSUME NEW w \in Workers,
               worker[w].at \in {"execute", "run", "finish", "test", "notify"}
        PROVE  worker[w].job \notin freed
    BY <2>1 DEF JobInv, FreedIsNowhere, InHands, Held, Busy
  <2>2. ASSUME NEW i \in DOMAIN pool_queue PROVE pool_queue[i] \notin freed
    <3>1. i \in 1 .. Len(pool_queue) BY DEF PoolTypeOK
    <3>2. Queued(pool_queue[i]) BY <3>1 DEF Queued, InSeq
    <3> QED BY <3>2 DEF JobInv, FreedIsNowhere, InHands
  <2> QED BY <2>1, <2>2 DEF NoUseAfterFree
<1> QED BY <1>1, PoolInvariant, PTL

(* The pool has at most pool_size threads, however many the system would    *)
(* give it (lwt_unix_start_job).                                            *)
THEOREM PoolStaysBounded == PoolSpec => []PoolBounded
<1>1. PoolShape => PoolBounded BY DEF PoolShape
<1> QED BY <1>1, PoolInvariant, PTL

(* A queued job is never left with every worker waiting (lwt_unix_start_job *)
(* against worker_loop), spurious wakeups included.                         *)
THEOREM PoolServesQueue == PoolSpec => []QueueServed
<1>1. PoolShape => QueueServed BY DEF PoolShape
<1> QED BY <1>1, PoolInvariant, PTL

-------------------------------------------------------------------------------
(* The file-backed disk.                                                   *)

ElementsOf(s) == {s[i] : i \in DOMAIN s}

(* Whatever the file can hold.                                              *)
Sectors ==
    ElementsOf(Image) \cup {"hole"}
    \cup UNION {UNION {ElementsOf(r.buffer) : r \in Calls[p]} : p \in Callers}

DiskInv ==
    /\ image \in Seq(Sectors) /\ offset \in Nat
    /\ pc \in [Callers -> {"idle", "seek", "transfer"}]
    /\ op \in [Callers -> {NoOp} \cup UNION {Calls[p] : p \in Callers}]
    /\ DOMAIN result = Callers
    /\ \A p \in Callers : pc[p] # "idle" => op[p] \in Calls[p]

(* No call is made while another one is on its way.                         *)
OneAtATime == \A p, q \in Callers : pc[p] # "idle" /\ pc[q] # "idle" => p = q

(* A caller that is about to transfer finds the offset where it has put it. *)
AtItsSector == \A p \in Callers : pc[p] = "transfer" => offset = op[p].sector

LEMMA CallTyped ==
    ASSUME NEW p \in Callers, NEW r \in Calls[p]
    PROVE  r.kind \in {"read", "write"} /\ r.sector \in Nat /\ r.buffer \in Seq(Sectors)
<1>1. r.kind \in {"read", "write"} /\ r.sector \in Nat /\ r.buffer \in Seq(ElementsOf(r.buffer))
  BY DiskAssumption DEF IsSequence, ElementsOf
<1>2. ElementsOf(r.buffer) \subseteq Sectors BY DEF Sectors
<1> QED BY <1>1, <1>2

(* The file after a write, sector by sector.                                *)
LEMMA OverlaidIs ==
    ASSUME NEW b \in Seq(Sectors), image \in Seq(Sectors), offset \in Nat
    PROVE  LET end == offset + Len(b)
               n == IF b # <<>> /\ end > Len(image) THEN end ELSE Len(image)
           IN  /\ Overlaid(b) \in Seq(Sectors) /\ Len(Overlaid(b)) = n
               /\ \A i \in 1 .. n :
                     /\ offset < i /\ i <= end => Overlaid(b)[i] = b[i - offset]
                     /\ ~(offset < i /\ i <= end) /\ i <= Len(image) => Overlaid(b)[i] = image[i]
<1> DEFINE end == offset + Len(b)
           n == IF b # <<>> /\ end > Len(image) THEN end ELSE Len(image)
           Sector(i) == IF offset < i /\ i <= end THEN b[i - offset]
                    ELSE IF i <= Len(image) THEN image[i] ELSE "hole"
<1>1. Len(image) \in Nat /\ Len(b) \in Nat /\ end \in Nat /\ n \in Nat /\ end = offset + Len(b)
  BY LenProperties
<1>2. Overlaid(b) = [i \in 1 .. n |-> Sector(i)] BY DEF Overlaid
<1>3. ASSUME NEW i \in 1 .. n PROVE Sector(i) \in Sectors
  <2>1. CASE offset < i /\ i <= end
    <3>1. i - offset \in 1 .. Len(b) BY <1>1, <2>1
    <3> QED BY <2>1, <3>1, ElementOfSeq
  <2>2. CASE ~(offset < i /\ i <= end)
    <3>1. CASE i <= Len(image)
      <4>1. i \in 1 .. Len(image) BY <1>1, <3>1
      <4> QED BY <2>2, <3>1, <4>1, ElementOfSeq
    <3>2. CASE ~(i <= Len(image)) BY <2>2, <3>2 DEF Sectors
    <3> QED BY <3>1, <3>2
  <2> QED BY <2>1, <2>2
<1> HIDE DEF n, end
<1>4. Overlaid(b) \in Seq(Sectors) /\ Len(Overlaid(b)) = n
  <2>1. Overlaid(b) \in [1 .. n -> Sectors] BY <1>2, <1>3
  <2>2. Overlaid(b) \in Seq(Sectors) BY <1>1, <2>1, SeqDef
  <2> QED BY <1>1, <2>1, <2>2, LenProperties
<1>5. \A i \in 1 .. n : Overlaid(b)[i] = Sector(i) BY <1>2
<1> QED BY <1>4, <1>5 DEF n, end

(* What of a buffer is written when the transfer ends after m sectors.      *)
LEMMA WrittenIs ==
    ASSUME NEW p \in Callers, op[p].buffer \in Seq(Sectors), NEW m \in 0 .. Length(p),
           NEW b, b = SubSeq(op[p].buffer, 1, m)
    PROVE  /\ b \in Seq(Sectors) /\ Len(b) = m /\ \A i \in 1 .. m : b[i] = op[p].buffer[i]
           /\ m = Length(p) => b = op[p].buffer
<1> DEFINE buffer == op[p].buffer
<1>1. m \in Nat /\ Len(buffer) \in Nat /\ m <= Len(buffer) /\ Length(p) = Len(buffer)
  BY LenProperties DEF Length
<1>2. \A k \in 1 .. m : buffer[k] \in Sectors
  <2> TAKE k \in 1 .. m
  <2>1. k \in 1 .. Len(buffer) BY <1>1
  <2> QED BY <2>1, ElementOfSeq
<1>3. buffer \in Seq(Sectors) OBVIOUS
<1> HIDE DEF buffer
<1>4. /\ b \in Seq(Sectors) /\ Len(b) = (IF 1 <= m THEN m - 1 + 1 ELSE 0)
      /\ \A i \in 1 .. m - 1 + 1 : b[i] = buffer[1 + i - 1]
  <2>1. b = SubSeq(buffer, 1, m) BY DEF buffer
  <2> QED BY <1>1, <1>2, <2>1, SubSeqProperties
<1>5. Len(b) = m BY <1>1, <1>4
<1>6. ASSUME NEW i \in 1 .. m PROVE b[i] = buffer[i]
  <2>1. i \in 1 .. m - 1 + 1 /\ 1 + i - 1 = i BY <1>1
  <2> QED BY <1>4, <2>1
<1>7. m = Len(buffer) => b = buffer
  BY <1>3, <1>4, <1>5, <1>6, SeqEqual
<1> QED BY <1>1, <1>4, <1>5, <1>6, <1>7 DEF buffer

LEMMA DiskInvInit == DiskInit => DiskInv /\ AtItsSector
<1> SUFFICES ASSUME DiskInit PROVE DiskInv /\ AtItsSector OBVIOUS
<1>1. Image \in Seq(Sectors)
  <2>1. Image \in Seq(ElementsOf(Image)) BY DiskAssumption DEF IsSequence, ElementsOf
  <2>2. ElementsOf(Image) \subseteq Sectors BY DEF Sectors
  <2> QED BY <2>1, <2>2
<1>2. DiskInv BY <1>1 DEF DiskInit, DiskInv
<1> QED BY <1>2 DEF DiskInit, AtItsSector

LEMMA DiskInvNext ==
    DiskInv /\ AtItsSector /\ OneAtATime /\ OneAtATime' /\ [DiskNext]_diskvars
       => DiskInv' /\ AtItsSector'
<1> SUFFICES ASSUME DiskInv, AtItsSector, OneAtATime, OneAtATime', [DiskNext]_diskvars
             PROVE  DiskInv' /\ AtItsSector'
  OBVIOUS
<1>1. ASSUME NEW p \in Callers, NEW r \in Calls[p], Begin(p, r)
      PROVE  DiskInv' /\ AtItsSector'
  <2>1. /\ pc' \in [Callers -> {"idle", "seek", "transfer"}] /\ pc'[p] = "seek"
        /\ \A q \in Callers : q # p => pc'[q] = pc[q]
    BY <1>1 DEF Begin, DiskInv
  <2>2. /\ op' \in [Callers -> {NoOp} \cup UNION {Calls[q] : q \in Callers}] /\ op'[p] = r
        /\ \A q \in Callers : q # p => op'[q] = op[q]
    BY <1>1 DEF Begin, DiskInv
  <2>3. UNCHANGED <<image, offset, result>> BY <1>1 DEF Begin
  <2>4. DiskInv' BY <2>1, <2>2, <2>3 DEF DiskInv
  <2>5. AtItsSector' BY <2>1, <2>2, <2>3 DEF AtItsSector
  <2> QED BY <2>4, <2>5
<1>2. ASSUME NEW p \in Callers, Seek(p) PROVE DiskInv' /\ AtItsSector'
  <2>1. /\ pc' \in [Callers -> {"idle", "seek", "transfer"}] /\ pc'[p] = "transfer"
        /\ \A q \in Callers : q # p => pc'[q] = pc[q]
    BY <1>2 DEF Seek, DiskInv
  <2>2. op[p] \in Calls[p] BY <1>2 DEF Seek, DiskInv
  <2>3. offset' = op[p].sector /\ offset' \in Nat /\ UNCHANGED <<image, op, result>>
    BY <1>2, <2>2, CallTyped DEF Seek
  <2>4. DiskInv' BY <2>1, <2>2, <2>3 DEF DiskInv
  <2>5. \A q \in Callers : pc'[q] = "transfer" => q = p BY <2>1 DEF OneAtATime
  <2>6. AtItsSector' BY <2>3, <2>5 DEF AtItsSector
  <2> QED BY <2>4, <2>6
<1>3. ASSUME NEW p \in Callers, Transfer(p) PROVE DiskInv' /\ AtItsSector'
  <2>1. /\ pc[p] = "transfer" /\ pc' \in [Callers -> {"idle", "seek", "transfer"}]
        /\ pc'[p] = "idle" /\ \A q \in Callers : q # p => pc'[q] = pc[q]
    BY <1>3 DEF Transfer, DiskInv
  <2>2. op[p] \in Calls[p] BY <2>1 DEF DiskInv
  <2>3. op[p].buffer \in Seq(Sectors) /\ Length(p) \in Nat /\ Len(image) \in Nat
    BY <2>2, CallTyped, LenProperties DEF Length, DiskInv
  <2>4. UNCHANGED op /\ DOMAIN result' = Callers BY <1>3 DEF Transfer, DiskInv
  <2>5. image' \in Seq(Sectors) /\ offset' \in Nat
    <3>1. CASE op[p].kind = "write"
      <4>1. PICK m \in 0 .. Length(p) :
              image' = Overlaid(SubSeq(op[p].buffer, 1, m)) /\ offset' = offset + m
        BY <1>3, <3>1 DEF Transfer
      <4>2. SubSeq(op[p].buffer, 1, m) \in Seq(Sectors) BY <2>3, WrittenIs
      <4>3. image' \in Seq(Sectors) BY <4>1, <4>2, OverlaidIs DEF DiskInv
      <4>4. offset' \in Nat BY <2>3, <4>1 DEF DiskInv
      <4> QED BY <4>3, <4>4
    <3>2. CASE op[p].kind # "write"
      BY <1>3, <2>3, <3>2 DEF Transfer, DiskInv
    <3> QED BY <3>1, <3>2
  <2>6. DiskInv' BY <2>1, <2>4, <2>5 DEF DiskInv
  <2>7. \A q \in Callers : pc'[q] # "transfer" BY <2>1 DEF OneAtATime
  <2>8. AtItsSector' BY <2>7 DEF AtItsSector
  <2> QED BY <2>6, <2>8
<1>4. CASE UNCHANGED diskvars BY <1>4 DEF diskvars, DiskInv, AtItsSector
<1> QED BY <1>1, <1>2, <1>3, <1>4 DEF DiskNext

(* A transfer reads, or writes, the sectors that the call names.            *)
LEMMA TransferBySector ==
    ASSUME DiskInv, AtItsSector, NEW p \in Callers, Transfer(p)
    PROVE  IF op[p].kind = "read"
           THEN result'[p] = IF op[p].sector + Length(p) <= Len(image)
                             THEN Named(image, op[p]) ELSE Out_of_bounds
           ELSE /\ result'[p] # Out_of_bounds => Named(image', op[p]) = op[p].buffer
                /\ \A i \in 1 .. Len(image) :
                      IF op[p].sector < i /\ i <= op[p].sector + Length(p)
                      THEN image'[i] \in {image[i], op[p].buffer[i - op[p].sector]}
                      ELSE image'[i] = image[i]
<1>1. op[p] \in Calls[p] /\ offset = op[p].sector
  BY DEF Transfer, DiskInv, AtItsSector
<1>2. /\ op[p].kind \in {"read", "write"} /\ offset \in Nat
      /\ op[p].buffer \in Seq(Sectors) /\ image \in Seq(Sectors)
      /\ Len(image) \in Nat /\ Length(p) \in Nat
  BY <1>1, CallTyped, LenProperties DEF DiskInv, Length
<1>3. CASE op[p].kind = "read"
  <2>1. CASE offset + Length(p) <= Len(image)
    <3>1. result'[p] = SubSeq(image, offset + 1, offset + Length(p))
      BY <1>2, <1>3, <2>1 DEF Transfer, DiskInv
    <3> QED BY <1>1, <1>3, <2>1, <3>1 DEF Named, Length
  <2>2. CASE ~(offset + Length(p) <= Len(image))
    <3>1. result'[p] = Out_of_bounds BY <1>2, <1>3, <2>2 DEF Transfer, DiskInv
    <3> QED BY <1>1, <1>3, <2>2, <3>1
  <2> QED BY <2>1, <2>2
<1>4. CASE op[p].kind = "write"
  <2> DEFINE buffer == op[p].buffer
  <2>1. PICK m \in 0 .. Length(p) :
          /\ image' = Overlaid(SubSeq(buffer, 1, m))
          /\ result' = [result EXCEPT ![p] = IF m = Length(p) THEN buffer ELSE Out_of_bounds]
    BY <1>4 DEF Transfer
  <2> DEFINE b == SubSeq(buffer, 1, m)
             end == offset + m
             n == IF b # <<>> /\ end > Len(image) THEN end ELSE Len(image)
  <2>2. /\ b \in Seq(Sectors) /\ Len(b) = m /\ \A i \in 1 .. m : b[i] = buffer[i]
        /\ m = Length(p) => b = buffer
    BY <1>2, WrittenIs
  <2>3. /\ buffer \in Seq(Sectors) /\ Len(buffer) = Length(p) /\ m \in Nat /\ m <= Length(p)
        /\ image' = Overlaid(b)
    BY <1>2, <2>1 DEF Length
  <2>10. m # 0 => b # <<>>
    <3>1. Len(<<>>) = 0 OBVIOUS
    <3> HIDE DEF b
    <3> QED BY <2>2, <3>1
  <2>11. result'[p] # Out_of_bounds => m = Length(p)
    BY <2>1 DEF DiskInv
  <2> HIDE DEF buffer, b
  <2>4. /\ image' \in Seq(Sectors) /\ Len(image') = n
        /\ \A i \in 1 .. n :
              /\ offset < i /\ i <= end => image'[i] = b[i - offset]
              /\ ~(offset < i /\ i <= end) /\ i <= Len(image) => image'[i] = image[i]
    BY <1>2, <2>2, <2>3, OverlaidIs
  <2>5. n \in Nat /\ end \in Nat /\ n >= Len(image) /\ end = offset + m /\ (m # 0 => n >= end)
    BY <1>2, <2>3, <2>10
  <2> HIDE DEF n
  <2>6. ASSUME NEW i \in 1 .. m
        PROVE  offset + i \in 1 .. n /\ image'[offset + i] = buffer[i]
    <3>1. offset + i \in 1 .. n /\ offset < offset + i /\ offset + i <= end
      BY <1>2, <2>3, <2>5
    <3> HIDE DEF end
    <3>2. image'[offset + i] = b[(offset + i) - offset] BY <2>4, <3>1
    <3>3. (offset + i) - offset = i BY <1>2
    <3> QED BY <2>2, <3>1, <3>2, <3>3
  <2>7. ASSUME NEW i \in 1 .. Len(image)
        PROVE  IF offset < i /\ i <= offset + Length(p)
               THEN image'[i] \in {image[i], buffer[i - offset]}
               ELSE image'[i] = image[i]
    <3>1. i \in 1 .. n BY <1>2, <2>5
    <3>2. CASE offset < i /\ i <= end
      <4>1. i - offset \in 1 .. m /\ offset + (i - offset) = i /\ i <= offset + Length(p)
        BY <1>2, <2>3, <2>5, <3>2
      <4>2. image'[i] = buffer[i - offset] BY <2>6, <4>1
      <4> QED BY <3>2, <4>1, <4>2
    <3>3. CASE ~(offset < i /\ i <= end)
      <4>1. image'[i] = image[i] BY <2>4, <3>1, <3>3
      <4> QED BY <4>1
    <3> QED BY <3>2, <3>3
  <2>8. ASSUME m = Length(p)
        PROVE  SubSeq(image', offset + 1, offset + Len(buffer)) = buffer
    <3> DEFINE s == SubSeq(image', offset + 1, offset + Len(buffer))
    <3>7. Len(buffer) = m BY <2>3, <2>8
    <3>1. \A k \in (offset + 1) .. (offset + Len(buffer)) : image'[k] \in Sectors
      <4> TAKE k \in (offset + 1) .. (offset + Len(buffer))
      <4>1. k - offset \in 1 .. m /\ offset + (k - offset) = k BY <1>2, <2>3, <3>7
      <4>2. k \in 1 .. n BY <2>6, <4>1
      <4> QED BY <2>4, <4>2, ElementOfSeq
    <3>2. /\ s \in Seq(Sectors)
          /\ Len(s) = IF offset + 1 <= offset + Len(buffer)
                      THEN (offset + Len(buffer)) - (offset + 1) + 1 ELSE 0
          /\ \A i \in 1 .. (offset + Len(buffer)) - (offset + 1) + 1 :
                s[i] = image'[(offset + 1) + i - 1]
      BY <1>2, <2>3, <2>4, <3>1, SubSeqProperties
    <3>3. Len(s) = Len(buffer) /\ (offset + Len(buffer)) - (offset + 1) + 1 = Len(buffer)
      BY <1>2, <2>3, <3>2
    <3>4. ASSUME NEW i \in 1 .. Len(s) PROVE s[i] = buffer[i]
      <4>1. (offset + 1) + i - 1 = offset + i BY <1>2, <2>3, <3>3
      <4> QED BY <2>6, <3>2, <3>3, <3>7, <4>1
    <3> HIDE DEF s
    <3>6. s = buffer BY <2>3, <3>2, <3>3, <3>4, SeqEqual
    <3> QED BY <3>6 DEF s
  <2>9. result'[p] # Out_of_bounds => Named(image', op[p]) = op[p].buffer
    BY <1>1, <2>8, <2>11 DEF Named, buffer
  <2> QED BY <1>1, <1>4, <2>7, <2>9 DEF buffer
<1> QED BY <1>2, <1>3, <1>4

(* With one call at a time, the shared offset does not matter: file_disk.ml *)
(* reads and writes by sector, whatever the sectors and lengths of the      *)
(* calls are, beyond the end of the file too.                               *)
THEOREM OneByOneBySector == DiskSpec /\ []OneAtATime => AccessBySector
<1>1. DiskInv /\ AtItsSector /\ [DiskNext]_diskvars
         => [\A p \in Callers : Transfer(p) =>
               IF op[p].kind = "read"
               THEN result'[p] = IF op[p].sector + Length(p) <= Len(image)
                                 THEN Named(image, op[p]) ELSE Out_of_bounds
               ELSE /\ result'[p] # Out_of_bounds => Named(image', op[p]) = op[p].buffer
                    /\ \A i \in 1 .. Len(image) :
                          IF op[p].sector < i /\ i <= op[p].sector + Length(p)
                          THEN image'[i] \in {image[i], op[p].buffer[i - op[p].sector]}
                          ELSE image'[i] = image[i]]_diskvars
  BY TransferBySector
<1> QED BY <1>1, DiskInvInit, DiskInvNext, PTL DEF DiskSpec, AccessBySector

-------------------------------------------------------------------------------
(* Numbers: quotients and remainders, and recursion over a number.           *)

(* Where a remainder comes from is unique.                                   *)
LEMMA SameQuotient ==
    ASSUME NEW m \in Nat \ {0}, NEW q \in Int, NEW k \in Int, NEW r \in 0 .. (m - 1),
           NEW s \in 0 .. (m - 1), m * q + r = m * k + s
    PROVE  q = k /\ r = s
<1>1. CASE q < k
  <2>1. m * (q + 1) <= m * k
    BY <1>1
  <2>2. m * (q + 1) = m * q + m
    OBVIOUS
  <2> QED BY <2>1, <2>2
<1>2. CASE k < q
  <2>1. m * (k + 1) <= m * q
    BY <1>2
  <2>2. m * (k + 1) = m * k + m
    OBVIOUS
  <2> QED BY <2>1, <2>2
<1>3. CASE q = k
  BY <1>3
<1> QED BY <1>1, <1>2, <1>3

LEMMA Division ==
    ASSUME NEW m \in Nat \ {0}, NEW x \in Int, NEW q, NEW r, q = x \div m, r = x % m
    PROVE  q \in Int /\ r \in 0 .. (m - 1) /\ x = m * q + r
<1>1. q \in Int
  OBVIOUS
<1>2. r \in 0 .. (m - 1)
  OBVIOUS
<1>3. x = m * q + r
  BY <1>1, <1>2
<1> QED BY <1>1, <1>2, <1>3

LEMMA Quotient ==
    ASSUME NEW m \in Nat \ {0}, NEW q \in Int, NEW r \in 0 .. (m - 1)
    PROVE  (m * q + r) \div m = q /\ (m * q + r) % m = r
<1> DEFINE x == m * q + r
           k == x \div m
           s == x % m
<1>1. x \in Int /\ x = m * q + r /\ k = x \div m /\ s = x % m
  OBVIOUS
<1> HIDE DEF x, k, s
<1>2. k \in Int /\ s \in 0 .. (m - 1) /\ x = m * k + s
  BY <1>1, Division
<1>3. m * k + s = m * q + r
  BY <1>1, <1>2
<1>4. k = q /\ s = r
  BY <1>2, <1>3, SameQuotient
<1> QED BY <1>1, <1>4

(* Every set of naturals has a least element.                                *)
LEMMA LeastElement ==
    ASSUME NEW T, T \subseteq Nat, T # {}
    PROVE  \E m \in T : \A k \in T : m <= k
<1>1. PICK m \in T : \A k \in T : ~(<<k, m>> \in OpToRel(<, Nat))
  BY NatLessThanWellFounded, WFMin
<1>2. \A k \in T : ~(k < m)
  BY <1>1 DEF OpToRel
<1>3. \A k \in T : m <= k
  BY <1>2
<1> QED BY <1>3

(* A function that is defined by recursion over a number exists.             *)
Follows(f, v, next, n) == f[0] = v /\ \A k \in 1 .. n : f[k] = next[<<f[k - 1], k>>]

LEMMA Recursion ==
    ASSUME NEW S, NEW n \in Nat, NEW v \in S, NEW next \in [S \X (1 .. n) -> S]
    PROVE  \E f \in [0 .. n -> S] : Follows(f, v, next, n)
<1> DEFINE T == {m \in 0 .. n : ~ \E f \in [0 .. m -> S] : Follows(f, v, next, m)}
<1>1. SUFFICES ASSUME T # {} PROVE FALSE
  OBVIOUS
<1>2. PICK m \in T : \A k \in T : m <= k
  <2>1. T \subseteq Nat
    OBVIOUS
  <2> HIDE DEF T
  <2> QED BY <1>1, <2>1, LeastElement
<1>3. m \in 0 .. n /\ ~ \E f \in [0 .. m -> S] : Follows(f, v, next, m)
  OBVIOUS
<1>4. CASE m = 0
  <2> DEFINE f == [k \in 0 .. 0 |-> v]
  <2>1. f \in [0 .. 0 -> S] /\ Follows(f, v, next, 0)
    BY DEF Follows
  <2> QED BY <1>3, <1>4, <2>1
<1>5. CASE m # 0
  <2>1. m - 1 \in 0 .. n /\ m \in 1 .. n /\ m - 1 \notin T
    BY <1>2, <1>3, <1>5
  <2>2. PICK g \in [0 .. (m - 1) -> S] : Follows(g, v, next, m - 1)
    BY <2>1
  <2> HIDE DEF T
  <2> DEFINE f == [k \in 0 .. m |-> IF k = m THEN next[<<g[m - 1], m>>] ELSE g[k]]
  <2>3. next[<<g[m - 1], m>>] \in S
    <3>1. g[m - 1] \in S
      BY <2>1
    <3>2. <<g[m - 1], m>> \in S \X (1 .. n)
      BY <2>1, <3>1
    <3> QED BY <3>2
  <2>4. /\ f \in [0 .. m -> S] /\ f[m] = next[<<g[m - 1], m>>]
        /\ \A k \in 0 .. (m - 1) : f[k] = g[k]
    <3>1. \A k \in 0 .. m : k # m => k \in 0 .. (m - 1)
      BY <2>1
    <3>2. m \in 0 .. m /\ \A k \in 0 .. (m - 1) : k \in 0 .. m /\ k # m
      BY <2>1
    <3> QED BY <2>3, <3>1, <3>2
  <2> HIDE DEF f
  <2>5. f[0] = v
    BY <2>1, <2>2, <2>4 DEF Follows
  <2>6. ASSUME NEW k \in 1 .. m PROVE f[k] = next[<<f[k - 1], k>>]
    <3>1. CASE k = m
      <4>1. m - 1 \in 0 .. (m - 1)
        BY <2>1
      <4> QED BY <2>4, <3>1, <4>1
    <3>2. CASE k \in 1 .. (m - 1)
      <4>1. k \in 0 .. (m - 1) /\ k - 1 \in 0 .. (m - 1)
        BY <2>1, <3>2
      <4> QED BY <2>2, <2>4, <3>2, <4>1 DEF Follows
    <3> QED BY <2>1, <3>1, <3>2
  <2> QED BY <1>3, <2>4, <2>5, <2>6 DEF Follows
<1> QED BY <1>4, <1>5

-------------------------------------------------------------------------------
(* Packets: the bytes of a field and the sum over bytes.                     *)

LEMMA LowHigh ==
    /\ \A b \in Byte : low(b) = b
    /\ \A v \in Nat : low(v) \in Byte /\ high(v) \in Byte
    /\ \A v \in Word : low(v) + ByteSize * high(v) = v
    /\ \A a, b \in Byte : a + ByteSize * b \in Word /\ low(a + ByteSize * b) = a
                            /\ high(a + ByteSize * b) = b
<1>0. ByteSize \in Nat \ {0}
  BY PacketAssumption
<1>1. ASSUME NEW b \in Byte PROVE low(b) = b
  <2>1. b \in 0 .. (ByteSize - 1) /\ ByteSize * 0 + b = b
    BY <1>0 DEF Byte
  <2> QED BY <1>0, <2>1, Quotient DEF low
<1>2. ASSUME NEW v \in Nat PROVE low(v) \in Byte /\ high(v) \in Byte
  <2>1. v \div ByteSize \in Int
    BY <1>0
  <2>2. \A x \in Int : x % ByteSize \in 0 .. (ByteSize - 1)
    BY <1>0
  <2> QED BY <2>1, <2>2 DEF low, high, Byte
<1>3. ASSUME NEW v \in Word PROVE low(v) + ByteSize * high(v) = v
  <2> DEFINE q == v \div ByteSize
             r == v % ByteSize
  <2>1. v \in Int /\ 0 <= v /\ v < ByteSize * ByteSize
    BY <1>0 DEF Word
  <2>2. r \in 0 .. (ByteSize - 1) /\ q \in Int /\ v = ByteSize * q + r
    BY <1>0, <2>1, Division
  <2> HIDE DEF q, r
  <2>3. 0 <= q
    <3>1. CASE q <= -1
      <4>1. ByteSize * q <= ByteSize * (-1)
        BY <1>0, <2>2, <3>1
      <4> QED BY <1>0, <2>1, <2>2, <4>1
    <3> QED BY <2>2, <3>1
  <2>4. q < ByteSize
    <3>1. CASE ByteSize <= q
      <4>1. ByteSize * ByteSize <= ByteSize * q
        BY <1>0, <2>2, <3>1
      <4>2. ByteSize * ByteSize \in Int /\ ByteSize * q \in Int
        BY <1>0, <2>2
      <4> QED BY <1>0, <2>1, <2>2, <4>1, <4>2
    <3> QED BY <1>0, <2>2, <3>1
  <2>5. q \in Byte
    BY <1>0, <2>2, <2>3, <2>4 DEF Byte
  <2>6. low(q) = q
    BY <1>1, <2>5
  <2>7. low(v) = r /\ high(v) = q
    BY <2>6 DEF q, r, low, high
  <2> QED BY <1>0, <2>2, <2>7
<1>4. ASSUME NEW a \in Byte, NEW b \in Byte
      PROVE  a + ByteSize * b \in Word /\ low(a + ByteSize * b) = a /\ high(a + ByteSize * b) = b
  <2>1. /\ a \in 0 .. (ByteSize - 1) /\ b \in Int /\ 0 <= b /\ b <= ByteSize - 1
        /\ a + ByteSize * b = ByteSize * b + a
    BY <1>0 DEF Byte
  <2>2. (ByteSize * b + a) \div ByteSize = b /\ (ByteSize * b + a) % ByteSize = a
    BY <1>0, <2>1, Quotient
  <2>3. low(b) = b
    BY <1>1
  <2>4. a + ByteSize * b \in Word
    <3>1. 0 <= ByteSize * b /\ ByteSize * b <= ByteSize * (ByteSize - 1)
      BY <1>0, <2>1
    <3>2. ByteSize * (ByteSize - 1) = ByteSize * ByteSize - ByteSize
      BY <1>0
    <3>3. ByteSize * b \in Int /\ ByteSize * ByteSize \in Int
      BY <1>0, <2>1
    <3> QED BY <1>0, <2>1, <3>1, <3>2, <3>3 DEF Word
  <2> QED BY <2>1, <2>2, <2>3, <2>4 DEF low, high
<1> QED BY <1>1, <1>2, <1>3, <1>4

(* What is added last can be told from the sum.                              *)
LEMMA SumsDiffer ==
    ASSUME NEW x \in Word, NEW y \in Word, NEW b \in Byte, NEW c \in Byte,
           (x # y /\ b = c) \/ (x = y /\ b # c)
    PROVE  (x + b) % (ByteSize * ByteSize) # (y + c) % (ByteSize * ByteSize)
<1> DEFINE m == ByteSize * ByteSize
           q == (x + b) \div m
           k == (y + c) \div m
           r == (x + b) % m
<1>1. ByteSize \in Nat \ {0} /\ m \in Nat \ {0} /\ ByteSize <= m
  BY PacketAssumption
<1>2. x \in 0 .. (m - 1) /\ y \in 0 .. (m - 1) /\ b \in 0 .. (m - 1) /\ c \in 0 .. (m - 1)
  <2>1. x \in 0 .. (m - 1) /\ y \in 0 .. (m - 1)
    BY DEF Word
  <2>2. b \in 0 .. (ByteSize - 1) /\ c \in 0 .. (ByteSize - 1)
    BY DEF Byte
  <2> HIDE DEF m
  <2> QED BY <1>1, <2>1, <2>2
<1>3. SUFFICES ASSUME (x + b) % m = (y + c) % m PROVE FALSE
  OBVIOUS
<1> HIDE DEF m
<1>4. /\ r \in 0 .. (m - 1) /\ q \in Int /\ k \in Int
      /\ x + b = m * q + r /\ y + c = m * k + r
  <2>1. x + b \in Int /\ y + c \in Int
    BY <1>1, <1>2
  <2>2. q = (x + b) \div m /\ k = (y + c) \div m /\ r = (x + b) % m /\ r = (y + c) % m
    BY <1>3
  <2> HIDE DEF q, k, r
  <2>3. q \in Int /\ r \in 0 .. (m - 1) /\ x + b = m * q + r
    BY <1>1, <2>1, <2>2, Division
  <2>4. k \in Int /\ y + c = m * k + r
    BY <1>1, <2>1, <2>2, Division
  <2> QED BY <2>3, <2>4
<1> HIDE DEF q, k, r
<1>5. m * q \in Int /\ m * k \in Int
  BY <1>1, <1>4
<1>6. CASE b = c
  <2>1. m * q + y = m * k + x
    BY <1>1, <1>2, <1>4, <1>5, <1>6
  <2> QED BY <1>1, <1>2, <1>4, <1>6, <2>1, SameQuotient
<1>7. CASE x = y
  <2>1. m * q + c = m * k + b
    BY <1>1, <1>2, <1>4, <1>5, <1>7
  <2> QED BY <1>1, <1>2, <1>4, <1>7, <2>1, SameQuotient
<1> QED BY <1>6, <1>7

-------------------------------------------------------------------------------
(* The sums that checksum_bytes goes through.                                *)
NextSum(sum, bytes, n) ==
    IF n = 0 THEN 0 ELSE (sum[n - 1] + bytes[n]) % (ByteSize * ByteSize)

Sums(sum, bytes, n) == \A k \in 0 .. n : sum[k] = NextSum(sum, bytes, k)

LEMMA WordSize == ByteSize * ByteSize \in Nat \ {0} /\ 0 \in Word /\ Word \subseteq Nat
                  /\ \A x \in Int : x % (ByteSize * ByteSize) \in Word
<1> DEFINE m == ByteSize * ByteSize
<1>1. m \in Nat \ {0} /\ Word = 0 .. (m - 1)
  BY PacketAssumption DEF Word
<1> HIDE DEF m
<1>2. \A x \in Int : x % m \in Word
  BY <1>1
<1>3. 0 \in Word /\ Word \subseteq Nat
  BY <1>1
<1> QED BY <1>1, <1>2, <1>3 DEF m

LEMMA BelowWord ==
    ASSUME NEW v \in Nat, NEW w \in Word, v <= w
    PROVE  v \in Word
<1> DEFINE m == ByteSize * ByteSize
<1>1. m \in Nat /\ w \in 0 .. (m - 1)
  BY WordSize DEF Word
<1> HIDE DEF m
<1>2. v \in 0 .. (m - 1)
  BY <1>1
<1> QED BY <1>2 DEF Word, m

LEMMA SumsExist ==
    ASSUME NEW bytes \in Seq(Byte), NEW n, n = Len(bytes)
    PROVE  \E sum \in [0 .. n -> Word] : Sums(sum, bytes, n)
<1> DEFINE next == [x \in Word \X (1 .. n) |-> (x[1] + bytes[x[2]]) % (ByteSize * ByteSize)]
<1>1. n \in Nat /\ \A i \in 1 .. n : bytes[i] \in Nat
  <2>1. Byte \subseteq Nat
    BY PacketAssumption DEF Byte
  <2> QED BY <2>1, LenProperties, ElementOfSeq
<1>2. next \in [Word \X (1 .. n) -> Word]
  <2>1. ASSUME NEW w \in Word, NEW i \in 1 .. n
        PROVE  (w + bytes[i]) % (ByteSize * ByteSize) \in Word
    <3>1. w \in Nat /\ bytes[i] \in Nat
      BY <1>1, WordSize
    <3>2. w + bytes[i] \in Int
      BY <3>1
    <3> QED BY <3>2, WordSize
  <2> QED BY <2>1
<1>3. PICK sum \in [0 .. n -> Word] : Follows(sum, 0, next, n)
  <2> HIDE DEF next
  <2> QED BY <1>1, <1>2, WordSize, Recursion
<1>4. ASSUME NEW k \in 0 .. n PROVE sum[k] = NextSum(sum, bytes, k)
  <2>1. CASE k = 0
    BY <1>3, <2>1 DEF Follows, NextSum
  <2>2. CASE k # 0
    <3>1. k \in 1 .. n /\ k - 1 \in 0 .. n /\ sum[k - 1] \in Word
      BY <1>1, <1>3, <2>2
    <3>2. sum[k] = next[<<sum[k - 1], k>>]
      BY <1>3, <3>1 DEF Follows
    <3> QED BY <2>2, <3>1, <3>2 DEF NextSum
  <2> QED BY <2>1, <2>2
<1> QED BY <1>4 DEF Sums

LEMMA ChecksumIs ==
    ASSUME NEW bytes \in Seq(Byte)
    PROVE  \E sum : /\ sum = [n \in 0 .. Len(bytes) |-> NextSum(sum, bytes, n)]
                    /\ checksum_bytes(bytes) = sum[Len(bytes)]
<1> DEFINE f == CHOOSE sum : sum = [n \in 0 .. Len(bytes) |-> NextSum(sum, bytes, n)]
<1>1. PICK sum \in [0 .. Len(bytes) -> Word] : Sums(sum, bytes, Len(bytes))
  BY SumsExist
<1>2. sum = [n \in 0 .. Len(bytes) |-> NextSum(sum, bytes, n)]
  BY <1>1 DEF Sums
<1>3. f = [n \in 0 .. Len(bytes) |-> NextSum(f, bytes, n)]
  BY <1>2
<1>4. checksum_bytes(bytes) = f[Len(bytes)]
  BY DEF checksum_bytes, NextSum
<1> QED BY <1>3, <1>4

LEMMA SumsAreWords ==
    ASSUME NEW bytes \in Seq(Byte), NEW sum,
           sum = [n \in 0 .. Len(bytes) |-> NextSum(sum, bytes, n)]
    PROVE  \A n \in 0 .. Len(bytes) : sum[n] \in Word
<1> DEFINE T == {n \in 0 .. Len(bytes) : sum[n] \notin Word}
<1>1. SUFFICES ASSUME T # {} PROVE FALSE
  OBVIOUS
<1>2. /\ Len(bytes) \in Nat /\ \A i \in 1 .. Len(bytes) : bytes[i] \in Nat
      /\ \A n \in 0 .. Len(bytes) : sum[n] = NextSum(sum, bytes, n)
  <2>1. Byte \subseteq Nat
    BY PacketAssumption DEF Byte
  <2>2. \A n \in 0 .. Len(bytes) : sum[n] = NextSum(sum, bytes, n)
    OBVIOUS
  <2> QED BY <2>1, <2>2, LenProperties, ElementOfSeq
<1>3. PICK m \in T : \A k \in T : m <= k
  <2>1. T \subseteq Nat
    BY <1>2
  <2> HIDE DEF T
  <2> QED BY <1>1, <2>1, LeastElement
<1>4. m \in 0 .. Len(bytes) /\ sum[m] \notin Word
  OBVIOUS
<1>5. CASE m = 0
  BY <1>2, <1>4, <1>5, WordSize DEF NextSum
<1>6. CASE m # 0
  <2>1. m - 1 \in 0 .. Len(bytes) /\ m \in 1 .. Len(bytes) /\ sum[m - 1] \in Word
    BY <1>2, <1>3, <1>4, <1>6
  <2>2. sum[m - 1] \in Nat /\ bytes[m] \in Nat
    BY <1>2, <2>1, WordSize
  <2>3. sum[m - 1] + bytes[m] \in Int
    BY <2>2
  <2> QED BY <1>2, <1>4, <1>6, <2>3, WordSize DEF NextSum
<1> QED BY <1>5, <1>6

LEMMA ChecksumIsWord ==
    ASSUME NEW bytes \in Seq(Byte)
    PROVE  checksum_bytes(bytes) \in Word
<1>1. Len(bytes) \in 0 .. Len(bytes)
  BY LenProperties
<1> QED BY <1>1, ChecksumIs, SumsAreWords

(* Two sequences that differ in one byte have different sums, wherever that  *)
(* byte is and however long they are: their sums are the same up to it, and  *)
(* stay apart from it on.                                                    *)
LEMMA ChecksumTells ==
    ASSUME NEW b \in Seq(Byte), NEW c \in Seq(Byte), Len(b) = Len(c),
           NEW i \in 1 .. Len(b), b[i] # c[i], \A j \in 1 .. Len(b) : j # i => b[j] = c[j]
    PROVE  checksum_bytes(b) # checksum_bytes(c)
<1>1. PICK f : /\ f = [n \in 0 .. Len(b) |-> NextSum(f, b, n)]
               /\ checksum_bytes(b) = f[Len(b)]
  BY ChecksumIs
<1>2. PICK g : /\ g = [n \in 0 .. Len(c) |-> NextSum(g, c, n)]
               /\ checksum_bytes(c) = g[Len(c)]
  BY ChecksumIs
<1>3. /\ Len(b) \in Nat
      /\ \A n \in 0 .. Len(b) : f[n] = NextSum(f, b, n) /\ g[n] = NextSum(g, c, n)
      /\ \A n \in 1 .. Len(b) : b[n] \in Byte /\ c[n] \in Byte
  <2>1. \A n \in 0 .. Len(b) : f[n] = NextSum(f, b, n)
    BY <1>1
  <2>2. \A n \in 0 .. Len(b) : g[n] = NextSum(g, c, n)
    BY <1>2
  <2> QED BY <2>1, <2>2, LenProperties, ElementOfSeq
<1>4. \A n \in 0 .. Len(b) : f[n] \in Word /\ g[n] \in Word
  BY <1>1, <1>2, SumsAreWords
<1> DEFINE T == {n \in 0 .. Len(b) : ~(f[n] = g[n] <=> n < i)}
<1>5. T = {}
  <2>1. SUFFICES ASSUME T # {} PROVE FALSE
    OBVIOUS
  <2>2. PICK m \in T : \A k \in T : m <= k
    <3>1. T \subseteq Nat
      BY <1>3
    <3> HIDE DEF T
    <3> QED BY <2>1, <3>1, LeastElement
  <2>3. m \in 0 .. Len(b) /\ ~(f[m] = g[m] <=> m < i)
    OBVIOUS
  <2>4. m # 0
    <3>1. f[0] = 0 /\ g[0] = 0
      BY <1>3 DEF NextSum
    <3> QED BY <2>3, <3>1
  <2>5. m - 1 \in 0 .. Len(b) /\ m \in 1 .. Len(b) /\ (f[m - 1] = g[m - 1] <=> m - 1 < i)
    BY <1>3, <2>2, <2>3, <2>4
  <2> HIDE DEF T
  <2>6. /\ f[m] = (f[m - 1] + b[m]) % (ByteSize * ByteSize)
        /\ g[m] = (g[m - 1] + c[m]) % (ByteSize * ByteSize)
    BY <1>3, <2>3, <2>4 DEF NextSum
  <2>7. /\ f[m - 1] \in Word /\ g[m - 1] \in Word /\ b[m] \in Byte /\ c[m] \in Byte
    BY <1>3, <1>4, <2>5
  <2>8. CASE m < i
    <3>1. f[m - 1] = g[m - 1] /\ b[m] = c[m]
      BY <2>5, <2>8
    <3> QED BY <2>3, <2>6, <2>8, <3>1
  <2>9. CASE m = i
    <3>1. f[m - 1] = g[m - 1] /\ b[m] # c[m]
      BY <2>5, <2>9
    <3>2. f[m] # g[m]
      BY <2>6, <2>7, <3>1, SumsDiffer
    <3> QED BY <2>3, <2>9, <3>2
  <2>10. CASE i < m
    <3>1. f[m - 1] # g[m - 1] /\ b[m] = c[m]
      BY <2>5, <2>10
    <3>2. f[m] # g[m]
      BY <2>6, <2>7, <3>1, SumsDiffer
    <3> QED BY <2>3, <2>10, <3>2
  <2> QED BY <2>5, <2>8, <2>9, <2>10
<1>6. Len(b) \in 0 .. Len(b) /\ ~(Len(b) < i)
  BY <1>3
<1>7. f[Len(b)] # g[Len(b)]
  BY <1>5, <1>6
<1> QED BY <1>1, <1>2, <1>7

-------------------------------------------------------------------------------
(* The bytes of a packet.                                                    *)

Bytes == Seq(Byte)
PacketType ==
    [kind : {"Data", "Ack"}, seq : Byte, ack : Byte, src_port : Word, payload : Bytes]

Joined(a, b, all) ==
    /\ Len(all) = Len(a) + Len(b)
    /\ \A i \in 1 .. Len(a) : all[i] = a[i]
    /\ \A i \in 1 .. Len(b) : all[Len(a) + i] = b[i]

LEMMA Joins ==
    ASSUME NEW a \in Bytes, NEW b \in Bytes
    PROVE  a \o b \in Bytes /\ Joined(a, b, a \o b)
<1> DEFINE all == a \o b
<1>1. /\ all \in Bytes /\ Len(all) = Len(a) + Len(b)
      /\ \A i \in 1 .. Len(a) + Len(b) : all[i] = IF i <= Len(a) THEN a[i] ELSE b[i - Len(a)]
  BY ConcatProperties DEF Bytes
<1> HIDE DEF all
<1>2. Len(a) \in Nat /\ Len(b) \in Nat
  BY LenProperties DEF Bytes
<1>3. \A i \in 1 .. Len(a) : all[i] = a[i]
  BY <1>1, <1>2
<1>4. ASSUME NEW i \in 1 .. Len(b) PROVE all[Len(a) + i] = b[i]
  <2>1. Len(a) + i \in 1 .. Len(a) + Len(b) /\ ~(Len(a) + i <= Len(a)) /\ (Len(a) + i) - Len(a) = i
    BY <1>2
  <2> QED BY <1>1, <2>1
<1> QED BY <1>1, <1>3, <1>4 DEF Joined, all

LEMMA IsBytes ==
    ASSUME NEW n \in Nat, NEW f \in [1 .. n -> Byte]
    PROVE  f \in Bytes
BY SeqDef DEF Bytes

LEMMA FieldsAreBytes ==
    ASSUME NEW k \in Byte, NEW q \in Byte, NEW a \in Byte, NEW port \in Word, NEW payload \in Bytes
    PROVE  Fields(k, q, a, port, payload) \in Bytes /\ Len(Fields(k, q, a, port, payload)) = 8
<1> DEFINE f == Fields(k, q, a, port, payload)
<1>1. version \in Nat /\ k \in Nat /\ q \in Nat /\ a \in Nat /\ port \in Nat /\ Len(payload) \in Nat
  <2>1. Byte \subseteq Nat
    BY PacketAssumption DEF Byte
  <2> QED BY <2>1, WordSize, LenProperties DEF version, Bytes
<1>2. \A v \in Nat : low(v) \in Byte /\ high(v) \in Byte
  BY LowHigh
<1>3. f \in [1 .. 8 -> Byte]
  BY <1>1, <1>2 DEF Fields
<1>4. Len(f) = 8
  BY DEF Fields
<1> HIDE DEF f
<1>5. f \in Bytes
  BY <1>3, IsBytes
<1> QED BY <1>4, <1>5 DEF f

(* What decode reads of a packet of any content is what the sum was made of. *)
LEMMA ReadBack ==
    ASSUME NEW p \in PacketType, NEW k \in Byte
    PROVE  LET f == Fields(k, p.seq, p.ack, p.src_port, p.payload)
           IN  /\ f[1] = version /\ f[2] = k /\ f[3] = p.seq /\ f[4] = p.ack
               /\ f[5] + ByteSize * f[6] = p.src_port
               /\ Len(p.payload) \in Word => f[7] + ByteSize * f[8] = Len(p.payload)
<1>1. version \in Byte
  BY PacketAssumption DEF Byte, version
<1>2. /\ low(version) = version /\ low(k) = k /\ low(p.seq) = p.seq /\ low(p.ack) = p.ack
      /\ low(p.src_port) + ByteSize * high(p.src_port) = p.src_port
      /\ Len(p.payload) \in Word =>
            low(Len(p.payload)) + ByteSize * high(Len(p.payload)) = Len(p.payload)
  <2>1. p.seq \in Byte /\ p.ack \in Byte /\ p.src_port \in Word
    BY DEF PacketType
  <2> QED BY <1>1, <2>1, LowHigh
<1> QED BY <1>2 DEF Fields

SumOf(p) ==
    checksum_from_parts(int_of_kind[p.kind], p.seq, p.ack, p.src_port, p.payload)

Kind(p) == int_of_kind[p.kind]

(* A packet on the wire.                                                     *)
Layout(p, bytes) ==
    LET f == Fields(Kind(p), p.seq, p.ack, p.src_port, p.payload)
    IN  /\ bytes \in Bytes /\ Len(bytes) = header_len + Len(p.payload)
        /\ \A i \in 1 .. 8 : bytes[i] = f[i]
        /\ bytes[9] + ByteSize * bytes[10] = SumOf(p)
        /\ \A i \in 1 .. Len(p.payload) : bytes[header_len + i] = p.payload[i]

LEMMA KindIs ==
    ASSUME NEW p \in PacketType
    PROVE  Kind(p) \in {0, 1} /\ Kind(p) \in Byte /\ kind_of_int[Kind(p) + 1] = p.kind
<1>1. p.kind \in {"Data", "Ack"} /\ 0 \in Byte /\ 1 \in Byte
  BY PacketAssumption DEF PacketType, Byte
<1> QED BY <1>1 DEF Kind, int_of_kind, kind_of_int

LEMMA SumOfIsWord ==
    ASSUME NEW p \in PacketType
    PROVE  SumOf(p) \in Word
<1> DEFINE f == Fields(Kind(p), p.seq, p.ack, p.src_port, p.payload)
<1>1. /\ p.seq \in Byte /\ p.ack \in Byte /\ p.src_port \in Word /\ p.payload \in Bytes
      /\ Kind(p) \in Byte
  BY KindIs DEF PacketType
<1>2. f \in Bytes
  BY <1>1, FieldsAreBytes
<1>3. f \o p.payload \in Bytes
  BY <1>1, <1>2, Joins
<1>4. checksum_bytes(f \o p.payload) \in Word
  BY <1>3, ChecksumIsWord DEF Bytes
<1> QED BY <1>4 DEF SumOf, checksum_from_parts, Kind

LEMMA EncodeLayout ==
    ASSUME NEW p \in PacketType
    PROVE  Layout(p, encode(p))
<1> DEFINE f == Fields(Kind(p), p.seq, p.ack, p.src_port, p.payload)
           sum == SumOf(p)
           pair == <<low(sum), high(sum)>>
           tail == pair \o p.payload
           bytes == f \o tail
<1>0. encode(p) = bytes
  BY DEF encode, Kind, SumOf
<1>1. /\ p.seq \in Byte /\ p.ack \in Byte /\ p.src_port \in Word /\ p.payload \in Bytes
      /\ Kind(p) \in Byte
  BY KindIs DEF PacketType
<1>2. f \in Bytes /\ Len(f) = 8
  BY <1>1, FieldsAreBytes
<1>3. sum \in Word /\ sum \in Nat
  BY SumOfIsWord, WordSize
<1> HIDE DEF f, sum
<1>4. low(sum) \in Byte /\ high(sum) \in Byte /\ low(sum) + ByteSize * high(sum) = sum
  BY <1>3, LowHigh
<1>5. pair \in Bytes /\ Len(pair) = 2 /\ pair[1] = low(sum) /\ pair[2] = high(sum)
  <2>1. pair \in [1 .. 2 -> Byte]
    BY <1>4
  <2> QED BY <2>1, SeqDef DEF Bytes
<1> HIDE DEF pair
<1>6. tail \in Bytes /\ Joined(pair, p.payload, tail)
  BY <1>1, <1>5, Joins
<1> HIDE DEF tail
<1>7. bytes \in Bytes /\ Joined(f, tail, bytes)
  BY <1>2, <1>6, Joins
<1> HIDE DEF bytes
<1>8. /\ Len(p.payload) \in Nat /\ Len(tail) = 2 + Len(p.payload)
      /\ tail[1] = low(sum) /\ tail[2] = high(sum)
      /\ \A i \in 1 .. Len(p.payload) : tail[2 + i] = p.payload[i]
  BY <1>1, <1>5, <1>6, LenProperties DEF Joined, Bytes
<1>9. /\ Len(bytes) = 10 + Len(p.payload)
      /\ \A i \in 1 .. 8 : bytes[i] = f[i]
      /\ \A i \in 1 .. Len(tail) : bytes[8 + i] = tail[i]
  BY <1>2, <1>7, <1>8 DEF Joined
<1>10. bytes[9] = low(sum) /\ bytes[10] = high(sum)
  <2>1. 1 \in 1 .. Len(tail) /\ 2 \in 1 .. Len(tail) /\ 8 + 1 = 9 /\ 8 + 2 = 10
    BY <1>8
  <2> QED BY <1>8, <1>9, <2>1
<1>11. ASSUME NEW i \in 1 .. Len(p.payload) PROVE bytes[10 + i] = p.payload[i]
  <2>1. 2 + i \in 1 .. Len(tail) /\ 8 + (2 + i) = 10 + i
    BY <1>8
  <2> QED BY <1>8, <1>9, <2>1
<1> QED BY <1>0, <1>4, <1>7, <1>9, <1>10, <1>11 DEF Layout, header_len, f, sum

-------------------------------------------------------------------------------
(* What decode makes of bytes.                                               *)

(* Whether decode accepts bytes.                                             *)
Sound(bytes) ==
    /\ header_len <= Len(bytes) /\ bytes[1] = version /\ bytes[2] \in {0, 1}
    /\ get_uint16(bytes, 6) = Len(bytes) - header_len
    /\ get_uint16(bytes, 8) =
         checksum_from_parts(bytes[2], bytes[3], bytes[4], get_uint16(bytes, 4),
                             Carried(bytes).payload)

LEMMA DecodeIs ==
    ASSUME NEW bytes \in Bytes, "error" \notin DOMAIN decode(bytes)
    PROVE  Sound(bytes)
<1>1. \A why : "error" \in DOMAIN Error(why)
  BY DEF Error
<1>2. Len(bytes) \in Nat
  BY LenProperties DEF Bytes
<1>3. ~(Len(bytes) < header_len)
  BY <1>1 DEF decode
<1>4. bytes[1] = version
  BY <1>1, <1>3 DEF decode
<1>5. bytes[2] \in {0, 1}
  BY <1>1, <1>3, <1>4 DEF decode
<1>6. get_uint16(bytes, 6) = Len(bytes) - header_len
  BY <1>1, <1>3, <1>4, <1>5 DEF decode
<1>7. get_uint16(bytes, 8) =
         checksum_from_parts(bytes[2], bytes[3], bytes[4], get_uint16(bytes, 4),
                             Carried(bytes).payload)
  BY <1>1, <1>3, <1>4, <1>5, <1>6 DEF decode
<1>8. header_len <= Len(bytes)
  BY <1>2, <1>3 DEF header_len
<1> QED BY <1>4, <1>5, <1>6, <1>7, <1>8 DEF Sound

(* What is summed of received bytes: all of them but the sum itself.         *)
AllButSum(bytes, all) ==
    /\ all \in Bytes /\ Len(all) = Len(bytes) - 2
    /\ \A i \in 1 .. 8 : all[i] = bytes[i]
    /\ \A i \in 11 .. Len(bytes) : all[i - 2] = bytes[i]

LEMMA BehindHeader ==
    ASSUME NEW bytes \in Bytes, NEW n, n = Len(bytes), 10 <= n
    PROVE  LET rest == SubSeq(bytes, header_len + 1, n)
           IN  /\ rest \in Bytes /\ Len(rest) = n - 10
               /\ \A i \in 1 .. (n - 10) : rest[i] = bytes[10 + i]
<1> DEFINE rest == SubSeq(bytes, 11, n)
           m == Len(rest)
<1>1. n \in Nat /\ \A i \in 11 .. n : bytes[i] \in Byte
  BY LenProperties, ElementOfSeq DEF Bytes
<1>2. /\ rest \in Seq(Byte) /\ m = IF 11 <= n THEN n - 11 + 1 ELSE 0
      /\ \A i \in 1 .. (n - 11 + 1) : rest[i] = bytes[11 + i - 1]
  BY <1>1, SubSeqProperties
<1> HIDE DEF rest, m
<1>3. m = n - 10
  BY <1>1, <1>2
<1>4. ASSUME NEW i \in 1 .. (n - 10) PROVE rest[i] = bytes[10 + i]
  <2>1. i \in 1 .. (n - 11 + 1) /\ 11 + i - 1 = 10 + i
    BY <1>1
  <2> QED BY <1>2, <2>1
<1>5. rest \in Bytes
  BY <1>2 DEF Bytes
<1>6. header_len + 1 = 11
  BY DEF header_len
<1> QED BY <1>3, <1>4, <1>5, <1>6 DEF rest, m

LEMMA SummedOf ==
    ASSUME NEW bytes \in Bytes, header_len <= Len(bytes), bytes[1] = version,
           get_uint16(bytes, 6) = Len(bytes) - header_len
    PROVE  \E all : /\ AllButSum(bytes, all)
                    /\ checksum_from_parts(bytes[2], bytes[3], bytes[4], get_uint16(bytes, 4),
                                           Carried(bytes).payload) = checksum_bytes(all)
<1> DEFINE payload == SubSeq(bytes, header_len + 1, Len(bytes))
           f == Fields(bytes[2], bytes[3], bytes[4], get_uint16(bytes, 4), payload)
           all == f \o payload
<1>1. Len(bytes) \in Nat /\ 10 <= Len(bytes) /\ \A i \in 1 .. Len(bytes) : bytes[i] \in Byte
  BY LenProperties, ElementOfSeq DEF Bytes, header_len
<1>2. /\ bytes[1] \in Byte /\ bytes[2] \in Byte /\ bytes[3] \in Byte /\ bytes[4] \in Byte
      /\ bytes[5] \in Byte /\ bytes[6] \in Byte /\ bytes[7] \in Byte /\ bytes[8] \in Byte
  BY <1>1
<1>3. /\ payload \in Bytes /\ Len(payload) = Len(bytes) - 10
      /\ \A i \in 1 .. (Len(bytes) - 10) : payload[i] = bytes[10 + i]
  BY <1>1, BehindHeader
<1>4. /\ get_uint16(bytes, 4) = bytes[5] + ByteSize * bytes[6]
      /\ Len(payload) = bytes[7] + ByteSize * bytes[8]
  <2>1. get_uint16(bytes, 4) = bytes[5] + ByteSize * bytes[6]
    BY DEF get_uint16
  <2>2. get_uint16(bytes, 6) = bytes[7] + ByteSize * bytes[8]
    BY DEF get_uint16
  <2> QED BY <1>3, <2>1, <2>2 DEF header_len
<1> HIDE DEF payload
<1>5. get_uint16(bytes, 4) \in Word
  BY <1>2, <1>4, LowHigh
<1>6. \A i \in 1 .. 8 : f[i] = bytes[i]
  <2>1. /\ low(bytes[2]) = bytes[2] /\ low(bytes[3]) = bytes[3] /\ low(bytes[4]) = bytes[4]
        /\ low(version) = bytes[1]
    BY <1>2, LowHigh
  <2>2. /\ low(get_uint16(bytes, 4)) = bytes[5] /\ high(get_uint16(bytes, 4)) = bytes[6]
        /\ low(Len(payload)) = bytes[7] /\ high(Len(payload)) = bytes[8]
    BY <1>2, <1>4, LowHigh
  <2> QED BY <2>1, <2>2 DEF Fields
<1>7. f \in Bytes /\ Len(f) = 8
  BY <1>2, <1>3, <1>5, FieldsAreBytes
<1> HIDE DEF f
<1>8. all \in Bytes /\ Joined(f, payload, all)
  BY <1>3, <1>7, Joins
<1>9. checksum_from_parts(bytes[2], bytes[3], bytes[4], get_uint16(bytes, 4),
                          Carried(bytes).payload) = checksum_bytes(all)
  BY DEF checksum_from_parts, Carried, payload, f
<1> HIDE DEF all
<1>10. Len(all) = Len(bytes) - 2 /\ \A i \in 1 .. 8 : all[i] = bytes[i]
  BY <1>1, <1>3, <1>6, <1>7, <1>8 DEF Joined
<1>11. ASSUME NEW i \in 11 .. Len(bytes) PROVE all[i - 2] = bytes[i]
  <2>1. i - 10 \in 1 .. (Len(bytes) - 10) /\ 8 + (i - 10) = i - 2 /\ 10 + (i - 10) = i
    BY <1>1
  <2>2. all[8 + (i - 10)] = payload[i - 10]
    BY <1>3, <1>7, <1>8, <2>1 DEF Joined
  <2> QED BY <1>3, <2>1, <2>2
<1> QED BY <1>8, <1>9, <1>10, <1>11 DEF AllButSum

(* A packet that is not too long arrives.                                    *)
LEMMA Arrives ==
    ASSUME NEW p \in PacketType, NEW bytes, Layout(p, bytes), Len(p.payload) \in Word
    PROVE  decode(bytes) = [ok |-> p]
<1> DEFINE f == Fields(Kind(p), p.seq, p.ack, p.src_port, p.payload)
<1>1. /\ bytes \in Bytes /\ Len(bytes) = 10 + Len(p.payload) /\ Len(p.payload) \in Nat
      /\ \A i \in 1 .. 8 : bytes[i] = f[i]
      /\ bytes[9] + ByteSize * bytes[10] = SumOf(p)
      /\ \A i \in 1 .. Len(p.payload) : bytes[10 + i] = p.payload[i]
  <2>1. p.payload \in Bytes
    BY DEF PacketType
  <2> QED BY <2>1, LenProperties DEF Layout, header_len, Bytes
<1>2. /\ f[1] = version /\ f[2] = Kind(p) /\ f[3] = p.seq /\ f[4] = p.ack
      /\ f[5] + ByteSize * f[6] = p.src_port
      /\ f[7] + ByteSize * f[8] = Len(p.payload)
  BY KindIs, ReadBack
<1> HIDE DEF f
<1>3. /\ bytes[1] = version /\ bytes[2] = Kind(p) /\ bytes[3] = p.seq /\ bytes[4] = p.ack
      /\ get_uint16(bytes, 4) = p.src_port /\ get_uint16(bytes, 6) = Len(p.payload)
      /\ get_uint16(bytes, 8) = SumOf(p)
  <2>1. /\ get_uint16(bytes, 4) = bytes[5] + ByteSize * bytes[6]
        /\ get_uint16(bytes, 6) = bytes[7] + ByteSize * bytes[8]
        /\ get_uint16(bytes, 8) = bytes[9] + ByteSize * bytes[10]
    BY DEF get_uint16
  <2>2. \A i \in {1, 2, 3, 4, 5, 6, 7, 8} : bytes[i] = f[i]
    BY <1>1
  <2> QED BY <1>1, <1>2, <2>1, <2>2
<1>4. SubSeq(bytes, header_len + 1, Len(bytes)) = p.payload
  <2> DEFINE rest == SubSeq(bytes, header_len + 1, Len(bytes))
  <2>0. 10 <= Len(bytes)
    BY <1>1
  <2>1. /\ rest \in Bytes /\ Len(rest) = Len(bytes) - 10
        /\ \A i \in 1 .. (Len(bytes) - 10) : rest[i] = bytes[10 + i]
    BY <1>1, <2>0, BehindHeader
  <2> HIDE DEF rest
  <2>2. rest \in Seq(Byte)
    BY <2>1 DEF Bytes
  <2>3. Len(rest) = Len(p.payload) /\ \A i \in 1 .. Len(p.payload) : rest[i] = p.payload[i]
    BY <1>1, <2>1
  <2>4. p.payload \in Seq(Byte)
    BY DEF PacketType, Bytes
  <2>5. rest = p.payload
    BY <2>2, <2>3, <2>4, SeqEqual
  <2> QED BY <2>5 DEF rest
<1>5. Carried(bytes) = p
  <2>1. kind_of_int[Kind(p) + 1] = p.kind
    BY KindIs
  <2>2. Carried(bytes) = [kind |-> p.kind, seq |-> p.seq, ack |-> p.ack, src_port |-> p.src_port,
                          payload |-> p.payload]
    BY <1>3, <1>4, <2>1 DEF Carried
  <2>3. p = [kind |-> p.kind, seq |-> p.seq, ack |-> p.ack, src_port |-> p.src_port,
             payload |-> p.payload]
    BY DEF PacketType
  <2> QED BY <2>2, <2>3
<1>6. checksum_from_parts(bytes[2], bytes[3], bytes[4], get_uint16(bytes, 4),
                          Carried(bytes).payload) = SumOf(p)
  BY <1>3, <1>5 DEF SumOf, Kind
<1>7. /\ ~(Len(bytes) < header_len) /\ bytes[2] \in {0, 1}
      /\ get_uint16(bytes, 6) = Len(bytes) - header_len
  BY <1>1, <1>3, KindIs DEF header_len
<1> QED BY <1>3, <1>5, <1>6, <1>7 DEF decode

(* One that does not fit the buffer of listen is cut, and its length gives   *)
(* it away.                                                                  *)
LEMMA CutIsNoticed ==
    ASSUME NEW p \in PacketType, NEW bytes, Layout(p, bytes), Len(p.payload) \in Word,
           Buffer < Len(bytes)
    PROVE  decode(SubSeq(bytes, 1, Buffer)) = Error("Length_mismatch")
<1> DEFINE f == Fields(Kind(p), p.seq, p.ack, p.src_port, p.payload)
           cut == SubSeq(bytes, 1, Buffer)
           n == Len(cut)
           size == Len(p.payload)
<1>1. /\ bytes \in Bytes /\ Len(bytes) = 10 + size /\ size \in Nat
      /\ \A i \in 1 .. 8 : bytes[i] = f[i]
  <2>1. p.payload \in Bytes
    BY DEF PacketType
  <2> QED BY <2>1, LenProperties DEF Layout, header_len, Bytes
<1>2. /\ f[1] = version /\ f[2] = Kind(p) /\ f[7] + ByteSize * f[8] = size
  BY KindIs, ReadBack
<1> HIDE DEF f
<1>3. Buffer \in Nat /\ 10 <= Buffer /\ Buffer < 10 + size
  BY <1>1, PacketAssumption DEF header_len
<1>4. n = Buffer /\ \A i \in 1 .. Buffer : cut[i] = bytes[i]
  <2>1. \A i \in 1 .. Buffer : bytes[i] \in Byte
    BY <1>1, <1>3, ElementOfSeq DEF Bytes
  <2>2. /\ n = IF 1 <= Buffer THEN Buffer - 1 + 1 ELSE 0
        /\ \A i \in 1 .. (Buffer - 1 + 1) : cut[i] = bytes[1 + i - 1]
    BY <1>3, <2>1, SubSeqProperties
  <2> HIDE DEF n, cut
  <2>3. n = Buffer
    BY <1>3, <2>2
  <2>4. ASSUME NEW i \in 1 .. Buffer PROVE cut[i] = bytes[i]
    <3>1. i \in 1 .. (Buffer - 1 + 1) /\ 1 + i - 1 = i
      BY <1>3
    <3> QED BY <2>2, <3>1
  <2> QED BY <2>3, <2>4
<1>5. Len(cut) = Buffer
  BY <1>4
<1> HIDE DEF n, cut, size
<1>6. \A i \in 1 .. 8 : cut[i] = f[i]
  <2>1. \A i \in 1 .. 8 : i \in 1 .. Buffer
    BY <1>3
  <2> QED BY <1>1, <1>4, <2>1
<1>7. cut[1] = version /\ cut[2] \in {0, 1} /\ get_uint16(cut, 6) = size
  <2>1. get_uint16(cut, 6) = cut[7] + ByteSize * cut[8]
    BY DEF get_uint16
  <2>2. \A i \in {1, 2, 7, 8} : cut[i] = f[i]
    BY <1>6
  <2> QED BY <1>2, <2>1, <2>2, KindIs
<1>8. ~(Len(cut) < header_len) /\ get_uint16(cut, 6) # Len(cut) - header_len
  BY <1>1, <1>3, <1>5, <1>7 DEF header_len
<1>9. decode(cut) = Error("Length_mismatch")
  BY <1>7, <1>8 DEF decode
<1> QED BY <1>9 DEF cut

LEMMA ArrivesWholeOrNot ==
    ASSUME NEW p \in PacketType
    PROVE  LET size == header_len + Len(p.payload)
           IN  Transmitted(p) =
                 IF size > MaxDatagram THEN Error("Message_too_long")
                 ELSE IF size > Buffer THEN Error("Length_mismatch")
                 ELSE [ok |-> p]
<1> DEFINE bytes == encode(p)
           size == Len(bytes)
<1>1. Layout(p, bytes) /\ bytes \in Bytes /\ size = header_len + Len(p.payload)
  BY EncodeLayout DEF Layout
<1>2. /\ size \in Nat /\ Len(p.payload) \in Nat /\ MaxDatagram \in Word /\ MaxDatagram \in Nat
      /\ Buffer \in Nat
  <2>1. p.payload \in Bytes
    BY DEF PacketType
  <2>2. size \in Nat /\ Len(p.payload) \in Nat
    BY <1>1, <2>1, LenProperties DEF Bytes
  <2> QED BY <2>2, PacketAssumption, WordSize
<1>0. Transmitted(p) =
        IF "error" \in DOMAIN write(bytes) THEN write(bytes) ELSE decode(listen(write(bytes).sent))
  BY DEF Transmitted
<1> HIDE DEF bytes
<1>3. CASE size > MaxDatagram
  <2>1. write(bytes) = Error("Message_too_long")
    BY <1>3 DEF write
  <2>2. "error" \in DOMAIN write(bytes)
    BY <2>1 DEF Error
  <2>3. Transmitted(p) = Error("Message_too_long")
    BY <1>0, <2>1, <2>2
  <2> QED BY <1>1, <1>3, <2>3
<1>4. CASE ~(size > MaxDatagram)
  <2>1. write(bytes) = [sent |-> bytes]
    BY <1>4 DEF write
  <2>2. "error" \notin DOMAIN write(bytes) /\ write(bytes).sent = bytes
    BY <2>1
  <2>3. Transmitted(p) = decode(listen(bytes))
    BY <1>0, <2>2
  <2>4. Len(p.payload) \in Word
    <3>1. Len(p.payload) <= MaxDatagram
      <4> DEFINE k == Len(p.payload)
      <4>1. k \in Nat /\ size = 10 + k /\ size <= MaxDatagram
        BY <1>1, <1>2, <1>4 DEF header_len
      <4> HIDE DEF k, size
      <4>2. k <= MaxDatagram
        BY <1>2, <4>1
      <4> QED BY <4>2 DEF k
    <3> QED BY <1>2, <3>1, BelowWord
  <2>5. CASE size > Buffer
    <3>1. listen(bytes) = SubSeq(bytes, 1, Buffer)
      BY <2>5 DEF listen
    <3>2. decode(SubSeq(bytes, 1, Buffer)) = Error("Length_mismatch")
      BY <1>1, <1>2, <2>4, <2>5, CutIsNoticed
    <3>3. Transmitted(p) = Error("Length_mismatch")
      BY <2>3, <3>1, <3>2
    <3> QED BY <1>1, <1>4, <2>5, <3>3
  <2>6. CASE ~(size > Buffer)
    <3>1. listen(bytes) = bytes
      BY <1>1, <2>6, SubSeqFull DEF listen, Bytes
    <3>2. decode(bytes) = [ok |-> p]
      BY <1>1, <2>4, Arrives
    <3>3. Transmitted(p) = [ok |-> p]
      BY <2>3, <3>1, <3>2
    <3> QED BY <1>1, <1>4, <2>6, <3>3
  <2> QED BY <2>5, <2>6
<1> QED BY <1>3, <1>4

(* Two words that differ in one of their bytes are different.                *)
LEMMA WordTells ==
    ASSUME NEW a \in Byte, NEW b \in Byte, NEW c \in Byte, NEW d \in Byte,
           a + ByteSize * b = c + ByteSize * d
    PROVE  a = c /\ b = d
<1>1. low(a + ByteSize * b) = a /\ high(a + ByteSize * b) = b
  BY LowHigh
<1>2. low(c + ByteSize * d) = c /\ high(c + ByteSize * d) = d
  BY LowHigh
<1> QED BY <1>1, <1>2

LEMMA OneByteNoticed ==
    ASSUME NEW p \in PacketType, NEW i \in 1 .. Len(encode(p)), NEW b \in Byte,
           b # encode(p)[i]
    PROVE  "error" \in DOMAIN decode([encode(p) EXCEPT ![i] = b])
<1> DEFINE bytes == encode(p)
           damaged == [bytes EXCEPT ![i] = b]
           f == Fields(Kind(p), p.seq, p.ack, p.src_port, p.payload)
           size == Len(p.payload)
<1>1. Layout(p, bytes) /\ bytes \in Bytes
  BY EncodeLayout DEF Layout
<1>2. i \in 1 .. Len(bytes) /\ b # bytes[i]
  OBVIOUS
<1>3. /\ size \in Nat /\ Len(bytes) = 10 + size
      /\ \A j \in 1 .. 8 : bytes[j] = f[j]
      /\ bytes[9] + ByteSize * bytes[10] = SumOf(p)
  <2>1. p.payload \in Bytes
    BY DEF PacketType
  <2> QED BY <1>1, <2>1, LenProperties DEF Layout, header_len, Bytes
<1>4. /\ f[1] = version /\ f[2] = Kind(p)
      /\ size \in Word => f[7] + ByteSize * f[8] = size
  BY KindIs, ReadBack
<1> HIDE DEF bytes, f
<1>5. /\ damaged \in Bytes /\ Len(damaged) = Len(bytes)
      /\ \A j \in 1 .. Len(bytes) : damaged[j] = IF j = i THEN b ELSE bytes[j]
  BY <1>1, <1>2, ExceptSeq DEF Bytes
<1> SUFFICES ASSUME "error" \notin DOMAIN decode(damaged) PROVE FALSE
  BY DEF bytes
<1> HIDE DEF damaged, size
<1>6. Sound(damaged)
  BY <1>5, DecodeIs
<1>7. damaged[1] = version /\ get_uint16(damaged, 6) = size /\ header_len <= Len(damaged)
  BY <1>3, <1>5, <1>6 DEF Sound, header_len
<1>8. \A j \in {1, 2, 3, 4, 5, 6, 7, 8, 9, 10} :
         j \in 1 .. Len(bytes) /\ bytes[j] \in Byte /\ damaged[j] \in Byte
  <2>1. \A j \in {1, 2, 3, 4, 5, 6, 7, 8, 9, 10} : j \in 1 .. Len(bytes)
    BY <1>3
  <2> QED BY <1>1, <1>5, <2>1, ElementOfSeq DEF Bytes
<1>9. size \in Word
  <2>1. get_uint16(damaged, 6) = damaged[7] + ByteSize * damaged[8]
    BY DEF get_uint16
  <2> QED BY <1>7, <1>8, <2>1, LowHigh
<1>10. /\ bytes[1] = version /\ bytes[2] = Kind(p)
       /\ bytes[7] + ByteSize * bytes[8] = size
       /\ damaged[7] + ByteSize * damaged[8] = size
  <2>1. \A j \in {1, 2, 7, 8} : bytes[j] = f[j]
    BY <1>3
  <2>2. get_uint16(damaged, 6) = damaged[7] + ByteSize * damaged[8]
    BY DEF get_uint16
  <2> QED BY <1>4, <1>7, <1>9, <2>1, <2>2
<1>11. i # 1 /\ i # 7 /\ i # 8
  <2>1. bytes[7] = damaged[7] /\ bytes[8] = damaged[8]
    BY <1>8, <1>10, WordTells
  <2>2. damaged[1] = bytes[1]
    BY <1>7, <1>10
  <2> QED BY <1>2, <1>5, <1>8, <2>1, <2>2
<1>12. PICK all : /\ AllButSum(bytes, all)
                  /\ checksum_from_parts(bytes[2], bytes[3], bytes[4], get_uint16(bytes, 4),
                                         Carried(bytes).payload) = checksum_bytes(all)
  <2>1. header_len <= Len(bytes) /\ get_uint16(bytes, 6) = Len(bytes) - header_len
    <3>1. get_uint16(bytes, 6) = bytes[7] + ByteSize * bytes[8]
      BY DEF get_uint16
    <3> QED BY <1>3, <1>10, <3>1 DEF header_len
  <2> QED BY <1>1, <1>10, <2>1, SummedOf
<1>13. PICK rest : /\ AllButSum(damaged, rest)
                   /\ checksum_from_parts(damaged[2], damaged[3], damaged[4],
                                          get_uint16(damaged, 4), Carried(damaged).payload)
                        = checksum_bytes(rest)
  BY <1>5, <1>6, SummedOf DEF Sound
<1>14. checksum_bytes(all) = bytes[9] + ByteSize * bytes[10]
  <2>1. decode(bytes) = [ok |-> p]
    BY <1>1, <1>9, Arrives DEF size
  <2>2. "error" \notin DOMAIN decode(bytes)
    BY <2>1
  <2>3. Sound(bytes)
    BY <1>1, <2>2, DecodeIs
  <2>4. get_uint16(bytes, 8) = bytes[9] + ByteSize * bytes[10]
    BY DEF get_uint16
  <2> QED BY <1>12, <2>3, <2>4 DEF Sound
<1>15. checksum_bytes(rest) = damaged[9] + ByteSize * damaged[10]
  <2>1. get_uint16(damaged, 8) = damaged[9] + ByteSize * damaged[10]
    BY DEF get_uint16
  <2> QED BY <1>6, <1>13, <2>1 DEF Sound
<1>16. /\ all \in Bytes /\ rest \in Bytes /\ Len(all) = 8 + size /\ Len(rest) = 8 + size
       /\ \A j \in 1 .. 8 : all[j] = bytes[j] /\ rest[j] = damaged[j]
       /\ \A j \in 11 .. (10 + size) : all[j - 2] = bytes[j] /\ rest[j - 2] = damaged[j]
  BY <1>3, <1>5, <1>12, <1>13 DEF AllButSum
<1>17. CASE i = 9 \/ i = 10
  <2>1. \A j \in 1 .. (10 + size) : j # i => damaged[j] = bytes[j]
    BY <1>3, <1>5
  <2>2. \A j \in 1 .. (8 + size) : all[j] = rest[j]
    <3>1. \A j \in 1 .. 8 : all[j] = rest[j]
      BY <1>3, <1>16, <1>17, <2>1
    <3>2. ASSUME NEW j \in 9 .. (8 + size) PROVE all[j] = rest[j]
      <4>1. j + 2 \in 11 .. (10 + size) /\ j + 2 \in 1 .. (10 + size) /\ j + 2 # i
            /\ (j + 2) - 2 = j
        BY <1>3, <1>17
      <4>2. all[(j + 2) - 2] = bytes[j + 2] /\ rest[(j + 2) - 2] = damaged[j + 2]
        BY <1>16, <4>1
      <4> QED BY <2>1, <4>1, <4>2
    <3> QED BY <1>3, <3>1, <3>2
  <2>3. all = rest
    BY <1>16, <2>2, SeqEqual DEF Bytes
  <2>4. bytes[9] = damaged[9] /\ bytes[10] = damaged[10]
    BY <1>8, <1>14, <1>15, <2>3, WordTells
  <2> QED BY <1>2, <1>5, <1>17, <2>4
<1>18. CASE i \in 1 .. 8 \/ i \in 11 .. (10 + size)
  <2> DEFINE k == IF i <= 8 THEN i ELSE i - 2
  <2>1. /\ k \in 1 .. (8 + size) /\ all[k] # rest[k]
        /\ \A j \in 1 .. (8 + size) : j # k => all[j] = rest[j]
    <3>1. \A j \in 1 .. (10 + size) : damaged[j] = IF j = i THEN b ELSE bytes[j]
      BY <1>3, <1>5
    <3>2. CASE i \in 1 .. 8
      <4>1. k = i /\ i <= 8
        BY <3>2
      <4>2. all[i] # rest[i]
        BY <1>2, <1>3, <1>16, <3>1, <3>2
      <4>3. ASSUME NEW j \in 1 .. (8 + size), j # i PROVE all[j] = rest[j]
        <5>1. CASE j \in 1 .. 8
          BY <1>3, <1>16, <3>1, <4>3, <5>1
        <5>2. CASE j \in 9 .. (8 + size)
          <6>1. j + 2 \in 11 .. (10 + size) /\ j + 2 \in 1 .. (10 + size) /\ j + 2 # i
                /\ (j + 2) - 2 = j
            BY <1>3, <3>2, <5>2
          <6>2. all[(j + 2) - 2] = bytes[j + 2] /\ rest[(j + 2) - 2] = damaged[j + 2]
            BY <1>16, <6>1
          <6> QED BY <3>1, <6>1, <6>2
        <5> QED BY <1>3, <5>1, <5>2
      <4> QED BY <1>3, <3>2, <4>1, <4>2, <4>3
    <3>3. CASE i \in 11 .. (10 + size)
      <4>1. k = i - 2 /\ i - 2 \in 1 .. (8 + size) /\ i \in 1 .. (10 + size)
        BY <1>3, <3>3
      <4>2. all[i - 2] # rest[i - 2]
        BY <1>2, <1>16, <3>1, <3>3, <4>1
      <4>3. ASSUME NEW j \in 1 .. (8 + size), j # i - 2 PROVE all[j] = rest[j]
        <5>1. CASE j \in 1 .. 8
          BY <1>3, <1>16, <3>1, <3>3, <5>1
        <5>2. CASE j \in 9 .. (8 + size)
          <6>1. j + 2 \in 11 .. (10 + size) /\ j + 2 \in 1 .. (10 + size) /\ j + 2 # i
                /\ (j + 2) - 2 = j
            BY <1>3, <3>3, <4>3, <5>2
          <6>2. all[(j + 2) - 2] = bytes[j + 2] /\ rest[(j + 2) - 2] = damaged[j + 2]
            BY <1>16, <6>1
          <6> QED BY <3>1, <6>1, <6>2
        <5> QED BY <1>3, <5>1, <5>2
      <4> QED BY <4>1, <4>2, <4>3
    <3> QED BY <1>18, <3>2, <3>3
  <2> HIDE DEF k
  <2>2. checksum_bytes(all) # checksum_bytes(rest)
    BY <1>16, <2>1, ChecksumTells DEF Bytes
  <2>3. i # 9 /\ i # 10
    BY <1>3, <1>18
  <2>4. damaged[9] = bytes[9] /\ damaged[10] = bytes[10]
    BY <1>5, <1>8, <2>3
  <2> QED BY <1>14, <1>15, <2>2, <2>4
<1>19. i = 9 \/ i = 10 \/ i \in 1 .. 8 \/ i \in 11 .. (10 + size)
  BY <1>2, <1>3
<1> QED BY <1>17, <1>18, <1>19

-------------------------------------------------------------------------------
(* The theorems about packets.                                               *)

PacketInv == packet = NoPacket \/ packet \in PacketType

LEMMA PacketInvHolds == PacketSpec => []PacketInv
<1>1. PacketInit => PacketInv
  BY DEF PacketInit, PacketInv
<1>2. PacketInv /\ [\E p \in Packets : SendPacket(p)]_packet => PacketInv'
  BY PacketAssumption DEF PacketInv, SendPacket, PacketType, Bytes
<1> QED BY <1>1, <1>2, PTL DEF PacketSpec

(* A packet of any content and any length arrives as it was sent, or not at  *)
(* all, whatever the size of the buffer of listen and of a byte: a packet    *)
(* that was cut has a length field that is not its length (decode).          *)
THEOREM PacketsStayWhole == PacketSpec => []PacketsArriveWhole
<1>1. PacketInv => PacketsArriveWhole
  BY ArrivesWholeOrNot DEF PacketInv, PacketsArriveWhole
<1> QED BY <1>1, PacketInvHolds, PTL

(* A packet of any content and any length that has one wrong byte is         *)
(* rejected, wherever that byte is: in the fields that decode compares, in   *)
(* the sum, or in what was summed (checksum_bytes).                          *)
THEOREM OneByteIsNoticed == PacketSpec => []DamageNoticed
<1>1. PacketInv => DamageNoticed
  BY OneByteNoticed DEF PacketInv, DamageNoticed
<1> QED BY <1>1, PacketInvHolds, PTL

-------------------------------------------------------------------------------
(* Frames of the Mirage adapter: what stands where.                          *)

Octets == Seq(Octet)

Part(s, n) == n \in Nat /\ s \in Octets /\ Len(s) = n

(* What the buffer has from an offset on. *)
StandsAt(buf, k, part) ==
    /\ k + Len(part) <= Len(buf)
    /\ \A i \in 1 .. Len(part) : buf[k + i] = part[i]

(* What two parts make.                                                      *)
Joint(all, a, n, b, l) ==
    /\ Part(all, n + l)
    /\ \A i \in 1 .. n : all[i] = a[i]
    /\ \A i \in 1 .. l : all[n + i] = b[i]

LEMMA TuplePart ==
    ASSUME NEW n \in Nat, NEW f \in [1 .. n -> Octet]
    PROVE  Part(f, n)
BY SeqDef, LenProperties DEF Octets, Part

LEMMA AnyPart ==
    ASSUME NEW s \in Octets
    PROVE  Part(s, Len(s)) /\ Len(s) \in Nat
BY LenProperties DEF Octets, Part

LEMMA Whole ==
    ASSUME NEW buf, NEW size, Part(buf, size)
    PROVE  StandsAt(buf, 0, buf)
BY DEF StandsAt, Part

LEMMA JoinedParts ==
    ASSUME NEW a, NEW n, Part(a, n), NEW b, NEW l, Part(b, l)
    PROVE  Joint(a \o b, a, n, b, l) /\ Part(a \o b, n + l)
<1>1. n \in Nat /\ l \in Nat /\ a \in Seq(Octet) /\ b \in Seq(Octet) /\ Len(a) = n /\ Len(b) = l
  BY DEF Part, Octets
<1>2. /\ a \o b \in Seq(Octet) /\ Len(a \o b) = Len(a) + Len(b)
      /\ \A i \in 1 .. Len(a) + Len(b) : (a \o b)[i] = IF i <= Len(a) THEN a[i] ELSE b[i - Len(a)]
  BY <1>1, ConcatProperties
<1> DEFINE all == a \o b
<1>3. /\ all \in Seq(Octet) /\ Len(all) = n + l
      /\ \A i \in 1 .. n + l : all[i] = IF i <= n THEN a[i] ELSE b[i - n]
  BY <1>1, <1>2
<1> HIDE DEF all
<1>4. Part(all, n + l)
  BY <1>1, <1>3 DEF Part, Octets
<1>5. ASSUME NEW i \in 1 .. n PROVE all[i] = a[i]
  <2>1. i \in 1 .. n + l /\ i <= n
    BY <1>1
  <2> QED BY <1>3, <2>1
<1>6. ASSUME NEW i \in 1 .. l PROVE all[n + i] = b[i]
  <2>1. n + i \in 1 .. n + l /\ ~(n + i <= n) /\ (n + i) - n = i
    BY <1>1
  <2> QED BY <1>3, <2>1
<1> QED BY <1>4, <1>5, <1>6 DEF all, Joint

(* Whoever finds two parts finds each of them. *)
LEMMA Peel ==
    ASSUME NEW buf, NEW size, Part(buf, size), NEW a, NEW n, Part(a, n), NEW b, NEW l, Part(b, l),
           NEW k \in Nat, StandsAt(buf, k, a \o b), NEW j, j = k + n
    PROVE  StandsAt(buf, k, a) /\ StandsAt(buf, j, b)
<1> DEFINE all == a \o b
<1>1. Joint(all, a, n, b, l)
  BY JoinedParts
<1>2. StandsAt(buf, k, all)
  OBVIOUS
<1> HIDE DEF all
<1>3. /\ k + (n + l) <= size /\ size \in Nat /\ n \in Nat /\ l \in Nat
      /\ \A i \in 1 .. n + l : buf[k + i] = all[i]
      /\ Len(buf) = size /\ Len(a) = n /\ Len(b) = l
  BY <1>1, <1>2 DEF StandsAt, Part, Joint
<1>4. StandsAt(buf, k, a)
  <2>1. k + n <= size /\ \A i \in 1 .. n : i \in 1 .. n + l
    BY <1>3
  <2>2. \A i \in 1 .. n : buf[k + i] = a[i]
    BY <1>1, <1>3, <2>1 DEF Joint
  <2> QED BY <1>3, <2>1, <2>2 DEF StandsAt
<1>5. StandsAt(buf, j, b)
  <2>1. j + l <= size
    BY <1>3
  <2>2. ASSUME NEW i \in 1 .. l PROVE buf[j + i] = b[i]
    <3>1. n + i \in 1 .. n + l /\ j + i = k + (n + i)
      BY <1>3
    <3>2. all[n + i] = b[i]
      BY <1>1 DEF Joint
    <3> QED BY <1>3, <3>1, <3>2
  <2> QED BY <1>3, <2>1, <2>2 DEF StandsAt
<1> QED BY <1>4, <1>5

LEMMA Glue ==
    ASSUME NEW buf, NEW size, Part(buf, size), NEW a, NEW n, Part(a, n), NEW b, NEW l, Part(b, l),
           NEW k \in Nat, NEW j, j = k + n, StandsAt(buf, k, a), StandsAt(buf, j, b)
    PROVE  StandsAt(buf, k, a \o b)
<1> DEFINE all == a \o b
<1>1. Joint(all, a, n, b, l)
  BY JoinedParts
<1> HIDE DEF all
<1>2. /\ n \in Nat /\ l \in Nat /\ j + l <= size /\ size \in Nat
      /\ \A i \in 1 .. n : buf[k + i] = a[i]
      /\ \A i \in 1 .. l : buf[j + i] = b[i]
      /\ Len(buf) = size /\ Len(all) = n + l
  BY <1>1 DEF StandsAt, Part, Joint
<1>3. ASSUME NEW i \in 1 .. n + l PROVE buf[k + i] = all[i]
  <2>1. CASE i <= n
    <3>1. i \in 1 .. n
      BY <1>2, <2>1
    <3>2. all[i] = a[i]
      BY <1>1, <3>1 DEF Joint
    <3> QED BY <1>2, <3>1, <3>2
  <2>2. CASE ~(i <= n)
    <3>1. i - n \in 1 .. l /\ j + (i - n) = k + i /\ n + (i - n) = i
      BY <1>2, <2>2
    <3>2. all[n + (i - n)] = b[i - n]
      BY <1>1, <3>1 DEF Joint
    <3> QED BY <1>2, <3>1, <3>2
  <2> QED BY <2>1, <2>2
<1>4. StandsAt(buf, k, all)
  BY <1>2, <1>3 DEF StandsAt
<1> QED BY <1>4 DEF all

LEMMA Within ==
    ASSUME NEW buf, NEW size, Part(buf, size), NEW f, NEW n, Part(f, n), NEW j \in Nat, StandsAt(buf, j, f),
           NEW part, NEW l, Part(part, l), NEW k \in Nat, StandsAt(f, k, part), NEW o, o = j + k
    PROVE  StandsAt(buf, o, part)
<1>1. /\ size \in Nat /\ n \in Nat /\ l \in Nat /\ j + n <= size /\ k + l <= n
      /\ Len(buf) = size /\ Len(f) = n /\ Len(part) = l
      /\ \A i \in 1 .. n : buf[j + i] = f[i]
      /\ \A i \in 1 .. l : f[k + i] = part[i]
  BY DEF Part, StandsAt
<1>2. ASSUME NEW i \in 1 .. l PROVE buf[o + i] = part[i]
  <2>1. k + i \in 1 .. n /\ j + (k + i) = o + i
    BY <1>1
  <2> QED BY <1>1, <2>1
<1> QED BY <1>1, <1>2 DEF StandsAt

LEMMA SubIs ==
    ASSUME NEW buf, NEW size, Part(buf, size), NEW k \in Nat, NEW n \in Nat, k + n <= size
    PROVE  /\ Part(sub(buf, k, n), n)
           /\ \A i \in 1 .. n : sub(buf, k, n)[i] = buf[k + i]
<1> DEFINE s == SubSeq(buf, k + 1, k + n)
<1>1. /\ size \in Nat /\ buf \in Seq(Octet) /\ Len(buf) = size
      /\ \A i \in (k + 1) .. (k + n) : i \in 1 .. size
  BY DEF Part, Octets
<1>2. \A i \in (k + 1) .. (k + n) : buf[i] \in Octet
  BY <1>1, ElementOfSeq
<1>3. /\ s \in Seq(Octet)
      /\ Len(s) = IF k + 1 <= k + n THEN k + n - (k + 1) + 1 ELSE 0
      /\ \A i \in 1 .. (k + n - (k + 1) + 1) : s[i] = buf[k + 1 + i - 1]
  BY <1>2, SubSeqProperties
<1> HIDE DEF s
<1>4. Len(s) = n
  BY <1>3
<1>5. ASSUME NEW i \in 1 .. n PROVE s[i] = buf[k + i]
  <2>1. i \in 1 .. (k + n - (k + 1) + 1) /\ k + 1 + i - 1 = k + i
    OBVIOUS
  <2> QED BY <1>3, <2>1
<1> QED BY <1>3, <1>4, <1>5 DEF s, sub, Octets, Part

LEMMA Cut ==
    ASSUME NEW buf, NEW size, Part(buf, size), NEW part, NEW n, Part(part, n),
           NEW k \in Nat, StandsAt(buf, k, part)
    PROVE  sub(buf, k, n) = part
<1> DEFINE s == sub(buf, k, n)
<1>1. /\ n \in Nat /\ k + n <= size /\ Len(part) = n /\ part \in Seq(Octet)
      /\ \A i \in 1 .. n : buf[k + i] = part[i]
  BY DEF StandsAt, Part, Octets
<1>2. Part(s, n) /\ \A i \in 1 .. n : s[i] = buf[k + i]
  BY <1>1, SubIs
<1> HIDE DEF s
<1>3. s \in Seq(Octet) /\ Len(s) = n /\ \A i \in 1 .. n : s[i] = part[i]
  BY <1>1, <1>2 DEF Part, Octets
<1>4. s = part
  BY <1>1, <1>3, SeqEqual
<1> QED BY <1>4 DEF s

LEMMA InIpHeader ==
    ASSUME NEW f, NEW ip, NEW n, Part(ip, n), 20 <= n, StandsAt(f, 14, ip)
    PROVE  /\ uint16(f, 16) = uint16(ip, 2)
           /\ uint8(f, 14) = ip[1] /\ uint8(f, 23) = ip[10]
<1>1. n \in Nat /\ \A o \in 1 .. n : f[14 + o] = ip[o]
  BY DEF StandsAt, Part
<1>2. f[15] = ip[1] /\ f[17] = ip[3] /\ f[18] = ip[4] /\ f[24] = ip[10]
  BY <1>1
<1> QED BY <1>2 DEF uint8, uint16

LEMMA InUdpHeader ==
    ASSUME NEW f, NEW k \in Nat, NEW udp, Part(udp, 8), StandsAt(f, k, udp), NEW i \in {0, 2, 4}
    PROVE  uint16(f, k + i) = uint16(udp, i)
<1>1. \A o \in 1 .. 8 : f[k + o] = udp[o]
  BY DEF StandsAt, Part
<1>2. f[k + i + 1] = udp[i + 1] /\ f[k + i + 2] = udp[i + 2]
  BY <1>1
<1> QED BY <1>2 DEF uint8, uint16

LEMMA Halves ==
    ASSUME NEW v \in Nat, v < TwoBytes
    PROVE  upper(v) \in Octet /\ lower(v) \in Octet /\ 256 * upper(v) + lower(v) = v
<1> DEFINE q == v \div 256
           r == v % 256
<1>1. q = v \div 256 /\ r = v % 256
  OBVIOUS
<1>2. upper(v) = q % 256 /\ lower(v) = r
  BY DEF upper, lower
<1> HIDE DEF q, r
<1>3. q \in Int /\ r \in 0 .. (256 - 1) /\ v = 256 * q + r /\ v < 256 * 256
  BY <1>1, Division DEF TwoBytes
<1>4. q \in 0 .. (256 - 1) /\ 256 * 0 + q = q /\ q \in Octet /\ r \in Octet
  BY <1>3 DEF Octet
<1>5. q % 256 = q
  BY <1>4, Quotient
<1> QED BY <1>2, <1>3, <1>4, <1>5

LEMMA Addresses ==
    /\ Part(my_mac, 6) /\ Part(HostMac, 6) /\ Part(broadcast_mac, 6)
    /\ Part(my_ip, 4) /\ Part(host_ip, 4) /\ Part(ArpType, 2) /\ Part(IpType, 2)
    /\ ArpType # IpType /\ HostMac # broadcast_mac /\ my_ip # host_ip
<1>1. my_mac \in [1 .. 6 -> Octet]
  BY DEF my_mac, Octet
<1>2. HostMac \in [1 .. 6 -> Octet]
  BY DEF HostMac, Octet
<1>3. broadcast_mac \in [1 .. 6 -> Octet]
  BY DEF broadcast_mac, Octet
<1>4. my_ip \in [1 .. 4 -> Octet]
  BY DEF my_ip, Octet
<1>5. host_ip \in [1 .. 4 -> Octet]
  BY DEF host_ip, Octet
<1>6. ArpType \in [1 .. 2 -> Octet]
  BY DEF ArpType, Octet
<1>7. IpType \in [1 .. 2 -> Octet]
  BY DEF IpType, Octet
<1>8. ArpType # IpType /\ HostMac # broadcast_mac /\ my_ip # host_ip
  <2>1. ArpType[2] = 6 /\ IpType[2] = 0
    BY DEF ArpType, IpType
  <2>2. HostMac[1] = 2 /\ broadcast_mac[1] = 255
    BY DEF HostMac, broadcast_mac
  <2>3. my_ip[4] = 2 /\ host_ip[4] = 1
    BY DEF my_ip, host_ip
  <2> QED BY <2>1, <2>2, <2>3
<1> QED BY <1>1, <1>2, <1>3, <1>4, <1>5, <1>6, <1>7, <1>8, TuplePart

LEMMA EthernetIs ==
    ASSUME NEW to, Part(to, 6), NEW from, Part(from, 6), NEW type, Part(type, 2)
    PROVE  /\ Part(Ethernet(to, from, type), 14)
           /\ StandsAt(Ethernet(to, from, type), 0, to) /\ StandsAt(Ethernet(to, from, type), 6, from)
           /\ StandsAt(Ethernet(to, from, type), 12, type)
<1> DEFINE two == to \o from
           all == two \o type
<1>0. Ethernet(to, from, type) = all
  BY DEF Ethernet
<1>1. Part(two, 12)
  <2>1. Part(two, 6 + 6)
    BY JoinedParts
  <2> QED BY <2>1
<1>2. Part(all, 14) /\ StandsAt(all, 0, all)
  <2> HIDE DEF two
  <2>1. Part(all, 12 + 2)
    BY <1>1, JoinedParts
  <2> HIDE DEF all
  <2> QED BY <2>1, Whole
<1>3. StandsAt(all, 0, two) /\ StandsAt(all, 12, type)
  <2> DEFINE buf == all
  <2>1. Part(buf, 14) /\ StandsAt(buf, 0, two \o type)
    BY <1>2
  <2> HIDE DEF two, buf
  <2>2. StandsAt(buf, 0, two) /\ StandsAt(buf, 12, type)
    BY <1>1, <2>1, Peel
  <2> QED BY <2>2 DEF buf
<1> HIDE DEF all
<1>4. StandsAt(all, 0, to) /\ StandsAt(all, 6, from)
  BY <1>2, <1>3, Peel
<1> QED BY <1>0, <1>2, <1>3, <1>4

LEMMA IpFieldsAre ==
    ASSUME NEW length \in Nat, length < TwoBytes, NEW sum \in Nat, sum < TwoBytes
    PROVE  LET h == IpFields(length, sum)
           IN  /\ Part(h, 20)
               /\ StandsAt(h, 0, <<69, 0, upper(length), lower(length), 0, 0, 0, 0, 64, 17,
                             upper(sum), lower(sum)>>)
               /\ StandsAt(h, 12, my_ip) /\ StandsAt(h, 16, host_ip)
<1> DEFINE t == <<69, 0, upper(length), lower(length), 0, 0, 0, 0, 64, 17, upper(sum), lower(sum)>>
           two == t \o my_ip
           h == two \o host_ip
<1>1. Part(t, 12)
  <2>1. /\ upper(length) \in Octet /\ lower(length) \in Octet
        /\ upper(sum) \in Octet /\ lower(sum) \in Octet
    BY Halves
  <2>2. 69 \in Octet /\ 0 \in Octet /\ 64 \in Octet /\ 17 \in Octet
    BY DEF Octet
  <2>3. t \in [1 .. 12 -> Octet]
    BY <2>1, <2>2
  <2> HIDE DEF t
  <2> QED BY <2>3, TuplePart
<1>0. IpFields(length, sum) = h
  BY DEF IpFields
<1> HIDE DEF t
<1>2. Part(two, 16)
  <2>1. Part(two, 12 + 4)
    BY <1>1, Addresses, JoinedParts
  <2> QED BY <2>1
<1> HIDE DEF two
<1>3. Part(h, 20) /\ StandsAt(h, 0, two) /\ StandsAt(h, 16, host_ip)
  <2>1. Part(h, 16 + 4)
    BY <1>2, Addresses, JoinedParts
  <2>2. Part(h, 20)
    BY <2>1
  <2>3. StandsAt(h, 0, two \o host_ip)
    BY <2>2, Whole
  <2> HIDE DEF h
  <2> QED BY <1>2, <2>2, <2>3, Addresses, Peel
<1> HIDE DEF h
<1>4. StandsAt(h, 0, t) /\ StandsAt(h, 12, my_ip)
  <2>1. StandsAt(h, 0, t \o my_ip)
    BY <1>3 DEF two
  <2> QED BY <1>1, <1>3, <2>1, Addresses, Peel
<1> QED BY <1>0, <1>3, <1>4 DEF t

LEMMA UdpHeaderIs ==
    ASSUME NEW src \in Nat, src < TwoBytes, NEW dst \in Nat, dst < TwoBytes,
           NEW n \in Nat, 8 + n < TwoBytes
    PROVE  /\ Part(UdpHeader(src, dst, n), 8)
           /\ uint16(UdpHeader(src, dst, n), 2) = dst
           /\ uint16(UdpHeader(src, dst, n), 4) = 8 + n
<1> DEFINE t == UdpHeader(src, dst, n)
<1>1. /\ upper(src) \in Octet /\ lower(src) \in Octet /\ upper(dst) \in Octet /\ lower(dst) \in Octet
      /\ upper(8 + n) \in Octet /\ lower(8 + n) \in Octet /\ 0 \in Octet
  BY Halves DEF Octet
<1>2. t \in [1 .. 8 -> Octet]
  BY <1>1 DEF UdpHeader
<1>3. /\ t[3] = upper(dst) /\ t[4] = lower(dst) /\ t[5] = upper(8 + n) /\ t[6] = lower(8 + n)
  BY DEF UdpHeader
<1> HIDE DEF t
<1>4. Part(t, 8)
  BY <1>2, TuplePart
<1>5. uint16(t, 2) = dst /\ uint16(t, 4) = 8 + n
  BY <1>3, Halves DEF uint16
<1> QED BY <1>4, <1>5 DEF t

(* The sum over the words of a header, as its recursion gives it.            *)
NextWord(sum, cs, n) == IF n = 0 THEN 0 ELSE sum[n - 1] + uint16(cs, (n - 1) * 2)

LEMMA WordsOf ==
    ASSUME NEW buf, NEW n, Part(buf, n), NEW k \in Nat, k + 2 <= n
    PROVE  uint16(buf, k) \in Int /\ 0 <= uint16(buf, k) /\ uint16(buf, k) < TwoBytes
<1>1. k + 1 \in 1 .. Len(buf) /\ k + 2 \in 1 .. Len(buf)
  BY DEF Part
<1>2. buf[k + 1] \in Octet /\ buf[k + 2] \in Octet
  BY <1>1, ElementOfSeq DEF Octets, Part
<1> QED BY <1>2 DEF uint16, Octet, TwoBytes

(* The sum over the ten words of a header.                                   *)
LEMMA SumOfHeader ==
    ASSUME NEW h, Part(h, 20)
    PROVE  SumOfWords(h) = uint16(h, 0) + uint16(h, 2) + uint16(h, 4) + uint16(h, 6) + uint16(h, 8)
                           + uint16(h, 10) + uint16(h, 12) + uint16(h, 14) + uint16(h, 16)
                           + uint16(h, 18)
<1> DEFINE n == Len(h) \div 2
           next == [x \in Int \X (1 .. n) |-> x[1] + uint16(h, (x[2] - 1) * 2)]
           g == CHOOSE sum : sum = [i \in 0 .. n |-> NextWord(sum, h, i)]
<1>0. n = 10 /\ n \in Nat /\ 0 \in Int
  BY DEF Part
<1> HIDE DEF n
<1>1. ASSUME NEW k \in 1 .. n PROVE uint16(h, (k - 1) * 2) \in Int
  <2>1. (k - 1) * 2 \in Nat /\ (k - 1) * 2 + 2 <= 20
    BY <1>0
  <2> QED BY <2>1, WordsOf
<1>2. next \in [Int \X (1 .. n) -> Int]
  BY <1>1
<1>3. PICK f \in [0 .. n -> Int] : Follows(f, 0, next, n)
  <2> HIDE DEF next
  <2> QED BY <1>0, <1>2, Recursion
<1>4. f = [i \in 0 .. n |-> NextWord(f, h, i)]
  <2>1. ASSUME NEW i \in 0 .. n PROVE f[i] = NextWord(f, h, i)
    <3>1. CASE i = 0
      BY <1>3, <3>1 DEF Follows, NextWord
    <3>2. CASE i # 0
      <4>1. i \in 1 .. n /\ i - 1 \in 0 .. n /\ f[i - 1] \in Int
        BY <1>0, <1>3, <3>2
      <4>2. f[i] = next[<<f[i - 1], i>>]
        BY <1>3, <4>1 DEF Follows
      <4> QED BY <3>2, <4>1, <4>2 DEF NextWord
    <3> QED BY <3>1, <3>2
  <2> QED BY <1>3, <2>1
<1>5. g = [i \in 0 .. n |-> NextWord(g, h, i)]
  BY <1>4
<1>6. SumOfWords(h) = g[n]
  BY DEF SumOfWords, NextWord, n
<1> HIDE DEF g
<1>7. \A i \in 0 .. 10 : g[i] = NextWord(g, h, i)
  BY <1>0, <1>5
<1>8. /\ g[0] = 0
      /\ g[1] = g[0] + uint16(h, 0) /\ g[2] = g[1] + uint16(h, 2) /\ g[3] = g[2] + uint16(h, 4)
      /\ g[4] = g[3] + uint16(h, 6) /\ g[5] = g[4] + uint16(h, 8) /\ g[6] = g[5] + uint16(h, 10)
      /\ g[7] = g[6] + uint16(h, 12) /\ g[8] = g[7] + uint16(h, 14)
      /\ g[9] = g[8] + uint16(h, 16) /\ g[10] = g[9] + uint16(h, 18)
  BY <1>7 DEF NextWord
<1>9. ASSUME NEW k \in {0, 2, 4, 6, 8, 10, 12, 14, 16, 18} PROVE uint16(h, k) \in Int
  <2>1. k \in Nat /\ k + 2 <= 20
    OBVIOUS
  <2> QED BY <2>1, WordsOf
<1>10. /\ uint16(h, 0) \in Int /\ uint16(h, 2) \in Int /\ uint16(h, 4) \in Int
       /\ uint16(h, 6) \in Int /\ uint16(h, 8) \in Int /\ uint16(h, 10) \in Int
       /\ uint16(h, 12) \in Int /\ uint16(h, 14) \in Int /\ uint16(h, 16) \in Int
       /\ uint16(h, 18) \in Int
  BY <1>9
<1> QED BY <1>0, <1>6, <1>8, <1>10

(* A sum and its complement are a multiple of the largest word: that is how  *)
(* the receiver checks a header.                                             *)
LEMMA FoldedComplement ==
    ASSUME NEW m \in Nat, 16 <= m, NEW S \in Nat, S < 2 * m
    PROVE  LET folded == (S \div m) + (S % m)
               c == m - 1 - ((folded + (folded \div m)) % m)
           IN  c \in Nat /\ c < m /\ (S + c) % (m - 1) = 0
<1> DEFINE q == S \div m
           r == S % m
           folded == q + r
           d == folded \div m
           e == folded % m
           x == (folded + d) % m
           c == m - 1 - x
<1>1. q = S \div m /\ r = S % m
  OBVIOUS
<1>2. d = folded \div m /\ e = folded % m
  OBVIOUS
<1>3. folded = q + r /\ x = (folded + d) % m /\ c = m - 1 - x
  OBVIOUS
<1> SUFFICES c \in Nat /\ c < m /\ (S + c) % (m - 1) = 0
  OBVIOUS
<1> HIDE DEF q, r, folded, d, e, x, c
<1>4. m \in Nat \ {0} /\ m - 1 \in Nat \ {0} /\ S \in Int
  OBVIOUS
<1>5. q \in Int /\ r \in 0 .. (m - 1) /\ S = m * q + r
  BY <1>1, <1>4, Division
<1>6. 0 <= q /\ q < 2
  <2>1. CASE q <= -1
    <3>1. m * q <= m * (-1)
      BY <1>5, <2>1
    <3> QED BY <1>5, <3>1
  <2>2. CASE 2 <= q
    <3>1. m * 2 <= m * q
      BY <1>5, <2>2
    <3> QED BY <1>5, <3>1
  <2> QED BY <1>5, <2>1, <2>2
<1>7. folded \in Nat /\ folded \in Int /\ folded <= m
  BY <1>3, <1>5, <1>6
<1>8. d \in Int /\ e \in 0 .. (m - 1) /\ folded = m * d + e
  BY <1>2, <1>4, <1>7, Division
<1>9. d = 0 \/ d = 1
  <2>1. CASE d <= -1
    <3>1. m * d <= m * (-1)
      BY <1>8, <2>1
    <3> QED BY <1>7, <1>8, <3>1
  <2>2. CASE 2 <= d
    <3>1. m * 2 <= m * d
      BY <1>8, <2>2
    <3> QED BY <1>7, <1>8, <3>1
  <2> QED BY <1>8, <2>1, <2>2
<1> DEFINE k == q + d + 1
<1>10. k \in Int /\ S + c = (m - 1) * k + 0 /\ c \in Nat /\ c < m
  <2> DEFINE p == m * q
  <2>0. (m - 1) * k = p - q + (m - 1) * (d + 1) /\ p \in Int /\ S = p + r
    BY <1>5, <1>8
  <2> HIDE DEF p
  <2>1. CASE d = 0
    <3>1. folded \in 0 .. (m - 1) /\ folded + d = m * 0 + folded
      BY <1>7, <1>8, <2>1
    <3>2. x = folded
      BY <1>3, <1>4, <3>1, Quotient
    <3>3. c = m - 1 - folded /\ c \in Nat /\ c < m
      BY <1>3, <3>1, <3>2
    <3>4. (m - 1) * (d + 1) = m - 1 /\ k \in Int
      BY <1>5, <2>1
    <3>5. S + c = (m - 1) * k + 0
      <4> HIDE DEF k
      <4> QED BY <1>3, <1>5, <2>0, <3>3, <3>4
    <3> QED BY <3>3, <3>4, <3>5
  <2>2. CASE d = 1
    <3>1. e + 1 \in 0 .. (m - 1) /\ folded + d = m * d + (e + 1) /\ d \in Int
      BY <1>7, <1>8, <2>2
    <3>2. x = e + 1
      BY <1>3, <1>4, <3>1, Quotient
    <3>3. c = m - 2 - e /\ c \in Nat /\ c < m /\ folded = m + e
      BY <1>3, <1>8, <2>2, <3>1, <3>2
    <3>4. (m - 1) * (d + 1) = 2 * m - 2 /\ k \in Int
      BY <1>5, <2>2
    <3>5. S + c = (m - 1) * k + 0
      <4>1. folded = q + r /\ q \in Int /\ r \in Int /\ e \in Int
        BY <1>3, <1>5, <1>8
      <4>2. (m - 1) * k = p - q + 2 * m - 2
        BY <1>5, <2>0, <3>4
      <4> HIDE DEF k
      <4> QED BY <2>0, <3>3, <4>1, <4>2
    <3> QED BY <3>3, <3>4, <3>5
  <2> QED BY <1>9, <2>1, <2>2
<1> HIDE DEF k
<1>11. 0 \in 0 .. ((m - 1) - 1)
  OBVIOUS
<1>12. ((m - 1) * k + 0) % (m - 1) = 0
  BY <1>4, <1>10, <1>11, Quotient
<1> QED BY <1>10, <1>12

LEMMA IpWords ==
    ASSUME NEW length \in Nat, length < TwoBytes, NEW sum \in Nat, sum < TwoBytes
    PROVE  LET h == IpFields(length, sum)
           IN  /\ h[1] = 69 /\ h[10] = 17
               /\ uint16(h, 0) = 256 * 69 /\ uint16(h, 2) = length /\ uint16(h, 4) = 0
               /\ uint16(h, 6) = 0 /\ uint16(h, 8) = 256 * 64 + 17 /\ uint16(h, 10) = sum
               /\ uint16(h, 12) = 256 * 10 /\ uint16(h, 14) = 2
               /\ uint16(h, 16) = 256 * 10 /\ uint16(h, 18) = 1
<1> DEFINE t == <<69, 0, upper(length), lower(length), 0, 0, 0, 0, 64, 17, upper(sum), lower(sum)>>
           h == IpFields(length, sum)
<1>1. StandsAt(h, 0, t) /\ StandsAt(h, 12, my_ip) /\ StandsAt(h, 16, host_ip)
  BY IpFieldsAre
<1>2. Len(t) = 12
  OBVIOUS
<1> HIDE DEF h
<1>3. /\ h[1] = 69 /\ h[2] = 0 /\ h[3] = upper(length) /\ h[4] = lower(length)
      /\ h[5] = 0 /\ h[6] = 0 /\ h[7] = 0 /\ h[8] = 0 /\ h[9] = 64 /\ h[10] = 17
      /\ h[11] = upper(sum) /\ h[12] = lower(sum)
  <2>1. \A i \in 1 .. 12 : h[0 + i] = t[i]
    BY <1>1, <1>2 DEF StandsAt
  <2> QED BY <2>1
<1>4. h[13] = 10 /\ h[14] = 0 /\ h[15] = 0 /\ h[16] = 2
  <2>1. \A i \in 1 .. 4 : h[12 + i] = my_ip[i]
    BY <1>1, Addresses DEF StandsAt, Part
  <2> QED BY <2>1 DEF my_ip
<1>5. h[17] = 10 /\ h[18] = 0 /\ h[19] = 0 /\ h[20] = 1
  <2>1. \A i \in 1 .. 4 : h[16 + i] = host_ip[i]
    BY <1>1, Addresses DEF StandsAt, Part
  <2> QED BY <2>1 DEF host_ip
<1>6. 256 * upper(length) + lower(length) = length /\ 256 * upper(sum) + lower(sum) = sum
  BY Halves
<1> QED BY <1>3, <1>4, <1>5, <1>6 DEF uint16, h

(* The header that the kernel sends holds its length, and passes the check.  *)
LEMMA IpHeaderIs ==
    ASSUME NEW n \in Nat, 28 + n < TwoBytes
    PROVE  LET h == IpHeader(n)
           IN  /\ Part(h, 20) /\ h[1] = 69 /\ h[10] = 17
               /\ uint16(h, 2) = 28 + n /\ StandsAt(h, 16, host_ip)
               /\ SumOfWords(h) % (TwoBytes - 1) = 0
<1> DEFINE length == 20 + 8 + n
           S == SumOfWords(IpFields(length, 0))
           c == checksum_ip(IpFields(length, 0))
           folded == (S \div TwoBytes) + (S % TwoBytes)
<1>1. length \in Nat /\ length < TwoBytes /\ length = 28 + n /\ IpHeader(n) = IpFields(length, c)
  BY DEF IpHeader
<1>2. c = TwoBytes - 1 - ((folded + (folded \div TwoBytes)) % TwoBytes)
  BY DEF checksum_ip
<1> HIDE DEF length
<1>3. 0 \in Nat /\ 0 < TwoBytes /\ TwoBytes \in Nat /\ 16 <= TwoBytes
  BY DEF TwoBytes
<1>4. S = 256 * 69 + length + 256 * 64 + 17 + 256 * 10 + 2 + 256 * 10 + 1
  <2>1. Part(IpFields(length, 0), 20)
    BY <1>1, <1>3, IpFieldsAre
  <2>2. S = uint16(IpFields(length, 0), 0) + uint16(IpFields(length, 0), 2)
            + uint16(IpFields(length, 0), 4) + uint16(IpFields(length, 0), 6)
            + uint16(IpFields(length, 0), 8) + uint16(IpFields(length, 0), 10)
            + uint16(IpFields(length, 0), 12) + uint16(IpFields(length, 0), 14)
            + uint16(IpFields(length, 0), 16) + uint16(IpFields(length, 0), 18)
    BY <2>1, SumOfHeader
  <2> HIDE DEF S
  <2> QED BY <1>1, <1>3, <2>2, IpWords
<1> HIDE DEF S, c
<1>5. S \in Nat /\ S < 2 * TwoBytes
  BY <1>1, <1>4 DEF TwoBytes
<1>7. c \in Nat /\ c < TwoBytes /\ (S + c) % (TwoBytes - 1) = 0
  BY <1>2, <1>3, <1>5, FoldedComplement
<1>8. SumOfWords(IpFields(length, c)) = S + c
  <2> DEFINE h == IpFields(length, c)
  <2>1. Part(h, 20)
    BY <1>1, <1>7, IpFieldsAre
  <2> HIDE DEF h
  <2>2. SumOfWords(h) = uint16(h, 0) + uint16(h, 2) + uint16(h, 4) + uint16(h, 6) + uint16(h, 8)
                        + uint16(h, 10) + uint16(h, 12) + uint16(h, 14) + uint16(h, 16)
                        + uint16(h, 18)
    BY <2>1, SumOfHeader
  <2>3. /\ uint16(h, 0) = 256 * 69 /\ uint16(h, 2) = length /\ uint16(h, 4) = 0
        /\ uint16(h, 6) = 0 /\ uint16(h, 8) = 256 * 64 + 17 /\ uint16(h, 10) = c
        /\ uint16(h, 12) = 256 * 10 /\ uint16(h, 14) = 2
        /\ uint16(h, 16) = 256 * 10 /\ uint16(h, 18) = 1
    BY <1>1, <1>7, IpWords DEF h
  <2>4. SumOfWords(h) = S + c
    BY <1>1, <1>4, <1>7, <2>2, <2>3
  <2> QED BY <2>4 DEF h
<1>9. /\ Part(IpFields(length, c), 20)
      /\ StandsAt(IpFields(length, c), 16, host_ip)
  BY <1>1, <1>7, IpFieldsAre
<1>10. /\ IpFields(length, c)[1] = 69 /\ IpFields(length, c)[10] = 17
       /\ uint16(IpFields(length, c), 2) = length
  BY <1>1, <1>7, IpWords
<1> QED BY <1>1, <1>7, <1>8, <1>9, <1>10

(* The frame that the kernel sends. *)
LEMMA FrameIs ==
    ASSUME NEW payload, NEW n, Part(payload, n), 28 + n < TwoBytes, Part(host_mac, 6)
    PROVE  LET f == Frame(payload)
           IN  /\ Part(f, 42 + n)
               /\ StandsAt(f, 0, host_mac) /\ StandsAt(f, 12, IpType) /\ StandsAt(f, 14, IpHeader(n))
               /\ StandsAt(f, 34, UdpHeader(8080, 1234, n)) /\ StandsAt(f, 42, payload)
<1> DEFINE eth == Ethernet(host_mac, my_mac, IpType)
           ip == IpHeader(n)
           udp == UdpHeader(8080, 1234, n)
           two == eth \o ip
           three == two \o udp
           f == three \o payload
<1>1. n \in Nat /\ 28 + n < TwoBytes /\ 8 + n < TwoBytes /\ n = Len(payload)
  BY DEF Part, TwoBytes
<1>0. Frame(payload) = f
  BY <1>1 DEF Frame
<1>2. Part(eth, 14) /\ StandsAt(eth, 0, host_mac) /\ StandsAt(eth, 12, IpType)
  BY EthernetIs, Addresses
<1>3. Part(ip, 20)
  BY <1>1, IpHeaderIs
<1>4. Part(udp, 8)
  <2>1. 8080 \in Nat /\ 8080 < TwoBytes /\ 1234 \in Nat /\ 1234 < TwoBytes
    BY DEF TwoBytes
  <2> QED BY <1>1, <2>1, UdpHeaderIs
<1> HIDE DEF eth, ip, udp
<1>5. Part(two, 34)
  <2>1. Part(two, 14 + 20)
    BY <1>2, <1>3, JoinedParts
  <2> QED BY <2>1
<1> HIDE DEF two
<1>6. Part(three, 42)
  <2>1. Part(three, 34 + 8)
    BY <1>4, <1>5, JoinedParts
  <2> QED BY <2>1
<1> HIDE DEF three
<1>7. Part(f, 42 + n)
  BY <1>6, JoinedParts
<1>8. StandsAt(f, 0, three) /\ StandsAt(f, 42, payload)
  <2>1. StandsAt(f, 0, three \o payload)
    BY <1>7, Whole
  <2> HIDE DEF f
  <2> QED BY <1>6, <1>7, <2>1, Peel
<1> HIDE DEF f
<1>9. StandsAt(f, 0, two) /\ StandsAt(f, 34, udp)
  <2>1. StandsAt(f, 0, two \o udp)
    BY <1>8 DEF three
  <2> QED BY <1>4, <1>5, <1>7, <2>1, Peel
<1>10. StandsAt(f, 0, eth) /\ StandsAt(f, 14, ip)
  <2>1. StandsAt(f, 0, eth \o ip)
    BY <1>9 DEF two
  <2> QED BY <1>2, <1>3, <1>7, <2>1, Peel
<1>11. StandsAt(f, 0, host_mac) /\ StandsAt(f, 12, IpType)
  <2>1. StandsAt(f, 0, host_mac)
    BY <1>2, <1>7, <1>10, Within
  <2>2. StandsAt(f, 12, IpType)
    BY <1>2, <1>7, <1>10, Addresses, Within
  <2> QED BY <2>1, <2>2
<1> QED BY <1>0, <1>7, <1>8, <1>9, <1>10, <1>11 DEF ip, udp

LEMMA HostTakesFrame ==
    ASSUME NEW payload, NEW n, Part(payload, n), 28 + n < TwoBytes, Part(host_mac, 6)
    PROVE  /\ sub(Frame(payload), 0, 6) = host_mac
           /\ HostTakes(Frame(payload)) = <<payload>>
<1> DEFINE f == Frame(payload)
           ip == IpHeader(n)
           udp == UdpHeader(8080, 1234, n)
           size == 42 + n
<1>1. /\ Part(f, size)
      /\ StandsAt(f, 0, host_mac) /\ StandsAt(f, 12, IpType) /\ StandsAt(f, 14, ip)
      /\ StandsAt(f, 34, udp) /\ StandsAt(f, 42, payload)
  BY FrameIs
<1>2. n \in Nat /\ 28 + n < TwoBytes /\ 8 + n < TwoBytes /\ size - 14 = 28 + n
  BY DEF Part, TwoBytes
<1> HIDE DEF f, size
<1>3. /\ Part(ip, 20) /\ ip[1] = 69 /\ ip[10] = 17
      /\ uint16(ip, 2) = 28 + n /\ StandsAt(ip, 16, host_ip)
  BY <1>2, IpHeaderIs
<1>14. SumOfWords(ip) % (TwoBytes - 1) = 0
  BY <1>2, IpHeaderIs
<1>4. Part(udp, 8) /\ uint16(udp, 2) = 1234 /\ uint16(udp, 4) = 8 + n
  <2>1. 8080 \in Nat /\ 8080 < TwoBytes /\ 1234 \in Nat /\ 1234 < TwoBytes
    BY DEF TwoBytes
  <2> QED BY <1>2, <2>1, UdpHeaderIs
<1> HIDE DEF ip, udp
<1>5. uint16(f, 16) = 28 + n
  BY <1>1, <1>3, InIpHeader
<1>6. uint8(f, 14) = 69 /\ uint8(f, 23) = 17
  BY <1>1, <1>3, InIpHeader
<1>7. sub(f, 12, 2) = IpType
  BY <1>1, Addresses, Cut
<1>8. sub(f, 14, 20) = ip
  BY <1>1, <1>3, Cut
<1>9. sub(f, 30, 4) = host_ip
  <2>1. StandsAt(f, 30, host_ip)
    BY <1>1, <1>3, Addresses, Within
  <2> QED BY <1>1, <2>1, Addresses, Cut
<1>10. uint16(f, 36) = 1234 /\ uint16(f, 38) = 8 + n
  <2>1. uint16(f, 34 + 2) = uint16(udp, 2) /\ uint16(f, 34 + 4) = uint16(udp, 4)
    BY <1>1, <1>4, InUdpHeader
  <2> QED BY <1>4, <2>1
<1>11. sub(f, 42, n) = payload
  BY <1>1, Cut
<1>12. sub(f, 0, 6) = host_mac
  BY <1>1, Cut
<1>13. HostTakes(f) = <<sub(f, 42, n)>>
  <2> DEFINE total == 28 + n
  <2>1. total = Len(f) - 14 /\ 8 + n = total - 20 /\ total - 28 = n
    BY <1>1, <1>2 DEF Part
  <2>2. uint16(f, 16) = total
    BY <1>5
  <2> HIDE DEF total
  <2> QED BY <1>3, <1>6, <1>7, <1>8, <1>9, <1>10, <1>14, <2>1, <2>2 DEF HostTakes
<1> QED BY <1>11, <1>12, <1>13 DEF f

(* What a frame ends with, and what it has before.                           *)
LEMMA LastPart ==
    ASSUME NEW buf, NEW size, Part(buf, size), NEW a, NEW n, Part(a, n), NEW b, NEW l, Part(b, l),
           StandsAt(buf, 0, a \o b)
    PROVE  StandsAt(buf, 0, a) /\ StandsAt(buf, n, b)
<1>1. n \in Nat /\ n = 0 + n
  BY DEF Part
<1> QED BY <1>1, Peel

ArpParts(to, from, body, mac, ip, mac2, ip2) ==
    Ethernet(to, from, ArpType) \o body \o mac \o ip \o mac2 \o ip2

ArpFields(to, from, body, mac, ip, mac2, ip2) ==
    /\ Part(to, 6) /\ Part(from, 6) /\ Part(body, 8)
    /\ Part(mac, 6) /\ Part(ip, 4) /\ Part(mac2, 6) /\ Part(ip2, 4)

LEMMA ArpIs ==
    ASSUME NEW to, NEW from, NEW body, NEW mac, NEW ip, NEW mac2, NEW ip2,
           ArpFields(to, from, body, mac, ip, mac2, ip2)
    PROVE  LET f == ArpParts(to, from, body, mac, ip, mac2, ip2)
           IN  /\ Part(f, 42)
               /\ StandsAt(f, 0, to) /\ StandsAt(f, 6, from) /\ StandsAt(f, 12, ArpType) /\ StandsAt(f, 14, body)
               /\ StandsAt(f, 22, mac) /\ StandsAt(f, 28, ip) /\ StandsAt(f, 32, mac2) /\ StandsAt(f, 38, ip2)
<1> DEFINE eth == Ethernet(to, from, ArpType)
           two == eth \o body
           three == two \o mac
           four == three \o ip
           five == four \o mac2
           f == five \o ip2
<1>0. ArpParts(to, from, body, mac, ip, mac2, ip2) = f
  BY DEF ArpParts
<1>1. Part(eth, 14) /\ StandsAt(eth, 0, to) /\ StandsAt(eth, 6, from) /\ StandsAt(eth, 12, ArpType)
  BY EthernetIs, Addresses DEF ArpFields
<1> HIDE DEF eth
<1>2. Part(two, 22)
  <2>1. Part(body, 8)
    BY DEF ArpFields
  <2> QED BY <1>1, <2>1, JoinedParts
<1> HIDE DEF two
<1>3. Part(three, 28)
  <2>1. Part(mac, 6)
    BY DEF ArpFields
  <2> QED BY <1>2, <2>1, JoinedParts
<1> HIDE DEF three
<1>4. Part(four, 32)
  <2>1. Part(ip, 4)
    BY DEF ArpFields
  <2> QED BY <1>3, <2>1, JoinedParts
<1> HIDE DEF four
<1>5. Part(five, 38)
  <2>1. Part(mac2, 6)
    BY DEF ArpFields
  <2> QED BY <1>4, <2>1, JoinedParts
<1> HIDE DEF five
<1>6. Part(f, 42)
  <2>1. Part(ip2, 4)
    BY DEF ArpFields
  <2> QED BY <1>5, <2>1, JoinedParts
<1>7. StandsAt(f, 0, five \o ip2)
  BY <1>6, Whole
<1> HIDE DEF f
<1>8. StandsAt(f, 0, five) /\ StandsAt(f, 38, ip2)
  BY <1>5, <1>6, <1>7, LastPart DEF ArpFields
<1>9. StandsAt(f, 0, four) /\ StandsAt(f, 32, mac2)
  <2>1. StandsAt(f, 0, four \o mac2)
    BY <1>8 DEF five
  <2> QED BY <1>4, <1>6, <2>1, LastPart DEF ArpFields
<1>10. StandsAt(f, 0, three) /\ StandsAt(f, 28, ip)
  <2>1. StandsAt(f, 0, three \o ip)
    BY <1>9 DEF four
  <2> QED BY <1>3, <1>6, <2>1, LastPart DEF ArpFields
<1>11. StandsAt(f, 0, two) /\ StandsAt(f, 22, mac)
  <2>1. StandsAt(f, 0, two \o mac)
    BY <1>10 DEF three
  <2> QED BY <1>2, <1>6, <2>1, LastPart DEF ArpFields
<1>12. StandsAt(f, 0, eth) /\ StandsAt(f, 14, body)
  <2>1. StandsAt(f, 0, eth \o body)
    BY <1>11 DEF two
  <2> QED BY <1>1, <1>6, <2>1, LastPart DEF ArpFields
<1>13. StandsAt(f, 0, to) /\ StandsAt(f, 6, from) /\ StandsAt(f, 12, ArpType)
  BY <1>1, <1>6, <1>12, Addresses, Within DEF ArpFields
<1> QED BY <1>0, <1>6, <1>8, <1>9, <1>10, <1>11, <1>12, <1>13

-------------------------------------------------------------------------------
(* The messages of the host, and the frames it makes of them.                *)

IsArp(m) == m.kind = "arp" /\ m.ip \in {my_ip, host_ip} /\ m = ArpRequest(m.ip)

IsIp(m) ==
    /\ m.kind = "ip" /\ m.proto \in {17, 6} /\ m.port \in {8080, 53} /\ m.options \in {0, 4}
    /\ m.padded \in BOOLEAN /\ Part(m.payload, Len(m.payload)) /\ 32 + Len(m.payload) < TwoBytes

LEMMA MessageIs ==
    ASSUME NEW m \in Messages
    PROVE  IsArp(m) \/ IsIp(m)
<1>1. CASE m \in {ArpRequest(ip) : ip \in {my_ip, host_ip}}
  BY <1>1 DEF ArpRequest, IsArp
<1>2. CASE m \in [kind : {"ip"}, proto : {17}, port : {8080, 53}, options : {0, 4},
                  padded : BOOLEAN, payload : NetPayloads]
  <2>1. m.payload \in Octets /\ 32 + Len(m.payload) < TwoBytes
    BY <1>2, NetAssumption DEF Octets
  <2>2. Part(m.payload, Len(m.payload))
    BY <2>1, AnyPart
  <2> QED BY <1>2, <2>1, <2>2 DEF IsIp
<1>3. CASE m \in [kind : {"ip"}, proto : {6}, port : {8080}, options : {0},
                  padded : BOOLEAN, payload : {<<>>}]
  <2>1. m.payload = <<>> /\ Len(m.payload) = 0
    BY <1>3
  <2>2. m.payload \in Octets /\ 32 + 0 < TwoBytes
    BY <2>1 DEF Octets, TwoBytes
  <2>3. Part(m.payload, Len(m.payload))
    BY <2>2, AnyPart
  <2> QED BY <1>3, <2>1, <2>2, <2>3 DEF IsIp
<1> QED BY <1>1, <1>2, <1>3 DEF Messages

LEMMA ArpFrameIs ==
    ASSUME NEW ip \in {my_ip, host_ip}
    PROVE  LET f == ArpFrame(ip)
           IN  /\ Part(f, 42) /\ StandsAt(f, 6, HostMac) /\ StandsAt(f, 12, ArpType)
               /\ StandsAt(f, 28, host_ip) /\ StandsAt(f, 38, ip) /\ uint16(f, 20) = 1
<1> DEFINE body == <<0, 1, 8, 0, 6, 4, 0, 1>>
           unknown == <<0, 0, 0, 0, 0, 0>>
           f == ArpFrame(ip)
<1>1. Part(body, 8) /\ body[7] = 0 /\ body[8] = 1
  <2>1. body \in [1 .. 8 -> Octet]
    BY DEF Octet
  <2>2. body[7] = 0 /\ body[8] = 1
    OBVIOUS
  <2> HIDE DEF body
  <2> QED BY <2>1, <2>2, TuplePart
<1>2. Part(unknown, 6)
  <2>1. unknown \in [1 .. 6 -> Octet]
    BY DEF Octet
  <2> HIDE DEF unknown
  <2> QED BY <2>1, TuplePart
<1>3. f = ArpParts(broadcast_mac, HostMac, body, HostMac, host_ip, unknown, ip)
  BY DEF ArpFrame, ArpParts
<1> HIDE DEF f, body, unknown
<1>4. ArpFields(broadcast_mac, HostMac, body, HostMac, host_ip, unknown, ip)
  BY <1>1, <1>2, Addresses DEF ArpFields
<1>5. /\ Part(f, 42) /\ StandsAt(f, 6, HostMac) /\ StandsAt(f, 12, ArpType) /\ StandsAt(f, 14, body)
      /\ StandsAt(f, 28, host_ip) /\ StandsAt(f, 38, ip)
  BY <1>3, <1>4, ArpIs
<1>6. f[21] = 0 /\ f[22] = 1
  <2>1. \A i \in 1 .. 8 : f[14 + i] = body[i]
    BY <1>1, <1>5 DEF StandsAt, Part
  <2> QED BY <1>1, <2>1
<1>7. uint16(f, 20) = 1
  BY <1>6 DEF uint16
<1> QED BY <1>5, <1>7 DEF f

LEMMA ArpReplyIs ==
    ASSUME NEW buf, sub(buf, 6, 6) = HostMac, sub(buf, 28, 4) = host_ip
    PROVE  LET f == ArpReply(buf)
           IN  /\ sub(f, 0, 6) = HostMac /\ sub(f, 12, 2) = ArpType /\ uint16(f, 20) = 2
               /\ sub(f, 22, 10) = my_mac \o my_ip /\ sub(f, 32, 10) = HostMac \o host_ip
<1> DEFINE body == <<0, 1, 8, 0, 6, 4, 0, 2>>
           f == ArpReply(buf)
<1>1. Part(body, 8) /\ body[7] = 0 /\ body[8] = 2
  <2>1. body \in [1 .. 8 -> Octet]
    BY DEF Octet
  <2>2. body[7] = 0 /\ body[8] = 2
    OBVIOUS
  <2> HIDE DEF body
  <2> QED BY <2>1, <2>2, TuplePart
<1>3. f = ArpParts(HostMac, my_mac, body, my_mac, my_ip, HostMac, host_ip)
  BY DEF ArpReply, ArpParts
<1> HIDE DEF f, body
<1>4. ArpFields(HostMac, my_mac, body, my_mac, my_ip, HostMac, host_ip)
  BY <1>1, Addresses DEF ArpFields
<1>5. /\ Part(f, 42) /\ StandsAt(f, 0, HostMac) /\ StandsAt(f, 12, ArpType) /\ StandsAt(f, 14, body)
      /\ StandsAt(f, 22, my_mac) /\ StandsAt(f, 28, my_ip) /\ StandsAt(f, 32, HostMac) /\ StandsAt(f, 38, host_ip)
  BY <1>3, <1>4, ArpIs
<1>6. f[21] = 0 /\ f[22] = 2
  <2>1. \A i \in 1 .. 8 : f[14 + i] = body[i]
    BY <1>1, <1>5 DEF StandsAt, Part
  <2> QED BY <1>1, <2>1
<1>7. uint16(f, 20) = 2
  BY <1>6 DEF uint16
<1>8. sub(f, 0, 6) = HostMac /\ sub(f, 12, 2) = ArpType
  BY <1>5, Addresses, Cut
<1>9. sub(f, 22, 10) = my_mac \o my_ip
  <2> DEFINE both == my_mac \o my_ip
  <2>1. StandsAt(f, 22, both)
    BY <1>5, Addresses, Glue
  <2>2. Part(both, 10)
    <3>1. Part(both, 6 + 4)
      BY Addresses, JoinedParts
    <3> QED BY <3>1
  <2> HIDE DEF both
  <2>3. sub(f, 22, 10) = both
    BY <1>5, <2>1, <2>2, Cut
  <2> QED BY <2>3 DEF both
<1>10. sub(f, 32, 10) = HostMac \o host_ip
  <2> DEFINE both == HostMac \o host_ip
  <2>1. StandsAt(f, 32, both)
    BY <1>5, Addresses, Glue
  <2>2. Part(both, 10)
    <3>1. Part(both, 6 + 4)
      BY Addresses, JoinedParts
    <3> QED BY <3>1
  <2> HIDE DEF both
  <2>3. sub(f, 32, 10) = both
    BY <1>5, <2>1, <2>2, Cut
  <2> QED BY <2>3 DEF both
<1> QED BY <1>7, <1>8, <1>9, <1>10 DEF f

(* The first datagram of a message holds its UDP header, and stays within    *)
(* the link's size; it holds all of it unless the message is fragmented.     *)
LEMMA InFirstIs ==
    ASSUME NEW m, IsIp(m), NEW u, u = InFirst(m)
    PROVE  /\ u \in Nat /\ 8 <= u /\ u <= 8 + Len(m.payload)
           /\ 20 + m.options + u < TwoBytes
           /\ ~Fragmented(m) => u = 8 + Len(m.payload)
           /\ Fragmented(m) => 20 + m.options + u <= mtu
<1>1. /\ mtu \in Nat /\ 46 <= mtu /\ mtu < TwoBytes /\ Len(m.payload) \in Nat
      /\ m.options \in {0, 4} /\ m.kind = "ip" /\ 32 + Len(m.payload) < TwoBytes
      /\ TwoBytes \in Nat
  BY NetAssumption DEF IsIp, Part, TwoBytes
<1>2. CASE ~Fragmented(m)
  <2>1. u = 8 + Len(m.payload)
    BY <1>2 DEF InFirst
  <2> QED BY <1>1, <1>2, <2>1
<1>3. CASE Fragmented(m)
  <2> DEFINE x == mtu - 20 - m.options
             q == x \div 8
             r == x % 8
  <2>1. u = q * 8 /\ 28 + m.options + Len(m.payload) > mtu
    BY <1>1, <1>3 DEF InFirst, Fragmented, IpLength
  <2>3. x = mtu - 20 - m.options
    OBVIOUS
  <2>7. q = x \div 8 /\ r = x % 8
    OBVIOUS
  <2> HIDE DEF x, q, r
  <2>6. m.options \in Nat /\ m.options <= 4
    BY <1>1
  <2>2. x \in Int /\ 22 <= x /\ 20 + m.options + x = mtu /\ x < 8 + Len(m.payload)
    <3>1. x \in Int /\ 22 <= x /\ 20 + m.options + x = mtu
      BY <1>1, <2>3, <2>6
    <3>2. x < 8 + Len(m.payload)
      BY <1>1, <2>1, <2>6, <3>1
    <3> QED BY <3>1, <3>2
  <2>4. q \in Int /\ r \in 0 .. (8 - 1) /\ x = 8 * q + r
    BY <2>2, <2>7
  <2>5. u \in Int /\ u <= x /\ 15 <= u
    <3>1. u = q * 8
      BY <2>1
    <3> QED BY <2>2, <2>4, <3>1
  <2> QED BY <1>1, <1>3, <2>2, <2>5, <2>6
<1> QED BY <1>2, <1>3

LEMMA HostIpHeaderIs ==
    ASSUME NEW m, IsIp(m), NEW size, size = 20 + m.options
    PROVE  LET h == HostIpHeader(m)
           IN  Part(h, size) /\ h[1] = 64 + size \div 4 /\ h[10] = m.proto
<1> DEFINE length == 20 + m.options + InFirst(m)
           t == <<64 + (20 + m.options) \div 4, 0, upper(length), lower(length),
                  0, 0, IF Fragmented(m) THEN 32 ELSE 0, 0, 64, m.proto, 0, 0>>
           ones == [i \in 1 .. m.options |-> 1]
           two == t \o host_ip
           three == two \o my_ip
           h == three \o ones
<1>0. HostIpHeader(m) = h
  BY DEF HostIpHeader
<1>1. /\ m.options \in Nat /\ m.proto \in Octet /\ 64 + size \div 4 \in Octet
      /\ t[1] = 64 + size \div 4 /\ t[10] = m.proto
  <2>1. m.options \in {0, 4} /\ m.proto \in {17, 6}
    BY DEF IsIp
  <2>2. size \div 4 = 5 \/ size \div 4 = 6
    BY <2>1
  <2> QED BY <2>1, <2>2 DEF Octet
<1>2. Part(t, 12)
  <2>1. length \in Nat /\ length < TwoBytes
    <3>1. InFirst(m) \in Nat /\ 20 + m.options + InFirst(m) < TwoBytes
      BY InFirstIs
    <3> QED BY <1>1, <3>1
  <2>2. upper(length) \in Octet /\ lower(length) \in Octet
    BY <2>1, Halves
  <2>3. 0 \in Octet /\ 64 \in Octet /\ (IF Fragmented(m) THEN 32 ELSE 0) \in Octet
    BY DEF Octet
  <2>4. 64 + (20 + m.options) \div 4 \in Octet
    BY <1>1
  <2> HIDE DEF length
  <2>5. t \in [1 .. 12 -> Octet]
    BY <1>1, <2>2, <2>3, <2>4
  <2> HIDE DEF t
  <2> QED BY <2>5, TuplePart
<1>3. Part(ones, m.options)
  <2>1. ones \in [1 .. m.options -> Octet]
    BY DEF Octet
  <2> HIDE DEF ones
  <2> QED BY <1>1, <2>1, TuplePart
<1> HIDE DEF t, ones
<1>4. Part(two, 16)
  <2>1. Part(two, 12 + 4)
    BY <1>2, Addresses, JoinedParts
  <2> QED BY <2>1
<1> HIDE DEF two
<1>5. Part(three, 20)
  <2>1. Part(three, 16 + 4)
    BY <1>4, Addresses, JoinedParts
  <2> QED BY <2>1
<1> HIDE DEF three
<1>6. Part(h, size)
  <2>1. Part(h, 20 + m.options)
    BY <1>3, <1>5, JoinedParts
  <2> QED BY <2>1
<1>7. StandsAt(h, 0, three \o ones)
  BY <1>6, Whole
<1> HIDE DEF h
<1>8. StandsAt(h, 0, three)
  BY <1>3, <1>5, <1>6, <1>7, LastPart
<1>9. StandsAt(h, 0, two)
  <2>1. StandsAt(h, 0, two \o my_ip)
    BY <1>8 DEF three
  <2> QED BY <1>4, <1>6, <2>1, Addresses, LastPart
<1>10. StandsAt(h, 0, t)
  <2>1. StandsAt(h, 0, t \o host_ip)
    BY <1>9 DEF two
  <2> QED BY <1>2, <1>6, <2>1, Addresses, LastPart
<1>11. h[1] = t[1] /\ h[10] = t[10]
  <2>1. \A i \in 1 .. 12 : h[0 + i] = t[i]
    BY <1>2, <1>10 DEF StandsAt, Part
  <2> QED BY <2>1
<1> QED BY <1>0, <1>1, <1>6, <1>11

(* What stands where in a frame that carries a message to some port.         *)
IpParts(buf, m) ==
    /\ StandsAt(buf, 6, HostMac) /\ StandsAt(buf, 12, IpType) /\ StandsAt(buf, 14, HostIpHeader(m))
    /\ StandsAt(buf, 34 + m.options, UdpHeader(1234, m.port, Len(m.payload)))
    /\ ~Fragmented(m) => StandsAt(buf, 42 + m.options, m.payload)

LEMMA HostUdpHeader ==
    ASSUME NEW m, IsIp(m)
    PROVE  LET udp == UdpHeader(1234, m.port, Len(m.payload))
           IN  /\ Part(udp, 8)
               /\ uint16(udp, 2) = m.port /\ uint16(udp, 4) = 8 + Len(m.payload)
<1>1. 1234 \in Nat /\ 1234 < TwoBytes /\ m.port \in Nat /\ m.port < TwoBytes
  <2>1. m.port \in {8080, 53}
    BY DEF IsIp
  <2> QED BY <2>1 DEF TwoBytes
<1>2. Len(m.payload) \in Nat /\ 8 + Len(m.payload) < TwoBytes
  BY DEF IsIp, Part, TwoBytes
<1> QED BY <1>1, <1>2, UdpHeaderIs

LEMMA IpFrameIs ==
    ASSUME NEW m, IsIp(m), NEW u, u = InFirst(m), NEW size, size = 34 + m.options + u
    PROVE  Part(IpFrame(m), size) /\ IpParts(IpFrame(m), m)
<1> DEFINE n == Len(m.payload)
           eth == Ethernet(my_mac, HostMac, IpType)
           h == HostIpHeader(m)
           udp == UdpHeader(1234, m.port, n)
           whole == udp \o m.payload
           s == sub(whole, 0, u)
           hs == 20 + m.options
           two == eth \o h
           f == two \o s
           k == 34 + m.options
<1>0. IpFrame(m) = f
  BY DEF IpFrame
<1>1. /\ n \in Nat /\ m.options \in Nat /\ Part(m.payload, n)
      /\ k = 34 + m.options /\ hs = 20 + m.options
  <2>1. Len(m.payload) \in Nat /\ m.options \in {0, 4} /\ Part(m.payload, Len(m.payload))
    BY DEF IsIp, Part
  <2> QED BY <2>1
<1>2. /\ u \in Nat /\ 8 <= u /\ u <= 8 + n
      /\ ~Fragmented(m) => u = 8 + n
  BY InFirstIs
<1>3. Part(udp, 8)
  BY HostUdpHeader
<1>4. Part(h, hs)
  BY HostIpHeaderIs
<1>5. Part(eth, 14) /\ StandsAt(eth, 6, HostMac) /\ StandsAt(eth, 12, IpType)
  BY EthernetIs, Addresses
<1> HIDE DEF n, eth, h, udp, hs, k
<1>6. Part(whole, 8 + n) /\ StandsAt(whole, 0, udp) /\ StandsAt(whole, 8, m.payload)
  <2>1. Part(whole, 8 + n)
    BY <1>1, <1>3, JoinedParts
  <2>2. StandsAt(whole, 0, udp \o m.payload)
    BY <2>1, Whole
  <2> HIDE DEF whole
  <2>3. StandsAt(whole, 0, udp) /\ StandsAt(whole, 8, m.payload)
    BY <1>1, <1>3, <2>1, <2>2, LastPart
  <2> QED BY <2>1, <2>3
<1> HIDE DEF whole
<1>7. Part(s, u) /\ \A i \in 1 .. u : s[i] = whole[i]
  <2>1. 0 \in Nat /\ 0 + u <= 8 + n
    BY <1>1, <1>2
  <2>2. Part(s, u) /\ \A i \in 1 .. u : s[i] = whole[0 + i]
    BY <1>2, <1>6, <2>1, SubIs
  <2> HIDE DEF s
  <2> QED BY <2>2
<1> HIDE DEF s
<1>8. StandsAt(s, 0, udp)
  <2>1. \A i \in 1 .. 8 : whole[0 + i] = udp[i] /\ i \in 1 .. u /\ 0 + i = i
    BY <1>2, <1>3, <1>6 DEF StandsAt, Part
  <2>2. \A i \in 1 .. 8 : s[0 + i] = udp[i]
    BY <1>7, <2>1
  <2> QED BY <1>2, <1>3, <1>7, <2>2 DEF StandsAt, Part
<1>9. ASSUME ~Fragmented(m) PROVE StandsAt(s, 8, m.payload)
  <2>1. \A i \in 1 .. n : whole[8 + i] = m.payload[i] /\ 8 + i \in 1 .. u
    BY <1>1, <1>2, <1>6, <1>9 DEF StandsAt, Part
  <2>2. \A i \in 1 .. n : s[8 + i] = m.payload[i]
    BY <1>7, <2>1
  <2> QED BY <1>1, <1>2, <1>7, <1>9, <2>2 DEF StandsAt, Part
<1>10. Part(two, k)
  <2>1. Part(two, 14 + hs)
    BY <1>4, <1>5, JoinedParts
  <2>2. 14 + hs = k
    BY <1>1
  <2> QED BY <2>1, <2>2
<1> HIDE DEF two
<1>11. Part(f, size) /\ StandsAt(f, 0, f)
  <2>1. Part(f, k + u)
    BY <1>7, <1>10, JoinedParts
  <2>2. k + u = size
    BY <1>1
  <2> HIDE DEF f
  <2> QED BY <2>1, <2>2, Whole
<1>12. StandsAt(f, 0, two \o s)
  BY <1>11
<1> HIDE DEF f
<1>13. StandsAt(f, 0, two) /\ StandsAt(f, k, s)
  BY <1>7, <1>10, <1>11, <1>12, LastPart
<1>14. StandsAt(f, 0, eth) /\ StandsAt(f, 14, h)
  <2>1. StandsAt(f, 0, eth \o h)
    BY <1>13 DEF two
  <2> QED BY <1>4, <1>5, <1>11, <2>1, LastPart
<1>15. StandsAt(f, 6, HostMac) /\ StandsAt(f, 12, IpType)
  BY <1>5, <1>11, <1>14, Addresses, Within
<1>16. k \in Nat /\ k = k + 0 /\ 42 + m.options = k + 8 /\ 0 \in Nat /\ 8 \in Nat
  BY <1>1
<1>17. StandsAt(f, k, udp)
  BY <1>3, <1>7, <1>8, <1>11, <1>13, <1>16, Within
<1>18. ~Fragmented(m) => StandsAt(f, 42 + m.options, m.payload)
  BY <1>1, <1>7, <1>9, <1>11, <1>13, <1>16, Within
<1> QED BY <1>0, <1>1, <1>11, <1>14, <1>15, <1>17, <1>18 DEF IpParts, h, udp, n

LEMMA PaddedIs ==
    ASSUME NEW f, NEW size, Part(f, size)
    PROVE  \E l : Part(Pad(f), l) /\ StandsAt(Pad(f), 0, f) /\ size <= l /\ (l = size \/ l = 60)
<1> DEFINE more == IF size < 60 THEN 60 - size ELSE 0
           zeros == [i \in 1 .. more |-> 0]
           padded == f \o zeros
           l == size + more
<1>1. size \in Nat /\ Len(f) = size /\ more \in Nat /\ size <= l /\ (l = size \/ l = 60)
  BY DEF Part
<1>2. Pad(f) = padded
  BY <1>1 DEF Pad
<1> HIDE DEF more
<1>3. Part(zeros, more)
  <2>1. zeros \in [1 .. more -> Octet]
    BY DEF Octet
  <2> HIDE DEF zeros
  <2> QED BY <1>1, <2>1, TuplePart
<1> HIDE DEF zeros
<1>4. Part(padded, l)
  BY <1>3, JoinedParts
<1>5. StandsAt(padded, 0, f \o zeros)
  BY <1>4, Whole
<1> HIDE DEF padded, l
<1>6. StandsAt(padded, 0, f)
  BY <1>3, <1>4, <1>5, LastPart
<1> QED BY <1>1, <1>2, <1>4, <1>6

LEMMA HostFrameIs ==
    ASSUME NEW m, IsIp(m), NEW size, size = 34 + m.options + InFirst(m)
    PROVE  \E l : /\ Part(HostFrame(m), l) /\ IpParts(HostFrame(m), m)
                  /\ size <= l /\ (l = size \/ l = 60)
<1> DEFINE f == IpFrame(m)
<1>1. Part(f, size) /\ IpParts(f, m)
  BY IpFrameIs
<1>2. HostFrame(m) = IF m.padded THEN Pad(f) ELSE f
  BY DEF HostFrame, IsIp
<1> HIDE DEF f
<1>3. m.options \in Nat /\ size \in Nat
  BY <1>1 DEF IsIp, Part
<1>4. CASE ~m.padded
  BY <1>1, <1>2, <1>3, <1>4
<1>5. CASE m.padded
  <2> DEFINE h == Pad(f)
  <2>1. PICK l : Part(h, l) /\ StandsAt(h, 0, f) /\ size <= l /\ (l = size \/ l = 60)
    BY <1>1, PaddedIs
  <2>2. HostFrame(m) = h
    BY <1>2, <1>5
  <2> HIDE DEF h
  <2>3. /\ Part(HostIpHeader(m), 20 + m.options)
        /\ Part(UdpHeader(1234, m.port, Len(m.payload)), 8)
        /\ Part(m.payload, Len(m.payload))
    BY HostIpHeaderIs, HostUdpHeader DEF IsIp
  <2>4. StandsAt(h, 6, HostMac) /\ StandsAt(h, 12, IpType)
    BY <1>1, <2>1, Addresses, Within DEF IpParts
  <2>5. StandsAt(h, 14, HostIpHeader(m))
    BY <1>1, <2>1, <2>3, Within DEF IpParts
  <2>6. StandsAt(h, 34 + m.options, UdpHeader(1234, m.port, Len(m.payload)))
    <3>1. 34 + m.options \in Nat /\ 34 + m.options = 0 + (34 + m.options)
      BY <1>3
    <3> QED BY <1>1, <2>1, <2>3, <3>1, Within DEF IpParts
  <2>7. ASSUME ~Fragmented(m) PROVE StandsAt(h, 42 + m.options, m.payload)
    <3>1. 42 + m.options \in Nat /\ 42 + m.options = 0 + (42 + m.options)
      BY <1>3
    <3> QED BY <1>1, <2>1, <2>3, <2>7, <3>1, Within DEF IpParts
  <2>8. IpParts(h, m)
    BY <2>4, <2>5, <2>6, <2>7 DEF IpParts
  <2> QED BY <2>1, <2>2, <2>8
<1> QED BY <1>4, <1>5

(* What the kernel finds in a frame with a message to some port.             *)
LEMMA IpArrives ==
    ASSUME NEW m, IsIp(m), NEW buf, buf = HostFrame(m), NEW o, o = m.options
    PROVE  /\ ~IsArpRequest(buf) /\ (IsForPort(buf) <=> ForPort(m)) /\ sub(buf, 6, 6) = HostMac
           /\ udp_start(buf) = 34 + o /\ uint16(buf, udp_start(buf) + 4) = 8 + Len(m.payload)
           /\ ~Fragmented(m) => /\ 42 + o + Len(m.payload) <= Len(buf)
                                /\ sub(buf, 42 + o, Len(m.payload)) = m.payload
           /\ Fragmented(m) => Len(buf) < 42 + o + Len(m.payload)
<1> DEFINE size == 34 + o + InFirst(m)
           n == Len(m.payload)
           udp == UdpHeader(1234, m.port, n)
           h == HostIpHeader(m)
           k == 34 + o
<1>1. PICK l : Part(buf, l) /\ IpParts(buf, m) /\ size <= l /\ (l = size \/ l = 60)
  BY HostFrameIs
<1>2. /\ InFirst(m) \in Nat /\ 8 <= InFirst(m)
      /\ ~Fragmented(m) => InFirst(m) = 8 + n
      /\ Fragmented(m) => 20 + o + InFirst(m) <= mtu
  BY InFirstIs
<1>3. /\ n \in Nat /\ o \in {0, 4} /\ Part(m.payload, n) /\ m.proto \in {17, 6}
      /\ m.port \in {8080, 53} /\ m.kind = "ip"
  BY DEF IsIp, Part
<1>4. /\ StandsAt(buf, 6, HostMac) /\ StandsAt(buf, 12, IpType) /\ StandsAt(buf, 14, h) /\ StandsAt(buf, k, udp)
      /\ ~Fragmented(m) => StandsAt(buf, 42 + o, m.payload)
  BY <1>1 DEF IpParts
<1>5. Part(udp, 8) /\ uint16(udp, 2) = m.port /\ uint16(udp, 4) = 8 + n
  BY HostUdpHeader
<1>6. Part(h, 20 + o) /\ h[1] = 64 + (20 + o) \div 4 /\ h[10] = m.proto
  BY HostIpHeaderIs
<1>7. Len(buf) = l /\ l \in Nat /\ k + 8 <= l /\ size = 34 + o + InFirst(m) /\ k = 34 + o /\ k \in Nat
  BY <1>1, <1>2, <1>3 DEF Part
<1> HIDE DEF n, size, udp, h, k
<1>8. uint8(buf, 14) = 64 + (20 + o) \div 4 /\ uint8(buf, 23) = m.proto
  <2>1. 20 <= 20 + o
    BY <1>3
  <2>2. uint8(buf, 14) = h[1] /\ uint8(buf, 23) = h[10]
    BY <1>4, <1>6, <2>1, InIpHeader
  <2> QED BY <1>6, <2>2
<1>9. udp_start(buf) = k
  <2>1. CASE o = 0
    <3>1. uint8(buf, 14) = 69
      BY <1>8, <2>1
    <3> QED BY <1>7, <2>1, <3>1 DEF udp_start
  <2>2. CASE o = 4
    <3>1. uint8(buf, 14) = 70
      BY <1>8, <2>2
    <3> QED BY <1>7, <2>2, <3>1 DEF udp_start
  <2> QED BY <1>3, <2>1, <2>2
<1>10. uint16(buf, k + 2) = m.port /\ uint16(buf, k + 4) = 8 + n
  <2>1. uint16(buf, k + 2) = uint16(udp, 2) /\ uint16(buf, k + 4) = uint16(udp, 4)
    BY <1>4, <1>5, <1>7, InUdpHeader
  <2> QED BY <1>5, <2>1
<1>11. sub(buf, 12, 2) = IpType /\ sub(buf, 6, 6) = HostMac
  BY <1>1, <1>4, Addresses, Cut
<1>12. ~IsArpRequest(buf)
  BY <1>11, Addresses DEF IsArpRequest
<1>13. IsForPort(buf) <=> ForPort(m)
  <2>1. Len(buf) >= 34 /\ Len(buf) >= udp_start(buf) + 8
    BY <1>3, <1>7, <1>9
  <2> QED BY <1>3, <1>8, <1>9, <1>10, <1>11, <2>1 DEF IsForPort, ForPort
<1>14. /\ n \in Nat /\ o \in Nat /\ InFirst(m) \in Nat /\ l \in Nat /\ Len(buf) = l
       /\ size \in Nat /\ size = 34 + o + InFirst(m) /\ size <= l /\ (l = size \/ l = 60)
  <2>1. n \in Nat /\ InFirst(m) \in Nat /\ l \in Nat /\ Len(buf) = l /\ size = 34 + o + InFirst(m)
    BY <1>2, <1>3, <1>7
  <2>2. o \in Nat
    BY <1>3
  <2>3. size \in Nat
    BY <2>1, <2>2
  <2>4. size <= l /\ (l = size \/ l = 60)
    BY <1>1
  <2> QED BY <2>1, <2>2, <2>3, <2>4
<1>15. ASSUME ~Fragmented(m)
       PROVE  42 + o + n <= Len(buf) /\ sub(buf, 42 + o, n) = m.payload
  <2>1. 42 + o \in Nat /\ 42 + o + n <= Len(buf)
    <3>1. InFirst(m) = 8 + n
      BY <1>2, <1>15
    <3> QED BY <1>14, <3>1
  <2>2. Part(buf, l) /\ Part(m.payload, n) /\ StandsAt(buf, 42 + o, m.payload)
    BY <1>1, <1>3, <1>4, <1>15
  <2> QED BY <2>1, <2>2, Cut
<1>16. ASSUME Fragmented(m) PROVE Len(buf) < 42 + o + n
  <2>1. 28 + o + n > mtu
    BY <1>16 DEF Fragmented, IpLength, n
  <2>2. mtu \in Nat /\ 46 <= mtu
    BY NetAssumption
  <2>3. 20 + o + InFirst(m) <= mtu
    BY <1>2, <1>16
  <2>4. l <= 14 + mtu
    <3>1. CASE l = size
      BY <1>14, <2>2, <2>3, <3>1
    <3>2. CASE l = 60
      BY <2>2, <3>2
    <3> QED BY <1>14, <3>1, <3>2
  <2> QED BY <1>14, <2>1, <2>2, <2>4
<1> QED BY <1>7, <1>9, <1>10, <1>11, <1>12, <1>13, <1>15, <1>16 DEF n

LEMMA ArpArrives ==
    ASSUME NEW m, IsArp(m), NEW buf, buf = HostFrame(m)
    PROVE  /\ ~IsForPort(buf) /\ (IsArpRequest(buf) <=> m = ArpRequest(my_ip))
           /\ sub(buf, 6, 6) = HostMac /\ sub(buf, 28, 4) = host_ip
<1>1. m.ip \in {my_ip, host_ip} /\ m = ArpRequest(m.ip) /\ buf = ArpFrame(m.ip)
  BY DEF IsArp, HostFrame
<1>2. /\ Part(buf, 42) /\ StandsAt(buf, 6, HostMac) /\ StandsAt(buf, 12, ArpType)
      /\ StandsAt(buf, 28, host_ip) /\ StandsAt(buf, 38, m.ip) /\ uint16(buf, 20) = 1
  BY <1>1, ArpFrameIs
<1>3. /\ sub(buf, 6, 6) = HostMac /\ sub(buf, 12, 2) = ArpType /\ sub(buf, 28, 4) = host_ip
  BY <1>2, Addresses, Cut
<1>4. sub(buf, 38, 4) = m.ip
  <2>1. Part(m.ip, 4)
    BY <1>1, Addresses
  <2> QED BY <1>2, <2>1, Cut
<1>5. ~IsForPort(buf)
  BY <1>3, Addresses DEF IsForPort
<1>6. IsArpRequest(buf) <=> m.ip = my_ip
  <2>1. Len(buf) >= 42
    BY <1>2 DEF Part
  <2> QED BY <1>2, <1>3, <1>4, <2>1 DEF IsArpRequest
<1>7. m = ArpRequest(my_ip) <=> m.ip = my_ip
  <2>1. ArpRequest(my_ip).ip = my_ip
    BY DEF ArpRequest
  <2> QED BY <1>1, <2>1
<1> QED BY <1>3, <1>5, <1>6, <1>7

-------------------------------------------------------------------------------
(* The theorems about the adapter.  A frame waits only while the kernel      *)
(* runs; whoever has sent something to it is known to it.                    *)
NetInv ==
    /\ netif = <<>> \/ \E m \in Messages : netif = <<m>>
    /\ stopped \in BOOLEAN /\ heard \in BOOLEAN
    /\ stopped => netif = <<>>
    /\ host_mac \in {broadcast_mac, HostMac}
    /\ heard => host_mac = HostMac

LEMMA FrameArrives ==
    ASSUME NEW m \in Messages, NEW buf, buf = HostFrame(m)
    PROVE  /\ sub(buf, 6, 6) = HostMac
           /\ ForKernel(m) <=> IsArpRequest(buf) \/ IsForPort(buf)
           /\ IsArpRequest(buf) => sub(buf, 28, 4) = host_ip /\ ~ForPort(m)
           /\ IsForPort(buf) <=> ForPort(m)
<1>1. CASE IsArp(m)
  <2>1. ~ForPort(m)
    BY <1>1 DEF IsArp, ForPort
  <2> QED BY <1>1, <2>1, ArpArrives DEF ForKernel
<1>2. CASE IsIp(m)
  <2>1. m # ArpRequest(my_ip)
    <3>1. ArpRequest(my_ip).kind = "arp" /\ m.kind = "ip"
      BY <1>2 DEF ArpRequest, IsIp
    <3> QED BY <3>1
  <2>2. /\ ~IsArpRequest(buf) /\ (IsForPort(buf) <=> ForPort(m)) /\ sub(buf, 6, 6) = HostMac
    BY <1>2, IpArrives
  <2> QED BY <2>1, <2>2 DEF ForKernel
<1> QED BY <1>1, <1>2, MessageIs

(* What the callback is given of a frame for the kernel's port.              *)
LEMMA Delivered ==
    ASSUME NEW m \in Messages, NEW buf, buf = HostFrame(m), IsForPort(buf), Deliver(buf)
    PROVE  IF Fragmented(m) THEN stopped' = TRUE /\ given' = <<>>
           ELSE given' = <<m.payload>> /\ UNCHANGED stopped
<1> DEFINE n == Len(m.payload)
           k == udp_start(buf)
<1>1. IsIp(m)
  BY MessageIs, ArpArrives
<1>2. m.options \in Nat /\ n \in Nat
  BY <1>1 DEF IsIp, Part
<1>3. /\ k = 34 + m.options /\ uint16(buf, k + 4) = 8 + n
      /\ ~Fragmented(m) => /\ 42 + m.options + n <= Len(buf)
                           /\ sub(buf, 42 + m.options, n) = m.payload
      /\ Fragmented(m) => Len(buf) < 42 + m.options + n
  BY <1>1, IpArrives
<1>4. Len(buf) \in Nat
  <2>1. PICK l : Part(buf, l)
    BY <1>1, HostFrameIs
  <2> QED BY <2>1 DEF Part
<1> HIDE DEF n
<1>5. k + 8 = 42 + m.options /\ uint16(buf, k + 4) - 8 = n
  BY <1>2, <1>3
<1>6. IF n >= 0 /\ 42 + m.options + n <= Len(buf)
      THEN given' = <<sub(buf, 42 + m.options, n)>> /\ UNCHANGED stopped
      ELSE stopped' = TRUE /\ given' = <<>>
  BY <1>5 DEF Deliver
<1>7. CASE Fragmented(m)
  <2>1. ~(42 + m.options + n <= Len(buf))
    BY <1>2, <1>3, <1>4, <1>7
  <2> QED BY <1>6, <1>7, <2>1
<1>8. CASE ~Fragmented(m)
  <2>1. n >= 0 /\ 42 + m.options + n <= Len(buf) /\ sub(buf, 42 + m.options, n) = m.payload
    BY <1>2, <1>3, <1>8
  <2> QED BY <1>6, <1>8, <2>1
<1> QED BY <1>7, <1>8

LEMMA NetInvHolds == NetSpec => []NetInv
<1>1. NetInit => NetInv
  BY DEF NetInit, NetInv
<1>2. NetInv /\ [NetNext]_netvars => NetInv'
  <2> SUFFICES ASSUME NetInv, [NetNext]_netvars PROVE NetInv'
    OBVIOUS
  <2>1. CASE UNCHANGED netvars
    BY <2>1 DEF NetInv, netvars
  <2>2. ASSUME NEW m \in Messages, HostSends(m) PROVE NetInv'
    BY <2>2 DEF NetInv, HostSends
  <2>3. ASSUME NEW payload \in NetPayloads, Net_write(payload) PROVE NetInv'
    BY <2>3 DEF NetInv, Net_write
  <2>4. CASE Net_listen
    <3>1. PICK m \in Messages : netif = <<m>>
      BY <2>4 DEF NetInv, Net_listen
    <3> DEFINE buf == HostFrame(m)
    <3>2. netif[1] = m /\ netif' = <<>> /\ heard' = (heard \/ ForKernel(m)) /\ ~stopped
      BY <2>4, <3>1 DEF NetInv, Net_listen
    <3>3. /\ sub(buf, 6, 6) = HostMac /\ (ForKernel(m) <=> IsArpRequest(buf) \/ IsForPort(buf))
      BY FrameArrives
    <3>4. \/ IsArpRequest(buf) /\ Learn(buf) /\ UNCHANGED stopped
          \/ IsForPort(buf) /\ Learn(buf) /\ Deliver(buf)
          \/ ~IsArpRequest(buf) /\ ~IsForPort(buf) /\ UNCHANGED <<host_mac, stopped>>
      BY <2>4, <3>2 DEF Net_listen
    <3> HIDE DEF buf
    <3>5. stopped' \in BOOLEAN
      BY <3>2, <3>4 DEF NetInv, Deliver
    <3>6. host_mac' \in {broadcast_mac, HostMac} /\ (heard' => host_mac' = HostMac)
      BY <3>2, <3>3, <3>4 DEF NetInv, Learn
    <3> QED BY <3>2, <3>5, <3>6 DEF NetInv, ForKernel, ForPort
  <2> QED BY <2>1, <2>2, <2>3, <2>4 DEF NetNext
<1> QED BY <1>1, <1>2, PTL DEF NetSpec

(* Every datagram for the kernel's port that fits the link reaches the       *)
(* callback with the bytes the host sent, for any options and padding, and   *)
(* nothing else does (the checks and offsets of Netif.listen's callback);    *)
(* no message but one above the mtu stops the kernel.                        *)
THEOREM DatagramsReachCallback == NetSpec => PacketsReachCallback
<1>1. NetInv /\ [NetNext]_netvars =>
        [(netif # <<>> /\ netif' = <<>>) =>
            /\ given' = IF ForPort(netif[1]) /\ ~Fragmented(netif[1])
                            THEN <<netif[1].payload>> ELSE <<>>
            /\ stopped' => Fragmented(netif[1])]_netvars
  <2> SUFFICES ASSUME NetInv, NetNext, netif # <<>>, netif' = <<>>
               PROVE  /\ given' = IF ForPort(netif[1]) /\ ~Fragmented(netif[1])
                                      THEN <<netif[1].payload>> ELSE <<>>
                      /\ stopped' => Fragmented(netif[1])
    BY DEF netvars
  <2>1. Net_listen
    BY DEF NetNext, HostSends, Net_write
  <2>2. PICK m \in Messages : netif = <<m>>
    BY DEF NetInv
  <2> DEFINE buf == HostFrame(m)
  <2>3. netif[1] = m /\ ~stopped
    BY <2>2 DEF NetInv
  <2>4. \/ IsArpRequest(buf) /\ given' = <<>> /\ UNCHANGED stopped
        \/ IsForPort(buf) /\ Deliver(buf)
        \/ ~IsArpRequest(buf) /\ ~IsForPort(buf) /\ given' = <<>> /\ UNCHANGED stopped
    BY <2>1, <2>3 DEF Net_listen
  <2>5. (IsForPort(buf) <=> ForPort(m)) /\ (IsArpRequest(buf) => ~ForPort(m))
    BY FrameArrives
  <2>6. IsForPort(buf) /\ Deliver(buf) =>
            IF Fragmented(m) THEN stopped' = TRUE /\ given' = <<>>
            ELSE given' = <<m.payload>> /\ UNCHANGED stopped
    BY Delivered
  <2> HIDE DEF buf
  <2> QED BY <2>3, <2>4, <2>5, <2>6
<1> QED BY <1>1, NetInvHolds, PTL DEF NetSpec, PacketsReachCallback

(* What the kernel sends is taken by the host: the lengths and the checksum  *)
(* of write's frames agree with their payload, whatever it is, an ARP reply  *)
(* answers the host, and once the host was heard no frame goes to another    *)
(* address (write, checksum_ip, the ARP branch of the callback).             *)
THEOREM FramesAreUnderstood == NetSpec => HostUnderstands
<1> DEFINE Understood ==
        sent' # sent =>
            LET out == sent'[1]
            IN  /\ sub(out.frame, 0, 6) \in {HostMac} \cup (IF heard THEN {} ELSE {broadcast_mac})
                /\ out.kind = "ip" => HostTakes(out.frame) = <<out.payload>>
                /\ out.kind = "arp" =>
                      /\ sub(out.frame, 12, 2) = ArpType /\ uint16(out.frame, 20) = 2
                      /\ sub(out.frame, 22, 10) = my_mac \o my_ip
                      /\ sub(out.frame, 32, 10) = HostMac \o host_ip
<1>1. NetInv /\ [NetNext]_netvars => [Understood]_netvars
  <2> SUFFICES ASSUME NetInv, NetNext, sent' # sent PROVE Understood
    BY DEF netvars
  <2> DEFINE out == sent'[1]
  <2>1. CASE Net_listen
    <3>1. PICK m \in Messages : netif = <<m>>
      BY <2>1 DEF NetInv, Net_listen
    <3> DEFINE buf == HostFrame(m)
               reply == ArpReply(buf)
    <3>2. netif[1] = m
      BY <3>1
    <3>3. IsArpRequest(buf) /\ sent' = <<[frame |-> reply, kind |-> "arp", payload |-> <<>>]>>
      BY <2>1, <3>2 DEF Net_listen
    <3>4. sub(buf, 6, 6) = HostMac /\ sub(buf, 28, 4) = host_ip
      BY <3>3, FrameArrives
    <3> HIDE DEF buf
    <3>5. /\ sub(reply, 0, 6) = HostMac /\ sub(reply, 12, 2) = ArpType /\ uint16(reply, 20) = 2
          /\ sub(reply, 22, 10) = my_mac \o my_ip /\ sub(reply, 32, 10) = HostMac \o host_ip
      BY <3>4, ArpReplyIs
    <3> HIDE DEF reply
    <3>6. out.frame = reply /\ out.kind = "arp"
      BY <3>3
    <3> QED BY <3>5, <3>6
  <2>2. ASSUME NEW payload \in NetPayloads, Net_write(payload) PROVE Understood
    <3> DEFINE f == Frame(payload)
               n == Len(payload)
    <3>1. sent' = <<[frame |-> f, kind |-> "ip", payload |-> payload]>>
      BY <2>2 DEF Net_write
    <3>2. Part(payload, n) /\ 28 + n < TwoBytes /\ Part(host_mac, 6)
      <4>1. payload \in Octets /\ 32 + n < TwoBytes
        BY NetAssumption DEF Octets
      <4>2. Part(payload, n) /\ n \in Nat
        BY <4>1, AnyPart
      <4>3. Part(host_mac, 6)
        BY Addresses DEF NetInv
      <4> QED BY <4>1, <4>2, <4>3 DEF TwoBytes
    <3>3. sub(f, 0, 6) = host_mac /\ HostTakes(f) = <<payload>>
      BY <3>2, HostTakesFrame
    <3> HIDE DEF f
    <3>4. out.frame = f /\ out.kind = "ip" /\ out.payload = payload
      BY <3>1
    <3>5. host_mac \in {HostMac} \cup (IF heard THEN {} ELSE {broadcast_mac})
      BY DEF NetInv
    <3> QED BY <3>3, <3>4, <3>5
  <2>3. ~ \E m \in Messages : HostSends(m)
    BY DEF HostSends
  <2> QED BY <2>1, <2>2, <2>3 DEF NetNext
<1> QED BY <1>1, NetInvHolds, PTL DEF NetSpec, HostUnderstands
===============================================================================
