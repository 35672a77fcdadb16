----------------------------- MODULE ThreadPool -----------------------------
(***************************************************************************)
(* SimpleThreadPoolBase (src/base/thread/simple_thread_pool.h).            *)
(*                                                                         *)
(* All shared state of the pool is guarded by mu_, so a critical section   *)
(* is one action: Schedule, one round of the worker loop from mu_.lock()   *)
(* to the next wait or unlock, the re-acquisition of mu_ by a worker whose *)
(* condition variable fired, and the two sections of the destructor.  What *)
(* happens outside mu_ (a closure running, its return, a notification in   *)
(* flight, a thread that has not started yet) separates the actions.       *)
(***************************************************************************)
EXTENDS Naturals, Sequences

CONSTANTS
  Workers,        \* the threads created by the constructor
  Tasks,          \* closures, each scheduled at most once
  NoTask          \* a Task whose fn is null

ASSUME PoolAssumption ==
  /\ Workers # {}                   \* CHECK_GE(num_threads, 1)
  /\ NoTask \notin Tasks

VARIABLES
  wpc,        \* where each worker is: "entering" (outside mu_, about to lock
              \* it for the loop test), "waiting", "running", "exited"
  current,    \* the closure a running worker executes
  waiters_,   \* stack of waiting workers (pointers to their Waiter)
  ready,      \* Waiter::ready
  slot,       \* Waiter::task
  signalled,  \* workers whose Waiter::cv was notified and that have not woken
  pending_,   \* queue of closures no worker was free for
  exiting_,
  emptied,    \* empty_ was notified since the destructor went to wait on it
  dtor,       \* "none", "waiting" (on empty_), "joining", "done"
  scheduled, runs, finished,   \* history: as in TaskExecutor
  late,       \* history: closures scheduled when exiting_ was already set
  dangling    \* history: a closure was written to the Waiter of a thread
              \* that no longer exists (undefined behaviour)

poolVars == <<waiters_, ready, slot, signalled, pending_, exiting_>>
history  == <<scheduled, runs, finished, late, dangling>>
vars     == <<wpc, current, poolVars, emptied, dtor, history>>

Members(s)  == {s[i] : i \in 1..Len(s)}
Distinct(s) == \A i, j \in 1..Len(s) : s[i] = s[j] => i = j

Idle   == Members(waiters_)
Queued == Members(pending_)

Init ==
  /\ wpc = [w \in Workers |-> "entering"]
  /\ current = [w \in Workers |-> NoTask]
  /\ waiters_ = <<>>
  /\ ready = [w \in Workers |-> FALSE]
  /\ slot = [w \in Workers |-> NoTask]
  /\ signalled = {}
  /\ pending_ = <<>>
  /\ exiting_ = FALSE
  /\ emptied = FALSE
  /\ dtor = "none"
  /\ scheduled = {}
  /\ runs = [t \in Tasks |-> 0]
  /\ finished = {}
  /\ late = {}
  /\ dangling = FALSE

-----------------------------------------------------------------------------
(* Schedule: hand the closure to the worker that went idle last, or queue  *)
(* it when no worker is idle.                                              *)

\* Mutant: queues the closure without looking at the waiters.
QueueTaskBesideIdle(t) ==
  /\ pending_' = Append(pending_, t)
  /\ UNCHANGED <<waiters_, ready, slot, signalled, dangling>>

QueueTask(t) ==
  /\ waiters_ = <<>>
  /\ pending_' = Append(pending_, t)
  /\ UNCHANGED <<waiters_, ready, slot, signalled, dangling>>

\* Mutant: hands the closure over without notifying the waiter.
HandTaskNoSignal(t) ==
  /\ waiters_ # <<>>
  /\ LET w == waiters_[Len(waiters_)]
     IN  /\ waiters_' = SubSeq(waiters_, 1, Len(waiters_) - 1)
         /\ ready' = [ready EXCEPT ![w] = TRUE]
         /\ slot' = [slot EXCEPT ![w] = t]
  /\ UNCHANGED <<signalled, pending_, dangling>>

HandTask(t) ==
  /\ waiters_ # <<>>
  /\ LET w == waiters_[Len(waiters_)]
     IN  /\ waiters_' = SubSeq(waiters_, 1, Len(waiters_) - 1)
         /\ IF wpc[w] = "exited"
            THEN \* the Waiter lived on the stack of a thread that is gone
                 /\ dangling' = TRUE
                 /\ UNCHANGED <<ready, slot, signalled>>
            ELSE /\ ready' = [ready EXCEPT ![w] = TRUE]
                 /\ slot' = [slot EXCEPT ![w] = t]
                 /\ signalled' = signalled \cup {w}
                 /\ UNCHANGED dangling
  /\ UNCHANGED pending_

Schedule(t) ==
  /\ t \notin scheduled
  /\ scheduled' = scheduled \cup {t}
  /\ late' = IF exiting_ THEN late \cup {t} ELSE late
  /\ QueueTask(t) \/ HandTask(t)
  /\ UNCHANGED <<wpc, current, exiting_, emptied, dtor, runs, finished>>

\* A caller outside the pool owns it, so it does not schedule once it has
\* started to destroy the pool.
ClientSchedule(t) ==
  /\ dtor = "none"
  /\ Schedule(t)

\* A closure that is running may schedule further closures, also while the
\* destructor is at work.
TaskSchedule(w, t) ==
  /\ wpc[w] = "running"
  /\ Schedule(t)

-----------------------------------------------------------------------------
(* WorkerLoop.                                                             *)

StartTask(w, t) ==
  /\ wpc' = [wpc EXCEPT ![w] = "running"]
  /\ current' = [current EXCEPT ![w] = t]
  /\ runs' = [runs EXCEPT ![t] = @ + 1]

\* One round from the test of exiting_, with mu_ held.
ExitLoop(w) ==
  /\ exiting_
  /\ wpc' = [wpc EXCEPT ![w] = "exited"]
  /\ UNCHANGED <<current, waiters_, ready, pending_, emptied, runs>>

GoIdle(w) ==
  /\ ~exiting_
  /\ pending_ = <<>>
  /\ ready' = [ready EXCEPT ![w] = FALSE]
  /\ waiters_' = Append(waiters_, w)
  /\ wpc' = [wpc EXCEPT ![w] = "waiting"]
  /\ UNCHANGED <<current, pending_, emptied, runs>>

\* Mutant: leaves the closure in the queue (pop_front forgotten).
TakePendingNoPop(w) ==
  /\ ~exiting_
  /\ pending_ # <<>>
  /\ StartTask(w, Head(pending_))
  /\ UNCHANGED <<waiters_, ready, pending_, emptied>>

\* Mutant: empties the queue without telling the destructor.
TakePendingSilent(w) ==
  /\ ~exiting_
  /\ pending_ # <<>>
  /\ StartTask(w, Head(pending_))
  /\ pending_' = Tail(pending_)
  /\ UNCHANGED <<waiters_, ready, emptied>>

TakePending(w) ==
  /\ ~exiting_
  /\ pending_ # <<>>
  /\ StartTask(w, Head(pending_))
  /\ pending_' = Tail(pending_)
  /\ emptied' = (emptied \/ Tail(pending_) = <<>>)
  /\ UNCHANGED <<waiters_, ready>>

LoopHead(w) == ExitLoop(w) \/ GoIdle(w) \/ TakePending(w)

\* The thread starts, or comes back from a closure, and locks mu_.
Enter(w) ==
  /\ wpc[w] = "entering"
  /\ LoopHead(w)
  /\ UNCHANGED <<slot, signalled, exiting_, dtor, scheduled, finished, late,
                 dangling>>

\* Mutant: does not test ready after the wait.
WakeSpuriously(w) ==
  /\ wpc[w] = "waiting"
  /\ slot' = [slot EXCEPT ![w] = NoTask]
  /\ signalled' = signalled \ {w}
  /\ \/ /\ slot[w] # NoTask
        /\ StartTask(w, slot[w])
        /\ UNCHANGED <<waiters_, ready, pending_, emptied>>
     \/ /\ slot[w] = NoTask
        /\ LoopHead(w)
  /\ UNCHANGED <<exiting_, dtor, scheduled, finished, late, dangling>>

\* The wait on waiter.cv returns with ready set: the worker takes the closure
\* it was handed, or, woken by the destructor with none, tests exiting_ again.
\* (A wake-up with ready unset goes back to wait and changes nothing.)
Wake(w) ==
  /\ wpc[w] = "waiting"
  /\ ready[w]
  /\ slot' = [slot EXCEPT ![w] = NoTask]
  /\ signalled' = signalled \ {w}
  /\ \/ /\ slot[w] # NoTask
        /\ StartTask(w, slot[w])
        /\ UNCHANGED <<waiters_, ready, pending_, emptied>>
     \/ /\ slot[w] = NoTask
        /\ LoopHead(w)
  /\ UNCHANGED <<exiting_, dtor, scheduled, finished, late, dangling>>

\* The closure returns; mu_ is not held.
Return(w) ==
  /\ wpc[w] = "running"
  /\ wpc' = [wpc EXCEPT ![w] = "entering"]
  /\ finished' = finished \cup {current[w]}
  /\ current' = [current EXCEPT ![w] = NoTask]
  /\ UNCHANGED <<poolVars, emptied, dtor, scheduled, runs, late, dangling>>

-----------------------------------------------------------------------------
(* ~SimpleThreadPoolBase.                                                  *)

\* exiting_ is set and every waiter is woken with no closure.  waiters_ keeps
\* its contents.
Shutdown ==
  /\ exiting_' = TRUE
  /\ ready' = [w \in Workers |-> ready[w] \/ w \in Idle]
  /\ slot' = [w \in Workers |-> IF w \in Idle THEN NoTask ELSE slot[w]]
  /\ signalled' = signalled \cup Idle
  /\ dtor' = "joining"

\* Mutant: shuts down without waiting for the queue to empty.
DtorEnterNoDrain ==
  /\ dtor = "none"
  /\ Shutdown
  /\ UNCHANGED <<wpc, current, waiters_, pending_, emptied, history>>

DtorEnter ==
  /\ dtor = "none"
  /\ \/ /\ pending_ = <<>>
        /\ Shutdown
        /\ UNCHANGED emptied
     \/ /\ pending_ # <<>>
        /\ dtor' = "waiting"
        /\ emptied' = FALSE
        /\ UNCHANGED <<ready, slot, signalled, exiting_>>
  /\ UNCHANGED <<wpc, current, waiters_, pending_, history>>

\* The wait on empty_ returns.  With pending_ refilled meanwhile the
\* destructor waits again.
DtorWake ==
  /\ dtor = "waiting"
  /\ \/ /\ pending_ = <<>>
        /\ Shutdown
        /\ UNCHANGED emptied
     \/ /\ pending_ # <<>>
        /\ emptied' = FALSE
        /\ UNCHANGED <<ready, slot, signalled, exiting_, dtor>>
  /\ UNCHANGED <<wpc, current, waiters_, pending_, history>>

\* Every thread has been joined.
DtorJoin ==
  /\ dtor = "joining"
  /\ \A w \in Workers : wpc[w] = "exited"
  /\ dtor' = "done"
  /\ UNCHANGED <<wpc, current, poolVars, emptied, history>>

\* The pool is gone: nothing more happens.
Destroyed ==
  /\ dtor = "done"
  /\ UNCHANGED vars

Next ==
  \/ \E t \in Tasks : ClientSchedule(t)
  \/ \E w \in Workers, t \in Tasks : TaskSchedule(w, t)
  \/ \E w \in Workers : Enter(w) \/ Wake(w) \/ Return(w)
  \/ DtorEnter
  \/ DtorWake
  \/ DtorJoin
  \/ Destroyed

Safety == Init /\ [][Next]_vars

\* Threads that can run do run: a worker that wants mu_ gets it, a notified
\* wait returns, a closure returns.  Nobody is obliged to schedule anything or
\* to destroy the pool, and a wait nobody notified may last for ever.
Fairness ==
  /\ \A w \in Workers : /\ WF_vars(Enter(w))
                        /\ WF_vars(w \in signalled /\ Wake(w))
                        /\ WF_vars(Return(w))
  /\ WF_vars(emptied /\ DtorWake)
  /\ WF_vars(DtorJoin)

Spec == Safety /\ Fairness

-----------------------------------------------------------------------------
(* Properties.                                                             *)

WorkerTypes ==
  /\ wpc \in [Workers -> {"entering", "waiting", "running", "exited"}]
  /\ current \in [Workers -> Tasks \cup {NoTask}]
  /\ slot \in [Workers -> Tasks \cup {NoTask}]
  /\ signalled \in SUBSET Workers

PoolTypes ==
  /\ waiters_ \in Seq(Workers)
  /\ pending_ \in Seq(Tasks)
  /\ dtor \in {"none", "waiting", "joining", "done"}

FlagTypes ==
  /\ ready \in [Workers -> BOOLEAN]
  /\ exiting_ \in BOOLEAN
  /\ emptied \in BOOLEAN
  /\ dangling \in BOOLEAN

HistoryTypes ==
  /\ scheduled \in SUBSET Tasks
  /\ runs \in [Tasks -> Nat]
  /\ finished \in SUBSET Tasks
  /\ late \in SUBSET Tasks

TypeOK == WorkerTypes /\ PoolTypes /\ FlagTypes /\ HistoryTypes

\* No closure is queued while a worker is idle: Schedule queues only when the
\* stack of waiters is empty and a worker goes to wait only when the queue is
\* (simple_thread_pool.h:54 and :87), whatever the order of the two.
WorkConserving == waiters_ # <<>> => pending_ = <<>>

\* The stack of waiters never holds a worker twice, so push_back's
\* CHECK(size_ < max_size_) (max_size_vector.h:58) cannot fire: no worker goes
\* to wait again while its previous Waiter is still on the stack.
WaitersDistinct == Distinct(waiters_)

\* A closure is started at most once, whoever schedules it and whenever
\* (ASSERT_FALSE(work[i]), simple_thread_pool_unittest.cc:31).
AtMostOnce == \A t \in Tasks : runs[t] <= 1

\* When the destructor returns, a closure that never ran was scheduled by a
\* running closure after exiting_ had been set: nothing else loses work
\* (ASSERT_TRUE(work[i]), simple_thread_pool_unittest.cc:38), not even the
\* hand-over to a worker that the destructor wakes as well.  And only such a
\* closure can be written to the Waiter of a thread that has ended.
OnlyLateIsLost ==
  /\ dtor = "done" => scheduled \ finished \subseteq late
  /\ dangling => late # {}

-----------------------------------------------------------------------------
(* The inductive invariant behind the safety properties: a closure that    *)
(* was scheduled and has not returned is in exactly one place (the queue,  *)
(* the Waiter of a worker that is about to wake, a running worker), or it  *)
(* came too late.                                                          *)

\* Who is on the stack of waiters, and what the fields of a waiter mean.
WorkerOK(w) ==
  /\ ~exiting_ => (w \in Idle <=> wpc[w] = "waiting" /\ ~ready[w])
  /\ w \in Idle => wpc[w] \in {"waiting", "exited"}
  /\ exiting_ /\ wpc[w] = "waiting" => ready[w]
  /\ wpc[w] = "exited" => exiting_
  /\ slot[w] # NoTask => wpc[w] = "waiting" /\ ready[w] /\ w \notin Idle
  /\ wpc[w] = "waiting" /\ ready[w] /\ slot[w] = NoTask => exiting_
  /\ wpc[w] = "running" <=> current[w] # NoTask

WaitersOK ==
  /\ Distinct(waiters_)
  /\ waiters_ # <<>> => pending_ = <<>>
  /\ \A w \in Workers : WorkerOK(w)

\* No closure is in two places, and what a place says of its history.
PlacesOK ==
  /\ Distinct(pending_)
  /\ \A t \in Queued : t \in scheduled /\ runs[t] = 0
  /\ \A w \in Workers :
       /\ slot[w] # NoTask => /\ slot[w] \in scheduled \ Queued
                              /\ runs[slot[w]] = 0
       /\ current[w] # NoTask => /\ runs[current[w]] = 1
                                 /\ current[w] \notin finished
  /\ \A v, w \in Workers : v # w =>
       /\ slot[v] = slot[w] => slot[v] = NoTask
       /\ current[v] = current[w] => current[v] = NoTask

\* What the history of a closure can be.
HistoryOK ==
  \A t \in Tasks : /\ runs[t] \in {0, 1}
                   /\ runs[t] = 1 => t \in scheduled
                   /\ t \in finished => runs[t] = 1

\* Every closure scheduled in time is somewhere until it returns.
NothingLost ==
  \A t \in scheduled \ (finished \cup late) :
    t \in Queued \/ \E w \in Workers : slot[w] = t \/ current[w] = t

\* The destructor's progress.
DtorOK ==
  /\ exiting_ <=> dtor \in {"joining", "done"}
  /\ exiting_ => Queued \subseteq late
  /\ ~exiting_ => late = {}
  /\ dangling => late # {}
  /\ dtor = "done" => \A w \in Workers : wpc[w] = "exited"

PoolInv ==
  TypeOK /\ WaitersOK /\ PlacesOK /\ HistoryOK /\ NothingLost /\ DtorOK

\* The destructor returns, even when closures keep scheduling while it runs.
DtorTerminates == (dtor # "none") ~> (dtor = "done")

\* The pool implements the executor its callers reason with.
Executor == INSTANCE TaskExecutor
              WITH closing <- exiting_, closed <- (dtor = "done")
ImplementsExecutor == Executor!Spec

=============================================================================
