------------------------------ MODULE MCThreads -----------------------------
(***************************************************************************)
(* The thread pool and the small components that several threads use at    *)
(* once, for TLC side by side: a behaviour is one of the component chosen  *)
(* in its first state, and the others stay as they are.                    *)
(***************************************************************************)
EXTENDS ThreadPool

CONSTANTS
  Threads, Handles, Nobody, NoHandle,
  LoopWorkers, outer, inner1, inner2,
  Notifiers, Waiters, Timed, Pollers,
  Recorders, Metrics, Labels, Amount, MaxEvents

VARIABLES
  which,
  ref_, alive, holder, pc, arg,
  loop, tasks, stack, state_, notified_, ran, returned,
  mu_, announced, at, expired, answer,
  values_, mutex_, event, metrics_, todo, exported, exporting, begun, ended, floor

-----------------------------------------------------------------------------
\* One call of ParallelFor from outside the pool.  Its f calls ParallelFor for
\* the index 0 or 1, or for both when they are in two blocks; with two workers
\* inner calls can occupy them all.
MCCalls  == {outer, inner1, inner2}
MCMadeAt == [c \in {inner1, inner2} |->
               [call |-> outer, index |-> IF c = inner1 THEN 0 ELSE 1]]
\* Two blocks, three blocks of which the last is short, and a single block.
MCLoops  == {[n |-> 2, size |-> 1], [n |-> 8, size |-> 3], [n |-> 2, size |-> 4]}

Par    == INSTANCE ParallelFor
            WITH Workers <- LoopWorkers, Calls <- MCCalls, Outside <- {outer},
                 MadeAt <- MCMadeAt, Loops <- MCLoops
Ref    == INSTANCE RefCounted
Event  == INSTANCE Notification WITH notified_ <- announced, pc <- at
Metric == INSTANCE Monitoring WITH finished <- ended

ASSUME MCThreadsAssumption ==
  /\ Ref!HandlesAssumption /\ Par!CallsAssumption
  /\ Event!DisjointThreads /\ Metric!MonitoringAssumption

shared   == <<ref_, alive, holder, pc, arg>>
parallel == <<loop, tasks, stack, state_, notified_, ran, returned>>
notice   == <<mu_, announced, at, expired, answer>>
metering == <<values_, mutex_, event, metrics_, todo, exported, exporting,
              begun, ended, floor>>

Is(component) == which = component

\* Components with several initial states have one where they are not chosen.
MCInit ==
  /\ which \in {"ThreadPool", "RefCounted", "ParallelFor", "Notification", "Monitoring"}
  /\ Par!Init   /\ (Is("ParallelFor") \/ \A c \in MCCalls : loop[c].size = 1)
  /\ Ref!Init   /\ (Is("RefCounted") \/
                    holder[CHOOSE h \in Handles : TRUE] = CHOOSE t \in Threads : TRUE)
  /\ Init /\ Event!Init /\ Metric!Init

\* A step of a component leaves the others as they are.
Only(component) ==
  /\ Is(component) /\ UNCHANGED which
  /\ IF Is("ThreadPool")   THEN TRUE ELSE UNCHANGED vars
  /\ IF Is("RefCounted")   THEN TRUE ELSE UNCHANGED shared
  /\ IF Is("ParallelFor")  THEN TRUE ELSE UNCHANGED parallel
  /\ IF Is("Notification") THEN TRUE ELSE UNCHANGED notice
  /\ IF Is("Monitoring")   THEN TRUE ELSE UNCHANGED metering

MCNext ==
  \/ Only("ThreadPool")   /\ Next
  \/ Only("RefCounted")   /\ Ref!Next
  \/ Only("ParallelFor")  /\ Par!Next
  \/ Only("Notification") /\ Event!Next
  \/ Only("Monitoring")   /\ Metric!Next

\* The fairness of each component: every thread runs, and deadlines pass.
MCSpec ==
  /\ MCInit /\ [][MCNext]_<<which, vars, shared, parallel, notice, metering>>
  /\ \A w \in Workers : /\ WF_vars(Is("ThreadPool") /\ Enter(w))
                        /\ WF_vars(Is("ThreadPool") /\ w \in signalled /\ Wake(w))
                        /\ WF_vars(Is("ThreadPool") /\ Return(w))
  /\ WF_vars(Is("ThreadPool") /\ emptied /\ DtorWake)
  /\ WF_vars(Is("ThreadPool") /\ DtorJoin)
  /\ \A t \in Threads : WF_shared(Is("RefCounted") /\ Ref!Finish(t))
  /\ \A w \in LoopWorkers : WF_parallel(Is("ParallelFor") /\ Par!Take(w))
  /\ \A t \in Par!AllThreads : WF_parallel(Is("ParallelFor") /\ Par!Step(t))
  /\ \A t \in Event!AllThreads : WF_notice(Is("Notification") /\ Event!Next /\ Event!Work(t))
  /\ \A t \in Timed : WF_notice(Is("Notification") /\ Event!Next /\ Event!Timeout(t))

-----------------------------------------------------------------------------
(* Properties: those of each component, where it is the one chosen.        *)

\* Every call of ParallelFor that is made returns, unless all workers wait.
StuckOnlyIfAllWait == Is("ParallelFor") => Par!StuckOnlyIfAllWait

\* Once the event is announced every wait returns, with a timeout anyhow.
AllReturn == Is("Notification") => Event!AllReturn

\* An object that no handle refers to is deleted.
NoLeak == Is("RefCounted") => Ref!NoLeak

\* The others, each as it is stated in its module; those of the thread pool, which
\* hold where it stays in its first state, are ThreadPool's own.
SafeDeletion      == Ref!SafeDeletion
ChecksHold        == Ref!ChecksHold
FrameOutlivesUse  == Par!FrameOutlivesUse
BarrierAssertions == Par!BarrierAssertions
EachIndexOnce     == Par!EachIndexOnce
SafeToDestroy     == Event!SafeToDestroy
TruthfulAnswers   == Event!TruthfulAnswers
ExportIsCurrent   == Metric!ExportIsCurrent
=============================================================================
