---------------------------- MODULE ThreadsProofs ----------------------------
(***************************************************************************)
(* The invariants of the components proved where the runs check them: in   *)
(* the specification that runs one component at a time.                    *)
(***************************************************************************)
EXTENDS MCThreads, FiniteSetTheorems, TLAPS

ParProofs == INSTANCE ParallelForProofs
               WITH Workers <- LoopWorkers, Calls <- MCCalls, Outside <- {outer},
                    MadeAt <- MCMadeAt, Loops <- MCLoops

everything == <<which, vars, shared, parallel, notice, metering>>

-----------------------------------------------------------------------------
(* The thread pool.                                                        *)

(* Where the run checks it the pool takes its own steps only, so that what *)
(* ThreadPoolProofs proves of it holds there.                              *)
THEOREM PoolSteps == MCSpec => Safety
<1>1. MCInit => Init
  BY DEF MCInit
<1>2. [MCNext]_everything => [Next]_vars
  BY DEF MCNext, Only, Is, everything
<1> QED BY <1>1, <1>2, PTL DEF MCSpec, everything, Safety

-----------------------------------------------------------------------------
(* ParallelFor.                                                            *)

\* The definitions that reach the proofs of ParallelFor are those of the runs.
LEMMA SameInit == Par!Init <=> ParProofs!Init
BY DEF Par!Init, Par!AllThreads, Par!CallFrame, Par!Frame, Par!RangeOf, Par!BlockCount, Par!divup,
       ParProofs!Init, ParProofs!AllThreads, ParProofs!CallFrame, ParProofs!Frame,
       ParProofs!RangeOf, ParProofs!BlockCount, ParProofs!divup

LEMMA SameTake == ASSUME NEW w PROVE Par!Take(w) <=> ParProofs!Take(w)
BY DEF Par!Take, Par!Running, Par!Frame, ParProofs!Take, ParProofs!Running, ParProofs!Frame

LEMMA SameRange ==
  ASSUME NEW t
  PROVE  /\ Par!ScheduleUpper(t) <=> ParProofs!ScheduleUpper(t)
         /\ Par!ScheduleLower(t) <=> ParProofs!ScheduleLower(t)
         /\ Par!StartBlock(t) <=> ParProofs!StartBlock(t)
         /\ Par!FinishBlock(t) <=> ParProofs!FinishBlock(t)
<1> USE DEF Par!Running, Par!Top, Par!call, Par!size, Par!Leave, Par!At, Par!GoTo, Par!Length,
       Par!IsBlock, Par!Mid, Par!divup, Par!RangeOf, Par!Frame, Par!CallFrame, Par!Indices,
       ParProofs!Running, ParProofs!Top, ParProofs!call, ParProofs!size, ParProofs!Leave,
       ParProofs!At, ParProofs!GoTo, ParProofs!Length, ParProofs!IsBlock, ParProofs!Mid,
       ParProofs!divup, ParProofs!RangeOf, ParProofs!Frame, ParProofs!CallFrame, ParProofs!Indices
<1>1. Par!ScheduleUpper(t) <=> ParProofs!ScheduleUpper(t)
  BY DEF Par!ScheduleUpper, ParProofs!ScheduleUpper
<1>2. Par!ScheduleLower(t) <=> ParProofs!ScheduleLower(t)
  BY DEF Par!ScheduleLower, ParProofs!ScheduleLower
<1>3. Par!StartBlock(t) <=> ParProofs!StartBlock(t)
  BY DEF Par!StartBlock, ParProofs!StartBlock
<1>4. Par!FinishBlock(t) <=> ParProofs!FinishBlock(t)
  BY DEF Par!FinishBlock, ParProofs!FinishBlock
<1> QED BY <1>1, <1>2, <1>3, <1>4

LEMMA SameBarrier ==
  ASSUME NEW t
  PROVE  /\ Par!Notify(t) <=> ParProofs!Notify(t)
         /\ Par!Signal(t) <=> ParProofs!Signal(t)
         /\ Par!Wait(t) <=> ParProofs!Wait(t)
         /\ Par!Check(t) <=> ParProofs!Check(t)
<1> USE DEF Par!Running, Par!Top, Par!call, Par!Leave, Par!At, Par!GoTo, Par!Return, Par!Sleeps,
       Par!AllThreads, ParProofs!Running, ParProofs!Top, ParProofs!call, ParProofs!Leave,
       ParProofs!At, ParProofs!GoTo, ParProofs!Return, ParProofs!Sleeps, ParProofs!AllThreads
<1>1. Par!Notify(t) <=> ParProofs!Notify(t)
  BY DEF Par!Notify, ParProofs!Notify
<1>2. Par!Signal(t) <=> ParProofs!Signal(t)
  BY DEF Par!Signal, ParProofs!Signal
<1>3. Par!Wait(t) <=> ParProofs!Wait(t)
  BY DEF Par!Wait, ParProofs!Wait
<1>4. Par!Check(t) <=> ParProofs!Check(t)
  BY DEF Par!Check, ParProofs!Check
<1> QED BY <1>1, <1>2, <1>3, <1>4

LEMMA SameNext == Par!Next <=> ParProofs!Next
<1>1. \A t : Par!Step(t) <=> ParProofs!Step(t)
  BY SameRange, SameBarrier DEF Par!Step, ParProofs!Step
<1>2. Par!AllThreads = ParProofs!AllThreads
  BY DEF Par!AllThreads, ParProofs!AllThreads
<1> QED BY <1>1, <1>2, SameTake DEF Par!Next, ParProofs!Next

LEMMA SameProperties ==
  /\ FrameOutlivesUse <=> ParProofs!FrameOutlivesUse
  /\ BarrierAssertions <=> ParProofs!BarrierAssertions
  /\ EachIndexOnce <=> ParProofs!EachIndexOnce
<1>1. FrameOutlivesUse <=> ParProofs!FrameOutlivesUse
  BY DEF FrameOutlivesUse, Par!FrameOutlivesUse, ParProofs!FrameOutlivesUse,
         Par!AllThreads, ParProofs!AllThreads, Par!FramesOf, ParProofs!FramesOf
<1>2. BarrierAssertions <=> ParProofs!BarrierAssertions
  BY DEF BarrierAssertions, Par!BarrierAssertions, ParProofs!BarrierAssertions,
         Par!AllThreads, ParProofs!AllThreads, Par!At, ParProofs!At, Par!call, ParProofs!call,
         Par!Top, ParProofs!Top, Par!Running, ParProofs!Running
<1>3. EachIndexOnce <=> ParProofs!EachIndexOnce
  BY DEF EachIndexOnce, Par!EachIndexOnce, ParProofs!EachIndexOnce
<1> QED BY <1>1, <1>2, <1>3

LEMMA CallsAssumed == ParProofs!CallsAssumption
BY MCThreadsAssumption DEF Par!CallsAssumption, ParProofs!CallsAssumption

LEMMA ParStart == MCInit => ParProofs!ParInv
<1>1. MCInit => ParProofs!Init
  BY SameInit DEF MCInit
<1> QED BY <1>1, CallsAssumed, ParProofs!InitInv

LEMMA ParStep == ParProofs!ParInv /\ [MCNext]_everything => ParProofs!ParInv'
<1>1. [MCNext]_everything => [ParProofs!Next]_(ParProofs!vars)
  BY SameNext DEF MCNext, Only, Is, everything, parallel, ParProofs!vars
<1> QED BY <1>1, ParProofs!NextInv

LEMMA ParInvariant == MCSpec => []ParProofs!ParInv
BY ParStart, ParStep, PTL DEF MCSpec, everything

(* The barrier, HandleRange and f of a call (:200) are locals of           *)
(* ParallelFor.  When it has returned no closure in the pool and no frame  *)
(* on any thread uses them.                                                *)
THEOREM FramesOutlive == MCSpec => []FrameOutlivesUse
<1>1. ParProofs!ParInv => FrameOutlivesUse
  BY ParProofs!InvFrames, SameProperties
<1> QED BY <1>1, ParInvariant, PTL

(* The assertions of Barrier never fail: Notify finds the count above 0    *)
(* (:49) and notified_ not yet set (:53), the destructor finds the count 0 *)
(* (:43).                                                                  *)
THEOREM AssertionsNeverFail == MCSpec => []BarrierAssertions
<1>1. ParProofs!ParInv => BarrierAssertions
  BY ParProofs!InvAssertions, SameProperties
<1> QED BY <1>1, ParInvariant, PTL

(* f runs at most once for an index, and once for every index of a call    *)
(* that has returned, whoever takes the halves of its range.               *)
THEOREM IndicesOnce == MCSpec => []EachIndexOnce
<1>1. ParProofs!ParInv => EachIndexOnce
  BY ParProofs!InvOnce, SameProperties
<1> QED BY <1>1, ParInvariant, PTL

-----------------------------------------------------------------------------
(* Notification.                                                           *)

\* Inside Notify mu_ is held, and who knows of the event knows what announced
\* says: without the second a Notify to come could still make an early answer
\* unsafe.
NotifierOK(u) ==
  /\ at[u] \in {"start", "unlock", "done", "assert"}
  /\ at[u] = "unlock" => mu_ = u

KnowledgeOK ==
  /\ \A t \in Timed \cup Pollers : answer[t] => announced
  /\ \A t \in Waiters : at[t] = "done" => announced

\* The kinds of threads are disjoint from first to last.
EventInv ==
  /\ Event!DisjointThreads
  /\ Event!TypeOK
  /\ \A u \in Notifiers : NotifierOK(u)
  /\ KnowledgeOK
  /\ Event!SafeToDestroy

USE DEF Event!DisjointThreads

LEMMA EventStarts == Event!DisjointThreads /\ Event!Init => EventInv
BY DEF Event!Init, EventInv, Event!TypeOK, NotifierOK, KnowledgeOK, Event!SafeToDestroy,
       Event!AllThreads

\* With mu_ free no thread is in the second half of Notify.
LEMMA FreeIsSafe ==
  ASSUME EventInv, mu_ = Nobody, NEW u \in Notifiers
  PROVE  at[u] # "unlock"
BY DEF EventInv, NotifierOK, Event!AllThreads

LEMMA NotifyStep ==
  ASSUME EventInv, NEW t \in Notifiers, Event!Notify(t)
  PROVE  EventInv'
<1>1. at[t] = "start" /\ mu_ = Nobody /\ mu_' = t /\ UNCHANGED <<expired, answer>>
  BY DEF Event!Notify
<1>2. CASE announced
  <2>1. at' = [at EXCEPT ![t] = "assert"] /\ announced' = announced
    BY <1>2 DEF Event!Notify
  <2>2. Event!TypeOK'
    BY <1>1, <2>1 DEF EventInv, Event!TypeOK
  <2>3. \A u \in Notifiers : NotifierOK(u)'
    BY <1>1, <2>1, FreeIsSafe DEF EventInv, Event!TypeOK, NotifierOK, Event!AllThreads
  <2>4. KnowledgeOK' /\ Event!SafeToDestroy'
    BY <1>1, <1>2, <2>1, FreeIsSafe
       DEF EventInv, Event!TypeOK, KnowledgeOK, Event!SafeToDestroy, Event!AllThreads
  <2> QED BY <2>2, <2>3, <2>4 DEF EventInv
<1>3. CASE ~ announced
  <2>1. at' = [Event!Wakened EXCEPT ![t] = "unlock"] /\ announced' = TRUE
    BY <1>3 DEF Event!Notify
  <2>2. Event!TypeOK'
    BY <1>1, <2>1 DEF EventInv, Event!TypeOK, Event!Wakened
  <2>3. \A u \in Notifiers : NotifierOK(u)'
    BY <1>1, <2>1, FreeIsSafe
       DEF EventInv, Event!TypeOK, NotifierOK, Event!AllThreads, Event!Wakened
  <2>4. KnowledgeOK'
    BY <2>1 DEF KnowledgeOK
  <2>5. Event!SafeToDestroy'
    <3>1. \A v \in Timed \cup Pollers : ~ answer'[v]
      BY <1>1, <1>3 DEF EventInv, KnowledgeOK
    <3>2. \A v \in Waiters : at'[v] # "done"
      BY <1>3, <2>1
         DEF EventInv, Event!TypeOK, KnowledgeOK, Event!AllThreads, Event!Wakened
    <3> QED BY <3>1, <3>2 DEF Event!SafeToDestroy
  <2> QED BY <2>2, <2>3, <2>4, <2>5 DEF EventInv
<1> QED BY <1>2, <1>3

LEMMA UnlockStep ==
  ASSUME EventInv, NEW t \in Notifiers, Event!Unlock(t)
  PROVE  EventInv'
<1>1. /\ at[t] = "unlock" /\ mu_ = t /\ mu_' = Nobody
      /\ at' = [at EXCEPT ![t] = "done"] /\ UNCHANGED <<announced, expired, answer>>
  BY DEF Event!Unlock, EventInv, NotifierOK
<1>2. \A u \in Notifiers \ {t} : at[u] # "unlock"
  BY <1>1 DEF EventInv, NotifierOK
<1>3. Event!TypeOK'
  BY <1>1 DEF EventInv, Event!TypeOK
<1>4. \A u \in Notifiers : NotifierOK(u)'
  BY <1>1, <1>2 DEF EventInv, Event!TypeOK, NotifierOK, Event!AllThreads
<1>5. KnowledgeOK'
  BY <1>1 DEF EventInv, Event!TypeOK, KnowledgeOK, Event!AllThreads
<1>6. Event!SafeToDestroy'
  BY <1>1, <1>2 DEF EventInv, Event!TypeOK, Event!SafeToDestroy, Event!AllThreads
<1> QED BY <1>3, <1>4, <1>5, <1>6 DEF EventInv

\* A waiting or polling thread: it returns, or learns of the event, only with
\* mu_ free, and what it learns is announced.
Learns(t, p) ==
  /\ UNCHANGED <<mu_, announced>> /\ expired' \subseteq Timed
  /\ at' = [at EXCEPT ![t] = p]
  /\ \/ answer' = answer
     \/ /\ mu_ = Nobody /\ t \in Timed \cup Pollers
        /\ answer' = [answer EXCEPT ![t] = announced]
  /\ t \notin Waiters \/ p # "done" \/ (mu_ = Nobody /\ announced)

LEMMA WaiterStep ==
  ASSUME EventInv, NEW t \in Waiters \cup Timed \cup Pollers,
         NEW p \in {"start", "wait", "woken", "done"}, Learns(t, p)
  PROVE  EventInv'
<1> USE DEF Learns
<1>1. Event!TypeOK'
  BY DEF EventInv, Event!TypeOK
<1>2. \A u \in Notifiers : at'[u] = at[u]
  BY DEF EventInv, Event!TypeOK, Event!AllThreads
<1>3. \A u \in Notifiers : NotifierOK(u)'
  BY <1>2 DEF EventInv, NotifierOK
<1>4. \A v \in Timed \cup Pollers :
        answer'[v] => answer[v] \/ (mu_ = Nobody /\ announced)
  BY DEF EventInv, Event!TypeOK
<1>5. \A v \in Waiters : at'[v] = "done" => at[v] = "done" \/ (mu_ = Nobody /\ announced)
  BY DEF EventInv, Event!TypeOK, Event!AllThreads
<1>6. KnowledgeOK'
  BY <1>4, <1>5 DEF EventInv, KnowledgeOK
<1>7. Event!SafeToDestroy'
  BY <1>2, <1>4, <1>5, FreeIsSafe DEF EventInv, Event!SafeToDestroy
<1> QED BY <1>1, <1>3, <1>6, <1>7 DEF EventInv

LEMMA PollStep ==
  ASSUME EventInv, NEW t \in Pollers, Event!Poll(t)
  PROVE  EventInv'
<1>1. at[t] \in {"start", "wait", "woken", "unlock", "done", "assert"}
  BY DEF EventInv, Event!TypeOK, Event!AllThreads
<1>2. /\ mu_ = Nobody /\ answer' = [answer EXCEPT ![t] = announced]
      /\ UNCHANGED <<mu_, announced, at, expired>>
  BY DEF Event!Poll
<1>3. Event!TypeOK'
  BY <1>2 DEF EventInv, Event!TypeOK
<1>4. \A v \in Timed \cup Pollers : answer'[v] => answer[v] \/ announced
  BY <1>2 DEF EventInv, Event!TypeOK
<1>5. KnowledgeOK' /\ Event!SafeToDestroy' /\ \A u \in Notifiers : NotifierOK(u)'
  BY <1>2, <1>4, FreeIsSafe DEF EventInv, KnowledgeOK, Event!SafeToDestroy, NotifierOK
<1> QED BY <1>3, <1>5 DEF EventInv

LEMMA SpuriousStep ==
  ASSUME EventInv, NEW t \in Waiters \cup Timed, Event!Spurious(t)
  PROVE  EventInv'
<1>1. Learns(t, "woken")
  BY DEF Event!Spurious, Learns, EventInv, Event!TypeOK
<1> QED BY <1>1, WaiterStep

LEMMA WaitStep ==
  ASSUME EventInv, NEW t \in Waiters, Event!WaitForNotification(t)
  PROVE  EventInv'
<1>1. CASE announced
  <2>1. Learns(t, "done")
    BY <1>1 DEF Event!WaitForNotification, Learns, EventInv, Event!TypeOK
  <2> QED BY <2>1, WaiterStep
<1>2. CASE ~ announced
  <2>1. Learns(t, "wait")
    BY <1>2 DEF Event!WaitForNotification, Learns, EventInv, Event!TypeOK
  <2> QED BY <2>1, WaiterStep
<1> QED BY <1>1, <1>2

LEMMA TimedStep ==
  ASSUME EventInv, NEW t \in Timed, Event!WaitWithTimeout(t) \/ Event!Timeout(t)
  PROVE  EventInv'
<1> DEFINE p == at'[t]
<1>1. UNCHANGED <<mu_, announced>> /\ expired' \subseteq Timed
  BY DEF Event!WaitWithTimeout, Event!Timeout, EventInv, Event!TypeOK
<1>2. p \in {"start", "wait", "woken", "done"} /\ at' = [at EXCEPT ![t] = p]
  BY DEF Event!WaitWithTimeout, Event!Timeout, EventInv, Event!TypeOK, Event!AllThreads
<1>3. \/ answer' = answer
      \/ /\ mu_ = Nobody /\ t \in Timed \cup Pollers
         /\ answer' = [answer EXCEPT ![t] = announced]
  BY DEF Event!WaitWithTimeout, Event!Timeout
<1>4. t \notin Waiters
  BY DEF EventInv
<1>5. Learns(t, p)
  BY <1>1, <1>2, <1>3, <1>4 DEF Learns
<1> HIDE DEF p
<1> QED BY <1>2, <1>5, WaiterStep

LEMMA EventNext == EventInv /\ [Event!Next]_(Event!vars) => EventInv'
<1> SUFFICES ASSUME EventInv, [Event!Next]_(Event!vars) PROVE EventInv'
  OBVIOUS
<1>1. CASE UNCHANGED Event!vars
  BY <1>1 DEF Event!vars, EventInv, Event!TypeOK, NotifierOK, KnowledgeOK, Event!SafeToDestroy
<1>2. ASSUME NEW t \in Event!AllThreads, Event!Work(t)
      PROVE  EventInv'
  BY <1>2, NotifyStep, UnlockStep, WaitStep, TimedStep DEF Event!Work
<1>3. ASSUME NEW t \in Pollers, Event!Poll(t)
      PROVE  EventInv'
  BY <1>3, PollStep
<1>4. ASSUME NEW t \in Timed, Event!Timeout(t)
      PROVE  EventInv'
  BY <1>4, TimedStep
<1>5. ASSUME NEW t \in Waiters \cup Timed, Event!Spurious(t)
      PROVE  EventInv'
  BY <1>5, SpuriousStep
<1> QED BY <1>1, <1>2, <1>3, <1>4, <1>5 DEF Event!Next

LEMMA EventStart == MCInit => EventInv
<1>1. Event!DisjointThreads
  BY MCThreadsAssumption
<1>2. MCInit => Event!Init
  BY DEF MCInit
<1> QED BY <1>1, <1>2, EventStarts

LEMMA EventSteps == [MCNext]_everything => [Event!Next]_(Event!vars)
BY DEF MCNext, Only, Is, everything, notice, Event!vars

LEMMA EventInvariant == MCSpec => []EventInv
<1>1. EventInv /\ [MCNext]_everything => EventInv'
  BY EventSteps, EventNext
<1> QED BY <1>1, EventStart, PTL DEF MCSpec, everything

(* A thread that learnt of the event, by a wait or by polling, may destroy *)
(* the object: no notifier is still inside Notify.                         *)
THEOREM DestroyedSafely == MCSpec => []SafeToDestroy
<1>1. EventInv => SafeToDestroy
  BY DEF EventInv, SafeToDestroy
<1> QED BY <1>1, EventInvariant, PTL

\* What every step makes of an answer.
Truthful ==
  \A t \in Timed \cup Pollers :
    /\ answer'[t] => announced'
    /\ answer[t] => answer'[t]
    /\ t \in Timed /\ at[t] # "done" /\ at'[t] = "done" => answer'[t] = announced

LEMMA AnswerStep == EventInv /\ EventInv' /\ [Event!Next]_(Event!vars) => [Truthful]_(Event!vars)
<1> SUFFICES ASSUME EventInv, EventInv', Event!Next, NEW t \in Timed \cup Pollers
             PROVE  /\ answer'[t] => announced'
                    /\ answer[t] => answer'[t]
                    /\ t \in Timed /\ at[t] # "done" /\ at'[t] = "done"
                         => answer'[t] = announced
  BY DEF Truthful
<1>1. answer'[t] => announced'
  BY DEF EventInv, KnowledgeOK
<1>2. answer[t] => answer'[t]
  <2>1. answer' = answer \/ \E u : answer' = [answer EXCEPT ![u] = announced]
    BY DEF Event!Next, Event!Work, Event!Notify, Event!Unlock, Event!Poll,
           Event!WaitForNotification, Event!WaitWithTimeout, Event!Timeout, Event!Spurious
  <2>2. answer[t] => announced
    BY DEF EventInv, KnowledgeOK
  <2>3. CASE answer' = answer
    BY <2>3
  <2>4. ASSUME NEW u, answer' = [answer EXCEPT ![u] = announced]
        PROVE  answer[t] => answer'[t]
    <3>1. CASE u = t
      <4>1. answer'[t] = announced
        BY <2>4, <3>1 DEF EventInv, Event!TypeOK
      <4> QED BY <2>2, <4>1
    <3>2. CASE u # t
      BY <2>4, <3>2 DEF EventInv, Event!TypeOK
    <3> QED BY <3>1, <3>2
  <2> QED BY <2>1, <2>3, <2>4
<1>3. ASSUME t \in Timed, at[t] # "done", at'[t] = "done"
      PROVE  answer'[t] = announced
  <2>1. PICK u \in Event!AllThreads :
               Event!Work(u) \/ (u \in Pollers /\ Event!Poll(u))
                 \/ (u \in Timed /\ Event!Timeout(u))
                 \/ (u \in Waiters \cup Timed /\ Event!Spurious(u))
    BY DEF Event!Next
  <2>2. t \in Event!AllThreads /\ t \notin Notifiers /\ t \notin Waiters
    BY <1>3 DEF EventInv, Event!AllThreads
  <2>3. Event!WaitWithTimeout(t)
    BY <1>3, <2>1, <2>2
       DEF Event!Work, Event!Notify, Event!Wakened, Event!Unlock, Event!Poll,
           Event!WaitForNotification, Event!WaitWithTimeout, Event!Timeout,
           Event!Spurious, EventInv, Event!TypeOK
  <2> QED BY <1>3, <2>3 DEF Event!WaitWithTimeout, EventInv, Event!TypeOK
<1> QED BY <1>1, <1>2, <1>3

(* Answers are true when given, a poller's never turn back, and a timed    *)
(* wait says what notified_ was when it returned.                          *)
THEOREM AnswersTrue == MCSpec => TruthfulAnswers
<1>1. EventInv /\ EventInv' /\ [MCNext]_everything => [Truthful]_(Event!vars)
  BY EventSteps, AnswerStep
<1> QED BY <1>1, EventInvariant, PTL
        DEF MCSpec, everything, TruthfulAnswers, Event!TruthfulAnswers, Truthful

-----------------------------------------------------------------------------
(* Monitoring.                                                             *)

Total(c, l) == Metric!Get(values_[c], l)
Inside(m, l) == mutex_[m] # "free" /\ event[mutex_[m]] = l

MetricTyped ==
  /\ Amount \in Nat \ {0} /\ "free" \notin Recorders /\ "none" \notin Labels
  /\ DOMAIN values_ = Metric!Counters
  /\ mutex_ \in [Metrics -> Recorders \cup {"free"}]
  /\ event \in [Recorders -> Labels \cup {"none"}]
  /\ {begun, ended, floor} \subseteq [Metrics \X Labels -> Nat]
  /\ DOMAIN exported \subseteq Metric!Counters
  /\ \A c \in DOMAIN exported, l \in Labels : Metric!Get(exported[c], l) \in Nat

\* The mutex is held for one event at a time, and a thread holds one at most.
Locked ==
  \A m \in Metrics : mutex_[m] # "free" =>
    /\ event[mutex_[m]] # "none"
    /\ \A k \in Metrics : mutex_[k] = mutex_[m] => k = m

\* The sum has the events that have begun and the count those that are finished:
\* one less while a thread is between the two.
Tallied ==
  \A m \in Metrics, l \in Labels :
    /\ Total(<<m, "sum">>, l) = begun[<<m, l>>] * Amount
    /\ Total(<<m, "count">>, l) = ended[<<m, l>>]
    /\ begun[<<m, l>>] = ended[<<m, l>>] + (IF Inside(m, l) THEN 1 ELSE 0)
    /\ floor[<<m, l>>] <= ended[<<m, l>>]

MetricInv == MetricTyped /\ Locked /\ Tallied /\ ExportIsCurrent

\* IncrementBy changes one value of one counter.
LEMMA Incremented ==
  ASSUME DOMAIN values_ = Metric!Counters, NEW c \in Metric!Counters, NEW l, NEW amount \in Nat,
         Metric!IncrementBy(c, l, amount),
         NEW d \in Metric!Counters, NEW k, Total(d, k) \in Nat
  PROVE  Total(d, k)' = IF d = c /\ k = l THEN Total(d, k) + amount ELSE Total(d, k)
<1>1. values_'[d] = IF d = c THEN [j \in DOMAIN values_[c] \cup {l} |->
                                    Metric!Get(values_[c], j) + IF j = l THEN amount ELSE 0]
                    ELSE values_[d]
  BY DEF Metric!IncrementBy
<1>2. CASE d = c
  BY <1>1, <1>2 DEF Total, Metric!Get
<1>3. CASE d # c
  BY <1>1, <1>3 DEF Total
<1> QED BY <1>2, <1>3

LEMMA Scaled ==
  ASSUME NEW a \in Nat, NEW b \in Nat, NEW k \in Nat, a <= b
  PROVE  a * k <= b * k /\ (a + 1) * k = a * k + k
OBVIOUS

LEMMA MetricStart == MCInit => MetricInv
<1> SUFFICES ASSUME Metric!Init PROVE MetricInv
  BY DEF MCInit
<1>1. MetricTyped
  BY MCThreadsAssumption
     DEF Metric!Init, MetricTyped, Metric!MonitoringAssumption, Metric!NoEvents
<1>2. Locked
  BY DEF Metric!Init, Locked
<1>3. ASSUME NEW m \in Metrics, NEW l \in Labels, NEW c \in Metric!Counters
      PROVE  /\ Total(c, l) = 0 /\ ~ Inside(m, l)
             /\ begun[<<m, l>>] = 0 /\ ended[<<m, l>>] = 0 /\ floor[<<m, l>>] = 0
  BY <1>3 DEF Metric!Init, Total, Metric!Get, Metric!NoValues, Metric!NoEvents, Inside
<1>4. Tallied
  BY <1>1, <1>3 DEF Tallied, MetricTyped, Metric!Counters
<1>5. ExportIsCurrent
  BY DEF Metric!Init, ExportIsCurrent, Metric!ExportIsCurrent
<1> QED BY <1>1, <1>2, <1>4, <1>5 DEF MetricInv

\* What has been read stays current: events only begin.
LEMMA StaysCurrent ==
  ASSUME MetricTyped, begun' \in [Metrics \X Labels -> Nat],
         \A x \in Metrics \X Labels : begun[x] <= begun'[x],
         ExportIsCurrent, UNCHANGED <<exported, exporting, floor>>
  PROVE  ExportIsCurrent'
<1>1. ASSUME NEW c \in DOMAIN exported, NEW l \in Labels, exporting
      PROVE  /\ floor[<<c[1], l>>] * Metric!Unit(c) <= Metric!Get(exported[c], l)
             /\ Metric!Get(exported[c], l) <= begun'[<<c[1], l>>] * Metric!Unit(c)
  <2> DEFINE x == <<c[1], l>>
  <2>1. x \in Metrics \X Labels /\ Metric!Unit(c) \in Nat
    BY DEF MetricTyped, Metric!Counters, Metric!Unit
  <2>2. begun[x] \in Nat /\ begun'[x] \in Nat /\ begun[x] <= begun'[x]
    BY <2>1 DEF MetricTyped
  <2>3. begun[x] * Metric!Unit(c) <= begun'[x] * Metric!Unit(c)
    BY <2>1, <2>2, Scaled
  <2>4. /\ floor[x] * Metric!Unit(c) <= Metric!Get(exported[c], l)
        /\ Metric!Get(exported[c], l) <= begun[x] * Metric!Unit(c)
    BY <1>1 DEF ExportIsCurrent, Metric!ExportIsCurrent
  <2>5. Metric!Get(exported[c], l) \in Nat
    BY <1>1 DEF MetricTyped
  <2>6. begun[x] * Metric!Unit(c) \in Nat /\ begun'[x] * Metric!Unit(c) \in Nat
    BY <2>1, <2>2
  <2> HIDE DEF x
  <2>7. Metric!Get(exported[c], l) <= begun'[x] * Metric!Unit(c)
    BY <2>3, <2>4, <2>5, <2>6
  <2> QED BY <2>4, <2>7 DEF x
<1> QED BY <1>1 DEF ExportIsCurrent, Metric!ExportIsCurrent, Metric!Unit, Metric!Get

LEMMA RecordStep ==
  ASSUME MetricInv, NEW t \in Recorders, NEW m \in Metrics, NEW l \in Labels,
         Metric!RecordEvent(t, m, l)
  PROVE  MetricInv'
<1>1. /\ event[t] = "none" /\ mutex_[m] = "free"
      /\ mutex_' = [mutex_ EXCEPT ![m] = t] /\ event' = [event EXCEPT ![t] = l]
      /\ Metric!IncrementBy(<<m, "sum">>, l, Amount)
      /\ begun' = [begun EXCEPT ![<<m, l>>] = @ + 1]
      /\ UNCHANGED <<exported, exporting, ended, floor>>
  BY DEF Metric!RecordEvent, Metric!export
<1>2. MetricTyped /\ Locked /\ Tallied /\ ExportIsCurrent
  BY DEF MetricInv
<1>3. MetricTyped'
  BY <1>1, <1>2 DEF MetricTyped, Metric!IncrementBy, Metric!Get
<1>4. \A k \in Metrics : mutex_[k] # t
  BY <1>1, <1>2 DEF Locked, MetricTyped
<1>5. Locked'
  BY <1>1, <1>2, <1>4 DEF Locked, MetricTyped
<1>6. ASSUME NEW k \in Metrics, NEW j \in Labels
      PROVE  Inside(k, j)' <=> (k = m /\ j = l) \/ Inside(k, j)
  BY <1>1, <1>2, <1>4 DEF Inside, MetricTyped
<1>7. ASSUME NEW k \in Metrics, NEW j \in Labels
      PROVE  /\ Total(<<k, "sum">>, j)' = begun'[<<k, j>>] * Amount
             /\ Total(<<k, "count">>, j)' = ended[<<k, j>>]
             /\ begun'[<<k, j>>] = ended[<<k, j>>] + (IF Inside(k, j)' THEN 1 ELSE 0)
             /\ floor[<<k, j>>] <= ended[<<k, j>>]
  <2> DEFINE b == begun[<<k, j>>]
  <2>1. /\ b \in Nat /\ ended[<<k, j>>] \in Nat /\ Amount \in Nat
        /\ DOMAIN values_ = Metric!Counters /\ <<m, "sum">> \in Metric!Counters
        /\ <<k, "sum">> \in Metric!Counters /\ <<k, "count">> \in Metric!Counters
        /\ begun'[<<k, j>>] = IF k = m /\ j = l THEN b + 1 ELSE b
    BY <1>1, <1>2 DEF MetricTyped, Metric!Counters
  <2>2. /\ Total(<<k, "sum">>, j) = b * Amount /\ Total(<<k, "count">>, j) = ended[<<k, j>>]
        /\ b = ended[<<k, j>>] + (IF Inside(k, j) THEN 1 ELSE 0)
        /\ floor[<<k, j>>] <= ended[<<k, j>>]
    BY <1>2 DEF Tallied
  <2> HIDE DEF b
  <2>3. b * Amount \in Nat /\ (b + 1) * Amount = b * Amount + Amount
    BY <2>1, Scaled
  <2>4. Total(<<k, "sum">>, j) \in Nat /\ Total(<<k, "count">>, j) \in Nat
    BY <2>1, <2>2, <2>3
  <2>5. Total(<<k, "sum">>, j)' = IF k = m /\ j = l THEN b * Amount + Amount ELSE b * Amount
    BY <1>1, <2>1, <2>2, <2>4, Incremented
  <2>6. Total(<<k, "count">>, j)' = ended[<<k, j>>]
    BY <1>1, <2>1, <2>2, <2>4, Incremented
  <2>7. Total(<<k, "sum">>, j)' = begun'[<<k, j>>] * Amount
    BY <2>1, <2>3, <2>5
  <2>8. k = m /\ j = l => ~ Inside(k, j)
    BY <1>1 DEF Inside
  <2>9. begun'[<<k, j>>] = ended[<<k, j>>] + (IF Inside(k, j)' THEN 1 ELSE 0)
    <3>1. CASE k = m /\ j = l
      <4>1. Inside(k, j)' /\ ~ Inside(k, j)
        BY <1>6, <2>8, <3>1
      <4> QED BY <2>1, <2>2, <3>1, <4>1
    <3>2. CASE ~ (k = m /\ j = l)
      <4>1. begun'[<<k, j>>] = b /\ (Inside(k, j)' <=> Inside(k, j))
        BY <1>6, <2>1, <3>2
      <4> QED BY <2>2, <4>1
    <3> QED BY <3>1, <3>2
  <2> QED BY <2>2, <2>6, <2>7, <2>9
<1>8. Tallied'
  BY <1>1, <1>7 DEF Tallied
<1>9. ExportIsCurrent'
  <2>1. \A x \in Metrics \X Labels : begun[x] <= begun'[x]
    BY <1>1, <1>2 DEF MetricTyped
  <2> QED BY <1>1, <1>2, <1>3, <2>1, StaysCurrent DEF MetricTyped
<1> QED BY <1>3, <1>5, <1>8, <1>9 DEF MetricInv

LEMMA CountStep ==
  ASSUME MetricInv, NEW t \in Recorders, NEW m \in Metrics, Metric!CountEvent(t, m)
  PROVE  MetricInv'
<1> DEFINE l == event[t]
<1>1. /\ mutex_[m] = t
      /\ mutex_' = [mutex_ EXCEPT ![m] = "free"] /\ event' = [event EXCEPT ![t] = "none"]
      /\ Metric!IncrementBy(<<m, "count">>, l, 1)
      /\ ended' = [ended EXCEPT ![<<m, l>>] = @ + 1]
      /\ UNCHANGED <<exported, exporting, begun, floor>>
  BY DEF Metric!CountEvent, Metric!export
<1>2. MetricTyped /\ Locked /\ Tallied /\ ExportIsCurrent
  BY DEF MetricInv
<1>3. l \in Labels /\ Inside(m, l) /\ (\A k \in Metrics : mutex_[k] = t => k = m)
  BY <1>1, <1>2 DEF Locked, MetricTyped, Inside
<1>4. MetricTyped'
  BY <1>1, <1>2, <1>3 DEF MetricTyped, Metric!IncrementBy, Metric!Get
<1>5. Locked'
  BY <1>1, <1>2, <1>3 DEF Locked, MetricTyped
<1>6. ASSUME NEW k \in Metrics, NEW j \in Labels
      PROVE  Inside(k, j)' <=> k # m /\ Inside(k, j)
  BY <1>1, <1>2, <1>3 DEF Inside, MetricTyped
<1>7. ASSUME NEW j \in Labels PROVE Inside(m, j) <=> j = l
  BY <1>1, <1>2 DEF Inside, MetricTyped
<1> HIDE DEF l
<1>8. ASSUME NEW k \in Metrics, NEW j \in Labels
      PROVE  /\ Total(<<k, "sum">>, j)' = begun[<<k, j>>] * Amount
             /\ Total(<<k, "count">>, j)' = ended'[<<k, j>>]
             /\ begun[<<k, j>>] = ended'[<<k, j>>] + (IF Inside(k, j)' THEN 1 ELSE 0)
             /\ floor[<<k, j>>] <= ended'[<<k, j>>]
  <2> DEFINE b == begun[<<k, j>>]
             d == ended[<<k, j>>]
             f == floor[<<k, j>>]
  <2>1. /\ b \in Nat /\ d \in Nat /\ f \in Nat /\ Amount \in Nat
        /\ DOMAIN values_ = Metric!Counters /\ <<m, "count">> \in Metric!Counters
        /\ <<k, "sum">> \in Metric!Counters /\ <<k, "count">> \in Metric!Counters
        /\ ended'[<<k, j>>] = IF k = m /\ j = l THEN d + 1 ELSE d
    BY <1>1, <1>2 DEF MetricTyped, Metric!Counters
  <2>2. /\ Total(<<k, "sum">>, j) = b * Amount /\ Total(<<k, "count">>, j) = d
        /\ b = d + (IF Inside(k, j) THEN 1 ELSE 0) /\ f <= d
    BY <1>2 DEF Tallied
  <2> HIDE DEF b, d, f
  <2>3. b * Amount \in Nat
    BY <2>1
  <2>4. Total(<<k, "sum">>, j) \in Nat /\ Total(<<k, "count">>, j) \in Nat
    BY <2>1, <2>2, <2>3
  <2>5. Total(<<k, "sum">>, j)' = b * Amount
    BY <1>1, <2>1, <2>2, <2>4, Incremented
  <2>6. Total(<<k, "count">>, j)' = IF k = m /\ j = l THEN d + 1 ELSE d
    BY <1>1, <2>1, <2>2, <2>4, Incremented
  <2>7. b = ended'[<<k, j>>] + (IF Inside(k, j)' THEN 1 ELSE 0)
    <3>1. CASE k = m /\ j = l
      <4>1. ~ Inside(k, j)' /\ Inside(k, j)
        BY <1>6, <1>7, <3>1
      <4> QED BY <2>1, <2>2, <3>1, <4>1
    <3>2. CASE ~ (k = m /\ j = l)
      <4>1. ended'[<<k, j>>] = d /\ (Inside(k, j)' <=> Inside(k, j))
        BY <1>6, <1>7, <2>1, <3>2
      <4> QED BY <2>2, <4>1
    <3> QED BY <3>1, <3>2
  <2> QED BY <2>1, <2>2, <2>5, <2>6, <2>7 DEF b, d, f
<1>9. Tallied'
  BY <1>1, <1>8 DEF Tallied
<1>10. ExportIsCurrent'
  BY <1>1, <1>2, <1>4, StaysCurrent DEF MetricTyped
<1> QED BY <1>4, <1>5, <1>9, <1>10 DEF MetricInv

\* An export begins with nothing read, and what is finished is its floor.
LEMMA BeginStep ==
  ASSUME MetricInv, Metric!GetMetrics
  PROVE  MetricInv'
<1>1. /\ DOMAIN exported' = {} /\ floor' = ended
      /\ UNCHANGED <<values_, mutex_, event, begun, ended>>
  BY DEF Metric!GetMetrics
<1>2. MetricTyped'
  BY <1>1 DEF MetricInv, MetricTyped
<1>3. Locked'
  BY <1>1 DEF MetricInv, Locked
<1>4. Tallied'
  <2>1. \A m \in Metrics, l \in Labels : floor'[<<m, l>>] <= ended[<<m, l>>]
    BY <1>1 DEF MetricInv, MetricTyped
  <2>2. \A m, l : Inside(m, l)' <=> Inside(m, l)
    BY <1>1 DEF Inside
  <2>3. \A c, l : Total(c, l)' = Total(c, l)
    BY <1>1 DEF Total
  <2> QED BY <1>1, <2>1, <2>2, <2>3 DEF MetricInv, Tallied
<1>5. ExportIsCurrent'
  BY <1>1 DEF ExportIsCurrent, Metric!ExportIsCurrent
<1> QED BY <1>2, <1>3, <1>4, <1>5 DEF MetricInv

\* The value of a counter lies between what is finished and what has begun.
LEMMA ReadStep ==
  ASSUME MetricInv, NEW c \in Metric!Counters, Metric!CurrentValues(c)
  PROVE  MetricInv'
<1>1. /\ exported' = [d \in DOMAIN exported \cup {c} |->
                        IF d = c THEN values_[c] ELSE exported[d]]
      /\ UNCHANGED <<values_, mutex_, event, exporting, begun, ended, floor>>
  BY DEF Metric!CurrentValues, Metric!counts
<1>2. MetricTyped /\ Locked /\ Tallied /\ ExportIsCurrent
  BY DEF MetricInv
<1>3. ASSUME NEW l \in Labels
      PROVE  /\ Total(c, l) \in Nat
             /\ floor[<<c[1], l>>] * Metric!Unit(c) <= Total(c, l)
             /\ Total(c, l) <= begun[<<c[1], l>>] * Metric!Unit(c)
  <2> DEFINE b == begun[<<c[1], l>>]
             d == ended[<<c[1], l>>]
             f == floor[<<c[1], l>>]
  <2>1. /\ c[1] \in Metrics /\ c \in {<<c[1], "sum">>, <<c[1], "count">>}
        /\ b \in Nat /\ d \in Nat /\ f \in Nat /\ Amount \in Nat
    BY <1>2 DEF MetricTyped, Metric!Counters
  <2>2. /\ Total(<<c[1], "sum">>, l) = b * Amount /\ Total(<<c[1], "count">>, l) = d
        /\ b = d + (IF Inside(c[1], l) THEN 1 ELSE 0) /\ f <= d
    BY <1>2, <2>1 DEF Tallied
  <2> HIDE DEF b, d, f
  <2>3. f <= b /\ d <= b
    BY <2>1, <2>2
  <2>4. f * Amount <= b * Amount /\ b * Amount \in Nat
    BY <2>1, <2>3, Scaled
  <2>5. CASE c = <<c[1], "sum">>
    <3>1. Metric!Unit(c) = Amount /\ Total(c, l) = b * Amount
      BY <2>2, <2>5 DEF Metric!Unit
    <3> QED BY <2>1, <2>4, <3>1 DEF b, f
  <2>6. CASE c = <<c[1], "count">>
    <3>1. Metric!Unit(c) = 1 /\ Total(c, l) = d
      BY <2>2, <2>6 DEF Metric!Unit
    <3> QED BY <2>1, <2>2, <2>3, <3>1 DEF b, f
  <2> QED BY <2>1, <2>5, <2>6
<1>4. MetricTyped'
  BY <1>1, <1>2, <1>3 DEF MetricTyped, Total
<1>5. Locked' /\ Tallied'
  BY <1>1, <1>2 DEF Locked, Tallied, Total, Inside
<1>6. ExportIsCurrent'
  BY <1>1, <1>2, <1>3 DEF ExportIsCurrent, Metric!ExportIsCurrent, Total, Metric!Unit
<1> QED BY <1>4, <1>5, <1>6 DEF MetricInv

LEMMA MetricStep == MetricInv /\ [MCNext]_everything => MetricInv'
<1> SUFFICES ASSUME MetricInv, [MCNext]_everything PROVE MetricInv'
  OBVIOUS
<1>1. [Metric!Next]_metering
  BY DEF MCNext, Only, Is, everything
<1>2. CASE \/ UNCHANGED metering \/ Metric!ExportDone
  <2>1. /\ UNCHANGED <<values_, mutex_, event, exported, begun, ended, floor>>
        /\ exporting' = exporting \/ exporting' = FALSE
    BY <1>2 DEF metering, Metric!ExportDone, Metric!counts
  <2>2. MetricTyped' /\ Locked' /\ Tallied'
    BY <2>1 DEF MetricInv, MetricTyped, Locked, Tallied, Total, Inside
  <2>3. ExportIsCurrent'
    BY <2>1 DEF MetricInv, ExportIsCurrent, Metric!ExportIsCurrent
  <2> QED BY <2>2, <2>3 DEF MetricInv
<1> QED BY <1>1, <1>2, RecordStep, CountStep, BeginStep, ReadStep DEF Metric!Next

(* Every value read in an export has all events that were finished when it *)
(* began and none that has not begun by now, for any number of recording   *)
(* threads, metrics, labels and events, though the sum and the count of a  *)
(* metric are read one by one (event_metric.h:60).                         *)
THEOREM ExportsCurrent == MCSpec => []ExportIsCurrent
<1>1. MetricInv => ExportIsCurrent
  BY DEF MetricInv
<1> QED BY <1>1, MetricStart, MetricStep, PTL DEF MCSpec, everything

-----------------------------------------------------------------------------
(* RefCounted, for any number of threads and handles.  RefInv is           *)
(* inductive; what it says of the count is carried from step to step by    *)
(* how a step changes the set of handles that are held.                    *)

\* RefCounted counts as this module does.
LEMMA SameCount ==
  ASSUME NEW S
  PROVE  Ref!Cardinality(S) = Cardinality(S) /\ (Ref!IsFiniteSet(S) <=> IsFiniteSet(S))
BY DEF Ref!Cardinality, Cardinality, Ref!IsFiniteSet, IsFiniteSet

LEMMA HandlesHold == IsFiniteSet(Handles) /\ NoHandle \notin Handles /\ Nobody \notin Threads
BY MCThreadsAssumption, SameCount DEF Ref!HandlesAssumption

LEMMA HeldFinite == IsFiniteSet(Ref!Held) /\ Cardinality(Ref!Held) \in Nat
<1>1. IsFiniteSet(Ref!Held)
  BY HandlesHold, FS_Subset DEF Ref!Held
<1> QED BY <1>1, FS_CardinalityType

(* A handle that comes to be held adds one. *)
LEMMA HeldGrows ==
  ASSUME NEW h \in Handles, holder[h] = Nobody, Ref!Held' = Ref!Held \cup {h}
  PROVE  Cardinality(Ref!Held') = Cardinality(Ref!Held) + 1
<1>1. h \notin Ref!Held
  BY DEF Ref!Held
<1> QED BY <1>1, HeldFinite, FS_AddElement

(* A handle that is given up takes one. *)
LEMMA HeldShrinks ==
  ASSUME NEW h \in Handles, holder[h] # Nobody, Ref!Held' = Ref!Held \ {h}
  PROVE  Cardinality(Ref!Held') = Cardinality(Ref!Held) - 1
<1>1. h \in Ref!Held
  BY DEF Ref!Held
<1> QED BY <1>1, HeldFinite, FS_RemoveElement

(* With one handle held, giving it up leaves none. *)
LEMMA LastHandle ==
  ASSUME NEW h \in Handles, holder[h] # Nobody, Cardinality(Ref!Held) = 1
  PROVE  Ref!Held = {h}
<1>1. h \in Ref!Held
  BY DEF Ref!Held
<1>2. \E x : Ref!Held = {x}
  BY HeldFinite, FS_Singleton
<1> QED BY <1>1, <1>2

-----------------------------------------------------------------------------

LEMMA InitInv == Ref!Init => Ref!RefInv
<1> SUFFICES ASSUME Ref!Init PROVE Ref!RefInv
  OBVIOUS
<1>1. PICK t \in Threads, h \in Handles :
        holder = [g \in Handles |-> IF g = h THEN t ELSE Nobody]
  BY DEF Ref!Init
<1>2. Ref!TypeOK
  BY <1>1 DEF Ref!Init, Ref!TypeOK
<1>3. Ref!Held = {h}
  BY <1>1, HandlesHold DEF Ref!Held
<1>4. Ref!CountIsHandles
  BY <1>3, FS_Singleton, SameCount DEF Ref!CountIsHandles, Ref!Init
<1>5. /\ \A u \in Threads : Ref!InRef(u) /\ Ref!InUnref(u)
      /\ Ref!DeletedByTheLast /\ Ref!NoUseAfterDelete
  BY DEF Ref!Init, Ref!InRef, Ref!InUnref, Ref!DeletedByTheLast, Ref!NoUseAfterDelete, Ref!Deleting
<1> QED BY <1>2, <1>4, <1>5 DEF Ref!RefInv

(* While a handle is held the object is there, nobody deletes it and the    *)
(* count is right.                                                          *)
LEMMA HeldCounts ==
  ASSUME Ref!RefInv, NEW h \in Handles, holder[h] # Nobody
  PROVE  /\ h \in Ref!Held /\ alive /\ \A t \in Threads : ~ Ref!Deleting(t)
         /\ ref_ = Cardinality(Ref!Held) /\ ref_ \in Nat \ {0}
<1>1. h \in Ref!Held
  BY DEF Ref!Held
<1>2. alive /\ \A t \in Threads : ~ Ref!Deleting(t)
  BY <1>1 DEF Ref!RefInv, Ref!NoUseAfterDelete, Ref!DeletedByTheLast
<1>3. ref_ = Cardinality(Ref!Held)
  BY <1>2, SameCount DEF Ref!RefInv, Ref!CountIsHandles
<1>4. Cardinality(Ref!Held) # 0
  BY <1>1, HeldFinite, FS_EmptySet
<1> QED BY <1>1, <1>2, <1>3, <1>4, HeldFinite

(* A step after which a handle is held, the count is right and nobody       *)
(* deletes keeps the invariant if it keeps what threads rely on.            *)
LEMMA StillHeld ==
  ASSUME Ref!TypeOK', \A t \in Threads : Ref!InRef(t)' /\ Ref!InUnref(t)',
         alive', \A t \in Threads : ~ Ref!Deleting(t)', ref_' = Cardinality(Ref!Held)'
  PROVE  Ref!RefInv'
BY SameCount DEF Ref!RefInv, Ref!CountIsHandles, Ref!DeletedByTheLast, Ref!NoUseAfterDelete

LEMMA MoveStep ==
  ASSUME Ref!RefInv, NEW t \in Threads, NEW u \in Threads,
         NEW g \in Handles, NEW h \in Handles, Ref!Move(t, u, g, h)
  PROVE  Ref!RefInv'
<1>1. /\ pc[t] = "idle" /\ holder[g] = t /\ t # Nobody /\ u # Nobody
      /\ holder[h] = Nobody /\ \A v \in Threads : arg[v] # h
      /\ holder' = [holder EXCEPT ![g] = Nobody, ![h] = u]
      /\ UNCHANGED <<ref_, alive, pc, arg>>
  BY HandlesHold DEF Ref!Move, Ref!Fresh
<1>2. /\ alive /\ \A v \in Threads : ~ Ref!Deleting(v)
      /\ ref_ = Cardinality(Ref!Held) /\ g \in Ref!Held
  BY <1>1, HeldCounts
<1>3. Ref!TypeOK'
  BY <1>1 DEF Ref!TypeOK, Ref!RefInv
<1>4. Ref!Held' = (Ref!Held \ {g}) \cup {h} /\ h \notin Ref!Held
  BY <1>1 DEF Ref!Held, Ref!TypeOK, Ref!RefInv
<1>5. Cardinality(Ref!Held)' = Cardinality(Ref!Held)
  <2>1. /\ IsFiniteSet(Ref!Held \ {g})
        /\ Cardinality(Ref!Held \ {g}) = Cardinality(Ref!Held) - 1
    BY <1>2, HeldFinite, FS_RemoveElement
  <2>2. Cardinality((Ref!Held \ {g}) \cup {h}) = Cardinality(Ref!Held \ {g}) + 1
    BY <1>4, <2>1, FS_AddElement
  <2> QED BY <1>4, <2>1, <2>2, HeldFinite
<1>6. ASSUME NEW v \in Threads
      PROVE  Ref!InRef(v)' /\ Ref!InUnref(v)'
  <2>1. CASE v = t
    BY <1>1, <2>1 DEF Ref!InRef, Ref!InUnref, Ref!RefInv
  <2>2. CASE v # t
    <3>1. Ref!InRef(v) /\ Ref!InUnref(v)
      BY DEF Ref!RefInv
    <3>2. \A f \in Handles : holder[f] = v => holder'[f] = v
      BY <1>1, <2>2, HandlesHold DEF Ref!TypeOK, Ref!RefInv
    <3>3. arg[v] \in Handles /\ holder[arg[v]] = Nobody => holder'[arg[v]] = Nobody
      BY <1>1 DEF Ref!TypeOK, Ref!RefInv
    <3> QED BY <1>1, <3>1, <3>2, <3>3 DEF Ref!InRef, Ref!InUnref
  <2> QED BY <2>1, <2>2
<1> QED BY <1>1, <1>2, <1>3, <1>5, <1>6, StillHeld DEF Ref!Deleting

LEMMA CallStep ==
  ASSUME Ref!RefInv, NEW t \in Threads, NEW h \in Handles, Ref!Copy(t, h) \/ Ref!Drop(t, h)
  PROVE  Ref!RefInv'
<1>1. /\ pc[t] = "idle"
      /\ \E g \in Handles : holder[g] = t
      /\ arg' = [arg EXCEPT ![t] = h]
      /\ UNCHANGED <<ref_, alive, holder>>
      /\ \/ /\ holder[h] = Nobody /\ \A v \in Threads : arg[v] # h
            /\ pc' = [pc EXCEPT ![t] = "add"]
         \/ holder[h] = t /\ pc' = [pc EXCEPT ![t] = "test"]
  BY DEF Ref!Copy, Ref!Drop, Ref!Fresh, Ref!Goto
<1>2. alive /\ (\A v \in Threads : ~ Ref!Deleting(v)) /\ ref_ = Cardinality(Ref!Held)
  BY <1>1, HeldCounts, HandlesHold
<1>3. Ref!TypeOK'
  BY <1>1 DEF Ref!TypeOK, Ref!RefInv
<1>4. ASSUME NEW v \in Threads
      PROVE  Ref!InRef(v)' /\ Ref!InUnref(v)'
  <2>1. CASE v = t
    BY <1>1, <2>1 DEF Ref!InRef, Ref!InUnref, Ref!RefInv, Ref!TypeOK
  <2>2. CASE v # t
    <3>1. Ref!InRef(v) /\ Ref!InUnref(v) /\ pc'[v] = pc[v] /\ arg'[v] = arg[v]
      BY <1>1, <2>2 DEF Ref!RefInv, Ref!TypeOK
    <3>2. pc[v] = "add" => arg[v] # h
      <4>1. CASE holder[h] = t
        BY <3>1, <4>1, HandlesHold DEF Ref!InRef
      <4>2. CASE \A w \in Threads : arg[w] # h
        BY <4>2
      <4> QED BY <1>1, <4>1, <4>2
    <3> QED BY <1>1, <3>1, <3>2 DEF Ref!InRef, Ref!InUnref, Ref!RefInv, Ref!TypeOK
  <2> QED BY <2>1, <2>2
<1>5. Ref!Held' = Ref!Held
  BY <1>1 DEF Ref!Held
<1>6. \A v \in Threads : ~ Ref!Deleting(v)'
  BY <1>1, <1>2 DEF Ref!Deleting, Ref!RefInv, Ref!TypeOK
<1> QED BY <1>1, <1>2, <1>3, <1>4, <1>5, <1>6, StillHeld

LEMMA AddStep ==
  ASSUME Ref!RefInv, NEW t \in Threads, Ref!Add(t)
  PROVE  Ref!RefInv'
<1> DEFINE h == arg[t]
<1>1. /\ pc[t] = "add" /\ h \in Handles /\ holder[h] = Nobody
      /\ \A u \in Threads \ {t} : arg[u] # h
      /\ \E g \in Handles : holder[g] = t
  BY DEF Ref!Add, Ref!RefInv, Ref!InRef
<1>2. /\ ref_' = ref_ + 1 /\ alive' = alive
      /\ holder' = [holder EXCEPT ![h] = t]
      /\ pc' = [pc EXCEPT ![t] = "idle"] /\ arg' = [arg EXCEPT ![t] = NoHandle]
  BY DEF Ref!Add, Ref!Goto
<1> HIDE DEF h
<1>3. alive /\ (\A v \in Threads : ~ Ref!Deleting(v)) /\ ref_ = Cardinality(Ref!Held)
  BY <1>1, HeldCounts, HandlesHold
<1>4. Ref!TypeOK'
  BY <1>1, <1>2 DEF Ref!TypeOK, Ref!RefInv
<1>5. Ref!Held' = Ref!Held \cup {h}
  BY <1>1, <1>2, HandlesHold DEF Ref!Held, Ref!TypeOK, Ref!RefInv
<1>6. ref_' = Cardinality(Ref!Held)'
  BY <1>1, <1>2, <1>3, <1>5, HeldGrows
<1>7. ASSUME NEW v \in Threads
      PROVE  Ref!InRef(v)' /\ Ref!InUnref(v)'
  <2>1. CASE v = t
    BY <1>2, <2>1 DEF Ref!InRef, Ref!InUnref, Ref!RefInv, Ref!TypeOK
  <2>2. CASE v # t
    <3>1. /\ Ref!InRef(v) /\ Ref!InUnref(v) /\ pc'[v] = pc[v] /\ arg'[v] = arg[v]
          /\ arg[v] # h
      BY <1>1, <1>2, <2>2 DEF Ref!RefInv, Ref!TypeOK
    <3>2. \A f \in Handles : f # h => holder'[f] = holder[f]
      BY <1>2 DEF Ref!RefInv, Ref!TypeOK
    <3>3. \A f \in Handles : holder[f] = v => holder'[f] = v
      BY <1>1, <3>2, HandlesHold
    <3>4. \A u \in Threads : arg[v] \in Handles /\ arg'[u] = arg[v] => arg[u] = arg[v]
      BY <1>2, HandlesHold DEF Ref!RefInv, Ref!TypeOK
    <3> QED BY <3>1, <3>2, <3>3, <3>4 DEF Ref!InRef, Ref!InUnref
  <2> QED BY <2>1, <2>2
<1>8. \A v \in Threads : ~ Ref!Deleting(v)'
  BY <1>2, <1>3 DEF Ref!Deleting, Ref!RefInv, Ref!TypeOK
<1> QED BY <1>2, <1>3, <1>4, <1>6, <1>7, <1>8, StillHeld

(* A thread that gives up the only handle finds every other thread idle.    *)
LEMMA OthersIdle ==
  ASSUME Ref!RefInv, NEW t \in Threads, NEW h \in Handles, holder[h] = t, ref_ = 1,
         NEW v \in Threads, v # t
  PROVE  Ref!Held = {h} /\ pc[v] = "idle"
<1>1. Ref!Held = {h} /\ ~ Ref!Deleting(v)
  BY HeldCounts, LastHandle, HandlesHold
<1>2. \A g \in Handles : holder[g] # v
  BY <1>1, HandlesHold DEF Ref!Held
<1>3. Ref!InRef(v) /\ Ref!InUnref(v) /\ pc[v] \in {"idle", "add", "test", "sub", "zero", "delete"}
  BY DEF Ref!RefInv, Ref!TypeOK
<1> QED BY <1>1, <1>2, <1>3 DEF Ref!InRef, Ref!InUnref, Ref!Deleting

(* Unref by the only owner: the object is about to be deleted. *)
LEMMA LastUnref ==
  ASSUME Ref!RefInv, NEW t \in Threads, NEW h \in Handles, holder[h] = t, ref_ = 1,
         ref_' \in Nat, alive' = alive, holder' = [holder EXCEPT ![h] = Nobody],
         pc' = [pc EXCEPT ![t] = "zero"], arg' = [arg EXCEPT ![t] = NoHandle]
  PROVE  Ref!RefInv'
<1>1. alive /\ t # Nobody /\ Ref!Held = {h}
  BY HeldCounts, LastHandle, HandlesHold
<1>2. Ref!TypeOK'
  BY DEF Ref!TypeOK, Ref!RefInv
<1>3. Ref!Held' = {}
  BY <1>1 DEF Ref!Held, Ref!TypeOK, Ref!RefInv
<1>4. pc'[t] = "zero" /\ arg'[t] = NoHandle
  BY DEF Ref!RefInv, Ref!TypeOK
<1>5. \A v \in Threads \ {t} : pc'[v] = "idle" /\ arg'[v] = NoHandle
  BY OthersIdle DEF Ref!RefInv, Ref!InUnref, Ref!TypeOK
<1>6. \A v \in Threads : Ref!InRef(v)' /\ Ref!InUnref(v)'
  BY <1>4, <1>5 DEF Ref!InRef, Ref!InUnref
<1>7. Ref!DeletedByTheLast' /\ Ref!CountIsHandles' /\ Ref!NoUseAfterDelete'
  BY <1>1, <1>3, <1>4, <1>5
     DEF Ref!DeletedByTheLast, Ref!CountIsHandles, Ref!NoUseAfterDelete, Ref!Deleting
<1> QED BY <1>2, <1>6, <1>7 DEF Ref!RefInv

LEMMA TestStep ==
  ASSUME Ref!RefInv, NEW t \in Threads, Ref!Test(t)
  PROVE  Ref!RefInv'
<1>1. pc[t] = "test" /\ arg[t] \in Handles /\ holder[arg[t]] = t
  BY DEF Ref!Test, Ref!RefInv, Ref!InUnref
<1>2. CASE ref_ = 1
  BY <1>1, <1>2, LastUnref DEF Ref!Test, Ref!Goto
<1>3. CASE ref_ # 1
  <2>1. /\ pc' = [pc EXCEPT ![t] = "sub"] /\ arg' = arg
        /\ UNCHANGED <<ref_, alive, holder>>
    BY <1>3 DEF Ref!Test, Ref!Goto, Ref!RefInv, Ref!TypeOK
  <2>2. alive /\ (\A v \in Threads : ~ Ref!Deleting(v)) /\ ref_ = Cardinality(Ref!Held)
    BY <1>1, HeldCounts, HandlesHold
  <2>3. Ref!TypeOK' /\ Ref!Held' = Ref!Held /\ \A v \in Threads : ~ Ref!Deleting(v)'
    BY <2>1, <2>2 DEF Ref!TypeOK, Ref!RefInv, Ref!Held, Ref!Deleting
  <2>4. \A v \in Threads : Ref!InRef(v)' /\ Ref!InUnref(v)'
    BY <1>1, <2>1 DEF Ref!InRef, Ref!InUnref, Ref!RefInv, Ref!TypeOK
  <2> QED BY <2>1, <2>2, <2>3, <2>4, StillHeld
<1> QED BY <1>2, <1>3

LEMMA SubStep ==
  ASSUME Ref!RefInv, NEW t \in Threads, Ref!Sub(t)
  PROVE  Ref!RefInv'
<1> DEFINE h == arg[t]
<1>1. pc[t] = "sub" /\ h \in Handles /\ holder[h] = t /\ t # Nobody
  BY HandlesHold DEF Ref!Sub, Ref!RefInv, Ref!InUnref
<1>2. /\ ref_' = ref_ - 1 /\ alive' = alive
      /\ holder' = [holder EXCEPT ![h] = Nobody]
      /\ pc' = [pc EXCEPT ![t] = IF ref_ = 1 THEN "zero" ELSE "idle"]
      /\ arg' = [arg EXCEPT ![t] = NoHandle]
  BY DEF Ref!Sub, Ref!Goto
<1> HIDE DEF h
<1>3. /\ h \in Ref!Held /\ alive /\ \A v \in Threads : ~ Ref!Deleting(v)
      /\ ref_ = Cardinality(Ref!Held) /\ ref_ \in Nat \ {0}
  BY <1>1, HeldCounts
<1>4. CASE ref_ = 1
  <2>1. /\ ref_' \in Nat /\ alive' = alive
        /\ holder' = [holder EXCEPT ![h] = Nobody]
        /\ pc' = [pc EXCEPT ![t] = "zero"]
        /\ arg' = [arg EXCEPT ![t] = NoHandle]
    BY <1>2, <1>4
  <2>2. h \in Handles /\ holder[h] = t
    BY <1>1
  <2> QED BY <1>4, <2>1, <2>2, LastUnref
<1>5. CASE ref_ # 1
  <2>1. pc' = [pc EXCEPT ![t] = "idle"] /\ ref_' \in Nat
    BY <1>2, <1>3, <1>5
  <2>2. Ref!TypeOK' /\ \A v \in Threads : ~ Ref!Deleting(v)'
    <3>1. Ref!TypeOK'
      BY <1>1, <1>2, <2>1 DEF Ref!TypeOK, Ref!RefInv
    <3> QED BY <1>3, <2>1, <3>1 DEF Ref!Deleting, Ref!TypeOK, Ref!RefInv
  <2>3. Ref!Held' = Ref!Held \ {h}
    BY <1>1, <1>2 DEF Ref!Held, Ref!TypeOK, Ref!RefInv
  <2>4. ref_' = Cardinality(Ref!Held)'
    BY <1>1, <1>2, <1>3, <2>3, HeldShrinks
  <2>5. ASSUME NEW v \in Threads
        PROVE  Ref!InRef(v)' /\ Ref!InUnref(v)'
    <3>1. CASE v = t
      BY <1>2, <2>1, <3>1 DEF Ref!InRef, Ref!InUnref, Ref!RefInv, Ref!TypeOK
    <3>2. CASE v # t
      <4>1. Ref!InRef(v) /\ Ref!InUnref(v) /\ pc'[v] = pc[v] /\ arg'[v] = arg[v]
        BY <1>2, <2>1, <3>2 DEF Ref!RefInv, Ref!TypeOK
      <4>2. /\ \A f \in Handles : holder[f] = v => holder'[f] = v
            /\ \A f \in Handles : holder[f] = Nobody => holder'[f] = Nobody
        BY <1>1, <1>2, <3>2 DEF Ref!RefInv, Ref!TypeOK
      <4>3. \A u \in Threads : arg[v] \in Handles /\ arg'[u] = arg[v] => arg[u] = arg[v]
        BY <1>2, HandlesHold DEF Ref!RefInv, Ref!TypeOK
      <4> QED BY <4>1, <4>2, <4>3 DEF Ref!InRef, Ref!InUnref
    <3> QED BY <3>1, <3>2
  <2> QED BY <1>2, <1>3, <2>2, <2>4, <2>5, StillHeld
<1> QED BY <1>4, <1>5

LEMMA DeleteStep ==
  ASSUME Ref!RefInv, NEW t \in Threads, Ref!Zero(t) \/ Ref!Delete(t)
  PROVE  Ref!RefInv'
<1>1. /\ Ref!Deleting(t) /\ alive /\ Ref!Held = {}
      /\ \A u \in Threads \ {t} : pc[u] = "idle" /\ arg[u] = NoHandle
  BY DEF Ref!Zero, Ref!Delete, Ref!Deleting, Ref!RefInv, Ref!DeletedByTheLast, Ref!InUnref
<1>2. Ref!TypeOK' /\ holder' = holder
  <2>1. CASE Ref!Zero(t)
    BY <2>1 DEF Ref!Zero, Ref!Goto, Ref!RefInv, Ref!TypeOK
  <2>2. CASE Ref!Delete(t)
    BY <2>2 DEF Ref!Delete, Ref!Goto, Ref!RefInv, Ref!TypeOK
  <2> QED BY <2>1, <2>2
<1>3. /\ arg'[t] = NoHandle
      /\ \A u \in Threads \ {t} : pc'[u] = "idle" /\ arg'[u] = NoHandle
  BY <1>1 DEF Ref!Zero, Ref!Delete, Ref!Goto, Ref!RefInv, Ref!TypeOK
<1>4. Ref!Held' = {}
  BY <1>1, <1>2 DEF Ref!Held
<1>5. CASE Ref!Zero(t)
  <2>1. pc'[t] = "delete" /\ alive'
    BY <1>1, <1>5 DEF Ref!Zero, Ref!Goto, Ref!RefInv, Ref!TypeOK
  <2> QED BY <1>2, <1>3, <1>4, <2>1
          DEF Ref!RefInv, Ref!InRef, Ref!InUnref, Ref!CountIsHandles, Ref!DeletedByTheLast,
              Ref!NoUseAfterDelete, Ref!Deleting
<1>6. CASE Ref!Delete(t)
  <2>1. pc'[t] = "idle" /\ ~ alive'
    BY <1>6 DEF Ref!Delete, Ref!Goto, Ref!RefInv, Ref!TypeOK
  <2> QED BY <1>2, <1>3, <1>4, <2>1
          DEF Ref!RefInv, Ref!InRef, Ref!InUnref, Ref!CountIsHandles, Ref!DeletedByTheLast,
              Ref!NoUseAfterDelete, Ref!Deleting
<1> QED BY <1>5, <1>6

LEMMA Inductive == Ref!RefInv /\ [Ref!Next]_(Ref!vars) => Ref!RefInv'
<1> SUFFICES ASSUME Ref!RefInv, [Ref!Next]_(Ref!vars) PROVE Ref!RefInv'
  OBVIOUS
<1>1. CASE UNCHANGED Ref!vars
  BY <1>1 DEF Ref!vars, Ref!RefInv, Ref!TypeOK, Ref!InRef, Ref!InUnref, Ref!CountIsHandles,
              Ref!DeletedByTheLast, Ref!NoUseAfterDelete, Ref!Deleting, Ref!Held
<1>2. CASE Ref!Next
  <2>1. PICK t \in Threads :
          \/ \E u \in Threads, g, h \in Handles : Ref!Move(t, u, g, h)
          \/ \E h \in Handles : Ref!Copy(t, h) \/ Ref!Drop(t, h)
          \/ Ref!Finish(t)
    BY <1>2 DEF Ref!Next
  <2>2. CASE \E u \in Threads, g, h \in Handles : Ref!Move(t, u, g, h)
    BY <2>2, MoveStep
  <2>3. CASE \E h \in Handles : Ref!Copy(t, h) \/ Ref!Drop(t, h)
    BY <2>3, CallStep
  <2>4. CASE Ref!Finish(t)
    BY <2>4, AddStep, TestStep, SubStep, DeleteStep DEF Ref!Finish
  <2> QED BY <2>1, <2>2, <2>3, <2>4
<1> QED BY <1>1, <1>2

LEMMA RefInvariant == MCSpec => []Ref!RefInv
<1>1. MCInit => Ref!Init
  BY DEF MCInit
<1>2. [MCNext]_everything => [Ref!Next]_(Ref!vars)
  BY DEF MCNext, Only, Is, everything, shared, Ref!vars
<1> QED BY <1>1, <1>2, InitInv, Inductive, PTL DEF MCSpec, everything

(* Every variable keeps its type; the count is never negative. *)
THEOREM Typing == MCSpec => []Ref!TypeOK
<1>1. Ref!RefInv => Ref!TypeOK
  BY DEF Ref!RefInv
<1> QED BY <1>1, RefInvariant, PTL

(* The count is the number of handles until the last owner gives up its own *)
(* (RefCountedBase::Ref, Unref and RefCountIsOne).                          *)
THEOREM CountRight == MCSpec => []Ref!CountIsHandles
<1>1. Ref!RefInv => Ref!CountIsHandles
  BY DEF Ref!RefInv
<1> QED BY <1>1, RefInvariant, PTL

(* One thread deletes the object, the last owner, and no handle refers to  *)
(* it afterwards.                                                          *)
THEOREM LastDeletes == MCSpec => []SafeDeletion
<1>1. Ref!RefInv => SafeDeletion
  BY DEF Ref!RefInv, SafeDeletion, Ref!SafeDeletion
<1> QED BY <1>1, RefInvariant, PTL

(* The checks of Ref and Unref never fail.                                  *)
THEOREM ChecksNeverFail == MCSpec => []ChecksHold
<1>1. Ref!RefInv => ChecksHold
  <2> SUFFICES ASSUME Ref!RefInv, NEW t \in Threads, pc[t] \in {"add", "test", "sub"}
               PROVE  ref_ >= 1
    BY DEF ChecksHold, Ref!ChecksHold
  <2>1. PICK h \in Handles : holder[h] = t
    BY DEF Ref!RefInv, Ref!InRef, Ref!InUnref
  <2>2. ref_ \in Nat \ {0}
    BY <2>1, HeldCounts, HandlesHold
  <2> QED BY <2>2
<1> QED BY <1>1, RefInvariant, PTL
=============================================================================
