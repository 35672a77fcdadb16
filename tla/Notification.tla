---------------------------- MODULE Notification ----------------------------
(***************************************************************************)
(* base::Notification (src/base/notification.h): one event that a thread   *)
(* announces and others wait for, poll, or wait for with a timeout.        *)
(*                                                                         *)
(* Every member function is one critical section of mu_, left in between   *)
(* only by the waits on cv_.  The notifier is given two steps: it still    *)
(* holds mu_ and uses cv_ after it has set notified_, and a waiter that    *)
(* has returned may destroy the object.                                    *)
(***************************************************************************)
EXTENDS Naturals

CONSTANTS
  Notifiers,    \* threads that call Notify once
  Waiters,      \* threads that call WaitForNotification
  Timed,        \* threads that call WaitForNotificationWithTimeout
  Pollers,      \* threads that call HasBeenNotified, again and again
  Nobody        \* mu_ is free

AllThreads == Notifiers \cup Waiters \cup Timed \cup Pollers

\* A thread does one of these, and none is called Nobody.
DisjointThreads ==
  /\ Nobody \notin AllThreads
  /\ Notifiers \cap (Waiters \cup Timed \cup Pollers) = {}
  /\ Waiters \cap (Timed \cup Pollers) = {}
  /\ Timed \cap Pollers = {}

VARIABLES
  mu_,          \* the thread that holds it
  notified_,
  pc,           \* "start", "wait" (on cv_), "woken", "unlock", "done", "assert"
  expired,      \* timed waiters whose deadline has passed
  answer        \* what a timed waiter or a poller was last told

vars == <<mu_, notified_, pc, expired, answer>>

Init ==
  /\ mu_ = Nobody
  /\ notified_ = FALSE
  /\ pc = [t \in AllThreads |-> "start"]
  /\ expired = {}
  /\ answer = [t \in Timed \cup Pollers |-> FALSE]

Wakened == [t \in AllThreads |-> IF pc[t] = "wait" THEN "woken" ELSE pc[t]]

\* Mutant: unlocks before it uses cv_.
NotifyUnlocked(t) ==
  /\ pc[t] = "start" /\ mu_ = Nobody /\ ~ notified_
  /\ pc' = [Wakened EXCEPT ![t] = "unlock"]
  /\ notified_' = TRUE
  /\ UNCHANGED <<mu_, expired, answer>>

\* Mutant: wakes one waiter.
NotifyOne(t) ==
  /\ pc[t] = "start" /\ mu_ = Nobody
  /\ ~ notified_
  /\ notified_' = TRUE /\ mu_' = t
  /\ \/ /\ \A u \in AllThreads : pc[u] # "wait"
        /\ pc' = [pc EXCEPT ![t] = "unlock"]
     \/ \E u \in AllThreads : /\ pc[u] = "wait"
                              /\ pc' = [pc EXCEPT ![t] = "unlock", ![u] = "woken"]
  /\ UNCHANGED <<expired, answer>>

\* Notify: sets notified_ and wakes every waiter.  A second call fails the
\* assertion and ends the program.
Notify(t) ==
  /\ pc[t] = "start" /\ mu_ = Nobody
  /\ mu_' = t
  /\ IF notified_ THEN /\ pc' = [pc EXCEPT ![t] = "assert"]
                       /\ UNCHANGED notified_
                  ELSE /\ pc' = [Wakened EXCEPT ![t] = "unlock"]
                       /\ notified_' = TRUE
  /\ UNCHANGED <<expired, answer>>

Unlock(t) ==
  /\ pc[t] = "unlock"
  /\ pc' = [pc EXCEPT ![t] = "done"]
  /\ mu_' = Nobody
  /\ UNCHANGED <<notified_, expired, answer>>

\* HasBeenNotified.
Poll(t) ==
  /\ mu_ = Nobody
  /\ answer' = [answer EXCEPT ![t] = notified_]
  /\ UNCHANGED <<mu_, notified_, pc, expired>>

\* Mutant: returns with mu_ held.
WaitKeepsLock(t) ==
  /\ pc[t] \in {"start", "woken"} /\ mu_ = Nobody
  /\ pc' = [pc EXCEPT ![t] = IF notified_ THEN "done" ELSE "wait"]
  /\ mu_' = t
  /\ UNCHANGED <<notified_, expired, answer>>

\* The loop of WaitForNotification: from the lock, or the return of wait, to
\* the next wait.
WaitForNotification(t) ==
  /\ pc[t] \in {"start", "woken"} /\ mu_ = Nobody
  /\ pc' = [pc EXCEPT ![t] = IF notified_ THEN "done" ELSE "wait"]
  /\ UNCHANGED <<mu_, notified_, expired, answer>>

\* Mutant: a wait that timed out is answered with FALSE.
TimedOutIsFalse(t) ==
  /\ pc[t] \in {"start", "woken"} /\ mu_ = Nobody
  /\ IF notified_ \/ t \in expired
     THEN /\ pc' = [pc EXCEPT ![t] = "done"]
          /\ answer' = [answer EXCEPT ![t] = t \notin expired]
     ELSE /\ pc' = [pc EXCEPT ![t] = "wait"]
          /\ UNCHANGED answer
  /\ UNCHANGED <<mu_, notified_, expired>>

\* The loop of cv_.wait_for with a predicate: the predicate is tested once
\* more after the deadline, under mu_, and is the answer.
WaitWithTimeout(t) ==
  /\ pc[t] \in {"start", "woken"} /\ mu_ = Nobody
  /\ IF notified_ \/ t \in expired
     THEN /\ pc' = [pc EXCEPT ![t] = "done"]
          /\ answer' = [answer EXCEPT ![t] = notified_]
     ELSE /\ pc' = [pc EXCEPT ![t] = "wait"]
          /\ UNCHANGED answer
  /\ UNCHANGED <<mu_, notified_, expired>>

\* The deadline of a wait passes; it has to get mu_ back before it returns.
Timeout(t) ==
  /\ pc[t] \in {"start", "wait", "woken"} /\ t \notin expired
  /\ expired' = expired \cup {t}
  /\ pc' = [pc EXCEPT ![t] = IF @ = "wait" THEN "woken" ELSE @]
  /\ UNCHANGED <<mu_, notified_, answer>>

\* wait may return without a notification.
Spurious(t) ==
  /\ pc[t] = "wait"
  /\ pc' = [pc EXCEPT ![t] = "woken"]
  /\ UNCHANGED <<mu_, notified_, expired, answer>>

Aborted == \E t \in Notifiers : pc[t] = "assert"

Work(t) ==
  \/ t \in Notifiers /\ (Notify(t) \/ Unlock(t))
  \/ t \in Waiters /\ WaitForNotification(t)
  \/ t \in Timed /\ WaitWithTimeout(t)

Next ==
  /\ ~ Aborted
  /\ \E t \in AllThreads : \/ Work(t)
                           \/ t \in Pollers /\ Poll(t)
                           \/ t \in Timed /\ Timeout(t)
                           \/ t \in Waiters \cup Timed /\ Spurious(t)

\* Threads run and deadlines pass; nothing makes a wait return spuriously.  mu_
\* is held between two steps by a notifier alone, and by each of them once.
Spec ==
  /\ Init /\ [][Next]_vars
  /\ \A t \in AllThreads : WF_vars(Next /\ Work(t))
  /\ \A t \in Timed : WF_vars(Next /\ Timeout(t))

-----------------------------------------------------------------------------
(* Properties.                                                             *)

TypeOK ==
  /\ mu_ \in Notifiers \cup {Nobody}
  /\ notified_ \in BOOLEAN
  /\ pc \in [AllThreads -> {"start", "wait", "woken", "unlock", "done", "assert"}]
  /\ expired \subseteq Timed
  /\ answer \in [Timed \cup Pollers -> BOOLEAN]

\* A thread that learnt of the event, by a wait or by polling, may destroy the
\* object: by then the notifier has no use for cv_ any more.
SafeToDestroy ==
  /\ \A t \in Timed \cup Pollers : answer[t] => \A u \in Notifiers : pc[u] # "unlock"
  /\ \A t \in Waiters : pc[t] = "done" => \A u \in Notifiers : pc[u] # "unlock"

\* Nobody is told of an event that has not happened, a poller that was told
\* of it is told of it ever after, and a wait answers FALSE only when the
\* event has not happened by then, however late the deadline was noticed.
TruthfulAnswers ==
  [][\A t \in Timed \cup Pollers :
       /\ answer'[t] => notified_'
       /\ answer[t] => answer'[t]
       /\ t \in Timed /\ pc[t] # "done" /\ pc'[t] = "done" => answer'[t] = notified_]_vars

\* Once the event is announced every thread waiting for it returns, and with a
\* timeout every wait returns anyhow: no wakeup is lost.  Stated for a single
\* notifier; a second one aborts the program.
AllReturn ==
  /\ notified_ ~> \A t \in Waiters : pc[t] = "done"
  /\ <>(\A t \in Timed : pc[t] = "done")

=============================================================================
