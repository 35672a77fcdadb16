---------------------------- MODULE TaskExecutor ----------------------------
(***************************************************************************)
(* What ThreadPoolInterface promises its callers, with no threads in it:   *)
(* a submitted closure is started once and only once, and the executor is  *)
(* closed (its destructor returns) only when every closure that was        *)
(* submitted before it began to close has returned.  A closure submitted   *)
(* later, by one that is running, may be lost.  ThreadPool implements this *)
(* specification.                                                          *)
(***************************************************************************)
EXTENDS Naturals

CONSTANT Tasks   \* closures passed to Schedule, each an object of its own

VARIABLES
  scheduled,     \* closures given to the executor so far
  late,          \* those given to it when it had begun to close
  runs,          \* how many times each closure has been started
  finished,      \* closures that have returned
  closing,       \* the destructor has begun to stop the threads
  closed         \* the destructor has returned

vars == <<scheduled, late, runs, finished, closing, closed>>

Init ==
  /\ scheduled = {} /\ late = {}
  /\ runs = [t \in Tasks |-> 0]
  /\ finished = {}
  /\ closing = FALSE /\ closed = FALSE

Submit(t) ==
  /\ ~closed
  /\ t \notin scheduled
  /\ scheduled' = scheduled \cup {t}
  /\ late' = IF closing THEN late \cup {t} ELSE late
  /\ UNCHANGED <<runs, finished, closing, closed>>

Start(t) ==
  /\ t \in scheduled
  /\ runs[t] = 0
  /\ runs' = [runs EXCEPT ![t] = 1]
  /\ UNCHANGED <<scheduled, late, finished, closing, closed>>

Finish(t) ==
  /\ runs[t] = 1
  /\ t \notin finished
  /\ finished' = finished \cup {t}
  /\ UNCHANGED <<scheduled, late, runs, closing, closed>>

BeginClose ==
  /\ ~closing
  /\ closing' = TRUE
  /\ UNCHANGED <<scheduled, late, runs, finished, closed>>

Close ==
  /\ closing /\ ~closed
  /\ scheduled \ finished \subseteq late
  /\ closed' = TRUE
  /\ UNCHANGED <<scheduled, late, runs, finished, closing>>

Next ==
  \/ \E t \in Tasks : Submit(t) \/ Start(t) \/ Finish(t)
  \/ BeginClose \/ Close

Safety == Init /\ [][Next]_vars

Spec ==
  /\ Safety
  /\ \A t \in Tasks : WF_vars(t \notin late /\ Start(t)) /\ WF_vars(Finish(t))

=============================================================================
