--------------------------- MODULE ThreadPoolProofs --------------------------
(***************************************************************************)
(* Theorems about ThreadPool, for any number of workers and closures.      *)
(* PoolInv is inductive; the safety properties and the refinement of       *)
(* TaskExecutor follow from it.                                            *)
(***************************************************************************)
EXTENDS ThreadPool, SequenceTheorems, TLAPS

-----------------------------------------------------------------------------
(* The queue and the stack as sets of their members.                       *)

LEMMA MembersFacts ==
  ASSUME NEW S, NEW s \in Seq(S)
  PROVE  /\ Members(s) \subseteq S
         /\ s = <<>> <=> Members(s) = {}
         /\ s # <<>> => /\ Head(s) \in Members(s)
                        /\ s[Len(s)] \in Members(s)
<1>1. Members(s) \subseteq S
  BY DEF Members
<1>2. s = <<>> => Members(s) = {}
  BY DEF Members
<1>3. ASSUME s # <<>>
      PROVE  Head(s) \in Members(s) /\ s[Len(s)] \in Members(s)
  <2>1. Len(s) \in Nat \ {0} /\ Head(s) = s[1]
    BY <1>3
  <2> QED BY <2>1 DEF Members
<1> QED BY <1>1, <1>2, <1>3

(* push_back of a new element adds it and keeps the elements distinct. *)
LEMMA PushMembers ==
  ASSUME NEW S, NEW s \in Seq(S), NEW e \in S, Distinct(s), e \notin Members(s)
  PROVE  /\ Append(s, e) \in Seq(S)
         /\ Append(s, e) # <<>>
         /\ Members(Append(s, e)) = Members(s) \cup {e}
         /\ Distinct(Append(s, e))
<1>1. /\ Append(s, e) \in Seq(S)
      /\ Append(s, e) # <<>>
      /\ Len(Append(s, e)) = Len(s) + 1
      /\ \A i \in 1..Len(s) : Append(s, e)[i] = s[i]
      /\ Append(s, e)[Len(s) + 1] = e
  BY AppendProperties
<1>2. Len(s) \in Nat
  OBVIOUS
<1>3. 1 .. Len(s) + 1 = (1 .. Len(s)) \cup {Len(s) + 1}
  BY <1>2
<1>4. Members(Append(s, e)) = Members(s) \cup {e}
  BY <1>1, <1>3 DEF Members
<1>5. Distinct(Append(s, e))
  BY <1>1, <1>2, <1>3 DEF Members, Distinct
<1> QED BY <1>1, <1>4, <1>5

(* pop_front removes the first element and no other. *)
LEMMA TailMembers ==
  ASSUME NEW S, NEW s \in Seq(S), s # <<>>, Distinct(s)
  PROVE  /\ Tail(s) \in Seq(S)
         /\ Members(Tail(s)) = Members(s) \ {Head(s)}
         /\ Distinct(Tail(s))
<1>1. /\ Tail(s) \in Seq(S)
      /\ Len(Tail(s)) = Len(s) - 1
      /\ \A i \in 1 .. Len(Tail(s)) : Tail(s)[i] = s[i + 1]
  BY HeadTailProperties
<1>2. Len(s) \in Nat \ {0} /\ Head(s) = s[1]
  OBVIOUS
<1>3. ASSUME NEW x \in Members(s), x # Head(s)
      PROVE  x \in Members(Tail(s))
  <2>1. PICK i \in 1..Len(s) : s[i] = x
    BY <1>3 DEF Members
  <2>2. i # 1 /\ i - 1 \in 1 .. Len(Tail(s)) /\ Tail(s)[i - 1] = x
    BY <2>1, <1>1, <1>2, <1>3
  <2> QED BY <2>2 DEF Members
<1>4. ASSUME NEW x \in Members(Tail(s))
      PROVE  x \in Members(s) \ {Head(s)}
  <2>1. PICK i \in 1 .. Len(Tail(s)) : Tail(s)[i] = x
    BY <1>4 DEF Members
  <2>2. i + 1 \in 1..Len(s) /\ s[i + 1] = x
    BY <2>1, <1>1, <1>2
  <2>3. s[i + 1] # s[1]
    BY <2>1, <2>2, <1>1, <1>2 DEF Distinct
  <2> QED BY <2>2, <2>3, <1>2 DEF Members
<1>5. Distinct(Tail(s))
  <2> SUFFICES ASSUME NEW i \in 1 .. Len(Tail(s)), NEW j \in 1 .. Len(Tail(s)),
                      Tail(s)[i] = Tail(s)[j]
               PROVE  i = j
    BY DEF Distinct
  <2>1. i + 1 \in 1..Len(s) /\ j + 1 \in 1..Len(s) /\ s[i + 1] = s[j + 1]
    BY <1>1, <1>2
  <2> QED BY <2>1, <1>1, <1>2 DEF Distinct
<1> QED BY <1>1, <1>3, <1>4, <1>5

(* pop_back removes the last element and no other. *)
LEMMA FrontMembers ==
  ASSUME NEW S, NEW s \in Seq(S), s # <<>>, Distinct(s),
         NEW f, f = SubSeq(s, 1, Len(s) - 1)
  PROVE  /\ f \in Seq(S)
         /\ Members(f) = Members(s) \ {s[Len(s)]}
         /\ Distinct(f)
<1>1. Len(s) \in Nat \ {0}
  OBVIOUS
<1>2. /\ f \in Seq(S)
      /\ Len(f) = Len(s) - 1
      /\ \A i \in 1 .. Len(s) - 1 : f[i] = s[i]
  <2>1. 1 \in Int /\ Len(s) - 1 \in Int
    BY <1>1
  <2>2. \A i \in 1 .. Len(s) - 1 : s[i] \in S
    BY <1>1
  <2> DEFINE k == Len(s) - 1
  <2>3. k \in Nat
    BY <1>1
  <2>4. \A i \in 1 .. k : s[i] \in S
    BY <2>2
  <2>5. f = SubSeq(s, 1, k)
    OBVIOUS
  <2> HIDE DEF k
  <2>6. /\ SubSeq(s, 1, k) \in Seq(S)
        /\ Len(SubSeq(s, 1, k)) = IF 1 <= k THEN k - 1 + 1 ELSE 0
        /\ \A i \in 1 .. k - 1 + 1 : SubSeq(s, 1, k)[i] = s[1 + i - 1]
    BY <2>3, <2>4, SubSeqProperties
  <2>7. Len(f) = k
    BY <2>3, <2>5, <2>6
  <2>8. ASSUME NEW i \in 1 .. k
        PROVE  f[i] = s[i]
    <3>1. i \in 1 .. k - 1 + 1 /\ 1 + i - 1 = i
      BY <2>3
    <3> QED BY <3>1, <2>5, <2>6
  <2> QED BY <2>5, <2>6, <2>7, <2>8 DEF k
<1>3. Members(f) = Members(s) \ {s[Len(s)]}
  <2>1. ASSUME NEW x \in Members(s), x # s[Len(s)]
        PROVE  x \in Members(f)
    <3>1. PICK i \in 1..Len(s) : s[i] = x
      BY <2>1 DEF Members
    <3>2. i \in 1 .. Len(s) - 1 /\ f[i] = x
      BY <3>1, <2>1, <1>1, <1>2
    <3> QED BY <3>2, <1>2 DEF Members
  <2>2. ASSUME NEW x \in Members(f)
        PROVE  x \in Members(s) \ {s[Len(s)]}
    <3>1. PICK i \in 1 .. Len(s) - 1 : f[i] = x
      BY <2>2, <1>2 DEF Members
    <3>2. i \in 1..Len(s) /\ s[i] = x /\ i # Len(s)
      BY <3>1, <1>1, <1>2
    <3>3. x # s[Len(s)]
      BY <3>2, <1>1 DEF Distinct
    <3> QED BY <3>2, <3>3 DEF Members
  <2> QED BY <2>1, <2>2
<1>4. Distinct(f)
  BY <1>1, <1>2 DEF Distinct
<1> QED BY <1>2, <1>3, <1>4

-----------------------------------------------------------------------------
(* What an unchanged queue or stack, and one that is pushed or popped,     *)
(* means for the sets Idle and Queued and for the sequence invariants.     *)

SeqsOK == /\ waiters_ \in Seq(Workers)
          /\ pending_ \in Seq(Tasks)
          /\ Distinct(waiters_)
          /\ Distinct(pending_)

LEMMA SeqsFacts ==
  ASSUME SeqsOK
  PROVE  /\ Idle \subseteq Workers
         /\ Queued \subseteq Tasks
         /\ waiters_ = <<>> <=> Idle = {}
         /\ pending_ = <<>> <=> Queued = {}
  BY MembersFacts DEF SeqsOK, Idle, Queued

LEMMA SameWaiters ==
  ASSUME UNCHANGED waiters_
  PROVE  Idle' = Idle
  BY DEF Idle, Members

LEMMA SamePending ==
  ASSUME UNCHANGED pending_
  PROVE  Queued' = Queued
  BY DEF Queued, Members

LEMMA PushPending ==
  ASSUME SeqsOK, NEW t \in Tasks, t \notin Queued,
         pending_' = Append(pending_, t), UNCHANGED waiters_
  PROVE  SeqsOK' /\ Queued' = Queued \cup {t} /\ Idle' = Idle
<1>1. /\ pending_' \in Seq(Tasks)
      /\ Members(pending_') = Queued \cup {t}
      /\ Distinct(pending_')
  BY PushMembers DEF SeqsOK, Queued
<1> QED BY <1>1, SameWaiters DEF SeqsOK, Queued, Distinct

LEMMA PopPending ==
  ASSUME SeqsOK, pending_ # <<>>,
         pending_' = Tail(pending_), UNCHANGED waiters_
  PROVE  /\ SeqsOK'
         /\ Head(pending_) \in Queued
         /\ Queued' = Queued \ {Head(pending_)}
         /\ Idle' = Idle
<1>1. /\ pending_' \in Seq(Tasks)
      /\ Members(pending_') = Queued \ {Head(pending_)}
      /\ Distinct(pending_')
  BY TailMembers DEF SeqsOK, Queued
<1>2. Head(pending_) \in Queued
  BY MembersFacts DEF SeqsOK, Queued
<1> QED BY <1>1, <1>2, SameWaiters DEF SeqsOK, Queued, Distinct

LEMMA PushWaiter ==
  ASSUME SeqsOK, NEW w \in Workers, w \notin Idle,
         waiters_' = Append(waiters_, w), UNCHANGED pending_
  PROVE  SeqsOK' /\ Idle' = Idle \cup {w} /\ Queued' = Queued
<1>1. /\ waiters_' \in Seq(Workers)
      /\ Members(waiters_') = Idle \cup {w}
      /\ Distinct(waiters_')
  BY PushMembers DEF SeqsOK, Idle
<1> QED BY <1>1, SamePending DEF SeqsOK, Idle, Distinct

LEMMA PopWaiter ==
  ASSUME SeqsOK, waiters_ # <<>>,
         waiters_' = SubSeq(waiters_, 1, Len(waiters_) - 1), UNCHANGED pending_
  PROVE  /\ SeqsOK'
         /\ waiters_[Len(waiters_)] \in Idle
         /\ Idle' = Idle \ {waiters_[Len(waiters_)]}
         /\ Queued' = Queued
<1>1. /\ waiters_' \in Seq(Workers)
      /\ Members(waiters_') = Idle \ {waiters_[Len(waiters_)]}
      /\ Distinct(waiters_')
  BY FrontMembers DEF SeqsOK, Idle
<1>2. waiters_[Len(waiters_)] \in Idle
  BY MembersFacts DEF SeqsOK, Idle
<1> QED BY <1>1, <1>2, SamePending DEF SeqsOK, Idle, Distinct

LEMMA SameSeqs ==
  ASSUME SeqsOK, UNCHANGED <<waiters_, pending_>>
  PROVE  SeqsOK' /\ Idle' = Idle /\ Queued' = Queued
  BY SameWaiters, SamePending DEF SeqsOK, Distinct

-----------------------------------------------------------------------------
(* PoolInv is inductive: one lemma for each action.                        *)

LEMMA InvSeqs ==
  ASSUME PoolInv
  PROVE  SeqsOK
  BY DEF PoolInv, TypeOK, PoolTypes, WaitersOK, PlacesOK, SeqsOK

LEMMA InitInv == Init => PoolInv
<1> SUFFICES ASSUME Init PROVE PoolInv
  OBVIOUS
<1> USE DEF Init
<1>1. Idle = {} /\ Queued = {} /\ Distinct(waiters_) /\ Distinct(pending_)
  BY DEF Idle, Queued, Members, Distinct
<1>2. TypeOK
  <2>1. WorkerTypes
    BY DEF WorkerTypes
  <2>2. PoolTypes
    BY DEF PoolTypes
  <2>3. FlagTypes
    BY DEF FlagTypes
  <2>4. HistoryTypes
    BY DEF HistoryTypes
  <2> QED BY <2>1, <2>2, <2>3, <2>4 DEF TypeOK
<1>3. WaitersOK
  BY <1>1 DEF WaitersOK, WorkerOK
<1>4. PlacesOK
  BY <1>1 DEF PlacesOK
<1>5. HistoryOK
  BY DEF HistoryOK
<1>6. NothingLost
  BY DEF NothingLost
<1>7. DtorOK
  BY <1>1 DEF DtorOK
<1> QED BY <1>2, <1>3, <1>4, <1>5, <1>6, <1>7 DEF PoolInv

(* Schedule with no idle worker. *)
LEMMA QueueInv ==
  ASSUME PoolInv, NEW t \in Tasks, Schedule(t), QueueTask(t)
  PROVE  PoolInv'
<1>1. t \notin scheduled /\ t \notin Queued
  BY DEF Schedule, PoolInv, PlacesOK
<1>2. SeqsOK' /\ Queued' = Queued \cup {t} /\ Idle' = Idle /\ Idle = {}
  BY <1>1, PushPending, InvSeqs, SeqsFacts DEF QueueTask
<1>3. UNCHANGED <<wpc, current, exiting_, emptied, dtor, runs, finished,
                  waiters_, ready, slot, signalled, dangling>>
  BY DEF Schedule, QueueTask
<1>4. /\ scheduled' = scheduled \cup {t}
      /\ late' = IF exiting_ THEN late \cup {t} ELSE late
  BY DEF Schedule
<1>5. TypeOK'
  <2>1. WorkerTypes'
    BY <1>3 DEF PoolInv, TypeOK, WorkerTypes
  <2>2. PoolTypes'
    BY <1>2, <1>3 DEF PoolInv, TypeOK, PoolTypes, SeqsOK
  <2>3. FlagTypes'
    BY <1>3 DEF PoolInv, TypeOK, FlagTypes
  <2>4. HistoryTypes'
    BY <1>3, <1>4 DEF PoolInv, TypeOK, HistoryTypes
  <2> QED BY <2>1, <2>2, <2>3, <2>4 DEF TypeOK
<1>6. WaitersOK'
  BY <1>2, <1>3, QueueTask(t) DEF PoolInv, WaitersOK, WorkerOK, SeqsOK, QueueTask
<1>7. PlacesOK'
  <2>1. runs[t] = 0
    BY <1>1 DEF PoolInv, HistoryOK
  <2>2. \A w \in Workers : slot[w] # NoTask => slot[w] # t
    BY <1>1 DEF PoolInv, PlacesOK
  <2> QED BY <1>1, <1>2, <1>3, <1>4, <2>1, <2>2 DEF PoolInv, PlacesOK, SeqsOK
<1>8. HistoryOK'
  BY <1>3, <1>4 DEF PoolInv, HistoryOK
<1>9. NothingLost'
  BY <1>2, <1>3, <1>4 DEF PoolInv, NothingLost
<1>10. DtorOK'
  BY <1>2, <1>3, <1>4 DEF PoolInv, DtorOK
<1> QED BY <1>5, <1>6, <1>7, <1>8, <1>9, <1>10 DEF PoolInv

(* Schedule with an idle worker. *)
LEMMA HandInv ==
  ASSUME PoolInv, NEW t \in Tasks, Schedule(t), HandTask(t)
  PROVE  PoolInv'
<1> DEFINE w == waiters_[Len(waiters_)]
<1>1. t \notin scheduled /\ t \notin Queued /\ t # NoTask
  BY PoolAssumption DEF Schedule, PoolInv, PlacesOK
<1>2. /\ SeqsOK'
      /\ w \in Idle /\ w \in Workers
      /\ Idle' = Idle \ {w}
      /\ Queued' = Queued
      /\ pending_ = <<>>
  BY PopWaiter, InvSeqs, SeqsFacts DEF HandTask, PoolInv, WaitersOK
<1>3. UNCHANGED <<wpc, current, exiting_, emptied, dtor, runs, finished,
                  pending_>>
  BY DEF Schedule, HandTask
<1>4. /\ scheduled' = scheduled \cup {t}
      /\ late' = IF exiting_ THEN late \cup {t} ELSE late
  BY DEF Schedule
<1>5. IF wpc[w] = "exited"
      THEN dangling' = TRUE /\ UNCHANGED <<ready, slot, signalled>>
      ELSE /\ ready' = [ready EXCEPT ![w] = TRUE]
           /\ slot' = [slot EXCEPT ![w] = t]
           /\ signalled' = signalled \cup {w}
           /\ UNCHANGED dangling
  BY DEF HandTask
<1>6. /\ slot[w] = NoTask
      /\ wpc[w] = "exited" => exiting_
      /\ wpc[w] # "exited" => wpc[w] = "waiting"
  BY <1>2 DEF PoolInv, WaitersOK, WorkerOK
<1> HIDE DEF w
<1>7. TypeOK'
  <2>1. WorkerTypes'
    BY <1>2, <1>3, <1>5 DEF PoolInv, TypeOK, WorkerTypes
  <2>2. PoolTypes'
    BY <1>2, <1>3 DEF PoolInv, TypeOK, PoolTypes, SeqsOK
  <2>3. FlagTypes'
    BY <1>2, <1>3, <1>5 DEF PoolInv, TypeOK, FlagTypes
  <2>4. HistoryTypes'
    BY <1>3, <1>4 DEF PoolInv, TypeOK, HistoryTypes
  <2> QED BY <2>1, <2>2, <2>3, <2>4 DEF TypeOK
<1>8. WaitersOK'
  <2>1. ASSUME NEW v \in Workers
        PROVE  WorkerOK(v)'
    BY <1>1, <1>2, <1>3, <1>5, <1>6
       DEF PoolInv, WaitersOK, WorkerOK, TypeOK, WorkerTypes, FlagTypes
  <2> QED BY <1>2, <1>3, <2>1 DEF WaitersOK, SeqsOK
<1>9. PlacesOK'
  <2>1. runs[t] = 0
    BY <1>1 DEF PoolInv, HistoryOK
  <2>2. \A v \in Workers : slot[v] # NoTask => slot[v] # t
    BY <1>1 DEF PoolInv, PlacesOK
  <2>3. \A v \in Workers : slot'[v] = slot[v] \/ (v = w /\ slot'[v] = t)
    <3>1. slot' = slot \/ slot' = [slot EXCEPT ![w] = t]
      BY <1>5
    <3> QED BY <1>2, <3>1 DEF PoolInv, TypeOK, WorkerTypes
  <2> QED BY <1>1, <1>2, <1>3, <1>4, <2>1, <2>2, <2>3
          DEF PoolInv, PlacesOK, SeqsOK
<1>10. HistoryOK'
  BY <1>3, <1>4 DEF PoolInv, HistoryOK
<1>11. NothingLost'
  <2>1. \A v \in Workers : slot[v] # NoTask => slot'[v] = slot[v]
    BY <1>2, <1>5, <1>6 DEF PoolInv, TypeOK, WorkerTypes
  <2>2. ~exiting_ => slot'[w] = t
    BY <1>2, <1>5, <1>6 DEF PoolInv, TypeOK, WorkerTypes
  <2>3. scheduled \subseteq Tasks
    BY DEF PoolInv, TypeOK, HistoryTypes
  <2> QED BY <1>1, <1>2, <1>3, <1>4, <2>1, <2>2, <2>3, PoolAssumption
          DEF PoolInv, NothingLost
<1>12. DtorOK'
  BY <1>2, <1>3, <1>4, <1>5, <1>6 DEF PoolInv, DtorOK
<1> QED BY <1>7, <1>8, <1>9, <1>10, <1>11, <1>12 DEF PoolInv

(* The test of exiting_ finds it set: the thread ends. *)
LEMMA ExitInv ==
  ASSUME PoolInv, NEW w \in Workers, ExitLoop(w),
         wpc[w] \in {"entering", "waiting"}, slot[w] = NoTask,
         slot' = slot, signalled' \in SUBSET Workers,
         UNCHANGED <<exiting_, dtor, scheduled, finished, late, dangling>>
  PROVE  PoolInv'
<1>1. /\ exiting_
      /\ wpc' = [wpc EXCEPT ![w] = "exited"]
      /\ UNCHANGED <<current, waiters_, ready, pending_, emptied, runs>>
  BY DEF ExitLoop
<1>2. SeqsOK' /\ Idle' = Idle /\ Queued' = Queued
  BY <1>1, InvSeqs, SameSeqs
<1>3. TypeOK'
  <2>1. WorkerTypes'
    BY <1>1 DEF PoolInv, TypeOK, WorkerTypes
  <2>2. PoolTypes'
    BY <1>1 DEF PoolInv, TypeOK, PoolTypes
  <2>3. FlagTypes'
    BY <1>1 DEF PoolInv, TypeOK, FlagTypes
  <2>4. HistoryTypes'
    BY <1>1 DEF PoolInv, TypeOK, HistoryTypes
  <2> QED BY <2>1, <2>2, <2>3, <2>4 DEF TypeOK
<1>4. WaitersOK'
  <2>1. ASSUME NEW v \in Workers
        PROVE  WorkerOK(v)'
    BY <1>1, <1>2 DEF PoolInv, WaitersOK, WorkerOK, TypeOK, WorkerTypes
  <2> QED BY <1>1, <1>2, <2>1 DEF PoolInv, WaitersOK, SeqsOK
<1>5. PlacesOK'
  BY <1>1, <1>2 DEF PoolInv, PlacesOK, SeqsOK
<1>6. HistoryOK'
  BY <1>1 DEF PoolInv, HistoryOK
<1>7. NothingLost'
  BY <1>1, <1>2 DEF PoolInv, NothingLost
<1>8. DtorOK'
  BY <1>1, <1>2 DEF PoolInv, DtorOK, TypeOK, WorkerTypes
<1> QED BY <1>3, <1>4, <1>5, <1>6, <1>7, <1>8 DEF PoolInv

(* The queue is empty: the worker goes to wait. *)
LEMMA IdleInv ==
  ASSUME PoolInv, NEW w \in Workers, GoIdle(w),
         wpc[w] = "entering", slot[w] = NoTask,
         slot' = slot, signalled' \in SUBSET Workers,
         UNCHANGED <<exiting_, dtor, scheduled, finished, late, dangling>>
  PROVE  PoolInv'
<1>1. /\ ~exiting_
      /\ pending_ = <<>>
      /\ ready' = [ready EXCEPT ![w] = FALSE]
      /\ waiters_' = Append(waiters_, w)
      /\ wpc' = [wpc EXCEPT ![w] = "waiting"]
      /\ UNCHANGED <<current, pending_, emptied, runs>>
  BY DEF GoIdle
<1>2. w \notin Idle
  BY <1>1 DEF PoolInv, WaitersOK, WorkerOK
<1>3. SeqsOK' /\ Idle' = Idle \cup {w} /\ Queued' = Queued
  BY <1>1, <1>2, InvSeqs, PushWaiter
<1>4. TypeOK'
  <2>1. WorkerTypes'
    BY <1>1 DEF PoolInv, TypeOK, WorkerTypes
  <2>2. PoolTypes'
    BY <1>3 DEF PoolInv, TypeOK, PoolTypes, SeqsOK
  <2>3. FlagTypes'
    BY <1>1 DEF PoolInv, TypeOK, FlagTypes
  <2>4. HistoryTypes'
    BY <1>1 DEF PoolInv, TypeOK, HistoryTypes
  <2> QED BY <2>1, <2>2, <2>3, <2>4 DEF TypeOK
<1>5. WaitersOK'
  <2>1. ASSUME NEW v \in Workers
        PROVE  WorkerOK(v)'
    BY <1>1, <1>3
       DEF PoolInv, WaitersOK, WorkerOK, TypeOK, WorkerTypes, FlagTypes
  <2> QED BY <1>1, <1>3, <2>1 DEF WaitersOK, SeqsOK
<1>6. PlacesOK'
  BY <1>1, <1>3 DEF PoolInv, PlacesOK, SeqsOK
<1>7. HistoryOK'
  BY <1>1 DEF PoolInv, HistoryOK
<1>8. NothingLost'
  BY <1>1, <1>3 DEF PoolInv, NothingLost
<1>9. DtorOK'
  BY <1>1, <1>3 DEF PoolInv, DtorOK, TypeOK, WorkerTypes
<1> QED BY <1>4, <1>5, <1>6, <1>7, <1>8, <1>9 DEF PoolInv

(* A worker starts the closure at the front of the queue. *)
LEMMA TakeInv ==
  ASSUME PoolInv, NEW w \in Workers, TakePending(w),
         wpc[w] = "entering", slot[w] = NoTask,
         slot' = slot, signalled' \in SUBSET Workers,
         UNCHANGED <<exiting_, dtor, scheduled, finished, late, dangling>>
  PROVE  PoolInv'
<1> DEFINE h == Head(pending_)
<1>1. /\ ~exiting_
      /\ pending_ # <<>>
      /\ wpc' = [wpc EXCEPT ![w] = "running"]
      /\ current' = [current EXCEPT ![w] = h]
      /\ runs' = [runs EXCEPT ![h] = @ + 1]
      /\ pending_' = Tail(pending_)
      /\ emptied' = (emptied \/ Tail(pending_) = <<>>)
      /\ UNCHANGED <<waiters_, ready>>
  BY DEF TakePending, StartTask
<1>2. /\ SeqsOK'
      /\ h \in Queued
      /\ Queued' = Queued \ {h}
      /\ Idle' = Idle
      /\ h \in Tasks
  BY <1>1, InvSeqs, SeqsFacts, PopPending
<1> HIDE DEF h
<1>3. /\ h \in scheduled /\ runs[h] = 0 /\ h # NoTask /\ h \notin finished
      /\ runs' = [runs EXCEPT ![h] = 1]
      /\ runs'[h] = 1
      /\ \A t \in Tasks : t # h => runs'[t] = runs[t]
  <2>1. h \in scheduled /\ runs[h] = 0
    BY <1>2 DEF PoolInv, PlacesOK
  <2>2. h \notin finished
    BY <1>2, <2>1 DEF PoolInv, HistoryOK
  <2>3. h # NoTask
    BY <1>2, PoolAssumption
  <2>4. runs' = [runs EXCEPT ![h] = 1]
    BY <1>1, <2>1
  <2>5. /\ runs'[h] = 1
        /\ \A t \in Tasks : t # h => runs'[t] = runs[t]
    BY <1>2, <2>4 DEF PoolInv, TypeOK, HistoryTypes
  <2> QED BY <2>1, <2>2, <2>3, <2>4, <2>5
<1>4. /\ \A v \in Workers : slot[v] # h /\ current[v] # h
      /\ current[w] = NoTask /\ w \notin Idle
      /\ waiters_ = <<>>
  BY <1>1, <1>2, <1>3 DEF PoolInv, PlacesOK, WaitersOK, WorkerOK
<1>5. TypeOK'
  <2>1. WorkerTypes'
    BY <1>1, <1>2 DEF PoolInv, TypeOK, WorkerTypes
  <2>2. PoolTypes'
    BY <1>2 DEF PoolInv, TypeOK, PoolTypes, SeqsOK
  <2>3. FlagTypes'
    BY <1>1 DEF PoolInv, TypeOK, FlagTypes
  <2>4. HistoryTypes'
    BY <1>3 DEF PoolInv, TypeOK, HistoryTypes
  <2> QED BY <2>1, <2>2, <2>3, <2>4 DEF TypeOK
<1>6. WaitersOK'
  <2>1. ASSUME NEW v \in Workers
        PROVE  WorkerOK(v)'
    BY <1>1, <1>2, <1>3, <1>4
       DEF PoolInv, WaitersOK, WorkerOK, TypeOK, WorkerTypes
  <2> QED BY <1>1, <1>2, <1>4, <2>1 DEF WaitersOK, SeqsOK
<1>7. /\ current'[w] = h
      /\ \A v \in Workers : v # w => current'[v] = current[v]
  BY <1>1 DEF PoolInv, TypeOK, WorkerTypes
<1>8. PlacesOK'
  <2>1. ASSUME NEW t \in Queued'
        PROVE  t \in scheduled' /\ runs'[t] = 0
    <3>1. t \in Queued /\ t # h /\ t \in Tasks
      BY <1>2, InvSeqs, SeqsFacts
    <3> QED BY <3>1, <1>3 DEF PoolInv, PlacesOK
  <2>2. ASSUME NEW v \in Workers, slot'[v] # NoTask
        PROVE  slot'[v] \in scheduled' \ Queued' /\ runs'[slot'[v]] = 0
    <3>1. slot'[v] = slot[v] /\ slot[v] # h /\ slot[v] \in Tasks
      BY <2>2, <1>4 DEF PoolInv, TypeOK, WorkerTypes
    <3> QED BY <3>1, <2>2, <1>2, <1>3 DEF PoolInv, PlacesOK
  <2>3. ASSUME NEW v \in Workers, current'[v] # NoTask
        PROVE  runs'[current'[v]] = 1 /\ current'[v] \notin finished'
    <3>1. CASE v = w
      BY <3>1, <1>3, <1>7
    <3>2. CASE v # w
      <4>1. current'[v] = current[v] /\ current[v] # h /\ current[v] \in Tasks
        BY <2>3, <3>2, <1>4, <1>7 DEF PoolInv, TypeOK, WorkerTypes
      <4> QED BY <4>1, <2>3, <1>3 DEF PoolInv, PlacesOK
    <3> QED BY <3>1, <3>2
  <2>4. ASSUME NEW u \in Workers, NEW v \in Workers, u # v
        PROVE  /\ slot'[u] = slot'[v] => slot'[u] = NoTask
               /\ current'[u] = current'[v] => current'[u] = NoTask
    BY <2>4, <1>4, <1>7 DEF PoolInv, PlacesOK
  <2> QED BY <1>2, <2>1, <2>2, <2>3, <2>4 DEF PlacesOK, SeqsOK
<1>9. HistoryOK'
  BY <1>2, <1>3 DEF PoolInv, HistoryOK
<1>10. NothingLost'
  <2> SUFFICES ASSUME NEW t \in scheduled \ (finished \cup late)
               PROVE  \/ t \in Queued'
                      \/ \E v \in Workers : slot'[v] = t \/ current'[v] = t
    BY DEF NothingLost
  <2>1. CASE t = h
    BY <2>1, <1>7
  <2>2. CASE t # h /\ t \in Queued
    BY <2>2, <1>2
  <2>3. ASSUME NEW v \in Workers, slot[v] = t \/ current[v] = t
        PROVE  slot'[v] = t \/ current'[v] = t
    <3>1. t # NoTask
      BY PoolAssumption DEF PoolInv, TypeOK, HistoryTypes
    <3> QED BY <2>3, <3>1, <1>4, <1>7
  <2> QED BY <2>1, <2>2, <2>3 DEF PoolInv, NothingLost
<1>11. DtorOK'
  BY <1>1, <1>2 DEF PoolInv, DtorOK, TypeOK, WorkerTypes
<1> QED BY <1>5, <1>6, <1>8, <1>9, <1>10, <1>11 DEF PoolInv

(* A waiting worker starts the closure it was handed. *)
LEMMA WakeTaskInv ==
  ASSUME PoolInv, NEW w \in Workers, wpc[w] = "waiting",
         slot[w] # NoTask, StartTask(w, slot[w]),
         slot' = [slot EXCEPT ![w] = NoTask], signalled' = signalled \ {w},
         UNCHANGED <<waiters_, ready, pending_, emptied, exiting_, dtor,
                     scheduled, finished, late, dangling>>
  PROVE  PoolInv'
<1> DEFINE h == slot[w]
<1>1. /\ wpc' = [wpc EXCEPT ![w] = "running"]
      /\ current' = [current EXCEPT ![w] = h]
      /\ runs' = [runs EXCEPT ![h] = @ + 1]
  BY DEF StartTask
<1>2. SeqsOK' /\ Queued' = Queued /\ Idle' = Idle /\ h \in Tasks
  BY InvSeqs, SameSeqs DEF PoolInv, TypeOK, WorkerTypes
<1>3. /\ h \in scheduled \ Queued /\ h \notin finished
      /\ runs[h] = 0
      /\ runs' = [runs EXCEPT ![h] = 1]
      /\ runs'[h] = 1
      /\ \A t \in Tasks : t # h => runs'[t] = runs[t]
  <2>1. h \in scheduled \ Queued /\ runs[h] = 0
    BY DEF PoolInv, PlacesOK
  <2>2. h \notin finished
    BY <1>2, <2>1 DEF PoolInv, HistoryOK
  <2>3. runs' = [runs EXCEPT ![h] = 1]
    BY <1>1, <2>1
  <2>4. /\ runs'[h] = 1
        /\ \A t \in Tasks : t # h => runs'[t] = runs[t]
    BY <1>2, <2>3 DEF PoolInv, TypeOK, HistoryTypes
  <2> QED BY <2>1, <2>2, <2>3, <2>4
<1>4. /\ \A v \in Workers : current[v] # h /\ (v # w => slot[v] # h)
      /\ current[w] = NoTask /\ w \notin Idle
  BY <1>2, <1>3 DEF PoolInv, PlacesOK, WaitersOK, WorkerOK
<1>5. /\ current'[w] = h
      /\ slot'[w] = NoTask
      /\ \A v \in Workers : v # w => current'[v] = current[v] /\ slot'[v] = slot[v]
  BY <1>1 DEF PoolInv, TypeOK, WorkerTypes
<1>6. TypeOK'
  <2>1. WorkerTypes'
    BY <1>1, <1>2 DEF PoolInv, TypeOK, WorkerTypes
  <2>2. PoolTypes'
    BY DEF PoolInv, TypeOK, PoolTypes
  <2>3. FlagTypes'
    BY DEF PoolInv, TypeOK, FlagTypes
  <2>4. HistoryTypes'
    BY <1>3 DEF PoolInv, TypeOK, HistoryTypes
  <2> QED BY <2>1, <2>2, <2>3, <2>4 DEF TypeOK
<1>7. WaitersOK'
  <2>1. ASSUME NEW v \in Workers
        PROVE  WorkerOK(v)'
    BY <1>1, <1>2, <1>4, <1>5
       DEF PoolInv, WaitersOK, WorkerOK, TypeOK, WorkerTypes
  <2> QED BY <1>2, <2>1 DEF PoolInv, WaitersOK, SeqsOK
<1> HIDE DEF h
<1>8. PlacesOK'
  <2>1. ASSUME NEW t \in Queued'
        PROVE  t \in scheduled' /\ runs'[t] = 0
    <3>1. t \in Queued /\ t # h /\ t \in Tasks
      BY <1>2, <1>3, InvSeqs, SeqsFacts
    <3> QED BY <3>1, <1>3 DEF PoolInv, PlacesOK
  <2>2. ASSUME NEW v \in Workers, slot'[v] # NoTask
        PROVE  slot'[v] \in scheduled' \ Queued' /\ runs'[slot'[v]] = 0
    <3>1. slot'[v] = slot[v] /\ slot[v] # h /\ slot[v] \in Tasks
      BY <2>2, <1>4, <1>5 DEF PoolInv, TypeOK, WorkerTypes
    <3> QED BY <3>1, <2>2, <1>2, <1>3 DEF PoolInv, PlacesOK
  <2>3. ASSUME NEW v \in Workers, current'[v] # NoTask
        PROVE  runs'[current'[v]] = 1 /\ current'[v] \notin finished'
    <3>1. CASE v = w
      BY <3>1, <1>3, <1>5
    <3>2. CASE v # w
      <4>1. current'[v] = current[v] /\ current[v] # h /\ current[v] \in Tasks
        BY <2>3, <3>2, <1>4, <1>5 DEF PoolInv, TypeOK, WorkerTypes
      <4> QED BY <4>1, <2>3, <1>3 DEF PoolInv, PlacesOK
    <3> QED BY <3>1, <3>2
  <2>4. ASSUME NEW u \in Workers, NEW v \in Workers, u # v
        PROVE  /\ slot'[u] = slot'[v] => slot'[u] = NoTask
               /\ current'[u] = current'[v] => current'[u] = NoTask
    BY <2>4, <1>4, <1>5 DEF PoolInv, PlacesOK
  <2> QED BY <1>2, <2>1, <2>2, <2>3, <2>4 DEF PlacesOK, SeqsOK
<1>9. HistoryOK'
  BY <1>2, <1>3 DEF PoolInv, HistoryOK
<1>10. NothingLost'
  <2> SUFFICES ASSUME NEW t \in scheduled \ (finished \cup late)
               PROVE  \/ t \in Queued'
                      \/ \E v \in Workers : slot'[v] = t \/ current'[v] = t
    BY DEF NothingLost
  <2>1. CASE t \in Queued
    BY <2>1, <1>2
  <2>2. ASSUME NEW v \in Workers, slot[v] = t \/ current[v] = t
        PROVE  slot'[v] = t \/ current'[v] = t
    <3>1. t # NoTask
      BY PoolAssumption DEF PoolInv, TypeOK, HistoryTypes
    <3> QED BY <2>2, <3>1, <1>4, <1>5 DEF h
  <2> QED BY <2>1, <2>2 DEF PoolInv, NothingLost
<1>11. DtorOK'
  BY <1>1, <1>2 DEF PoolInv, DtorOK, TypeOK, WorkerTypes
<1> QED BY <1>6, <1>7, <1>8, <1>9, <1>10, <1>11 DEF PoolInv

(* The closure of a running worker returns. *)
LEMMA ReturnInv ==
  ASSUME PoolInv, NEW w \in Workers, Return(w)
  PROVE  PoolInv'
<1> DEFINE h == current[w]
<1>1. /\ wpc[w] = "running"
      /\ wpc' = [wpc EXCEPT ![w] = "entering"]
      /\ finished' = finished \cup {h}
      /\ current' = [current EXCEPT ![w] = NoTask]
      /\ UNCHANGED <<waiters_, ready, slot, signalled, pending_, exiting_,
                     emptied, dtor, scheduled, runs, late, dangling>>
  BY DEF Return, poolVars
<1>2. SeqsOK' /\ Idle' = Idle /\ Queued' = Queued
  BY <1>1, InvSeqs, SameSeqs
<1>3. /\ h # NoTask /\ h \in Tasks
      /\ runs[h] = 1
      /\ w \notin Idle
      /\ slot[w] = NoTask
      /\ \A v \in Workers : v # w => current[v] # h
  BY <1>1 DEF PoolInv, WaitersOK, WorkerOK, PlacesOK, TypeOK, WorkerTypes
<1>4. /\ current'[w] = NoTask
      /\ \A v \in Workers : v # w => current'[v] = current[v]
  BY <1>1 DEF PoolInv, TypeOK, WorkerTypes
<1>5. TypeOK'
  <2>1. WorkerTypes'
    BY <1>1 DEF PoolInv, TypeOK, WorkerTypes
  <2>2. PoolTypes'
    BY <1>1 DEF PoolInv, TypeOK, PoolTypes
  <2>3. FlagTypes'
    BY <1>1 DEF PoolInv, TypeOK, FlagTypes
  <2>4. HistoryTypes'
    BY <1>1, <1>3 DEF PoolInv, TypeOK, HistoryTypes
  <2> QED BY <2>1, <2>2, <2>3, <2>4 DEF TypeOK
<1>6. WaitersOK'
  <2>1. ASSUME NEW v \in Workers
        PROVE  WorkerOK(v)'
    BY <1>1, <1>2, <1>3, <1>4
       DEF PoolInv, WaitersOK, WorkerOK, TypeOK, WorkerTypes
  <2> QED BY <1>1, <1>2, <2>1 DEF PoolInv, WaitersOK, SeqsOK
<1> HIDE DEF h
<1>7. PlacesOK'
  BY <1>1, <1>2, <1>3, <1>4 DEF PoolInv, PlacesOK, SeqsOK
<1>8. HistoryOK'
  BY <1>1, <1>3 DEF PoolInv, HistoryOK
<1>9. NothingLost'
  BY <1>1, <1>2, <1>3, <1>4 DEF PoolInv, NothingLost, h
<1>10. DtorOK'
  BY <1>1, <1>2 DEF PoolInv, DtorOK, TypeOK, WorkerTypes
<1> QED BY <1>5, <1>6, <1>7, <1>8, <1>9, <1>10 DEF PoolInv

(* The destructor finds the queue empty and wakes the waiters. *)
LEMMA ShutdownInv ==
  ASSUME PoolInv, dtor \in {"none", "waiting"}, pending_ = <<>>, Shutdown,
         emptied' \in BOOLEAN,
         UNCHANGED <<wpc, current, waiters_, pending_, history>>
  PROVE  PoolInv'
<1>1. /\ exiting_' = TRUE
      /\ ready' = [w \in Workers |-> ready[w] \/ w \in Idle]
      /\ slot' = [w \in Workers |-> IF w \in Idle THEN NoTask ELSE slot[w]]
      /\ signalled' = signalled \cup Idle
      /\ dtor' = "joining"
      /\ UNCHANGED <<scheduled, runs, finished, late, dangling>>
  BY DEF Shutdown, history
<1>2. SeqsOK' /\ Idle' = Idle /\ Queued' = Queued /\ Queued = {}
      /\ Idle \subseteq Workers
  BY InvSeqs, SameSeqs, SeqsFacts
<1>3. ~exiting_
  BY DEF PoolInv, DtorOK
<1>4. slot' = slot
  <2>1. slot' = [w \in Workers |-> slot[w]]
    BY <1>1 DEF PoolInv, WaitersOK, WorkerOK
  <2> QED BY <2>1 DEF PoolInv, TypeOK, WorkerTypes
<1>5. \A w \in Workers : ready'[w] <=> (ready[w] \/ w \in Idle)
  BY <1>1
<1>6. TypeOK'
  <2>1. WorkerTypes'
    BY <1>1, <1>2, <1>4 DEF PoolInv, TypeOK, WorkerTypes
  <2>2. PoolTypes'
    BY <1>1 DEF PoolInv, TypeOK, PoolTypes
  <2>3. ready' \in [Workers -> BOOLEAN]
    BY <1>1, <1>2, Zenon DEF PoolInv, TypeOK, FlagTypes
  <2>4. FlagTypes'
    BY <1>1, <2>3 DEF PoolInv, TypeOK, FlagTypes
  <2>5. HistoryTypes'
    BY <1>1 DEF PoolInv, TypeOK, HistoryTypes
  <2> QED BY <2>1, <2>2, <2>4, <2>5 DEF TypeOK
<1>7. WaitersOK'
  <2>1. ASSUME NEW v \in Workers
        PROVE  WorkerOK(v)'
    BY <1>1, <1>2, <1>3, <1>4, <1>5 DEF PoolInv, WaitersOK, WorkerOK
  <2> QED BY <1>2, <2>1 DEF PoolInv, WaitersOK, SeqsOK
<1>8. PlacesOK'
  BY <1>1, <1>2, <1>4 DEF PoolInv, PlacesOK, SeqsOK
<1>9. HistoryOK'
  BY <1>1 DEF PoolInv, HistoryOK
<1>10. NothingLost'
  BY <1>1, <1>2, <1>4 DEF PoolInv, NothingLost
<1>11. DtorOK'
  BY <1>1, <1>2, <1>3 DEF PoolInv, DtorOK
<1> QED BY <1>6, <1>7, <1>8, <1>9, <1>10, <1>11 DEF PoolInv

(* A step that touches only dtor and emptied. *)
LEMMA DtorStepInv ==
  ASSUME PoolInv, emptied' \in BOOLEAN,
         UNCHANGED <<wpc, current, poolVars, history>>,
         \/ dtor' = dtor
         \/ dtor = "none" /\ dtor' = "waiting"
         \/ dtor = "joining" /\ dtor' = "done" /\ \A w \in Workers : wpc[w] = "exited"
  PROVE  PoolInv'
<1>1. UNCHANGED <<wpc, current, waiters_, ready, slot, signalled, pending_,
                  exiting_, scheduled, runs, finished, late, dangling>>
  BY DEF poolVars, history
<1>2. SeqsOK' /\ Idle' = Idle /\ Queued' = Queued
  BY <1>1, InvSeqs, SameSeqs
<1>3. TypeOK'
  <2>1. WorkerTypes'
    BY <1>1 DEF PoolInv, TypeOK, WorkerTypes
  <2>2. PoolTypes'
    BY <1>1 DEF PoolInv, TypeOK, PoolTypes
  <2>3. FlagTypes'
    BY <1>1 DEF PoolInv, TypeOK, FlagTypes
  <2>4. HistoryTypes'
    BY <1>1 DEF PoolInv, TypeOK, HistoryTypes
  <2> QED BY <2>1, <2>2, <2>3, <2>4 DEF TypeOK
<1>4. WaitersOK'
  BY <1>1, <1>2 DEF PoolInv, WaitersOK, WorkerOK, SeqsOK
<1>5. PlacesOK'
  BY <1>1, <1>2 DEF PoolInv, PlacesOK, SeqsOK
<1>6. HistoryOK'
  BY <1>1 DEF PoolInv, HistoryOK
<1>7. NothingLost'
  BY <1>1, <1>2 DEF PoolInv, NothingLost
<1>8. DtorOK'
  BY <1>1, <1>2 DEF PoolInv, DtorOK
<1> QED BY <1>3, <1>4, <1>5, <1>6, <1>7, <1>8 DEF PoolInv

(* One round of the worker loop, from the thread's start, the return of a  *)
(* closure or the wait.                                                    *)
LEMMA EnterInv ==
  ASSUME PoolInv, NEW w \in Workers, Enter(w)
  PROVE  PoolInv'
<1>1. /\ wpc[w] = "entering"
      /\ LoopHead(w)
      /\ slot' = slot
      /\ signalled' \in SUBSET Workers
      /\ UNCHANGED <<exiting_, dtor, scheduled, finished, late, dangling>>
  BY DEF Enter, PoolInv, TypeOK, WorkerTypes
<1>2. slot[w] = NoTask
  BY <1>1 DEF PoolInv, WaitersOK, WorkerOK
<1>3. CASE ExitLoop(w)
  BY <1>1, <1>2, <1>3, ExitInv
<1>4. CASE GoIdle(w)
  BY <1>1, <1>2, <1>4, IdleInv
<1>5. CASE TakePending(w)
  BY <1>1, <1>2, <1>5, TakeInv
<1> QED BY <1>1, <1>3, <1>4, <1>5 DEF LoopHead

LEMMA WakeInv ==
  ASSUME PoolInv, NEW w \in Workers, Wake(w)
  PROVE  PoolInv'
<1>1. /\ wpc[w] = "waiting"
      /\ ready[w]
      /\ slot' = [slot EXCEPT ![w] = NoTask]
      /\ signalled' = signalled \ {w}
      /\ UNCHANGED <<exiting_, dtor, scheduled, finished, late, dangling>>
  BY DEF Wake
<1>2. CASE /\ slot[w] # NoTask
           /\ StartTask(w, slot[w])
           /\ UNCHANGED <<waiters_, ready, pending_, emptied>>
  BY <1>1, <1>2, WakeTaskInv
<1>3. CASE slot[w] = NoTask /\ LoopHead(w)
  <2>1. exiting_
    BY <1>1, <1>3 DEF PoolInv, WaitersOK, WorkerOK
  <2>2. ExitLoop(w)
    BY <1>3, <2>1 DEF LoopHead, GoIdle, TakePending
  <2>3. slot' = slot /\ signalled' \in SUBSET Workers
    BY <1>1, <1>3 DEF PoolInv, TypeOK, WorkerTypes
  <2> QED BY <1>1, <1>3, <2>2, <2>3, ExitInv
<1> QED BY <1>2, <1>3 DEF Wake

LEMMA ScheduleInv ==
  ASSUME PoolInv, NEW t \in Tasks, Schedule(t)
  PROVE  PoolInv'
<1>1. CASE QueueTask(t)
  BY <1>1, QueueInv
<1>2. CASE HandTask(t)
  BY <1>2, HandInv
<1> QED BY <1>1, <1>2 DEF Schedule

LEMMA DtorInv ==
  ASSUME PoolInv, DtorEnter \/ DtorWake \/ DtorJoin
  PROVE  PoolInv'
<1>1. CASE /\ dtor \in {"none", "waiting"}
           /\ pending_ = <<>>
           /\ Shutdown
           /\ UNCHANGED <<emptied, wpc, current, waiters_, pending_, history>>
  BY <1>1, ShutdownInv DEF PoolInv, TypeOK, FlagTypes
<1>2. CASE /\ dtor \in {"none", "waiting"}
           /\ emptied' = FALSE
           /\ dtor' \in {dtor, "waiting"}
           /\ UNCHANGED <<ready, slot, signalled, exiting_>>
           /\ UNCHANGED <<wpc, current, waiters_, pending_, history>>
  BY <1>2, DtorStepInv DEF poolVars
<1>3. CASE DtorJoin
  BY <1>3, DtorStepInv DEF DtorJoin, PoolInv, TypeOK, FlagTypes
<1> QED BY <1>1, <1>2, <1>3 DEF DtorEnter, DtorWake

LEMMA NextInv == PoolInv /\ [Next]_vars => PoolInv'
<1> SUFFICES ASSUME PoolInv, [Next]_vars PROVE PoolInv'
  OBVIOUS
<1>1. ASSUME NEW t \in Tasks, ClientSchedule(t)
      PROVE  PoolInv'
  BY <1>1, ScheduleInv DEF ClientSchedule
<1>2. ASSUME NEW w \in Workers, NEW t \in Tasks, TaskSchedule(w, t)
      PROVE  PoolInv'
  BY <1>2, ScheduleInv DEF TaskSchedule
<1>3. ASSUME NEW w \in Workers, Enter(w) \/ Wake(w) \/ Return(w)
      PROVE  PoolInv'
  BY <1>3, EnterInv, WakeInv, ReturnInv
<1>4. CASE DtorEnter \/ DtorWake \/ DtorJoin
  BY <1>4, DtorInv
<1>5. CASE UNCHANGED vars
  <2>1. emptied' \in BOOLEAN /\ UNCHANGED <<wpc, current, poolVars, history, dtor>>
    BY <1>5 DEF vars, PoolInv, TypeOK, FlagTypes
  <2> QED BY <2>1, DtorStepInv
<1> QED BY <1>1, <1>2, <1>3, <1>4, <1>5 DEF Next, Destroyed

LEMMA PoolInvariant == Safety => []PoolInv
<1> QED BY InitInv, NextInv, PTL DEF Safety

-----------------------------------------------------------------------------
(* What follows from it.                                                   *)

(* Every variable keeps its type. *)
THEOREM Typing == Safety => []TypeOK
<1>1. PoolInv => TypeOK
  BY DEF PoolInv
<1> QED BY <1>1, PoolInvariant, PTL

(* No closure waits in the queue while a worker waits for one. *)
THEOREM NoIdleBesideWork == Safety => []WorkConserving
<1>1. PoolInv => WorkConserving
  BY DEF PoolInv, WaitersOK, WorkConserving
<1> QED BY <1>1, PoolInvariant, PTL

(* The stack of waiters holds each worker once at most. *)
THEOREM StackHoldsOnce == Safety => []WaitersDistinct
<1>1. PoolInv => WaitersDistinct
  BY DEF PoolInv, WaitersOK, WaitersDistinct
<1> QED BY <1>1, PoolInvariant, PTL

(* A closure starts once at most. *)
THEOREM StartedOnce == Safety => []AtMostOnce
<1>1. PoolInv => AtMostOnce
  BY DEF PoolInv, HistoryOK, AtMostOnce
<1> QED BY <1>1, PoolInvariant, PTL

(* With every thread gone, what was scheduled and has not run is late. *)
LEMMA ExitedLoseOnlyLate ==
  ASSUME PoolInv, exiting_, \A w \in Workers : wpc[w] = "exited"
  PROVE  scheduled \ finished \subseteq late
<1> SUFFICES ASSUME NEW t \in scheduled \ (finished \cup late)
             PROVE  FALSE
  OBVIOUS
<1>1. \A w \in Workers : slot[w] = NoTask /\ current[w] = NoTask
  BY DEF PoolInv, WaitersOK, WorkerOK
<1>2. t \in Queued \/ t = NoTask
  BY <1>1 DEF PoolInv, NothingLost
<1>3. t # NoTask
  BY PoolAssumption DEF PoolInv, TypeOK, HistoryTypes
<1> QED BY <1>2, <1>3 DEF PoolInv, DtorOK

(* The destructor loses only what was scheduled after exiting_ was set. *)
THEOREM OnlyLateLost == Safety => []OnlyLateIsLost
<1>1. PoolInv => OnlyLateIsLost
  BY ExitedLoseOnlyLate DEF PoolInv, DtorOK, OnlyLateIsLost
<1> QED BY <1>1, PoolInvariant, PTL

-----------------------------------------------------------------------------
(* The pool implements TaskExecutor.                                       *)

USE DEF Executor!vars

LEMMA ScheduleIsSubmit ==
  ASSUME PoolInv, NEW t \in Tasks, Schedule(t), dtor # "done"
  PROVE  Executor!Submit(t)
  BY DEF Schedule, Executor!Submit

LEMMA StartIsStart ==
  ASSUME PoolInv, NEW t \in Tasks, t \in scheduled, runs[t] = 0,
         runs' = [runs EXCEPT ![t] = @ + 1],
         UNCHANGED <<scheduled, late, finished, exiting_, dtor>>
  PROVE  Executor!Start(t)
  BY DEF Executor!Start

LEMMA LoopIsStart ==
  ASSUME PoolInv, NEW w \in Workers, LoopHead(w),
         UNCHANGED <<scheduled, late, finished, exiting_, dtor>>
  PROVE  (\E t \in Tasks : Executor!Start(t)) \/ UNCHANGED Executor!vars
<1>1. CASE ExitLoop(w) \/ GoIdle(w)
  BY <1>1 DEF ExitLoop, GoIdle
<1>2. CASE TakePending(w)
  <2> DEFINE h == Head(pending_)
  <2>1. h \in Queued /\ h \in Tasks /\ runs' = [runs EXCEPT ![h] = @ + 1]
    BY <1>2, MembersFacts, InvSeqs, SeqsFacts
       DEF TakePending, StartTask, SeqsOK, Queued
  <2>2. h \in scheduled /\ runs[h] = 0
    BY <2>1 DEF PoolInv, PlacesOK
  <2> QED BY <2>1, <2>2, StartIsStart
<1> QED BY <1>1, <1>2 DEF LoopHead

LEMMA PoolSteps ==
  ASSUME PoolInv, [Next]_vars
  PROVE  [Executor!Next]_(Executor!vars)
<1> USE DEF Executor!Next
<1>1. ASSUME NEW t \in Tasks, ClientSchedule(t)
      PROVE  Executor!Next
  BY <1>1, ScheduleIsSubmit DEF ClientSchedule
<1>2. ASSUME NEW w \in Workers, NEW t \in Tasks, TaskSchedule(w, t)
      PROVE  Executor!Next
  <2>1. dtor # "done"
    BY <1>2 DEF TaskSchedule, PoolInv, DtorOK
  <2> QED BY <1>2, <2>1, ScheduleIsSubmit DEF TaskSchedule
<1>3. ASSUME NEW w \in Workers, Enter(w)
      PROVE  Executor!Next \/ UNCHANGED Executor!vars
  BY <1>3, LoopIsStart DEF Enter
<1>4. ASSUME NEW w \in Workers, Wake(w)
      PROVE  Executor!Next \/ UNCHANGED Executor!vars
  <2>1. CASE slot[w] # NoTask /\ StartTask(w, slot[w])
    <3>1. slot[w] \in Tasks /\ slot[w] \in scheduled /\ runs[slot[w]] = 0
      BY <2>1 DEF PoolInv, PlacesOK, TypeOK, WorkerTypes
    <3> QED BY <1>4, <2>1, <3>1, StartIsStart DEF Wake, StartTask
  <2>2. CASE LoopHead(w)
    BY <1>4, <2>2, LoopIsStart DEF Wake
  <2> QED BY <1>4, <2>1, <2>2 DEF Wake
<1>5. ASSUME NEW w \in Workers, Return(w)
      PROVE  Executor!Next
  <2>1. current[w] \in Tasks /\ runs[current[w]] = 1 /\ current[w] \notin finished
    BY <1>5 DEF Return, PoolInv, WaitersOK, WorkerOK, PlacesOK, TypeOK, WorkerTypes
  <2>2. Executor!Finish(current[w])
    BY <1>5, <2>1 DEF Return, poolVars, Executor!Finish
  <2> QED BY <2>1, <2>2
<1>6. CASE DtorEnter \/ DtorWake
  <2>1. CASE Shutdown
    <3>1. ~exiting_
      BY <1>6 DEF DtorEnter, DtorWake, PoolInv, DtorOK
    <3>2. Executor!BeginClose
      BY <1>6, <2>1, <3>1
         DEF DtorEnter, DtorWake, Shutdown, history, PoolInv, DtorOK,
             Executor!BeginClose
    <3> QED BY <3>2
  <2>2. CASE UNCHANGED exiting_ /\ dtor # "done" /\ dtor' # "done"
    BY <1>6, <2>2 DEF DtorEnter, DtorWake, history
  <2> QED BY <1>6, <2>1, <2>2 DEF DtorEnter, DtorWake
<1>7. CASE DtorJoin
  <2>1. exiting_ /\ \A w \in Workers : wpc[w] = "exited"
    BY <1>7 DEF DtorJoin, PoolInv, DtorOK
  <2>2. scheduled \ finished \subseteq late
    BY <2>1, ExitedLoseOnlyLate
  <2>3. Executor!Close
    BY <1>7, <2>1, <2>2 DEF DtorJoin, poolVars, history, Executor!Close
  <2> QED BY <2>3
<1>8. CASE UNCHANGED vars
  BY <1>8 DEF vars, poolVars, history
<1> QED BY <1>1, <1>2, <1>3, <1>4, <1>5, <1>6, <1>7, <1>8 DEF Next, Destroyed

(* Each step of the pool is a step of the abstract executor or none: the    *)
(* safety part of what ImplementsExecutor says.                             *)
THEOREM PoolIsExecutor == Safety => Executor!Safety
<1>1. Init => Executor!Init
  BY DEF Init, Executor!Init
<1>2. PoolInv /\ [Next]_vars => [Executor!Next]_(Executor!vars)
  BY PoolSteps
<1> QED BY <1>1, <1>2, PoolInvariant, PTL DEF Safety, Executor!Safety

=============================================================================
