----------------------------- MODULE ParallelFor ----------------------------
(***************************************************************************)
(* The sharing half of DeviceThreadPool::ParallelFor and its Barrier       *)
(* (src/base/thread/device_thread_pool.h): HandleRange splits 0..n among   *)
(* the workers, every block of it notifies the barrier, which lives in the *)
(* caller's frame, and the caller waits.                                   *)
(*                                                                         *)
(* An atomic operation or a critical section of mu_ is one action.  The    *)
(* pool is seen as TaskExecutor describes it: a bag of closures, any of    *)
(* which an idle worker may take.  The body f of a call may itself call    *)
(* ParallelFor, so a thread has a stack of frames, the innermost first.    *)
(***************************************************************************)
EXTENDS Integers, Sequences

CONSTANTS
  Workers,      \* threads of the pool
  Calls,        \* calls of ParallelFor
  Outside,      \* those made by threads of their own; each names its thread
  MadeAt,       \* for the others: the call and the index whose f makes it
  Loops         \* values of n and block_size, as BlockSizing leaves them

CallsAssumption ==
  /\ Outside \subseteq Calls /\ Workers \cap Calls = {}
  /\ Loops \subseteq [n : Nat \ {0}, size : Nat \ {0}]
  /\ MadeAt \in [Calls \ Outside -> [call : Calls, index : Nat]]

VARIABLES
  loop,         \* n and block_size of every call
  tasks,        \* ranges scheduled in the pool and not yet taken
  stack,        \* frames of every thread
  state_,       \* Barrier::state_: twice the count, plus one for the waiter
  notified_,    \* calls whose Barrier::notified_ is set
  ran,          \* history: how often f finished for every index
  returned      \* calls that have returned: their frame is gone

vars == <<loop, tasks, stack, state_, notified_, ran, returned>>

AllThreads == Workers \cup Outside

divup(x, y) == (x + y - 1) \div y

BlockCountDown(l) == l.n \div l.size             \* mutant: rounds down
BlockCount(l) == divup(l.n, l.size)

RangeOf(c, first, last) == [call |-> c, first |-> first, last |-> last]
Frame(r, caller) == [range |-> r, caller |-> caller, pc |-> "range"]
CallFrame(c) == Frame(RangeOf(c, 0, loop[c].n), TRUE)

Running(t) == stack[t] # <<>>
Top(t)  == Head(stack[t])
At(t, pc) == Running(t) /\ Top(t).pc = pc
call(t) == Top(t).range.call
size(t) == loop[call(t)].size

\* The stack of t when its innermost frame goes on at pc, and when HandleRange
\* returns in it: to the caller, which waits, or out of the closure.
GoTo(t, pc) == <<[Top(t) EXCEPT !.pc = pc]>> \o Tail(stack[t])
Leave(t)    == IF Top(t).caller THEN GoTo(t, "wait") ELSE Tail(stack[t])

Init ==
  /\ loop \in [Calls -> Loops]
  /\ tasks = {}
  /\ stack = [t \in AllThreads |-> IF t \in Outside THEN <<CallFrame(t)>> ELSE <<>>]
  /\ state_ = [c \in Calls |-> 2 * BlockCount(loop[c])]
  /\ notified_ = {}
  /\ ran = [c \in Calls |-> [i \in 0..loop[c].n - 1 |-> 0]]
  /\ returned = {}

\* An idle worker takes a closure of the pool.
Take(w) ==
  /\ ~ Running(w)
  /\ \E r \in tasks :
       /\ tasks' = tasks \ {r}
       /\ stack' = [stack EXCEPT ![w] = <<Frame(r, FALSE)>>]
  /\ UNCHANGED <<loop, state_, notified_, ran, returned>>

-----------------------------------------------------------------------------
(* HandleRange.                                                            *)

Length(t) == Top(t).range.last - Top(t).range.first
IsBlock(t) == Length(t) <= size(t)

MidUnaligned(t) == Top(t).range.first + Length(t) \div 2    \* mutant
Mid(t) == Top(t).range.first + divup(Length(t) \div 2, size(t)) * size(t)

\* The upper half goes to the pool first.
ScheduleUpper(t) ==
  /\ At(t, "range") /\ ~ IsBlock(t)
  /\ tasks' = tasks \cup {RangeOf(call(t), Mid(t), Top(t).range.last)}
  /\ stack' = [stack EXCEPT ![t] = GoTo(t, "lower")]
  /\ UNCHANGED <<loop, state_, notified_, ran, returned>>

ScheduleLower(t) ==
  /\ At(t, "lower")
  /\ tasks' = tasks \cup {RangeOf(call(t), Top(t).range.first, Mid(t))}
  /\ stack' = [stack EXCEPT ![t] = Leave(t)]
  /\ UNCHANGED <<loop, state_, notified_, ran, returned>>

Indices(r) == r.first..r.last - 1

\* f starts on a block; it may make one call of ParallelFor before its own work.
StartBlock(t) ==
  /\ At(t, "range") /\ IsBlock(t)
  /\ LET inner == {c \in Calls \ Outside : /\ MadeAt[c].call = call(t)
                                           /\ MadeAt[c].index \in Indices(Top(t).range)}
     IN  \/ /\ inner = {}
            /\ stack' = [stack EXCEPT ![t] = GoTo(t, "body")]
         \/ \E c \in inner :
              stack' = [stack EXCEPT ![t] = <<CallFrame(c)>> \o GoTo(t, "body")]
  /\ UNCHANGED <<loop, tasks, state_, notified_, ran, returned>>

FinishBlock(t) ==
  /\ At(t, "body")
  /\ ran' = [ran EXCEPT ![call(t)] =
               [i \in DOMAIN @ |-> IF i \in Indices(Top(t).range) THEN @[i] + 1 ELSE @[i]]]
  /\ stack' = [stack EXCEPT ![t] = GoTo(t, "notify")]
  /\ UNCHANGED <<loop, tasks, state_, notified_, returned>>

-----------------------------------------------------------------------------
(* Barrier.                                                                *)

\* Mutant: wakes the waiter only if it waits, and tests that before it counts.
NotifyTestFirst(t) ==
  /\ At(t, "notify")
  /\ stack' = [stack EXCEPT ![t] = IF state_[call(t)] % 2 = 1
                                   THEN GoTo(t, "signal") ELSE Leave(t)]
  /\ state_' = [state_ EXCEPT ![call(t)] = @ - 2]
  /\ UNCHANGED <<loop, tasks, notified_, ran, returned>>

\* Mutant: looks at the value before the subtraction.
NotifyStale(t) ==
  /\ At(t, "notify")
  /\ state_' = [state_ EXCEPT ![call(t)] = @ - 2]
  /\ stack' = [stack EXCEPT ![t] = IF state_[call(t)] = 1 THEN GoTo(t, "signal")
                                   ELSE Leave(t)]
  /\ UNCHANGED <<loop, tasks, notified_, ran, returned>>

\* fetch_sub(2): goes on to wake the waiter only when that made the state 1,
\* the count 0 with the waiter waiting.
Notify(t) ==
  /\ At(t, "notify")
  /\ state_' = [state_ EXCEPT ![call(t)] = @ - 2]
  /\ stack' = [stack EXCEPT ![t] = IF state_'[call(t)] = 1 THEN GoTo(t, "signal")
                                   ELSE Leave(t)]
  /\ UNCHANGED <<loop, tasks, notified_, ran, returned>>

Sleeps(u, c) == At(u, "asleep") /\ call(u) = c

\* Under mu_: notified_ = true, notify_all.
Signal(t) ==
  /\ At(t, "signal")
  /\ notified_' = notified_ \cup {call(t)}
  /\ stack' = [u \in AllThreads |-> CASE u = t -> Leave(t)
                                   [] Sleeps(u, call(t)) -> GoTo(u, "check")
                                   [] OTHER -> stack[u]]
  /\ UNCHANGED <<loop, tasks, state_, ran, returned>>

\* ParallelFor returns: barrier, HandleRange and f are destroyed.
Return(t) ==
  /\ returned' = returned \cup {call(t)}
  /\ stack' = [stack EXCEPT ![t] = Tail(stack[t])]

\* Mutant: returns while one block is left.
WaitOffByOne(t) ==
  /\ At(t, "wait")
  /\ state_' = [state_ EXCEPT ![call(t)] = @ + 1]
  /\ \/ state_[call(t)] \div 2 <= 1 /\ Return(t)
     \/ /\ state_[call(t)] \div 2 > 1
        /\ stack' = [stack EXCEPT ![t] = GoTo(t, "check")]
        /\ UNCHANGED returned
  /\ UNCHANGED <<loop, tasks, notified_, ran>>

\* fetch_or(1): returns at once when the count was 0.
Wait(t) ==
  /\ At(t, "wait")
  /\ state_' = [state_ EXCEPT ![call(t)] = @ + 1]
  /\ \/ state_[call(t)] \div 2 = 0 /\ Return(t)
     \/ /\ state_[call(t)] \div 2 # 0
        /\ stack' = [stack EXCEPT ![t] = GoTo(t, "check")]
        /\ UNCHANGED returned
  /\ UNCHANGED <<loop, tasks, notified_, ran>>

\* Under mu_: tests notified_, and waits on cv_ while it is not set.
Check(t) ==
  /\ At(t, "check")
  /\ \/ call(t) \in notified_ /\ Return(t)
     \/ /\ call(t) \notin notified_
        /\ stack' = [stack EXCEPT ![t] = GoTo(t, "asleep")]
        /\ UNCHANGED returned
  /\ UNCHANGED <<loop, tasks, state_, notified_, ran>>

Step(t) ==
  \/ ScheduleUpper(t) \/ ScheduleLower(t) \/ StartBlock(t) \/ FinishBlock(t)
  \/ Notify(t) \/ Signal(t) \/ Wait(t) \/ Check(t)

Next == (\E w \in Workers : Take(w)) \/ (\E t \in AllThreads : Step(t))

\* Every thread runs.
Spec ==
  /\ Init /\ [][Next]_vars
  /\ \A w \in Workers : WF_vars(Take(w))
  /\ \A t \in AllThreads : WF_vars(Step(t))

-----------------------------------------------------------------------------
(* Properties.                                                             *)

FramesOf(t) == {stack[t][i] : i \in 1..Len(stack[t])}

\* barrier, HandleRange and f are locals of ParallelFor that closures on other
\* threads hold by reference (:200).  Whatever the interleaving, none of them
\* is left in the pool or on a thread that may still use them once the call
\* has returned.
FrameOutlivesUse ==
  \A c \in returned :
    /\ \A r \in tasks : r.call # c
    /\ \A t \in AllThreads : \A f \in FramesOf(t) : f.range.call # c

\* The assertions of Barrier: the count is not 0 before it is decremented
\* (:49), notified_ is not yet set when it is set (:53), and the count is 0 in
\* the destructor (:43).
BarrierAssertions ==
  /\ \A t \in AllThreads : /\ At(t, "notify") => state_[call(t)] \div 2 # 0
                           /\ At(t, "signal") => call(t) \notin notified_
  /\ \A c \in returned : state_[c] \div 2 = 0

\* f runs for no index twice, and a call returns only when f has finished for
\* all of them.
EachIndexOnce ==
  \A c \in Calls : \A i \in DOMAIN ran[c] :
    ran[c][i] <= 1 /\ (c \in returned => ran[c][i] = 1)

Entered(c) == \E t \in AllThreads : \E f \in FramesOf(t) : f.caller /\ f.range.call = c

\* A worker that cannot go on until a closure of its own call has run.
Blocked(w) == Running(w) /\ Top(w).pc \in {"check", "asleep"}

\* The calls that are made all return: no closure is forgotten and no wakeup
\* lost.  The only way to get stuck is for all workers to wait for calls made by
\* closures they run, so that none is left for the blocks of those calls.
StuckOnlyIfAllWait ==
  \/ <>[](\A w \in Workers : Blocked(w))
  \/ (\E c \in Calls : Entered(c)) ~> \A c \in Calls : ~ Entered(c)

=============================================================================
