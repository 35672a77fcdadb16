----------------------------- MODULE RefCounted -----------------------------
(***************************************************************************)
(* RefCountedBase, RefCounted and scoped_refptr (src/base/ref_counted.h):  *)
(* one object shared by the scoped_refptrs ("handles") of several threads. *)
(*                                                                         *)
(* A load, fetch_add, fetch_sub or store of ref_ is one action.  A handle  *)
(* is used by one thread at a time, the one that holds it; assigning a     *)
(* handle is a copy into a fresh one, a move and a drop of the old one.    *)
(***************************************************************************)
EXTENDS Naturals, FiniteSets

CONSTANTS Threads, Handles, Nobody, NoHandle

HandlesAssumption ==
  /\ IsFiniteSet(Handles) /\ NoHandle \notin Handles
  /\ Nobody \notin Threads

VARIABLES
  ref_,
  alive,        \* the object has not been deleted
  holder,       \* the thread that holds a handle to the object, or Nobody
  pc,           \* "idle"; in Ref "add"; in Unref "test", "sub", "zero", "delete"
  arg           \* the handle Ref is called for, or Unref gives up

vars == <<ref_, alive, holder, pc, arg>>

Held == {h \in Handles : holder[h] # Nobody}
Fresh(h) == holder[h] = Nobody /\ \A t \in Threads : arg[t] # h

\* The object is born with a count of 1, for the handle made from new T.
Init ==
  /\ ref_ = 1 /\ alive = TRUE
  /\ \E t \in Threads, h \in Handles :
       holder = [g \in Handles |-> IF g = h THEN t ELSE Nobody]
  /\ pc = [t \in Threads |-> "idle"]
  /\ arg = [t \in Threads |-> NoHandle]

Goto(t, p, h) ==
  /\ pc' = [pc EXCEPT ![t] = p]
  /\ arg' = [arg EXCEPT ![t] = h]

\* Mutant: the source keeps its pointer.
MoveKeepsSource(t, u, g, h) ==
  /\ pc[t] = "idle" /\ holder[g] = t /\ Fresh(h)
  /\ holder' = [holder EXCEPT ![h] = u]
  /\ UNCHANGED <<ref_, alive, pc, arg>>

\* A move, to another handle and possibly another thread.
Move(t, u, g, h) ==
  /\ pc[t] = "idle" /\ holder[g] = t /\ Fresh(h)
  /\ holder' = [holder EXCEPT ![g] = Nobody, ![h] = u]
  /\ UNCHANGED <<ref_, alive, pc, arg>>

\* A copy of a handle the thread holds goes through Ref.
Copy(t, h) ==
  /\ pc[t] = "idle" /\ Fresh(h)
  /\ \E g \in Handles : holder[g] = t
  /\ Goto(t, "add", h)
  /\ UNCHANGED <<ref_, alive, holder>>

\* Mutant: the copy is not counted.
AddNothing(t) ==
  /\ pc[t] = "add"
  /\ holder' = [holder EXCEPT ![arg[t]] = t]
  /\ Goto(t, "idle", NoHandle)
  /\ UNCHANGED <<ref_, alive>>

Add(t) ==
  /\ pc[t] = "add"
  /\ ref_' = ref_ + 1
  /\ holder' = [holder EXCEPT ![arg[t]] = t]
  /\ Goto(t, "idle", NoHandle)
  /\ UNCHANGED alive

\* The destructor of a handle goes through Unref.
Drop(t, h) ==
  /\ pc[t] = "idle" /\ holder[h] = t
  /\ Goto(t, "test", h)
  /\ UNCHANGED <<ref_, alive, holder>>

\* Mutant: takes the shortcut with one other owner left.
TestOffByOne(t) ==
  /\ pc[t] = "test"
  /\ IF ref_ <= 2
     THEN /\ holder' = [holder EXCEPT ![arg[t]] = Nobody]
          /\ Goto(t, "zero", NoHandle)
     ELSE Goto(t, "sub", arg[t]) /\ UNCHANGED holder
  /\ UNCHANGED <<ref_, alive>>

\* The only owner does not decrement.
Test(t) ==
  /\ pc[t] = "test"
  /\ IF ref_ = 1
     THEN /\ holder' = [holder EXCEPT ![arg[t]] = Nobody]
          /\ Goto(t, "zero", NoHandle)
     ELSE Goto(t, "sub", arg[t]) /\ UNCHANGED holder
  /\ UNCHANGED <<ref_, alive>>

\* Mutant: relies on the shortcut alone to find the last owner.
SubNeverLast(t) ==
  /\ pc[t] = "sub"
  /\ ref_' = ref_ - 1
  /\ holder' = [holder EXCEPT ![arg[t]] = Nobody]
  /\ Goto(t, "idle", NoHandle)
  /\ UNCHANGED alive

Sub(t) ==
  /\ pc[t] = "sub"
  /\ ref_' = ref_ - 1
  /\ holder' = [holder EXCEPT ![arg[t]] = Nobody]
  /\ Goto(t, IF ref_ = 1 THEN "zero" ELSE "idle", NoHandle)
  /\ UNCHANGED alive

\* DCHECK((ref_.store(0), true)).
Zero(t) ==
  /\ pc[t] = "zero"
  /\ ref_' = 0
  /\ Goto(t, "delete", NoHandle)
  /\ UNCHANGED <<alive, holder>>

\* Traits::Destruct.
Delete(t) ==
  /\ pc[t] = "delete"
  /\ alive' = FALSE
  /\ Goto(t, "idle", NoHandle)
  /\ UNCHANGED <<ref_, holder>>

Finish(t) == Add(t) \/ Test(t) \/ Sub(t) \/ Zero(t) \/ Delete(t)

Next ==
  \E t \in Threads :
    \/ \E u \in Threads, g, h \in Handles : Move(t, u, g, h)
    \/ \E h \in Handles : Copy(t, h) \/ Drop(t, h)
    \/ Finish(t)

\* A thread finishes the Ref or Unref it is in.
Spec == Init /\ [][Next]_vars /\ \A t \in Threads : WF_vars(Finish(t))

-----------------------------------------------------------------------------
(* Properties.                                                             *)

TypeOK ==
  /\ ref_ \in Nat
  /\ alive \in BOOLEAN
  /\ holder \in [Handles -> Threads \cup {Nobody}]
  /\ pc \in [Threads -> {"idle", "add", "test", "sub", "zero", "delete"}]
  /\ arg \in [Threads -> Handles \cup {NoHandle}]

Deleting(t) == pc[t] \in {"zero", "delete"}

\* The count is the number of handles, those being copied or dropped included,
\* until a thread has found itself the last owner: a thread that holds a handle
\* and reads 1 (RefCountIsOne) shares the object with nobody.
CountIsHandles ==
  alive /\ (\A t \in Threads : ~ Deleting(t)) => ref_ = Cardinality(Held)

\* The object is deleted once, by one thread, when no handle is left and no
\* other thread is inside Ref or Unref.
DeletedByTheLast ==
  \A t \in Threads :
    Deleting(t) => /\ alive /\ Held = {}
                   /\ \A u \in Threads \ {t} : pc[u] = "idle"

\* Nobody who holds a handle, or is inside Ref or Unref, sees it deleted.
NoUseAfterDelete ==
  ~ alive => Held = {} /\ \A t \in Threads : pc[t] = "idle"

\* Deletion is safe before and after: only the last owner deletes, and what is
\* deleted is never referred to again.
SafeDeletion == DeletedByTheLast /\ NoUseAfterDelete

\* DCHECK_GE(ref_.load(), 1) in Ref (:19), DCHECK_GT(ref_.load(), 0) in Unref
\* (:24), whatever other threads do between the check and the operation.
ChecksHold ==
  \A t \in Threads : pc[t] \in {"add", "test", "sub"} => ref_ >= 1

\* An object that no handle refers to any more is deleted.
NoLeak == Held = {} ~> ~ alive

-----------------------------------------------------------------------------
(* The inductive invariant: what a thread in the middle of Ref or Unref    *)
(* still relies on.                                                        *)

InRef(t) ==
  pc[t] = "add" => /\ arg[t] \in Handles /\ holder[arg[t]] = Nobody
                   /\ \E g \in Handles : holder[g] = t
                   /\ \A u \in Threads \ {t} : arg[u] # arg[t]

InUnref(t) ==
  /\ pc[t] \in {"test", "sub"} => arg[t] \in Handles /\ holder[arg[t]] = t
  /\ pc[t] \in {"idle", "zero", "delete"} => arg[t] = NoHandle

RefInv ==
  /\ TypeOK
  /\ \A t \in Threads : InRef(t) /\ InUnref(t)
  /\ CountIsHandles
  /\ DeletedByTheLast
  /\ NoUseAfterDelete

=============================================================================
