------------------------------- MODULE Database -----------------------------
(***************************************************************************)
(* mpr::chubby::Database (src/storage/database.cc): leveldb instances under*)
(* the names of users.  Every member function holds mu_ throughout and is  *)
(* one action, of any thread; iterators are used without it.  The process  *)
(* may end at any time and start again.  leveldb is external: an instance  *)
(* locks its directory, and its iterators read what it held at first.      *)
(***************************************************************************)
EXTENDS Integers, FiniteSets

CONSTANTS
  Names, Anonymous,     \* users; "" is one of them
  Keys, Values, None,   \* keys are numbers
  Iterators,
  Directory,            \* where JoinPath puts the database of a name
  MaxInstances          \* bound: instances opened

DatabaseAssumption ==
  /\ Anonymous \in Names /\ Keys \subseteq Nat /\ None \notin Values
  /\ \A m, n \in Names : Directory[m] = Directory[n] => m = n

VARIABLES
  running,      \* the Database exists
  db_map_,      \* the instance of every name, 0 if there is none
  opened,       \* instances that have been opened
  stored,       \* what each directory holds
  iterator,     \* each iterator: its instance, snapshot and position, or None
  closed        \* history: instances that a Close or the destructor has ended

vars == <<running, db_map_, opened, stored, iterator, closed>>

Empty == [k \in Keys |-> None]

Init ==
  /\ running = FALSE
  /\ db_map_ = [n \in Names |-> 0] /\ opened = 0
  /\ stored = [d \in {Directory[n] : n \in Names} |-> Empty]
  /\ iterator = [i \in Iterators |-> None]
  /\ closed = {}

Alive == {db_map_[n] : n \in Names} \ {0}
Has(n) == running /\ db_map_[n] # 0

\* The directory is not locked by another instance.
Lockable(n) == \A m \in Names : Directory[m] = Directory[n] => db_map_[m] = 0

DoOpenDB(n) ==
  /\ opened < MaxInstances
  /\ Lockable(n)
  /\ opened' = opened + 1
  /\ db_map_' = [db_map_ EXCEPT ![n] = opened + 1]

\* The constructor opens the database of the anonymous user.
Construct ==
  /\ ~ running /\ running' = TRUE
  /\ DoOpenDB(Anonymous)
  /\ UNCHANGED <<stored, iterator, closed>>

\* The iterators go with the process.
End ==
  /\ running' = FALSE
  /\ db_map_' = [n \in Names |-> 0]
  /\ UNCHANGED <<opened, stored>>

Destroy == running /\ End /\ closed' = closed \cup Alive /\ UNCHANGED iterator

\* leveldb could not open a directory (DCHECK at :169), or the process is killed.
Abort == running /\ End /\ iterator' = [i \in Iterators |-> None] /\ UNCHANGED closed

\* Mutant: a name that is open is opened again.
OpenAgain(n) ==
  /\ running
  /\ opened < MaxInstances /\ opened' = opened + 1
  /\ db_map_' = [db_map_ EXCEPT ![n] = opened + 1]
  /\ UNCHANGED <<running, stored, iterator, closed>>

Open(n) ==
  /\ running /\ db_map_[n] = 0
  /\ DoOpenDB(n)
  /\ UNCHANGED <<running, stored, iterator, closed>>

Close(n) ==
  /\ Has(n)
  /\ closed' = closed \cup {db_map_[n]}
  /\ db_map_' = [db_map_ EXCEPT ![n] = 0]
  /\ UNCHANGED <<running, opened, stored, iterator>>

\* Put and Delete; Get changes nothing.  A name that is not open is NOT_FOUND.
Store(n, k, v) ==
  /\ Has(n)
  /\ stored' = [stored EXCEPT ![Directory[n]][k] = v]
  /\ UNCHANGED <<running, db_map_, opened, iterator, closed>>
Put(n, k, v) == Store(n, k, v)
Delete(n, k) == Store(n, k, None)

NewIterator(i, n) ==
  /\ Has(n) /\ iterator[i] = None
  /\ iterator' = [iterator EXCEPT
                    ![i] = [of |-> db_map_[n], sees |-> stored[Directory[n]], at |-> None]]
  /\ UNCHANGED <<running, db_map_, opened, stored, closed>>

\* The first entry with a key from k on, where the iterator goes.
EntriesFrom(i, k) == {j \in Keys : k <= j /\ iterator[i].sees[j] # None}
MoveTo(i, k) ==
  /\ iterator' = [iterator EXCEPT ![i].at =
                    IF EntriesFrom(i, k) = {} THEN None
                    ELSE CHOOSE j \in EntriesFrom(i, k) : \A l \in EntriesFrom(i, k) : j <= l]
  /\ UNCHANGED <<running, db_map_, opened, stored, closed>>

\* Nothing is known of an iterator whose instance is gone, and it is not used.
Usable(i) == iterator[i] # None /\ iterator[i].of \in Alive
Seek(i, k) == Usable(i) /\ MoveTo(i, k)
Next_(i) == Usable(i) /\ iterator[i].at # None /\ MoveTo(i, iterator[i].at + 1)

DeleteIterator(i) ==
  /\ iterator[i] # None
  /\ iterator' = [iterator EXCEPT ![i] = None]
  /\ UNCHANGED <<running, db_map_, opened, stored, closed>>

Next ==
  \/ Construct \/ Destroy \/ Abort
  \/ \E n \in Names :
       \/ Open(n) \/ Close(n)
       \/ \E k \in Keys : Delete(n, k) \/ \E v \in Values : Put(n, k, v)
       \/ \E i \in Iterators : NewIterator(i, n)
  \/ \E i \in Iterators :
       Next_(i) \/ DeleteIterator(i) \/ \E k \in Keys : Seek(i, k)

Spec == Init /\ [][Next]_vars

-----------------------------------------------------------------------------
(* Properties.                                                             *)

\* An iterator loses its instance only to a Close of its own name or to the
\* destructor: opening a name again, and closing others, leave it usable, and
\* opening after Close does not make it so again.
IteratorsOutliveOthers ==
  \A i \in Iterators : iterator[i] # None => (Usable(i) <=> iterator[i].of \notin closed)
=============================================================================
