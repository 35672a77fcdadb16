----------------------------- MODULE BinLogger ------------------------------
(***************************************************************************)
(* mpr::chubby::BinLogger (src/storage/bin_logger.cc): the replicated log  *)
(* kept in a leveldb database.                                             *)
(*                                                                         *)
(* leveldb is external: a map from keys to values in which Put, Delete and *)
(* Write(batch) are atomic and survive the end of the process.  The logger *)
(* passes WriteOptions() (sync = false), so a power loss takes the         *)
(* database back to an earlier state of it.  An entry is abstracted to     *)
(* what the log tells apart: its identity and its term.                    *)
(* The methods that hold mu_ touch the database and then the two members   *)
(* length_ and last_log_term_; ReadSlot and RemoveSlot take no lock, and   *)
(* the process may die anywhere, so each such method is two actions.       *)
(***************************************************************************)
EXTENDS Integers, Sequences

CONSTANTS
  Entries,      \* log entries: records with a field "term"
  Callers,      \* threads that use the logger
  None,         \* an absent key, or no caller
  MaxLength,    \* bound: slots of the database that are modelled
  MaxBatch,     \* bound: entries in one AppendEntryList
  KeepFrom,     \* callers discard only slots below this one (0: none)
  FreeUse       \* TRUE: any index is passed to Truncate and RemoveSlot

ASSUME LoggerAssumption ==
  /\ \A e \in Entries : e.term \in Nat
  /\ None \notin Entries \cup Callers \cup Nat
  /\ MaxLength \in Nat
  /\ MaxBatch \in Nat
  /\ KeepFrom \in Nat
  /\ FreeUse \in BOOLEAN

VARIABLES
  slots,           \* database: entry stored under IndexToKey(i)
  lengthTag,       \* database: value stored under kLengthTag
  onDisk,          \* database: what the operating system has written back
  proc,            \* "down", "running", "aborted" (a DCHECK failed)
  length_,
  last_log_term_,
  mu_,             \* the caller inside a method that holds mu_
  pc,              \* per caller: "idle", "append", "truncate", "remove"
  batch,           \* per caller: the entries being appended
  victim           \* per caller: the slot whose key is being removed

db     == <<slots, lengthTag>>
memory == <<length_, last_log_term_>>
args   == <<batch, victim>>
vars   == <<db, onDisk, proc, memory, mu_, pc, args>>

Slots == 0..MaxLength - 1

\* IndexToKey writes no digit of a negative index: its key is that of slot 0.
Key(i) == IF i < 0 THEN 0 ELSE i

\* What Get finds under the key of slot i, if anything.
ReadSlot(i) == IF Key(i) \in Slots THEN slots[Key(i)] ELSE None

Init ==
  /\ slots = [i \in Slots |-> None]
  /\ lengthTag = None
  /\ onDisk = db
  /\ proc = "down"
  /\ length_ = 0
  /\ last_log_term_ = -1
  /\ mu_ = None
  /\ pc = [c \in Callers |-> "idle"]
  /\ batch = [c \in Callers |-> <<>>]
  /\ victim = [c \in Callers |-> None]

-----------------------------------------------------------------------------
(* The process: start with the constructor, end at any point.              *)

\* The length read back from the database; a database without the tag is new.
StoredLength == IF lengthTag = None THEN 0 ELSE lengthTag

Open ==
  /\ proc = "down"
  /\ length_' = StoredLength
  /\ IF StoredLength > 0 /\ ReadSlot(StoredLength - 1) = None
     THEN \* DCHECK(ReadSlot(length_ - 1, ...)) stops the process
          /\ proc' = "aborted"
          /\ last_log_term_' = -1
     ELSE /\ proc' = "running"
          /\ last_log_term_' = IF StoredLength > 0
                               THEN ReadSlot(StoredLength - 1).term ELSE -1
  /\ UNCHANGED <<db, onDisk, mu_, pc, args>>

\* Whatever the callers were doing is gone.
Stop ==
  /\ proc' = "down"
  /\ length_' = 0
  /\ last_log_term_' = -1
  /\ mu_' = None
  /\ pc' = [c \in Callers |-> "idle"]
  /\ batch' = [c \in Callers |-> <<>>]
  /\ victim' = [c \in Callers |-> None]
  /\ UNCHANGED onDisk

\* The process ends; the database is not touched.
Die ==
  /\ proc # "down"
  /\ Stop
  /\ UNCHANGED db

\* The machine loses power: writes that were not written back are undone, the
\* latest ones first.
LosePower ==
  /\ Stop
  /\ slots' = onDisk[1]
  /\ lengthTag' = onDisk[2]

WriteBack ==
  /\ onDisk' = db
  /\ UNCHANGED <<db, proc, memory, mu_, pc, args>>

-----------------------------------------------------------------------------
(* AppendEntry and AppendEntryList: one batch with the entries and the new *)
(* length, then the members.                                               *)

Free(c) == proc = "running" /\ pc[c] = "idle"

\* Mutant: the entries go one slot too far.
WriteBatchOffByOne(c, es) ==
  /\ Free(c)
  /\ mu_ = None
  /\ length_ + Len(es) <= MaxLength
  /\ slots' = [i \in Slots |-> IF i \in length_ + 1 .. length_ + Len(es)
                               THEN es[i - length_] ELSE slots[i]]
  /\ lengthTag' = length_ + Len(es)
  /\ mu_' = c
  /\ pc' = [pc EXCEPT ![c] = "append"]
  /\ batch' = [batch EXCEPT ![c] = es]
  /\ UNCHANGED <<onDisk, proc, memory, victim>>

\* Mutant: does not lock mu_, so two appends take the same slots.
WriteBatchUnlocked(c, es) ==
  /\ Free(c)
  /\ length_ + Len(es) <= MaxLength
  /\ slots' = [i \in Slots |-> IF i \in length_ .. length_ + Len(es) - 1
                               THEN es[i - length_ + 1] ELSE slots[i]]
  /\ lengthTag' = length_ + Len(es)
  /\ mu_' = c
  /\ pc' = [pc EXCEPT ![c] = "append"]
  /\ batch' = [batch EXCEPT ![c] = es]
  /\ UNCHANGED <<onDisk, proc, memory, victim>>

WriteBatch(c, es) ==
  /\ Free(c)
  /\ mu_ = None
  /\ length_ + Len(es) <= MaxLength
  /\ slots' = [i \in Slots |-> IF i \in length_ .. length_ + Len(es) - 1
                               THEN es[i - length_ + 1] ELSE slots[i]]
  /\ lengthTag' = length_ + Len(es)
  /\ mu_' = c
  /\ pc' = [pc EXCEPT ![c] = "append"]
  /\ batch' = [batch EXCEPT ![c] = es]
  /\ UNCHANGED <<onDisk, proc, memory, victim>>

AppendEntry(c, e) == WriteBatch(c, <<e>>)

\* The batch may be empty: then only the tag is written.
AppendEntryList(c, es) == WriteBatch(c, es)

AppendReturn(c) ==
  /\ pc[c] = "append"
  /\ length_' = length_ + Len(batch[c])
  /\ last_log_term_' = IF batch[c] = <<>> THEN last_log_term_
                       ELSE batch[c][Len(batch[c])].term
  /\ mu_' = None
  /\ pc' = [pc EXCEPT ![c] = "idle"]
  /\ batch' = [batch EXCEPT ![c] = <<>>]
  /\ UNCHANGED <<db, onDisk, proc, victim>>

-----------------------------------------------------------------------------
(* Truncate: the new length is stored first, the last entry read after.    *)

\* A caller that keeps to the log names one of its slots (or none of them)
\* and, once it discards slots, keeps the ones it does not discard.
Within(i) ==
  /\ i < length_
  /\ length_ > KeepFrom => i >= KeepFrom

\* Mutant: the length in the database stays one above that in memory.
TruncateOneMore(c, i) ==
  /\ Free(c)
  /\ mu_ = None
  /\ FreeUse \/ Within(i)
  /\ LET n == (IF i < -1 THEN -1 ELSE i) + 1
     IN  /\ length_' = n
         /\ lengthTag' = n + 1
  /\ mu_' = c
  /\ pc' = [pc EXCEPT ![c] = "truncate"]
  /\ UNCHANGED <<slots, onDisk, proc, last_log_term_, args>>

Truncate(c, i) ==
  /\ Free(c)
  /\ mu_ = None
  /\ FreeUse \/ Within(i)
  /\ LET n == (IF i < -1 THEN -1 ELSE i) + 1
     IN  /\ length_' = n
         /\ lengthTag' = n
  /\ mu_' = c
  /\ pc' = [pc EXCEPT ![c] = "truncate"]
  /\ UNCHANGED <<slots, onDisk, proc, last_log_term_, args>>

\* Mutant: the term of the new last entry is not read.
TruncateReturnStale(c) ==
  /\ pc[c] = "truncate"
  /\ mu_' = None
  /\ pc' = [pc EXCEPT ![c] = "idle"]
  /\ UNCHANGED <<db, onDisk, proc, length_, last_log_term_, args>>

TruncateReturn(c) ==
  /\ pc[c] = "truncate"
  /\ \/ /\ length_ = 0               \* last_log_term_ keeps its old value
        /\ UNCHANGED <<proc, last_log_term_>>
     \/ /\ length_ > 0
        /\ ReadSlot(length_ - 1) # None
        /\ last_log_term_' = ReadSlot(length_ - 1).term
        /\ UNCHANGED proc
     \/ /\ length_ > 0
        /\ ReadSlot(length_ - 1) = None
        /\ proc' = "aborted"         \* DCHECK(ReadSlot(length_ - 1, ...))
        /\ UNCHANGED last_log_term_
  /\ mu_' = None
  /\ pc' = [pc EXCEPT ![c] = "idle"]
  /\ UNCHANGED <<db, onDisk, length_, args>>

-----------------------------------------------------------------------------
(* RemoveSlot: Get, then Delete, with no lock around the two.              *)

Discardable(i) == i \in 0 .. KeepFrom - 1 /\ KeepFrom < length_

RemoveSlot(c, i) ==
  /\ Free(c)
  /\ FreeUse \/ Discardable(i)
  /\ ReadSlot(i) # None              \* otherwise it returns false
  /\ pc' = [pc EXCEPT ![c] = "remove"]
  /\ victim' = [victim EXCEPT ![c] = Key(i)]
  /\ UNCHANGED <<db, onDisk, proc, memory, mu_, batch>>

RemoveReturn(c) ==
  /\ proc = "running"
  /\ pc[c] = "remove"
  /\ slots' = [slots EXCEPT ![victim[c]] = None]
  /\ pc' = [pc EXCEPT ![c] = "idle"]
  /\ victim' = [victim EXCEPT ![c] = None]
  /\ UNCHANGED <<lengthTag, onDisk, proc, memory, mu_, batch>>

-----------------------------------------------------------------------------
Batches == UNION {[1..n -> Entries] : n \in 0..MaxBatch}

Step(c) ==
  \/ \E e \in Entries : AppendEntry(c, e)
  \/ \E es \in Batches : AppendEntryList(c, es)
  \/ AppendReturn(c)
  \/ \E i \in -2 .. MaxLength - 1 : Truncate(c, i)
  \/ TruncateReturn(c)
  \/ \E i \in -1 .. MaxLength - 1 : RemoveSlot(c, i)
  \/ RemoveReturn(c)

Next == Open \/ Die \/ LosePower \/ WriteBack \/ \E c \in Callers : Step(c)

Spec == Init /\ [][Next]_vars

-----------------------------------------------------------------------------
(* Properties.                                                             *)

DatabaseTypes ==
  /\ slots \in [Slots -> Entries \cup {None}]
  /\ lengthTag \in 0..MaxLength \cup {None}
  /\ onDisk \in [Slots -> Entries \cup {None}] \X (0..MaxLength \cup {None})

MemberTypes ==
  /\ proc \in {"down", "running", "aborted"}
  /\ length_ \in 0..MaxLength
  /\ last_log_term_ \in Nat \cup {-1}

CallerTypes ==
  /\ mu_ \in Callers \cup {None}
  /\ pc \in [Callers -> {"idle", "append", "truncate", "remove"}]
  /\ batch \in [Callers -> Seq(Entries)]
  /\ victim \in [Callers -> Slots \cup {None}]

TypeOK == DatabaseTypes /\ MemberTypes /\ CallerTypes

\* What GetLength and GetLastLogIndexAndTerm report (they need mu_) is what is
\* in the database: the length is the stored one, the term that of the last
\* stored entry.  (The term of an empty log is left out: Truncate does not
\* reset it.)
ReportsTheDatabase ==
  proc = "running" /\ mu_ = None =>
    /\ length_ = StoredLength
    /\ length_ > 0 => last_log_term_ = ReadSlot(length_ - 1).term

\* At every moment, in the middle of an operation too, each slot below the
\* stored length that was not discarded holds an entry, so a process that
\* dies there, or a machine that loses the latest writes, finds a complete log
\* when it starts again.
NoGap == \A i \in KeepFrom .. StoredLength - 1 : ReadSlot(i) # None

\* Neither the constructor nor Truncate stops on DCHECK(ReadSlot(length_ - 1))
\* (bin_logger.cc:51 and :161), whichever operation a crash or a power loss
\* interrupted and however many writes it undid.
NeverAborts == proc # "aborted"

\* The constructor's assertion alone: the entry before the stored length is
\* there when the log is opened (bin_logger.cc:51).
OpenFindsLastSlot ==
  proc = "down" /\ StoredLength > 0 => ReadSlot(StoredLength - 1) # None

-----------------------------------------------------------------------------
(* The inductive invariant behind them, for callers that keep to the log.  *)

\* A database with stored length tag: every slot below it is there, apart from
\* slots below KeepFrom once there is more than they are.
Complete(s, tag) ==
  tag # None => \A i \in 0 .. tag - 1 :
                  s[i] = None => i < KeepFrom /\ KeepFrom < tag

\* Who is in a method that holds mu_, and when.
LockOK ==
  /\ \A c \in Callers : pc[c] \in {"append", "truncate"} <=> mu_ = c
  /\ proc = "down" => mu_ = None /\ \A c \in Callers : pc[c] = "idle"

\* How the members relate to the database, between and inside the methods.
MembersOK ==
  /\ proc # "aborted"
  /\ proc = "running" /\ mu_ = None =>
       /\ length_ = StoredLength
       /\ length_ > 0 => last_log_term_ = slots[length_ - 1].term
  /\ \A c \in Callers :
       /\ pc[c] = "append" =>
            /\ lengthTag = length_ + Len(batch[c])
            /\ \A i \in 1..Len(batch[c]) : slots[length_ + i - 1] = batch[c][i]
            /\ length_ > 0 => last_log_term_ = slots[length_ - 1].term
       /\ pc[c] = "truncate" => lengthTag = length_
       /\ pc[c] = "remove" => /\ victim[c] \in 0 .. KeepFrom - 1
                              /\ KeepFrom < length_

LoggerInv ==
  /\ TypeOK
  /\ Complete(slots, lengthTag)
  /\ Complete(onDisk[1], onDisk[2])
  /\ LockOK
  /\ MembersOK

-----------------------------------------------------------------------------
\* The slots of a database up to its length are a log.  An append or a
\* truncation happens at one instant, the database write; no end of the process
\* undoes it or shows half of it, and a power loss takes the log back to what it
\* was at an earlier moment.
LogOf(s, tag) == [i \in 1 .. (IF tag = None THEN 0 ELSE tag) |-> s[i - 1]]

Log == INSTANCE ReplicatedLog
         WITH Gap <- None, log <- LogOf(slots, lengthTag),
              saved <- LogOf(onDisk[1], onDisk[2])
ImplementsLog == Log!Spec

=============================================================================
