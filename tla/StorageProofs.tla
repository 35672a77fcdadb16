------------------------------ MODULE StorageProofs --------------------------
(***************************************************************************)
(* Theorems about what outlives a process.  BinLogger, for any set of      *)
(* entries and callers and any bounds, with callers that keep to the log   *)
(* (~FreeUse): LoggerInv is inductive, through the end of the process and  *)
(* the loss of power.  Database and FileSystem, as components of MCStorage *)
(* and for any names, keys, iterators, trees and creators.                 *)
(***************************************************************************)
EXTENDS MCStorage, SequenceTheorems, WellFoundedInduction, TLAPS

\* A set of naturals has a least element.
LEMMA LeastNatural ==
  ASSUME NEW T, T \subseteq Nat, T # {}
  PROVE  \E x \in T : \A y \in T : x <= y
<1> DEFINE R == {p \in Nat \X Nat : p[1] < p[2]}
<1>1. IsWellFoundedOn(R, Nat)
  BY NatLessThanWellFounded DEF OpToRel
<1>2. PICK x \in T : \A y \in T : ~ (<<y, x>> \in R)
  BY <1>1, WFMin
<1>3. ASSUME NEW y \in T PROVE x <= y
  <2>1. ~ (<<y, x>> \in R)
    BY <1>2
  <2> QED BY <2>1
<1> QED BY <1>3

-----------------------------------------------------------------------------
(* BinLogger.                                                              *)

LEMMA StoredFacts ==
  ASSUME TypeOK
  PROVE  /\ MaxLength \in Nat /\ KeepFrom \in Nat
         /\ None \notin Nat /\ None \notin Entries
         /\ StoredLength \in 0..MaxLength
         /\ \A i \in 0 .. MaxLength - 1 : ReadSlot(i) = slots[i]
<1>1. /\ MaxLength \in Nat /\ KeepFrom \in Nat
      /\ None \notin Nat /\ None \notin Entries
  BY LoggerAssumption
<1>2. StoredLength \in 0..MaxLength
  BY <1>1 DEF TypeOK, DatabaseTypes, StoredLength
<1>3. \A i \in 0 .. MaxLength - 1 : ReadSlot(i) = slots[i]
  BY <1>1 DEF ReadSlot, Key, Slots
<1> QED BY <1>1, <1>2, <1>3

(* The last entry of a complete database is there, and so is its term. *)
LEMMA LastEntry ==
  ASSUME TypeOK, Complete(slots, lengthTag), StoredLength > 0
  PROVE  /\ ReadSlot(StoredLength - 1) = slots[StoredLength - 1]
         /\ slots[StoredLength - 1] \in Entries
         /\ slots[StoredLength - 1].term \in Nat
<1>1. lengthTag = StoredLength /\ StoredLength - 1 \in 0 .. MaxLength - 1
  BY StoredFacts DEF StoredLength
<1>2. slots[StoredLength - 1] # None
  BY <1>1, StoredFacts DEF Complete
<1>3. slots[StoredLength - 1] \in Entries
  BY <1>1, <1>2 DEF TypeOK, DatabaseTypes, Slots
<1> QED BY <1>1, <1>3, StoredFacts, LoggerAssumption

LEMMA InitInv == Init => LoggerInv
<1> SUFFICES ASSUME Init PROVE LoggerInv
  OBVIOUS
<1> USE LoggerAssumption DEF Init, db
<1>1. DatabaseTypes
  BY DEF DatabaseTypes
<1>2. MemberTypes
  BY DEF MemberTypes
<1>3. CallerTypes
  BY DEF CallerTypes
<1>4. Complete(slots, lengthTag) /\ Complete(onDisk[1], onDisk[2])
  BY DEF Complete
<1>5. LockOK
  BY DEF LockOK
<1>6. MembersOK
  BY DEF MembersOK
<1> QED BY <1>1, <1>2, <1>3, <1>4, <1>5, <1>6 DEF LoggerInv, TypeOK

-----------------------------------------------------------------------------
(* The process and the machine.                                            *)

LEMMA OpenInv ==
  ASSUME LoggerInv, Open
  PROVE  LoggerInv'
<1>1. /\ proc = "down"
      /\ length_' = StoredLength
      /\ UNCHANGED <<slots, lengthTag, onDisk, mu_, pc, batch, victim>>
  BY DEF Open, db, args
<1>2. /\ proc' = "running"
      /\ last_log_term_' = IF StoredLength > 0
                           THEN slots[StoredLength - 1].term ELSE -1
      /\ StoredLength > 0 => slots[StoredLength - 1].term \in Nat
  <2>1. StoredLength > 0 => ReadSlot(StoredLength - 1) # None
    BY LastEntry, LoggerAssumption DEF LoggerInv
  <2> QED BY <2>1, LastEntry DEF Open, LoggerInv
<1>3. DatabaseTypes'
  BY <1>1 DEF LoggerInv, TypeOK, DatabaseTypes
<1>4. MemberTypes'
  BY <1>1, <1>2, StoredFacts DEF LoggerInv, MemberTypes
<1>5. CallerTypes'
  BY <1>1 DEF LoggerInv, TypeOK, CallerTypes
<1>6. Complete(slots, lengthTag)' /\ Complete(onDisk[1], onDisk[2])'
  BY <1>1 DEF LoggerInv, Complete
<1>7. LockOK'
  BY <1>1, <1>2 DEF LoggerInv, LockOK
<1>8. MembersOK'
  BY <1>1, <1>2 DEF LoggerInv, LockOK, MembersOK, StoredLength
<1> QED BY <1>3, <1>4, <1>5, <1>6, <1>7, <1>8 DEF LoggerInv, TypeOK

(* The process stops and the database is what it was or what was on disk. *)
LEMMA StopInv ==
  ASSUME LoggerInv, Stop,
         \/ slots' = slots /\ lengthTag' = lengthTag
         \/ slots' = onDisk[1] /\ lengthTag' = onDisk[2]
  PROVE  LoggerInv'
<1>1. /\ proc' = "down" /\ length_' = 0 /\ last_log_term_' = -1
      /\ mu_' = None
      /\ pc' = [c \in Callers |-> "idle"]
      /\ batch' = [c \in Callers |-> <<>>]
      /\ victim' = [c \in Callers |-> None]
      /\ onDisk' = onDisk
  BY DEF Stop
<1>2. DatabaseTypes'
  BY <1>1 DEF LoggerInv, TypeOK, DatabaseTypes
<1>3. MemberTypes'
  BY <1>1, LoggerAssumption DEF MemberTypes
<1>4. CallerTypes'
  BY <1>1 DEF CallerTypes
<1>5. Complete(slots, lengthTag)' /\ Complete(onDisk[1], onDisk[2])'
  BY <1>1 DEF LoggerInv, Complete
<1>6. LockOK'
  BY <1>1, LoggerAssumption DEF LockOK
<1>7. MembersOK'
  BY <1>1 DEF MembersOK
<1> QED BY <1>2, <1>3, <1>4, <1>5, <1>6, <1>7 DEF LoggerInv, TypeOK

LEMMA WriteBackInv ==
  ASSUME LoggerInv, WriteBack
  PROVE  LoggerInv'
<1>1. /\ onDisk' = <<slots, lengthTag>>
      /\ UNCHANGED <<slots, lengthTag, proc, length_, last_log_term_, mu_, pc,
                     batch, victim>>
  BY DEF WriteBack, db, memory, args
<1>2. DatabaseTypes'
  BY <1>1 DEF LoggerInv, TypeOK, DatabaseTypes
<1>3. MemberTypes' /\ CallerTypes'
  BY <1>1 DEF LoggerInv, TypeOK, MemberTypes, CallerTypes
<1>4. Complete(slots, lengthTag)' /\ Complete(onDisk[1], onDisk[2])'
  BY <1>1 DEF LoggerInv, Complete
<1>5. LockOK' /\ MembersOK'
  BY <1>1 DEF LoggerInv, LockOK, MembersOK, StoredLength
<1> QED BY <1>2, <1>3, <1>4, <1>5 DEF LoggerInv, TypeOK

-----------------------------------------------------------------------------
(* Appends.                                                                *)

LEMMA WriteBatchInv ==
  ASSUME LoggerInv, ~FreeUse, NEW c \in Callers, NEW es \in Seq(Entries),
         WriteBatch(c, es)
  PROVE  LoggerInv'
<1> DEFINE n == Len(es)
<1>1. /\ proc = "running" /\ pc[c] = "idle" /\ mu_ = None
      /\ length_ + n <= MaxLength
      /\ slots' = [i \in Slots |-> IF i \in length_ .. length_ + n - 1
                                   THEN es[i - length_ + 1] ELSE slots[i]]
      /\ lengthTag' = length_ + n
      /\ mu_' = c
      /\ pc' = [pc EXCEPT ![c] = "append"]
      /\ batch' = [batch EXCEPT ![c] = es]
      /\ UNCHANGED <<onDisk, proc, length_, last_log_term_, victim>>
  BY DEF WriteBatch, Free, memory
<1>2. n \in Nat /\ \A i \in 1..n : es[i] \in Entries
  OBVIOUS
<1>3. /\ length_ \in Nat /\ MaxLength \in Nat /\ KeepFrom \in Nat
      /\ length_ = StoredLength
      /\ length_ > 0 => last_log_term_ = slots[length_ - 1].term
  BY <1>1, LoggerAssumption DEF LoggerInv, TypeOK, MemberTypes, MembersOK
<1>4. /\ \A i \in 0 .. length_ - 1 : slots'[i] = slots[i]
      /\ \A i \in 1..n : slots'[length_ + i - 1] = es[i]
  BY <1>1, <1>2, <1>3 DEF Slots
<1> HIDE DEF n
<1>5. DatabaseTypes'
  <2>1. \A i \in Slots : i \in length_ .. length_ + n - 1 => es[i - length_ + 1] \in Entries
    BY <1>2, <1>3 DEF Slots
  <2>2. slots' \in [Slots -> Entries \cup {None}]
    BY <1>1, <2>1 DEF LoggerInv, TypeOK, DatabaseTypes
  <2>3. lengthTag' \in 0..MaxLength
    BY <1>1, <1>2, <1>3
  <2> QED BY <1>1, <2>2, <2>3 DEF LoggerInv, TypeOK, DatabaseTypes
<1>6. MemberTypes'
  BY <1>1 DEF LoggerInv, TypeOK, MemberTypes
<1>7. CallerTypes'
  BY <1>1 DEF LoggerInv, TypeOK, CallerTypes
<1>8. Complete(slots, lengthTag)' /\ Complete(onDisk[1], onDisk[2])'
  <2>1. ASSUME NEW i \in 0 .. lengthTag' - 1, slots'[i] = None
        PROVE  i < KeepFrom /\ KeepFrom < lengthTag'
    <3>1. i < length_
      <4> SUFFICES ASSUME ~(i < length_) PROVE FALSE
        OBVIOUS
      <4>1. i - length_ + 1 \in 1..n
        BY <1>1, <1>2, <1>3
      <4>2. slots'[length_ + (i - length_ + 1) - 1] \in Entries
        BY <1>2, <1>4, <4>1
      <4>3. length_ + (i - length_ + 1) - 1 = i
        BY <1>1, <1>2, <1>3
      <4> QED BY <2>1, <4>2, <4>3, LoggerAssumption
    <3>2. i \in 0 .. length_ - 1 /\ length_ > 0
      BY <1>1, <1>2, <1>3, <2>1, <3>1
    <3>3. lengthTag = length_ /\ lengthTag # None
      BY <1>3, <3>2, LoggerAssumption DEF StoredLength
    <3>4. slots[i] = None
      BY <1>4, <2>1, <3>2
    <3>5. i < KeepFrom /\ KeepFrom < length_
      BY <3>2, <3>3, <3>4 DEF LoggerInv, Complete
    <3> QED BY <1>1, <1>2, <1>3, <3>5
  <2> QED BY <1>1, <2>1 DEF LoggerInv, Complete
<1>9. LockOK'
  BY <1>1, LoggerAssumption DEF LoggerInv, LockOK, TypeOK, CallerTypes
<1>10. MembersOK'
  <2>1. /\ pc'[c] = "append" /\ batch'[c] = es
        /\ \A b \in Callers : b # c => pc'[b] = pc[b] /\ batch'[b] = batch[b]
    BY <1>1 DEF LoggerInv, TypeOK, CallerTypes
  <2>2. \A b \in Callers : b # c => pc[b] \notin {"append", "truncate"}
    BY <1>1, LoggerAssumption DEF LoggerInv, LockOK
  <2>3. StoredLength' = length_ + n
    BY <1>1, <1>2, <1>3, LoggerAssumption DEF StoredLength
  <2>4. length_ > 0 => slots'[length_ - 1] = slots[length_ - 1]
    BY <1>3, <1>4
  <2>5. proc' = "running" /\ mu_' # None
    BY <1>1, LoggerAssumption
  <2>6. ASSUME pc'[c] = "append"
        PROVE  /\ lengthTag' = length_' + Len(batch'[c])
               /\ \A i \in 1..Len(batch'[c]) : slots'[length_' + i - 1] = batch'[c][i]
               /\ length_' > 0 => last_log_term_' = slots'[length_' - 1].term
    <3>1. lengthTag' = length_' + Len(batch'[c])
      BY <1>1, <1>3, <2>1 DEF n
    <3>2. \A i \in 1..Len(batch'[c]) : slots'[length_' + i - 1] = batch'[c][i]
      BY <1>1, <1>4, <2>1 DEF n
    <3>3. length_' > 0 => last_log_term_' = slots'[length_' - 1].term
      BY <1>1, <1>3, <2>4
    <3> QED BY <3>1, <3>2, <3>3
  <2>7. ASSUME NEW b \in Callers, pc'[b] = "remove"
        PROVE  victim'[b] \in 0 .. KeepFrom - 1 /\ KeepFrom < length_'
    BY <1>1, <2>1, <2>7 DEF LoggerInv, MembersOK
  <2> QED BY <2>1, <2>2, <2>5, <2>6, <2>7 DEF MembersOK
<1> QED BY <1>5, <1>6, <1>7, <1>8, <1>9, <1>10 DEF LoggerInv, TypeOK

LEMMA AppendReturnInv ==
  ASSUME LoggerInv, NEW c \in Callers, AppendReturn(c)
  PROVE  LoggerInv'
<1> DEFINE es == batch[c]
           n  == Len(es)
<1>1. /\ pc[c] = "append"
      /\ length_' = length_ + n
      /\ last_log_term_' = IF es = <<>> THEN last_log_term_ ELSE es[n].term
      /\ mu_' = None
      /\ pc' = [pc EXCEPT ![c] = "idle"]
      /\ batch' = [batch EXCEPT ![c] = <<>>]
      /\ UNCHANGED <<slots, lengthTag, onDisk, proc, victim>>
  BY DEF AppendReturn, db
<1>2. es \in Seq(Entries) /\ n \in Nat /\ length_ \in Nat
  BY LoggerAssumption DEF LoggerInv, TypeOK, CallerTypes, MemberTypes
<1>3. /\ lengthTag = length_ + n
      /\ \A i \in 1..n : slots[length_ + i - 1] = es[i]
      /\ length_ > 0 => last_log_term_ = slots[length_ - 1].term
  BY <1>1 DEF LoggerInv, MembersOK
<1>4. StoredLength = length_ + n
  BY <1>2, <1>3, LoggerAssumption DEF StoredLength
<1>5. last_log_term_' \in Nat \cup {-1}
  <2>1. es # <<>> => es[n].term \in Nat
    BY <1>2, LoggerAssumption
  <2> QED BY <1>1, <2>1 DEF LoggerInv, TypeOK, MemberTypes
<1>6. length_' > 0 => last_log_term_' = slots[length_' - 1].term
  <2>1. CASE n = 0
    <3>1. es = <<>>
      BY <1>2, <2>1
    <3> QED BY <1>1, <1>2, <1>3, <2>1, <3>1
  <2>2. CASE n > 0
    <3>1. es # <<>> /\ slots[length_ + n - 1] = es[n]
      BY <1>2, <1>3, <2>2
    <3>2. length_' - 1 = length_ + n - 1
      BY <1>1, <1>2
    <3> QED BY <1>1, <3>1, <3>2
  <2> QED BY <1>2, <2>1, <2>2
<1> HIDE DEF n
<1>7. DatabaseTypes'
  BY <1>1 DEF LoggerInv, TypeOK, DatabaseTypes
<1>8. MemberTypes'
  BY <1>1, <1>4, <1>5, StoredFacts DEF LoggerInv, TypeOK, MemberTypes
<1>9. CallerTypes'
  BY <1>1 DEF LoggerInv, TypeOK, CallerTypes
<1>10. Complete(slots, lengthTag)' /\ Complete(onDisk[1], onDisk[2])'
  BY <1>1 DEF LoggerInv, Complete
<1>11. LockOK'
  BY <1>1, LoggerAssumption DEF LoggerInv, LockOK, TypeOK, CallerTypes
<1>12. MembersOK'
  <2>1. \A b \in Callers : pc'[b] \notin {"append", "truncate"}
    BY <1>1, LoggerAssumption DEF LoggerInv, LockOK, TypeOK, CallerTypes
  <2>2. \A b \in Callers : pc'[b] = "remove" => pc[b] = "remove"
    BY <1>1 DEF LoggerInv, TypeOK, CallerTypes
  <2>3. StoredLength' = StoredLength
    BY <1>1 DEF StoredLength
  <2>4. length_' = StoredLength' /\ proc' # "aborted"
    BY <1>1, <1>4, <2>3 DEF LoggerInv, MembersOK
  <2>5. ASSUME NEW b \in Callers, pc'[b] = "remove"
        PROVE  victim'[b] \in 0 .. KeepFrom - 1 /\ KeepFrom < length_'
    <3>1. victim[b] \in 0 .. KeepFrom - 1 /\ KeepFrom < length_
      BY <2>2, <2>5 DEF LoggerInv, MembersOK
    <3>2. n \in Nat /\ KeepFrom \in Nat
      BY <1>2, LoggerAssumption DEF n
    <3> QED BY <1>1, <1>2, <3>1, <3>2
  <2> QED BY <1>1, <1>6, <2>1, <2>4, <2>5 DEF MembersOK
<1> QED BY <1>7, <1>8, <1>9, <1>10, <1>11, <1>12 DEF LoggerInv, TypeOK

-----------------------------------------------------------------------------
(* Truncation and removal.                                                 *)

LEMMA TruncateInv ==
  ASSUME LoggerInv, ~FreeUse, NEW c \in Callers, NEW i \in Int, Truncate(c, i)
  PROVE  LoggerInv'
<1> DEFINE n == (IF i < -1 THEN -1 ELSE i) + 1
<1>1. /\ proc = "running" /\ pc[c] = "idle" /\ mu_ = None
      /\ i < length_
      /\ length_ > KeepFrom => i >= KeepFrom
      /\ length_' = n
      /\ lengthTag' = n
      /\ mu_' = c
      /\ pc' = [pc EXCEPT ![c] = "truncate"]
      /\ UNCHANGED <<slots, onDisk, proc, last_log_term_, batch, victim>>
  BY DEF Truncate, Free, Within, args
<1>2. length_ \in Nat /\ KeepFrom \in Nat /\ MaxLength \in Nat
      /\ length_ <= MaxLength /\ length_ = StoredLength
  BY <1>1, LoggerAssumption DEF LoggerInv, TypeOK, MemberTypes, MembersOK
<1>3. n \in 0..length_ /\ (length_ > KeepFrom => n > KeepFrom)
  BY <1>1, <1>2
<1> HIDE DEF n
<1>4. DatabaseTypes'
  BY <1>1, <1>2, <1>3 DEF LoggerInv, TypeOK, DatabaseTypes
<1>5. MemberTypes'
  BY <1>1, <1>2, <1>3 DEF LoggerInv, TypeOK, MemberTypes
<1>6. CallerTypes'
  BY <1>1 DEF LoggerInv, TypeOK, CallerTypes
<1>7. Complete(slots, lengthTag)' /\ Complete(onDisk[1], onDisk[2])'
  <2>1. ASSUME NEW j \in 0 .. n - 1, slots[j] = None
        PROVE  j < KeepFrom /\ KeepFrom < n
    <3>1. j \in 0 .. length_ - 1 /\ length_ > 0
      BY <1>2, <1>3
    <3>2. lengthTag = length_ /\ lengthTag # None
      BY <1>2, <3>1, LoggerAssumption DEF StoredLength
    <3>3. j < KeepFrom /\ KeepFrom < length_
      BY <2>1, <3>1, <3>2 DEF LoggerInv, Complete
    <3> QED BY <1>2, <1>3, <3>3
  <2> QED BY <1>1, <2>1 DEF LoggerInv, Complete
<1>8. LockOK'
  BY <1>1, LoggerAssumption DEF LoggerInv, LockOK, TypeOK, CallerTypes
<1>9. MembersOK'
  <2>1. /\ pc'[c] = "truncate"
        /\ \A b \in Callers : b # c => pc'[b] = pc[b]
    BY <1>1 DEF LoggerInv, TypeOK, CallerTypes
  <2>2. \A b \in Callers : b # c => pc[b] \notin {"append", "truncate"}
    BY <1>1, LoggerAssumption DEF LoggerInv, LockOK
  <2>3. StoredLength' = n
    BY <1>1, <1>3, LoggerAssumption DEF StoredLength
  <2>4. proc' = "running" /\ mu_' # None
    BY <1>1, LoggerAssumption
  <2>5. ASSUME NEW b \in Callers, pc'[b] = "remove"
        PROVE  victim'[b] \in 0 .. KeepFrom - 1 /\ KeepFrom < length_'
    <3>1. pc[b] = "remove" /\ victim[b] \in 0 .. KeepFrom - 1 /\ KeepFrom < length_
      BY <2>1, <2>5 DEF LoggerInv, MembersOK
    <3> QED BY <1>1, <1>2, <1>3, <3>1
  <2> QED BY <1>1, <2>1, <2>2, <2>4, <2>5 DEF MembersOK
<1> QED BY <1>4, <1>5, <1>6, <1>7, <1>8, <1>9 DEF LoggerInv, TypeOK

LEMMA TruncateReturnInv ==
  ASSUME LoggerInv, NEW c \in Callers, TruncateReturn(c)
  PROVE  LoggerInv'
<1>1. /\ pc[c] = "truncate"
      /\ mu_' = None
      /\ pc' = [pc EXCEPT ![c] = "idle"]
      /\ UNCHANGED <<slots, lengthTag, onDisk, length_, batch, victim>>
  BY DEF TruncateReturn, db, args
<1>2. lengthTag = length_ /\ StoredLength = length_ /\ length_ \in Nat
  BY <1>1, LoggerAssumption
     DEF LoggerInv, TypeOK, MemberTypes, MembersOK, StoredLength
<1>3. length_ > 0 => ReadSlot(length_ - 1) = slots[length_ - 1]
                     /\ ReadSlot(length_ - 1) \in Entries
                     /\ slots[length_ - 1].term \in Nat
  BY <1>2, LastEntry DEF LoggerInv
<1>4. /\ proc' = proc
      /\ length_ > 0 => last_log_term_' = slots[length_ - 1].term
      /\ last_log_term_' \in Nat \cup {-1}
  BY <1>2, <1>3, LoggerAssumption
     DEF TruncateReturn, LoggerInv, TypeOK, MemberTypes
<1>5. DatabaseTypes'
  BY <1>1 DEF LoggerInv, TypeOK, DatabaseTypes
<1>6. MemberTypes'
  BY <1>1, <1>4 DEF LoggerInv, TypeOK, MemberTypes
<1>7. CallerTypes'
  BY <1>1 DEF LoggerInv, TypeOK, CallerTypes
<1>8. Complete(slots, lengthTag)' /\ Complete(onDisk[1], onDisk[2])'
  BY <1>1 DEF LoggerInv, Complete
<1>9. LockOK'
  BY <1>1, <1>4, LoggerAssumption DEF LoggerInv, LockOK, TypeOK, CallerTypes
<1>10. MembersOK'
  <2>1. \A b \in Callers : pc'[b] \notin {"append", "truncate"}
    BY <1>1, LoggerAssumption DEF LoggerInv, LockOK, TypeOK, CallerTypes
  <2>2. \A b \in Callers : pc'[b] = "remove" => pc[b] = "remove"
    BY <1>1 DEF LoggerInv, TypeOK, CallerTypes
  <2>3. StoredLength' = StoredLength
    BY <1>1 DEF StoredLength
  <2> QED BY <1>1, <1>2, <1>4, <2>1, <2>2, <2>3 DEF LoggerInv, MembersOK
<1> QED BY <1>5, <1>6, <1>7, <1>8, <1>9, <1>10 DEF LoggerInv, TypeOK

LEMMA RemoveSlotInv ==
  ASSUME LoggerInv, ~FreeUse, NEW c \in Callers, NEW i \in Int,
         RemoveSlot(c, i)
  PROVE  LoggerInv'
<1>1. /\ proc = "running" /\ pc[c] = "idle"
      /\ i \in 0 .. KeepFrom - 1 /\ KeepFrom < length_
      /\ Key(i) = i /\ i \in Slots
      /\ pc' = [pc EXCEPT ![c] = "remove"]
      /\ victim' = [victim EXCEPT ![c] = i]
      /\ UNCHANGED <<slots, lengthTag, onDisk, proc, length_, last_log_term_,
                     mu_, batch>>
  <2>1. i \in 0 .. KeepFrom - 1 /\ KeepFrom < length_
    BY DEF RemoveSlot, Discardable
  <2>2. Key(i) = i
    BY <2>1, LoggerAssumption DEF Key
  <2>3. i \in Slots
    BY <2>2 DEF RemoveSlot, ReadSlot
  <2> QED BY <2>1, <2>2, <2>3 DEF RemoveSlot, Free, db, memory
<1>3. DatabaseTypes' /\ MemberTypes'
  BY <1>1 DEF LoggerInv, TypeOK, DatabaseTypes, MemberTypes
<1>4. CallerTypes'
  BY <1>1 DEF LoggerInv, TypeOK, CallerTypes
<1>5. Complete(slots, lengthTag)' /\ Complete(onDisk[1], onDisk[2])'
  BY <1>1 DEF LoggerInv, Complete
<1>6. LockOK'
  BY <1>1 DEF LoggerInv, LockOK, TypeOK, CallerTypes
<1>7. MembersOK'
  <2>1. /\ pc'[c] = "remove" /\ victim'[c] = i
        /\ \A b \in Callers : b # c => pc'[b] = pc[b] /\ victim'[b] = victim[b]
    BY <1>1 DEF LoggerInv, TypeOK, CallerTypes
  <2>2. StoredLength' = StoredLength
    BY <1>1 DEF StoredLength
  <2> QED BY <1>1, <2>1, <2>2 DEF LoggerInv, MembersOK
<1> QED BY <1>3, <1>4, <1>5, <1>6, <1>7 DEF LoggerInv, TypeOK

(* The database is never behind the members. *)
LEMMA StoredAtLeast ==
  ASSUME LoggerInv, proc = "running"
  PROVE  length_ <= StoredLength
<1>1. length_ \in Nat
  BY StoredFacts DEF LoggerInv, TypeOK, MemberTypes
<1>2. CASE mu_ = None
  BY <1>1, <1>2 DEF LoggerInv, MembersOK
<1>3. CASE mu_ # None
  <2>1. mu_ \in Callers /\ pc[mu_] \in {"append", "truncate"}
    BY <1>3 DEF LoggerInv, LockOK, TypeOK, CallerTypes
  <2>2. lengthTag = length_ + Len(batch[mu_]) \/ lengthTag = length_
    BY <2>1 DEF LoggerInv, MembersOK
  <2>3. Len(batch[mu_]) \in Nat
    BY <2>1 DEF LoggerInv, TypeOK, CallerTypes
  <2> QED BY <1>1, <2>2, <2>3, LoggerAssumption DEF StoredLength
<1> QED BY <1>2, <1>3

LEMMA RemoveReturnInv ==
  ASSUME LoggerInv, NEW c \in Callers, RemoveReturn(c)
  PROVE  LoggerInv'
<1> DEFINE v == victim[c]
<1>1. /\ proc = "running" /\ pc[c] = "remove"
      /\ slots' = [slots EXCEPT ![v] = None]
      /\ pc' = [pc EXCEPT ![c] = "idle"]
      /\ victim' = [victim EXCEPT ![c] = None]
      /\ UNCHANGED <<lengthTag, onDisk, proc, length_, last_log_term_, mu_,
                     batch>>
  BY DEF RemoveReturn, memory
<1>2. v \in 0 .. KeepFrom - 1 /\ KeepFrom < length_
  BY <1>1 DEF LoggerInv, MembersOK
<1>3. /\ KeepFrom \in Nat /\ length_ \in Nat /\ MaxLength \in Nat
      /\ StoredLength \in 0..MaxLength
      /\ lengthTag = StoredLength
      /\ length_ <= StoredLength
  <2>1. KeepFrom \in Nat /\ length_ \in Nat
    BY StoredFacts DEF LoggerInv, TypeOK, MemberTypes
  <2> QED BY <1>1, <1>2, <2>1, StoredAtLeast, StoredFacts
          DEF LoggerInv, StoredLength
<1> HIDE DEF v
<1>4. \A j \in Slots : j # v => slots'[j] = slots[j]
  BY <1>1 DEF LoggerInv, TypeOK, DatabaseTypes
<1>5. DatabaseTypes'
  BY <1>1, <1>2, <1>3 DEF LoggerInv, TypeOK, DatabaseTypes, Slots
<1>6. MemberTypes'
  BY <1>1 DEF LoggerInv, TypeOK, MemberTypes
<1>7. CallerTypes'
  BY <1>1 DEF LoggerInv, TypeOK, CallerTypes
<1>8. Complete(slots, lengthTag)' /\ Complete(onDisk[1], onDisk[2])'
  <2>1. ASSUME NEW j \in 0 .. StoredLength - 1, slots'[j] = None
        PROVE  j < KeepFrom /\ KeepFrom < StoredLength
    <3>1. CASE j = v
      BY <1>2, <1>3, <3>1
    <3>2. CASE j # v
      <4>1. slots[j] = None /\ lengthTag # None
        BY <1>3, <1>4, <2>1, <3>2, LoggerAssumption DEF Slots
      <4> QED BY <1>3, <4>1 DEF LoggerInv, Complete
    <3> QED BY <3>1, <3>2
  <2> QED BY <1>1, <1>3, <2>1 DEF LoggerInv, Complete
<1>9. LockOK'
  BY <1>1 DEF LoggerInv, LockOK, TypeOK, CallerTypes
<1>10. MembersOK'
  <2>1. /\ pc'[c] = "idle"
        /\ \A b \in Callers : b # c => pc'[b] = pc[b] /\ victim'[b] = victim[b]
    BY <1>1 DEF LoggerInv, TypeOK, CallerTypes
  <2>2. StoredLength' = StoredLength
    BY <1>1 DEF StoredLength
  <2>3. \A j \in Slots : j >= KeepFrom => slots'[j] = slots[j]
    BY <1>2, <1>3, <1>4 DEF Slots
  \* The last slot, and every slot of a batch, is above the ones discarded.
  <2>4. ASSUME mu_' = None
        PROVE  /\ length_' = StoredLength'
               /\ length_' > 0 => last_log_term_' = slots'[length_' - 1].term
    <3>1. length_ = StoredLength /\ last_log_term_ = slots[length_ - 1].term
      BY <1>1, <1>2, <1>3, <2>4 DEF LoggerInv, MembersOK
    <3>2. length_ - 1 \in Slots /\ length_ - 1 >= KeepFrom
      BY <1>2, <1>3, <3>1 DEF Slots
    <3> QED BY <1>1, <2>2, <2>3, <3>1, <3>2
  <2>5. ASSUME NEW b \in Callers, pc'[b] = "append"
        PROVE  /\ lengthTag' = length_' + Len(batch'[b])
               /\ \A i \in 1..Len(batch'[b]) : slots'[length_' + i - 1] = batch'[b][i]
               /\ length_' > 0 => last_log_term_' = slots'[length_' - 1].term
    <3>1. pc[b] = "append" /\ batch[b] \in Seq(Entries)
      BY <1>1, <2>1, <2>5 DEF LoggerInv, TypeOK, CallerTypes
    <3>2. /\ lengthTag = length_ + Len(batch[b])
          /\ \A i \in 1..Len(batch[b]) : slots[length_ + i - 1] = batch[b][i]
          /\ length_ > 0 => last_log_term_ = slots[length_ - 1].term
      BY <3>1 DEF LoggerInv, MembersOK
    <3>3. ASSUME NEW i \in 0..Len(batch[b])
          PROVE  slots'[length_ + i - 1] = slots[length_ + i - 1]
      <4>1. length_ + i - 1 \in Slots /\ length_ + i - 1 >= KeepFrom
        BY <1>2, <1>3, <3>1, <3>2 DEF Slots
      <4> QED BY <2>3, <4>1
    <3>4. slots'[length_ - 1] = slots[length_ - 1]
      <4>1. length_ + 0 - 1 = length_ - 1 /\ 0 \in 0..Len(batch[b])
        BY <1>3, <3>1
      <4> QED BY <3>3, <4>1
    <3> QED BY <1>1, <3>2, <3>3, <3>4
  <2> QED BY <1>1, <2>1, <2>2, <2>4, <2>5 DEF LoggerInv, MembersOK
<1> QED BY <1>5, <1>6, <1>7, <1>8, <1>9, <1>10 DEF LoggerInv, TypeOK

-----------------------------------------------------------------------------
(* The invariant and what follows from it.                                 *)

LEMMA StepInv ==
  ASSUME LoggerInv, ~FreeUse, NEW c \in Callers, Step(c)
  PROVE  LoggerInv'
<1>1. ASSUME NEW e \in Entries, AppendEntry(c, e)
      PROVE  LoggerInv'
  <2>1. <<e>> \in Seq(Entries)
    OBVIOUS
  <2> QED BY <1>1, <2>1, WriteBatchInv DEF AppendEntry
<1>2. ASSUME NEW es \in Batches, AppendEntryList(c, es)
      PROVE  LoggerInv'
  <2>1. es \in Seq(Entries)
    BY LoggerAssumption DEF Batches
  <2> QED BY <1>2, <2>1, WriteBatchInv DEF AppendEntryList
<1>3. ASSUME NEW i \in -2 .. MaxLength - 1, Truncate(c, i)
      PROVE  LoggerInv'
  <2>1. i \in Int
    BY LoggerAssumption
  <2> QED BY <1>3, <2>1, TruncateInv
<1>4. ASSUME NEW i \in -1 .. MaxLength - 1, RemoveSlot(c, i)
      PROVE  LoggerInv'
  <2>1. i \in Int
    BY LoggerAssumption
  <2> QED BY <1>4, <2>1, RemoveSlotInv
<1> QED BY <1>1, <1>2, <1>3, <1>4, AppendReturnInv, TruncateReturnInv,
           RemoveReturnInv DEF Step

LEMMA NextInv == ~FreeUse /\ LoggerInv /\ [Next]_vars => LoggerInv'
<1> SUFFICES ASSUME ~FreeUse, LoggerInv, [Next]_vars PROVE LoggerInv'
  OBVIOUS
<1>1. CASE Die
  BY <1>1, StopInv DEF Die, db
<1>2. CASE LosePower
  BY <1>2, StopInv DEF LosePower
<1>3. CASE UNCHANGED vars
  <2>1. UNCHANGED <<slots, lengthTag, onDisk, proc, length_, last_log_term_,
                    mu_, pc, batch, victim>>
    BY <1>3 DEF vars, db, memory, args
  <2>2. DatabaseTypes' /\ MemberTypes' /\ CallerTypes'
    BY <2>1 DEF LoggerInv, TypeOK, DatabaseTypes, MemberTypes, CallerTypes
  <2>3. Complete(slots, lengthTag)' /\ Complete(onDisk[1], onDisk[2])'
    BY <2>1 DEF LoggerInv, Complete
  <2>4. LockOK' /\ MembersOK'
    BY <2>1 DEF LoggerInv, LockOK, MembersOK, StoredLength
  <2> QED BY <2>2, <2>3, <2>4 DEF LoggerInv, TypeOK
<1> QED BY <1>1, <1>2, <1>3, OpenInv, WriteBackInv, StepInv DEF Next

LEMMA LoggerInvariant == ~FreeUse => (Spec => []LoggerInv)
<1> SUFFICES ASSUME ~FreeUse PROVE Spec => []LoggerInv
  OBVIOUS
<1>1. LoggerInv /\ [Next]_vars => LoggerInv'
  BY NextInv
<1> QED BY <1>1, InitInv, PTL DEF Spec

(* Every variable keeps its type. *)
THEOREM Typing == ~FreeUse => (Spec => []TypeOK)
<1>1. LoggerInv => TypeOK
  BY DEF LoggerInv
<1> QED BY <1>1, LoggerInvariant, PTL

(* The length and the term a caller is told are those of the database. *)
THEOREM MembersMatchDatabase == ~FreeUse => (Spec => []ReportsTheDatabase)
<1>1. LoggerInv => ReportsTheDatabase
  <2> SUFFICES ASSUME LoggerInv, proc = "running", mu_ = None
               PROVE  /\ length_ = StoredLength
                      /\ length_ > 0 => last_log_term_ = ReadSlot(length_ - 1).term
    BY DEF ReportsTheDatabase
  <2> QED BY LastEntry DEF LoggerInv, MembersOK
<1> QED BY <1>1, LoggerInvariant, PTL

(* No crash, and no power loss, leaves a hole below the stored length. *)
THEOREM LogIsComplete == ~FreeUse => (Spec => []NoGap)
<1>1. LoggerInv => NoGap
  <2> SUFFICES ASSUME LoggerInv, NEW i \in KeepFrom .. StoredLength - 1
               PROVE  ReadSlot(i) # None
    BY DEF NoGap
  <2>1. /\ i \in 0 .. StoredLength - 1 /\ i \in 0 .. MaxLength - 1 /\ i >= KeepFrom
        /\ StoredLength > 0
    BY StoredFacts DEF LoggerInv
  <2>2. lengthTag = StoredLength /\ lengthTag # None
    BY <2>1, StoredFacts DEF StoredLength, LoggerInv
  <2>3. slots[i] # None
    BY <2>1, <2>2, StoredFacts DEF LoggerInv, Complete
  <2> QED BY <2>1, <2>3, StoredFacts DEF LoggerInv
<1> QED BY <1>1, LoggerInvariant, PTL

(* The assertions of the constructor and of Truncate never fail. *)
THEOREM AssertionsHold == ~FreeUse => (Spec => []NeverAborts)
<1>1. LoggerInv => NeverAborts
  BY DEF LoggerInv, MembersOK, NeverAborts
<1> QED BY <1>1, LoggerInvariant, PTL

-----------------------------------------------------------------------------
(* BinLogger implements ReplicatedLog.                                     *)

StoredLog == LogOf(slots, lengthTag)
SavedLog  == LogOf(onDisk[1], onDisk[2])

LEMMA SavedStays ==
  ASSUME UNCHANGED onDisk
  PROVE  UNCHANGED SavedLog
  BY DEF SavedLog, LogOf

LEMMA SlotsAsLog ==
  ASSUME NEW s \in [Slots -> Entries \cup {None}], NEW n \in 0..MaxLength,
         NEW l, l = [i \in 1..n |-> s[i - 1]]
  PROVE  /\ l \in Seq(Entries \cup {None})
         /\ Len(l) = n
         /\ \A i \in 1..n : l[i] = s[i - 1]
<1>1. n \in Nat /\ n <= MaxLength /\ MaxLength \in Nat
  BY LoggerAssumption
<1>2. \A i \in 1..n : s[i - 1] \in Entries \cup {None}
  BY <1>1 DEF Slots
<1> QED BY <1>1, <1>2

LEMMA StoredLogFacts ==
  ASSUME TypeOK
  PROVE  /\ StoredLog \in Seq(Entries \cup {None})
         /\ Len(StoredLog) = StoredLength
         /\ \A i \in 1..StoredLength : StoredLog[i] = slots[i - 1]
<1>1. StoredLog = [i \in 1..StoredLength |-> slots[i - 1]]
  BY DEF StoredLog, LogOf, StoredLength
<1>2. slots \in [Slots -> Entries \cup {None}] /\ StoredLength \in 0..MaxLength
  BY StoredFacts DEF TypeOK, DatabaseTypes
<1> QED BY <1>1, <1>2, SlotsAsLog

(* A sequence is its prefix followed by the rest of it. *)
LEMMA PrefixAndRest ==
  ASSUME NEW S, NEW s \in Seq(S), NEW t \in Seq(S), Len(s) <= Len(t),
         \A i \in 1..Len(s) : t[i] = s[i]
  PROVE  t = s \o SubSeq(t, Len(s) + 1, Len(t))
<1> DEFINE m == Len(s) + 1
           r == SubSeq(t, m, Len(t))
<1>1. Len(s) \in Nat /\ Len(t) \in Nat /\ m \in Int /\ Len(t) \in Int
  OBVIOUS
<1>2. \A i \in m .. Len(t) : t[i] \in S
  BY <1>1
<1> HIDE DEF m
<1>3. /\ r \in Seq(S)
      /\ Len(r) = IF m <= Len(t) THEN Len(t) - m + 1 ELSE 0
      /\ \A i \in 1 .. Len(t) - m + 1 : r[i] = t[m + i - 1]
  BY <1>1, <1>2, SubSeqProperties
<1> HIDE DEF r
<1>4. Len(r) = Len(t) - Len(s)
  BY <1>1, <1>3 DEF m
<1>5. /\ s \o r \in Seq(S)
      /\ Len(s \o r) = Len(t)
      /\ \A i \in 1..Len(t) : (s \o r)[i] = IF i <= Len(s) THEN s[i] ELSE r[i - Len(s)]
  BY <1>1, <1>3, <1>4, ConcatProperties
<1>6. ASSUME NEW i \in 1..Len(t)
      PROVE  (s \o r)[i] = t[i]
  <2>1. CASE i <= Len(s)
    BY <1>1, <1>5, <2>1
  <2>2. CASE i > Len(s)
    <3> DEFINE k == i - Len(s)
    <3>1. k \in 1 .. Len(t) - m + 1 /\ m + k - 1 = i
      BY <1>1, <2>2 DEF m
    <3>2. (s \o r)[i] = r[k]
      BY <1>1, <1>5, <2>2
    <3> HIDE DEF k
    <3>3. r[k] = t[m + k - 1]
      BY <1>3, <3>1
    <3>4. t[m + k - 1] = t[i]
      BY <3>1
    <3> QED BY <3>2, <3>3, <3>4
  <2>3. i <= Len(s) \/ i > Len(s)
    BY <1>1
  <2> QED BY <2>1, <2>2, <2>3
<1>7. t = s \o r
  BY <1>5, <1>6, SeqEqual
<1> QED BY <1>7 DEF m, r

(* The first n elements of a sequence. *)
LEMMA PrefixIsSubSeq ==
  ASSUME NEW S, NEW s \in Seq(S), NEW n \in 0..Len(s)
  PROVE  [i \in 1..n |-> s[i]] = SubSeq(s, 1, n)
<1>1. n \in Nat /\ 1 \in Int /\ n \in Int /\ \A i \in 1..n : s[i] \in S
  OBVIOUS
<1>2. /\ SubSeq(s, 1, n) \in Seq(S)
      /\ Len(SubSeq(s, 1, n)) = IF 1 <= n THEN n - 1 + 1 ELSE 0
      /\ \A i \in 1 .. n - 1 + 1 : SubSeq(s, 1, n)[i] = s[1 + i - 1]
  BY <1>1, SubSeqProperties
<1> DEFINE f == SubSeq(s, 1, n)
           g == [i \in 1..n |-> s[i]]
<1>3. g \in Seq(S) /\ Len(g) = n
  BY <1>1
<1>4. f \in Seq(S) /\ Len(f) = n
  BY <1>1, <1>2
<1>5. ASSUME NEW i \in 1..n
      PROVE  f[i] = g[i]
  <2>1. i \in 1 .. n - 1 + 1 /\ 1 + i - 1 = i
    BY <1>1
  <2>2. f[i] = s[1 + i - 1]
    BY <1>2, <2>1
  <2> QED BY <2>1, <2>2
<1> HIDE DEF f, g
<1>6. f = g
  BY <1>3, <1>4, <1>5, SeqEqual
<1> QED BY <1>6 DEF f, g

LEMMA InitMaps == Init => Log!Init
  BY DEF Init, db, Log!Init, LogOf

LEMMA AppendMaps ==
  ASSUME LoggerInv, ~FreeUse, NEW c \in Callers, NEW es \in Seq(Entries),
         WriteBatch(c, es)
  PROVE  Log!Extend \/ UNCHANGED <<StoredLog, SavedLog>>
<1> DEFINE n == Len(es)
           S == Entries \cup {None}
<1>1. /\ mu_ = None /\ proc = "running"
      /\ slots' = [i \in Slots |-> IF i \in length_ .. length_ + n - 1
                                   THEN es[i - length_ + 1] ELSE slots[i]]
      /\ lengthTag' = length_ + n
      /\ length_ + n <= MaxLength
  BY DEF WriteBatch, Free
<1>2. n \in Nat /\ length_ \in Nat /\ length_ = StoredLength /\ MaxLength \in Nat
      /\ \A i \in 1..n : es[i] \in Entries
  BY <1>1, LoggerAssumption DEF LoggerInv, TypeOK, MemberTypes, MembersOK
<1>3. StoredLength' = length_ + n
  BY <1>1, <1>2, LoggerAssumption DEF StoredLength
<1>4. TypeOK /\ TypeOK'
  BY WriteBatchInv DEF LoggerInv
<1>5. /\ StoredLog \in Seq(S) /\ Len(StoredLog) = length_
      /\ \A i \in 1..length_ : StoredLog[i] = slots[i - 1]
  BY <1>2, <1>4, StoredLogFacts
<1>6. /\ StoredLog' \in Seq(S) /\ Len(StoredLog') = length_ + n
      /\ \A i \in 1 .. length_ + n : StoredLog'[i] = slots'[i - 1]
  <2>1. slots' \in [Slots -> S]
    BY <1>4 DEF TypeOK, DatabaseTypes
  <2>2. length_ + n \in 0..MaxLength
    BY <1>1, <1>2
  <2>3. StoredLog' = [i \in 1 .. length_ + n |-> slots'[i - 1]]
    BY <1>3 DEF StoredLog, LogOf, StoredLength
  <2> QED BY <2>1, <2>2, <2>3, SlotsAsLog
<1> HIDE DEF n
<1>7. \A i \in 1..length_ : StoredLog'[i] = StoredLog[i]
  <2> SUFFICES ASSUME NEW i \in 1..length_
               PROVE  StoredLog'[i] = StoredLog[i]
    OBVIOUS
  <2>1. i - 1 \in Slots /\ i - 1 \notin length_ .. length_ + n - 1
        /\ i \in 1 .. length_ + n
    BY <1>1, <1>2 DEF Slots
  <2>2. slots'[i - 1] = slots[i - 1]
    BY <1>1, <2>1
  <2> QED BY <1>5, <1>6, <2>1, <2>2
<1>8. ASSUME NEW i \in length_ + 1 .. length_ + n
      PROVE  StoredLog'[i] \in Entries
  <2>1. /\ i - 1 \in Slots /\ i - 1 \in length_ .. length_ + n - 1
        /\ i \in 1 .. length_ + n /\ (i - 1) - length_ + 1 \in 1..n
    BY <1>1, <1>2 DEF Slots
  <2>2. slots'[i - 1] = es[(i - 1) - length_ + 1]
    BY <1>1, <2>1
  <2>3. es[(i - 1) - length_ + 1] \in Entries
    BY <1>2, <2>1
  <2> QED BY <1>6, <2>1, <2>2, <2>3
<1>9. CASE n = 0
  <2>1. Len(StoredLog') = Len(StoredLog)
    BY <1>2, <1>5, <1>6, <1>9
  <2>2. StoredLog' = StoredLog
    BY <1>5, <1>6, <1>7, <2>1, SeqEqual
  <2> QED BY <2>2, SavedStays DEF WriteBatch
<1>10. CASE n > 0
  <2>1. Len(StoredLog') > Len(StoredLog)
    BY <1>2, <1>5, <1>6, <1>10
  <2>2. StoredLog' = StoredLog \o SubSeq(StoredLog', Len(StoredLog) + 1, Len(StoredLog'))
    <3>1. /\ StoredLog \in Seq(S) /\ StoredLog' \in Seq(S)
          /\ Len(StoredLog) <= Len(StoredLog')
          /\ \A i \in 1..Len(StoredLog) : StoredLog'[i] = StoredLog[i]
      BY <1>2, <1>5, <1>6, <1>7
    <3> HIDE DEF S
    <3> QED BY <3>1, PrefixAndRest
  <2>3. \A i \in Len(StoredLog) + 1 .. Len(StoredLog') : StoredLog'[i] \in Entries
    BY <1>5, <1>6, <1>8
  <2>4. UNCHANGED SavedLog
    BY SavedStays DEF WriteBatch
  <2> QED BY <2>1, <2>2, <2>3, <2>4 DEF Log!Extend, StoredLog, SavedLog
<1> QED BY <1>2, <1>9, <1>10

LEMMA TruncateMaps ==
  ASSUME LoggerInv, ~FreeUse, NEW c \in Callers, NEW i \in Int, Truncate(c, i)
  PROVE  \E n \in 0..Len(StoredLog) : Log!CutTo(n)
<1> DEFINE n == (IF i < -1 THEN -1 ELSE i) + 1
<1>1. /\ mu_ = None /\ proc = "running" /\ i < length_
      /\ lengthTag' = n /\ slots' = slots
  BY DEF Truncate, Free, Within
<1>2. length_ \in Nat /\ length_ = StoredLength
  BY <1>1 DEF LoggerInv, TypeOK, MemberTypes, MembersOK
<1>3. n \in 0..length_
  BY <1>1, <1>2
<1> HIDE DEF n
<1>4. StoredLength' = n
  BY <1>1, <1>2, <1>3, LoggerAssumption DEF StoredLength
<1>5. /\ StoredLog \in Seq(Entries \cup {None}) /\ Len(StoredLog) = length_
      /\ \A j \in 1..length_ : StoredLog[j] = slots[j - 1]
  BY <1>2, StoredLogFacts DEF LoggerInv
<1>6. StoredLog' = [j \in 1..n |-> slots[j - 1]]
  BY <1>1, <1>4 DEF StoredLog, LogOf, StoredLength
<1>7. [j \in 1..n |-> slots[j - 1]] = [j \in 1..n |-> StoredLog[j]]
  BY <1>2, <1>3, <1>5
<1>8. StoredLog' = SubSeq(StoredLog, 1, n)
  BY <1>3, <1>5, <1>6, <1>7, PrefixIsSubSeq
<1>9. UNCHANGED SavedLog
  BY SavedStays DEF Truncate
<1>10. n \in 0..Len(StoredLog) /\ n <= Len(StoredLog)
  BY <1>2, <1>3, <1>5
<1>11. Log!CutTo(n)
  BY <1>8, <1>9, <1>10 DEF Log!CutTo, StoredLog, SavedLog
<1> QED BY <1>10, <1>11

LEMMA RemoveMaps ==
  ASSUME LoggerInv, NEW c \in Callers, RemoveReturn(c)
  PROVE  \E i \in 1..Len(StoredLog) : Log!Discard(i)
<1> DEFINE v == victim[c]
<1>1. /\ proc = "running" /\ pc[c] = "remove"
      /\ slots' = [slots EXCEPT ![v] = None]
      /\ lengthTag' = lengthTag
  BY DEF RemoveReturn
<1>2. StoredLength' = StoredLength
  BY <1>1 DEF StoredLength
<1>3. v \in 0 .. StoredLength - 1
  <2>1. v \in 0 .. KeepFrom - 1 /\ KeepFrom < length_ /\ length_ <= StoredLength
    BY <1>1, StoredAtLeast DEF LoggerInv, MembersOK
  <2>2. KeepFrom \in Nat /\ length_ \in Nat /\ StoredLength \in Int
    BY StoredFacts DEF LoggerInv, TypeOK, MemberTypes
  <2> HIDE DEF v
  <2> QED BY <2>1, <2>2
<1>4. /\ Len(StoredLog) = StoredLength /\ StoredLength \in 0..MaxLength
      /\ MaxLength \in Nat
  BY StoredLogFacts, StoredFacts DEF LoggerInv
<1>5. StoredLog' = [StoredLog EXCEPT ![v + 1] = None]
  <2>1. StoredLog' = [i \in 1..StoredLength |-> slots'[i - 1]]
    BY <1>2 DEF StoredLog, LogOf, StoredLength
  <2>2. ASSUME NEW i \in 1..StoredLength
        PROVE  slots'[i - 1] = IF i = v + 1 THEN None ELSE slots[i - 1]
    <3>1. i - 1 \in Slots /\ (i - 1 = v <=> i = v + 1)
      BY <1>3, <1>4 DEF Slots
    <3> QED BY <1>1, <3>1 DEF LoggerInv, TypeOK, DatabaseTypes
  <2> HIDE DEF v
  <2>3. StoredLog' = [i \in 1..StoredLength |-> IF i = v + 1 THEN None ELSE StoredLog[i]]
    BY <2>1, <2>2 DEF StoredLog, LogOf, StoredLength
  <2>4. DOMAIN StoredLog = 1..StoredLength
    BY DEF StoredLog, LogOf, StoredLength
  <2> QED BY <2>3, <2>4 DEF StoredLog, LogOf, StoredLength
<1> HIDE DEF v
<1>6. v + 1 \in 1..Len(StoredLog)
  BY <1>3, <1>4
<1>7. UNCHANGED SavedLog
  BY SavedStays DEF RemoveReturn
<1> QED BY <1>5, <1>6, <1>7 DEF Log!Discard, StoredLog, SavedLog

(* Every step of the logger is a step of the abstract log or none, power      *)
(* losses included: the property ImplementsLog.                              *)
THEOREM LoggerIsLog == ~FreeUse => (Spec => ImplementsLog)
<1> SUFFICES ASSUME ~FreeUse PROVE Spec => ImplementsLog
  OBVIOUS
<1>1. LoggerInv /\ [Next]_vars => [Log!Next]_(Log!vars)
  <2> SUFFICES ASSUME LoggerInv, [Next]_vars
               PROVE  Log!Next \/ UNCHANGED <<StoredLog, SavedLog>>
    BY DEF Log!vars, StoredLog, SavedLog
  <2> USE DEF Log!Next
  <2>1. ASSUME UNCHANGED <<slots, lengthTag, onDisk>>
        PROVE  UNCHANGED <<StoredLog, SavedLog>>
    BY <2>1 DEF StoredLog, SavedLog, LogOf
  <2>2. CASE Open \/ Die \/ UNCHANGED vars
    BY <2>1, <2>2 DEF Open, Die, Stop, vars, db
  <2>3. CASE LosePower
    <3>1. slots' = onDisk[1] /\ lengthTag' = onDisk[2] /\ onDisk' = onDisk
      BY <2>3 DEF LosePower, Stop
    <3>2. Log!Lose
      BY <3>1 DEF Log!Lose, LogOf
    <3> QED BY <3>2
  <2>4. CASE WriteBack
    <3>1. slots' = slots /\ lengthTag' = lengthTag /\ onDisk' = <<slots, lengthTag>>
      BY <2>4 DEF WriteBack, db
    <3>2. onDisk'[1] = slots /\ onDisk'[2] = lengthTag
      BY <3>1
    <3>3. Log!Save
      BY <3>1, <3>2 DEF Log!Save, LogOf
    <3> QED BY <3>3
  <2>5. ASSUME NEW c \in Callers, Step(c)
        PROVE  Log!Next \/ UNCHANGED <<StoredLog, SavedLog>>
    <3>1. ASSUME NEW e \in Entries, AppendEntry(c, e)
          PROVE  Log!Next \/ UNCHANGED <<StoredLog, SavedLog>>
      <4>1. <<e>> \in Seq(Entries)
        OBVIOUS
      <4> QED BY <3>1, <4>1, AppendMaps DEF AppendEntry
    <3>2. ASSUME NEW es \in Batches, AppendEntryList(c, es)
          PROVE  Log!Next \/ UNCHANGED <<StoredLog, SavedLog>>
      <4>1. es \in Seq(Entries)
        BY LoggerAssumption DEF Batches
      <4> QED BY <3>2, <4>1, AppendMaps DEF AppendEntryList
    <3>3. ASSUME NEW i \in -2 .. MaxLength - 1, Truncate(c, i)
          PROVE  Log!Next
      <4>1. i \in Int
        BY LoggerAssumption
      <4>2. PICK n \in 0..Len(StoredLog) : Log!CutTo(n)
        BY <3>3, <4>1, TruncateMaps
      <4> QED BY <4>2 DEF StoredLog
    <3>4. CASE RemoveReturn(c)
      <4>1. PICK i \in 1..Len(StoredLog) : Log!Discard(i)
        BY <3>4, RemoveMaps
      <4> QED BY <4>1 DEF StoredLog
    <3>5. CASE \/ AppendReturn(c) \/ TruncateReturn(c)
               \/ \E i \in -1 .. MaxLength - 1 : RemoveSlot(c, i)
      BY <2>1, <3>5 DEF AppendReturn, TruncateReturn, RemoveSlot, db
    <3> QED BY <2>5, <3>1, <3>2, <3>3, <3>4, <3>5 DEF Step
  <2> QED BY <2>2, <2>3, <2>4, <2>5 DEF Next
<1> QED BY <1>1, InitMaps, LoggerInvariant, PTL DEF Spec, ImplementsLog, Log!Spec

-----------------------------------------------------------------------------
(* Database.                                                               *)

everything == <<which, vars, users, files>>

Snapshots == [Keys -> Values \cup {None}]
Positions == [of : Nat, sees : Snapshots, at : Keys \cup {None}]

UsersTyped ==
  /\ db_map_ \in [Names -> Nat] /\ opened \in Nat
  /\ stored \in [{MCDirectory[n] : n \in Names} -> Snapshots]
  /\ iterator \in [Iterators -> Positions \cup {None}]

\* Instances are numbered as they are opened.  One that a name has is of no other
\* name and has not been closed; and one that an iterator reads is either alive or
\* was closed, for nothing else ends an instance without its iterators.
InstancesOK ==
  /\ ~ running => \A n \in Names : db_map_[n] = 0
  /\ \A n \in Names : db_map_[n] <= opened /\ db_map_[n] \notin closed
  /\ \A m, n \in Names : db_map_[m] = db_map_[n] /\ m # n => db_map_[m] = 0
  /\ closed \subseteq 1 .. opened

IteratorsOK ==
  \A i \in Iterators : iterator[i] # None =>
    \/ iterator[i].of \in closed
    \/ iterator[i].of # 0 /\ \E n \in Names : db_map_[n] = iterator[i].of

UsersInv == UsersTyped /\ InstancesOK /\ IteratorsOK

LEMMA UsersStart == MCInit => UsersInv
<1> SUFFICES ASSUME Users!Init PROVE UsersInv
  BY DEF MCInit
<1>1. UsersTyped
  BY DEF Users!Init, UsersTyped, Users!Empty, Snapshots
<1> QED BY <1>1 DEF Users!Init, UsersInv, InstancesOK, IteratorsOK

\* An instance is opened under a name that has none.
LEMMA OpenStep ==
  ASSUME UsersInv, NEW n \in Names, db_map_[n] = 0, Users!DoOpenDB(n),
         running', UNCHANGED <<stored, iterator, closed>>
  PROVE  UsersInv'
<1>1. opened' = opened + 1 /\ db_map_' = [db_map_ EXCEPT ![n] = opened + 1]
  BY DEF Users!DoOpenDB
<1>2. UsersTyped /\ InstancesOK /\ IteratorsOK
  BY DEF UsersInv
<1>3. UsersTyped'
  BY <1>1, <1>2 DEF UsersTyped
<1>4. InstancesOK'
  BY <1>1, <1>2 DEF UsersTyped, InstancesOK
<1>5. IteratorsOK'
  <2> SUFFICES ASSUME NEW i \in Iterators, iterator[i] # None, iterator[i].of \notin closed
               PROVE  iterator[i].of # 0 /\ \E m \in Names : db_map_'[m] = iterator[i].of
    BY DEF IteratorsOK
  <2>1. PICK m \in Names : db_map_[m] = iterator[i].of /\ iterator[i].of # 0
    BY <1>2 DEF IteratorsOK
  <2>2. db_map_'[m] = db_map_[m]
    BY <1>1, <1>2, <2>1 DEF UsersTyped
  <2> QED BY <2>1, <2>2
<1> QED BY <1>3, <1>4, <1>5 DEF UsersInv

LEMMA CloseStep ==
  ASSUME UsersInv, NEW n \in Names, Users!Close(n)
  PROVE  UsersInv'
<1>1. /\ running /\ db_map_[n] # 0 /\ closed' = closed \cup {db_map_[n]}
      /\ db_map_' = [db_map_ EXCEPT ![n] = 0] /\ UNCHANGED <<running, opened, stored, iterator>>
  BY DEF Users!Close, Users!Has
<1>2. UsersTyped /\ InstancesOK /\ IteratorsOK
  BY DEF UsersInv
<1>3. UsersTyped'
  BY <1>1, <1>2 DEF UsersTyped
<1>4. \A m \in Names : db_map_'[m] = IF m = n THEN 0 ELSE db_map_[m]
  BY <1>1, <1>2 DEF UsersTyped
<1>5. 0 \notin closed'
  BY <1>1, <1>2 DEF UsersTyped, InstancesOK
<1>6. InstancesOK'
  <2>1. db_map_[n] \in 1 .. opened
    BY <1>1, <1>2 DEF UsersTyped, InstancesOK
  <2>2. closed' \subseteq 1 .. opened
    BY <1>1, <1>2, <2>1 DEF InstancesOK
  <2>3. \A m \in Names : db_map_'[m] <= opened /\ db_map_'[m] \notin closed'
    BY <1>1, <1>2, <1>4, <1>5 DEF UsersTyped, InstancesOK
  <2> QED BY <1>1, <1>2, <1>4, <2>2, <2>3 DEF InstancesOK
<1>7. IteratorsOK'
  BY <1>1, <1>2, <1>4 DEF IteratorsOK
<1> QED BY <1>3, <1>6, <1>7 DEF UsersInv

\* The process or the Database ends: all instances do, with their iterators or by
\* a destructor.
LEMMA EndStep ==
  ASSUME UsersInv, Users!Destroy \/ Users!Abort
  PROVE  UsersInv'
<1>1. /\ running' = FALSE /\ db_map_' = [n \in Names |-> 0] /\ UNCHANGED <<opened, stored>>
      /\ \/ closed' = closed \cup Users!Alive /\ iterator' = iterator
         \/ closed' = closed /\ iterator' = [i \in Iterators |-> None]
  BY DEF Users!Destroy, Users!Abort, Users!End
<1>2. UsersTyped /\ InstancesOK /\ IteratorsOK
  BY DEF UsersInv
<1>3. UsersTyped'
  BY <1>1, <1>2 DEF UsersTyped
<1>4. closed' \subseteq 1 .. opened
  <2>1. \A n \in Names : db_map_[n] # 0 => db_map_[n] \in 1 .. opened
    BY <1>2 DEF UsersTyped, InstancesOK
  <2>2. Users!Alive \subseteq 1 .. opened
    BY <2>1 DEF Users!Alive
  <2> QED BY <1>1, <1>2, <2>2 DEF InstancesOK
<1>5. InstancesOK'
  BY <1>1, <1>2, <1>4 DEF UsersTyped, InstancesOK
<1>6. IteratorsOK'
  BY <1>1, <1>2 DEF IteratorsOK, Users!Alive
<1> QED BY <1>3, <1>5, <1>6 DEF UsersInv

\* A step that changes neither the instances nor which of them an iterator reads.
LEMMA ReadingStep ==
  ASSUME UsersInv, UNCHANGED <<running, db_map_, opened, closed>>, UsersTyped',
         \A i \in Iterators : iterator'[i] # None =>
           \/ iterator[i] # None /\ iterator'[i].of = iterator[i].of
           \/ iterator'[i].of # 0 /\ \E n \in Names : db_map_[n] = iterator'[i].of
  PROVE  UsersInv'
BY DEF UsersInv, InstancesOK, IteratorsOK

LEMMA StoreStep ==
  ASSUME UsersInv, NEW n \in Names, NEW k \in Keys, NEW v \in Values \cup {None},
         Users!Store(n, k, v)
  PROVE  UsersInv'
<1>1. /\ stored' = [stored EXCEPT ![MCDirectory[n]][k] = v]
      /\ UNCHANGED <<running, db_map_, opened, iterator, closed>>
  BY DEF Users!Store
<1>2. UsersTyped'
  BY <1>1 DEF UsersInv, UsersTyped, Snapshots
<1> QED BY <1>1, <1>2, ReadingStep

LEMMA IteratorStep ==
  ASSUME UsersInv, NEW i \in Iterators,
         \/ \E n \in Names : Users!NewIterator(i, n)
         \/ Users!Next_(i) \/ Users!DeleteIterator(i) \/ \E k \in Keys : Users!Seek(i, k)
  PROVE  UsersInv'
<1>1. UNCHANGED <<running, db_map_, opened, stored, closed>>
  BY DEF Users!NewIterator, Users!Next_, Users!DeleteIterator, Users!Seek, Users!MoveTo
<1>2. UsersTyped
  BY DEF UsersInv
<1>3. ASSUME NEW n \in Names, Users!NewIterator(i, n) PROVE UsersInv'
  <2>1. /\ db_map_[n] # 0
        /\ iterator' = [iterator EXCEPT ![i] = [of |-> db_map_[n], sees |-> stored[MCDirectory[n]],
                                                at |-> None]]
    BY <1>3 DEF Users!NewIterator, Users!Has
  <2>2. UsersTyped'
    BY <1>1, <1>2, <2>1 DEF UsersTyped, Positions
  <2> QED BY <1>1, <1>2, <2>1, <2>2, ReadingStep DEF UsersTyped
<1>4. CASE Users!DeleteIterator(i)
  <2>1. iterator' = [iterator EXCEPT ![i] = None]
    BY <1>4 DEF Users!DeleteIterator
  <2>2. UsersTyped'
    BY <1>1, <1>2, <2>1 DEF UsersTyped
  <2> QED BY <1>1, <1>2, <2>1, <2>2, ReadingStep DEF UsersTyped
<1>5. ASSUME NEW k, iterator[i] # None, Users!MoveTo(i, k) PROVE UsersInv'
  <2> DEFINE to == IF Users!EntriesFrom(i, k) = {} THEN None
                   ELSE CHOOSE j \in Users!EntriesFrom(i, k) :
                          \A l \in Users!EntriesFrom(i, k) : j <= l
  <2>1. iterator' = [iterator EXCEPT ![i].at = to]
    BY <1>5 DEF Users!MoveTo
  <2>2. to \in Keys \cup {None}
    <3>1. Keys \subseteq Nat
      BY MCStorageAssumption DEF Users!DatabaseAssumption
    <3>2. Users!EntriesFrom(i, k) \subseteq Keys
      BY DEF Users!EntriesFrom
    <3>3. ASSUME Users!EntriesFrom(i, k) # {}
          PROVE  \E j \in Users!EntriesFrom(i, k) : \A l \in Users!EntriesFrom(i, k) : j <= l
      BY <3>1, <3>2, <3>3, LeastNatural
    <3> QED BY <3>2, <3>3
  <2> HIDE DEF to
  <2>3. iterator[i] \in Positions
    BY <1>2, <1>5 DEF UsersTyped
  <2>4. /\ iterator'[i] \in Positions /\ iterator'[i].of = iterator[i].of
        /\ \A j \in Iterators \ {i} : iterator'[j] = iterator[j]
    BY <1>2, <2>1, <2>2, <2>3 DEF UsersTyped, Positions
  <2>5. UsersTyped'
    BY <1>1, <1>2, <2>1, <2>4 DEF UsersTyped
  <2> QED BY <1>1, <1>2, <1>5, <2>4, <2>5, ReadingStep DEF UsersTyped
<1> QED BY <1>3, <1>4, <1>5 DEF Users!Next_, Users!Seek, Users!Usable

LEMMA UsersStep == UsersInv /\ [MCNext]_everything => UsersInv'
<1> SUFFICES ASSUME UsersInv, [MCNext]_everything PROVE UsersInv'
  OBVIOUS
<1>1. [Users!Next]_users
  BY DEF MCNext, Only, Is, everything
<1>2. CASE UNCHANGED users
  BY <1>2 DEF users, UsersInv, UsersTyped, InstancesOK, IteratorsOK
<1>3. CASE Users!Construct
  <2>1. Anonymous \in Names
    BY MCStorageAssumption DEF Users!DatabaseAssumption
  <2> QED BY <1>3, <2>1, OpenStep DEF Users!Construct, UsersInv, InstancesOK
<1>4. ASSUME NEW n \in Names, Users!Open(n) PROVE UsersInv'
  BY <1>4, OpenStep DEF Users!Open
<1>5. ASSUME NEW n \in Names, NEW k \in Keys,
             Users!Delete(n, k) \/ \E v \in Values : Users!Put(n, k, v)
      PROVE  UsersInv'
  BY <1>5, StoreStep DEF Users!Delete, Users!Put
<1> QED BY <1>1, <1>2, <1>3, <1>4, <1>5, CloseStep, EndStep, IteratorStep DEF Users!Next

(* An iterator loses its instance only to a Close of its own name or to    *)
(* the destructor (database.cc), for any names, keys and iterators: opening*)
(* again does not give it back, and closing others does not take it.       *)
THEOREM IteratorsOutlive == MCSpec => []IteratorsOutliveOthers
<1>1. UsersInv => IteratorsOutliveOthers
  BY DEF UsersInv, InstancesOK, IteratorsOK, UsersTyped, IteratorsOutliveOthers,
         Users!IteratorsOutliveOthers, Users!Usable, Users!Alive
<1> QED BY <1>1, UsersStart, UsersStep, PTL DEF MCSpec, everything

-----------------------------------------------------------------------------
(* FileSystem: processes that create the same path.                        *)

PathSet == Seq(PathNames)

\* A prefix, name by name.
LEMMA Prefix ==
  ASSUME NEW q \in PathSet, NEW p \in PathSet
  PROVE  Files!IsPrefix(q, p) <=> Len(q) <= Len(p) /\ \A i \in 1 .. Len(q) : q[i] = p[i]
<1> USE DEF PathSet
<1>1. CASE Len(q) <= Len(p)
  <2> DEFINE a == SubSeq(q, 1, Len(q))
             b == SubSeq(p, 1, Len(q))
  <2>1. a = q
    BY SubSeqFull
  <2>2. b \in PathSet /\ Len(b) = Len(q) /\ \A i \in 1 .. Len(q) : b[i] = p[i]
    BY <1>1
  <2> HIDE DEF a, b
  <2>3. a = b <=> \A i \in 1 .. Len(q) : q[i] = p[i]
    BY <2>1, <2>2, SeqEqual
  <2> QED BY <1>1, <2>3 DEF a, b, Files!IsPrefix
<1>2. CASE ~ Len(q) <= Len(p)
  BY <1>2 DEF Files!IsPrefix
<1> QED BY <1>1, <1>2

LEMMA PrefixTrans ==
  ASSUME NEW q \in PathSet, NEW p \in PathSet, NEW r \in PathSet,
         Files!IsPrefix(q, p), Files!IsPrefix(p, r)
  PROVE  Files!IsPrefix(q, r)
<1>1. Len(q) \in Nat /\ Len(p) \in Nat /\ Len(r) \in Nat
  BY DEF PathSet
<1> QED BY <1>1, Prefix

\* Of two prefixes of one path the shorter is one of the longer.
LEMMA PrefixesOfOne ==
  ASSUME NEW q \in PathSet, NEW p \in PathSet, NEW r \in PathSet,
         Files!IsPrefix(q, r), Files!IsPrefix(p, r), Len(q) <= Len(p)
  PROVE  Files!IsPrefix(q, p)
<1>1. Len(q) \in Nat /\ Len(p) \in Nat /\ Len(r) \in Nat
  BY DEF PathSet
<1> QED BY <1>1, Prefix

LEMMA FrontOfPath ==
  ASSUME NEW p \in PathSet, p # <<>>
  PROVE  /\ Files!Front(p) \in PathSet /\ Len(Files!Front(p)) = Len(p) - 1
         /\ \A i \in 1 .. Len(p) - 1 : Files!Front(p)[i] = p[i]
         /\ Files!Last(p) \in PathNames
         /\ Files!IsPrefix(Files!Front(p), p)
<1>1. Len(p) \in Nat /\ Len(p) > 0
  BY DEF PathSet
<1> DEFINE n == Len(p)
           f == SubSeq(p, 1, n - 1)
<1>2. n \in Nat /\ n > 0 /\ \A i \in 1 .. n : p[i] \in PathNames
  BY <1>1 DEF PathSet
<1>3. Files!Last(p) \in PathNames
  BY <1>2 DEF Files!Last
<1> HIDE DEF n
<1>4. f \in Seq(PathNames) /\ Len(f) = n - 1 /\ \A i \in 1 .. n - 1 : f[i] = p[i]
  <2>1. f \in Seq(PathNames) /\ Len(f) = (IF 1 <= n - 1 THEN n - 1 - 1 + 1 ELSE 0)
        /\ \A i \in 1 .. n - 1 - 1 + 1 : f[i] = p[1 + i - 1]
    BY <1>2, SubSeqProperties
  <2> HIDE DEF f
  <2> QED BY <1>2, <2>1
<1>5. /\ Files!Front(p) \in PathSet /\ Len(Files!Front(p)) = Len(p) - 1
      /\ \A i \in 1 .. Len(p) - 1 : Files!Front(p)[i] = p[i]
  BY <1>4 DEF Files!Front, PathSet, n
<1>6. Files!IsPrefix(Files!Front(p), p)
  BY <1>1, <1>5, Prefix
<1> QED BY <1>3, <1>5, <1>6

\* A name moves from the end of one part of a path to the other part, and back.
LEMMA NameMoves ==
  ASSUME NEW d \in PathSet, NEW s \in PathSet
  PROVE  /\ d # <<>> => Files!Front(d) \o Files!Pending(Files!Last(d), s) = d \o s
         /\ s # <<>> => Append(d, Head(s)) \o Tail(s) = d \o s
<1>1. ASSUME d # <<>>
      PROVE  Files!Front(d) \o Files!Pending(Files!Last(d), s) = d \o s
  <2> DEFINE f == Files!Front(d)
             e == Files!Last(d)
  <2>1. f \in PathSet /\ <<e>> \in PathSet /\ Len(d) \in Nat \ {0}
    BY <1>1, FrontOfPath DEF PathSet
  <2>2. f \o <<e>> = d
    <3>1. Len(f) = Len(d) - 1 /\ \A i \in 1 .. Len(d) - 1 : f[i] = d[i]
      BY <1>1, FrontOfPath
    <3>2. e = d[Len(d)]
      BY DEF Files!Last
    <3> HIDE DEF f, e
    <3>3. /\ f \o <<e>> \in PathSet /\ Len(f \o <<e>>) = Len(d)
          /\ \A i \in 1 .. Len(d) : (f \o <<e>>)[i] = d[i]
      BY <2>1, <3>1, <3>2 DEF PathSet
    <3> QED BY <3>3, SeqEqual DEF PathSet
  <2> HIDE DEF f, e
  <2>3. (f \o <<e>>) \o s = f \o (<<e>> \o s)
    BY <2>1, ConcatAssociative DEF PathSet
  <2> QED BY <2>2, <2>3 DEF f, e, Files!Pending
<1>2. ASSUME s # <<>>
      PROVE  Append(d, Head(s)) \o Tail(s) = d \o s
  <2> DEFINE h == Head(s)
             t == Tail(s)
  <2>1. h \in PathNames /\ t \in PathSet /\ Append(d, h) = d \o <<h>>
    BY <1>2, AppendIsConcat DEF PathSet
  <2>2. <<h>> \o t = s
    <3>1. Len(s) \in Nat \ {0} /\ Len(t) = Len(s) - 1 /\ h = s[1]
          /\ \A i \in 1 .. Len(s) - 1 : t[i] = s[i + 1]
      BY <1>2 DEF PathSet
    <3> HIDE DEF h, t
    <3>2. <<h>> \o t \in PathSet /\ Len(<<h>> \o t) = Len(s)
          /\ \A i \in 1 .. Len(s) : (<<h>> \o t)[i] = s[i]
      BY <2>1, <3>1 DEF PathSet
    <3> QED BY <3>2, SeqEqual DEF PathSet
  <2> HIDE DEF h, t
  <2>3. (d \o <<h>>) \o t = d \o (<<h>> \o t)
    BY <2>1, ConcatAssociative DEF PathSet
  <2> QED BY <2>1, <2>2, <2>3 DEF h, t
<1> QED BY <1>1, <1>2

\* Its first part is a prefix of a path, and so is that part and the next name.
LEMMA PartsOfPath ==
  ASSUME NEW d \in PathSet, NEW s \in PathSet
  PROVE  /\ d \o s \in PathSet /\ Files!IsPrefix(d, d \o s)
         /\ s # <<>> => /\ Append(d, Head(s)) \in PathSet
                        /\ Len(Append(d, Head(s))) = Len(d) + 1
                        /\ Files!IsPrefix(Append(d, Head(s)), d \o s)
                        /\ Files!IsPrefix(d, Append(d, Head(s)))
                        /\ Files!Front(Append(d, Head(s))) = d
<1>1. ASSUME NEW e \in PathSet, NEW t \in PathSet
      PROVE  e \o t \in PathSet /\ Files!IsPrefix(e, e \o t)
  <2> DEFINE et == e \o t
  <2>1. /\ e \o t \in PathSet /\ Len(e) \in Nat /\ Len(t) \in Nat /\ Len(e \o t) = Len(e) + Len(t)
        /\ \A i \in 1 .. Len(e) : (e \o t)[i] = e[i]
    BY DEF PathSet
  <2>2. et \in PathSet /\ Len(e) <= Len(et) /\ \A i \in 1 .. Len(e) : e[i] = et[i]
    BY <2>1
  <2> HIDE DEF et
  <2>3. Files!IsPrefix(e, et)
    BY <2>2, Prefix
  <2> QED BY <2>2, <2>3 DEF et
<1>2. ASSUME s # <<>>
      PROVE  /\ Append(d, Head(s)) \in PathSet
             /\ Len(Append(d, Head(s))) = Len(d) + 1
             /\ Files!IsPrefix(Append(d, Head(s)), d \o s)
             /\ Files!IsPrefix(d, Append(d, Head(s)))
             /\ Files!Front(Append(d, Head(s))) = d
  <2> DEFINE p == Append(d, Head(s))
  <2>1. /\ p \in PathSet /\ Len(p) = Len(d) + 1 /\ Len(d) \in Nat /\ Tail(s) \in PathSet
        /\ \A i \in 1 .. Len(d) : p[i] = d[i]
    BY <1>2 DEF PathSet
  <2>2. Files!IsPrefix(p, p \o Tail(s)) /\ p \o Tail(s) = d \o s
    BY <1>1, <1>2, <2>1, NameMoves
  <2> HIDE DEF p
  <2>3. Files!IsPrefix(d, p)
    BY <2>1, Prefix
  <2>4. p # <<>>
    BY <2>1 DEF PathSet
  <2>5. /\ Files!Front(p) \in PathSet /\ Len(Files!Front(p)) = Len(d)
        /\ \A i \in 1 .. Len(d) : Files!Front(p)[i] = d[i]
    <3>1. /\ Files!Front(p) \in PathSet /\ Len(Files!Front(p)) = Len(p) - 1
          /\ \A i \in 1 .. Len(p) - 1 : Files!Front(p)[i] = p[i]
      BY <2>1, <2>4, FrontOfPath
    <3> QED BY <2>1, <3>1
  <2>6. Files!Front(p) = d
    BY <2>5, SeqEqual DEF PathSet
  <2> QED BY <2>1, <2>2, <2>3, <2>6 DEF p
<1> QED BY <1>1, <1>2

LEMMA DirnamePath == MCdirname \in PathSet /\ MCdirname # <<>>
<1>1. Files!SeqOf(PathNames, MaxDepth) \subseteq PathSet
  BY DEF Files!SeqOf, PathSet
<1> QED BY <1>1, MCStorageAssumption DEF Files!FileSystemAssumption

CreatorStates == [pc            : {"idle", "look", "make", "done"},
                  path          : PathSet,
                  remaining_dir : PathSet,
                  sub_dirs      : PathSet,
                  ok            : BOOLEAN]

FilesTyped ==
  /\ DOMAIN tree \subseteq PathSet /\ faults \in Nat
  /\ makers \in [Creators -> CreatorStates]

\* The two parts of a path make it up, and a creator that has ended has failed
\* when a part was left.
PartsOK(m) ==
  /\ m.pc # "idle" => m.path = m.remaining_dir \o m.sub_dirs
  /\ IF m.pc = "done" THEN m.ok <=> m.sub_dirs = <<>> ELSE m.ok

\* What a creator builds on exists, and it fails on what is there or on a file.
GroundOK(m) ==
  /\ m.pc \in {"make", "done"} => m.remaining_dir = <<>> \/ m.remaining_dir \in DOMAIN tree
  /\ m.pc = "done" /\ ~ m.ok /\ faults = 0 =>
       \/ Append(m.remaining_dir, Head(m.sub_dirs)) \in DOMAIN tree
       \/ ~ Files!IsDirectory(m.remaining_dir)

\* What exists of a path beyond the part where a creator is was made by a creator
\* that got there.
BeyondOK(m) ==
  m.pc # "idle" =>
    \A q \in DOMAIN tree :
      Files!IsPrefix(q, m.path) /\ Len(m.remaining_dir) < Len(q) =>
        \E d \in Creators : /\ makers[d].pc \in {"make", "done"}
                            /\ Files!IsPrefix(q, makers[d].remaining_dir)

RaceInv ==
  phase = "before" =>
    /\ FilesTyped
    /\ \A c \in Creators : PartsOK(makers[c])
    /\ \A c \in Creators : GroundOK(makers[c])
    /\ \A c \in Creators : BeyondOK(makers[c])

LEMMA WantedPaths == MCWanted \subseteq PathSet \ {<<>>} /\ Files!Paths \subseteq PathSet
<1>1. Files!SeqOf(PathNames, MaxDepth) \subseteq PathSet
  BY DEF Files!SeqOf, PathSet
<1>2. MCWanted \subseteq Files!SeqOf(PathNames, MaxDepth)
  BY MCStorageAssumption DEF Files!FileSystemAssumption
<1> QED BY <1>1, <1>2 DEF MCWanted, Files!Paths

LEMMA RaceStart == MCInit => RaceInv
<1> SUFFICES ASSUME Files!Init PROVE RaceInv
  BY DEF MCInit
<1>1. <<>> \in PathSet
  BY DEF PathSet
<1>2. makers = [c \in Creators |-> Files!Idle] /\ faults = 0 /\ tree \in Files!Trees
  BY DEF Files!Init
<1>3. Files!Idle \in CreatorStates /\ Files!Idle.pc = "idle" /\ Files!Idle.ok
  BY <1>1 DEF Files!Idle, CreatorStates
<1>4. DOMAIN tree \subseteq PathSet
  BY <1>2, WantedPaths DEF Files!Trees
<1>5. FilesTyped
  BY <1>2, <1>3, <1>4 DEF FilesTyped
<1>6. \A c \in Creators : makers[c] = Files!Idle
  BY <1>2
<1> QED BY <1>3, <1>5, <1>6 DEF RaceInv, PartsOK, GroundOK, BeyondOK

\* A deletion that begins ends what the invariant is about.
LEMMA RaceDelete ==
  ASSUME Files!Delete
  PROVE  RaceInv'
BY DEF Files!Delete, Files!StartDelete, Files!Scan, Files!Visit, Files!Found, Files!DeleteNext,
       Files!EndDelete, RaceInv

\* A creator in the state m goes on, and the tree keeps what it has.
LEMMA CreatorMoves ==
  ASSUME RaceInv, phase = "before", UNCHANGED phase,
         NEW c \in Creators, NEW m \in CreatorStates, Files!Step(c, m),
         faults' \in Nat, faults' = 0 => faults = 0,
         DOMAIN tree \subseteq DOMAIN tree', DOMAIN tree' \subseteq PathSet,
         \A q \in DOMAIN tree : tree'[q] = tree[q],
         PartsOK(m), GroundOK(m)',
         makers[c].pc \in {"make", "done"} =>
           m.pc \in {"make", "done"} /\ Files!IsPrefix(makers[c].remaining_dir, m.remaining_dir),
         \A q \in DOMAIN tree' \ DOMAIN tree : m.pc = "make" /\ q = m.remaining_dir,
         m.pc # "idle" =>
           \A q \in DOMAIN tree :
             Files!IsPrefix(q, m.path) /\ Len(m.remaining_dir) < Len(q) =>
               /\ makers[c].pc # "idle" /\ m.path = makers[c].path
               /\ Len(makers[c].remaining_dir) < Len(q)
  PROVE  RaceInv'
<1>1. /\ FilesTyped
      /\ \A d \in Creators : PartsOK(makers[d])
      /\ \A d \in Creators : GroundOK(makers[d])
      /\ \A d \in Creators : BeyondOK(makers[d])
  BY DEF RaceInv
<1>2. /\ makers'[c] = m
      /\ \A d \in Creators : d # c => makers'[d] = makers[d]
  BY <1>1 DEF FilesTyped, Files!Step
<1>3. FilesTyped'
  BY <1>1 DEF FilesTyped, Files!Step
<1>4. \A d \in Creators : PartsOK(makers[d])'
  BY <1>1, <1>2 DEF PartsOK
<1>5. ASSUME NEW d \in Creators PROVE GroundOK(makers[d])'
  <2>1. CASE d = c
    BY <1>2, <2>1 DEF GroundOK, Files!IsDirectory, Files!FileExists
  <2>2. CASE d # c
    <3>1. GroundOK(makers[d]) /\ makers'[d] = makers[d]
      BY <1>1, <1>2, <2>2
    <3>2. \A q \in PathSet :
            (q \in DOMAIN tree /\ ~ Files!IsDirectory(q)) => ~ Files!IsDirectory(q)'
      BY DEF Files!IsDirectory, Files!FileExists
    <3>3. makers[d].remaining_dir \in PathSet
      BY <1>1 DEF FilesTyped, CreatorStates
    <3>4. ~ Files!IsDirectory(makers[d].remaining_dir) => makers[d].remaining_dir # <<>>
      BY DEF Files!IsDirectory
    <3> QED BY <3>1, <3>2, <3>3, <3>4 DEF GroundOK, Files!IsDirectory, Files!FileExists
  <2> QED BY <2>1, <2>2
<1>6. ASSUME NEW d \in Creators PROVE BeyondOK(makers[d])'
  <2> SUFFICES ASSUME makers'[d].pc # "idle", NEW q \in DOMAIN tree',
                      Files!IsPrefix(q, makers'[d].path),
                      Len(makers'[d].remaining_dir) < Len(q)
               PROVE  \E e \in Creators : /\ makers'[e].pc \in {"make", "done"}
                                          /\ Files!IsPrefix(q, makers'[e].remaining_dir)
    BY DEF BeyondOK
  <2>1. CASE q \in DOMAIN tree
    <3>1. /\ makers[d].pc # "idle" /\ Files!IsPrefix(q, makers[d].path)
          /\ Len(makers[d].remaining_dir) < Len(q)
      BY <1>2, <2>1
    <3>2. PICK e \in Creators : /\ makers[e].pc \in {"make", "done"}
                                /\ Files!IsPrefix(q, makers[e].remaining_dir)
      BY <1>1, <2>1, <3>1 DEF BeyondOK
    <3>3. CASE e # c
      BY <1>2, <3>2, <3>3
    <3>4. CASE e = c
      <4>1. /\ q \in PathSet /\ makers[c].remaining_dir \in PathSet
            /\ m.remaining_dir \in PathSet
        BY <1>1, <2>1 DEF FilesTyped, CreatorStates
      <4>2. /\ m.pc \in {"make", "done"} /\ Files!IsPrefix(q, makers[c].remaining_dir)
            /\ Files!IsPrefix(makers[c].remaining_dir, m.remaining_dir)
        BY <3>2, <3>4
      <4>3. Files!IsPrefix(q, m.remaining_dir)
        BY <4>1, <4>2, PrefixTrans
      <4> QED BY <1>2, <4>2, <4>3
    <3> QED BY <3>3, <3>4
  <2>2. CASE q \notin DOMAIN tree
    <3>1. q = m.remaining_dir /\ m.pc = "make" /\ m.remaining_dir \in PathSet
      BY <2>2 DEF CreatorStates
    <3>2. Files!IsPrefix(q, q)
      <4>1. q \in PathSet /\ Len(q) \in Nat
        BY <3>1 DEF PathSet
      <4> QED BY <4>1, Prefix
    <3> QED BY <1>2, <3>1, <3>2
  <2> QED BY <2>1, <2>2
<1> QED BY <1>3, <1>4, <1>5, <1>6 DEF RaceInv

LEMMA StartCreateStep ==
  ASSUME RaceInv, phase = "before", NEW c \in Creators, Files!StartCreate(c)
  PROVE  RaceInv'
<1>1. PICK p \in MCWanted :
        Files!Step(c, [Files!Idle EXCEPT !.pc = "look", !.path = p, !.remaining_dir = p])
  BY DEF Files!StartCreate
<1>2. p \in PathSet /\ <<>> \in PathSet /\ makers[c].pc = "idle"
  BY WantedPaths DEF PathSet, Files!StartCreate
<1> DEFINE moved == [Files!Idle EXCEPT !.pc = "look", !.path = p, !.remaining_dir = p]
<1>d. moved \in CreatorStates
  BY <1>2 DEF Files!Idle, CreatorStates
<1>m. PICK m \in CreatorStates : m = moved
  BY <1>d
<1>3. /\ m.pc = "look" /\ m.path = p /\ m.remaining_dir = p
      /\ m.sub_dirs = <<>> /\ m.ok
  BY <1>m DEF Files!Idle
<1>4. UNCHANGED <<tree, faults, phase>>
  BY DEF Files!StartCreate, Files!deleter
<1>5. PartsOK(m)
  <2>1. p \o <<>> = p
    BY <1>2 DEF PathSet
  <2> QED BY <1>3, <2>1 DEF PartsOK
<1>6. \A q \in DOMAIN tree :
        ~ (Files!IsPrefix(q, m.path) /\ Len(m.remaining_dir) < Len(q))
  <2>1. ASSUME NEW q \in PathSet, Files!IsPrefix(q, p) PROVE Len(q) <= Len(p)
    BY <1>2, <2>1, Prefix
  <2>2. ASSUME NEW q \in PathSet PROVE Len(q) \in Nat /\ Len(p) \in Nat
    BY <1>2 DEF PathSet
  <2> QED BY <1>3, <2>1, <2>2 DEF RaceInv, FilesTyped
<1>7. GroundOK(m)'
  BY <1>3 DEF GroundOK
<1>8. Files!Step(c, m)
  BY <1>1, <1>m
<1>9. FilesTyped
  BY DEF RaceInv
<1> QED BY <1>2, <1>3, <1>4, <1>5, <1>6, <1>7, <1>8, <1>9, CreatorMoves DEF FilesTyped

LEMMA LookStep ==
  ASSUME RaceInv, phase = "before", NEW c \in Creators, Files!Look(c)
  PROVE  RaceInv'
<1>1. FilesTyped /\ PartsOK(makers[c]) /\ makers[c].pc = "look"
  BY DEF RaceInv, Files!Look
<1>0. PICK d \in PathSet, s \in PathSet : d = makers[c].remaining_dir /\ s = makers[c].sub_dirs
  BY <1>1 DEF FilesTyped, CreatorStates
<1>2. makers[c] \in CreatorStates /\ makers[c].path = d \o s /\ makers[c].ok
  BY <1>0, <1>1 DEF FilesTyped, PartsOK
<1>3. UNCHANGED <<tree, faults, phase>>
  BY DEF Files!Look, Files!deleter
<1>4. CASE d # <<>> /\ ~ Files!FileExists(d)
  <2> DEFINE moved == [makers[c] EXCEPT !.sub_dirs = Files!Pending(Files!Last(d), @),
                                        !.remaining_dir = Files!Front(d)]
  <2>2. /\ Files!Front(d) \in PathSet /\ Len(Files!Front(d)) = Len(d) - 1
        /\ Files!Last(d) \in PathNames
    BY <1>2, <1>4, FrontOfPath
  <2>3. Files!Pending(Files!Last(d), s) \in PathSet
    BY <1>2, <2>2 DEF Files!Pending, PathSet
  <2>m. PICK m \in CreatorStates : m = moved
    BY <1>0, <1>2, <2>2, <2>3 DEF CreatorStates
  <2>1. Files!Step(c, m)
    BY <1>0, <1>4, <2>m DEF Files!Look
  <2>4. /\ m.pc = "look" /\ m.path = makers[c].path
        /\ m.remaining_dir = Files!Front(d) /\ m.sub_dirs = Files!Pending(Files!Last(d), s)
        /\ m.ok
    BY <1>0, <1>1, <1>2, <2>m DEF CreatorStates
  <2>5. PartsOK(m)
    BY <1>2, <1>4, <2>4, NameMoves DEF PartsOK
  <2>6. GroundOK(m)'
    BY <2>4 DEF GroundOK
  <2>7. ASSUME NEW q \in DOMAIN tree, Files!IsPrefix(q, m.path), Len(m.remaining_dir) < Len(q)
        PROVE  Len(d) < Len(q)
    <3>1. /\ q \in PathSet /\ Len(q) \in Nat /\ Len(d) \in Nat
          /\ Len(d) <= Len(q)
      BY <1>1, <1>2, <2>2, <2>4, <2>7 DEF FilesTyped, PathSet
    <3>2. ASSUME Len(q) = Len(d) PROVE FALSE
      <4>1. Files!IsPrefix(q, d \o s) /\ Files!IsPrefix(d, d \o s) /\ d \o s \in PathSet
        BY <1>2, <2>4, <2>7, PartsOfPath
      <4>2. Files!IsPrefix(q, d)
        BY <1>2, <3>1, <3>2, <4>1, PrefixesOfOne
      <4>3. \A i \in 1 .. Len(q) : q[i] = d[i]
        BY <1>2, <3>1, <4>2, Prefix
      <4>4. q = d
        BY <1>2, <3>1, <3>2, <4>3, SeqEqual DEF PathSet
      <4> QED BY <1>4, <4>4 DEF Files!FileExists
    <3> QED BY <3>1, <3>2
  <2> QED BY <1>0, <1>1, <1>3, <2>1, <2>4, <2>5, <2>6, <2>7, CreatorMoves DEF FilesTyped
<1>5. CASE ~ (d # <<>> /\ ~ Files!FileExists(d))
  <2>m. PICK m \in CreatorStates : m = [makers[c] EXCEPT !.pc = "make"]
    BY <1>2 DEF CreatorStates
  <2>1. Files!Step(c, m)
    BY <1>0, <1>5, <2>m DEF Files!Look
  <2>2. /\ m.pc = "make" /\ m.path = makers[c].path
        /\ m.remaining_dir = d /\ m.sub_dirs = s /\ m.ok
    BY <1>0, <1>2, <2>m DEF CreatorStates
  <2>3. PartsOK(m)
    BY <1>2, <2>2 DEF PartsOK
  <2>4. GroundOK(m)'
    BY <1>3, <1>5, <2>2 DEF GroundOK, Files!FileExists
  <2> QED BY <1>0, <1>1, <1>3, <2>1, <2>2, <2>3, <2>4, CreatorMoves DEF FilesTyped
<1> QED BY <1>4, <1>5

LEMMA MakeStep ==
  ASSUME RaceInv, phase = "before", NEW c \in Creators, Files!Make(c)
  PROVE  RaceInv'
<1>1. /\ FilesTyped /\ PartsOK(makers[c]) /\ GroundOK(makers[c])
      /\ makers[c].pc = "make" /\ makers[c].sub_dirs # <<>>
  BY DEF RaceInv, Files!Make
<1>0. PICK d \in PathSet, s \in PathSet : d = makers[c].remaining_dir /\ s = makers[c].sub_dirs
  BY <1>1 DEF FilesTyped, CreatorStates
<1>2. makers[c] \in CreatorStates /\ makers[c].path = d \o s /\ makers[c].ok /\ s # <<>>
  BY <1>0, <1>1 DEF FilesTyped, PartsOK
<1>p. PICK p \in PathSet : p = Append(d, Head(s))
  BY <1>2, PartsOfPath
<1>3. UNCHANGED phase
  BY DEF Files!Make, Files!deleter
<1>4. /\ Len(p) = Len(d) + 1 /\ Files!IsPrefix(d, p) /\ Files!Front(p) = d
      /\ Files!IsPrefix(p, d \o s) /\ Tail(s) \in PathSet /\ p \o Tail(s) = d \o s
  <2>1. Tail(s) \in PathSet
    BY <1>2 DEF PathSet
  <2> QED BY <1>2, <1>p, <2>1, PartsOfPath, NameMoves
<1>5. CASE /\ tree' = [q \in DOMAIN tree \cup {p} |-> IF q = p THEN "dir" ELSE tree[q]]
           /\ Files!Creatable(p) /\ UNCHANGED faults
           /\ Files!Step(c, [makers[c] EXCEPT !.remaining_dir = p, !.sub_dirs = Tail(@)])
  <2>m. PICK m \in CreatorStates : m = [makers[c] EXCEPT !.remaining_dir = p, !.sub_dirs = Tail(@)]
    BY <1>0, <1>2, <1>4 DEF CreatorStates
  <2>1. /\ m.pc = "make" /\ m.path = makers[c].path
        /\ m.remaining_dir = p /\ m.sub_dirs = Tail(s) /\ m.ok
    BY <1>0, <1>1, <1>2, <2>m DEF CreatorStates
  <2>2. Files!Step(c, m)
    BY <1>5, <2>m
  <2>3. p \notin DOMAIN tree
    BY <1>5 DEF Files!Creatable, Files!FileExists
  <2>4. /\ DOMAIN tree' = DOMAIN tree \cup {p} /\ DOMAIN tree' \subseteq PathSet
        /\ \A q \in DOMAIN tree : tree'[q] = tree[q]
    BY <1>1, <1>4, <1>5, <2>3 DEF FilesTyped
  <2>5. PartsOK(m)
    BY <1>2, <1>4, <2>1 DEF PartsOK
  <2>6. GroundOK(m)'
    BY <2>1, <2>4 DEF GroundOK
  <2>7. ASSUME NEW q \in DOMAIN tree, Len(p) < Len(q) PROVE Len(d) < Len(q)
    <3>1. Len(q) \in Nat /\ Len(d) \in Nat
      BY <1>1, <1>2 DEF FilesTyped, PathSet
    <3> QED BY <1>4, <2>7, <3>1
  <2>8. faults' \in Nat /\ (faults' = 0 => faults = 0)
    BY <1>1, <1>5 DEF FilesTyped
  <2> QED BY <1>0, <1>1, <1>3, <1>4, <2>1, <2>2, <2>4, <2>5, <2>6, <2>7, <2>8, CreatorMoves
<1>6. CASE /\ Files!Fail(Files!Creatable(p)) /\ UNCHANGED tree
           /\ Files!Step(c, [makers[c] EXCEPT !.pc = "done", !.ok = FALSE])
  <2>m. PICK m \in CreatorStates : m = [makers[c] EXCEPT !.pc = "done", !.ok = FALSE]
    BY <1>2 DEF CreatorStates
  <2>1. /\ m.pc = "done" /\ m.path = makers[c].path
        /\ m.remaining_dir = d /\ m.sub_dirs = s /\ ~ m.ok
    BY <1>0, <1>2, <2>m DEF CreatorStates
  <2>2. Files!Step(c, m)
    BY <1>6, <2>m
  <2>3. /\ faults' \in Nat /\ (faults' = 0 => faults = 0)
        /\ faults' = 0 => ~ Files!Creatable(p)
    BY <1>1, <1>6 DEF FilesTyped, Files!Fail
  <2>4. PartsOK(m)
    BY <1>1, <1>2, <2>1 DEF PartsOK
  <2>5. GroundOK(m)'
    <3>1. d = <<>> \/ d \in DOMAIN tree'
      BY <1>0, <1>1, <1>6 DEF GroundOK
    <3>2. faults' = 0 => p \in DOMAIN tree' \/ ~ Files!IsDirectory(d)'
      BY <1>4, <1>6, <2>3 DEF Files!Creatable, Files!FileExists, Files!IsDirectory
    <3> QED BY <1>p, <2>1, <3>1, <3>2 DEF GroundOK
  <2>6. Files!IsPrefix(d, d)
    <3>1. Len(d) \in Nat
      BY <1>2 DEF PathSet
    <3> QED BY <1>2, <3>1, Prefix
  <2> QED BY <1>0, <1>1, <1>3, <1>6, <2>1, <2>2, <2>3, <2>4, <2>5, <2>6, CreatorMoves DEF FilesTyped
<1> QED BY <1>0, <1>p, <1>5, <1>6 DEF Files!Make

LEMMA EndCreateStep ==
  ASSUME RaceInv, phase = "before", NEW c \in Creators, Files!EndCreate(c)
  PROVE  RaceInv'
<1>1. /\ FilesTyped /\ PartsOK(makers[c]) /\ GroundOK(makers[c])
      /\ makers[c].pc = "make" /\ makers[c].sub_dirs = <<>>
  BY DEF RaceInv, Files!EndCreate
<1>0. PICK d \in PathSet : d = makers[c].remaining_dir
  BY <1>1 DEF FilesTyped, CreatorStates
<1>2. makers[c] \in CreatorStates
  BY <1>1 DEF FilesTyped
<1>m. PICK m \in CreatorStates : m = [makers[c] EXCEPT !.pc = "done"]
  BY <1>2 DEF CreatorStates
<1>3. UNCHANGED <<tree, faults, phase>> /\ Files!Step(c, m)
  BY <1>m DEF Files!EndCreate, Files!deleter
<1>4. /\ m.pc = "done" /\ m.path = makers[c].path
      /\ m.remaining_dir = d /\ m.sub_dirs = makers[c].sub_dirs /\ m.ok = makers[c].ok
  BY <1>0, <1>2, <1>m DEF CreatorStates
<1>5. PartsOK(m)
  BY <1>0, <1>1, <1>4 DEF PartsOK
<1>6. GroundOK(m)'
  BY <1>0, <1>1, <1>3, <1>4, <1>5 DEF GroundOK, PartsOK
<1>7. Files!IsPrefix(d, d)
  <2>1. Len(d) \in Nat
    BY <1>2 DEF PathSet
  <2> QED BY <1>2, <2>1, Prefix
<1> QED BY <1>0, <1>1, <1>3, <1>4, <1>5, <1>6, <1>7, CreatorMoves DEF FilesTyped

LEMMA RaceStep == RaceInv /\ [MCNext]_everything => RaceInv'
<1> SUFFICES ASSUME RaceInv, [MCNext]_everything PROVE RaceInv'
  OBVIOUS
<1>1. CASE Files!Delete
  BY <1>1, RaceDelete
<1>2. ASSUME NEW c \in Creators, Files!Create(c)
      PROVE  RaceInv'
  <2>1. UNCHANGED phase
    BY <1>2 DEF Files!Create, Files!StartCreate, Files!Look, Files!Make, Files!EndCreate,
               Files!deleter
  <2>2. CASE phase # "before"
    BY <2>1, <2>2 DEF RaceInv
  <2>3. CASE phase = "before"
    BY <1>2, <2>3, StartCreateStep, LookStep, MakeStep, EndCreateStep DEF Files!Create
  <2> QED BY <2>2, <2>3
<1>3. CASE UNCHANGED files
  BY <1>3 DEF files, RaceInv, FilesTyped, PartsOK, GroundOK, BeyondOK, Files!IsDirectory,
             Files!FileExists
<1>4. Files!Next \/ UNCHANGED files
  BY DEF MCNext, Only, Is, everything
<1> QED BY <1>1, <1>2, <1>3, <1>4 DEF Files!Next

\* The creator that got furthest can only have failed on what another one made
\* further on.
LEMMA RaceAnswers == RaceInv => OneCreates
<1> SUFFICES ASSUME RaceInv, NEW p \in MCWanted,
                    \A c \in Creators : makers[c].pc = "done" /\ makers[c].path = p,
                    faults = 0, phase = "before",
                    \A q \in DOMAIN tree :
                      Files!IsPrefix(q, p) /\ q # p => Files!IsDirectory(q)
             PROVE  Files!FileExists(p) /\ \E c \in Creators : makers[c].ok
  BY DEF OneCreates, Files!OneCreates
<1>1. p \in PathSet /\ p # <<>> /\ Len(p) \in Nat
  BY WantedPaths DEF PathSet
<1>2. ASSUME NEW c \in Creators
      PROVE  /\ makers[c].remaining_dir \in PathSet /\ makers[c].sub_dirs \in PathSet
             /\ p = makers[c].remaining_dir \o makers[c].sub_dirs
             /\ makers[c].ok <=> makers[c].sub_dirs = <<>>
             /\ GroundOK(makers[c]) /\ BeyondOK(makers[c])
             /\ Len(makers[c].remaining_dir) \in Nat
             /\ Len(makers[c].remaining_dir) <= Len(p)
  <2>1. makers[c] \in CreatorStates /\ PartsOK(makers[c])
    BY DEF RaceInv, FilesTyped
  <2>2. /\ makers[c].remaining_dir \in PathSet /\ makers[c].sub_dirs \in PathSet
        /\ p = makers[c].remaining_dir \o makers[c].sub_dirs
        /\ makers[c].ok <=> makers[c].sub_dirs = <<>>
    BY <2>1 DEF PartsOK, CreatorStates
  <2>3. Files!IsPrefix(makers[c].remaining_dir, p) /\ Len(makers[c].remaining_dir) \in Nat
    BY <2>2, PartsOfPath DEF PathSet
  <2>4. Len(makers[c].remaining_dir) <= Len(p)
    BY <1>1, <2>2, <2>3, Prefix
  <2> QED BY <2>2, <2>3, <2>4 DEF RaceInv
<1>3. PICK c \in Creators :
        \A e \in Creators : Len(makers[e].remaining_dir) <= Len(makers[c].remaining_dir)
  <2> DEFINE left(e) == Len(p) - Len(makers[e].remaining_dir)
             T       == {left(e) : e \in Creators}
  <2>1. T \subseteq Nat
    <3>1. ASSUME NEW e \in Creators PROVE left(e) \in Nat
      <4>1. /\ Len(makers[e].remaining_dir) \in Nat
            /\ Len(makers[e].remaining_dir) <= Len(p)
        BY <1>2
      <4> QED BY <1>1, <4>1
    <3> QED BY <3>1
  <2>5. T # {}
    BY MCStorageAssumption DEF Files!FileSystemAssumption
  <2> HIDE DEF T
  <2>2. PICK x \in T : \A y \in T : x <= y
    BY <2>1, <2>5, LeastNatural
  <2>3. PICK c \in Creators : x = left(c)
    BY <2>2 DEF T
  <2>4. ASSUME NEW e \in Creators
        PROVE  Len(makers[e].remaining_dir) <= Len(makers[c].remaining_dir)
    <3>1. left(c) <= left(e)
      BY <2>2, <2>3 DEF T
    <3> QED BY <1>1, <1>2, <3>1
  <2> QED BY <2>4
<1> DEFINE d == makers[c].remaining_dir
           s == makers[c].sub_dirs
<1>4. CASE makers[c].ok
  <2>1. s = <<>> /\ d = p
    <3>1. s = <<>> /\ p = d \o <<>> /\ d \in PathSet
      BY <1>2, <1>4
    <3> QED BY <3>1 DEF PathSet
  <2>2. p \in DOMAIN tree
    BY <1>1, <1>2, <2>1 DEF GroundOK
  <2> QED BY <1>4, <2>2 DEF Files!FileExists
<1>5. CASE ~ makers[c].ok
  <2>1. d \in PathSet /\ s \in PathSet /\ s # <<>> /\ p = d \o s
    BY <1>2, <1>5
  <2> DEFINE r == Append(d, Head(s))
  <2>2. /\ r \in PathSet /\ Len(r) = Len(d) + 1 /\ Files!IsPrefix(r, p)
        /\ Files!IsPrefix(d, p) /\ Files!IsPrefix(d, r)
    BY <2>1, PartsOfPath
  <2>3. r \notin DOMAIN tree
    <3> SUFFICES ASSUME r \in DOMAIN tree PROVE FALSE
      OBVIOUS
    <3>1. Len(d) < Len(r)
      BY <1>2, <2>2
    <3>2. PICK e \in Creators : Files!IsPrefix(r, makers[e].remaining_dir)
      BY <1>2, <2>2, <3>1 DEF BeyondOK
    <3>3. Len(r) <= Len(makers[e].remaining_dir)
      BY <1>2, <2>2, <3>2, Prefix
    <3> QED BY <1>2, <1>3, <2>2, <3>3
  <2>4. ~ Files!IsDirectory(d) /\ d # <<>> /\ d \in DOMAIN tree
    <3>1. ~ Files!IsDirectory(d)
      BY <1>2, <1>5, <2>3 DEF GroundOK
    <3>2. d # <<>>
      BY <3>1 DEF Files!IsDirectory
    <3> QED BY <1>2, <3>1, <3>2 DEF GroundOK
  <2>5. d # p
    <3>1. Len(r) <= Len(p)
      BY <1>1, <1>2, <2>2, Prefix
    <3> QED BY <1>1, <1>2, <2>2, <3>1
  <2> QED BY <2>2, <2>4, <2>5
<1> QED BY <1>4, <1>5

\* Of several processes that create the same path one at least succeeds: the
\* mkdir calls of CreateDirectoryRecursively, of any number of processes.
THEOREM CreatorSucceeds == MCSpec => []OneCreates
<1>1. MCInit => RaceInv
  BY RaceStart
<1>2. RaceInv /\ [MCNext]_<<which, vars, users, files>> => RaceInv'
  BY RaceStep DEF everything
<1>3. RaceInv => OneCreates
  BY RaceAnswers
<1> QED BY <1>1, <1>2, <1>3, PTL DEF MCSpec

-----------------------------------------------------------------------------
(* FileSystem: the recursive deletion.                                     *)

\* The paths of a list, as DeleteDirectoryRecursively keeps two.
Listed(x, l) == \E i \in 1 .. Len(l) : l[i] = x

\* No path comes twice and none after one that is in it, and the reverse.
ParentsFirst(l) == \A i, j \in 1 .. Len(l) : i < j => l[i] # l[j] /\ Files!Front(l[i]) # l[j]
ParentsLast(l)  == \A i, j \in 1 .. Len(l) : i < j => l[i] # l[j] /\ Files!Front(l[j]) # l[i]

LEMMA ListFacts ==
  ASSUME NEW l \in Seq(PathSet), NEW y \in PathSet
  PROVE  /\ Append(l, y) \in Seq(PathSet)
         /\ \A x : Listed(x, Append(l, y)) <=> Listed(x, l) \/ x = y
         /\ \A x : Listed(x, l) => x \in PathSet
         /\ l # <<>> => /\ Head(l) \in PathSet /\ Tail(l) \in Seq(PathSet)
                        /\ \A x : Listed(x, l) <=> x = Head(l) \/ Listed(x, Tail(l))
<1>1. /\ Len(Append(l, y)) = Len(l) + 1 /\ Len(l) \in Nat /\ Append(l, y)[Len(l) + 1] = y
      /\ \A i \in 1 .. Len(l) : Append(l, y)[i] = l[i]
  OBVIOUS
<1>2. ASSUME NEW x PROVE Listed(x, Append(l, y)) <=> Listed(x, l) \/ x = y
  <2> DEFINE a == Append(l, y)
  <2>1. /\ Len(a) = Len(l) + 1 /\ Len(l) \in Nat /\ a[Len(l) + 1] = y
        /\ \A i \in 1 .. Len(l) : a[i] = l[i]
    BY <1>1
  <2> HIDE DEF a
  <2>2. ASSUME Listed(x, a) PROVE Listed(x, l) \/ x = y
    <3>1. PICK i \in 1 .. Len(a) : a[i] = x
      BY <2>2 DEF Listed
    <3>2. CASE i = Len(l) + 1
      BY <2>1, <3>1, <3>2
    <3>3. CASE i # Len(l) + 1
      BY <2>1, <3>1, <3>3 DEF Listed
    <3> QED BY <3>2, <3>3
  <2>3. ASSUME Listed(x, l) PROVE Listed(x, a)
    BY <2>1, <2>3 DEF Listed
  <2>4. Listed(y, a)
    BY <2>1 DEF Listed
  <2> QED BY <2>2, <2>3, <2>4 DEF a
<1>3. ASSUME l # <<>>
      PROVE  /\ Head(l) \in PathSet /\ Tail(l) \in Seq(PathSet)
             /\ \A x : Listed(x, l) <=> x = Head(l) \/ Listed(x, Tail(l))
  <2> DEFINE t == Tail(l)
  <2>1. /\ Len(t) = Len(l) - 1 /\ Len(l) \in Nat \ {0} /\ Head(l) = l[1]
        /\ \A i \in 1 .. Len(l) - 1 : t[i] = l[i + 1]
        /\ Head(l) \in PathSet /\ t \in Seq(PathSet)
    BY <1>3
  <2> HIDE DEF t
  <2>2. ASSUME NEW x, Listed(x, l) PROVE x = l[1] \/ Listed(x, t)
    <3>1. PICK i \in 1 .. Len(l) : l[i] = x
      BY <2>2 DEF Listed
    <3>2. CASE i = 1
      BY <3>1, <3>2
    <3>3. CASE i # 1
      <4>1. i - 1 \in 1 .. Len(t) /\ i - 1 \in 1 .. Len(l) - 1 /\ (i - 1) + 1 = i
        BY <2>1, <3>1, <3>3
      <4>2. t[i - 1] = l[(i - 1) + 1]
        BY <2>1, <4>1
      <4>3. t[i - 1] = x
        BY <3>1, <4>1, <4>2
      <4> QED BY <4>1, <4>3 DEF Listed
    <3> QED BY <3>2, <3>3
  <2>3. ASSUME NEW x, Listed(x, t) PROVE Listed(x, l)
    <3>1. PICK i \in 1 .. Len(t) : t[i] = x
      BY <2>3 DEF Listed
    <3>2. i + 1 \in 1 .. Len(l) /\ l[i + 1] = x
      BY <2>1, <3>1
    <3> QED BY <3>2 DEF Listed
  <2>4. Listed(l[1], l)
    BY <2>1 DEF Listed
  <2> QED BY <2>1, <2>2, <2>3, <2>4 DEF t
<1>4. \A x : Listed(x, l) => x \in PathSet
  BY DEF Listed
<1> QED BY <1>2, <1>3, <1>4

LEMMA EmptyList == \A x : ~ Listed(x, <<>>)
BY DEF Listed

\* The list and the queue of the search, one after the other.
LEMMA JoinedLists ==
  ASSUME NEW a \in Seq(PathSet), NEW b \in Seq(PathSet), NEW y \in PathSet
  PROVE  /\ a \o b \in Seq(PathSet)
         /\ \A x : Listed(x, a \o b) <=> Listed(x, a) \/ Listed(x, b)
         /\ a \o Append(b, y) = Append(a \o b, y)
         /\ b # <<>> => Append(a, Head(b)) \o Tail(b) = a \o b
<1> DEFINE c == a \o b
<1>1. /\ c \in Seq(PathSet) /\ Len(a) \in Nat /\ Len(b) \in Nat /\ Len(c) = Len(a) + Len(b)
      /\ \A i \in 1 .. Len(a) : c[i] = a[i]
      /\ \A i \in 1 .. Len(b) : c[Len(a) + i] = b[i]
  OBVIOUS
<1> HIDE DEF c
<1>2. ASSUME NEW x PROVE Listed(x, c) <=> Listed(x, a) \/ Listed(x, b)
  <2>1. ASSUME Listed(x, c) PROVE Listed(x, a) \/ Listed(x, b)
    <3>1. PICK i \in 1 .. Len(c) : c[i] = x
      BY <2>1 DEF Listed
    <3>2. CASE i <= Len(a)
      <4>1. i \in 1 .. Len(a) /\ a[i] = x
        BY <1>1, <3>1, <3>2
      <4> QED BY <4>1 DEF Listed
    <3>3. CASE i > Len(a)
      <4>1. i - Len(a) \in 1 .. Len(b) /\ Len(a) + (i - Len(a)) = i
        BY <1>1, <3>1, <3>3
      <4>2. b[i - Len(a)] = c[Len(a) + (i - Len(a))]
        BY <1>1, <4>1
      <4>3. b[i - Len(a)] = x
        BY <3>1, <4>1, <4>2
      <4> QED BY <4>1, <4>3 DEF Listed
    <3> QED BY <1>1, <3>1, <3>2, <3>3
  <2>2. ASSUME Listed(x, a) PROVE Listed(x, c)
    BY <1>1, <2>2 DEF Listed
  <2>3. ASSUME Listed(x, b) PROVE Listed(x, c)
    <3>1. PICK i \in 1 .. Len(b) : b[i] = x
      BY <2>3 DEF Listed
    <3>2. Len(a) + i \in 1 .. Len(c) /\ c[Len(a) + i] = x
      BY <1>1, <3>1
    <3> QED BY <3>2 DEF Listed
  <2> QED BY <2>1, <2>2, <2>3
<1>3. a \o Append(b, y) = Append(a \o b, y)
  <2>1. Append(b, y) = b \o <<y>> /\ Append(c, y) = c \o <<y>>
    BY <1>1, AppendIsConcat
  <2>2. (a \o b) \o <<y>> = a \o (b \o <<y>>)
    BY ConcatAssociative
  <2> QED BY <2>1, <2>2 DEF c
<1>4. ASSUME b # <<>> PROVE Append(a, Head(b)) \o Tail(b) = a \o b
  <2> DEFINE h == Head(b)
             t == Tail(b)
  <2>1. /\ h \in PathSet /\ t \in Seq(PathSet) /\ Len(t) = Len(b) - 1 /\ h = b[1]
        /\ Len(b) \in Nat \ {0} /\ \A i \in 1 .. Len(b) - 1 : t[i] = b[i + 1]
    BY <1>4
  <2> HIDE DEF h, t
  <2>2. <<h>> \o t \in Seq(PathSet) /\ Len(<<h>> \o t) = Len(b)
        /\ \A i \in 1 .. Len(b) : (<<h>> \o t)[i] = b[i]
    BY <2>1
  <2>3. <<h>> \o t = b
    BY <2>2, SeqEqual
  <2>4. Append(a, h) = a \o <<h>> /\ (a \o <<h>>) \o t = a \o (<<h>> \o t)
    BY <2>1, AppendIsConcat, ConcatAssociative
  <2> QED BY <2>3, <2>4 DEF h, t
<1> QED BY <1>1, <1>2, <1>3, <1>4 DEF c

LEMMA OrderFacts ==
  ASSUME NEW l \in Seq(PathSet), NEW y \in PathSet
  PROVE  /\ ParentsFirst(<<y>>)
         /\ (/\ ParentsFirst(l) /\ ~ Listed(y, l)
             /\ \A x \in PathSet : Listed(x, l) => Files!Front(x) # y)
            => ParentsFirst(Append(l, y))
         /\ (ParentsLast(l) /\ l # <<>>) =>
              /\ ParentsLast(Tail(l)) /\ ~ Listed(Head(l), Tail(l))
              /\ \A x : Listed(x, Tail(l)) => Files!Front(x) # Head(l)
<1>1. ParentsFirst(<<y>>)
  BY DEF ParentsFirst
<1>2. ASSUME ParentsFirst(l), ~ Listed(y, l),
             \A x \in PathSet : Listed(x, l) => Files!Front(x) # y
      PROVE  ParentsFirst(Append(l, y))
  <2> DEFINE a == Append(l, y)
  <2>1. /\ Len(a) = Len(l) + 1 /\ Len(l) \in Nat /\ a[Len(l) + 1] = y
        /\ \A i \in 1 .. Len(l) : a[i] = l[i]
    OBVIOUS
  <2> HIDE DEF a
  <2> SUFFICES ASSUME NEW i \in 1 .. Len(a), NEW j \in 1 .. Len(a), i < j
               PROVE  a[i] # a[j] /\ Files!Front(a[i]) # a[j]
    BY DEF ParentsFirst, a
  <2>2. i \in 1 .. Len(l) /\ a[i] = l[i]
    BY <2>1
  <2>3. CASE j = Len(l) + 1
    <3>1. a[j] = y /\ Listed(l[i], l) /\ l[i] \in PathSet
      BY <2>1, <2>2, <2>3 DEF Listed
    <3>2. l[i] # y /\ Files!Front(l[i]) # y
      BY <1>2, <3>1
    <3> QED BY <2>2, <3>1, <3>2
  <2>4. CASE j # Len(l) + 1
    <3>1. j \in 1 .. Len(l) /\ a[j] = l[j]
      BY <2>1, <2>4
    <3> QED BY <1>2, <2>2, <3>1 DEF ParentsFirst
  <2> QED BY <2>3, <2>4
<1>3. ASSUME ParentsLast(l), l # <<>>
      PROVE  /\ ParentsLast(Tail(l)) /\ ~ Listed(Head(l), Tail(l))
             /\ \A x : Listed(x, Tail(l)) => Files!Front(x) # Head(l)
  <2> DEFINE t == Tail(l)
  <2>1. /\ Len(t) = Len(l) - 1 /\ Len(l) \in Nat \ {0} /\ Head(l) = l[1]
        /\ \A i \in 1 .. Len(t) : t[i] = l[i + 1]
    BY <1>3
  <2> HIDE DEF t
  <2>2. ASSUME NEW i \in 1 .. Len(t), NEW j \in 1 .. Len(t), i < j
        PROVE  t[i] # t[j] /\ Files!Front(t[j]) # t[i]
    <3>1. i + 1 \in 1 .. Len(l) /\ j + 1 \in 1 .. Len(l) /\ i + 1 < j + 1
      BY <2>1, <2>2
    <3> QED BY <1>3, <2>1, <3>1 DEF ParentsLast
  <2>3. ASSUME NEW x, Listed(x, t) PROVE x # Head(l) /\ Files!Front(x) # Head(l)
    <3>1. PICK i \in 1 .. Len(t) : t[i] = x
      BY <2>3 DEF Listed
    <3>2. 1 \in 1 .. Len(l) /\ i + 1 \in 1 .. Len(l) /\ 1 < i + 1 /\ l[i + 1] = x
      BY <2>1, <3>1
    <3> QED BY <1>3, <2>1, <3>2 DEF ParentsLast
  <2> QED BY <2>2, <2>3 DEF ParentsLast, t
<1> QED BY <1>1, <1>2, <1>3

\* The removal goes the other way.
LEMMA ReverseFacts ==
  ASSUME NEW l \in Seq(PathSet)
  PROVE  /\ Files!Reverse(l) \in Seq(PathSet)
         /\ \A x : Listed(x, Files!Reverse(l)) <=> Listed(x, l)
         /\ ParentsFirst(l) => ParentsLast(Files!Reverse(l))
<1> DEFINE n == Len(l)
           r == Files!Reverse(l)
<1>1. n \in Nat
  OBVIOUS
<1>2. r = [i \in 1 .. n |-> l[(n - i) + 1]]
  BY DEF Files!Reverse
<1>3. \A i \in 1 .. n : (n - i) + 1 \in 1 .. n /\ n - ((n - i) + 1) + 1 = i
  BY <1>1
<1> HIDE DEF r
<1>4. r \in Seq(PathSet) /\ Len(r) = n /\ \A i \in 1 .. n : r[i] = l[(n - i) + 1]
  BY <1>1, <1>2, <1>3
<1> HIDE DEF n
<1>5. ASSUME NEW x, Listed(x, r) PROVE Listed(x, l)
  BY <1>3, <1>4, <1>5 DEF Listed, n
<1>6. ASSUME NEW x, Listed(x, l) PROVE Listed(x, r)
  <2>1. PICK i \in 1 .. n : l[i] = x
    BY <1>6 DEF Listed, n
  <2>2. (n - i) + 1 \in 1 .. n /\ r[(n - i) + 1] = l[i]
    BY <1>3, <1>4, <2>1
  <2> QED BY <1>4, <2>1, <2>2 DEF Listed
<1>7. ASSUME ParentsFirst(l), NEW i \in 1 .. n, NEW j \in 1 .. n, i < j
      PROVE  r[i] # r[j] /\ Files!Front(r[j]) # r[i]
  <2>1. /\ (n - i) + 1 \in 1 .. n /\ (n - j) + 1 \in 1 .. n /\ (n - j) + 1 < (n - i) + 1
        /\ r[i] = l[(n - i) + 1] /\ r[j] = l[(n - j) + 1]
    BY <1>1, <1>3, <1>4, <1>7
  <2> QED BY <1>7, <2>1 DEF ParentsFirst, n
<1> QED BY <1>4, <1>5, <1>6, <1>7 DEF ParentsLast, r

\* Everything that exists is in a directory that exists.
Closed ==
  \A p \in DOMAIN tree :
    Files!Front(p) = <<>> \/ (Files!Front(p) \in DOMAIN tree /\ tree[Files!Front(p)] = "dir")

DeleterTyped ==
  /\ phase \in {"before", "scan", "remove", "done"}
  /\ dir_q \in Seq(PathSet) /\ dir_list \in Seq(PathSet) /\ children \subseteq PathSet
  /\ undeleted_files \in Nat /\ undeleted_dirs \in Nat

\* Success is when the two counts are zero.
CountsOK == ret <=> undeleted_files + undeleted_dirs = 0

NotBegun ==
  phase = "before" =>
    /\ dir_q = <<>> /\ dir_list = <<>> /\ children = {} /\ there = {} /\ gone = {} /\ ret = TRUE

TreeInv == FilesTyped /\ <<>> \notin DOMAIN tree /\ Closed /\ DeleterTyped /\ CountsOK /\ NotBegun

LEMMA TreeStart == MCInit => TreeInv
<1> SUFFICES ASSUME Files!Init PROVE TreeInv
  BY DEF MCInit
<1>1. <<>> \in PathSet /\ <<>> \in Seq(PathSet)
  BY DEF PathSet
<1>2. makers = [c \in Creators |-> Files!Idle] /\ faults = 0 /\ tree \in Files!Trees
  BY DEF Files!Init
<1>3. Files!Idle \in CreatorStates
  BY <1>1 DEF Files!Idle, CreatorStates
<1>4. PICK S \in SUBSET Files!Paths :
        tree \in {t \in [S -> {"dir", "file"}] :
                    \A p \in S : \/ Files!Front(p) = <<>>
                                 \/ (Files!Front(p) \in S /\ t[Files!Front(p)] = "dir")}
  BY <1>2 DEF Files!Trees
<1>5. DOMAIN tree = S /\ S \subseteq PathSet /\ <<>> \notin S
  BY <1>4, WantedPaths DEF Files!Paths
<1>6. Closed
  BY <1>4, <1>5 DEF Closed
<1>7. FilesTyped
  BY <1>2, <1>3, <1>5 DEF FilesTyped
<1>8. DeleterTyped
  BY <1>1 DEF Files!Init, DeleterTyped
<1>9. CountsOK
  BY DEF Files!Init, CountsOK
<1>10. NotBegun
  BY DEF Files!Init, NotBegun
<1> QED BY <1>5, <1>6, <1>7, <1>8, <1>9, <1>10 DEF TreeInv

\* What Unlink leaves.
LEMMA Unlinked ==
  ASSUME NEW p, Files!Unlink(p)
  PROVE  /\ DOMAIN tree' = DOMAIN tree \ {p}
         /\ \A q \in DOMAIN tree' : tree'[q] = tree[q]
         /\ gone' = gone \cup {p}
BY DEF Files!Unlink, Files!Restrict

\* What is removed has nothing below it.
LEMMA UnlinkKeeps ==
  ASSUME FilesTyped, <<>> \notin DOMAIN tree, Closed,
         NEW p, Files!Unlink(p), ~ Files!IsDirectory(p) \/ Files!GetChildren(p) = {}
  PROVE  DOMAIN tree' \subseteq PathSet /\ <<>> \notin DOMAIN tree' /\ Closed'
<1>1. /\ DOMAIN tree' = DOMAIN tree \ {p}
      /\ \A q \in DOMAIN tree' : tree'[q] = tree[q]
  BY Unlinked
<1>2. ASSUME NEW q \in DOMAIN tree, Files!Front(q) = p
      PROVE  p = <<>>
  BY <1>2 DEF Closed, Files!IsDirectory, Files!FileExists, Files!GetChildren
<1> QED BY <1>1, <1>2 DEF Closed, FilesTyped

LEMMA FailFacts ==
  ASSUME faults \in Nat, NEW possible \in BOOLEAN, Files!Fail(possible)
  PROVE  faults' \in Nat /\ (faults' = 0 => faults = 0 /\ ~ possible)
BY DEF Files!Fail

LEMMA TreeDelete ==
  ASSUME TreeInv, Files!Delete
  PROVE  TreeInv'
<1>1. /\ FilesTyped /\ <<>> \notin DOMAIN tree /\ Closed /\ DeleterTyped /\ CountsOK
      /\ faults \in Nat
  BY DEF TreeInv, FilesTyped
<1>2. \A S : S \in Seq(PathSet) /\ S # <<>> => Head(S) \in PathSet /\ Tail(S) \in Seq(PathSet)
  OBVIOUS
<1>3. CASE Files!StartDelete
  <2>1. <<MCdirname>> \in Seq(PathSet)
    BY WantedPaths, DirnamePath
  <2>2. UNCHANGED <<tree, faults, makers, dir_list, children, undeleted_files>>
    BY <1>3 DEF Files!StartDelete
  <2>3. FilesTyped' /\ (<<>> \notin DOMAIN tree)' /\ Closed'
    BY <1>1, <2>2 DEF FilesTyped, Closed
  <2>4. DeleterTyped'
    <3>1. dir_q' \in Seq(PathSet)
      BY <1>1, <1>3, <2>1 DEF DeleterTyped, Files!StartDelete
    <3> QED BY <1>1, <1>3, <2>2, <3>1 DEF DeleterTyped, Files!StartDelete
  <2>5. CountsOK'
    BY <1>1, <1>3 DEF DeleterTyped, CountsOK, Files!StartDelete
  <2>6. NotBegun'
    BY <1>3 DEF NotBegun, Files!StartDelete
  <2> QED BY <2>3, <2>4, <2>5, <2>6 DEF TreeInv
<1>4. CASE Files!Scan
  <2>1. UNCHANGED <<tree, makers, phase, undeleted_files>> /\ phase = "scan" /\ dir_q # <<>>
        /\ dir_q' = Tail(dir_q) /\ dir_list' = Append(dir_list, Head(dir_q))
    BY <1>4 DEF Files!Scan, Files!history
  <2>2. \/ /\ children' = Files!GetChildren(Head(dir_q)) /\ UNCHANGED <<undeleted_dirs, ret, faults>>
        \/ /\ Files!Fail(Files!IsDirectory(Head(dir_q))) /\ undeleted_dirs' = undeleted_dirs + 1
           /\ ret' = FALSE /\ UNCHANGED children
    BY <1>4 DEF Files!Scan
  <2>3. faults' \in Nat
    BY <1>1, <2>2 DEF Files!Fail
  <2>4. FilesTyped' /\ (<<>> \notin DOMAIN tree)' /\ Closed'
    BY <1>1, <2>1, <2>3 DEF FilesTyped, Closed
  <2>5. DeleterTyped'
    <3>1. Files!GetChildren(Head(dir_q)) \subseteq PathSet
      BY <1>1 DEF Files!GetChildren, FilesTyped
    <3>2. dir_q' \in Seq(PathSet) /\ dir_list' \in Seq(PathSet)
      BY <1>1, <2>1, ListFacts DEF DeleterTyped
    <3>3. children' \subseteq PathSet /\ undeleted_dirs' \in Nat
      BY <1>1, <2>2, <3>1 DEF DeleterTyped
    <3> QED BY <1>1, <2>1, <3>2, <3>3 DEF DeleterTyped
  <2>6. CountsOK'
    BY <1>1, <2>1, <2>2 DEF DeleterTyped, CountsOK
  <2> QED BY <2>1, <2>4, <2>5, <2>6 DEF TreeInv, NotBegun
<1>5. CASE Files!Visit
  <2>1. UNCHANGED <<makers, phase, dir_list, undeleted_dirs>> /\ phase = "scan"
    BY <1>5 DEF Files!Visit
  <2>2. PICK p \in children :
          /\ children' = children \ {p}
          /\ \/ /\ dir_q' = Append(dir_q, p) /\ UNCHANGED <<tree, undeleted_files, ret, faults>>
             \/ /\ ~ Files!IsDirectory(p) /\ Files!Unlink(p)
                /\ UNCHANGED <<dir_q, undeleted_files, ret, faults>>
             \/ /\ Files!Fail(TRUE) /\ undeleted_files' = undeleted_files + 1 /\ ret' = FALSE
                /\ UNCHANGED <<tree, dir_q>>
    BY <1>5 DEF Files!Visit
  <2>3. faults' \in Nat
    BY <1>1, <2>2 DEF Files!Fail
  <2>4. DOMAIN tree' \subseteq PathSet /\ <<>> \notin DOMAIN tree' /\ Closed'
    <3>1. CASE Files!Unlink(p) /\ ~ Files!IsDirectory(p)
      BY <1>1, <3>1, UnlinkKeeps
    <3>2. CASE UNCHANGED tree
      BY <1>1, <3>2 DEF Closed, FilesTyped
    <3> QED BY <2>2, <3>1, <3>2
  <2>5. FilesTyped'
    BY <1>1, <2>1, <2>3, <2>4 DEF FilesTyped
  <2>6. DeleterTyped'
    <3>1. p \in PathSet
      BY <1>1 DEF DeleterTyped
    <3>2. dir_q' \in Seq(PathSet)
      <4>1. dir_q \in Seq(PathSet) /\ Append(dir_q, p) \in Seq(PathSet)
        BY <1>1, <3>1, ListFacts DEF DeleterTyped
      <4>2. dir_q' = Append(dir_q, p) \/ dir_q' = dir_q
        BY <2>2
      <4> QED BY <4>1, <4>2
    <3>3. undeleted_files' \in Nat
      <4>1. undeleted_files' = undeleted_files \/ undeleted_files' = undeleted_files + 1
        BY <2>2
      <4> QED BY <1>1, <4>1 DEF DeleterTyped
    <3>4. children' \subseteq PathSet
      <4>1. children' = children \ {p}
        BY <2>2
      <4> QED BY <1>1, <4>1 DEF DeleterTyped
    <3> QED BY <1>1, <2>1, <3>2, <3>3, <3>4 DEF DeleterTyped
  <2>7. CountsOK'
    <3>1. CASE UNCHANGED <<undeleted_files, ret>>
      BY <1>1, <2>1, <3>1 DEF CountsOK
    <3>2. CASE undeleted_files' = undeleted_files + 1 /\ ret' = FALSE
      BY <1>1, <2>1, <3>2 DEF DeleterTyped, CountsOK
    <3> QED BY <2>2, <3>1, <3>2
  <2> QED BY <2>1, <2>4, <2>5, <2>6, <2>7 DEF TreeInv, NotBegun
<1>6. CASE Files!Found
  <2>1. /\ UNCHANGED <<tree, faults, makers, dir_q, children, undeleted_files, undeleted_dirs, ret>>
        /\ phase' = "remove" /\ dir_list' = Files!Reverse(dir_list)
    BY <1>6 DEF Files!Found, Files!RemovalOrder
  <2>2. FilesTyped' /\ (<<>> \notin DOMAIN tree)' /\ Closed'
    BY <1>1, <2>1 DEF FilesTyped, Closed
  <2>3. dir_list' \in Seq(PathSet)
    BY <1>1, <2>1, ReverseFacts DEF DeleterTyped
  <2>4. DeleterTyped' /\ CountsOK'
    BY <1>1, <2>1, <2>3 DEF DeleterTyped, CountsOK
  <2> QED BY <2>1, <2>2, <2>4 DEF TreeInv, NotBegun
<1>7. CASE Files!DeleteNext
  <2> DEFINE dir       == Head(dir_list)
             deletable == Files!IsDirectory(dir) /\ Files!GetChildren(dir) = {}
  <2>1. /\ phase = "remove" /\ dir_list # <<>> /\ dir_list' = Tail(dir_list)
        /\ UNCHANGED <<phase, dir_q, children, undeleted_files, makers>>
        /\ \/ deletable /\ Files!Unlink(dir) /\ UNCHANGED <<undeleted_dirs, ret, faults>>
           \/ /\ Files!Fail(deletable) /\ undeleted_dirs' = undeleted_dirs + 1 /\ ret' = FALSE
              /\ UNCHANGED tree
    BY <1>7 DEF Files!DeleteNext
  <2>2. faults' \in Nat
    BY <1>1, <2>1 DEF Files!Fail
  <2>3. DOMAIN tree' \subseteq PathSet /\ <<>> \notin DOMAIN tree' /\ Closed'
    <3>1. CASE Files!Unlink(dir) /\ deletable
      BY <1>1, <3>1, UnlinkKeeps
    <3>2. CASE UNCHANGED tree
      BY <1>1, <3>2 DEF Closed, FilesTyped
    <3> QED BY <2>1, <3>1, <3>2
  <2>4. FilesTyped'
    BY <1>1, <2>1, <2>2, <2>3 DEF FilesTyped
  <2>5. dir_list' \in Seq(PathSet)
    BY <1>1, <2>1, ListFacts DEF DeleterTyped
  <2>6. DeleterTyped' /\ CountsOK'
    BY <1>1, <2>1, <2>5 DEF DeleterTyped, CountsOK
  <2> QED BY <2>1, <2>3, <2>4, <2>6 DEF TreeInv, NotBegun
<1>8. CASE Files!EndDelete
  <2>1. UNCHANGED <<tree, faults, makers, dir_q, dir_list, children, undeleted_files,
                    undeleted_dirs, ret>> /\ phase' = "done"
    BY <1>8 DEF Files!EndDelete
  <2> QED BY <1>1, <2>1 DEF TreeInv, FilesTyped, Closed, DeleterTyped, CountsOK, NotBegun
<1> QED BY <1>3, <1>4, <1>5, <1>6, <1>7, <1>8 DEF Files!Delete

\* A creator only adds directories, where their parents are, and is busy.
LEMMA TreeCreate ==
  ASSUME TreeInv, NEW c \in Creators, Files!Create(c)
  PROVE  /\ TreeInv'
         /\ DOMAIN tree \subseteq DOMAIN tree' /\ \A q \in DOMAIN tree : tree'[q] = tree[q]
         /\ makers'[c].pc # "idle"
         /\ UNCHANGED <<phase, dir_q, dir_list, children, undeleted_files, undeleted_dirs, ret,
                        there, gone>>
<1>1. FilesTyped /\ <<>> \notin DOMAIN tree /\ Closed /\ makers[c] \in CreatorStates
  BY DEF TreeInv, FilesTyped
<1>2. UNCHANGED <<phase, dir_q, dir_list, children, undeleted_files, undeleted_dirs, ret,
                  there, gone>>
  BY DEF Files!Create, Files!StartCreate, Files!Look, Files!Make, Files!EndCreate, Files!deleter,
         Files!history
<1>3. DeleterTyped' /\ CountsOK' /\ NotBegun'
  BY <1>2 DEF TreeInv, DeleterTyped, CountsOK, NotBegun
<1>4. ASSUME NEW m \in CreatorStates, Files!Step(c, m), m.pc # "idle"
      PROVE  makers' \in [Creators -> CreatorStates] /\ makers'[c].pc # "idle"
  BY <1>1, <1>4 DEF Files!Step, FilesTyped
<1>5. ASSUME NEW m \in CreatorStates, Files!Step(c, m), m.pc # "idle", UNCHANGED tree,
             faults' \in Nat
      PROVE  /\ TreeInv' /\ makers'[c].pc # "idle"
             /\ DOMAIN tree \subseteq DOMAIN tree' /\ \A q \in DOMAIN tree : tree'[q] = tree[q]
  <2>1. FilesTyped' /\ (<<>> \notin DOMAIN tree)' /\ Closed'
    BY <1>1, <1>4, <1>5 DEF FilesTyped, Closed
  <2> QED BY <1>3, <1>4, <1>5, <2>1 DEF TreeInv
<1>6. faults \in Nat /\ <<>> \in PathSet
  BY <1>1 DEF FilesTyped, PathSet
<1>7. CASE Files!StartCreate(c)
  <2>1. PICK p \in MCWanted :
          Files!Step(c, [Files!Idle EXCEPT !.pc = "look", !.path = p, !.remaining_dir = p])
    BY <1>7 DEF Files!StartCreate
  <2> DEFINE moved == [Files!Idle EXCEPT !.pc = "look", !.path = p, !.remaining_dir = p]
  <2>2. moved \in CreatorStates /\ moved.pc = "look"
    BY <1>6, WantedPaths DEF Files!Idle, CreatorStates
  <2>3. PICK m \in CreatorStates : m = moved
    BY <2>2
  <2>4. Files!Step(c, m) /\ m.pc # "idle"
    BY <2>1, <2>2, <2>3
  <2>5. UNCHANGED <<tree, faults>>
    BY <1>7 DEF Files!StartCreate
  <2> QED BY <1>2, <1>5, <1>6, <2>4, <2>5
<1>8. CASE Files!Look(c)
  <2> DEFINE d     == makers[c].remaining_dir
             s     == makers[c].sub_dirs
             moved == IF d # <<>> /\ ~ Files!FileExists(d)
                      THEN [makers[c] EXCEPT !.sub_dirs = Files!Pending(Files!Last(d), @),
                                             !.remaining_dir = Files!Front(d)]
                      ELSE [makers[c] EXCEPT !.pc = "make"]
  <2>1. Files!Step(c, moved) /\ makers[c].pc = "look" /\ UNCHANGED <<tree, faults>>
    BY <1>8 DEF Files!Look
  <2>2. d \in PathSet /\ s \in PathSet
    BY <1>1 DEF CreatorStates
  <2>3. d # <<>> => /\ Files!Front(d) \in PathSet
                    /\ Files!Pending(Files!Last(d), s) \in PathSet
    <3>1. d # <<>> => Files!Front(d) \in PathSet /\ Files!Last(d) \in PathNames
      BY <2>2, FrontOfPath
    <3> QED BY <2>2, <3>1 DEF Files!Pending, PathSet
  <2>4. moved \in CreatorStates /\ moved.pc # "idle"
    BY <1>1, <2>1, <2>3 DEF CreatorStates
  <2>5. PICK m \in CreatorStates : m = moved
    BY <2>4
  <2> QED BY <1>2, <1>5, <1>6, <2>1, <2>4, <2>5
<1>9. CASE Files!Make(c)
  <2>0. PICK d \in PathSet, s \in PathSet : d = makers[c].remaining_dir /\ s = makers[c].sub_dirs
    BY <1>1 DEF CreatorStates
  <2>1. s # <<>> /\ makers[c].pc = "make"
    BY <1>9, <2>0 DEF Files!Make
  <2>2. PICK p \in PathSet : p = Append(d, Head(s))
    BY <2>1, PartsOfPath
  <2>3. p # <<>> /\ Files!Front(p) = d /\ Tail(s) \in PathSet
    <3>1. Len(p) = Len(d) + 1 /\ Files!Front(p) = d /\ Len(d) \in Nat
      BY <2>1, <2>2, PartsOfPath DEF PathSet
    <3>2. p # <<>>
      BY <3>1 DEF PathSet
    <3> QED BY <2>1, <3>1, <3>2 DEF PathSet
  <2>4. CASE /\ tree' = [q \in DOMAIN tree \cup {p} |-> IF q = p THEN "dir" ELSE tree[q]]
             /\ Files!Creatable(p) /\ UNCHANGED faults
             /\ Files!Step(c, [makers[c] EXCEPT !.remaining_dir = p, !.sub_dirs = Tail(@)])
    <3>1. PICK m \in CreatorStates :
            m = [makers[c] EXCEPT !.remaining_dir = p, !.sub_dirs = Tail(@)]
      BY <1>1, <2>0, <2>3 DEF CreatorStates
    <3>2. Files!Step(c, m) /\ m.pc # "idle"
      BY <1>1, <2>1, <2>4, <3>1 DEF CreatorStates
    <3>3. makers' \in [Creators -> CreatorStates] /\ makers'[c].pc # "idle"
      BY <1>4, <3>2
    <3>4. /\ p \notin DOMAIN tree
          /\ d = <<>> \/ (d \in DOMAIN tree /\ tree[d] = "dir")
      BY <2>3, <2>4 DEF Files!Creatable, Files!IsDirectory, Files!FileExists
    <3>5. /\ DOMAIN tree' = DOMAIN tree \cup {p}
          /\ \A q \in DOMAIN tree : tree'[q] = tree[q]
      BY <2>4, <3>4
    <3>6. Closed'
      BY <1>1, <2>3, <3>4, <3>5 DEF Closed
    <3>7. FilesTyped' /\ (<<>> \notin DOMAIN tree)'
      BY <1>1, <2>3, <2>4, <3>3, <3>5 DEF FilesTyped
    <3> QED BY <1>2, <1>3, <3>3, <3>5, <3>6, <3>7 DEF TreeInv
  <2>5. CASE /\ Files!Fail(Files!Creatable(p)) /\ UNCHANGED tree
             /\ Files!Step(c, [makers[c] EXCEPT !.pc = "done", !.ok = FALSE])
    <3>1. PICK m \in CreatorStates : m = [makers[c] EXCEPT !.pc = "done", !.ok = FALSE]
      BY <1>1 DEF CreatorStates
    <3>2. Files!Step(c, m) /\ m.pc # "idle"
      BY <1>1, <2>5, <3>1 DEF CreatorStates
    <3>3. faults' \in Nat
      BY <1>6, <2>5 DEF Files!Fail
    <3> QED BY <1>2, <1>5, <2>5, <3>2, <3>3
  <2> QED BY <1>9, <2>0, <2>2, <2>4, <2>5 DEF Files!Make
<1>10. CASE Files!EndCreate(c)
  <2>1. PICK m \in CreatorStates : m = [makers[c] EXCEPT !.pc = "done"]
    BY <1>1 DEF CreatorStates
  <2>2. Files!Step(c, m) /\ m.pc # "idle"
    BY <1>1, <1>10, <2>1 DEF CreatorStates, Files!EndCreate
  <2>3. UNCHANGED <<tree, faults>>
    BY <1>10 DEF Files!EndCreate
  <2> QED BY <1>2, <1>5, <1>6, <2>2, <2>3
<1> QED BY <1>7, <1>8, <1>9, <1>10 DEF Files!Create

LEMMA TreeStep == TreeInv /\ [MCNext]_everything => TreeInv'
<1> SUFFICES ASSUME TreeInv, [MCNext]_everything PROVE TreeInv'
  OBVIOUS
<1>1. CASE UNCHANGED files
  BY <1>1 DEF files, TreeInv, FilesTyped, Closed, DeleterTyped, CountsOK, NotBegun
<1>2. Files!Next \/ UNCHANGED files
  BY DEF MCNext, Only, Is, everything
<1> QED BY <1>1, <1>2, TreeDelete, TreeCreate DEF Files!Next

-----------------------------------------------------------------------------
(* What was there is removed.                                              *)

Below(p) == Files!IsPrefix(MCdirname, p)

\* The directory above a path below dirname is below it too.
LEMMA AboveBelow ==
  ASSUME NEW p \in PathSet, Below(p), p # MCdirname
  PROVE  /\ Files!Front(p) \in PathSet /\ Below(Files!Front(p)) /\ Files!Front(p) # <<>>
         /\ Len(Files!Front(p)) < Len(p) /\ p # <<>>
<1>1. /\ Len(MCdirname) \in Nat /\ Len(p) \in Nat /\ Len(MCdirname) > 0
      /\ Len(MCdirname) <= Len(p) /\ \A i \in 1 .. Len(MCdirname) : MCdirname[i] = p[i]
  <2>1. Len(MCdirname) \in Nat /\ Len(p) \in Nat /\ Len(MCdirname) > 0
    BY DirnamePath DEF PathSet
  <2> QED BY <2>1, DirnamePath, Prefix DEF Below
<1>2. Len(MCdirname) # Len(p)
  <2> SUFFICES ASSUME Len(MCdirname) = Len(p) PROVE FALSE
    OBVIOUS
  <2> QED BY <1>1, DirnamePath, SeqEqual DEF PathSet
<1>3. p # <<>>
  BY <1>1 DEF PathSet
<1>4. /\ Files!Front(p) \in PathSet /\ Len(Files!Front(p)) = Len(p) - 1
      /\ Files!IsPrefix(Files!Front(p), p)
  BY <1>3, FrontOfPath
<1>5. Below(Files!Front(p))
  BY <1>1, <1>2, <1>4, DirnamePath, PrefixesOfOne DEF Below
<1>6. Files!Front(p) # <<>>
  <2>1. Len(Files!Front(p)) > 0
    BY <1>1, <1>2, <1>4
  <2> QED BY <1>4, <2>1 DEF PathSet
<1> QED BY <1>1, <1>3, <1>4, <1>5, <1>6

LEMMA NotItsOwnFront ==
  ASSUME NEW p \in PathSet, p # <<>>
  PROVE  Files!Front(p) # p /\ Len(Files!Front(p)) < Len(p)
<1>1. Len(p) \in Nat /\ Files!Front(p) \in PathSet /\ Len(Files!Front(p)) = Len(p) - 1
  BY FrontOfPath DEF PathSet
<1> QED BY <1>1

\* A set of paths below dirname that holds the directory above every path it holds
\* but dirname is empty or holds dirname.
LEMMA UpToDirname ==
  ASSUME NEW S, S \subseteq PathSet, S # {}, \A p \in S : Below(p),
         \A p \in S : p # MCdirname => Files!Front(p) \in S
  PROVE  MCdirname \in S
<1> DEFINE T == {Len(p) : p \in S}
<1>0. \A p \in S : Len(p) \in Nat
  BY DEF PathSet
<1>1. T \subseteq Nat /\ T # {}
  BY <1>0
<1> HIDE DEF T
<1>2. PICK x \in T : \A y \in T : x <= y
  BY <1>1, LeastNatural
<1>3. PICK p \in S : x = Len(p)
  BY <1>2 DEF T
<1>4. ASSUME p # MCdirname PROVE FALSE
  <2>1. Files!Front(p) \in S /\ Len(Files!Front(p)) < Len(p) /\ Len(Files!Front(p)) \in Nat
    BY <1>4, AboveBelow DEF PathSet
  <2>2. Len(p) <= Len(Files!Front(p))
    BY <1>2, <1>3, <2>1 DEF T
  <2> QED BY <1>1, <1>3, <2>1, <2>2
<1> QED BY <1>3, <1>4

Dir(p) == p \in DOMAIN tree /\ tree[p] = "dir"

\* While nothing has failed, whatever was there is gone, or the search has it in
\* hand or has not come to the directory it is in, which stands until then; and
\* the removal has it in its list.
RemovedInv ==
  ret /\ phase # "before" =>
    /\ MCdirname \in there /\ there \subseteq PathSet
    /\ \A p \in there : Below(p) /\ (p \in gone \/ p \in DOMAIN tree)
    /\ phase = "scan" =>
         \A p \in there :
           /\ p # MCdirname =>
                Files!Front(p) \in there \ gone /\ Dir(Files!Front(p))
           /\ \/ p \in gone \cup children \/ Listed(p, dir_q) \/ Listed(p, dir_list)
              \/ p # MCdirname /\ ~ Listed(Files!Front(p), dir_list)
    /\ phase \in {"remove", "done"} => \A p \in there : p \in gone \/ Listed(p, dir_list)
    /\ phase = "done" => dir_list = <<>>

LEMMA RemovedStart == MCInit => RemovedInv
BY DEF MCInit, Files!Init, RemovedInv

LEMMA RemovedDelete ==
  ASSUME TreeInv, RemovedInv, Files!Delete
  PROVE  RemovedInv'
<1>1. /\ DOMAIN tree \subseteq PathSet /\ <<>> \notin DOMAIN tree /\ Closed /\ DeleterTyped
      /\ NotBegun /\ dir_q \in Seq(PathSet) /\ dir_list \in Seq(PathSet) /\ children \subseteq PathSet
  BY DEF TreeInv, FilesTyped, DeleterTyped
<1> SUFFICES ASSUME ret', phase' # "before" PROVE RemovedInv'
  BY DEF RemovedInv
<1>2. CASE Files!StartDelete
  <2>1. /\ MCdirname \in DOMAIN tree /\ phase' = "scan" /\ UNCHANGED <<tree, gone>>
        /\ there' = {p \in DOMAIN tree : Below(p)} /\ gone = {} /\ dir_list = <<>> /\ dir_list' = <<>>
    BY <1>1, <1>2 DEF Files!StartDelete, Files!FileExists, NotBegun, Below
  <2>2. Below(MCdirname)
    <3>1. Len(MCdirname) \in Nat
      BY DirnamePath DEF PathSet
    <3> QED BY <3>1, DirnamePath, Prefix DEF Below
  <2>3. ASSUME NEW p \in there', p # MCdirname
        PROVE  Files!Front(p) \in there' \ gone' /\ Dir(Files!Front(p))'
    <3>1. p \in PathSet /\ Below(p) /\ p \in DOMAIN tree
      BY <1>1, <2>1
    <3>2. Files!Front(p) # <<>> /\ Below(Files!Front(p))
      BY <2>3, <3>1, AboveBelow
    <3>3. Dir(Files!Front(p))
      BY <1>1, <3>1, <3>2 DEF Closed, Dir
    <3> QED BY <2>1, <3>2, <3>3 DEF Dir
  <2>4. Listed(MCdirname, dir_q')
    <3>1. dir_q' = <<MCdirname>>
      BY <1>2, <2>1 DEF Files!StartDelete
    <3> QED BY <3>1 DEF Listed
  <2>5. \A x : ~ Listed(x, dir_list')
    BY <2>1, EmptyList
  <2>6. \A p \in there' : Below(p)' /\ (p \in gone' \/ p \in DOMAIN tree')
    BY <2>1 DEF Below
  <2>7. MCdirname \in there' /\ there' \subseteq PathSet
    BY <1>1, <2>1, <2>2
  <2> QED BY <2>1, <2>3, <2>4, <2>5, <2>6, <2>7 DEF RemovedInv
<1>3. CASE Files!Scan
  <2>1. /\ UNCHANGED <<tree, phase, there, gone, ret>> /\ phase = "scan" /\ children = {}
        /\ dir_q # <<>> /\ dir_q' = Tail(dir_q) /\ dir_list' = Append(dir_list, Head(dir_q))
        /\ children' = {q \in DOMAIN tree : Files!Front(q) = Head(dir_q)}
    BY <1>3 DEF Files!Scan, Files!history, Files!GetChildren
  <2>2. /\ \A x : Listed(x, dir_q) <=> x = Head(dir_q) \/ Listed(x, dir_q')
        /\ \A x : Listed(x, dir_list') <=> Listed(x, dir_list) \/ x = Head(dir_q)
    BY <1>1, <2>1, ListFacts
  <2>3. ASSUME NEW p \in there
        PROVE  /\ p # MCdirname =>
                    Files!Front(p) \in there \ gone /\ Dir(Files!Front(p))
               /\ \/ p \in gone \cup children' \/ Listed(p, dir_q') \/ Listed(p, dir_list')
                  \/ p # MCdirname /\ ~ Listed(Files!Front(p), dir_list')
    BY <2>1, <2>2 DEF RemovedInv
  <2> QED BY <2>1, <2>3 DEF RemovedInv, Dir, Below
<1>4. CASE Files!Visit
  <2>1. PICK p \in children :
          /\ children' = children \ {p}
          /\ UNCHANGED <<phase, dir_list, there, ret>> /\ phase = "scan"
          /\ \/ dir_q' = Append(dir_q, p) /\ UNCHANGED <<tree, gone>>
             \/ ~ Files!IsDirectory(p) /\ Files!Unlink(p) /\ UNCHANGED dir_q
    BY <1>4 DEF Files!Visit
  <2>2. CASE dir_q' = Append(dir_q, p) /\ UNCHANGED <<tree, gone>>
    <3>1. \A x : Listed(x, dir_q') <=> Listed(x, dir_q) \/ x = p
      BY <1>1, <2>1, <2>2, ListFacts
    <3> QED BY <2>1, <2>2, <3>1 DEF RemovedInv, Dir, Below
  <2>3. CASE ~ Files!IsDirectory(p) /\ Files!Unlink(p) /\ UNCHANGED dir_q
    <3>1. /\ DOMAIN tree' = DOMAIN tree \ {p} /\ \A q \in DOMAIN tree' : tree'[q] = tree[q]
          /\ gone' = gone \cup {p}
      BY <2>3, Unlinked
    <3>2. \A q : Dir(q) => q # p /\ Dir(q)'
      BY <2>3, <3>1 DEF Dir, Files!IsDirectory, Files!FileExists
    <3>3. \A q \in there : q \in gone' \/ q \in DOMAIN tree'
      BY <2>1, <3>1 DEF RemovedInv
    <3>4. ASSUME NEW q \in there
          PROVE  /\ q # MCdirname => Files!Front(q) \in there \ gone' /\ Dir(Files!Front(q))'
                 /\ \/ q \in gone' \cup children' \/ Listed(q, dir_q) \/ Listed(q, dir_list)
                    \/ q # MCdirname /\ ~ Listed(Files!Front(q), dir_list)
      BY <2>1, <3>1, <3>2 DEF RemovedInv
    <3> QED BY <2>1, <2>3, <3>3, <3>4 DEF RemovedInv, Below
  <2> QED BY <2>1, <2>2, <2>3
<1>5. CASE Files!Found
  <2>1. /\ phase = "scan" /\ children = {} /\ dir_q = <<>> /\ phase' = "remove"
        /\ dir_list' = Files!Reverse(dir_list) /\ UNCHANGED <<tree, ret, there, gone>>
    BY <1>5 DEF Files!Found, Files!RemovalOrder, Files!history
  <2>2. \A x : ~ Listed(x, dir_q)
    BY <2>1, EmptyList
  <2>3. \A x : Listed(x, dir_list') <=> Listed(x, dir_list)
    BY <1>1, <2>1, ReverseFacts
  <2> DEFINE U == {p \in there : p \notin gone /\ ~ Listed(p, dir_list)}
  <2>4. \A p \in U : p # MCdirname /\ Files!Front(p) \in U
    BY <2>1, <2>2 DEF RemovedInv
  <2>5. U \subseteq PathSet /\ \A p \in U : Below(p)
    BY <2>1 DEF RemovedInv
  <2> HIDE DEF U
  <2>6. U = {}
    BY <2>4, <2>5, UpToDirname
  <2>7. \A p \in there : p \in gone \/ Listed(p, dir_list')
    BY <2>3, <2>6 DEF U
  <2> QED BY <2>1, <2>7 DEF RemovedInv, Below
<1>6. CASE Files!DeleteNext
  <2>1. /\ phase = "remove" /\ dir_list # <<>> /\ dir_list' = Tail(dir_list)
        /\ UNCHANGED <<phase, there, ret>> /\ Files!Unlink(Head(dir_list))
    BY <1>6 DEF Files!DeleteNext
  <2>2. /\ DOMAIN tree' = DOMAIN tree \ {Head(dir_list)} /\ gone' = gone \cup {Head(dir_list)}
    BY <2>1, Unlinked
  <2>3. \A x : Listed(x, dir_list) <=> x = Head(dir_list) \/ Listed(x, dir_list')
    BY <1>1, <2>1, ListFacts
  <2> QED BY <2>1, <2>2, <2>3 DEF RemovedInv, Below
<1>7. CASE Files!EndDelete
  BY <1>7 DEF Files!EndDelete, Files!history, RemovedInv, Below
<1> QED BY <1>2, <1>3, <1>4, <1>5, <1>6, <1>7 DEF Files!Delete

LEMMA RemovedStep == TreeInv /\ RemovedInv /\ [MCNext]_everything => RemovedInv'
<1> SUFFICES ASSUME TreeInv, RemovedInv, [MCNext]_everything PROVE RemovedInv'
  OBVIOUS
<1>1. CASE UNCHANGED files
  BY <1>1 DEF files, RemovedInv, Dir, Below
<1>2. ASSUME NEW c \in Creators, Files!Create(c) PROVE RemovedInv'
  <2>1. /\ DOMAIN tree \subseteq DOMAIN tree' /\ \A q \in DOMAIN tree : tree'[q] = tree[q]
        /\ UNCHANGED <<phase, dir_q, dir_list, children, ret, there, gone>>
    BY <1>2, TreeCreate
  <2>2. \A p : Dir(p) => Dir(p)'
    BY <2>1 DEF Dir
  <2> QED BY <2>1, <2>2 DEF RemovedInv, Below
<1>3. Files!Next \/ UNCHANGED files
  BY DEF MCNext, Only, Is, everything
<1> QED BY <1>1, <1>2, <1>3, RemovedDelete DEF Files!Next

-----------------------------------------------------------------------------
(* The directories go in the right order.                                  *)

\* The search: what it has found are directories that stand, each after the one it
\* is in; and what it has not found is in a directory that it has not read.
ScanOrder ==
  LET found == dir_list \o dir_q
  IN  /\ ParentsFirst(found)
      /\ \A x \in PathSet : Listed(x, found) =>
           Dir(x) /\ Below(x) /\ (x = MCdirname \/ Listed(Files!Front(x), dir_list))
      /\ \A x \in children :
           /\ x \in DOMAIN tree /\ Below(x) /\ x # MCdirname
           /\ ~ Listed(x, found) /\ Listed(Files!Front(x), dir_list)
      /\ \A x \in DOMAIN tree : Below(x) =>
           \/ Listed(x, found) \/ x \in children
           \/ x # MCdirname /\ ~ Listed(Files!Front(x), dir_list)

\* The removal: its list is what there is, each before the one it is in.
RemovalReady ==
  /\ ParentsLast(dir_list)
  /\ \A x \in PathSet : Listed(x, dir_list) => Dir(x) /\ Below(x)
  /\ \A x \in DOMAIN tree : Below(x) => Listed(x, dir_list)

\* A dirname that is a file stays.
OnFile ==
  /\ MCdirname \in DOMAIN tree /\ tree[MCdirname] # "dir" /\ children = {}
  /\ \A x : Listed(x, dir_q) \/ Listed(x, dir_list) => x = MCdirname

OrderInv ==
  Files!Undisturbed /\ phase # "before" /\ there # {} =>
    \/ OnFile
    \/ ret /\ (phase = "scan" => ScanOrder) /\ (phase = "remove" => RemovalReady)

LEMMA OrderStart == MCInit => OrderInv
BY DEF MCInit, Files!Init, OrderInv

\* A search that is in order has children of what it reads that it has not found.
LEMMA OrderScan ==
  ASSUME TreeInv, phase = "scan", Files!Scan, UNCHANGED faults, ret, ScanOrder
  PROVE  ret' /\ ScanOrder'
<1> DEFINE d == Head(dir_q)
<1>1. /\ DOMAIN tree \subseteq PathSet /\ <<>> \notin DOMAIN tree
      /\ dir_q \in Seq(PathSet) /\ dir_list \in Seq(PathSet) /\ faults \in Nat
  BY DEF TreeInv, FilesTyped, DeleterTyped
<1>2. /\ UNCHANGED tree /\ children = {} /\ dir_q # <<>>
      /\ dir_q' = Tail(dir_q) /\ dir_list' = Append(dir_list, d)
  BY DEF Files!Scan
<1>3. /\ \A x : Listed(x, dir_q) <=> x = d \/ Listed(x, dir_q')
      /\ d \in PathSet /\ dir_q' \in Seq(PathSet) /\ dir_list' \in Seq(PathSet)
  BY <1>1, <1>2, ListFacts
<1>4. \A x : Listed(x, dir_list') <=> Listed(x, dir_list) \/ x = d
  BY <1>1, <1>2, <1>3, ListFacts
<1>5. /\ dir_list' \o dir_q' = dir_list \o dir_q
      /\ \A x : Listed(x, dir_list \o dir_q) <=> Listed(x, dir_list) \/ Listed(x, dir_q)
      /\ dir_list \o dir_q \in Seq(PathSet)
  BY <1>1, <1>2, <1>3, JoinedLists
<1>6. Dir(d) /\ Below(d) /\ Listed(d, dir_q)
  BY <1>3, <1>5 DEF ScanOrder
<1>7. ret' /\ children' = {q \in DOMAIN tree : Files!Front(q) = d}
  <2>1. Files!IsDirectory(d)
    BY <1>6 DEF Dir, Files!IsDirectory, Files!FileExists
  <2>2. ~ Files!Fail(Files!IsDirectory(d))
    BY <1>1, <2>1 DEF Files!Fail
  <2> QED BY <2>2 DEF Files!Scan, Files!GetChildren
<1>8. ~ Listed(d, dir_list)
  <2> SUFFICES ASSUME Listed(d, dir_list) PROVE FALSE
    OBVIOUS
  <2> DEFINE f == dir_list \o dir_q
  <2>1. PICK i \in 1 .. Len(dir_list) : dir_list[i] = d
    BY DEF Listed
  <2>2. /\ i \in 1 .. Len(f) /\ Len(dir_list) + 1 \in 1 .. Len(f) /\ i < Len(dir_list) + 1
        /\ f[i] = d /\ f[Len(dir_list) + 1] = d
    BY <1>1, <1>2, <2>1
  <2> QED BY <2>2 DEF ScanOrder, ParentsFirst
<1>9. ParentsFirst(dir_list' \o dir_q')
  BY <1>5 DEF ScanOrder
<1>10. \A x \in PathSet : Listed(x, dir_list' \o dir_q') =>
         Dir(x)' /\ Below(x)' /\ (x = MCdirname \/ Listed(Files!Front(x), dir_list'))
  BY <1>2, <1>4, <1>5 DEF ScanOrder, Dir, Below
<1>11. ASSUME NEW x \in children'
       PROVE  /\ x \in DOMAIN tree' /\ Below(x)' /\ x # MCdirname
              /\ ~ Listed(x, dir_list' \o dir_q') /\ Listed(Files!Front(x), dir_list')
  <2>1. x \in DOMAIN tree /\ Files!Front(x) = d /\ x \in PathSet /\ x # <<>>
    BY <1>1, <1>7
  <2>2. Below(x) /\ x # MCdirname
    <3>1. Files!IsPrefix(d, x) /\ Len(d) = Len(x) - 1 /\ Len(x) \in Nat /\ Len(d) \in Nat
      BY <2>1, FrontOfPath DEF PathSet
    <3>2. Files!IsPrefix(MCdirname, x)
      BY <1>3, <1>6, <2>1, <3>1, DirnamePath, PrefixTrans DEF Below
    <3>3. Len(MCdirname) <= Len(d) /\ Len(MCdirname) \in Nat
      <4>1. Len(MCdirname) \in Nat
        BY DirnamePath DEF PathSet
      <4> QED BY <1>3, <1>6, <3>1, <4>1, DirnamePath, Prefix DEF Below
    <3> QED BY <3>1, <3>2, <3>3 DEF Below
  <2>3. ~ Listed(x, dir_list \o dir_q)
    BY <1>8, <2>1, <2>2 DEF ScanOrder
  <2> QED BY <1>2, <1>4, <1>5, <2>1, <2>2, <2>3 DEF Below
<1>12. ASSUME NEW x \in DOMAIN tree', Below(x)'
       PROVE  \/ Listed(x, dir_list' \o dir_q') \/ x \in children'
              \/ x # MCdirname /\ ~ Listed(Files!Front(x), dir_list')
  <2>1. x \in DOMAIN tree /\ Below(x)
    BY <1>2, <1>12 DEF Below
  <2>2. Listed(x, dir_list \o dir_q) \/ (x # MCdirname /\ ~ Listed(Files!Front(x), dir_list))
    BY <1>2, <2>1 DEF ScanOrder
  <2> QED BY <1>4, <1>5, <1>7, <2>1, <2>2
<1> QED BY <1>7, <1>9, <1>10, <1>11, <1>12 DEF ScanOrder

LEMMA OrderVisit ==
  ASSUME TreeInv, phase = "scan", Files!Visit, UNCHANGED faults, ret, ScanOrder
  PROVE  ret' /\ ScanOrder'
<1>1. /\ DOMAIN tree \subseteq PathSet /\ <<>> \notin DOMAIN tree
      /\ dir_q \in Seq(PathSet) /\ dir_list \in Seq(PathSet) /\ faults \in Nat
      /\ children \subseteq PathSet
  BY DEF TreeInv, FilesTyped, DeleterTyped
<1>2. ~ Files!Fail(TRUE)
  BY <1>1 DEF Files!Fail
<1>3. PICK p \in children :
        /\ children' = children \ {p}
        /\ UNCHANGED <<dir_list, ret>>
        /\ \/ Files!IsDirectory(p) /\ dir_q' = Append(dir_q, p) /\ UNCHANGED tree
           \/ ~ Files!IsDirectory(p) /\ Files!Unlink(p) /\ UNCHANGED dir_q
  BY <1>2 DEF Files!Visit
<1> DEFINE f == dir_list \o dir_q
<1>4. p \in PathSet /\ p \in DOMAIN tree /\ Below(p) /\ p # MCdirname /\ ~ Listed(p, f)
      /\ Listed(Files!Front(p), dir_list)
  BY <1>1, <1>3 DEF ScanOrder
<1>5. /\ f \in Seq(PathSet) /\ \A x : Listed(x, f) <=> Listed(x, dir_list) \/ Listed(x, dir_q)
      /\ \A x : Listed(x, f) => x \in PathSet
  <2>1. f \in Seq(PathSet) /\ \A x : Listed(x, f) <=> Listed(x, dir_list) \/ Listed(x, dir_q)
    BY <1>1, <1>4, JoinedLists
  <2> QED BY <1>4, <2>1, ListFacts
<1>6. CASE Files!IsDirectory(p) /\ dir_q' = Append(dir_q, p) /\ UNCHANGED tree
  <2>1. /\ dir_list' \o dir_q' = Append(f, p)
        /\ \A x : Listed(x, dir_list' \o dir_q') <=> Listed(x, f) \/ x = p
    <3>1. dir_list' \o dir_q' = Append(f, p)
      BY <1>1, <1>3, <1>4, <1>6, JoinedLists
    <3>2. \A x : Listed(x, Append(f, p)) <=> Listed(x, f) \/ x = p
      BY <1>4, <1>5, ListFacts
    <3> QED BY <3>1, <3>2
  <2>2. \A x \in PathSet : Listed(x, f) => Files!Front(x) # p
    <3> SUFFICES ASSUME NEW x \in PathSet, Listed(x, f), Files!Front(x) = p PROVE FALSE
      OBVIOUS
    <3>1. Listed(x, f) /\ Dir(x) /\ Below(x) /\ (x = MCdirname \/ Listed(p, dir_list))
      BY DEF ScanOrder
    <3>2. x = MCdirname
      BY <1>4, <1>5, <3>1
    <3>3. Len(p) < Len(MCdirname) /\ Len(p) \in Nat /\ Len(MCdirname) \in Nat
      BY <1>4, <3>2, DirnamePath, NotItsOwnFront DEF PathSet
    <3>4. Len(MCdirname) <= Len(p)
      BY <1>4, DirnamePath, Prefix DEF Below
    <3> QED BY <3>3, <3>4
  <2>3. ParentsFirst(dir_list' \o dir_q')
    <3>1. ParentsFirst(f)
      BY DEF ScanOrder
    <3> HIDE DEF f
    <3>2. ParentsFirst(Append(f, p))
      BY <1>4, <1>5, <2>2, <3>1, OrderFacts
    <3> QED BY <2>1, <3>2
  <2>4. Dir(p)
    BY <1>1, <1>4, <1>6 DEF Dir, Files!IsDirectory, Files!FileExists
  <2>5. \A x \in PathSet : Listed(x, dir_list' \o dir_q') =>
          Dir(x)' /\ Below(x)' /\ (x = MCdirname \/ Listed(Files!Front(x), dir_list'))
    BY <1>3, <1>4, <1>6, <2>1, <2>4 DEF ScanOrder, Dir, Below
  <2>6. \A x \in children' :
          /\ x \in DOMAIN tree' /\ Below(x)' /\ x # MCdirname
          /\ ~ Listed(x, dir_list' \o dir_q') /\ Listed(Files!Front(x), dir_list')
    BY <1>3, <1>6, <2>1 DEF ScanOrder, Below
  <2>7. \A x \in DOMAIN tree' : Below(x)' =>
          \/ Listed(x, dir_list' \o dir_q') \/ x \in children'
          \/ x # MCdirname /\ ~ Listed(Files!Front(x), dir_list')
    BY <1>3, <1>6, <2>1 DEF ScanOrder, Below
  <2> QED BY <1>3, <2>3, <2>5, <2>6, <2>7 DEF ScanOrder
<1>7. CASE ~ Files!IsDirectory(p) /\ Files!Unlink(p) /\ UNCHANGED dir_q
  <2>1. DOMAIN tree' = DOMAIN tree \ {p} /\ \A q \in DOMAIN tree' : tree'[q] = tree[q]
    BY <1>7, Unlinked
  <2>2. \A x : Dir(x) => Dir(x)' /\ x # p
    BY <1>7, <2>1 DEF Dir, Files!IsDirectory, Files!FileExists
  <2>3. dir_list' \o dir_q' = f
    BY <1>3, <1>7
  <2>4. \A x \in PathSet : Listed(x, f) =>
          Dir(x)' /\ Below(x)' /\ (x = MCdirname \/ Listed(Files!Front(x), dir_list'))
    BY <1>3, <2>2 DEF ScanOrder, Below
  <2>5. \A x \in children' :
          /\ x \in DOMAIN tree' /\ Below(x)' /\ x # MCdirname
          /\ ~ Listed(x, f) /\ Listed(Files!Front(x), dir_list')
    BY <1>3, <2>1 DEF ScanOrder, Below
  <2>6. \A x \in DOMAIN tree' : Below(x)' =>
          \/ Listed(x, f) \/ x \in children'
          \/ x # MCdirname /\ ~ Listed(Files!Front(x), dir_list')
    BY <1>3, <2>1 DEF ScanOrder, Below
  <2>7. ParentsFirst(f)
    BY DEF ScanOrder
  <2> QED BY <1>3, <2>3, <2>4, <2>5, <2>6, <2>7 DEF ScanOrder
<1> QED BY <1>3, <1>6, <1>7

\* When the search ends it has found everything below dirname.
LEMMA OrderFound ==
  ASSUME TreeInv, Files!Found, ScanOrder
  PROVE  RemovalReady'
<1>1. /\ DOMAIN tree \subseteq PathSet /\ <<>> \notin DOMAIN tree /\ Closed
      /\ dir_list \in Seq(PathSet)
  BY DEF TreeInv, FilesTyped, DeleterTyped
<1>2. /\ children = {} /\ dir_q = <<>> /\ dir_list' = Files!Reverse(dir_list) /\ UNCHANGED tree
  BY DEF Files!Found, Files!RemovalOrder
<1>3. /\ \A x : Listed(x, dir_list') <=> Listed(x, dir_list)
      /\ ParentsFirst(dir_list) => ParentsLast(dir_list')
  BY <1>1, <1>2, ReverseFacts
<1>4. dir_list \o dir_q = dir_list
  BY <1>1, <1>2
<1> DEFINE U == {x \in DOMAIN tree : Below(x) /\ ~ Listed(x, dir_list)}
<1>5. ASSUME NEW x \in U PROVE x # MCdirname /\ Files!Front(x) \in U
  <2>1. x # MCdirname /\ ~ Listed(Files!Front(x), dir_list)
    BY <1>2, <1>4 DEF ScanOrder
  <2>2. x \in PathSet /\ x \in DOMAIN tree /\ Below(x)
    BY <1>1
  <2>3. Files!Front(x) # <<>> /\ Below(Files!Front(x))
    BY <2>1, <2>2, AboveBelow
  <2>4. Files!Front(x) \in DOMAIN tree
    BY <1>1, <2>2, <2>3 DEF Closed
  <2> QED BY <2>1, <2>3, <2>4
<1>6. U \subseteq PathSet /\ \A x \in U : Below(x)
  BY <1>1
<1> HIDE DEF U
<1>7. U = {}
  BY <1>5, <1>6, UpToDirname
<1>8. \A x \in DOMAIN tree : Below(x) => Listed(x, dir_list)
  BY <1>7 DEF U
<1>9. ParentsLast(dir_list')
  BY <1>3, <1>4 DEF ScanOrder
<1>10. \A x \in PathSet : Listed(x, dir_list) => Dir(x) /\ Below(x)
  BY <1>4 DEF ScanOrder
<1> QED BY <1>2, <1>3, <1>8, <1>9, <1>10 DEF RemovalReady, Dir, Below

\* The next directory of the list is empty.
LEMMA OrderRemove ==
  ASSUME TreeInv, Files!DeleteNext, UNCHANGED faults, ret, RemovalReady
  PROVE  ret' /\ RemovalReady'
<1> DEFINE d == Head(dir_list)
<1>1. /\ DOMAIN tree \subseteq PathSet /\ <<>> \notin DOMAIN tree /\ faults \in Nat
      /\ dir_list \in Seq(PathSet) /\ dir_list # <<>> /\ dir_list' = Tail(dir_list)
  BY DEF TreeInv, FilesTyped, DeleterTyped, Files!DeleteNext
<1>2. /\ \A x : Listed(x, dir_list) <=> x = d \/ Listed(x, dir_list')
      /\ d \in PathSet /\ dir_list' \in Seq(PathSet)
  BY <1>1, ListFacts
<1>3. Dir(d) /\ Below(d)
  BY <1>2 DEF RemovalReady
<1>4. /\ ParentsLast(dir_list') /\ ~ Listed(d, dir_list')
      /\ \A x : Listed(x, dir_list') => Files!Front(x) # d
  BY <1>1, <1>2, OrderFacts DEF RemovalReady
<1>5. Files!GetChildren(d) = {}
  <2> SUFFICES ASSUME NEW q \in DOMAIN tree, Files!Front(q) = d PROVE FALSE
    BY DEF Files!GetChildren
  <2>1. q \in PathSet /\ q # <<>>
    BY <1>1
  <2>2. Files!IsPrefix(d, q)
    BY <2>1, FrontOfPath
  <2>3. Below(q)
    BY <1>2, <1>3, <2>1, <2>2, DirnamePath, PrefixTrans DEF Below
  <2>4. Listed(q, dir_list) /\ q # d
    BY <2>1, <2>3, NotItsOwnFront DEF RemovalReady
  <2> QED BY <1>2, <1>4, <2>4
<1>6. Files!IsDirectory(d)
  BY <1>3 DEF Dir, Files!IsDirectory, Files!FileExists
<1>7. Files!Unlink(d) /\ UNCHANGED ret
  <2>1. ~ Files!Fail(Files!IsDirectory(d) /\ Files!GetChildren(d) = {})
    BY <1>1, <1>5, <1>6 DEF Files!Fail
  <2> QED BY <2>1 DEF Files!DeleteNext
<1>8. DOMAIN tree' = DOMAIN tree \ {d} /\ \A q \in DOMAIN tree' : tree'[q] = tree[q]
  BY <1>7, Unlinked
<1>9. \A x \in PathSet : Listed(x, dir_list') => Dir(x)' /\ Below(x)'
  BY <1>2, <1>4, <1>8 DEF RemovalReady, Dir, Below
<1>10. \A x \in DOMAIN tree' : Below(x)' => Listed(x, dir_list')
  BY <1>2, <1>8 DEF RemovalReady, Below
<1> QED BY <1>4, <1>7, <1>9, <1>10 DEF RemovalReady

\* A search or a removal of a file finds that it is none.
LEMMA OrderOnFile ==
  ASSUME TreeInv, Files!Delete, phase # "before", OnFile
  PROVE  OnFile'
<1>1. /\ dir_q \in Seq(PathSet) /\ dir_list \in Seq(PathSet) /\ MCdirname # <<>>
  BY DirnamePath DEF TreeInv, DeleterTyped
<1>2. ~ Files!IsDirectory(MCdirname)
  BY <1>1 DEF OnFile, Files!IsDirectory, Files!FileExists
<1>3. ASSUME NEW l \in Seq(PathSet), l # <<>>, \A x : Listed(x, l) => x = MCdirname
      PROVE  Head(l) = MCdirname /\ \A x : Listed(x, Tail(l)) => x = MCdirname
  BY <1>3, DirnamePath, ListFacts
<1>4. CASE Files!Scan
  <2>1. /\ UNCHANGED tree /\ dir_q # <<>> /\ dir_q' = Tail(dir_q)
        /\ dir_list' = Append(dir_list, Head(dir_q))
    BY <1>4 DEF Files!Scan
  <2>2. Head(dir_q) = MCdirname /\ \A x : Listed(x, dir_q') => x = MCdirname
    BY <1>1, <1>3, <2>1 DEF OnFile
  <2>3. children' = children
    BY <1>2, <1>4, <2>2 DEF Files!Scan
  <2>4. \A x : Listed(x, dir_list') => x = MCdirname
    BY <1>1, <2>1, <2>2, DirnamePath, ListFacts DEF OnFile
  <2> QED BY <2>1, <2>2, <2>3, <2>4 DEF OnFile
<1>5. CASE Files!Visit
  BY <1>5 DEF OnFile, Files!Visit
<1>6. CASE Files!Found
  <2>1. UNCHANGED <<tree, dir_q, children>> /\ dir_list' = Files!Reverse(dir_list)
    BY <1>6 DEF Files!Found, Files!RemovalOrder
  <2> QED BY <1>1, <2>1, ReverseFacts DEF OnFile
<1>7. CASE Files!DeleteNext
  <2>1. dir_list # <<>> /\ dir_list' = Tail(dir_list) /\ UNCHANGED <<dir_q, children>>
    BY <1>7 DEF Files!DeleteNext
  <2>2. Head(dir_list) = MCdirname /\ \A x : Listed(x, dir_list') => x = MCdirname
    BY <1>1, <1>3, <2>1 DEF OnFile
  <2>3. UNCHANGED tree
    BY <1>2, <1>7, <2>2 DEF Files!DeleteNext
  <2> QED BY <2>1, <2>2, <2>3 DEF OnFile
<1>8. CASE Files!EndDelete
  BY <1>8 DEF Files!EndDelete, OnFile
<1>9. CASE Files!StartDelete
  BY <1>9 DEF Files!StartDelete
<1> QED BY <1>4, <1>5, <1>6, <1>7, <1>8, <1>9 DEF Files!Delete

LEMMA OrderBegins ==
  ASSUME TreeInv, Files!StartDelete, there' # {}
  PROVE  OnFile' \/ (ret' /\ phase' = "scan" /\ ScanOrder')
<1>1. /\ DOMAIN tree \subseteq PathSet /\ <<>> \notin DOMAIN tree /\ Closed
      /\ dir_list = <<>> /\ dir_q = <<>> /\ children = {} /\ ret
  BY DEF TreeInv, FilesTyped, NotBegun, Files!StartDelete
<1>2. /\ UNCHANGED <<tree, dir_list, children>>
      /\ there' = {p \in DOMAIN tree : Below(p)}
  BY DEF Files!StartDelete, Below
<1>3. MCdirname \in DOMAIN tree
  <2> DEFINE S == {p \in DOMAIN tree : Below(p)}
  <2>1. S \subseteq PathSet /\ S # {} /\ \A p \in S : Below(p)
    BY <1>1, <1>2
  <2>2. ASSUME NEW p \in S, p # MCdirname PROVE Files!Front(p) \in S
    <3>1. Files!Front(p) # <<>> /\ Below(Files!Front(p))
      BY <2>1, <2>2, AboveBelow
    <3> QED BY <1>1, <3>1 DEF Closed
  <2> HIDE DEF S
  <2>3. MCdirname \in S
    BY <2>1, <2>2, UpToDirname
  <2> QED BY <2>3 DEF S
<1>4. phase' = "scan" /\ dir_q' = <<MCdirname>> /\ UNCHANGED ret
  BY <1>3 DEF Files!StartDelete, Files!FileExists
<1>5. \A x : Listed(x, <<MCdirname>>) <=> x = MCdirname
  BY DEF Listed
<1>6. \A x : ~ Listed(x, dir_list')
  BY <1>1, <1>2, EmptyList
<1>7. CASE tree[MCdirname] # "dir"
  BY <1>1, <1>2, <1>3, <1>4, <1>5, <1>6, <1>7 DEF OnFile
<1>8. CASE tree[MCdirname] = "dir"
  <2>1. dir_list' \o dir_q' = <<MCdirname>>
    BY <1>1, <1>2, <1>4, DirnamePath
  <2>2. Dir(MCdirname)' /\ Below(MCdirname)'
    <3>1. Len(MCdirname) \in Nat
      BY DirnamePath DEF PathSet
    <3>2. Below(MCdirname)
      BY <3>1, DirnamePath, Prefix DEF Below
    <3> QED BY <1>2, <1>3, <1>8, <3>2 DEF Dir, Below
  <2>3. ParentsFirst(<<MCdirname>>)
    <3>1. <<>> \in Seq(PathSet)
      OBVIOUS
    <3> QED BY <3>1, DirnamePath, OrderFacts
  <2>4. \A x \in DOMAIN tree' : \/ Listed(x, <<MCdirname>>)
                                \/ x # MCdirname /\ ~ Listed(Files!Front(x), dir_list')
    BY <1>5, <1>6
  <2> QED BY <1>1, <1>2, <1>4, <1>5, <2>1, <2>2, <2>3, <2>4 DEF ScanOrder
<1> QED BY <1>7, <1>8

LEMMA OrderStep == TreeInv /\ OrderInv /\ [MCNext]_everything => OrderInv'
<1> SUFFICES ASSUME TreeInv, OrderInv, [MCNext]_everything PROVE OrderInv'
  OBVIOUS
<1>1. CASE UNCHANGED files
  <2>1. UNCHANGED <<tree, faults, phase, dir_q, dir_list, children, ret, there, makers>>
    BY <1>1 DEF files
  <2>2. /\ Files!Undisturbed' = Files!Undisturbed /\ OnFile' = OnFile
        /\ ScanOrder' = ScanOrder /\ RemovalReady' = RemovalReady
    BY <2>1 DEF Files!Undisturbed, OnFile, ScanOrder, RemovalReady, Dir, Below
  <2> QED BY <2>1, <2>2 DEF OrderInv
<1>2. ASSUME NEW c \in Creators, Files!Create(c) PROVE OrderInv'
  <2>1. makers'[c].pc # "idle"
    BY <1>2, TreeCreate
  <2> QED BY <2>1 DEF OrderInv, Files!Undisturbed
<1>3. CASE Files!Delete
  <2> SUFFICES ASSUME Files!Undisturbed', phase' # "before", there' # {}
               PROVE  \/ OnFile'
                      \/ ret' /\ (phase' = "scan" => ScanOrder') /\ (phase' = "remove" => RemovalReady')
    BY DEF OrderInv
  <2>1. faults' = 0 /\ faults = 0 /\ Files!Undisturbed
    <3>1. faults \in Nat /\ faults' = 0
      BY DEF TreeInv, FilesTyped, Files!Undisturbed
    <3>2. faults' = faults \/ \E b \in BOOLEAN : Files!Fail(b)
      <4>1. \A p : Files!IsDirectory(p) \in BOOLEAN
        BY DEF Files!IsDirectory
      <4> QED BY <1>3, <4>1 DEF Files!Delete, Files!StartDelete, Files!Scan, Files!Visit, Files!Found,
                    Files!DeleteNext, Files!EndDelete
    <3>3. faults = 0
      BY <3>1, <3>2 DEF Files!Fail
    <3>4. UNCHANGED makers
      BY <1>3 DEF Files!Delete, Files!StartDelete, Files!Scan, Files!Visit, Files!Found,
                  Files!DeleteNext, Files!EndDelete
    <3> QED BY <3>1, <3>3, <3>4 DEF Files!Undisturbed
  <2>2. CASE phase = "before"
    <3>1. Files!StartDelete
      BY <1>3, <2>2 DEF Files!Delete, Files!Scan, Files!Visit, Files!Found, Files!DeleteNext,
                        Files!EndDelete
    <3> QED BY <3>1, OrderBegins
  <2>3. CASE phase # "before"
    <3>1. there' = there
      BY <1>3, <2>3 DEF Files!Delete, Files!StartDelete, Files!Scan, Files!Visit, Files!Found,
                        Files!DeleteNext, Files!EndDelete, Files!history
    <3>2. CASE OnFile
      BY <1>3, <2>3, <3>2, OrderOnFile
    <3>3. CASE /\ ret /\ (phase = "scan" => ScanOrder) /\ (phase = "remove" => RemovalReady)
      <4>1. CASE Files!Scan
        <5>1. phase = "scan" /\ phase' = phase
          BY <4>1 DEF Files!Scan
        <5> QED BY <2>1, <3>3, <4>1, <5>1, OrderScan
      <4>2. CASE Files!Visit
        <5>1. phase = "scan" /\ phase' = phase
          BY <4>2 DEF Files!Visit
        <5> QED BY <2>1, <3>3, <4>2, <5>1, OrderVisit
      <4>3. CASE Files!Found
        <5>1. phase = "scan" /\ phase' = "remove" /\ ret' = ret
          BY <4>3 DEF Files!Found
        <5> QED BY <3>3, <4>3, <5>1, OrderFound
      <4>4. CASE Files!DeleteNext
        <5>1. phase = "remove" /\ phase' = phase
          BY <4>4 DEF Files!DeleteNext
        <5> QED BY <2>1, <3>3, <4>4, <5>1, OrderRemove
      <4>5. CASE Files!EndDelete
        BY <3>3, <4>5 DEF Files!EndDelete
      <4>6. CASE Files!StartDelete
        BY <2>3, <4>6 DEF Files!StartDelete
      <4> QED BY <1>3, <4>1, <4>2, <4>3, <4>4, <4>5, <4>6 DEF Files!Delete
    <3> QED BY <2>1, <2>3, <3>1, <3>2, <3>3 DEF OrderInv
  <2> QED BY <2>2, <2>3
<1>4. Files!Next \/ UNCHANGED files
  BY DEF MCNext, Only, Is, everything
<1> QED BY <1>1, <1>2, <1>3, <1>4 DEF Files!Next

LEMMA DeleteAnswers == TreeInv /\ RemovedInv /\ OrderInv => DeletesAll
<1> SUFFICES ASSUME TreeInv, RemovedInv, OrderInv, phase = "done"
             PROVE  /\ ret => there # {} /\ there \subseteq gone
                    /\ (/\ Files!Undisturbed /\ there # {}
                        /\ Files!FileExists(MCdirname) => Files!IsDirectory(MCdirname))
                       => ret
                    /\ ret <=> undeleted_files + undeleted_dirs = 0
  BY DEF DeletesAll, Files!DeletesAll
<1>1. ret => there # {} /\ there \subseteq gone
  <2> SUFFICES ASSUME ret PROVE there # {} /\ there \subseteq gone
    OBVIOUS
  <2>1. /\ dir_list = <<>> /\ MCdirname \in there
        /\ \A p \in there : p \in gone \/ Listed(p, dir_list)
    BY DEF RemovedInv
  <2> QED BY <2>1, EmptyList
<1>2. ASSUME Files!Undisturbed, there # {},
             Files!FileExists(MCdirname) => Files!IsDirectory(MCdirname)
      PROVE  ret
  <2>1. ~ OnFile
    BY <1>2, DirnamePath DEF OnFile, Files!FileExists, Files!IsDirectory
  <2> QED BY <1>2, <2>1 DEF OrderInv
<1>3. ret <=> undeleted_files + undeleted_dirs = 0
  BY DEF TreeInv, CountsOK
<1> QED BY <1>1, <1>2, <1>3

\* A recursive deletion that reports success has removed what was there when it
\* began, and reports it unless it was disturbed: DeleteDirectoryRecursively, on
\* every tree and with any number of processes creating paths below it.
THEOREM DeletionAnswers == MCSpec => []DeletesAll
<1> DEFINE Inv == TreeInv /\ RemovedInv /\ OrderInv
<1>1. MCInit => Inv
  BY TreeStart, RemovedStart, OrderStart
<1>2. Inv /\ [MCNext]_<<which, vars, users, files>> => Inv'
  BY TreeStep, RemovedStep, OrderStep DEF everything
<1>3. Inv => DeletesAll
  BY DeleteAnswers
<1> HIDE DEF Inv
<1> QED BY <1>1, <1>2, <1>3, PTL DEF MCSpec
=============================================================================
