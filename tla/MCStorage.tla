------------------------------ MODULE MCStorage -----------------------------
(***************************************************************************)
(* The components that keep what outlives a process, for TLC side by side: *)
(* a behaviour is one of the component chosen in its first state, and the  *)
(* others stay as they are.                                                *)
(***************************************************************************)
EXTENDS MCBinLogger

CONSTANTS
  Names, Anonymous, Keys, Values, Iterators, MaxInstances,
  PathNames, MaxDepth, Creators, MaxFaults

VARIABLES
  which,
  running, db_map_, opened, stored, iterator, closed,
  tree, faults, phase, dir_q, dir_list, children, undeleted_files, undeleted_dirs, ret,
  there, gone, makers

\* JoinPath puts every name into a directory of its own.
MCDirectory == [name \in Names |-> name]

\* One process deletes a directory while others create the same path below it.
MCdirname == <<1>>
MCWanted  == {<<1, 2, 1>>}

Users == INSTANCE Database WITH Directory <- MCDirectory
Files == INSTANCE FileSystem WITH Names <- PathNames, Wanted <- MCWanted, dirname <- MCdirname

ASSUME MCStorageAssumption == Users!DatabaseAssumption /\ Files!FileSystemAssumption

users == <<running, db_map_, opened, stored, iterator, closed>>
files == <<tree, faults, phase, dir_q, dir_list, children, undeleted_files, undeleted_dirs, ret,
           there, gone, makers>>

Is(component) == which = component

\* A FileSystem that is not chosen is an empty one.
MCInit ==
  /\ which \in {"BinLogger", "Database", "FileSystem"}
  /\ Init /\ Users!Init
  /\ Files!Init /\ (Is("FileSystem") \/ tree = <<>>)

\* A step of a component leaves the others as they are.
Only(component) ==
  /\ Is(component) /\ UNCHANGED which
  /\ IF Is("BinLogger")  THEN TRUE ELSE UNCHANGED vars
  /\ IF Is("Database")   THEN TRUE ELSE UNCHANGED users
  /\ IF Is("FileSystem") THEN TRUE ELSE UNCHANGED files

MCNext ==
  \/ Only("BinLogger")  /\ Next
  \/ Only("Database")   /\ Users!Next
  \/ Only("FileSystem") /\ Files!Next

MCSpec == MCInit /\ [][MCNext]_<<which, vars, users, files>>

-----------------------------------------------------------------------------
(* Properties, each as it is stated in its module.                         *)
IteratorsOutliveOthers == Users!IteratorsOutliveOthers
DeletesAll             == Files!DeletesAll
OneCreates             == Files!OneCreates
=============================================================================
