----------------------------- MODULE FileSystem ------------------------------
(***************************************************************************)
(* The recursive operations of base::FileSystem                            *)
(* (src/base/platform/file_system.cc) on a tree that several processes     *)
(* change at once.  A path is the sequence of its names; one system call   *)
(* is one action and may fail for reasons of its own.                      *)
(***************************************************************************)
EXTENDS Integers, Sequences, FiniteSets, SequencesExt

CONSTANTS
  Names,
  MaxDepth,      \* bound: names of a path
  Creators,      \* processes that call CreateDirectoryRecursively
  Wanted,        \* paths they call it with
  dirname,       \* what one other process deletes recursively
  MaxFaults      \* bound

FileSystemAssumption ==
  /\ dirname # <<>> /\ Wanted \cup {dirname} \subseteq SeqOf(Names, MaxDepth)
  /\ MaxDepth \in Nat /\ Creators # {}

VARIABLES
  tree,          \* [path -> "dir" or "file"], of the paths that exist
  faults,        \* history: system calls that have failed for reasons of their own
  phase,         \* of the deleting call: "before", "scan", "remove", "done"
  dir_q, dir_list, children, undeleted_files, undeleted_dirs, ret,
  there, gone,   \* history: the paths below dirname when it began, and removed
  makers         \* the state of each creator

deleter == <<phase, dir_q, dir_list, children, undeleted_files, undeleted_dirs, ret>>
history == <<there, gone>>
vars    == <<tree, faults, deleter, history, makers>>

Paths == SeqOf(Names, MaxDepth) \ {<<>>}

\* Everything that exists is in a directory that exists.
Trees ==
  UNION {{t \in [S -> {"dir", "file"}] :
            \A p \in S : Front(p) = <<>> \/ (Front(p) \in S /\ t[Front(p)] = "dir")}
         : S \in SUBSET {p \in Paths : IsPrefix(dirname, p) \/ IsPrefix(p, dirname)}}

Idle == [pc |-> "idle", path |-> <<>>, remaining_dir |-> <<>>, sub_dirs |-> <<>>, ok |-> TRUE]

Init ==
  /\ tree \in Trees /\ faults = 0
  /\ phase = "before" /\ dir_q = <<>> /\ dir_list = <<>> /\ children = {}
  /\ undeleted_files = 0 /\ undeleted_dirs = 0 /\ ret = TRUE
  /\ there = {} /\ gone = {}
  /\ makers = [c \in Creators |-> Idle]

FileExists(p)  == p \in DOMAIN tree
IsDirectory(p) == p = <<>> \/ (FileExists(p) /\ tree[p] = "dir")
GetChildren(p) == {q \in DOMAIN tree : Front(q) = p}

\* A system call fails, also where nothing it depends on is in its way.
Fail(possible) ==
  /\ possible => faults < MaxFaults
  /\ faults' = IF possible THEN faults + 1 ELSE faults

Unlink(p) ==
  /\ tree' = Restrict(tree, DOMAIN tree \ {p})
  /\ gone' = gone \cup {p}

-----------------------------------------------------------------------------
(* DeleteDirectoryRecursively(dirname).                                    *)

StartDelete ==
  /\ phase = "before"
  /\ there' = {p \in DOMAIN tree : IsPrefix(dirname, p)}
  /\ \/ /\ FileExists(dirname)
        /\ phase' = "scan" /\ dir_q' = <<dirname>>
        /\ UNCHANGED <<undeleted_dirs, ret>>
     \/ /\ ~ FileExists(dirname)
        /\ phase' = "done" /\ undeleted_dirs' = 1 /\ ret' = FALSE
        /\ UNCHANGED dir_q
  /\ UNCHANGED <<tree, faults, dir_list, children, undeleted_files, gone, makers>>

\* The next directory of the search is read.
Scan ==
  /\ phase = "scan" /\ children = {} /\ dir_q # <<>>
  /\ dir_q' = Tail(dir_q) /\ dir_list' = Append(dir_list, Head(dir_q))
  /\ \/ /\ IsDirectory(Head(dir_q))
        /\ children' = GetChildren(Head(dir_q))
        /\ UNCHANGED <<undeleted_dirs, ret, faults>>
     \/ /\ Fail(IsDirectory(Head(dir_q)))
        /\ undeleted_dirs' = undeleted_dirs + 1 /\ ret' = FALSE
        /\ UNCHANGED children
  /\ UNCHANGED <<tree, phase, undeleted_files, history, makers>>

\* A file is deleted along the way.  A child that cannot be looked at is
\* taken for a file, and that it cannot be deleted as one.
Visit ==
  /\ phase = "scan"
  /\ \E p \in children :
       /\ children' = children \ {p}
       /\ \/ /\ IsDirectory(p) /\ dir_q' = Append(dir_q, p)
             /\ UNCHANGED <<tree, gone, undeleted_files, ret, faults>>
          \/ /\ ~ IsDirectory(p) /\ Unlink(p)
             /\ UNCHANGED <<dir_q, undeleted_files, ret, faults>>
          \/ /\ Fail(TRUE) /\ undeleted_files' = undeleted_files + 1 /\ ret' = FALSE
             /\ UNCHANGED <<tree, gone, dir_q>>
  /\ UNCHANGED <<phase, dir_list, undeleted_dirs, there, makers>>

\* Mutant: the directories are removed in the order they were found.
RemovalOrderForward == dir_list

RemovalOrder == Reverse(dir_list)

Found ==
  /\ phase = "scan" /\ children = {} /\ dir_q = <<>>
  /\ phase' = "remove" /\ dir_list' = RemovalOrder
  /\ UNCHANGED <<tree, faults, dir_q, children, undeleted_files, undeleted_dirs, ret, history, makers>>

DeleteNext ==
  /\ phase = "remove" /\ dir_list # <<>>
  /\ dir_list' = Tail(dir_list)
  /\ LET dir       == Head(dir_list)
         deletable == IsDirectory(dir) /\ GetChildren(dir) = {}
     IN  \/ deletable /\ Unlink(dir) /\ UNCHANGED <<undeleted_dirs, ret, faults>>
         \/ /\ Fail(deletable)
            /\ undeleted_dirs' = undeleted_dirs + 1 /\ ret' = FALSE
            /\ UNCHANGED <<tree, gone>>
  /\ UNCHANGED <<phase, dir_q, children, undeleted_files, there, makers>>

EndDelete ==
  /\ phase = "remove" /\ dir_list = <<>>
  /\ phase' = "done"
  /\ UNCHANGED <<tree, faults, dir_q, dir_list, children, undeleted_files, undeleted_dirs, ret,
                 history, makers>>

Delete == StartDelete \/ Scan \/ Visit \/ Found \/ DeleteNext \/ EndDelete

-----------------------------------------------------------------------------
(* CreateDirectoryRecursively(path).                                       *)

Step(c, m) == makers' = [makers EXCEPT ![c] = m]

StartCreate(c) ==
  /\ makers[c].pc = "idle"
  /\ \E p \in Wanted : Step(c, [Idle EXCEPT !.pc = "look", !.path = p, !.remaining_dir = p])
  /\ UNCHANGED <<tree, faults, deleter, history>>

\* Mutant: the directories are not put into the order in which they are made.
PendingReversed(dir, sub_dirs) == Append(sub_dirs, dir)

Pending(dir, sub_dirs) == <<dir>> \o sub_dirs

\* The path is shortened to the part that exists, a file perhaps.
Look(c) ==
  LET m == makers[c]
      d == m.remaining_dir
  IN  /\ m.pc = "look"
      /\ IF d # <<>> /\ ~ FileExists(d)
         THEN Step(c, [m EXCEPT !.sub_dirs = Pending(Last(d), @), !.remaining_dir = Front(d)])
         ELSE Step(c, [m EXCEPT !.pc = "make"])
      /\ UNCHANGED <<tree, faults, deleter, history>>

\* What mkdir asks for.
Creatable(p) == IsDirectory(Front(p)) /\ ~ FileExists(p)

Make(c) ==
  LET m == makers[c]
      p == Append(m.remaining_dir, Head(m.sub_dirs))
  IN  /\ m.pc = "make" /\ m.sub_dirs # <<>>
      /\ \/ /\ Creatable(p)
            /\ tree' = [q \in DOMAIN tree \cup {p} |-> IF q = p THEN "dir" ELSE tree[q]]
            /\ Step(c, [m EXCEPT !.remaining_dir = p, !.sub_dirs = Tail(@)])
            /\ UNCHANGED faults
         \/ /\ Fail(Creatable(p))
            /\ Step(c, [m EXCEPT !.pc = "done", !.ok = FALSE])
            /\ UNCHANGED tree
      /\ UNCHANGED <<deleter, history>>

EndCreate(c) ==
  /\ makers[c].pc = "make" /\ makers[c].sub_dirs = <<>>
  /\ Step(c, [makers[c] EXCEPT !.pc = "done"])
  /\ UNCHANGED <<tree, faults, deleter, history>>

Create(c) == StartCreate(c) \/ Look(c) \/ Make(c) \/ EndCreate(c)

Next == Delete \/ \E c \in Creators : Create(c)

Spec == Init /\ [][Next]_vars

-----------------------------------------------------------------------------
(* Properties.                                                             *)

\* A recursive deletion that reports success has removed all that was below the
\* directory when it began, whatever others created there meanwhile, and it
\* succeeds on a directory unless they did, or a system call failed (the comment at
\* file_system.cc:167 says that the directories go in the right order).  Success
\* is when the two counts are zero.
Undisturbed == faults = 0 /\ \A c \in Creators : makers[c].pc = "idle"
DeletesAll ==
  phase = "done" =>
    /\ ret => there # {} /\ there \subseteq gone
    /\ Undisturbed /\ there # {} /\ (FileExists(dirname) => IsDirectory(dirname)) => ret
    /\ ret <=> undeleted_files + undeleted_dirs = 0

\* Of several processes that create the same path where no file stands in the
\* way, one at least succeeds, although the others find that what they are about
\* to create is there and fail.
OneCreates ==
  \A p \in Wanted :
    /\ \A c \in Creators : makers[c].pc = "done" /\ makers[c].path = p
    /\ faults = 0 /\ phase = "before"
    /\ \A q \in DOMAIN tree : IsPrefix(q, p) /\ q # p => IsDirectory(q)
    => FileExists(p) /\ \E c \in Creators : makers[c].ok
=============================================================================
