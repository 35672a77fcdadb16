------------------------------ MODULE MCTable -------------------------------
(* An instance of Table for TLC. *)
EXTENDS Table

\* Three bytes; keys that share prefixes, are prefixes of one another, differ
\* by one and by more than one, or consist of the greatest byte.
MCKeys    == {<<>>, <<0>>, <<0, 1>>, <<0, 2>>, <<3, 3>>}
MCOptions == {[block_size |-> 13, block_restart_interval |-> 1],
              [block_size |-> 21, block_restart_interval |-> 2]}
=============================================================================
