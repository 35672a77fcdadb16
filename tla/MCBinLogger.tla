----------------------------- MODULE MCBinLogger ----------------------------
(* Instances of BinLogger for TLC. *)
EXTENDS BinLogger

CONSTANTS c1, c2

TwoCallers == {c1, c2}
OneCaller  == {c1}
\* Two entries of one term and one of a later term.
MCEntries  == {[term |-> 1, value |-> "a"], [term |-> 1, value |-> "b"],
               [term |-> 2, value |-> "a"]}
=============================================================================
