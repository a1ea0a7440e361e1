---- MODULE MCTasks ----
(* Tasks on two tasks of one server. *)
EXTENDS Tasks, TLC

CONSTANTS o1, o2

OrderSymmetry == Permutations(Orders)
====
