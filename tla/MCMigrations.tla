---------------------------- MODULE MCMigrations ----------------------------
(* Migrations between two machines: moves to either of them, copies on one. *)
EXTENDS Migrations

CONSTANTS m1, m2

Move(m) == [kind |-> "migrate", to |-> m, again |-> TRUE]
Copy(m) == [kind |-> "duplicate", to |-> m, again |-> TRUE]

MovesAndCopies == {Move(m) : m \in Agents} \cup {Copy(m2)}

\* The world decides no step, and WorldFollows alone looks at it: with another world than
\* the first one, only the states are extended that it speaks of, and those without a copy,
\* which moves no world.
Apart == newest = 0 \/ (Straight /\ \A j \in Jobs : Moves(j))
=============================================================================
