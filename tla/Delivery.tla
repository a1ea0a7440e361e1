------------------------------- MODULE Delivery -------------------------------
(***************************************************************************)
(* What the delivery of critical events promises, with neither sessions nor*)
(* channels nor disks: a mailbox that takes events in the order of their   *)
(* emission, hands each one over once, and never gives up one that was made*)
(* safe, but for the oldest when it is full.  CriticalEvents implements it.*)
(***************************************************************************)
EXTENDS Integers

CONSTANT N              \* number of events

VARIABLES
    status,     \* what became of each event
    owed,       \* the events that are still to be handed over
    safe        \* those of them that a crash of the sender leaves there

vars == <<status, owed, safe>>

Events   == 1..N
Statuses == {"unborn", "waiting", "taken", "handled", "failed", "missed"}

Init ==
    /\ status = [e \in Events |-> "unborn"]
    /\ owed = {}
    /\ safe = {}

\* The next event is emitted; a mailbox that is full gives up its oldest one.
Post(e) ==
    /\ status[e] = "unborn"
    /\ \A f \in Events : f < e => status[f] # "unborn"
    /\ status' = [status EXCEPT ![e] = "waiting"]
    /\ \/ owed' = owed \cup {e}
       \/ \E o \in owed \cup {e} :
             /\ \A f \in owed \cup {e} : o <= f
             /\ owed' = (owed \cup {e}) \ {o}
    /\ safe' = safe \cap owed'

\* Some of what is owed becomes safe.
Secure ==
    /\ safe' \subseteq owed
    /\ safe \subseteq safe'
    /\ UNCHANGED <<status, owed>>

\* The sender crashes: what is not safe may be given up.
Forget ==
    /\ owed' \subseteq owed
    /\ safe \subseteq owed'
    /\ UNCHANGED <<status, safe>>

\* An event is handed over, unless an earlier one is owed.  The receiver may still get one
\* that was given up.
Take(e) ==
    /\ status[e] = "waiting"
    /\ \A f \in owed : e <= f
    /\ status' = [status EXCEPT ![e] = "taken"]
    /\ owed' = owed \ {e}
    /\ safe' = safe \ {e}

\* Its handler ends.
Finish(e) ==
    /\ status[e] = "taken"
    /\ \E end \in {"handled", "failed"} : status' = [status EXCEPT ![e] = end]
    /\ UNCHANGED <<owed, safe>>

\* The receiver crashes under its handlers.
Abandon ==
    /\ status' = [e \in Events |-> IF status[e] = "taken" THEN "missed" ELSE status[e]]
    /\ UNCHANGED <<owed, safe>>

Next ==
    \/ \E e \in Events : Post(e) \/ Take(e) \/ Finish(e)
    \/ Secure \/ Forget \/ Abandon

Spec == Init /\ [][Next]_vars
=============================================================================
