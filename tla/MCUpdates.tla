------------------------------ MODULE MCUpdates ------------------------------
(* Three versions, the second of which is broken, and a broken runtime. *)
EXTENDS Updates

\* States where two readings of an outcome overlapped are not extended: LastOutcomeKept sets
\* them aside, and nothing else looks at reads, held and over.  A behaviour that goes on from
\* there has a counterpart without the second reading, with the same launcher and the same
\* process; the outcome that is claimed in it was that of result before.
Orderly == "raced" \notin odd
=============================================================================
