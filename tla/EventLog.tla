------------------------------- MODULE EventLog -------------------------------
(***************************************************************************)
(* What the clerk module promises to the child chain, without root chain   *)
(* IDs, side transactions or time: one append-only list of the events of   *)
(* all root chains in which no event appears twice.                        *)
(***************************************************************************)
EXTENDS Sequences

CONSTANT Event  \* state-sync events of all root chains

VARIABLE log    \* what the child chain may read, in the order of its IDs

Init == log = <<>>

\* An event that is not there yet gets the next ID.
Record(e) ==
    /\ \A i \in DOMAIN log : log[i] # e
    /\ log' = Append(log, e)

Next == \E e \in Event : Record(e)

Spec == Init /\ [][Next]_log
===============================================================================
