------------------------------- MODULE RowSink -------------------------------
(***************************************************************************)
(* What the rest of central may rely on when it hands result rows to the   *)
(* write buffer: a row is in the buffer's custody from the moment it is    *)
(* accepted until it is in ClickHouse, is counted as dropped, or dies with *)
(* the process.  It leaves custody once and never comes back; it may be    *)
(* stored and kept (an insert whose answer was an error), but it is not    *)
(* dropped or lost and kept.  ChBuffer implements this specification.      *)
(***************************************************************************)
EXTENDS Integers

VARIABLES
    accepted,  \* rows handed over so far; a row is the number of its arrival
    custody,   \* rows the sink answers for
    stored, dropped, lost

vars == <<accepted, custody, stored, dropped, lost>>

Init == accepted = 0 /\ custody = {} /\ stored = {} /\ dropped = {} /\ lost = {}

Accept ==
    /\ accepted' \in Int /\ accepted' > accepted
    /\ custody' = custody \cup (accepted + 1 .. accepted')
    /\ UNCHANGED <<stored, dropped, lost>>

Gone == custody \ custody'

Settle ==
    /\ custody' \subseteq custody
    /\ stored \subseteq stored' /\ stored' \subseteq stored \cup custody
    /\ dropped \subseteq dropped' /\ dropped' \subseteq dropped \cup Gone
    /\ lost \subseteq lost' /\ lost' \subseteq lost \cup Gone
    /\ Gone \subseteq stored' \cup dropped' \cup lost'
    /\ UNCHANGED accepted

Next == Accept \/ Settle

Spec == Init /\ [][Next]_vars
=============================================================================
