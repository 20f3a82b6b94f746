------------------------------ MODULE LossyFifo ------------------------------
(* What the syslog forwarder promises of each destination: records leave in the
   order they entered, each at most once; a record that does not leave is still
   held, or it was counted as lost.  Which record is lost is left open.
   A record is its sequence number.                                           *)
EXTENDS Integers, FiniteSets, FiniteSetsExt

CONSTANT Destinations

VARIABLES
    held,   \* records accepted and neither acknowledged nor lost
    last,   \* the record acknowledged last, 0 before the first
    lost    \* how many records were dropped, or reported as undelivered

fifoVars == <<held, last, lost>>

FifoInit ==
    /\ held = [d \in Destinations |-> {}]
    /\ last = [d \in Destinations |-> 0]
    /\ lost = 0

\* New records are newer than all before them; what they push out is counted.
Enter(d) ==
    \E h \in {held'[d]} :
        /\ h \ held[d] # {}
        /\ \A new \in h \ held[d], old \in held[d] \cup {last[d]} : new > old
        /\ held' = [held EXCEPT ![d] = h]
        /\ lost' = lost + Cardinality(held[d] \ h)
        /\ UNCHANGED last

\* The oldest record held is acknowledged.
Leave(d) ==
    /\ held[d] # {}
    /\ Min(held[d]) > last[d]
    /\ last' = [last EXCEPT ![d] = Min(held[d])]
    /\ held' = [held EXCEPT ![d] = @ \ {Min(@)}]
    /\ UNCHANGED lost

Lose(d) ==
    \E r \in held[d] : /\ held' = [held EXCEPT ![d] = @ \ {r}]
                       /\ lost' = lost + 1
                       /\ UNCHANGED last

\* The destination is given up; what it still held is counted.
Retire(d) ==
    /\ lost' = lost + Cardinality(held[d])
    /\ held' = [held EXCEPT ![d] = {}]
    /\ last' = [last EXCEPT ![d] = 0]

FifoNext == \E d \in Destinations : Enter(d) \/ Leave(d) \/ Lose(d) \/ Retire(d)

FifoSpec == FifoInit /\ [][FifoNext]_fifoVars
=============================================================================
