---------------------------- MODULE RecordStream ----------------------------
(***************************************************************************)
(* What the lifecycle transport promises: the records an agent queues reach *)
(* the controller in their order, each at most once and none skipped.  It   *)
(* does not promise that all of them do.                                    *)
(***************************************************************************)
EXTENDS Naturals, Sequences

VARIABLES sent,  \* records queued so far; a record is its number
          got    \* records handed to the controller

Init == sent = 0 /\ got = << >>

Queue == sent' = sent + 1 /\ UNCHANGED got

Deliver ==
    \E n \in Len(got) + 1 .. sent :
        /\ got' = [i \in 1 .. n |-> i]
        /\ UNCHANGED sent

Next == Queue \/ Deliver

Spec == Init /\ [][Next]_<<sent, got>>
=============================================================================
