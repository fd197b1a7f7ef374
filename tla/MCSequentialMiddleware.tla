----------------------- MODULE MCSequentialMiddleware -----------------------
(* Values for the model checker: a message and its redelivery, another user of *)
(* their session, and two stops in its chat.                                   *)
EXTENDS SequentialMiddleware

CONSTANTS k1, d1, d2, o1, c1, s1, s2, l1, l2, l3, l4

OneChat     == [k \in Keys |-> c1]
StopsInChat == [s \in Stops |-> c1]
\* d2 is d1 delivered again.
MessageOfs  == [u \in Deliveries |-> d1]
OneSession  == [u \in Deliveries |-> k1]
=============================================================================
