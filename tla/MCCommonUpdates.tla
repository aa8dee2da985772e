-------------------------- MODULE MCCommonUpdates --------------------------
(* CommonUpdates with the lists of counts TLC tries.                       *)
EXTENDS CommonUpdates

\* A single update, two updates in one container, and a container without
\* mailbox updates.
MCCounted == {<<>>, <<1>>, <<1, 1>>}

\* Single updates only, for the run that has the most events in flight.
MCSingle == {<<1>>, <<2>>}

\* An update that moves nothing, and one that moves the position.
MCZero == {<<0>>, <<1>>}
=============================================================================
