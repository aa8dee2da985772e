----------------------------- MODULE UpdateFeed -----------------------------
(***************************************************************************)
(* What the machinery of update streams is for, with nothing of how it     *)
(* does it: a server numbers its updates, a client learns them in any      *)
(* order and any number at a time, and from time to time claims a          *)
(* position.  It claims a position only when it has everything up to it,   *)
(* never gives up a position it has claimed, and never forgets.            *)
(***************************************************************************)
EXTENDS Naturals

VARIABLES
  issued,   \* the last position of the server
  learned,  \* the positions the client has applied
  claimed   \* the position the client would ask a difference from

feedVars == <<issued, learned, claimed>>

FeedInit == issued \in Nat /\ learned = {} /\ claimed = 0

IssueNext ==
  /\ issued' \in Nat
  /\ issued' > issued
  /\ UNCHANGED <<learned, claimed>>

Learn ==
  /\ learned \subseteq learned'
  /\ learned' \subseteq 1 .. issued
  /\ claimed' \in claimed .. issued
  /\ 1 .. claimed' \subseteq learned'
  /\ UNCHANGED issued

FeedNext == IssueNext \/ Learn

FeedSpec == FeedInit /\ [][FeedNext]_feedVars
=============================================================================
