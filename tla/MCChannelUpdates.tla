-------------------------- MODULE MCChannelUpdates -------------------------
(* ChannelUpdates on one or two channels.                                  *)
EXTENDS ChannelUpdates, TLC

CONSTANTS c1, c2

OneChannel == {c1}
TwoChannels == {c1, c2}
=============================================================================
