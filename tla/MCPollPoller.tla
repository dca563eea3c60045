---------------------------- MODULE MCPollPoller ----------------------------
(* An instance of PollPoller for TLC: three descriptors, the first of them *)
(* with two channels, one after the other.                                 *)
EXTENDS PollPoller

CONSTANTS c1, c2, c3, c4

MCChannels == {c1, c2, c3, c4}
MCFd == [c \in MCChannels |->
           CASE c \in {c1, c2} -> 0 [] c = c3 -> 1 [] c = c4 -> 2]
=============================================================================
