---------------------------- MODULE MCEpollPoller ----------------------------
(* An instance of EpollPoller for TLC: two descriptors, each with two      *)
(* channels, one after the other.                                          *)
EXTENDS EpollPoller

CONSTANTS c1, c2, c3, c4

MCChannels == {c1, c2, c3, c4}
MCFd == [c \in MCChannels |-> IF c \in {c1, c2} THEN 0 ELSE 1]
==============================================================================
