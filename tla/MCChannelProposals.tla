-------------------------- MODULE MCChannelProposals --------------------------
(***************************************************************************)
(* ChannelProposals for TLC.  Names are only compared with each other, so  *)
(* one channel is as good as another.                                      *)
(***************************************************************************)
EXTENDS ChannelProposals, TLC

Names == Permutations(Name)
===============================================================================
