---------------------------- MODULE MCChannelsPage ----------------------------
(***************************************************************************)
(* ChannelsPage for TLC.  Regions are only compared with each other, so    *)
(* one is as good as another.                                              *)
(***************************************************************************)
EXTENDS ChannelsPage, TLC

Regions == Permutations(Region)
==============================================================================
