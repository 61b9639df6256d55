---------------------------- MODULE MCServerIngest ----------------------------
(***************************************************************************)
(* ServerIngest for TLC, with 2 as the present, 2 the hot window, 1 the    *)
(* background window and 0 what lies before the retention window.          *)
(***************************************************************************)
EXTENDS ServerIngest

\* A recent row, an old one, and a long-lived one that was heard again: only
\* last_seen puts it into the hot window.
Recent    == [first |-> 2, last |-> 2]
Old       == [first |-> 1, last |-> 1]
LongLived == [first |-> 0, last |-> 2]

MixedHistory == {Recent, Old, LongLived}
OldHistory   == {Old}
==============================================================================
