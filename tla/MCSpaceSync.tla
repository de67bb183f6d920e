---------------------------- MODULE MCSpaceSync ----------------------------
(***************************************************************************)
(* One replica and the server, two edits, one of which leaves the length   *)
(* of the file as it is.                                                   *)
(***************************************************************************)
EXTENDS SpaceSync
CONSTANTS a, b
TwoEdits == {a, b}
OnlyB == {b}
=============================================================================
