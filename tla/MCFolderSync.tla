---------------------------- MODULE MCFolderSync ----------------------------
(***************************************************************************)
(* Instances of FolderSync for TLC: two contents that anyone may write and *)
(* one the server refuses.                                                 *)
(***************************************************************************)
EXTENDS FolderSync, TLC

CONSTANTS a, b, big

Budget(edits, refused, writes, faults) ==
  [edits |-> edits, refused |-> refused, writes |-> writes, faults |-> faults]

\* Two changes on one side and one on the other with a fault; a refused file that is
\* replaced or deleted again; one of each with two faults; a file that is edited, put back and
\* edited again while two changes are installed.
Mixed ==
  {Budget(2, 0, 1, 1), Budget(1, 0, 2, 1), Budget(1, 1, 1, 1), Budget(1, 0, 1, 2),
   Budget(1, 2, 2, 0)}
=============================================================================
