------------------------------- MODULE MCPage -------------------------------
(* Names for TLC's instances of Page.                                      *)
EXTENDS Page
CONSTANTS t1, t2, project, tasks, h1, h2
=============================================================================
