---------------------------- MODULE MCShellServer ----------------------------
(***************************************************************************)
(* ShellServer for TLC: two control programs with different variables.     *)
(***************************************************************************)
EXTENDS ShellServer

MCLayout == <<"normalscan", "tauscan">>
=============================================================================
