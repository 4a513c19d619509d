-------------------------- MODULE MCServerCommands --------------------------
(* Instances of ServerCommands.                                              *)
EXTENDS ServerCommands, TLC
=============================================================================
