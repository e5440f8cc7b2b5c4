-------------------------------- MODULE MCPyCmb --------------------------------
(***************************************************************************)
(* The instance of PyCmb for TLC.                                          *)
(***************************************************************************)
EXTENDS PyCmb
NoConfigs == {}
=============================================================================
