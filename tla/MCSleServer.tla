---------------------------- MODULE MCSleServer -----------------------------
(* An instance of SleServer for TLC.                                        *)
EXTENDS SleServer
=============================================================================
