---------------------------- MODULE MCSleClient ----------------------------
(* An instance of SleClient for TLC.                                        *)
EXTENDS SleClient
=============================================================================
