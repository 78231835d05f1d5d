---------------------------- MODULE MCLeaderFinds ----------------------------
(***************************************************************************)
(* Instances of LeaderScan and RouteHints for TLC.  The two parts share no *)
(* variable and no step, so what one does says nothing of the other: one   *)
(* of them runs, the other rests in its initial state and owes nothing.    *)
(***************************************************************************)
EXTENDS LeaderScan, RouteHints

VARIABLE part       \* the part that runs

vars == <<part, scanVars, hintVars>>

FindsInit == part \in {"scan", "hints"} /\ ScanInit /\ HintsInit

FindsNext ==
    /\ UNCHANGED part
    /\ \/ part = "scan" /\ ScanNext /\ UNCHANGED hintVars
       \/ part = "hints" /\ HintsNext /\ UNCHANGED scanVars

(* ScanFairness and HintsFairness, each for its part.                       *)
FindsFairness ==
    /\ WF_vars(part = "scan" /\ Rotate /\ UNCHANGED <<part, hintVars>>)
    /\ \A d \in Talker :
         /\ SF_vars(part = "scan" /\ Found(d) /\ UNCHANGED <<part, hintVars>>)
         /\ SF_vars(part = "scan" /\ HeardFrom(d) /\ UNCHANGED <<part, hintVars>>)
    /\ WF_vars(part = "hints" /\ MetricsTick /\ UNCHANGED <<part, scanVars>>)
    /\ WF_vars(part = "hints" /\ Second /\ UNCHANGED <<part, scanVars>>)

FindsSpec == FindsInit /\ [][FindsNext]_vars /\ FindsFairness
=============================================================================
