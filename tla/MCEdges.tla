------------------------------- MODULE MCEdges -------------------------------
(***************************************************************************)
(* Instances of Display, Cli and PacketCodec for TLC: what a leader shows, *)
(* what is typed at it, and the bytes it sends and hears.  They share no   *)
(* variable and no step: one of them runs, the others rest where they      *)
(* start.                                                                  *)
(***************************************************************************)
EXTENDS Display, Cli, PacketCodec

VARIABLE part       \* the part that runs

vars == <<part, displayVars, cliVars, buf>>

EdgesInit ==
    /\ part \in {"display", "console", "codec"}
    /\ DisplayInit /\ CliInit /\ CodecInit

EdgesNext ==
    /\ UNCHANGED part
    /\ \/ part = "display" /\ DisplayNext /\ UNCHANGED <<cliVars, buf>>
       \/ part = "console" /\ CliNext /\ UNCHANGED <<displayVars, buf>>
       \/ part = "codec" /\ CodecNext /\ UNCHANGED <<displayVars, cliVars>>

EdgesSpec == EdgesInit /\ [][EdgesNext]_vars
-----------------------------------------------------------------------------
Numbers == [w \in {"0", "7"} |-> IF w = "0" THEN 0 ELSE 7]
(* sscanf reads the a of allow.                                             *)
Hexes == [w \in {"0", "7", "allow"} |-> IF w = "allow" THEN 10 ELSE Numbers[w]]

(* Two members come and go before anything is copied for the screen, whose  *)
(* task writes nothing that the rest reads; after that, one does, and for a *)
(* shorter time.                                                            *)
OneOnceCopied ==
    task.busy \/ recent \/ panel.event # NoEvent =>
        now < MaxNow - 1 /\ 2 \notin DOMAIN rec \cup DOMAIN noted /\ life[2] = "unheard"

(* Headers and path lengths are of every kind; the other bytes are small,   *)
(* and from the length of a body on they are its rest.                      *)
SmallAfterHeader ==
    \A i \in DOMAIN buf : IF i < 3 \/ i = 6 THEN TRUE
                          ELSE buf[i] \in IF i \in {3, 4, 5, 9, 10} THEN {0, 1} ELSE {0}

(* What does not fit a line, and a line behind another, are numbers or the  *)
(* word that does something by itself.                                      *)
PlainBehind ==
    \A i \in DOMAIN typed : i > Width \/ queue # << >> => typed[i] \in {"7", "leave"}

EdgesBound == OneOnceCopied /\ PlainBehind /\ SmallAfterHeader
=============================================================================
