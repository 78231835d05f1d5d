--------------------------------- MODULE Cli ---------------------------------
(***************************************************************************)
(* The serial console: characters are gathered into lines by the UART's    *)
(* callback, lines wait in a queue for the main loop, and the main loop    *)
(* makes of each what the board and the node are asked to do.  A line is a *)
(* sequence of words, with room for Width of them; what the node does when *)
(* asked is TeamLeader's and TeamMember's, what is saved RoleConfig's.     *)
(***************************************************************************)
EXTENDS Integers, Sequences, FiniteSets

CONSTANTS
    Word,       \* the words that are typed
    Number,     \* the value of those that are numbers
    Hex,        \* the value of those sscanf("%x") reads: a hexadecimal digit is enough
    Width,      \* words the line buffer holds
    MaxArgs,    \* words sle_team_cli_handle_line looks at
    QueueLen,   \* SLE_TEAM_CLI_QUEUE_LEN
    MaxMembers, \* SLE_TEAM_MAX_MEMBERS
    Errors,     \* whether the UART may report errors
    Budget      \* bound: words and line ends that are typed

ASSUME CliAssumption ==
    /\ DOMAIN Number \subseteq Word /\ \A w \in DOMAIN Number : Number[w] \in Int
    /\ DOMAIN Hex \subseteq Word /\ \A w \in DOMAIN Hex : Hex[w] \in Nat
    /\ {Width, MaxArgs, QueueLen, MaxMembers} \subseteq Nat \ {0}
    /\ Errors \in BOOLEAN /\ Budget \in Nat

VARIABLES
    line,       \* line_buf up to line_len
    queue,      \* the lines in cli_queue_id
    role,       \* "none" while role_configured is 0, or the node's role
    saved,      \* the role in flash, or "none" if what is there would not be loaded
    asked,      \* what the line handled last asked for
    typed,      \* not in the code: the words received since the last line end
    clean,      \* not in the code: nothing else was typed since then
    left        \* what may still be typed

cliVars == <<line, queue, role, saved, asked, typed, clean, left>>

Id == 1 .. 254
Roles == {"leader", "member"}
Message == [words : Seq(Word), typed : Seq(Word), clean : BOOLEAN]

CliTypeOK ==
    /\ line \in Seq(Word) /\ Len(line) =< Width
    /\ queue \in Seq(Message) /\ Len(queue) =< QueueLen
    /\ role \in {"none"} \cup Roles /\ saved \in {"none"} \cup Roles
    /\ DOMAIN asked \subseteq {"op", "dst", "ids", "words"} /\ {"op", "words"} \subseteq DOMAIN asked
    /\ typed \in Seq(Word) /\ clean \in BOOLEAN /\ left \in 0 .. Budget

Nothing == [op |-> "nothing", words |-> << >>]

CliInit ==
    /\ line = << >> /\ queue = << >>
    /\ role = "none" /\ saved = "none"
    /\ asked = Nothing
    /\ typed = << >> /\ clean = TRUE
    /\ left = Budget
-----------------------------------------------------------------------------
Room(l) == Len(l) < Width

(* team_uart_rx_cb: a word that does not fit drops what came before it, and *)
(* the rest of the line starts a new one.                                   *)
Receive(w) ==
    /\ left > 0 /\ left' = left - 1
    /\ line' = IF Room(line) THEN Append(line, w) ELSE << >>
    /\ typed' = Append(typed, w)
    /\ UNCHANGED <<queue, role, saved, asked, clean>>

NeverRestarted(l) == l
Restarted(l) == << >>

(* The end of a line: team_cli_enqueue_line; a full queue drops it.         *)
ReceiveEnd ==
    /\ left > 0 /\ left' = left - 1
    /\ line' = Restarted(line)
    /\ queue' = IF line = << >> \/ Len(queue) = QueueLen THEN queue
                ELSE Append(queue, [words |-> line, typed |-> typed, clean |-> clean])
    /\ typed' = << >> /\ clean' = TRUE
    /\ UNCHANGED <<role, saved, asked>>

(* Characters, perhaps a line end, that the UART reports as an error are    *)
(* not looked at.                                                           *)
ReceiveError ==
    /\ Errors /\ left > 0 /\ left' = left - 1
    /\ clean' = FALSE
    /\ UNCHANGED <<line, queue, role, saved, asked, typed>>
-----------------------------------------------------------------------------
(* The ranges of numbers; a free one is bounded by its type.                *)
Unbounded == << >>
Short == <<0, 65535>>
Octet == <<0, 255>>
Percent == <<0, 100>>

(* parse_u32 and parse_i32                                                  *)
Parses(w, lo, hi) == w \in DOMAIN Number /\ Number[w] >= lo /\ Number[w] =< hi
ParsesAs(w, range) == IF range = Unbounded THEN w \in DOMAIN Number ELSE Parses(w, range[1], range[2])

ParsesId(w) == Parses(w, 1, 254)
(* strtoul into a byte: no number is 0, a large one is cut.                 *)
ByteOf(w) == IF w \in DOMAIN Number THEN Number[w] % 256 ELSE 0

Ask(op, words) == [op |-> op, words |-> words]
Usage(words) == Ask("usage", words)
AskIds(op, words, ids) == [op |-> op, words |-> words, ids |-> ids]

(* hello and config take an address or none.                                *)
SendPlain(op, words) ==
    IF Len(words) >= 2 THEN [op |-> op, words |-> words, dst |-> ByteOf(words[2])] ELSE Ask(op, words)

(* hb, pos, alert and ack: the ranges of their numbers, the address first.  *)
Fields(op) ==
    CASE op = "hb" -> <<Octet, Percent, <<-128, 127>>, Octet>>
      [] op = "pos" -> <<Octet, Unbounded, Unbounded, Short, Short, Percent, Octet, Octet>>
      [] op = "alert" -> <<Octet, Octet, Octet, Unbounded, Unbounded, Unbounded>>
      [] op = "ack" -> <<Octet, Short, Octet, Octet>>
SendFields(op, words) ==
    LET f == Fields(op) IN
    IF Len(words) < 1 + Len(f) THEN Usage(words)
    ELSE IF \A i \in DOMAIN f : ParsesAs(words[i + 1], f[i])
         THEN [op |-> op, words |-> words, dst |-> Number[words[2]]]
         ELSE Ask("bad number", words)

Allow(words, ws) ==
    IF Len(ws) = 1 THEN Ask("show allowed", words)
    ELSE IF ws[2] = "all" THEN Ask("allow all", words)
    ELSE IF ws[2] = "only"
         THEN IF Len(ws) < 3 \/ Len(ws) - 2 > MaxMembers THEN Usage(words)
              ELSE IF \A i \in 3 .. Len(ws) : ParsesId(ws[i])
                   THEN AskIds("allow only", words, {Number[ws[i]] : i \in 3 .. Len(ws)})
                   ELSE Ask("bad member id", words)
    ELSE IF ws[2] \in {"add", "del"} /\ Len(ws) >= 3 /\ ParsesId(ws[3])
         THEN AskIds(ws[2], words, {Number[ws[3]]})
    ELSE Usage(words)

Pairing(words, ws) ==
    IF Len(ws) < 2 \/ ws[2] = "pending" THEN Ask("show pending", words)
    ELSE IF ws[2] \in {"start", "stop"} THEN Ask("pairing", words)
    ELSE IF /\ ws[2] = "approve" /\ Len(ws) >= 3 /\ ParsesId(ws[3])
            /\ Len(ws) >= 4 => ws[4] \in {"relay", "norelay"}
         THEN AskIds("approve", words, {Number[ws[3]]})
    ELSE Usage(words)

Join(words, ws) ==
    IF Len(ws) >= 4 /\ ParsesId(ws[2]) /\ ParsesId(ws[3]) /\ Parses(ws[4], 0, 255)
    THEN AskIds("join", words, {Number[ws[3]]}) ELSE Usage(words)

(* sle_team_cli_handle_line                                                 *)
Args(words) == IF Len(words) > MaxArgs THEN SubSeq(words, 1, MaxArgs) ELSE words
NodeCommand(words) ==
    LET ws == Args(words)
        c == ws[1]
    IN  CASE c \in {"hello", "config"} -> SendPlain(c, ws)
          [] c \in {"hb", "pos", "alert", "ack"} -> SendFields(c, ws)
          [] c = "allow" -> Allow(words, ws)
          [] c = "pairing" -> Pairing(words, ws)
          [] c = "join" -> Join(words, ws)
          [] c \in {"help", "members", "state", "leave"} -> Ask(c, words)
          [] OTHER -> Ask("unknown", words)

(* team_handle_cli_queue_once: the board's own commands come first; they    *)
(* are the whole line, but for role member.  A role is saved even when      *)
(* there is one already, which stays until the board restarts; a member's   *)
(* with a leader's suffix of 0 is written and will not be loaded.           *)
RoleLine(words) ==
    \/ words = <<"role", "leader">>
    \/ Len(words) >= 3 /\ SubSeq(words, 1, 2) = <<"role", "member">>
RoleOf(words) ==
    IF words[2] = "leader" THEN "leader"
    ELSE IF words[3] \in DOMAIN Hex /\ Hex[words[3]] =< 65535 THEN "member" ELSE "none"
Loadable(words) == IF words[2] = "leader" \/ Hex[words[3]] # 0 THEN RoleOf(words) ELSE "none"

Handle ==
    /\ queue # << >> /\ queue' = Tail(queue)
    /\ LET words == Head(queue).words IN
         IF RoleLine(words)
           THEN IF RoleOf(words) = "none" THEN asked' = Usage(words) /\ UNCHANGED <<role, saved>>
                ELSE /\ asked' = Ask("role", words) /\ saved' = Loadable(words)
                     /\ role' = IF role = "none" THEN RoleOf(words) ELSE role
         ELSE IF words = <<"leave">> /\ role = "member"
           THEN asked' = Ask("leave", words) /\ role' = "none" /\ saved' = "none"
         ELSE /\ asked' = CASE words = <<"leave">> -> Ask("ignored", words)
                            [] words # <<"leave">> /\ role # "none" -> NodeCommand(words)
                            [] OTHER -> Ask("configure first", words)
              /\ UNCHANGED <<role, saved>>
    /\ UNCHANGED <<line, typed, clean, left>>

(* The board restarts, by a command or by itself: the role saved is         *)
(* restored.                                                                *)
Restart ==
    /\ left > 0 /\ left' = left - 1
    /\ line' = << >> /\ queue' = << >> /\ typed' = << >> /\ clean' = TRUE
    /\ role' = saved /\ asked' = Nothing /\ UNCHANGED saved
-----------------------------------------------------------------------------
CliNext ==
    \/ \E w \in Word : Receive(w)
    \/ ReceiveError
    \/ ReceiveEnd
    \/ Handle
    \/ Restart

CliSpec == CliInit /\ [][CliNext]_cliVars
-----------------------------------------------------------------------------
(* A line that fits and was received without an error is what is executed,  *)
(* whatever lines, too long or garbled, came before it.                     *)
GoodLinesWhole ==
    \A i \in DOMAIN queue : queue[i].clean /\ Len(queue[i].typed) =< Width => queue[i].words = queue[i].typed

(* allow, approve and join hand the node no number that is not a member's   *)
(* id.  hello and config cast their address and check nothing               *)
(* (sle_team_cli.c:194, 271); hb, pos, alert and ack take any byte.         *)
IdsAreIds == "ids" \in DOMAIN asked => asked.ids \subseteq Id

(* What holds of the queue and of what is asked of the node.                *)
CliSafety == CliTypeOK /\ GoodLinesWhole /\ IdsAreIds

(* "cli line too long, dropped" (ws63_team_network_app.c:7904): nothing of  *)
(* such a line is executed.                                                 *)
LongLinesDropped == \A i \in DOMAIN queue : Len(queue[i].typed) =< Width

(* "usage: allow only <id...>" (sle_team_cli.c:335): the list the node is   *)
(* given is the one on the line.                                            *)
AllowTakesAll ==
    asked.op = "allow only" =>
        asked.ids = {Number[w] : w \in DOMAIN Number \cap {asked.words[i] : i \in 3 .. Len(asked.words)}}

(* "Manual `leave` still clears saved config"                               *)
(* (versions/v4.4.47/VERSION.md:25).                                        *)
LeaveClears == asked.op = "leave" /\ role # "leader" => saved = "none"
=============================================================================
