----------------------------- MODULE SleClient -----------------------------
(***************************************************************************)
(* The SLE link client of a leader or a relay (sle_uart_client.c): it      *)
(* seeks peers that advertise, stops seeking to connect to one, keeps the  *)
(* table of its connections and who is at their other end, and drops the   *)
(* connections whose signal it can no longer read.  The SLE stack answers  *)
(* by callbacks, some of which may never come: it is the radio below.  The *)
(* exchange that makes a connection ready for packets is left out.         *)
(***************************************************************************)
EXTENDS Naturals, FiniteSets

CONSTANTS
    Conn,         \* the connection ids the stack hands out
    Peer,         \* the addresses that may advertise
    NoPeer,
    Id,           \* the member ids packets come from
    NoId,
    MaxConns,     \* SLE_UART_CLIENT_MAX_CON
    RssiLimit,    \* SLE_UART_RSSI_FAIL_RECOVER_THRESHOLD
    StopTimeout   \* SLE_UART_CONNECT_SEEK_STOP_TIMEOUT_MS, in scan intervals

ASSUME ClientAssumption ==
    /\ IsFiniteSet(Conn)
    /\ NoPeer \notin Peer /\ NoId \notin Id
    /\ MaxConns \in Nat \ {0} /\ RssiLimit \in Nat \ {0} /\ StopTimeout \in Nat \ {0}

VARIABLES
    table,        \* g_sle_uart_conns, by connection id
    client,       \* the seek flags
    radio         \* what the SLE stack is doing and still owes

clientVars == <<table, client, radio>>

(* sle_uart_client_conn_t.  A slot taken over from a packet has no address. *)
Slot == [up : BOOLEAN, peer : Peer \cup {NoPeer}, id : Id \cup {NoId},
         fails : 0 .. RssiLimit]
Free == [up |-> FALSE, peer |-> NoPeer, id |-> NoId, fails |-> 0]

(* seek: g_sle_uart_seek_active; stopping, stopAge: seek_stop_for_connect   *)
(* and the time since; remote: the address to connect; rescan:              *)
(* force_rescan_pending; recent: a scan began less than                     *)
(* SLE_UART_SCAN_RESTART_MIN_INTERVAL_MS ago.                               *)
Client == [seek : BOOLEAN, stopping : BOOLEAN, stopAge : 0 .. StopTimeout,
           remote : Peer \cup {NoPeer}, rescan : BOOLEAN, recent : BOOLEAN]

(* The stack: is it scanning, which callbacks does it owe, whom does it try *)
(* to connect, which links are there.                                       *)
Radio == [scan : BOOLEAN, owed : SUBSET {"enable", "enabled", "disabled"},
          dialled : SUBSET Peer, link : [Conn -> Peer \cup {NoPeer}]]

ClientTypeOK ==
    /\ table \in [Conn -> Slot]
    /\ client \in Client
    /\ radio \in Radio

Quiet == [seek |-> FALSE, stopping |-> FALSE, stopAge |-> 0, remote |-> NoPeer,
          rescan |-> FALSE, recent |-> FALSE]

ClientInit ==
    /\ table = [k \in Conn |-> Free]
    /\ client = Quiet
    /\ radio = [scan |-> FALSE, owed |-> {"enable"}, dialled |-> {},
                link |-> [k \in Conn |-> NoPeer]]
-----------------------------------------------------------------------------
(* Connections.                                                             *)

Up(t) == {k \in Conn : t[k].up}
Full(t) == Cardinality(Up(t)) >= MaxConns

(* sle_uart_client_alloc_conn: an id that is still in the table keeps its   *)
(* slot as it is.                                                           *)
CanHold(t, k) == t[k].up \/ ~Full(t)
Held(t, k) == IF t[k].up THEN t[k] ELSE [Free EXCEPT !.up = TRUE]

(* sle_uart_client_remove_conn                                              *)
Without(t, gone) == [k \in Conn |-> IF k \in gone THEN Free ELSE t[k]]

BindOnly(t, id, k) == [t EXCEPT ![k] = [Held(t, k) EXCEPT !.id = id]]

(* sle_uart_client_bind_member_conn on a held slot: no other connection     *)
(* keeps the member's id.                                                   *)
BindSlots(t, id, k) ==
    [j \in Conn |-> IF j = k THEN [Held(t, k) EXCEPT !.id = id]
                    ELSE IF t[j].up /\ t[j].id = id THEN [t[j] EXCEPT !.id = NoId]
                    ELSE t[j]]
-----------------------------------------------------------------------------
(* Seeking.  Each operator gives the ways it can end, for the client and    *)
(* the stack: every request to the stack may be refused.                    *)

Seeking(c, r) == [client |-> c, radio |-> r]

(* sle_uart_start_scan *)
StartScan(c, r, full) ==
    IF full \/ c.seek \/ c.recent THEN {Seeking(c, r)}
    ELSE {Seeking([c EXCEPT !.recent = TRUE, !.seek = TRUE],
                  [r EXCEPT !.scan = TRUE, !.owed = @ \cup {"enabled"}]),
          Seeking([c EXCEPT !.recent = TRUE], r)}

StopAccepted(r) == [r EXCEPT !.scan = FALSE, !.owed = @ \cup {"disabled"}]

(* sle_uart_client_connect_pending_remote *)
ConnectPending(c, r, full) ==
    LET idle == [c EXCEPT !.stopping = FALSE, !.stopAge = 0, !.seek = FALSE,
                          !.recent = FALSE, !.rescan = FALSE]
    IN  {Seeking(idle, [r EXCEPT !.dialled = @ \cup {c.remote}])}
        \cup StartScan(idle, r, full)

ForceRescanPatient(c, r, full) ==
    LET free == [c EXCEPT !.recent = FALSE]
    IN  IF full THEN {Seeking(c, r)}
        ELSE IF c.stopping THEN {Seeking(free, r)}
        ELSE IF c.seek
        THEN {Seeking([free EXCEPT !.rescan = TRUE], StopAccepted(r)),
              Seeking([free EXCEPT !.rescan = TRUE], r)}
        ELSE StartScan(free, r, full)

(* sle_uart_client_force_rescan *)
ForceRescan(c, r, full) ==
    LET free == [c EXCEPT !.recent = FALSE]
    IN  IF full THEN {Seeking(c, r)}
        ELSE IF c.stopping THEN {Seeking(free, r)}
        ELSE IF c.seek
        THEN {Seeking([free EXCEPT !.rescan = TRUE], StopAccepted(r))}
             \cup StartScan([free EXCEPT !.seek = FALSE, !.rescan = FALSE], r, full)
        ELSE StartScan(free, r, full)

Become(outcomes) == \E s \in outcomes : client' = s.client /\ radio' = s.radio
Answered(callback) == [radio EXCEPT !.owed = @ \ {callback}]

(* sle_uart_client_sample_sle_enable_cbk; when enable_sle itself fails,     *)
(* sle_uart_client_init goes on with a scan.                                *)
Enabled(ok) ==
    /\ "enable" \in radio.owed
    /\ LET idle == [client EXCEPT !.seek = FALSE, !.stopping = FALSE, !.stopAge = 0,
                                  !.rescan = FALSE]
       IN  IF ok THEN Become(StartScan([idle EXCEPT !.recent = FALSE], Answered("enable"),
                                       Full(table)))
           ELSE \/ client' = idle /\ radio' = Answered("enable")
                \/ Become(StartScan(client, Answered("enable"), Full(table)))
    /\ UNCHANGED table

(* sle_uart_client_sample_seek_enable_cbk *)
SeekEnabled(ok) ==
    /\ "enabled" \in radio.owed
    /\ client' = [client EXCEPT !.seek = ok, !.recent = @ \/ ok]
    /\ radio' = [Answered("enabled") EXCEPT !.scan = @ /\ ok]
    /\ UNCHANGED table

(* sle_uart_client_sample_seek_result_info_cbk for a peer whose name and    *)
(* whose seek filter say passes.  Results may still come in after a stop.   *)
SeekResult(p, passes) ==
    LET heard == [client EXCEPT !.recent = TRUE]
        chosen == [heard EXCEPT !.remote = p, !.stopping = TRUE, !.stopAge = 0]
    IN  /\ radio.scan \/ "disabled" \in radio.owed
        /\ IF ~passes \/ Full(table) \/ client.stopping \/ \E k \in Up(table) : table[k].peer = p
           THEN client' = heard /\ radio' = radio
           ELSE Become({Seeking(chosen, StopAccepted(radio))}
                       \cup ConnectPending(chosen, radio, Full(table)))
        /\ UNCHANGED table

(* sle_uart_client_sample_seek_disable_cbk; its status changes nothing.     *)
SeekDisabled ==
    LET idle == [client EXCEPT !.seek = FALSE, !.recent = FALSE]
    IN  /\ "disabled" \in radio.owed
        /\ IF client.stopping
           THEN Become(ConnectPending(idle, Answered("disabled"), Full(table)))
           ELSE IF client.rescan
           THEN Become(StartScan([idle EXCEPT !.rescan = FALSE, !.stopAge = 0],
                                 Answered("disabled"), Full(table)))
           ELSE client' = [idle EXCEPT !.stopAge = 0] /\ radio' = Answered("disabled")
        /\ UNCHANGED table

(* The stack forgets a callback.                                            *)
CallbackLost(callback) ==
    /\ callback \in radio.owed \ {"enable"}
    /\ radio' = Answered(callback)
    /\ UNCHANGED <<table, client>>

(* sle_uart_client_tick: a stop that is not confirmed in time.              *)
StopOverdueIdle(c) == c.stopping /\ ~c.seek /\ c.stopAge >= StopTimeout
StopOverdue(c) == c.stopping /\ c.stopAge >= StopTimeout

Tick ==
    /\ StopOverdue(client)
    /\ Become(ConnectPending(client, radio, Full(table)))
    /\ UNCHANGED table

(* team_leader_rescan_if_needed, and the relay's rescan for children.       *)
Rescan ==
    /\ Become(ForceRescan(client, radio, Full(table)))
    /\ UNCHANGED table
-----------------------------------------------------------------------------
(* Links.                                                                   *)

(* sle_uart_client_handle_connect_state_changed, connected; a full table    *)
(* has the stack disconnect the link again.                                 *)
Connected(k, p) ==
    LET r == [radio EXCEPT !.dialled = @ \ {p}, !.link[k] = p]
    IN  /\ p \in radio.dialled /\ radio.link[k] = NoPeer
        /\ \A j \in Conn : radio.link[j] # p
        /\ IF CanHold(table, k)
           THEN /\ table' = [table EXCEPT ![k] = [Held(table, k) EXCEPT !.peer = p]]
                /\ client' = [client EXCEPT !.recent = FALSE]
                /\ radio' = r
           ELSE radio' = r /\ UNCHANGED <<table, client>>

(* The same, disconnected (or none, for a connection that never came up).   *)
Disconnected(k) ==
    /\ radio.link[k] # NoPeer
    /\ table' = Without(table, {k})
    /\ Become(StartScan(client, [radio EXCEPT !.link[k] = NoPeer],
                        Full(table')))

DialFailed(p, reported) ==
    LET r == [radio EXCEPT !.dialled = @ \ {p}]
    IN  /\ p \in radio.dialled
        /\ IF reported THEN Become(StartScan(client, r, Full(table)))
                       ELSE client' = client /\ radio' = r
        /\ UNCHANGED table

(* A link goes and nobody is told: its slot stays, a ghost.                 *)
LinkLost(k) ==
    /\ radio.link[k] # NoPeer
    /\ radio' = [radio EXCEPT !.link[k] = NoPeer]
    /\ UNCHANGED <<table, client>>

(* sle_uart_client_bind_member_conn, for a packet of id that came in on k:  *)
(* a connection the table had lost is taken back.                           *)
Bind(id, k) ==
    /\ radio.link[k] # NoPeer
    /\ CanHold(table, k)
    /\ table' = BindSlots(table, id, k)
    /\ UNCHANGED <<client, radio>>

AfterRssiAnyAccepted(t, accepted) ==
    [k \in Conn |-> IF ~t[k].up THEN t[k]
                    ELSE IF accepted # {} THEN [t[k] EXCEPT !.fails = 0]
                    ELSE [t[k] EXCEPT !.fails = IF @ < RssiLimit THEN @ + 1 ELSE @]]

(* sle_uart_client_read_remote_rssi, for the connections the stack accepts  *)
(* to read.  It cannot read a link that is gone.                            *)
AfterRssi(t, accepted) ==
    [k \in Conn |-> IF ~t[k].up THEN t[k]
                    ELSE IF k \in accepted THEN [t[k] EXCEPT !.fails = 0]
                    ELSE [t[k] EXCEPT !.fails = IF @ < RssiLimit THEN @ + 1 ELSE @]]

ReadRssi ==
    \E accepted \in SUBSET {k \in Up(table) : radio.link[k] # NoPeer} :
        LET read == AfterRssi(table, accepted)
            stale == {k \in Up(read) \ accepted : read[k].fails >= RssiLimit}
        IN  /\ Up(table) # {}
            /\ table' = Without(read, stale)
            /\ IF stale = {} THEN UNCHANGED <<client, radio>>
               ELSE Become(StartScan(client, radio, Full(table')))

(* sle_uart_client_handle_read_rssi *)
RssiAnswer(k, ok) ==
    /\ radio.link[k] # NoPeer /\ table[k].up
    /\ table' = [table EXCEPT ![k].fails = IF ok THEN 0 ELSE IF @ < RssiLimit THEN @ + 1 ELSE @]
    /\ UNCHANGED <<client, radio>>

(* SLE_UART_SCAN_RESTART_MIN_INTERVAL_MS pass.                              *)
Interval ==
    /\ client' = [client EXCEPT !.recent = FALSE,
                                !.stopAge = IF client.stopping /\ @ < StopTimeout THEN @ + 1 ELSE @]
    /\ UNCHANGED <<table, radio>>
-----------------------------------------------------------------------------
SeekCallback ==
    \/ \E ok \in BOOLEAN : Enabled(ok) \/ SeekEnabled(ok)
    \/ \E p \in Peer, passes \in BOOLEAN : SeekResult(p, passes)
    \/ SeekDisabled
    \/ \E callback \in {"enabled", "disabled"} : CallbackLost(callback)

LinkCallback ==
    \/ \E k \in Conn : Disconnected(k) \/ LinkLost(k)
    \/ \E k \in Conn, p \in Peer : Connected(k, p)
    \/ \E p \in Peer, reported \in BOOLEAN : DialFailed(p, reported)
    \/ \E k \in Conn, ok \in BOOLEAN : RssiAnswer(k, ok)
    \/ \E k \in Conn, id \in Id : Bind(id, k)

ClientNext == SeekCallback \/ LinkCallback \/ Tick \/ Rescan \/ ReadRssi \/ Interval

ClientSpec == ClientInit /\ [][ClientNext]_clientVars

(* The main loop ticks, rescans and reads the signal for ever, and a stack  *)
(* that is asked to scan again and again once does.                         *)
ClientFairness ==
    /\ WF_clientVars(Interval) /\ WF_clientVars(Tick)
    /\ WF_clientVars(Rescan) /\ SF_clientVars(Rescan /\ radio'.scan)
    /\ WF_clientVars(ReadRssi)

FairClientSpec == ClientSpec /\ ClientFairness
-----------------------------------------------------------------------------
(* A member is reached over one connection at most, however often it comes  *)
(* back on a new one while the old is still in the table                    *)
(* (sle_uart_client_find_conn_by_member takes the first it finds).          *)
OneConnPerMember ==
    \A j, k \in Up(table) : table[j].id = table[k].id /\ table[j].id # NoId => j = k

(* What holds of the table in every state. *)
ClientSafety == ClientTypeOK /\ OneConnPerMember

(* A peer that was chosen is dialled, or given up for a new scan, even if   *)
(* the stack never confirms that it stopped seeking.                        *)
ChosenIsDialled == client.stopping ~> ~client.stopping

(* A client with room for a connection and none left is scanning on air     *)
(* before long, whatever the flags say of the stack.                        *)
Searches == (Up(table) = {}) ~> (radio.scan \/ Up(table) # {})

(* A slot whose link is gone is not kept for ever: the signal readings that *)
(* fail remove it (the comment of team_request_sle_rssi counts on it).      *)
Ghost(k) == table[k].up /\ radio.link[k] = NoPeer
GhostsGoAway == \A k \in Conn : Ghost(k) ~> ~Ghost(k)
=============================================================================
