---------------------------- MODULE RelayForward ----------------------------
(***************************************************************************)
(* Packets on their way through the leader, its relays and their members,  *)
(* and the two tables each of them forwards by: the member bound to every  *)
(* downstream connection, and the routes.  Whether a node is a relay, and  *)
(* which links there are, is decided elsewhere: TeamMember, LeaderRoutes   *)
(* and SleClient have that.                                                *)
(***************************************************************************)
EXTENDS Naturals, Sequences, FiniteSets

CONSTANTS
    Member, Relay,      \* ids of members, and of those that may be relays
    Link,               \* the <<parent, child>> pairs that can be in range
    TTL,                \* cfg.default_ttl
    MaxParents,         \* upstream links a node holds at once
    Kinds,              \* the packets that members and the leader send
    BodyKept,           \* a returned function's stack is not written before it is read
    Budget              \* bound: packets that are not answers

Leader == 0
None == 255
Node == Member \cup {Leader}
Control == {"hello", "ack", "route"}

ASSUME ForwardAssumption ==
    /\ IsFiniteSet(Member) /\ Relay \subseteq Member /\ Member \cap {Leader, None} = {}
    /\ Link \subseteq (Relay \cup {Leader}) \X Member /\ \A l \in Link : l[1] # l[2]
    /\ {TTL, MaxParents, Budget} \subseteq Nat \ {0}
    /\ Kinds \subseteq {"hello", "route", "report", "config", "beat"}
    /\ BodyKept \in BOOLEAN

VARIABLES
    up,         \* the links that are connected
    air,        \* per link and direction, the packets not yet handled
    bound,      \* per connected link, the member its parent bound it to
    route,      \* per forwarding node, g_team_routes of dir DOWNSTREAM
    mode,       \* per relay, what it carries for others
    waiting,    \* not in the code: members that heard no answer since they asked
    left,       \* packets that may still be sent: Budget at the start
    calm        \* not in the code: links and relays stay as they are from now on

forwardVars == <<up, air, bound, route, mode, waiting, left, calm>>

(* What a relay carries: everything; control packets only, because it is    *)
(* hidden or has lost its leader; nothing down yet, because it was set up   *)
(* anew and its client is not started; nothing.                             *)
Mode == {"relay", "control", "unstarted", "plain"}
Packet == [kind : Kinds \cup {"ack"}, src : Node, dst : Node \cup {None}, ttl : 1 .. TTL, claim : Node]
Ways == {"up", "down"}
NoRoute == [conn |-> None, next |-> None]

ForwardTypeOK ==
    /\ up \subseteq Link
    /\ air \in [up \X Ways -> Seq(Packet)]
    /\ bound \in [up -> Node \cup {None}]
    /\ route \in [Relay \cup {Leader} -> [Node -> [conn : Member \cup {None}, next : Node \cup {None}]]]
    /\ mode \in [Relay -> Mode]
    /\ waiting \subseteq Member
    /\ left \in 0 .. Budget
    /\ calm \in BOOLEAN

Parents(n) == {p \in Node : <<p, n>> \in up}
Children(n) == {c \in Member : <<n, c>> \in up}

ForwardInit ==
    /\ up = {}
    /\ air = [w \in up \X Ways |-> << >>]
    /\ bound = [l \in up |-> None]
    /\ route = [n \in Relay \cup {Leader} |-> [d \in Node |-> NoRoute]]
    /\ mode = [r \in Relay |-> "relay"]
    /\ waiting = {}
    /\ left = Budget
    /\ calm = FALSE
-----------------------------------------------------------------------------
(* The connection a unicast goes down on.  A next hop that is not a direct  *)
(* peer of the packet's addressee is looked up among the bindings; so is    *)
(* the addressee, when its route gives no connection.                       *)
BoundTo(n, m) == {c \in Children(n) : m # None /\ bound[<<n, c>>] = m}
DirectPeer(n, d, hop) == hop \in {d, Leader, n}
ByRoute(n, d) ==
    LET r == route[n][d] IN
    IF r.conn = None THEN {}
    ELSE IF DirectPeer(n, d, r.next) THEN {r.conn} \cap Children(n)
    ELSE BoundTo(n, r.next)
Conns_RouteOnly(n, d) == ByRoute(n, d)
Conns(n, d) == IF ByRoute(n, d) # {} THEN ByRoute(n, d) ELSE BoundTo(n, d)

(* The next hop of a packet that came up from child c: the child, unless a  *)
(* ROUTE_UPDATE names it and the leader had that from the child itself.     *)
(* The name is read from the stack frame that team_decode_app_packet_from_- *)
(* buf has left: its own claim if nothing was written there, or anything.   *)
HopsOf(n, c, p) ==
    IF p.kind = "route" /\ (n # Leader \/ c = p.src)
      THEN IF BodyKept THEN {p.claim} ELSE Node
      ELSE {c}

(* What the packet teaches its parent n.  On the leader the connection      *)
(* belongs to the child itself, on a relay to the last speaker, which is    *)
(* bound to no other connection.                                            *)
Learned_KeepsOldBinding(n, c, p) ==
    /\ bound' = [bound EXCEPT ![<<n, c>>] = IF n = Leader THEN c ELSE p.src]
    /\ \E hop \in HopsOf(n, c, p) : route' = [route EXCEPT ![n][p.src] = [conn |-> c, next |-> hop]]
Learned(n, c, p) ==
    LET owner == IF n = Leader THEN c ELSE p.src
    IN  /\ bound' = [l \in up |->
                       IF l = <<n, c>> THEN owner
                       ELSE IF l[1] = n /\ bound[l] = owner THEN None ELSE bound[l]]
        /\ \E hop \in HopsOf(n, c, p) : route' = [route EXCEPT ![n][p.src] = [conn |-> c, next |-> hop]]

Taken(w) == [air EXCEPT ![w] = Tail(@)]
(* a with packet q added to the queues of ws *)
With(a, ws, q) == [w \in DOMAIN a |-> IF w \in ws THEN Append(a[w], q) ELSE a[w]]

Carries(r, p) == mode[r] \in {"relay", "unstarted"} \/ (mode[r] = "control" /\ p.kind \in Control)

(* The links to the parent a node sends its leader's packets to, or to all  *)
(* of them: TeamMember has the choice.                                      *)
Upstream(n) == {{<<<<q, n>>, "up">> : q \in qs} : qs \in {{q} : q \in Parents(n)} \cup {Parents(n)}}
Downstream(n, d) ==
    {<<<<n, c>>, "down">> : c \in IF d = None THEN Children(n) ELSE Conns(n, d)}
(* What is the leader's is always for a later bucket than the leader's own  *)
(* (team_route_bucket_from_ids): down, and the rest, for the leader, up.    *)
Onward(n, d) == {w \in Downstream(n, d) : mode[n] # "unstarted"}

(* A packet for others, once n has learnt from it: dropped when n may not   *)
(* carry it, when it is n's own, come back, or when its hops are used up.   *)
Passed_HopsNotCounted(a, n, p, ws) ==
    IF Carries(n, p) /\ p.src # n /\ p.ttl > 1 THEN With(a, ws, p) ELSE a
Passed(a, n, p, ws) ==
    IF Carries(n, p) /\ p.src # n /\ p.ttl > 1
      THEN With(a, ws, [p EXCEPT !.ttl = @ - 1]) ELSE a
-----------------------------------------------------------------------------
New(kind, src, dst, claim) ==
    [kind |-> kind, src |-> src, dst |-> dst, ttl |-> TTL, claim |-> claim]
Waits(m) == \E w \in DOMAIN air : \E i \in DOMAIN air[w] :
               \/ air[w][i].kind = "hello" /\ air[w][i].src = m
               \/ air[w][i].kind = "ack" /\ air[w][i].dst = m

(* A member sends to its leader; a ROUTE_UPDATE claims its parent, or the   *)
(* leader, whose packets its parent forwards.  Requests are seconds apart.  *)
MemberSends(m) ==
    /\ left > 0 /\ left' = left - 1 /\ Parents(m) # {}
    /\ \E kind \in Kinds \cap {"hello", "route", "report"},
          claim \in Parents(m) \cup {Leader}, ws \in Upstream(m) :
         /\ kind # "route" => claim = Leader
         /\ kind = "hello" => ~Waits(m)
         /\ air' = With(air, ws, New(kind, m, Leader, claim))
         /\ waiting' = IF kind = "hello" THEN waiting \cup {m} ELSE waiting
    /\ UNCHANGED <<up, bound, route, mode>>

LeaderSends ==
    /\ left > 0 /\ left' = left - 1
    /\ \E kind \in Kinds \cap {"config", "beat"}, d \in Member \cup {None} :
         /\ (kind = "beat") = (d = None)
         /\ air' = With(air, Downstream(Leader, d), New(kind, Leader, d, Leader))
    /\ UNCHANGED <<up, bound, route, mode, waiting>>

(* A packet from child c: the leader answers a HELLO over what it has just  *)
(* learnt, a relay passes it on.                                            *)
AtLeader(c) ==
    LET w == <<<<Leader, c>>, "up">> IN
    /\ w \in DOMAIN air /\ air[w] # << >>
    /\ UNCHANGED <<up, mode, waiting, left>>
    /\ \E p \in {Head(air[w])} :
         /\ Learned(Leader, c, p)
         /\ \E back \in {IF p.kind = "hello" THEN Downstream(Leader, p.src)' ELSE {}} :
              air' = With(Taken(w), back, New("ack", Leader, p.src, Leader))

GoesUp(n, c) ==
    LET w == <<<<n, c>>, "up">> IN
    /\ n \in Relay /\ w \in DOMAIN air /\ air[w] # << >>
    /\ LET p == Head(air[w]) IN
         /\ Learned(n, c, p)
         /\ \E ws \in Upstream(n) : air' = Passed(Taken(w), n, p, ws)
    /\ UNCHANGED <<up, mode, waiting, left>>

(* A packet from parent q: handled here when it is for this node, or passed *)
(* on; a broadcast both.                                                    *)
GoesDown(q, n) ==
    LET w == <<<<q, n>>, "down">> IN
    /\ w \in DOMAIN air /\ air[w] # << >>
    /\ LET p == Head(air[w]) IN
         /\ air' = IF p.dst = n \/ n \notin Relay THEN Taken(w)
                   ELSE Passed(Taken(w), n, p, Onward(n, p.dst))
         /\ waiting' = IF p.kind = "ack" /\ p.dst = n THEN waiting \ {n} ELSE waiting
    /\ UNCHANGED <<up, bound, route, mode, left>>
-----------------------------------------------------------------------------
LinkUp(l) ==
    /\ l \in Link \ up /\ Cardinality(Parents(l[2])) < MaxParents
    /\ up' = up \cup {l}
    /\ air' = [w \in up' \X Ways |-> IF w[1] = l THEN << >> ELSE air[w]]
    /\ bound' = [k \in up' |-> IF k = l THEN None ELSE bound[k]]
    /\ UNCHANGED <<route, mode, waiting, left>>

(* The routes over the link go, except those of a lost relay's members that *)
(* the leader keeps for their failover.                                     *)
LinkDown(l) ==
    /\ l \in up /\ up' = up \ {l}
    /\ air' = [w \in up' \X Ways |-> air[w]]
    /\ bound' = [k \in up' |-> bound[k]]
    /\ \E kept \in SUBSET {d \in Member : l[1] = Leader /\ route[Leader][d].conn = l[2]} :
         route' = [route EXCEPT ![l[1]] =
                     [d \in Node |-> IF @[d].conn = l[2] /\ d \notin kept THEN NoRoute ELSE @[d]]]
    /\ UNCHANGED <<mode, waiting, left>>

(* A relay is hidden, loses or finds its leader, is granted or revoked; a   *)
(* revoked one drops its children, whose links then go down one by one.     *)
(* One that left and is set up again may still have them.                   *)
SetMode(r, to) ==
    /\ mode[r] # to /\ mode' = [mode EXCEPT ![r] = to]
    /\ to = "unstarted" => mode[r] = "plain"
    /\ route' = CASE to = "plain" -> [route EXCEPT ![r] =
                        [d \in Node |-> IF @[d].conn \in Children(r) THEN NoRoute ELSE @[d]]]
                  [] to = "unstarted" -> [route EXCEPT ![r] = [d \in Node |-> NoRoute]]
                  [] OTHER -> route
    /\ UNCHANGED <<up, air, bound, waiting, left>>

Move ==
    /\ \/ \E m \in Member : MemberSends(m)
       \/ LeaderSends
       \/ \E c \in Member : AtLeader(c)
       \/ \E n \in Relay, c \in Member : GoesUp(n, c)
       \/ \E q \in Node, n \in Member : GoesDown(q, n)
    /\ UNCHANGED calm

(* A send fails, or the link loses it. *)
Lost(w) ==
    /\ air[w] # << >> /\ air' = Taken(w)
    /\ UNCHANGED <<up, bound, route, mode, waiting, left>>

Change ==
    /\ ~calm
    /\ \/ \E w \in DOMAIN air : Lost(w)
       \/ \E l \in Link : LinkUp(l) \/ LinkDown(l)
       \/ \E r \in Relay, to \in Mode : SetMode(r, to)
    /\ UNCHANGED calm

(* Every way up ends at the leader. *)
Rooted ==
    LET linked == {m \in Member : Parents(m) # {}}
    IN  \A some \in (SUBSET linked) \ {{}} :
          \E m \in some : Parents(m) \subseteq (linked \ some) \cup {Leader}

(* Whatever happened, and whatever it left in the tables, it is over. *)
Settle ==
    /\ calm = FALSE /\ calm' = TRUE
    /\ Rooted /\ \A r \in Relay : mode[r] = "relay"
    /\ waiting = {} /\ \A w \in DOMAIN air : air[w] = << >>
    /\ UNCHANGED <<up, air, bound, route, mode, waiting, left>>

Deliver ==
    /\ \A c \in Member : WF_forwardVars(AtLeader(c) /\ UNCHANGED calm)
    /\ \A n \in Relay, c \in Member : WF_forwardVars(GoesUp(n, c) /\ UNCHANGED calm)
    /\ \A q \in Node, n \in Member : WF_forwardVars(GoesDown(q, n) /\ UNCHANGED calm)

ForwardSpec == ForwardInit /\ [][Move \/ Change \/ Settle]_forwardVars /\ Deliver
-----------------------------------------------------------------------------
(* A relay replies the way it was spoken to: what is for the last member    *)
(* heard on a connection goes down that connection, though the child relay, *)
(* the next hop of the route, is no longer bound to it, whatever parent the *)
(* member claims, and whichever links came and went; unless the next hop    *)
(* was itself heard last on another connection.                             *)
ReplyGoesBack ==
    \A l \in up :
       LET n == l[1]
           d == bound[l]
           hop == route[n][d].next
       IN  n # Leader /\ d # None /\ (DirectPeer(n, d, hop) \/ BoundTo(n, hop) \subseteq {l[2]})
           => Conns(n, d) = {l[2]}

(* A node has at most one connection for a packet, also when a packet that  *)
(* a member sent over its old parent arrives after it moved: with two, the  *)
(* order of the slots would choose.                                         *)
OneWay == \A n \in Relay \cup {Leader}, d \in Member : Cardinality(Conns(n, d)) =< 1

(* What holds of bindings, routes and queues in every state.                *)
ForwardSafety == ForwardTypeOK /\ ReplyGoesBack /\ OneWay

(* Relays may be each other's parents: nothing compares their tiers when    *)
(* they connect.  Whatever is sent into such a circle dies out.             *)
PacketsEnd == <>[](\A w \in DOMAIN air : air[w] = << >>)

(* docs/v1/protocol.md:15-16: a packet with a next hop goes to the next     *)
(* hop; only one that is out of reach has no route.  A child relay is a     *)
(* next hop in reach while its link is up.                                  *)
NextHopIsUsed ==
    \A n \in Relay, d \in Member :
       LET r == route[n][d] IN r.conn \in Children(n) /\ r.next = r.conn => Conns(n, d) = {r.conn}

(* "Direct `ROUTE_UPDATE` packets can still use their body next-hop         *)
(* normally." (versions/v4.4.88/VERSION.md:39): the leader's route of a     *)
(* member that spoke for itself has the next hop the member named.          *)
BodyIsUsed ==
    [][\A c \in Member :
         LET w == <<<<Leader, c>>, "up">> IN
         AtLeader(c) /\ Head(air[w]).kind = "route" /\ Head(air[w]).src = c
         => route'[Leader][c].next = Head(air[w]).claim]_forwardVars

(* In calm, with one parent each, no relay behind a relay or a single       *)
(* member behind such a one, and bodies read as they were sent, the mesh is *)
(* a channel that answers every request: the leader's ACK finds the way the *)
(* HELLO came.                                                              *)
stageBar == [m \in Member |->
    IF ~calm THEN "idle"
    ELSE IF \E w \in DOMAIN air : \E i \in DOMAIN air[w] : air[w][i].kind = "hello" /\ air[w][i].src = m
      THEN "asked" ELSE IF m \in waiting THEN "answered" ELSE "idle"]
Channel == INSTANCE MeshChannel WITH stage <- stageBar
MeshImplementsChannel == Channel!ChannelSpec
=============================================================================
