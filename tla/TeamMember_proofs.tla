------------------------- MODULE TeamMember_proofs -------------------------
(***************************************************************************)
(* What TeamMember guarantees of every device, for any number of relays and *)
(* any time-outs.  Sound collects what is proved of one node; each operator *)
(* on nodes preserves it, so every action does.                             *)
(***************************************************************************)
EXTENDS TeamMember, TLAPS

Sound(n) == n \in MemberState /\ Consistent(n) /\ Armed(n)

Running(n) == Sound(n) /\ n.net # "IDLE"

(* The ages a device counts stay within the range of their counters.        *)
LEMMA Ages ==
    /\ Never \in SilenceAge /\ 0 \in SilenceAge
    /\ Never \in ParentAge /\ 0 \in ParentAge
    /\ 0 \in 0 .. HelloInterval /\ HelloInterval \in 0 .. HelloInterval
    /\ 0 \in 0 .. BeatInterval /\ BeatInterval \in 0 .. BeatInterval
    /\ Never # 0
    /\ \A a \in SilenceAge : /\ Ageing(a, LeaderTimeout + 1) \in SilenceAge
                             /\ Ageing(a, LeaderTimeout + 1) = Never <=> a = Never
    /\ \A a \in ParentAge : /\ Ageing(a, ParentTimeout + 1) \in ParentAge
                            /\ Ageing(a, ParentTimeout + 1) = Never <=> a = Never
    /\ \A a \in 0 .. HelloInterval : Ageing(a, HelloInterval) \in 0 .. HelloInterval
    /\ \A a \in 0 .. BeatInterval : Ageing(a, BeatInterval) \in 0 .. BeatInterval
  BY MemberAssumption DEF Never, SilenceAge, ParentAge, Ageing

(* A device that has just come up, or just been made a member, is sound.    *)
LEMMA Starts ==
    /\ Sound(Unconfigured)
    /\ Running(Selected)
    /\ Running(Configured)
  BY Ages DEF Sound, Running, Unconfigured, Selected, Configured, MemberState, Consistent, Armed

(* Noting which node a connection leads to leaves the rest consistent.      *)
LEMMA NoteParentSound ==
    ASSUME NEW n, Sound(n), NEW p \in Node \cup {NoNode}
    PROVE  /\ Sound(NoteParent(n, p))
           /\ NoteParent(n, p).net = n.net
           /\ NoteParent(n, p).joined = n.joined
  BY Ages DEF Sound, NoteParent, MemberState, Consistent, Armed

(* Forgetting the parent and the target leaves the device consistent.       *)
LEMMA ResetParentSound ==
    ASSUME NEW n, Sound(n)
    PROVE  Sound(ResetParent(n)) /\ ResetParent(n).net = n.net
  BY DEF Sound, ResetParent, MemberState, Consistent, Armed

(* A watchdog that fires leaves a device that runs and is not joined.       *)
LEMMA RecoverSound ==
    ASSUME NEW n, Running(n)
    PROVE  Running(Recover(n)) /\ ~Recover(n).joined
  BY Ages DEF Sound, Running, Recover, TimersCleared, SetParent, MemberState, Consistent, Armed

(* Turning to another parent leaves the device consistent.                  *)
LEMMA SwitchParentSound ==
    ASSUME NEW n, Running(n), CanSwitch(n), NEW told \in BOOLEAN
    PROVE  Running(SwitchParent(n, told))
  BY Ages DEF Sound, Running, SwitchParent, CanSwitch, SetParent, IsRelay, MemberState, Consistent,
              Armed

(* A refused upstream send leaves membership and parent as they were.       *)
LEMMA PrepareRetrySound ==
    ASSUME NEW n, Running(n)
    PROVE  /\ Running(PrepareRetry(n)) /\ PrepareRetry(n).joined = n.joined
           /\ PrepareRetry(n).parent = n.parent
  BY Ages DEF Sound, Running, PrepareRetry, ResetParent, MemberState, Consistent, Armed

(* However the transport answers, membership and parent stay.               *)
LEMMA AfterSendSound ==
    ASSUME NEW n, Running(n), NEW tracks, NEW accepted, NEW sentBy \in AfterSend(n, tracks, accepted)
    PROVE  Running(sentBy) /\ sentBy.joined = n.joined /\ sentBy.parent = n.parent
  BY PrepareRetrySound DEF AfterSend
-----------------------------------------------------------------------------
(* Packets.                                                                 *)

(* What a member reads from each kind of packet its leader sends.           *)
LEMMA DownwardFacts ==
    ASSUME NEW p \in Downward
    PROVE  /\ p.type \in {"ACK", "CONFIG", "ROUTE_UPDATE", "HEARTBEAT", "ALERT"}
           /\ p.type = "CONFIG" => /\ p.grant \in BOOLEAN /\ p.hidden \in BOOLEAN
                                   /\ p.hidden => p.grant
           /\ p.type = "ROUTE_UPDATE" => p.parent \in Node /\ p.reselect \in BOOLEAN
  BY DEF Downward, ToMember, HelloAck, Config, RouteUpdate, Heartbeat, Alert

(* Connecting to a node sets the parent as noting it does.                  *)
LEMMA SetParentConnects ==
    ASSUME NEW n, NEW p \in Node
    PROVE  SetParent(n, p, "CONNECTED", FALSE) = NoteParent(n, p)
  BY NodesAssumption DEF SetParent, NoteParent, Node

(* A member without a parent reports its leader as its next hop.            *)
LEMMA ParentOrLeader ==
    ASSUME NEW n, Sound(n)
    PROVE  (IF n.parent = NoNode THEN Leader ELSE n.parent) \in Node
  BY DEF Sound, MemberState, Node

(* CONFIG changes the grant, never whether the device is joined.            *)
LEMMA OnConfigSound ==
    ASSUME NEW n, Running(n), NEW p \in Downward, p.type = "CONFIG"
    PROVE  Running(OnConfig(n, p)) /\ OnConfig(n, p).joined = n.joined
<1> DEFINE told == [n EXCEPT !.granted = p.grant, !.hidden = p.hidden,
                             !.enabled = n.joined /\ p.grant, !.heard = 0]
           parent == IF n.parent = NoNode THEN Leader ELSE n.parent
<1>1. p.grant \in BOOLEAN /\ p.hidden \in BOOLEAN /\ (p.hidden => p.grant)
  BY DownwardFacts
<1>2. n.joined \in BOOLEAN /\ (n.joined /\ p.grant) \in BOOLEAN
  BY <1>1 DEF Running, Sound, MemberState
<1>3. Running(told) /\ told.joined = n.joined
  <2>1. told \in MemberState
    BY <1>1, <1>2, Ages DEF Running, Sound, MemberState
  <2>2. /\ told.net = n.net /\ told.joined = n.joined /\ told.leader = n.leader
        /\ told.heard # Never /\ told.parent = n.parent /\ told.parentAge = n.parentAge
        /\ told.granted = p.grant /\ told.hidden = p.hidden
        /\ told.enabled <=> n.joined /\ p.grant
    BY Ages DEF Running, Sound, MemberState
  <2>3. n.net # "IDLE" /\ Consistent(n) /\ Armed(n)
    BY DEF Running, Sound
  <2> QED
    BY <2>1, <2>2, <2>3, <1>1 DEF Running, Sound, Consistent, Armed
<1>4. CASE HasTarget(n)
  BY <1>3, <1>4 DEF OnConfig
<1>5. CASE ~HasTarget(n)
  <2>1. parent \in Node
    BY ParentOrLeader DEF Running
  <2>2. OnConfig(n, p) = [NoteParent(told, parent) EXCEPT !.parentAge = 0]
    BY <1>5, <2>1, SetParentConnects DEF OnConfig
  <2> HIDE DEF told, parent
  <2>3. Running(NoteParent(told, parent)) /\ NoteParent(told, parent).joined = n.joined
    BY <1>3, <2>1, NoteParentSound DEF Running
  <2> QED
    BY <2>2, <2>3, Ages DEF Running, Sound, MemberState, Consistent, Armed
<1> QED
  BY <1>4, <1>5

(* ACK joins a member with no target, and only such a member.               *)
LEMMA OnAckSound ==
    ASSUME NEW n, Running(n)
    PROVE  /\ Running(OnAck(n))
           /\ ~HasTarget(n) => OnAck(n).parent = IF n.parent = NoNode THEN Leader ELSE n.parent
           /\ HasTarget(n) => OnAck(n).joined = n.joined
<1>1. CASE HasTarget(n)
  <2>1. OnAck(n) = [n EXCEPT !.heard = 0]
    BY <1>1 DEF OnAck
  <2> QED
    BY <1>1, <2>1, Ages DEF Running, Sound, MemberState, Consistent, Armed
<1>2. CASE ~HasTarget(n)
  <2> DEFINE parent == IF n.parent = NoNode THEN Leader ELSE n.parent
             k == NoteParent(n, parent)
  <2>1. parent \in Node
    BY ParentOrLeader DEF Running
  <2>2. OnAck(n) = [k EXCEPT !.joined = TRUE, !.net = "ONLINE", !.enabled = n.granted,
                             !.heard = 0, !.parentAge = 0]
    BY <1>2, <2>1, SetParentConnects DEF OnAck, AckUnguarded
  <2>3. Sound(k) /\ k.net # "IDLE"
    BY <2>1, NoteParentSound DEF Running
  <2>4. k.granted = n.granted /\ k.parent = parent
    BY DEF NoteParent, Running, Sound, MemberState
  <2> HIDE DEF k, parent
  <2>5. OnAck(n) \in MemberState
    <3>1. n.granted \in BOOLEAN
      BY DEF Running, Sound, MemberState
    <3>2. k \in MemberState
      BY <2>3 DEF Sound
    <3> QED
      BY <2>2, <3>1, <3>2, Ages DEF MemberState
  <2>6. /\ OnAck(n).joined = TRUE /\ OnAck(n).net = "ONLINE" /\ OnAck(n).heard = 0
        /\ OnAck(n).enabled = n.granted /\ OnAck(n).parentAge = 0
        /\ OnAck(n).granted = k.granted /\ OnAck(n).hidden = k.hidden
        /\ OnAck(n).parent = k.parent
    BY <2>2, <2>3 DEF Sound, MemberState
  <2>7. Consistent(OnAck(n)) /\ Armed(OnAck(n))
    BY <2>3, <2>4, <2>6, Ages DEF Sound, Consistent, Armed
  <2>8. Running(OnAck(n)) /\ OnAck(n).parent = parent
    BY <2>4, <2>5, <2>6, <2>7 DEF Running, Sound
  <2> USE DEF parent
  <2> QED
    BY <1>2, <2>8
<1> QED
  BY <1>1, <1>2

(* ROUTE_UPDATE may make a member leave its parent, never join.             *)
LEMMA OnRouteUpdateSound ==
    ASSUME NEW n, Running(n), NEW p \in Downward, p.type = "ROUTE_UPDATE"
    PROVE  /\ Running(OnRouteUpdate(n, p))
           /\ ~n.joined => ~OnRouteUpdate(n, p).joined
<1> DEFINE heard == [n EXCEPT !.heard = 0, !.enabled = n.granted]
<1>1. Running(heard) /\ heard.joined = n.joined
  BY Ages DEF Sound, Running, MemberState, Consistent, Armed
<1>2. CASE p.reselect /\ IsRelay(p.parent)
  <2> DEFINE asked == SetParent(heard, p.parent, "RESELECTING", TRUE)
  <2>1. OnRouteUpdate(n, p) = [TimersCleared(asked) EXCEPT !.joined = FALSE, !.net = "DISCOVERING"]
    BY <1>2 DEF OnRouteUpdate
  <2>2. asked = [heard EXCEPT !.parent = p.parent, !.link = "RESELECTING", !.reselect = TRUE,
                              !.parentAge = heard.parentAge]
    BY <1>2, DownwardFacts, NodesAssumption DEF SetParent, IsRelay
  <2>3. p.parent \in Node
    BY DownwardFacts
  <2> HIDE DEF heard
  <2>4. asked \in MemberState
    BY <1>1, <2>2, <2>3 DEF Running, Sound, MemberState
  <2>5. /\ asked.enabled = heard.enabled /\ asked.hidden = heard.hidden
        /\ asked.granted = heard.granted
    BY <1>1, <2>2 DEF Running, Sound, MemberState
  <2>6. heard.enabled \/ heard.hidden => heard.granted
    BY <1>1 DEF Running, Sound, Consistent
  <2> HIDE DEF asked
  <2>7. OnRouteUpdate(n, p) \in MemberState
    BY <2>1, <2>4, Ages DEF TimersCleared, MemberState
  <2>8. /\ OnRouteUpdate(n, p).joined = FALSE /\ OnRouteUpdate(n, p).net = "DISCOVERING"
        /\ OnRouteUpdate(n, p).enabled = asked.enabled
        /\ OnRouteUpdate(n, p).hidden = asked.hidden
        /\ OnRouteUpdate(n, p).granted = asked.granted
    BY <2>1, <2>4 DEF TimersCleared, MemberState
  <2>9. Consistent(OnRouteUpdate(n, p)) /\ Armed(OnRouteUpdate(n, p))
    <3>1. asked.enabled \/ asked.hidden => asked.granted
      BY <2>5, <2>6
    <3> QED
      BY <2>8, <3>1 DEF Consistent, Armed
  <2> QED
    BY <2>7, <2>8, <2>9 DEF Running, Sound
<1>3. CASE ~(p.reselect /\ IsRelay(p.parent)) /\ n.parent \in {Leader, NoNode}
  <2>1. OnRouteUpdate(n, p) = NoteParent(heard, Leader)
    BY <1>3 DEF OnRouteUpdate
  <2> HIDE DEF heard
  <2>2. Leader \in Node \cup {NoNode} /\ Sound(heard) /\ heard.net # "IDLE"
    BY <1>1 DEF Running, Node
  <2>3. /\ Sound(NoteParent(heard, Leader))
        /\ NoteParent(heard, Leader).net = heard.net
        /\ NoteParent(heard, Leader).joined = heard.joined
    BY <2>2, NoteParentSound
  <2> QED
    BY <1>1, <2>1, <2>2, <2>3 DEF Running
<1>4. CASE ~(p.reselect /\ IsRelay(p.parent)) /\ n.parent \notin {Leader, NoNode}
  <2>1. OnRouteUpdate(n, p) = heard
    BY <1>4 DEF OnRouteUpdate
  <2> QED
    BY <1>1, <2>1
<1> QED
  BY <1>2, <1>3, <1>4

(* Of all packets only ACK makes a member join.                             *)
LEMMA HandleSound ==
    ASSUME NEW n, Running(n), NEW p \in Downward
    PROVE  /\ Running(Handle(n, p))
           /\ p.type # "ACK" /\ ~n.joined => ~Handle(n, p).joined
<1>1. CASE p.type = "ACK"
  BY <1>1, OnAckSound DEF Handle
<1>2. CASE p.type = "CONFIG"
  BY <1>2, OnConfigSound DEF Handle
<1>3. CASE p.type = "ROUTE_UPDATE"
  BY <1>3, OnRouteUpdateSound DEF Handle
<1>4. CASE p.type = "HEARTBEAT"
  <2>1. Handle(n, p) = [n EXCEPT !.heard = 0]
    BY <1>4 DEF Handle
  <2> QED
    BY <2>1, Ages DEF Sound, Running, MemberState, Consistent, Armed
<1>5. CASE p.type = "ALERT"
  BY <1>5 DEF Handle
<1> QED
  BY <1>1, <1>2, <1>3, <1>4, <1>5, DownwardFacts

(* A packet names its connection's peer; only a relay reaches a target.     *)
LEMMA BindSound ==
    ASSUME NEW n, Running(n), NEW t \in Track
    PROVE  /\ Identify(n, t) \in Track /\ Identify(n, t).sure
           /\ \A k \in Track : /\ Running(Bind(n, k))
                               /\ Bind(n, k).joined = n.joined
                               /\ HasTarget(n) /\ ~HasTarget(Bind(n, k))
                                    => IsRelay(Bind(n, k).parent) /\ Bind(n, k).parent = k.id
<1>1. Identify(n, t) \in Track /\ Identify(n, t).sure
  BY DEF Running, Sound, Identify, Track, MemberState, HasTarget, IsRelay, Node
<1>2. ASSUME NEW k \in Track
      PROVE  /\ Running(Bind(n, k))
             /\ Bind(n, k).joined = n.joined
             /\ HasTarget(n) /\ ~HasTarget(Bind(n, k))
                  => IsRelay(Bind(n, k).parent) /\ Bind(n, k).parent = k.id
  <2>1. CASE k.id = Leader /\ HasTarget(n)
    BY <2>1 DEF Bind
  <2>2. CASE ~(k.id = Leader /\ HasTarget(n))
    <3>1. Bind(n, k) = NoteParent(n, k.id) /\ k.id \in Node
      BY <2>2 DEF Bind, Track
    <3>2. Running(NoteParent(n, k.id)) /\ NoteParent(n, k.id).joined = n.joined
      BY <3>1, NoteParentSound DEF Running
    <3>3. NoteParent(n, k.id).parent = k.id
      BY DEF NoteParent, Running, Sound, MemberState
    <3>4. HasTarget(n) => IsRelay(k.id)
      BY <2>2, <3>1, NodesAssumption DEF IsRelay, Node
    <3> QED
      BY <3>1, <3>2, <3>3, <3>4
  <2> QED
    BY <2>1, <2>2
<1> QED
  BY <1>1, <1>2
-----------------------------------------------------------------------------
(* The main loop.  Each stage keeps the node sound, and none makes it join. *)

Keeps(n, outcomes) ==
    \A o \in outcomes : Running(o.node) /\ (~n.joined => ~o.node.joined)

(* A refused send may start a recovery; membership stays.                   *)
LEMMA RecoveringSound ==
    ASSUME NEW n, Running(n), NEW tracks, NEW r \in Recovering(n, tracks)
    PROVE  Running(r) /\ r.joined = n.joined
  BY PrepareRetrySound DEF Recovering

(* The watchdog on the leader never makes a device join.                    *)
LEMMA WatchSound ==
    ASSUME NEW n, Running(n)
    PROVE  Running(Watch(n)) /\ (~n.joined => ~Watch(n).joined)
  BY RecoverSound DEF Watch

(* An attempt to send leaves membership and parent as they were.            *)
LEMMA AttemptSound ==
    ASSUME NEW n, Running(n), NEW tracks, NEW packet
    PROVE  \A o \in Attempt(n, tracks, packet) :
              \E tried : /\ o = [node |-> tried, out |-> o.out]
                         /\ Running(tried) /\ tried.joined = n.joined
                         /\ tried.parent = n.parent
  BY AfterSendSound DEF Attempt

(* Choosing among the connections keeps membership.                         *)
LEMMA AutoselectSound ==
    ASSUME NEW m, NEW n, Running(n), NEW tracks \in SUBSET Track
    PROVE  Keeps(n, Autoselect(m, n, tracks))
<1> SUFFICES ASSUME NEW o \in Autoselect(m, n, tracks)
             PROVE  Running(o.node) /\ o.node.joined = n.joined
  BY DEF Keeps
<1>1. \A t \in tracks : /\ Running(NoteParent(n, t.id))
                        /\ NoteParent(n, t.id).joined = n.joined
  BY NoteParentSound DEF Running, Track
<1>2. CASE o = Unmoved(n)
  BY <1>2 DEF Unmoved
<1>3. CASE \E t \in tracks : o = Unmoved(NoteParent(n, t.id))
  BY <1>1, <1>3 DEF Unmoved
<1>4. CASE \E t \in tracks : o \in Attempt(NoteParent(n, t.id), tracks, RouteReport(m, t.id))
  <2>1. PICK t \in tracks : o \in Attempt(NoteParent(n, t.id), tracks, RouteReport(m, t.id))
    BY <1>4
  <2>2. Running(NoteParent(n, t.id)) /\ NoteParent(n, t.id).joined = n.joined
    BY <1>1
  <2>3. PICK tried : /\ o = [node |-> tried, out |-> o.out]
                     /\ Running(tried) /\ tried.joined = NoteParent(n, t.id).joined
    BY <2>1, <2>2, AttemptSound
  <2> QED
    BY <2>2, <2>3
<1> QED
  BY <1>2, <1>3, <1>4 DEF Autoselect

(* Leaving a silent parent never makes a device join.                       *)
LEMMA SwitchIfLostSound ==
    ASSUME NEW m, NEW n, Running(n), NEW tracks
    PROVE  Keeps(n, SwitchIfLost(m, n, tracks))
<1> SUFFICES ASSUME NEW o \in SwitchIfLost(m, n, tracks)
             PROVE  Running(o.node) /\ (~n.joined => ~o.node.joined)
  BY DEF Keeps
<1>1. CASE ~ParentLost(n)
  BY <1>1 DEF SwitchIfLost, Unmoved
<1>2. CASE ParentLost(n)
  <2>1. PICK accepted \in BOOLEAN : o.node = SwitchParent(n, accepted)
    <3>1. PICK accepted \in Accepted(SwitchParent(n, FALSE), tracks) :
            o = [node |-> SwitchParent(n, accepted), out |-> When(accepted, Hello(m, Leader))]
      BY <1>2 DEF SwitchIfLost
    <3>2. accepted \in BOOLEAN
      BY DEF Accepted
    <3> QED
      BY <3>1, <3>2
  <2> QED
    BY <1>2, <2>1, SwitchParentSound DEF ParentLost, CanSwitch
<1> QED
  BY <1>1, <1>2

(* HELLO and HEARTBEAT leave membership as it was.                          *)
LEMMA SpeakSound ==
    ASSUME NEW m, NEW n, Running(n), NEW tracks
    PROVE  Keeps(n, Speak(m, n, tracks))
<1> SUFFICES ASSUME NEW o \in Speak(m, n, tracks)
             PROVE  Running(o.node) /\ o.node.joined = n.joined
  BY DEF Keeps
<1>1. CASE o = Unmoved(n)
  BY <1>1 DEF Unmoved
<1>2. CASE n.joined /\ o # Unmoved(n)
  <2>1. PICK a \in Attempt(n, tracks, Heartbeat(m, Leader)) : o = [a EXCEPT !.node.beatAge = 0]
    BY <1>2 DEF Speak, SayHeartbeat
  <2>2. PICK tried : /\ a = [node |-> tried, out |-> a.out]
                     /\ Running(tried) /\ tried.joined = n.joined
    BY AttemptSound
  <2>3. o.node = [tried EXCEPT !.beatAge = 0]
    BY <2>1, <2>2
  <2> QED
    BY <2>2, <2>3, Ages DEF Running, Sound, MemberState, Consistent, Armed
<1>3. CASE ~n.joined /\ o # Unmoved(n)
  <2>1. PICK a \in Attempt(n, tracks, Hello(m, Leader)) :
          o = [a EXCEPT !.node.helloAge = 0, !.node.net = "JOINING"]
    BY <1>3 DEF Speak, SayHello
  <2>2. PICK tried : /\ a = [node |-> tried, out |-> a.out]
                     /\ Running(tried) /\ tried.joined = n.joined
    BY AttemptSound
  <2>3. o.node = [tried EXCEPT !.helloAge = 0, !.net = "JOINING"]
    <3>1. a.node = tried
      BY <2>2
    <3>2. o.node = [[a.node EXCEPT !.helloAge = 0] EXCEPT !.net = "JOINING"]
      BY <2>1, <2>2
    <3> QED
      BY <3>1, <3>2
  <2> QED
    BY <1>3, <2>2, <2>3, Ages DEF Running, Sound, MemberState, Consistent, Armed
<1> QED
  BY <1>1, <1>2, <1>3
-----------------------------------------------------------------------------
(* The actions.                                                             *)

SoundState ==
    /\ node \in [Device -> {n \in MemberState : Consistent(n) /\ Armed(n)}]
    /\ links \in [Device -> SUBSET Track]

(* A sound state holds a sound device and its connections.                  *)
LEMMA SoundOf ==
    ASSUME SoundState, NEW m \in Device
    PROVE  Sound(node[m]) /\ links[m] \in SUBSET Track
  BY DEF SoundState, Sound

(* Replacing one device by a sound one keeps the state sound.               *)
LEMMA SoundUpdate ==
    ASSUME SoundState, NEW m \in Device, NEW n, Sound(n), node' = [node EXCEPT ![m] = n],
           links' \in [Device -> SUBSET Track]
    PROVE  SoundState'
  BY DEF SoundState, Sound

(* A step of m makes it join only where it waits for no target, or has just *)
(* found a relay's connection.                                              *)
JoinsRight(m) ==
    HasTarget(node[m]) /\ ~node[m].joined /\ node'[m].joined
        => /\ IsRelay(node'[m].parent)
           /\ \E t \in links'[m] : t.sure /\ t.id = node'[m].parent

(* What an operator does to a device never makes it join.                   *)
LEMMA OperatorSound ==
    ASSUME SoundState, NEW m \in Device, Operator(m)
    PROVE  SoundState' /\ ~node'[m].joined
<1>1. m \in DOMAIN node /\ links \in [Device -> SUBSET Track]
  BY DEF SoundState
<1>2. CASE Configure(m)
  <2>1. /\ node' = [node EXCEPT ![m] = Configured]
        /\ links' = [links EXCEPT ![m] = {[t EXCEPT !.tracked = FALSE] : t \in links[m]}]
    BY <1>2 DEF Configure
  <2>2. \A t \in Track : [t EXCEPT !.tracked = FALSE] \in Track
    BY DEF Track
  <2>3. links' \in [Device -> SUBSET Track]
    BY <1>1, <2>1, <2>2
  <2>4. ~Configured.joined
    BY DEF Configured, Selected, Unconfigured
  <2> QED
    BY <1>1, <2>1, <2>3, <2>4, Starts, SoundUpdate DEF Running
<1>3. CASE Select(m)
  <2>1. PICK o \in Attempt(Selected, links[m], Hello(m, Leader)) :
          node' = [node EXCEPT ![m] = o.node] /\ links' = links
    BY <1>3 DEF Select
  <2>2. Running(o.node) /\ o.node.joined = Selected.joined
    BY <2>1, Starts, AttemptSound
  <2>3. Selected.joined = FALSE
    BY DEF Selected, Unconfigured
  <2> QED
    BY <1>1, <2>1, <2>2, <2>3, SoundUpdate DEF Running
<1>4. CASE Leave(m)
  <2>1. node' = [node EXCEPT ![m] = Unconfigured] /\ links' = links
    BY <1>4 DEF Leave
  <2>2. Unconfigured.joined = FALSE
    BY DEF Unconfigured
  <2> QED
    BY <1>1, <2>1, <2>2, Starts, SoundUpdate
<1> QED
  BY <1>2, <1>3, <1>4 DEF Operator

(* A connection coming up or down never makes a device join.                *)
LEMMA LinkSound ==
    ASSUME SoundState, NEW m \in Device,
           \/ \E p \in Node : LinkUp(m, p)
           \/ \E t \in links[m] : LinkDown(m, t)
    PROVE  SoundState' /\ (node'[m].joined => node[m].joined)
<1>1. Sound(node[m]) /\ links[m] \in SUBSET Track /\ m \in DOMAIN node
      /\ links \in [Device -> SUBSET Track]
  BY SoundOf DEF SoundState
<1>2. ASSUME NEW p \in Node, LinkUp(m, p)
      PROVE  SoundState' /\ (node'[m].joined => node[m].joined)
  <2>1. [peer |-> p, id |-> p, sure |-> FALSE, tracked |-> TRUE] \in Track
    BY DEF Track
  <2>2. links' \in [Device -> SUBSET Track]
    BY <1>1, <1>2, <2>1 DEF LinkUp
  <2>3. node' = [node EXCEPT ![m] = NoteParent(node[m], p)]
    BY <1>2 DEF LinkUp
  <2>4. Sound(NoteParent(node[m], p)) /\ NoteParent(node[m], p).joined = node[m].joined
    BY <1>1, NoteParentSound
  <2> QED
    BY <1>1, <2>2, <2>3, <2>4, SoundUpdate
<1>3. ASSUME NEW t \in links[m], LinkDown(m, t)
      PROVE  SoundState' /\ (node'[m].joined => node[m].joined)
  <2> DEFINE n == node[m]
             rest == links[m] \ {t}
             asking == SwitchParent(n, FALSE)
             id == IF t.tracked THEN t.id ELSE t.peer
  <2>1. links' \in [Device -> SUBSET Track]
    BY <1>1, <1>3 DEF LinkDown
  <2>2. CASE ~n.joined \/ n.parent \notin {id, NoNode}
    BY <1>3, <2>1, <2>2 DEF LinkDown, SoundState
  <2>3. CASE ~(~n.joined \/ n.parent \notin {id, NoNode})
    <3>1. Running(n) /\ n.joined
      BY <1>1, <2>3 DEF Running, Sound, Consistent, MemberState
    <3>2. CASE ~CanSwitch(n)
      <4>1. node' = [node EXCEPT ![m] = ResetParent(Recover(n))]
        BY <1>3, <2>3, <3>2 DEF LinkDown
      <4>2. Sound(ResetParent(Recover(n)))
        BY <3>1, RecoverSound, ResetParentSound DEF Running
      <4> QED
        BY <2>1, <3>1, <4>1, <4>2, SoundUpdate
    <3>3. CASE CanSwitch(n)
      <4>1. PICK accepted \in Accepted(asking, rest) :
              node' = [node EXCEPT ![m] =
                ResetParent(IF accepted THEN SwitchParent(n, TRUE) ELSE Recover(asking))]
        BY <1>3, <2>3, <3>3 DEF LinkDown
      <4>2. Running(SwitchParent(n, TRUE)) /\ Running(asking)
        BY <3>1, <3>3, SwitchParentSound
      <4>3. Running(IF accepted THEN SwitchParent(n, TRUE) ELSE Recover(asking))
        BY <4>2, RecoverSound
      <4>4. Sound(ResetParent(IF accepted THEN SwitchParent(n, TRUE) ELSE Recover(asking)))
        BY <4>3, ResetParentSound DEF Running
      <4> QED
        BY <2>1, <3>1, <4>1, <4>4, SoundUpdate
    <3> QED
      BY <3>2, <3>3
  <2> QED
    BY <2>2, <2>3
<1> QED
  BY <1>2, <1>3

(* A received packet makes a device join the right way or not at all.       *)
LEMMA ReceiveSound ==
    ASSUME SoundState, NEW m \in Device, NEW t \in links[m], NEW p \in Downward, Receive(m, t, p)
    PROVE  SoundState' /\ JoinsRight(m)
<1> DEFINE n == node[m]
           known == Identify(n, t)
           bound == Bind(n, known)
           tracks == (links[m] \ {t}) \cup {known}
           heeded == Heeds(m, bound, p)
           next == IF heeded THEN Handle(bound, p) ELSE bound
           joins == heeded /\ p.type = "ACK" /\ ~HasTarget(bound)
<1>1. Sound(n) /\ links[m] \in SUBSET Track /\ m \in DOMAIN node
      /\ links \in [Device -> SUBSET Track]
  BY SoundOf DEF SoundState
<1>2. Running(n)
  BY <1>1 DEF Running, Receive
<1>3. /\ known \in Track /\ known.sure /\ Running(bound) /\ bound.joined = n.joined
      /\ HasTarget(n) /\ ~HasTarget(bound) => IsRelay(bound.parent) /\ bound.parent = known.id
  BY <1>1, <1>2, BindSound
<1>4. links' = [links EXCEPT ![m] = tracks]
  BY DEF Receive
<1>5. /\ tracks \in SUBSET Track /\ links' \in [Device -> SUBSET Track]
      /\ known \in links'[m]
  BY <1>1, <1>3, <1>4
<1>6. Running(next)
  BY <1>3, HandleSound
<1>7. CASE joins
  <2>1. PICK o \in Attempt(next, tracks, RouteReport(m, next.parent)) :
          node' = [node EXCEPT ![m] = o.node]
    BY <1>7 DEF Receive
  <2>2. PICK tried : /\ o = [node |-> tried, out |-> o.out]
                     /\ Running(tried) /\ tried.parent = next.parent
    BY <1>6, <2>1, AttemptSound
  <2>5. HasTarget(n) => IsRelay(next.parent) /\ next.parent = known.id
    BY <1>3, <1>7, OnAckSound DEF Handle, IsRelay
  <2> HIDE DEF next, tracks
  <2>3. node' = [node EXCEPT ![m] = tried]
    <3>1. o.node = tried
      BY <2>2
    <3> QED
      BY <2>1, <3>1
  <2>4. Sound(tried)
    BY <2>2 DEF Running
  <2>6. SoundState'
    BY <1>5, <2>3, <2>4, SoundUpdate
  <2>7. node'[m] = tried
    BY <1>1, <2>3
  <2> QED
    BY <1>3, <1>5, <2>2, <2>5, <2>6, <2>7 DEF JoinsRight
<1>8. CASE ~joins
  <2>1. node' = [node EXCEPT ![m] = next]
    BY <1>8 DEF Receive
  <2>2. ~n.joined => ~next.joined
    BY <1>3, <1>8, HandleSound, OnAckSound DEF Handle
  <2> HIDE DEF next
  <2>3. SoundState' /\ node'[m] = next
    BY <1>1, <1>5, <1>6, <2>1, SoundUpdate DEF Running
  <2> QED
    BY <2>2, <2>3 DEF JoinsRight
<1> QED
  BY <1>7, <1>8

(* The periodic work of the main loop never makes a device join.            *)
LEMMA TickSound ==
    ASSUME SoundState, NEW m \in Device, Tick(m)
    PROVE  SoundState' /\ (node'[m].joined => node[m].joined)
<1>1. Sound(node[m]) /\ links[m] \in SUBSET Track /\ m \in DOMAIN node
      /\ links \in [Device -> SUBSET Track]
  BY SoundOf DEF SoundState
<1>2. Running(node[m])
  BY <1>1 DEF Running, Tick
<1>3. PICK recovered \in Recovering(node[m], links[m]) :
      \E selected \in Autoselect(m, recovered, links[m]) :
      \E switched \in SwitchIfLost(m, Watch(selected.node), links[m]) :
      \E spoken \in Speak(m, switched.node, links[m]) :
         node' = [node EXCEPT ![m] = spoken.node]
  BY DEF Tick
<1>4. Running(recovered) /\ recovered.joined = node[m].joined
  BY <1>2, RecoveringSound
<1>5. PICK selected \in Autoselect(m, recovered, links[m]) :
      \E switched \in SwitchIfLost(m, Watch(selected.node), links[m]) :
      \E spoken \in Speak(m, switched.node, links[m]) :
         node' = [node EXCEPT ![m] = spoken.node]
  BY <1>3
<1>6. Running(selected.node) /\ (~recovered.joined => ~selected.node.joined)
  BY <1>1, <1>4, AutoselectSound DEF Keeps
<1>7. Running(Watch(selected.node)) /\ (~selected.node.joined => ~Watch(selected.node).joined)
  BY <1>6, WatchSound
<1>8. PICK switched \in SwitchIfLost(m, Watch(selected.node), links[m]) :
      \E spoken \in Speak(m, switched.node, links[m]) :
         node' = [node EXCEPT ![m] = spoken.node]
  BY <1>5
<1>9. Running(switched.node) /\ (~Watch(selected.node).joined => ~switched.node.joined)
  BY <1>7, SwitchIfLostSound DEF Keeps
<1>10. PICK spoken \in Speak(m, switched.node, links[m]) :
         node' = [node EXCEPT ![m] = spoken.node]
  BY <1>8
<1>11. Running(spoken.node) /\ (~switched.node.joined => ~spoken.node.joined)
  BY <1>9, SpeakSound DEF Keeps
<1>12. links' = links
  BY DEF Tick
<1> QED
  BY <1>1, <1>4, <1>6, <1>7, <1>9, <1>10, <1>11, <1>12, SoundUpdate DEF Running

(* The passing of time changes ages only.                                   *)
LEMMA SecondSound ==
    ASSUME SoundState, NEW m \in Device, Second(m)
    PROVE  SoundState' /\ (node'[m].joined => node[m].joined)
<1> DEFINE n == node[m]
           older == [n EXCEPT !.heard = Ageing(n.heard, LeaderTimeout + 1),
                              !.parentAge = Ageing(n.parentAge, ParentTimeout + 1),
                              !.helloAge = Ageing(n.helloAge, HelloInterval),
                              !.beatAge = Ageing(n.beatAge, BeatInterval)]
<1>1. Sound(n) /\ m \in DOMAIN node /\ links \in [Device -> SUBSET Track]
  BY SoundOf DEF SoundState
<1>2. node' = [node EXCEPT ![m] = older] /\ links' = links
  BY <1>1 DEF Second, Sound, MemberState
<1>3. Sound(older) /\ older.joined = n.joined
  BY <1>1, Ages DEF Sound, MemberState, Consistent, Armed
<1> HIDE DEF older
<1> QED
  BY <1>1, <1>2, <1>3, SoundUpdate
-----------------------------------------------------------------------------
(* What a member sends.                                                     *)

(* An attempt sends its packet or nothing.                                  *)
LEMMA AttemptSends ==
    ASSUME NEW n, NEW tracks, NEW packet \in ToLeader, NEW o \in Attempt(n, tracks, packet)
    PROVE  o.out \subseteq ToLeader
  BY DEF Attempt, When

(* The packets a member sends are well formed.                              *)
LEMMA Utterances ==
    ASSUME NEW m \in Member
    PROVE  /\ Hello(m, Leader) \in ToLeader
           /\ Heartbeat(m, Leader) \in ToLeader
           /\ Alert(m, Leader, m, "LEAVE") \in ToLeader
           /\ \A h \in Node : RouteReport(m, h) \in ToLeader
  BY DEF ToLeader

(* No step puts anything else on the air than such packets.                 *)
LEMMA OutTyped ==
    ASSUME SoundState, out \subseteq ToLeader, [MemberNext]_memberVars
    PROVE  out' \subseteq ToLeader
<1>1. CASE UNCHANGED memberVars
  BY <1>1 DEF memberVars
<1>2. ASSUME NEW m \in Device, Operator(m) \/ Upstream(m) \/ Tick(m) \/ Second(m)
      PROVE  out' \subseteq ToLeader
  <2>1. m \in Member /\ Sound(node[m]) /\ links[m] \in SUBSET Track
    BY MemberAssumption, SoundOf
  <2>2. CASE Operator(m)
    <3>1. CASE Configure(m)
      BY <3>1 DEF Configure
    <3>2. CASE Select(m)
      BY <2>1, <3>2, Utterances, AttemptSends DEF Select
    <3>3. CASE Leave(m)
      BY <2>1, <3>3, Utterances DEF Leave, When
    <3> QED
      BY <2>2, <3>1, <3>2, <3>3 DEF Operator
  <2>3. CASE (\E p \in Node : LinkUp(m, p)) \/ (\E t \in links[m] : LinkDown(m, t))
    BY <2>1, <2>3, Utterances DEF LinkUp, LinkDown, When
  <2>4. ASSUME NEW t \in links[m], NEW p \in Downward, Receive(m, t, p)
        PROVE  out' \subseteq ToLeader
    <3> DEFINE known == Identify(node[m], t)
               bound == Bind(node[m], known)
               tracks == (links[m] \ {t}) \cup {known}
               heeded == Heeds(m, bound, p)
               next == IF heeded THEN Handle(bound, p) ELSE bound
               joins == heeded /\ p.type = "ACK" /\ ~HasTarget(bound)
    <3>1. CASE joins
      <4>1. Running(bound)
        <5>1. Running(node[m])
          BY <2>1, <2>4 DEF Running, Receive
        <5> QED
          BY <2>1, <5>1, BindSound
      <4>2. next.parent \in Node
        <5>1. next = OnAck(bound) /\ ~HasTarget(bound)
          BY <3>1 DEF Handle
        <5> HIDE DEF next, bound
        <5>2. /\ OnAck(bound).parent = IF bound.parent = NoNode THEN Leader ELSE bound.parent
              /\ Sound(bound)
          BY <4>1, <5>1, OnAckSound DEF Running
        <5> QED
          BY <5>1, <5>2, ParentOrLeader
      <4>3. PICK o \in Attempt(next, tracks, RouteReport(m, next.parent)) : out' = o.out
        BY <2>4, <3>1 DEF Receive
      <4>4. RouteReport(m, next.parent) \in ToLeader
        BY <2>1, <4>2, Utterances
      <4> HIDE DEF next, tracks
      <4> QED
        BY <4>3, <4>4, AttemptSends
    <3>2. CASE ~joins
      BY <2>4, <3>2 DEF Receive
    <3> QED
      BY <3>1, <3>2
  <2>5. CASE Tick(m)
    <3>1. ASSUME NEW n, NEW o \in Autoselect(m, n, links[m])
          PROVE  o.out \subseteq ToLeader
      <4>1. CASE o.out = {}
        BY <4>1
      <4>2. CASE \E t \in links[m] :
                    o \in Attempt(NoteParent(n, t.id), links[m], RouteReport(m, t.id))
        <5>1. PICK t \in links[m] :
                o \in Attempt(NoteParent(n, t.id), links[m], RouteReport(m, t.id))
          BY <4>2
        <5>2. RouteReport(m, t.id) \in ToLeader
          BY <2>1, Utterances DEF Track
        <5> QED
          BY <5>1, <5>2, AttemptSends
      <4> QED
        BY <4>1, <4>2 DEF Autoselect, Unmoved
    <3>2. ASSUME NEW n, NEW o \in SwitchIfLost(m, n, links[m])
          PROVE  o.out \subseteq ToLeader
      <4>1. CASE ~ParentLost(n)
        BY <4>1 DEF SwitchIfLost, Unmoved
      <4>2. CASE ParentLost(n)
        <5>1. PICK accepted \in Accepted(SwitchParent(n, FALSE), links[m]) :
                o = [node |-> SwitchParent(n, accepted), out |-> When(accepted, Hello(m, Leader))]
          BY <4>2 DEF SwitchIfLost
        <5>2. o.out = When(accepted, Hello(m, Leader))
          BY <5>1
        <5> QED
          BY <2>1, <5>2, Utterances DEF When
      <4> QED
        BY <4>1, <4>2
    <3>3. ASSUME NEW n, NEW o \in Speak(m, n, links[m])
          PROVE  o.out \subseteq ToLeader
      <4>1. CASE o = Unmoved(n)
        BY <4>1 DEF Unmoved
      <4>2. CASE n.joined /\ o # Unmoved(n)
        <5>1. PICK a \in Attempt(n, links[m], Heartbeat(m, Leader)) :
                o = [a EXCEPT !.node.beatAge = 0]
          BY <4>2 DEF Speak, SayHeartbeat
        <5>2. a.out \subseteq ToLeader
          BY <2>1, Utterances, AttemptSends
        <5>3. a = [node |-> a.node, out |-> a.out]
          BY DEF Attempt
        <5> QED
          BY <5>1, <5>2, <5>3
      <4>3. CASE ~n.joined /\ o # Unmoved(n)
        <5>1. PICK a \in Attempt(n, links[m], Hello(m, Leader)) :
                o = [a EXCEPT !.node.helloAge = 0, !.node.net = "JOINING"]
          BY <4>3 DEF Speak, SayHello
        <5>2. a.out \subseteq ToLeader
          BY <2>1, Utterances, AttemptSends
        <5>3. a = [node |-> a.node, out |-> a.out]
          BY DEF Attempt
        <5>4. o.out = a.out
          BY <5>1, <5>3
        <5> QED
          BY <5>2, <5>4
      <4> QED
        BY <4>1, <4>2, <4>3
    <3>4. PICK recovered \in Recovering(node[m], links[m]) :
          \E selected \in Autoselect(m, recovered, links[m]) :
          \E switched \in SwitchIfLost(m, Watch(selected.node), links[m]) :
          \E spoken \in Speak(m, switched.node, links[m]) :
             out' = selected.out \cup switched.out \cup spoken.out
      BY <2>5 DEF Tick
    <3> QED
      BY <3>1, <3>2, <3>3, <3>4
  <2>6. CASE Second(m)
    BY <2>6 DEF Second
  <2> QED
    BY <1>2, <2>2, <2>3, <2>4, <2>5, <2>6 DEF Upstream
<1> QED
  BY <1>1, <1>2 DEF MemberNext
-----------------------------------------------------------------------------
(* The theorems.                                                            *)

(* One step of the specification.                                           *)
LEMMA StepSound ==
    ASSUME SoundState, [MemberNext]_memberVars
    PROVE  SoundState' /\ \A m \in Device : JoinsRight(m)
<1>1. CASE UNCHANGED memberVars
  BY <1>1 DEF memberVars, SoundState, JoinsRight
<1>2. ASSUME NEW m \in Device, Operator(m) \/ Upstream(m) \/ Tick(m) \/ Second(m)
      PROVE  SoundState' /\ \A d \in Device : JoinsRight(d)
  <2>1. SoundState' /\ JoinsRight(m)
    <3>1. CASE Operator(m)
      BY <3>1, OperatorSound DEF JoinsRight
    <3>2. CASE (\E p \in Node : LinkUp(m, p)) \/ (\E t \in links[m] : LinkDown(m, t))
      BY <3>2, LinkSound DEF JoinsRight
    <3>3. CASE \E t \in links[m], p \in Downward : Receive(m, t, p)
      BY <3>3, ReceiveSound
    <3>4. CASE Tick(m)
      BY <3>4, TickSound DEF JoinsRight
    <3>5. CASE Second(m)
      BY <3>5, SecondSound DEF JoinsRight
    <3> QED
      BY <1>2, <3>1, <3>2, <3>3, <3>4, <3>5 DEF Upstream
  <2>2. ASSUME NEW d \in Device, d # m
        PROVE  node'[d] = node[d]
    <3>1. \E n : node' = [node EXCEPT ![m] = n] \/ node' = node
      BY <1>2 DEF Operator, Upstream, Configure, Select, Leave, LinkUp, LinkDown, Receive, Tick, Second
    <3> QED
      BY <2>2, <3>1 DEF SoundState
  <2> QED
    BY <2>1, <2>2 DEF JoinsRight
<1> QED
  BY <1>1, <1>2 DEF MemberNext

(* Every device's state, its connections and its packets stay in range.     *)
THEOREM MemberTypeCorrect == MemberSpec => []MemberTypeOK
<1> DEFINE Inv == SoundState /\ out \subseteq ToLeader
<1>1. MemberInit => Inv
  BY Starts DEF MemberInit, SoundState, Sound, Running
<1>2. Inv /\ [MemberNext]_memberVars => Inv'
  BY StepSound, OutTyped
<1>3. Inv => MemberTypeOK
  BY DEF SoundState, MemberTypeOK
<1> QED
  BY <1>1, <1>2, <1>3, PTL DEF MemberSpec

(* The network state, the joined flag and the permissions of a device never *)
(* contradict each other, whatever comes down, drops or is refused.         *)
THEOREM FlagsAlwaysAgree == MemberSpec => []FlagsAgree
<1>1. MemberInit => SoundState
  BY Starts DEF MemberInit, SoundState, Sound, Running
<1>2. SoundState /\ [MemberNext]_memberVars => SoundState'
  BY StepSound
<1>3. SoundState => FlagsAgree
  BY SoundOf DEF FlagsAgree, Sound
<1> QED
  BY <1>1, <1>2, <1>3, PTL DEF MemberSpec

(* A joined device always has the time stamps sle_team_node_tick needs to   *)
(* notice a silent leader and a silent relay.                               *)
THEOREM WatchdogsAlwaysArmed == MemberSpec => []WatchdogsArmed
<1>1. MemberInit => SoundState
  BY Starts DEF MemberInit, SoundState, Sound, Running
<1>2. SoundState /\ [MemberNext]_memberVars => SoundState'
  BY StepSound
<1>3. SoundState => WatchdogsArmed
  BY SoundOf DEF WatchdogsArmed, Sound
<1> QED
  BY <1>1, <1>2, <1>3, PTL DEF MemberSpec

(* A device told to move to a relay joins over a relay or not at all.       *)
THEOREM TargetsAreRelays == MemberSpec => RejoinsThroughRelay
<1> DEFINE Right == \A m \in Device :
                      HasTarget(node[m]) /\ ~node[m].joined /\ node'[m].joined
                        => /\ IsRelay(node'[m].parent)
                           /\ \E t \in links'[m] : t.sure /\ t.id = node'[m].parent
<1>1. MemberInit => SoundState
  BY Starts DEF MemberInit, SoundState, Sound, Running
<1>2. SoundState /\ [MemberNext]_memberVars => SoundState' /\ [Right]_memberVars
  BY StepSound DEF JoinsRight
<1> QED
  BY <1>1, <1>2, PTL DEF MemberSpec, RejoinsThroughRelay
=============================================================================
