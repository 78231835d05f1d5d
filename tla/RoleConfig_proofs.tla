-------------------------- MODULE RoleConfig_proofs --------------------------
(***************************************************************************)
(* What RoleConfig guarantees for any networks and members, with failing   *)
(* writes and overlapping threads or without them.                         *)
(***************************************************************************)
EXTENDS RoleConfig, TLAPS

(* A device that boots has no role yet. *)
Booting == main.at = "boot" => ~configured

(* Once it is taken, what was last set is what was saved, unless somebody   *)
(* wrote other settings: while the role is being taken, the request is.     *)
RoleMatches ==
    configured /\ kept.role =>
      /\ main.at = "loop" => nv.is = node.is
      /\ main.at = "restoring" => nv.is = node.is /\ main.is = node.is
      /\ main.at \in {"configured", "applied"} =>
            /\ node.is.role = main.is.role
            /\ node.is.role = "member" => node.is.net = main.is.net

ListMatches ==
    IsLeader /\ main.at \in {"applied", "loop"} /\ kept.list => Admits(node.list) = Admits(nv.list)

(* Whoever serves a request for a leader is one: only a member can leave.   *)
Serving ==
    main.at \in {"restoring", "configured", "applied"} =>
      /\ main.is \in Roles
      /\ main.is.role = "leader" => configured /\ node.is \in Roles /\ node.is.role = "leader"

RoleInv == RoleTypeOK /\ Booting /\ Serving /\ RoleMatches /\ ListMatches

(* The types of the records.                                                *)
NvT == [is : Roles \cup {NoRole}, list : Lists]
NodeT == [is : [role : {"none", "leader", "member"}, net : Net \cup {0}], list : Lists,
          pairing : BOOLEAN]
MainT == [at : {"boot", "restoring", "loop", "configured", "applied"}, is : Roles \cup {NoRole}]
HttpT == [op : {"idle", "apply", "save", "clearList", "open"}, with : Roles \cup {NoRole},
          ok : BOOLEAN]
KeptT == [role : BOOLEAN, list : BOOLEAN, left : BOOLEAN]

LEMMA Constants ==
    /\ NoRole \in Roles \cup {NoRole} /\ NoRole \notin Roles
    /\ Open \in Lists /\ Admits(Open) = Member
    /\ \A is \in Roles : is.role \in {"leader", "member"} /\ is.net \in Net
                       /\ is \in [role : {"none", "leader", "member"}, net : Net \cup {0}]
    /\ \A is \in Roles, net \in Net : [is EXCEPT !.net = net] \in Roles
  BY RoleAssumption DEF NoRole, Roles, Open, Lists, Admits

LEMMA LoadedLists ==
    ASSUME NEW list \in Lists
    PROVE  /\ Loaded(list) \in Lists
           /\ Admits(Loaded(list)) = Admits(list)
           /\ ~Loaded(list).only => Loaded(list).ids = {}
  BY DEF Loaded, Lists, Admits, Open

(* A node as a role makes it, as leaving makes it, and with another list.   *)
LEMMA Made ==
    ASSUME NEW is \in Roles, NEW list \in Lists, NEW n,
           n = [is |-> is, pairing |-> FALSE, list |-> list]
    PROVE  n \in NodeT /\ n.is = is /\ n.list = list
  BY Constants DEF NodeT

LEMMA Blanked == Blank \in NodeT /\ Blank.is = NoRole /\ Blank.list = Open
  <1>1. NoRole \in [role : {"none", "leader", "member"}, net : Net \cup {0}]
    BY DEF NoRole
  <1> QED
    BY <1>1, Constants DEF Blank, NodeT

LEMMA Relisted ==
    ASSUME NEW n \in NodeT, NEW list \in Lists
    PROVE  LET m == [n EXCEPT !.list = list]
           IN  m \in NodeT /\ m.is = n.is /\ m.list = list
  BY DEF NodeT

LEMMA RestoreSafe ==
    ASSUME RoleInv, Restore
    PROVE  RoleInv'
  <1> USE DEF RoleInv, Restore, Serves, Becomes, BecomesAnyway, ServerFails
  <1>a. \/ UNCHANGED <<node, configured, sle>> /\ ~configured /\ main' = [main EXCEPT !.at = "loop"]
        \/ node' = Blank /\ ~configured /\ UNCHANGED <<configured, sle>> /\ main' = [main EXCEPT !.at = "loop"]
        \/ /\ nv.is \in Roles /\ configured' = TRUE /\ sle' = (IF sle = "none" THEN nv.is.role ELSE sle)
           /\ node' \in NodeT /\ node'.is = nv.is
           /\ node'.list = [only |-> nv.is.role = "leader", ids |-> {}]
           /\ main' = [at |-> "restoring", is |-> nv.is] /\ main'.at = "restoring" /\ main'.is = nv.is
    <2>0. ~configured
      BY DEF Booting
    <2>1. nv.is # NoRole => nv.is \in Roles
      BY DEF RoleTypeOK
    <2>2. [only |-> nv.is.role = "leader", ids |-> {}] \in Lists
      BY DEF Lists
    <2>3. CASE nv.is # NoRole /\ BecomesAnyway(nv.is) /\ main' = [at |-> "restoring", is |-> nv.is]
      <3>1. node' = [is |-> nv.is, pairing |-> FALSE, list |-> [only |-> nv.is.role = "leader", ids |-> {}]]
        BY <2>3
      <3>2. node' \in NodeT /\ node'.is = nv.is /\ node'.list = [only |-> nv.is.role = "leader", ids |-> {}]
        BY <2>1, <2>2, <2>3, <3>1, Made
      <3>3. configured' = TRUE /\ sle' = IF sle = "none" THEN nv.is.role ELSE sle
        BY <2>3
      <3> QED
        BY <2>1, <2>3, <3>2, <3>3
    <2> QED
      BY <2>0, <2>3
  <1>1. RoleTypeOK'
    <2>1. (node \in NodeT)'
      BY <1>a, Constants, Blanked DEF RoleTypeOK, NodeT, Open, NoRole
    <2>2. configured' \in BOOLEAN /\ reset' \in BOOLEAN /\ sle' \in {"none", "leader", "member"}
      BY <1>a, Constants, Blanked DEF RoleTypeOK, NodeT, Open, NoRole
    <2>3. (configured => node.is.role # "none" /\ sle # "none")'
      BY <1>a, Constants, Blanked DEF RoleTypeOK, NodeT, Open, NoRole
    <2>4. (request \in Roles \cup {NoRole})'
      BY Constants DEF RoleTypeOK, NvT, HttpT
    <2>5. (main \in MainT)'
      BY <1>a, Constants DEF RoleTypeOK, MainT
    <2>6. (kept \in KeptT)'
      BY Constants DEF RoleTypeOK, KeptT
    <2>7. (~node.list.only => node.list.ids = {})'
      BY <1>a, Constants, Blanked DEF RoleTypeOK, NodeT, Open, NoRole
    <2> QED
      BY <2>1, <2>2, <2>3, <2>4, <2>5, <2>6, <2>7 DEF RoleTypeOK, NvT, NodeT, MainT, HttpT, KeptT
  <1>2. Booting'
    BY DEF RoleTypeOK, Booting
  <1>3. RoleMatches'
    BY <1>a, Constants, Blanked DEF RoleTypeOK, Booting, RoleMatches
  <1>4. ListMatches'
    BY <1>a, Constants, Blanked DEF RoleTypeOK, Booting, ListMatches, IsLeader
  <1>5. Serving'
    BY <1>a, Constants, Blanked DEF RoleTypeOK, Serving
  <1> QED
    BY <1>1, <1>2, <1>3, <1>4, <1>5

LEMMA ServeBeginSafe ==
    ASSUME RoleInv, ServeBegin
    PROVE  RoleInv'
  <1> USE DEF RoleInv, ServeBegin, Refused, Becomes, BecomesAnyway, ServerFails, CliFree
  <1>a. \/ UNCHANGED <<node, configured, sle, main, kept>>
        \/ node' = Blank /\ ~configured /\ UNCHANGED <<configured, sle, main, kept>>
        \/ /\ request \in Roles /\ configured' = TRUE /\ sle' = (IF sle = "none" THEN request.role ELSE sle)
           /\ node' \in NodeT /\ node'.is = request
           /\ node'.list = [only |-> request.role = "leader", ids |-> {}]
           /\ main' = [at |-> "configured", is |-> request] /\ main'.at = "configured" /\ main'.is = request
    <2>1. request \in Roles
      BY DEF RoleTypeOK
    <2>2. [only |-> request.role = "leader", ids |-> {}] \in Lists
      BY DEF Lists
    <2>3. CASE BecomesAnyway(request) /\ main' = [at |-> "configured", is |-> request]
      <3>1. node' = [is |-> request, pairing |-> FALSE, list |-> [only |-> request.role = "leader", ids |-> {}]]
        BY <2>3
      <3>2. node' \in NodeT /\ node'.is = request /\ node'.list = [only |-> request.role = "leader", ids |-> {}]
        BY <2>1, <2>2, <3>1, Made
      <3>3. configured' = TRUE /\ sle' = IF sle = "none" THEN request.role ELSE sle
        BY <2>3
      <3> QED
        BY <2>1, <2>3, <3>2, <3>3
    <2> QED
      BY <2>3
  <1>1. RoleTypeOK'
    <2>1. (node \in NodeT)'
      BY <1>a, Constants, Blanked DEF RoleTypeOK, NodeT, Open, NoRole
    <2>2. configured' \in BOOLEAN /\ reset' \in BOOLEAN /\ sle' \in {"none", "leader", "member"}
      BY <1>a, Constants, Blanked DEF RoleTypeOK, NodeT, Open, NoRole
    <2>3. (configured => node.is.role # "none" /\ sle # "none")'
      BY <1>a, Constants, Blanked DEF RoleTypeOK, NodeT, Open, NoRole
    <2>4. (request \in Roles \cup {NoRole})'
      BY Constants DEF RoleTypeOK, NvT, HttpT
    <2>5. (main \in MainT)'
      BY <1>a, Constants DEF RoleTypeOK, MainT
    <2>6. (kept \in KeptT)'
      BY Constants DEF RoleTypeOK, KeptT
    <2>7. (~node.list.only => node.list.ids = {})'
      BY <1>a, Constants, Blanked DEF RoleTypeOK, NodeT, Open, NoRole
    <2> QED
      BY <2>1, <2>2, <2>3, <2>4, <2>5, <2>6, <2>7 DEF RoleTypeOK, NvT, NodeT, MainT, HttpT, KeptT
  <1>2. Booting'
    BY DEF RoleTypeOK, Booting
  <1>3. RoleMatches'
    BY <1>a, Constants, Blanked DEF RoleTypeOK, Booting, RoleMatches
  <1>4. ListMatches'
    BY <1>a, Constants, Blanked DEF RoleTypeOK, Booting, ListMatches, IsLeader
  <1>5. Serving'
    BY <1>a, Constants, Blanked DEF RoleTypeOK, Serving
  <1> QED
    BY <1>1, <1>2, <1>3, <1>4, <1>5

LEMMA AppliesSafe ==
    ASSUME RoleInv, Applies,
           \/ main.at = "configured" /\ main' = [main EXCEPT !.at = "applied"]
           \/ main.at = "restoring" /\ main' = [at |-> "loop", is |-> NoRole]
    PROVE  RoleInv'
  <1> USE DEF RoleInv, Applies
  <1>a. /\ node' \in NodeT
        /\ node.is.role = "leader" => node'.is = node.is /\ node'.list = Loaded(nv.list)
        /\ node.is.role # "leader" => node'.is = [node.is EXCEPT !.net = main.is.net] /\ node'.list = node.list
    <2>0. node \in NodeT
      BY DEF RoleTypeOK, NodeT
    <2>1. Loaded(nv.list) \in Lists /\ main.is.net \in Net \cup {0}
      <3>1. nv.list \in Lists /\ main.is \in Roles \cup {NoRole}
        BY DEF RoleTypeOK
      <3>2. Loaded(nv.list) \in Lists
        BY <3>1, LoadedLists
      <3>3. main.is.net \in Net \cup {0}
        BY <3>1, Constants DEF NoRole
      <3> QED
        BY <3>2, <3>3
    <2>2. CASE node.is.role = "leader"
      <3>1. node' = [node EXCEPT !.list = Loaded(nv.list)]
        BY <2>2
      <3> QED
        BY <2>0, <2>1, <2>2, <3>1, Relisted
    <2>3. CASE node.is.role # "leader"
      <3>1. node' = [node EXCEPT !.is.net = main.is.net]
        BY <2>3
      <3> QED
        BY <2>0, <2>1, <2>3, <3>1 DEF NodeT
    <2> QED
      BY <2>2, <2>3
  <1>1. RoleTypeOK'
    <2>1. (node \in NodeT)'
      BY <1>a, Constants DEF RoleTypeOK, NodeT
    <2>2. (configured => node.is.role # "none" /\ sle # "none")'
      BY <1>a, Constants DEF RoleTypeOK, NodeT
    <2>3. (main \in MainT)'
      BY Constants DEF RoleTypeOK, MainT
    <2>4. (kept \in KeptT)'
      BY Constants DEF RoleTypeOK, KeptT
    <2>5. (~node.list.only => node.list.ids = {})'
      <3>1. nv.list \in Lists
        BY DEF RoleTypeOK
      <3> QED
        BY <1>a, <3>1, LoadedLists DEF RoleTypeOK
    <2> QED
      BY <2>1, <2>2, <2>3, <2>4, <2>5 DEF RoleTypeOK, NvT, NodeT, MainT, HttpT, KeptT
  <1>2. Booting'
    BY DEF RoleTypeOK, Booting
  <1>3. RoleMatches'
    BY <1>a, Constants DEF RoleTypeOK, Booting, RoleMatches, NodeT
  <1>4. ListMatches'
    <2>1. nv.list \in Lists
      BY DEF RoleTypeOK
    <2> QED
      BY <1>a, <2>1, LoadedLists DEF RoleTypeOK, ListMatches, IsLeader, NodeT
  <1>5. Serving'
    BY <1>a DEF RoleTypeOK, Serving
  <1> QED
    BY <1>1, <1>2, <1>3, <1>4, <1>5

LEMMA AppliedSafe ==
    ASSUME RoleInv, ServeApply \/ RestoreApply
    PROVE  RoleInv'
  BY AppliesSafe DEF ServeApply, RestoreApply, Serves

LEMMA ServeSaveSafe ==
    ASSUME RoleInv, NEW ok \in BOOLEAN, ServeSave(ok)
    PROVE  RoleInv'
  <1> USE DEF RoleInv, ServeSave, SavesRole
  <1>1. RoleTypeOK'
    <2>1. (nv \in NvT)'
      <3>1. main.is \in Roles \cup {NoRole} /\ node.is.net \in Net \cup {0}
        BY DEF RoleTypeOK
      <3>2. CASE main.is.role = "leader"
        <4>1. main.is \in Roles /\ node.is.net \in Net
          BY <3>2, Constants DEF Serving
        <4>2. [main.is EXCEPT !.net = node.is.net] \in Roles
          BY <4>1, Constants
        <4> QED
          BY <3>2, <4>2 DEF RoleTypeOK, NvT
      <3>3. CASE main.is.role # "leader"
        BY <3>1, <3>3 DEF RoleTypeOK, NvT
      <3> QED
        BY <3>2, <3>3
    <2>2. (request \in Roles \cup {NoRole})'
      BY Constants DEF RoleTypeOK, NvT, HttpT
    <2>3. (main \in MainT)'
      BY Constants DEF RoleTypeOK, MainT
    <2>4. (kept \in KeptT)'
      BY Constants DEF RoleTypeOK, KeptT
    <2> QED
      BY <2>1, <2>2, <2>3, <2>4 DEF RoleTypeOK, NvT, NodeT, MainT, HttpT, KeptT
  <1>2. Booting'
    BY DEF RoleTypeOK, Booting
  <1>3. RoleMatches'
    BY Constants, Blanked DEF RoleTypeOK, Booting, RoleMatches, NoRole, Roles
  <1>4. ListMatches'
    BY Constants, Blanked DEF RoleTypeOK, Booting, ListMatches, IsLeader, Admits
  <1>5. Serving'
    BY DEF Serving
  <1> QED
    BY <1>1, <1>2, <1>3, <1>4, <1>5

LEMMA RestartSafe ==
    ASSUME RoleInv, Restart
    PROVE  RoleInv'
  <1> USE DEF RoleInv, Restart
  <1>1. RoleTypeOK'
    <2>1. (node \in NodeT)'
      BY Blanked
    <2>2. configured' \in BOOLEAN /\ reset' \in BOOLEAN /\ sle' \in {"none", "leader", "member"}
      BY Constants DEF RoleTypeOK, NvT
    <2>3. (configured => node.is.role # "none" /\ sle # "none")'
      OBVIOUS
    <2>4. (request \in Roles \cup {NoRole})'
      BY Constants DEF RoleTypeOK, NvT, HttpT
    <2>5. (main \in MainT)'
      BY Constants DEF RoleTypeOK, MainT
    <2>6. (http \in HttpT)'
      BY Constants DEF RoleTypeOK, HttpT, Idle
    <2>7. (kept \in KeptT)'
      BY Constants DEF RoleTypeOK, KeptT
    <2>8. (~node.list.only => node.list.ids = {})'
      BY Blanked DEF Open
    <2> QED
      BY <2>1, <2>2, <2>3, <2>4, <2>5, <2>6, <2>7, <2>8 DEF RoleTypeOK, NvT, NodeT, MainT, HttpT, KeptT
  <1>2. Booting'
    BY DEF RoleTypeOK, Booting
  <1>3. RoleMatches'
    BY Constants, Blanked DEF RoleTypeOK, Booting, RoleMatches, NoRole, Roles
  <1>4. ListMatches'
    BY Constants, Blanked DEF RoleTypeOK, Booting, ListMatches, IsLeader, Admits
  <1>5. Serving'
    BY DEF Serving
  <1> QED
    BY <1>1, <1>2, <1>3, <1>4, <1>5

LEMMA HttpRoleSafe ==
    ASSUME RoleInv, NEW is \in Roles, HttpRole(is)
    PROVE  RoleInv'
  <1> USE DEF RoleInv, HttpRole, Queues
  <1>1. RoleTypeOK'
    <2>1. (request \in Roles \cup {NoRole})'
      BY Constants DEF RoleTypeOK, NvT, HttpT
    <2>2. (kept \in KeptT)'
      BY Constants DEF RoleTypeOK, KeptT
    <2> QED
      BY <2>1, <2>2 DEF RoleTypeOK, NvT, NodeT, MainT, HttpT, KeptT
  <1>2. Booting'
    BY DEF RoleTypeOK, Booting
  <1>3. RoleMatches'
    BY Constants, Blanked DEF RoleTypeOK, Booting, RoleMatches, NoRole, Roles
  <1>4. ListMatches'
    BY Constants, Blanked DEF RoleTypeOK, Booting, ListMatches, IsLeader, Admits
  <1>5. Serving'
    BY Constants, Blanked DEF RoleTypeOK, Serving, NoRole
  <1> QED
    BY <1>1, <1>2, <1>3, <1>4, <1>5

LEMMA HttpConfigSafe ==
    ASSUME RoleInv, NEW is \in Roles, NEW now \in BOOLEAN, NEW ok \in BOOLEAN, HttpConfig(is, now, ok)
    PROVE  RoleInv'
  <1> USE DEF RoleInv, HttpConfig, SavesRole
  <1>1. RoleTypeOK'
    <2>1. (nv \in NvT)'
      BY Constants DEF RoleTypeOK, NvT
    <2>2. (http \in HttpT)'
      BY Constants DEF RoleTypeOK, HttpT, Idle
    <2>3. (kept \in KeptT)'
      BY Constants DEF RoleTypeOK, KeptT
    <2> QED
      BY <2>1, <2>2, <2>3 DEF RoleTypeOK, NvT, NodeT, MainT, HttpT, KeptT
  <1>2. Booting'
    BY DEF RoleTypeOK, Booting
  <1>3. RoleMatches'
    BY Constants, Blanked DEF RoleTypeOK, Booting, RoleMatches, NoRole, Roles
  <1>4. ListMatches'
    BY Constants, Blanked DEF RoleTypeOK, Booting, ListMatches, IsLeader, Admits
  <1>5. Serving'
    BY Constants, Blanked DEF RoleTypeOK, Serving, NoRole
  <1> QED
    BY <1>1, <1>2, <1>3, <1>4, <1>5

LEMMA HttpApplySafe ==
    ASSUME RoleInv, HttpApply
    PROVE  RoleInv'
  <1> USE DEF RoleInv, HttpApply, Queues
  <1>1. RoleTypeOK'
    <2>1. (request \in Roles \cup {NoRole})'
      BY Constants DEF RoleTypeOK, NvT, HttpT
    <2>2. (http \in HttpT)'
      BY Constants DEF RoleTypeOK, HttpT, Idle
    <2>3. (kept \in KeptT)'
      BY Constants DEF RoleTypeOK, KeptT
    <2> QED
      BY <2>1, <2>2, <2>3 DEF RoleTypeOK, NvT, NodeT, MainT, HttpT, KeptT
  <1>2. Booting'
    BY DEF RoleTypeOK, Booting
  <1>3. RoleMatches'
    BY Constants, Blanked DEF RoleTypeOK, Booting, RoleMatches, NoRole, Roles
  <1>4. ListMatches'
    BY Constants, Blanked DEF RoleTypeOK, Booting, ListMatches, IsLeader, Admits
  <1>5. Serving'
    BY Constants, Blanked DEF RoleTypeOK, Serving, NoRole
  <1> QED
    BY <1>1, <1>2, <1>3, <1>4, <1>5

LEMMA ApplySavedSafe ==
    ASSUME RoleInv, NEW free \in BOOLEAN, ApplySaved(free)
    PROVE  RoleInv'
  <1> USE DEF RoleInv, ApplySaved, Queues
  <1>1. RoleTypeOK'
    <2>1. (request \in Roles \cup {NoRole})'
      BY Constants DEF RoleTypeOK, NvT, HttpT
    <2>2. (kept \in KeptT)'
      BY Constants DEF RoleTypeOK, KeptT
    <2> QED
      BY <2>1, <2>2 DEF RoleTypeOK, NvT, NodeT, MainT, HttpT, KeptT
  <1>2. Booting'
    BY DEF RoleTypeOK, Booting
  <1>3. RoleMatches'
    BY Constants, Blanked DEF RoleTypeOK, Booting, RoleMatches, NoRole, Roles
  <1>4. ListMatches'
    BY Constants, Blanked DEF RoleTypeOK, Booting, ListMatches, IsLeader, Admits
  <1>5. Serving'
    BY Constants, Blanked DEF RoleTypeOK, Serving, NoRole
  <1> QED
    BY <1>1, <1>2, <1>3, <1>4, <1>5

LEMMA HttpClearSafe ==
    ASSUME RoleInv, NEW ok \in BOOLEAN, HttpClear(ok)
    PROVE  RoleInv'
  <1> USE DEF RoleInv, HttpClear, SavesRole
  <1>1. RoleTypeOK'
    <2>1. (nv \in NvT)'
      BY Constants DEF RoleTypeOK, NvT
    <2>2. (kept \in KeptT)'
      BY Constants DEF RoleTypeOK, KeptT
    <2> QED
      BY <2>1, <2>2 DEF RoleTypeOK, NvT, NodeT, MainT, HttpT, KeptT
  <1>2. Booting'
    BY DEF RoleTypeOK, Booting
  <1>3. RoleMatches'
    BY Constants, Blanked DEF RoleTypeOK, Booting, RoleMatches, NoRole, Roles
  <1>4. ListMatches'
    BY Constants, Blanked DEF RoleTypeOK, Booting, ListMatches, IsLeader, Admits
  <1>5. Serving'
    BY Constants, Blanked DEF RoleTypeOK, Serving, NoRole
  <1> QED
    BY <1>1, <1>2, <1>3, <1>4, <1>5

LEMMA CliConfigSafe ==
    ASSUME RoleInv, NEW is \in Roles, NEW now \in BOOLEAN, NEW ok \in BOOLEAN, CliConfig(is, now, ok)
    PROVE  RoleInv'
  <1> USE DEF RoleInv, CliConfig, SavesRole, CliFree
  <1>1. RoleTypeOK'
    <2>1. (nv \in NvT)'
      BY Constants DEF RoleTypeOK, NvT
    <2>2. (request \in Roles \cup {NoRole})'
      BY Constants DEF RoleTypeOK, NvT, HttpT
    <2>3. (kept \in KeptT)'
      BY Constants DEF RoleTypeOK, KeptT
    <2> QED
      BY <2>1, <2>2, <2>3 DEF RoleTypeOK, NvT, NodeT, MainT, HttpT, KeptT
  <1>2. Booting'
    BY DEF RoleTypeOK, Booting
  <1>3. RoleMatches'
    BY Constants, Blanked DEF RoleTypeOK, Booting, RoleMatches, NoRole, Roles
  <1>4. ListMatches'
    BY Constants, Blanked DEF RoleTypeOK, Booting, ListMatches, IsLeader, Admits
  <1>5. Serving'
    BY Constants, Blanked DEF RoleTypeOK, Serving, NoRole
  <1> QED
    BY <1>1, <1>2, <1>3, <1>4, <1>5

LEMMA CliClearSafe ==
    ASSUME RoleInv, NEW okRole \in BOOLEAN, NEW ok \in BOOLEAN, CliClear(okRole, ok)
    PROVE  RoleInv'
  <1> USE DEF RoleInv, CliClear, CliFree
  <1>1. RoleTypeOK'
    <2>1. (nv \in NvT)'
      BY Constants DEF RoleTypeOK, NvT
    <2>2. (node \in NodeT)'
      BY Constants, Blanked DEF RoleTypeOK, NodeT, NvT
    <2>3. (configured => node.is.role # "none" /\ sle # "none")'
      BY Constants DEF RoleTypeOK, NvT, NodeT, NoRole
    <2>4. (kept \in KeptT)'
      BY Constants DEF RoleTypeOK, KeptT
    <2>5. (~node.list.only => node.list.ids = {})'
      BY Constants, Blanked DEF RoleTypeOK, NodeT, Open
    <2> QED
      BY <2>1, <2>2, <2>3, <2>4, <2>5 DEF RoleTypeOK, NvT, NodeT, MainT, HttpT, KeptT
  <1>2. Booting'
    BY DEF RoleTypeOK, Booting
  <1>3. RoleMatches'
    BY Constants, Blanked DEF RoleTypeOK, Booting, RoleMatches, NoRole, Roles
  <1>4. ListMatches'
    BY Constants, Blanked DEF RoleTypeOK, Booting, ListMatches, IsLeader, Admits
  <1>5. Serving'
    BY Constants, Blanked DEF RoleTypeOK, Serving, NoRole
  <1> QED
    BY <1>1, <1>2, <1>3, <1>4, <1>5

LEMMA HttpResetSafe ==
    ASSUME RoleInv, NEW ok \in BOOLEAN, HttpReset(ok)
    PROVE  RoleInv'
  <1> USE DEF RoleInv, HttpReset, SavesRole
  <1>1. RoleTypeOK'
    <2>1. (nv \in NvT)'
      BY Constants DEF RoleTypeOK, NvT
    <2>2. (http \in HttpT)'
      BY Constants DEF RoleTypeOK, HttpT, Idle
    <2>3. (kept \in KeptT)'
      BY Constants DEF RoleTypeOK, KeptT
    <2> QED
      BY <2>1, <2>2, <2>3 DEF RoleTypeOK, NvT, NodeT, MainT, HttpT, KeptT
  <1>2. Booting'
    BY DEF RoleTypeOK, Booting
  <1>3. RoleMatches'
    BY Constants, Blanked DEF RoleTypeOK, Booting, RoleMatches, NoRole, Roles
  <1>4. ListMatches'
    BY Constants, Blanked DEF RoleTypeOK, Booting, ListMatches, IsLeader, Admits
  <1>5. Serving'
    BY Constants, Blanked DEF RoleTypeOK, Serving, NoRole
  <1> QED
    BY <1>1, <1>2, <1>3, <1>4, <1>5

LEMMA HttpResetListSafe ==
    ASSUME RoleInv, NEW ok \in BOOLEAN, HttpResetList(ok)
    PROVE  RoleInv'
  <1> USE DEF RoleInv, HttpResetList
  <1>1. RoleTypeOK'
    <2>1. (nv \in NvT)'
      BY Constants DEF RoleTypeOK, NvT
    <2>2. (http \in HttpT)'
      BY Constants DEF RoleTypeOK, HttpT, Idle
    <2>3. (kept \in KeptT)'
      BY Constants DEF RoleTypeOK, KeptT
    <2> QED
      BY <2>1, <2>2, <2>3 DEF RoleTypeOK, NvT, NodeT, MainT, HttpT, KeptT
  <1>2. Booting'
    BY DEF RoleTypeOK, Booting
  <1>3. RoleMatches'
    BY Constants, Blanked DEF RoleTypeOK, Booting, RoleMatches, NoRole, Roles
  <1>4. ListMatches'
    BY Constants, Blanked DEF RoleTypeOK, Booting, ListMatches, IsLeader, Admits
  <1>5. Serving'
    BY Constants, Blanked DEF RoleTypeOK, Serving, NoRole
  <1> QED
    BY <1>1, <1>2, <1>3, <1>4, <1>5

LEMMA HttpResetDoneSafe ==
    ASSUME RoleInv, HttpResetDone
    PROVE  RoleInv'
  <1> USE DEF RoleInv, HttpResetDone
  <1>1. RoleTypeOK'
    <2>1. (node \in NodeT)'
      BY Constants, Blanked DEF RoleTypeOK, NodeT, NvT
    <2>2. configured' \in BOOLEAN /\ reset' \in BOOLEAN /\ sle' \in {"none", "leader", "member"}
      BY Constants DEF RoleTypeOK, NvT
    <2>3. (configured => node.is.role # "none" /\ sle # "none")'
      BY Constants DEF RoleTypeOK, NvT, NodeT, NoRole
    <2>4. (http \in HttpT)'
      BY Constants DEF RoleTypeOK, HttpT, Idle
    <2>5. (kept \in KeptT)'
      BY Constants DEF RoleTypeOK, KeptT
    <2>6. (~node.list.only => node.list.ids = {})'
      BY Constants, Blanked DEF RoleTypeOK, NodeT, Open
    <2> QED
      BY <2>1, <2>2, <2>3, <2>4, <2>5, <2>6 DEF RoleTypeOK, NvT, NodeT, MainT, HttpT, KeptT
  <1>2. Booting'
    BY DEF RoleTypeOK, Booting
  <1>3. RoleMatches'
    BY Constants, Blanked DEF RoleTypeOK, Booting, RoleMatches, NoRole, Roles
  <1>4. ListMatches'
    BY Constants, Blanked DEF RoleTypeOK, Booting, ListMatches, IsLeader, Admits
  <1>5. Serving'
    BY Constants, Blanked DEF RoleTypeOK, Serving, NoRole
  <1> QED
    BY <1>1, <1>2, <1>3, <1>4, <1>5

LEMMA LeaveSafe ==
    ASSUME RoleInv, NEW free \in BOOLEAN, NEW ok \in BOOLEAN, Leave(free, ok)
    PROVE  RoleInv'
  <1> USE DEF RoleInv, Leave, SavesRole
  <1>1. RoleTypeOK'
    <2>1. (nv \in NvT)'
      BY Constants DEF RoleTypeOK, NvT
    <2>2. (node \in NodeT)'
      BY Blanked
    <2>3. configured' \in BOOLEAN /\ reset' \in BOOLEAN /\ sle' \in {"none", "leader", "member"}
      BY Constants DEF RoleTypeOK, NvT
    <2>4. (configured => node.is.role # "none" /\ sle # "none")'
      BY Constants DEF RoleTypeOK, NvT, NodeT, NoRole
    <2>5. (request \in Roles \cup {NoRole})'
      BY Constants DEF RoleTypeOK, NvT, HttpT
    <2>6. (kept \in KeptT)'
      BY Constants DEF RoleTypeOK, KeptT
    <2>7. (~node.list.only => node.list.ids = {})'
      BY Blanked DEF Open
    <2> QED
      BY <2>1, <2>2, <2>3, <2>4, <2>5, <2>6, <2>7 DEF RoleTypeOK, NvT, NodeT, MainT, HttpT, KeptT
  <1>2. Booting'
    BY DEF RoleTypeOK, Booting
  <1>3. RoleMatches'
    BY Constants, Blanked DEF RoleTypeOK, Booting, RoleMatches, NoRole, Roles
  <1>4. ListMatches'
    BY Constants, Blanked DEF RoleTypeOK, Booting, ListMatches, IsLeader, Admits
  <1>5. Serving'
    BY Constants DEF Serving, IsMember
  <1> QED
    BY <1>1, <1>2, <1>3, <1>4, <1>5

LEMMA HttpSelectSafe ==
    ASSUME RoleInv, NEW net \in Net, NEW ok \in BOOLEAN, HttpSelect(net, ok)
    PROVE  RoleInv'
  <1> USE DEF RoleInv, HttpSelect, SavesRole, CliFree, IsMember
  <1>1. RoleTypeOK'
    <2>1. (nv \in NvT)'
      <3>1. [role |-> "member", net |-> net] \in Roles
        BY DEF Roles
      <3> QED
        BY <3>1 DEF RoleTypeOK, NvT
    <2>2. (node \in NodeT)'
      BY Constants, Blanked DEF RoleTypeOK, NodeT, NvT
    <2>3. (configured => node.is.role # "none" /\ sle # "none")'
      BY Constants DEF RoleTypeOK, NvT, NodeT, NoRole
    <2>4. (kept \in KeptT)'
      BY Constants DEF RoleTypeOK, KeptT
    <2>5. (~node.list.only => node.list.ids = {})'
      BY Constants, Blanked DEF RoleTypeOK, NodeT, Open
    <2> QED
      BY <2>1, <2>2, <2>3, <2>4, <2>5 DEF RoleTypeOK, NvT, NodeT, MainT, HttpT, KeptT
  <1>2. Booting'
    BY DEF RoleTypeOK, Booting
  <1>3. RoleMatches'
    BY Constants, Blanked DEF RoleTypeOK, Booting, RoleMatches, NoRole, Roles
  <1>4. ListMatches'
    BY Constants, Blanked DEF RoleTypeOK, Booting, ListMatches, IsLeader, Admits
  <1>5. Serving'
    BY Constants, Blanked DEF RoleTypeOK, Serving, NoRole
  <1> QED
    BY <1>1, <1>2, <1>3, <1>4, <1>5

LEMMA PairingSafe ==
    ASSUME RoleInv, NEW free \in BOOLEAN, Pairing(free)
    PROVE  RoleInv'
  <1> USE DEF RoleInv, Pairing, IsLeader
  <1>a. node' \in NodeT /\ node'.is = node.is /\ node'.list = [node.list EXCEPT !.only = TRUE]
    <2>1. node \in NodeT
      BY DEF RoleTypeOK, NodeT
    <2>2. [node.list EXCEPT !.only = TRUE] \in Lists
      BY <2>1 DEF Lists, NodeT
    <2>3. node' = [node EXCEPT !.list = [node.list EXCEPT !.only = TRUE], !.pairing = TRUE]
      BY DEF NodeT
    <2> QED
      BY <2>1, <2>2, <2>3 DEF NodeT
  <1>b. ~node'.list.only => node'.list.ids = {}
    BY <1>a DEF RoleTypeOK, Lists
  <1>1. RoleTypeOK'
    <2>1. (node \in NodeT)'
      BY <1>a
    <2>2. (configured => node.is.role # "none" /\ sle # "none")'
      BY <1>a DEF RoleTypeOK
    <2>3. (~node.list.only => node.list.ids = {})'
      BY <1>b
    <2> QED
      BY <2>1, <2>2, <2>3 DEF RoleTypeOK, NvT, NodeT, MainT, HttpT, KeptT
  <1>2. Booting'
    BY DEF RoleTypeOK, Booting
  <1>3. RoleMatches'
    BY <1>a DEF RoleTypeOK, Booting, RoleMatches
  <1>4. ListMatches'
    BY <1>a DEF RoleTypeOK, Booting, ListMatches, IsLeader, Admits, Lists
  <1>5. Serving'
    BY <1>a DEF RoleTypeOK, Serving
  <1> QED
    BY <1>1, <1>2, <1>3, <1>4, <1>5

LEMMA HttpSealsSafe ==
    ASSUME RoleInv, NEW known \in SUBSET Member, NEW pairing \in BOOLEAN, NEW told \in BOOLEAN, HttpSeals(known, pairing, told)
    PROVE  RoleInv'
  <1> USE DEF RoleInv, HttpSeals, IsLeader
  <1>a. node' \in NodeT /\ node'.is = node.is /\ node'.list = Sealed(known)
    <2>1. node \in NodeT
      BY DEF RoleTypeOK, NodeT
    <2>2. Sealed(known) \in Lists
      BY <2>1 DEF Lists, NodeT, Sealed
    <2>3. node' = [node EXCEPT !.list = Sealed(known), !.pairing = pairing]
      OBVIOUS
    <2> QED
      BY <2>1, <2>2, <2>3 DEF NodeT
  <1>b. ~node'.list.only => node'.list.ids = {}
    BY <1>a DEF RoleTypeOK, Lists, Sealed
  <1>1. RoleTypeOK'
    <2>1. (node \in NodeT)'
      BY <1>a
    <2>2. (configured => node.is.role # "none" /\ sle # "none")'
      BY <1>a DEF RoleTypeOK
    <2>3. (http \in HttpT)'
      BY Constants DEF RoleTypeOK, HttpT, Idle
    <2>4. (kept \in KeptT)'
      BY Constants DEF RoleTypeOK, KeptT
    <2>5. (~node.list.only => node.list.ids = {})'
      BY <1>b
    <2> QED
      BY <2>1, <2>2, <2>3, <2>4, <2>5 DEF RoleTypeOK, NvT, NodeT, MainT, HttpT, KeptT
  <1>2. Booting'
    BY DEF RoleTypeOK, Booting
  <1>3. RoleMatches'
    BY <1>a DEF RoleTypeOK, Booting, RoleMatches
  <1>4. ListMatches'
    BY <1>a DEF RoleTypeOK, Booting, ListMatches, IsLeader, Admits
  <1>5. Serving'
    BY <1>a DEF RoleTypeOK, Serving
  <1> QED
    BY <1>1, <1>2, <1>3, <1>4, <1>5

LEMMA HttpSavesListSafe ==
    ASSUME RoleInv, NEW ok \in BOOLEAN, HttpSavesList(ok)
    PROVE  RoleInv'
  <1> USE DEF RoleInv, HttpSavesList, SavesList
  <1>1. RoleTypeOK'
    <2>1. (nv \in NvT)'
      BY Constants DEF RoleTypeOK, NvT
    <2>2. (http \in HttpT)'
      BY Constants DEF RoleTypeOK, HttpT, Idle
    <2>3. (kept \in KeptT)'
      BY Constants DEF RoleTypeOK, KeptT
    <2> QED
      BY <2>1, <2>2, <2>3 DEF RoleTypeOK, NvT, NodeT, MainT, HttpT, KeptT
  <1>2. Booting'
    BY DEF RoleTypeOK, Booting
  <1>3. RoleMatches'
    BY Constants, Blanked DEF RoleTypeOK, Booting, RoleMatches, NoRole, Roles
  <1>4. ListMatches'
    BY Constants, Blanked DEF RoleTypeOK, Booting, ListMatches, IsLeader, Admits
  <1>5. Serving'
    BY Constants, Blanked DEF RoleTypeOK, Serving, NoRole
  <1> QED
    BY <1>1, <1>2, <1>3, <1>4, <1>5

LEMMA CliListSafe ==
    ASSUME RoleInv, NEW list \in Lists, NEW ok \in BOOLEAN, ~list.only => list.ids = {}, CliList(list, ok)
    PROVE  RoleInv'
  <1> USE DEF RoleInv, CliList, SavesList, CliFree
  <1>a. node' \in NodeT /\ node'.is = node.is /\ node'.list = list
    <2>1. node \in NodeT
      BY DEF RoleTypeOK, NodeT
    <2>2. list \in Lists
      BY <2>1 DEF Lists, NodeT
    <2>3. node' = [node EXCEPT !.list = list]
      OBVIOUS
    <2> QED
      BY <2>1, <2>2, <2>3, Relisted
  <1>b. ~node'.list.only => node'.list.ids = {}
    BY <1>a DEF RoleTypeOK, Lists
  <1>1. RoleTypeOK'
    <2>1. (nv \in NvT)'
      BY Constants DEF RoleTypeOK, NvT
    <2>2. (node \in NodeT)'
      BY <1>a
    <2>3. (configured => node.is.role # "none" /\ sle # "none")'
      BY <1>a DEF RoleTypeOK
    <2>4. (kept \in KeptT)'
      BY Constants DEF RoleTypeOK, KeptT
    <2>5. (~node.list.only => node.list.ids = {})'
      BY <1>b
    <2> QED
      BY <2>1, <2>2, <2>3, <2>4, <2>5 DEF RoleTypeOK, NvT, NodeT, MainT, HttpT, KeptT
  <1>2. Booting'
    BY DEF RoleTypeOK, Booting
  <1>3. RoleMatches'
    BY <1>a DEF RoleTypeOK, Booting, RoleMatches
  <1>4. ListMatches'
    BY <1>a DEF RoleTypeOK, Booting, ListMatches, IsLeader, Admits
  <1>5. Serving'
    BY <1>a DEF RoleTypeOK, Serving
  <1> QED
    BY <1>1, <1>2, <1>3, <1>4, <1>5

LEMMA CliStopSafe ==
    ASSUME RoleInv, NEW known \in SUBSET Member, CliStop(known)
    PROVE  RoleInv'
  <1> USE DEF RoleInv, CliStop, IsLeader, CliFree
  <1>a. node' \in NodeT /\ node'.is = node.is /\ node'.list = Sealed(known)
    <2>1. node \in NodeT
      BY DEF RoleTypeOK, NodeT
    <2>2. Sealed(known) \in Lists
      BY <2>1 DEF Lists, NodeT, Sealed
    <2>3. node' = [node EXCEPT !.list = Sealed(known), !.pairing = FALSE]
      OBVIOUS
    <2> QED
      BY <2>1, <2>2, <2>3 DEF NodeT
  <1>b. ~node'.list.only => node'.list.ids = {}
    BY <1>a DEF RoleTypeOK, Lists, Sealed
  <1>1. RoleTypeOK'
    <2>1. (node \in NodeT)'
      BY <1>a
    <2>2. (configured => node.is.role # "none" /\ sle # "none")'
      BY <1>a DEF RoleTypeOK
    <2>3. (kept \in KeptT)'
      BY Constants DEF RoleTypeOK, KeptT
    <2>4. (~node.list.only => node.list.ids = {})'
      BY <1>b
    <2> QED
      BY <2>1, <2>2, <2>3, <2>4 DEF RoleTypeOK, NvT, NodeT, MainT, HttpT, KeptT
  <1>2. Booting'
    BY DEF RoleTypeOK, Booting
  <1>3. RoleMatches'
    BY <1>a DEF RoleTypeOK, Booting, RoleMatches
  <1>4. ListMatches'
    BY <1>a DEF RoleTypeOK, Booting, ListMatches, IsLeader, Admits
  <1>5. Serving'
    BY <1>a DEF RoleTypeOK, Serving
  <1> QED
    BY <1>1, <1>2, <1>3, <1>4, <1>5

LEMMA Starts == RoleInit => RoleInv
  <1> SUFFICES ASSUME RoleInit PROVE RoleInv
    OBVIOUS
  <1> USE DEF RoleInit
  <1>1. RoleTypeOK
    <2>1. nv \in NvT /\ node \in NodeT /\ (~node.list.only => node.list.ids = {})
      BY Constants, Blanked DEF NvT, Open
    <2>2. main \in MainT /\ http \in HttpT /\ kept \in KeptT
      BY Constants DEF MainT, HttpT, KeptT, Idle
    <2> QED
      BY <2>1, <2>2, Constants DEF RoleTypeOK, NvT, NodeT, MainT, HttpT, KeptT
  <1> QED
    BY <1>1 DEF RoleInv, Booting, Serving, RoleMatches, ListMatches, IsLeader

(* The lists of the command line name nobody unless they are for some only. *)
LEMMA CliAllowSafe ==
    ASSUME RoleInv, NEW ok \in BOOLEAN, CliAllow(ok)
    PROVE  RoleInv'
  <1>1. node.list \in Lists /\ (~node.list.only => node.list.ids = {})
    BY DEF RoleInv, RoleTypeOK
  <1>2. CASE CliList(Open, ok)
    BY <1>2, Constants, CliListSafe DEF Open
  <1>3. ASSUME NEW ids \in (SUBSET Member) \ {{}}, CliList([only |-> TRUE, ids |-> ids], ok)
        PROVE  RoleInv'
    <2>1. [only |-> TRUE, ids |-> ids] \in Lists
      BY DEF Lists
    <2> QED
      BY <1>3, <2>1, CliListSafe
  <1>4. ASSUME NEW m \in Member, CliList(Sealed({m}), ok)
        PROVE  RoleInv'
    <2>1. Sealed({m}) \in Lists /\ Sealed({m}).only
      BY <1>1 DEF Lists, Sealed
    <2> QED
      BY <1>4, <2>1, CliListSafe
  <1>5. ASSUME NEW m \in node.list.ids, CliList([node.list EXCEPT !.ids = @ \ {m}], ok)
        PROVE  RoleInv'
    <2> DEFINE list == [node.list EXCEPT !.ids = @ \ {m}]
    <2>1. list \in Lists /\ (~list.only => list.ids = {})
      BY <1>1 DEF Lists
    <2>2. CliList(list, ok)
      BY <1>5
    <2> HIDE DEF list
    <2> QED
      BY <2>1, <2>2, CliListSafe
  <1> QED
    BY <1>2, <1>3, <1>4, <1>5 DEF CliAllow

LEMMA StepsKeep ==
    ASSUME RoleInv, [RoleNext]_roleVars
    PROVE  RoleInv'
  <1>1. CASE Restore \/ RestoreApply
    BY <1>1, RestoreSafe, AppliedSafe
  <1>2. CASE Serve
    BY <1>2, ServeBeginSafe, AppliedSafe, ServeSaveSafe DEF Serve
  <1>3. CASE Restart
    BY <1>3, RestartSafe
  <1>4. CASE HttpApply \/ HttpResetDone
    BY <1>4, HttpApplySafe, HttpResetDoneSafe
  <1>5. CASE \E free \in {HttpFree, CliFree} : ApplySaved(free) \/ Pairing(free)
    <2>1. HttpFree \in BOOLEAN /\ CliFree \in BOOLEAN
      BY DEF HttpFree, CliFree
    <2> QED
      BY <1>5, <2>1, ApplySavedSafe, PairingSafe
  <1>6. ASSUME NEW is \in Roles, HttpRole(is)
        PROVE  RoleInv'
    BY <1>6, HttpRoleSafe
  <1>7. ASSUME NEW known \in SUBSET Member, CliStop(known)
        PROVE  RoleInv'
    BY <1>7, CliStopSafe
  <1>8. ASSUME NEW ok \in BOOLEAN, Settings(ok)
        PROVE  RoleInv'
    <2>1. CASE \E is \in Roles, now \in BOOLEAN : HttpConfig(is, now, ok) \/ CliConfig(is, now, ok)
      BY <2>1, HttpConfigSafe, CliConfigSafe
    <2>2. CASE HttpClear(ok)
      BY <2>2, HttpClearSafe
    <2>3. CASE HttpReset(ok) \/ HttpResetList(ok)
      BY <2>3, HttpResetSafe, HttpResetListSafe
    <2>4. CASE Leave(HttpFree, ok) \/ Leave(CliFree, ok)
      <3>1. HttpFree \in BOOLEAN /\ CliFree \in BOOLEAN
        BY DEF HttpFree, CliFree
      <3> QED
        BY <2>4, <3>1, LeaveSafe
    <2>5. CASE \E net \in Net : HttpSelect(net, ok)
      BY <2>5, HttpSelectSafe
    <2> QED
      BY <1>8, <2>1, <2>2, <2>3, <2>4, <2>5 DEF Settings
  <1>9. ASSUME NEW ok \in BOOLEAN, HttpSavesList(ok) \/ CliAllow(ok)
        PROVE  RoleInv'
    BY <1>9, HttpSavesListSafe, CliAllowSafe
  <1>10. ASSUME NEW ok \in BOOLEAN, NEW known \in SUBSET Member,
                HttpSeals(known, FALSE, ok) \/ HttpSeals(known, node.pairing, ok)
         PROVE  RoleInv'
    <2>1. node.pairing \in BOOLEAN
      BY DEF RoleInv, RoleTypeOK
    <2> QED
      BY <1>10, <2>1, HttpSealsSafe
  <1>12. ASSUME NEW okRole \in BOOLEAN, NEW ok \in BOOLEAN, CliClear(okRole, ok)
         PROVE  RoleInv'
    BY <1>12, CliClearSafe
  <1>11. CASE UNCHANGED roleVars
    BY <1>11 DEF roleVars, RoleInv, RoleTypeOK, Booting, Serving, RoleMatches, ListMatches,
                 IsLeader, Admits
  <1> QED
    <2>1. \A m \in Member : {m} \in SUBSET Member
      OBVIOUS
    <2> QED
      BY <1>1, <1>2, <1>3, <1>4, <1>5, <1>6, <1>7, <1>8, <1>9, <1>10, <1>11, <1>12, <2>1 DEF RoleNext

LEMMA RoleInvariant == RoleSpec => []RoleInv
  <1>1. RoleInit => RoleInv
    BY Starts
  <1>2. RoleInv /\ [RoleNext]_roleVars => RoleInv'
    BY StepsKeep
  <1> QED
    BY <1>1, <1>2, PTL DEF RoleSpec

(* Whom a leader admits, and the role a device would restore, agree with    *)
(* what flash holds, unless a later write is said to have parted them,      *)
(* though two threads write the same items and any write may fail.          *)
THEOREM RoleStaysSafe == RoleSpec => []RoleSafety
  <1>1. RoleInv => RoleSafety
    BY DEF RoleInv, RoleSafety, RoleMatches, ListMatches, AdmitsAsSaved, RoleAsSaved
  <1> QED
    BY <1>1, RoleInvariant, PTL

(* A role that was taken is not replaced by another one: requests, saved    *)
(* settings and a restore all find the device configured.                   *)
THEOREM RoleIsKept == RoleSpec => RoleSticks
  <1>1. ASSUME RoleInv, [RoleNext]_roleVars
        PROVE  [configured /\ configured' => node'.is.role = node.is.role]_roleVars
    <2> SUFFICES ASSUME configured, configured', RoleNext
                 PROVE  node'.is.role = node.is.role
      BY <1>1
    <2>1. node \in NodeT /\ main.at # "boot"
      BY <1>1 DEF RoleInv, RoleTypeOK, Booting, NodeT
    <2> USE DEF NodeT
    <2>2. CASE Restore \/ RestoreApply
      BY <2>1, <2>2 DEF Restore, RestoreApply, Applies, ServerFails, Becomes
    <2>3. CASE Serve
      BY <2>1, <2>3 DEF Serve, ServeBegin, ServeApply, Applies, ServeSave, Becomes, ServerFails
    <2>4. CASE Restart
      BY <2>4 DEF Restart
    <2>5. CASE \E free \in {HttpFree, CliFree} : ApplySaved(free) \/ Pairing(free)
      BY <2>1, <2>5 DEF ApplySaved, Pairing
    <2>6. CASE HttpApply \/ HttpResetDone
      BY <2>1, <2>6 DEF HttpApply, HttpResetDone
    <2>7. CASE \E is \in Roles : HttpRole(is)
      BY <2>7 DEF HttpRole
    <2>8. CASE \E known \in SUBSET Member : CliStop(known)
      BY <2>1, <2>8 DEF CliStop
    <2>9. ASSUME NEW ok \in BOOLEAN, Settings(ok)
          PROVE  node'.is.role = node.is.role
      <3>1. CASE \/ \E is \in Roles, now \in BOOLEAN : HttpConfig(is, now, ok) \/ CliConfig(is, now, ok)
                 \/ HttpClear(ok) \/ HttpReset(ok) \/ HttpResetList(ok)
        BY <3>1 DEF HttpConfig, CliConfig, HttpClear, HttpReset, HttpResetList
      <3>3. CASE Leave(HttpFree, ok) \/ Leave(CliFree, ok)
        BY <3>3 DEF Leave
      <3>4. CASE \E net \in Net : HttpSelect(net, ok)
        BY <2>1, <3>4 DEF HttpSelect
      <3> QED
        BY <2>9, <3>1, <3>3, <3>4 DEF Settings
    <2>14. ASSUME NEW okRole \in BOOLEAN, NEW ok \in BOOLEAN, CliClear(okRole, ok)
           PROVE  node'.is.role = node.is.role
      BY <2>1, <2>14 DEF CliClear
    <2>10. ASSUME NEW ok \in BOOLEAN, HttpSavesList(ok)
           PROVE  node'.is.role = node.is.role
      BY <2>10 DEF HttpSavesList
    <2>11. ASSUME NEW list, NEW ok \in BOOLEAN, CliList(list, ok)
           PROVE  node'.is.role = node.is.role
      BY <2>1, <2>11 DEF CliList
    <2>12. ASSUME NEW ok \in BOOLEAN, CliAllow(ok)
           PROVE  node'.is.role = node.is.role
      BY <2>11, <2>12 DEF CliAllow
    <2>13. ASSUME NEW ok \in BOOLEAN, NEW known \in SUBSET Member, NEW pairing,
                  HttpSeals(known, pairing, ok)
           PROVE  node'.is.role = node.is.role
      BY <2>1, <2>13 DEF HttpSeals
    <2> QED
      <3>1. \A m \in Member : {m} \in SUBSET Member
        OBVIOUS
      <3> QED
        BY <2>2, <2>3, <2>4, <2>5, <2>6, <2>7, <2>8, <2>9, <2>10, <2>12, <2>13, <2>14, <3>1 DEF RoleNext
  <1> QED
    BY <1>1, RoleInvariant, PTL DEF RoleSpec, RoleSticks
=============================================================================
