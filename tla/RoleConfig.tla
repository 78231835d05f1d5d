----------------------------- MODULE RoleConfig -----------------------------
(***************************************************************************)
(* The role of a device and what flash remembers of it: the web server's   *)
(* thread queues a role request and saves settings, the main loop serves   *)
(* the request and the command line, and the power may go at any time.     *)
(* Both threads write the same two flash items, and neither takes a lock.  *)
(***************************************************************************)
EXTENDS Naturals

CONSTANTS
    Member,      \* ids an allowlist may hold
    Net,         \* networks: team, channel and the leader's MAC suffix
    MayFail,     \* flash, the transport or the link server may return an error
    Overlap      \* the web server may begin a request while a role is served

ASSUME RoleAssumption ==
    /\ Member # {} /\ Net # {} /\ 0 \notin Net
    /\ MayFail \in BOOLEAN /\ Overlap \in BOOLEAN

VARIABLES
    nv,          \* the two flash items: the role's settings, the allowlist
    node,        \* g_team_node.cfg
    configured,  \* role_configured
    request,     \* the queued role request, NoRole if none is pending
    main,        \* where the main loop is, and the request it copied
    http,        \* what is left of the web request that is being served
    sle,         \* the side of the link that was started
    reset,       \* a factory reset was confirmed and its reboot scheduled
    kept         \* history: what was last set was also saved and not written
                 \* over, a member left

roleVars == <<nv, node, configured, request, main, http, sle, reset, kept>>

NoRole == [role |-> "none", net |-> 0]
Roles == [role : {"leader", "member"}, net : Net]
Open == [only |-> FALSE, ids |-> {}]
Lists == [only : BOOLEAN, ids : SUBSET Member]
Idle == [op |-> "idle", with |-> NoRole, ok |-> TRUE]
Blank == [is |-> NoRole, list |-> Open, pairing |-> FALSE]

(* sle_team_node_is_member_allowed                                          *)
Admits(list) == IF list.only /\ list.ids # {} THEN list.ids ELSE Member

RoleTypeOK ==
    /\ nv \in [is : Roles \cup {NoRole}, list : Lists]
    /\ node \in [is : [role : {"none", "leader", "member"}, net : Net \cup {0}],
                 list : Lists, pairing : BOOLEAN]
    /\ configured \in BOOLEAN
    /\ configured => node.is.role # "none" /\ sle # "none"
    /\ request \in Roles \cup {NoRole}
    /\ main \in [at : {"boot", "restoring", "loop", "configured", "applied"}, is : Roles \cup {NoRole}]
    /\ http \in [op : {"idle", "apply", "save", "clearList", "open"},
                 with : Roles \cup {NoRole}, ok : BOOLEAN]
    /\ sle \in {"none", "leader", "member"}
    /\ reset \in BOOLEAN
    /\ kept \in [role : BOOLEAN, list : BOOLEAN, left : BOOLEAN]
    /\ ~node.list.only => node.list.ids = {}

RoleInit ==
    /\ nv = [is |-> NoRole, list |-> Open]
    /\ node = Blank /\ configured = FALSE /\ request = NoRole
    /\ main = [at |-> "boot", is |-> NoRole]
    /\ http = Idle /\ sle = "none" /\ reset = FALSE
    /\ kept = [role |-> TRUE, list |-> TRUE, left |-> FALSE]

IsLeader == configured /\ node.is.role = "leader"
IsMember == configured /\ node.is.role = "member"
HttpFree == http = Idle /\ (Overlap \/ main.at \in {"boot", "loop"})
CliFree == main.at = "loop"
Serves(done) == main' = [main EXCEPT !.at = done]
-----------------------------------------------------------------------------
(* Flash.  A write happens as a whole or returns an error; a blank item is  *)
(* not valid, and a list that is not valid opens the leader to all.         *)
Outcome(ok) == ok \/ MayFail

(* team_nv_config_save, team_nv_config_clear                                *)
SavesRole(is, ok) == nv' = IF ok THEN [nv EXCEPT !.is = is] ELSE nv

(* team_nv_allowed_save_from_node                                           *)
SavesList(list, ok) ==
    /\ nv' = IF ok /\ node.is.role = "leader" THEN [nv EXCEPT !.list = list] ELSE nv
    /\ kept' = [kept EXCEPT !.list = ok]

Loaded(list) == IF list.only /\ list.ids # {} THEN list ELSE Open
-----------------------------------------------------------------------------
(* The main loop: booting, and serving a request in steps.                  *)

(* team_configure_role.  A link side that runs is not started again.        *)
BecomesAnyway(is) ==
    /\ configured' = TRUE
    /\ node' = [is |-> is, pairing |-> FALSE,
                list |-> [only |-> is.role = "leader", ids |-> {}]]
    /\ sle' = IF sle = "none" THEN is.role ELSE sle

Becomes(is) == ~configured /\ BecomesAnyway(is)

ServerFails(is) ==
    /\ MayFail /\ ~configured /\ is.role = "member" /\ sle = "none"
    /\ node' = Blank
    /\ UNCHANGED <<configured, sle>>

(* team_restore_web_config, up to the end of team_configure_role            *)
Restore ==
    /\ main.at = "boot"
    /\ \/ nv.is = NoRole /\ Serves("loop") /\ UNCHANGED <<node, configured, sle>>
       \/ nv.is # NoRole /\ ServerFails(nv.is) /\ Serves("loop")
       \/ nv.is # NoRole /\ Becomes(nv.is) /\ main' = [at |-> "restoring", is |-> nv.is]
    /\ kept' = [kept EXCEPT !.role = TRUE]
    /\ UNCHANGED <<nv, request, http, reset>>

(* The leader's list, or the network of the leader a member belongs to      *)
Applies ==
    /\ node' = IF node.is.role = "leader" THEN [node EXCEPT !.list = Loaded(nv.list)]
                                          ELSE [node EXCEPT !.is.net = main.is.net]
    /\ kept' = IF node.is.role = "leader" THEN [kept EXCEPT !.list = TRUE] ELSE kept
    /\ UNCHANGED <<nv, configured, request, http, sle, reset>>

RestoreApply ==
    /\ main.at = "restoring" /\ main' = [at |-> "loop", is |-> NoRole]
    /\ Applies

(* A request that could not be served leaves the queue all the same.        *)
RefusedStays == UNCHANGED request

Refused == request' = NoRole

(* team_handle_role_request_once, up to the end of team_configure_role      *)
ServeBegin ==
    /\ CliFree /\ request # NoRole
    /\ \/ /\ Becomes(request)
          /\ main' = [at |-> "configured", is |-> request]
          /\ kept' = [kept EXCEPT !.role = TRUE] /\ UNCHANGED request
       \/ ServerFails(request) /\ Refused /\ UNCHANGED <<main, kept>>
       \/ configured /\ Refused /\ UNCHANGED <<node, configured, sle, main, kept>>
    /\ UNCHANGED <<nv, http, reset>>

ServeApply == main.at = "configured" /\ Serves("applied") /\ Applies

ServeSave(ok) ==
    /\ main.at = "applied" /\ main' = [at |-> "loop", is |-> NoRole]
    /\ SavesRole(IF main.is.role = "leader" THEN [main.is EXCEPT !.net = node.is.net] ELSE main.is, ok)
    /\ request' = NoRole
    /\ kept' = [kept EXCEPT !.role = @ /\ ok]
    /\ UNCHANGED <<node, configured, http, sle, reset>>

(* The power goes, or the task of a scheduled reboot lets the watchdog fire.*)
Restart ==
    /\ node' = Blank /\ configured' = FALSE /\ request' = NoRole
    /\ main' = [at |-> "boot", is |-> NoRole]
    /\ http' = Idle /\ sle' = "none" /\ reset' = FALSE
    /\ kept' = [role |-> TRUE, list |-> TRUE, left |-> FALSE]
    /\ UNCHANGED nv
-----------------------------------------------------------------------------
(* Settings, asked for by the web server or on the command line.            *)

(* team_request_role_config: nothing is queued on a configured device.      *)
Queues(is) ==
    /\ request' = IF ~configured /\ request = NoRole THEN is ELSE request
    /\ kept' = [kept EXCEPT !.left = FALSE]

HttpRole(is) ==
    /\ HttpFree /\ Queues(is)
    /\ UNCHANGED <<nv, node, configured, main, http, sle, reset>>

(* /api/config/leader and /api/config/member save first, apply afterwards.  *)
HttpConfig(is, now, ok) ==
    /\ HttpFree /\ SavesRole(is, ok)
    /\ http' = IF ok /\ now THEN [Idle EXCEPT !.op = "apply", !.with = is] ELSE Idle
    /\ kept' = [kept EXCEPT !.role = FALSE, !.left = FALSE]
    /\ UNCHANGED <<node, configured, request, main, sle, reset>>

HttpApply ==
    /\ http.op = "apply" /\ http' = Idle
    /\ Queues(http.with)
    /\ UNCHANGED <<nv, node, configured, main, sle, reset>>

(* team_cfg_apply_saved                                                     *)
ApplySaved(free) ==
    /\ free /\ nv.is # NoRole /\ Queues(nv.is)
    /\ UNCHANGED <<nv, node, configured, main, http, sle, reset>>

HttpClear(ok) ==
    /\ HttpFree /\ SavesRole(NoRole, ok)
    /\ kept' = [kept EXCEPT !.role = FALSE]
    /\ UNCHANGED <<node, configured, request, main, http, sle, reset>>

(* Saved, and applied at once when asked for: cfg leader, cfg member, and   *)
(* the short forms role leader and role member                              *)
CliConfig(is, now, ok) ==
    /\ CliFree /\ SavesRole(is, ok)
    /\ request' = IF ok /\ now /\ ~configured /\ request = NoRole THEN is ELSE request
    /\ kept' = [kept EXCEPT !.role = FALSE, !.left = FALSE]
    /\ UNCHANGED <<node, configured, main, http, sle, reset>>

(* cfg clear: team_cfg_clear_all_saved.  Either of its two writes may fail. *)
CliClear(okRole, okList) ==
    /\ CliFree
    /\ nv' = [is |-> IF okRole THEN NoRole ELSE nv.is,
              list |-> IF okList THEN Open ELSE nv.list]
    /\ node' = IF IsLeader THEN [node EXCEPT !.list = Open] ELSE node
    /\ kept' = [kept EXCEPT !.role = FALSE, !.list = okList]
    /\ UNCHANGED <<configured, request, main, http, sle, reset>>

(* A factory reset: the settings, the list, then the leader's own list.     *)
HttpReset(ok) ==
    /\ HttpFree /\ SavesRole(NoRole, ok)
    /\ http' = [Idle EXCEPT !.op = "clearList", !.ok = ok]
    /\ kept' = [kept EXCEPT !.role = FALSE]
    /\ UNCHANGED <<node, configured, request, main, sle, reset>>

HttpResetList(ok) ==
    /\ http.op = "clearList"
    /\ http' = [http EXCEPT !.op = "open", !.ok = @ /\ ok]
    /\ nv' = IF ok THEN [nv EXCEPT !.list = Open] ELSE nv
    /\ kept' = [kept EXCEPT !.list = FALSE]
    /\ UNCHANGED <<node, configured, request, main, sle, reset>>

HttpResetDone ==
    /\ http.op = "open" /\ http' = Idle
    /\ node' = IF IsLeader THEN [node EXCEPT !.list = Open] ELSE node
    /\ reset' = (reset \/ http.ok)
    /\ kept' = [kept EXCEPT !.list = FALSE]
    /\ UNCHANGED <<nv, configured, request, main, sle>>

(* team_member_reset_after_leave, for the page and for the command.         *)
Leave(free, ok) ==
    /\ free /\ IsMember
    /\ SavesRole(NoRole, ok)
    /\ configured' = FALSE /\ request' = NoRole /\ node' = Blank
    /\ kept' = [kept EXCEPT !.left = TRUE]
    /\ UNCHANGED <<main, http, sle, reset>>

(* /api/member/select                                                       *)
HttpSelect(net, ok) ==
    /\ HttpFree /\ IsMember
    /\ node' = [node EXCEPT !.is.net = net]
    /\ SavesRole([role |-> "member", net |-> net], ok)
    /\ kept' = [kept EXCEPT !.role = ok /\ CliFree]
    /\ UNCHANGED <<configured, request, main, http, sle, reset>>
-----------------------------------------------------------------------------
(* The leader's list.                                                       *)
Pairing(free) ==
    /\ free /\ IsLeader
    /\ node' = [node EXCEPT !.pairing = TRUE, !.list.only = TRUE]
    /\ UNCHANGED <<nv, configured, request, main, http, sle, reset, kept>>

Sealed(known) == [ids |-> node.list.ids \cup known, only |-> node.list.only \/ known # {}]

(* The page saves in a second step, and only if every member could be told. *)
HttpSeals(known, pairing, told) ==
    /\ HttpFree /\ IsLeader
    /\ node' = [node EXCEPT !.list = Sealed(known), !.pairing = pairing]
    /\ http' = IF told THEN [Idle EXCEPT !.op = "save"] ELSE Idle
    /\ kept' = [kept EXCEPT !.list = FALSE]
    /\ UNCHANGED <<nv, configured, request, main, sle, reset>>

HttpForgetsList(ok) ==
    /\ http.op = "save" /\ http' = Idle
    /\ kept' = [kept EXCEPT !.list = ok]
    /\ UNCHANGED <<nv, node, configured, request, main, sle, reset>>

HttpSavesList(ok) ==
    /\ http.op = "save" /\ http' = Idle
    /\ SavesList(node.list, ok)
    /\ UNCHANGED <<node, configured, request, main, sle, reset>>

(* team_cli_print saves when the answer begins with the words it knows:     *)
(* those of allow and of pairing approve, whatever their result.            *)
CliList(list, ok) ==
    /\ CliFree /\ IsLeader
    /\ node' = [node EXCEPT !.list = list]
    /\ SavesList(list, ok)
    /\ UNCHANGED <<configured, request, main, http, sle, reset>>

CliAllow(ok) ==
    \/ CliList(Open, ok)
    \/ \E ids \in (SUBSET Member) \ {{}} : CliList([only |-> TRUE, ids |-> ids], ok)
    \/ \E m \in Member : CliList(Sealed({m}), ok)
    \/ \E m \in node.list.ids : CliList([node.list EXCEPT !.ids = @ \ {m}], ok)

(* The answer to pairing stop is "pairing stop ret=...": none of them.      *)
CliStop(known) ==
    /\ CliFree /\ IsLeader
    /\ node' = [node EXCEPT !.list = Sealed(known), !.pairing = FALSE]
    /\ kept' = [kept EXCEPT !.list = FALSE]
    /\ UNCHANGED <<nv, configured, request, main, http, sle, reset>>
-----------------------------------------------------------------------------
Serve == ServeBegin \/ ServeApply \/ \E ok \in BOOLEAN : Outcome(ok) /\ ServeSave(ok)

Settings(ok) ==
    \/ \E is \in Roles, now \in BOOLEAN : HttpConfig(is, now, ok) \/ CliConfig(is, now, ok)
    \/ HttpClear(ok) \/ HttpReset(ok) \/ HttpResetList(ok)
    \/ Leave(HttpFree, ok) \/ Leave(CliFree, ok)
    \/ \E net \in Net : HttpSelect(net, ok)

RoleNext ==
    \/ Restore \/ RestoreApply \/ Serve \/ Restart
    \/ HttpApply \/ HttpResetDone \/ ApplySaved(HttpFree) \/ ApplySaved(CliFree)
    \/ Pairing(HttpFree) \/ Pairing(CliFree)
    \/ \E is \in Roles : HttpRole(is)
    \/ \E known \in SUBSET Member : CliStop(known)
    \/ \E ok \in {o \in BOOLEAN : Outcome(o)} :
         \/ \E okList \in {o \in BOOLEAN : Outcome(o)} : CliClear(ok, okList)
         \/ Settings(ok) \/ HttpSavesList(ok) \/ CliAllow(ok)
         \/ \E known \in SUBSET Member : HttpSeals(known, FALSE, ok)
         \/ \E m \in Member : HttpSeals({m}, node.pairing, ok)

RoleSpec == RoleInit /\ [][RoleNext]_roleVars

(* The main loop runs.                                                      *)
RoleFairSpec == RoleSpec /\ WF_roleVars(Restore \/ RestoreApply) /\ WF_roleVars(Serve)
-----------------------------------------------------------------------------
(* A device that has a role keeps it until it leaves or restarts, however   *)
(* the restoring of the saved role and requests of the web server meet.     *)
RoleSticks ==
    [][configured /\ configured' => node'.is.role = node.is.role]_roleVars

(* Whom a leader admits now it admits after a power cycle, once the last    *)
(* change was saved: an emptied list, a list that was never saved and a     *)
(* blank one all mean the same before and after.                            *)
AdmitsAsSaved ==
    IsLeader /\ main.at = "loop" /\ http = Idle /\ kept.list
        => Admits(node.list) = Admits(nv.list)

(* The role a device would restore is the one it has, unless somebody wrote *)
(* other settings for the next boot or cleared them: for the role it is     *)
(* taking now, after the request for it was taken from the queue.           *)
RoleAsSaved ==
    configured /\ main.at = "loop" /\ http = Idle /\ kept.role => nv.is = node.is

(* What a device has and what its flash holds agree.                        *)
RoleSafety == RoleTypeOK /\ AdmitsAsSaved /\ RoleAsSaved

(* The queue of one is freed again, whatever becomes of the request in it:  *)
(* it is served, it fails in the link server, it finds the device           *)
(* configured, or a leave, a reset and requests of the other thread meet    *)
(* its serving.  A request that stayed would shut out every later one.      *)
QueueIsFreed == request # NoRole ~> request = NoRole

(* A request is looked at before it leaves the queue (a queued role is      *)
(* executed by the main loop, versions/v1.2.7/VERSION.md:11).               *)
RequestIsRead ==
    [][request # NoRole /\ request' = NoRole /\ main.at = "applied" /\ main'.at = "loop"
         => configured]_roleVars

(* A list that was changed on the page or on the command line is saved      *)
(* (versions/v4.4.4/VERSION.md:17).                                         *)
AllowlistSaved ==
    IsLeader /\ main.at = "loop" /\ http = Idle => Admits(node.list) = Admits(nv.list)

(* After a factory reset was confirmed the device comes up without a role   *)
(* (versions/v1.2.6/VERSION.md:13, in Chinese: the page's factory reset     *)
(* clears the saved configuration and restarts into the unconfigured        *)
(* state).                                                                  *)
FactoryResetSticks == [][reset /\ ~reset' => nv.is = NoRole]_roleVars

(* A member that left comes up without a role                               *)
(* (versions/v1.2.9/MANIFEST.md:14, in Chinese: the settings are cleared    *)
(* after leave).                                                            *)
LeaveForgets == kept.left /\ main.at = "loop" /\ http = Idle => nv.is = NoRole
=============================================================================
