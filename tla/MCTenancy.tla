------------------------------ MODULE MCTenancy ------------------------------
(***************************************************************************)
(* The planes beside a tenant's data, one scene each: its users and        *)
(* sessions (four scenes), caps and quotas (two), the audit log, and       *)
(* backups (two).                                                          *)
(***************************************************************************)
EXTENDS TenantUsers, TenantRequests, AuditLog, Backups

CONSTANTS OneUid, OneUri, OneRole, OneTenant, OneDir, OneTask

VARIABLE scene

mcvars == <<uvars, rqvars, avars, bvars, scene>>
UserScenes == {"login", "oauth", "service", "config"}
MCInit == scene \in UserScenes \cup {"caps", "quotas", "audit", "prune", "restore"} /\ rkey = OneRole
    /\ selfreg = (scene # "config") /\ provider = (IF scene = "oauth" THEN {OneUri} ELSE {}) /\ UInit
    /\ adm = [a \in AdminIds |-> IF a = 1 THEN [role |-> "owner", bonus |-> 0] ELSE NoAdmin] /\ RqInit
    /\ AInit /\ bdirs = {OneDir} /\ BInit
OneUser == \A u \in Uids \ {OneUid} : urow'[u] = NoUser
LoginScene ==
    /\ \/ \E t \in UTasks : UserRequest(t) \/ Door(t)
       \/ UTime
    /\ OneUser /\ \A k \in RoleToks : \A t \in UTasks : utask'[t].tok # k
OauthScene ==
    /\ \/ \E t \in UTasks : UserRequest(t) \/ OauthRequest(t) \/ Door(t)
       \/ \E uri \in Uris : StateExpires(uri)
       \/ SetSelfRegister
       \/ \E k \in Toks : SlideExpiry(k)
    /\ OneUser /\ \A k \in RoleToks : ucache'[k] = NoEntry
    /\ Cardinality({k \in Toks : ucache'[k] # NoEntry}) <= 1
ServiceScene ==
    /\ \E t \in UTasks : ServiceRequest(t) \/ Door(t) \/ RevokeUserRealtime(t)
          \/ (\E e \in Emails, p \in Pws : LoginRead(t, e, p)) \/ \E k \in Toks : LoginCreate(t, k)
    /\ \A k \in RoleToks : ucache'[k] = NoEntry
    /\ Cardinality(minted') <= 2
ConfigScene ==
    /\ \/ \E t \in UTasks : Door(t) \/ MeGet(t) \/ RegisterRead(t, AnyEmail, CHOOSE p \in Pws : TRUE)
             \/ \E u \in Uids, uri \in Uris : RegisterInsert(t, u) \/ OauthStart(t, uri)
       \/ UConfig \/ \E k \in Toks \cup RoleToks : EntryExpires(k)
    /\ OneUser
(* Caps without quota requests, quotas without cap requests. *)
CapScene ==
    /\ RqNext /\ UNCHANGED <<quoq, ten, tera>>
    /\ \A a \in AdminIds : adm'[a] # NoAdmin /\ a > 1 => adm'[a].role = "member"
QuotaScene ==
    /\ RqNext /\ UNCHANGED capq
    /\ \A a \in AdminIds : adm'[a] # NoAdmin => adm'[a].bonus = 0 /\ adm'[a].role \in {"owner", "member"}
    /\ \A a \in AdminIds : aera'[a] + tera'[OneTenant] <= 3 /\ (a > 1 /\ adm'[a] # NoAdmin => adm'[a].role = "member")
    /\ \A r \in ReqIds : quoq'[r] # NoReq => quoq'[r].want > 1
(* Pruning with the directories fixed, at most three runs of the script a  *)
(* day and one dated copy; the clock is stepped, copies are made and the   *)
(* script dies where it makes a difference to what is pruned.  Restoring   *)
(* with no day passing.                                                    *)
PruneScene ==
    /\ BNext /\ UNCHANGED <<bdirs, bsec, btask>> /\ bdirs = {OneDir}
    /\ bday' # bday => bscript.pc \in {"idle", "prune"}
    /\ bscript' = Idle => bscript.pc \in {"idle", "tar", "scan"}
    /\ Cardinality(barch') > Cardinality(barch) => bscript.pc \in {"idle", "dbs"}
    /\ bprune.left # {} => bscript' = bscript /\ barch' = barch
    /\ Cardinality({a \in barch' : a.day > 0 /\ a.n > MaxArchive}) <= 1 /\ \A a \in barch' : a.n # MaxArchive
RestoreScene ==
    /\ BNext /\ UNCHANGED bday /\ bdirs' \subseteq {OneDir}
    /\ (bdirs' # bdirs => bscript.pc = "idle" /\ barch # {})
    /\ (bscript' = Idle => bscript.pc \notin {"dbs"})
    /\ \A a \in barch' : a.day = 1 /\ a.n <= 2
    /\ Cardinality(brestored') <= 1
    /\ \A r \in BTasks : btask[r] = NoRestore /\ btask'[r] # NoRestore => r = OneTask \/ btask[OneTask] # NoRestore
MCNext ==
    /\ UNCHANGED scene
    /\ \/ /\ UNCHANGED <<rqvars, avars, bvars>>
          /\ \/ scene = "login" /\ LoginScene
             \/ scene = "oauth" /\ OauthScene
             \/ scene = "service" /\ ServiceScene
             \/ scene = "config" /\ ConfigScene
       \/ UNCHANGED <<uvars, avars, bvars>> /\ scene = "caps" /\ CapScene
       \/ UNCHANGED <<uvars, avars, bvars>> /\ scene = "quotas" /\ QuotaScene
       \/ UNCHANGED <<uvars, rqvars, bvars>> /\ scene = "audit" /\ ANext
       \/ UNCHANGED <<uvars, rqvars, avars>> /\ scene = "prune" /\ PruneScene
       \/ UNCHANGED <<uvars, rqvars, avars>> /\ scene = "restore" /\ RestoreScene
MCSpec == MCInit /\ [][MCNext]_mcvars /\ AFair
============================================================================
