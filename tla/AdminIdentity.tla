--------------------------- MODULE AdminIdentity ---------------------------
(***************************************************************************)
(* The control-plane identities of one drust host, as meta.sqlite keeps    *)
(* them: the admins and their roles (mgmt/admin_team.rs), the personal     *)
(* access tokens they hold (mgmt/admin_pat.rs, auth/admin_token.rs), the   *)
(* CLI device-login codes (mgmt/cli_device.rs) and the owner column of the *)
(* tenants (mgmt/tenant_settings.rs).                                      *)
(*                                                                         *)
(* Every handler is a job.  Its first step is the middleware: the caller's *)
(* role, or the CLI token's row id, is read in a critical section of its   *)
(* own.  Its second step is the critical section of the handler, which     *)
(* works with what the first step captured, however stale.  A handler that *)
(* revoked something then clears the auth cache and evicts the rooms, each *)
(* a step; what those two do is in module PatRevocation.                   *)
(*                                                                         *)
(* Row ids are SQLite rowids without AUTOINCREMENT: the next id is one     *)
(* more than the largest id in use, so the id of the newest row is used    *)
(* again once that row is gone.                                            *)
(***************************************************************************)
EXTENDS Integers, FiniteSets

CONSTANTS
    MaxAdmin,    \* bound: admin ids are 1..MaxAdmin
    MaxTok,      \* bound: token row ids are 1..MaxTok
    MaxSecret,   \* bound: plaintexts generated in one behaviour
    Tenants,     \* the live tenants
    Codes,       \* device codes
    Jobs         \* handlers that may be in flight at the same time

ASSUME IdentityAssumption ==
    /\ MaxAdmin \in Nat \ {0}
    /\ MaxTok \in Nat \ {0}
    /\ MaxSecret \in Nat \ {0}
    /\ "nocode" \notin Codes

VARIABLES
    role,      \* admins.role by id, "none" where there is no row
    tok,       \* the rows of _admin_tokens
    code,      \* the rows of _cli_device_codes
    owner,     \* tenants.owner_admin_id, 0 for NULL
    job,       \* the handlers in flight
    secrets,   \* how many plaintexts were generated
    handed     \* history: the plaintexts each device code's polls were given

idVars == <<role, tok, code, owner, job, secrets, handed>>

Admins == 1 .. MaxAdmin
TokIds == 1 .. MaxTok
Roles == {"owner", "admin", "member"}

(* auth: tenant_authz's predicates over the role column. *)
SeesAllTenants(r) == r \in {"owner", "admin"}
CanManageMembers(r) == r \in {"owner", "admin"}
CanManagePrivileged(r) == r = "owner"

(* The reach of an admin's tokens: the whole host, or the tenants owned. *)
Reaches == [wide : BOOLEAN, ids : SUBSET Tenants]
NoReach == [wide |-> FALSE, ids |-> {}]
ReadPatReach(rl, ow, a) ==
    IF rl[a] = "none" \/ SeesAllTenants(rl[a])
    THEN [wide |-> TRUE, ids |-> {}]
    ELSE [wide |-> FALSE, ids |-> {t \in Tenants : ow[t] = a}]

(* A token row.  History: chain names the device login it descends from,   *)
(* astray says that a refresh in another admin's name revoked it.          *)
NoTok == [used |-> FALSE, live |-> FALSE, expired |-> FALSE, admin |-> 0,
          label |-> "ui", secret |-> 0, chain |-> "nocode", astray |-> FALSE]
TokRows == [used : BOOLEAN, live : BOOLEAN, expired : BOOLEAN,
            admin : 0 .. MaxAdmin, label : {"ui", "cli"},
            secret : 0 .. MaxSecret, chain : Codes \cup {"nocode"},
            astray : BOOLEAN]
UiTok(a, s) == [used |-> TRUE, live |-> TRUE, expired |-> FALSE, admin |-> a,
                label |-> "ui", secret |-> s, chain |-> "nocode",
                astray |-> FALSE]
CliTok(a, s, c) == [used |-> TRUE, live |-> TRUE, expired |-> FALSE,
                    admin |-> a, label |-> "cli", secret |-> s, chain |-> c,
                    astray |-> FALSE]

(* A device code's row; own is the plaintext minted for it (history).      *)
NoCode == [st |-> "none", expired |-> FALSE, minted |-> 0, own |-> 0]
CodeRows == [st : {"none", "pending", "approved", "denied", "redeemed",
                   "swept"},
             expired : BOOLEAN, minted : 0 .. MaxTok, own : 0 .. MaxSecret]

Idle == [pc |-> "idle", by |-> 0, byTok |-> 0, seen |-> "none",
         who |-> {}, reach |-> NoReach]
Called(a, t, r) == [pc |-> "ready", by |-> a, byTok |-> t, seen |-> r,
                    who |-> {}, reach |-> NoReach]
Aftermath(pc, w, r) == [pc |-> pc, by |-> 0, byTok |-> 0, seen |-> "none",
                        who |-> w, reach |-> r]
JobRows == [pc : {"idle", "ready", "clear", "evict"},
            by : 0 .. MaxAdmin, byTok : 0 .. MaxTok,
            seen : Roles \cup {"none", "ui", "cli"}, who : SUBSET Admins, reach : Reaches]

TypeOK ==
    /\ role \in [Admins -> Roles \cup {"none"}]
    /\ tok \in [TokIds -> TokRows]
    /\ code \in [Codes -> CodeRows]
    /\ owner \in [Tenants -> 0 .. MaxAdmin]
    /\ job \in [Jobs -> JobRows]
    /\ secrets \in 0 .. MaxSecret
    /\ handed \in [Codes -> SUBSET (0 .. MaxSecret)]

----------------------------------------------------------------------------
(* SQLite's choice of a rowid, one more than the largest one in the table. *)
IsNextAdmin(id) ==
    /\ id \in Admins
    /\ \A b \in Admins : role[b] # "none" => b < id
    /\ \E b \in Admins : role[b] # "none" /\ id = b + 1

IsNextTok(id) ==
    /\ id \in TokIds
    /\ \A t \in TokIds : tok[t].used => t < id
    /\ \/ id = 1
       \/ \E t \in TokIds : tok[t].used /\ id = t + 1

(* The host after its first boot: one owner, holding the UI token that the *)
(* boot migration backfills.                                               *)
Init ==
    /\ role = [a \in Admins |-> IF a = 1 THEN "owner" ELSE "none"]
    /\ tok = [t \in TokIds |-> IF t = 1 THEN UiTok(1, 1) ELSE NoTok]
    /\ code = [c \in Codes |-> NoCode]
    /\ owner = [t \in Tenants |-> 1]
    /\ job = [j \in Jobs |-> Idle]
    /\ secrets = 1
    /\ handed = [c \in Codes |-> {}]

----------------------------------------------------------------------------
(* Middleware.                                                             *)

(* admin_session_layer found the session's admin and admin_profile_layer   *)
(* read the role: the handler keeps this copy of it.                       *)
AdmitAdmin(j, a) ==
    /\ job[j].pc = "idle"
    /\ role[a] # "none"
    /\ job' = [job EXCEPT ![j] = Called(a, 0, role[a])]
    /\ UNCHANGED <<role, tok, code, owner, secrets, handed>>

(* resolve_cli_caller: the bearer's row id, admin and label, read under a  *)
(* lock that is released before the handler takes its own.                 *)
ResolveCliCaller(j, t) ==
    /\ job[j].pc = "idle"
    /\ tok[t].live /\ ~tok[t].expired
    /\ job' = [job EXCEPT ![j] = Called(tok[t].admin, t, tok[t].label)]
    /\ UNCHANGED <<role, tok, code, owner, secrets, handed>>

AdminReady(j) == job[j].pc = "ready" /\ job[j].byTok = 0
CliReady(j) == job[j].pc = "ready" /\ job[j].byTok # 0

(* The handler answers and is gone. *)
Return(j) == job' = [job EXCEPT ![j] = Idle]

(* An early return: an error answer, nothing written. *)
Refuse(j) == Return(j) /\ UNCHANGED <<role, tok, code, owner, secrets, handed>>

(* The write committed; the caches of admins w are to be cleared, then the *)
(* rooms in reach r evicted.                                               *)
Revoked(j, w, r) ==
    job' = [job EXCEPT ![j] = Aftermath("clear", w, r)]

----------------------------------------------------------------------------
(* admin_team.rs                                                           *)

(* insert_one_admin: the admin row and its unlabelled token.               *)
InsertOneAdmin(a, t, r) ==
    /\ IsNextAdmin(a) /\ IsNextTok(t)
    /\ secrets < MaxSecret
    /\ role' = [role EXCEPT ![a] = r]
    /\ tok' = [tok EXCEPT ![t] = UiTok(a, secrets + 1)]
    /\ secrets' = secrets + 1

InviteAllowed(seen, r) ==
    /\ CanManageMembers(seen)
    /\ SeesAllTenants(r) => CanManagePrivileged(seen)

InviteAdmin(j, r) ==
    /\ AdminReady(j)
    /\ \/ /\ InviteAllowed(job[j].seen, r)
          /\ \E a \in Admins, t \in TokIds : InsertOneAdmin(a, t, r)
          /\ Return(j)
          /\ UNCHANGED <<code, owner, handed>>
       \/ Refuse(j)      \* not a manager, privileged role, e-mail taken

(* Fault: the query forgets "AND id != ?1" and finds the target itself.    *)
FaultOtherOwner(a) == \E b \in Admins : role[b] = "owner"

(* The guard against losing the last owner, inside the transaction. *)
OtherOwner(a) == \E b \in Admins \ {a} : role[b] = "owner"

RoleChangeAllowed(seen, a, r) ==
    /\ CanManageMembers(seen)
    /\ role[a] # "none"
    /\ SeesAllTenants(r) \/ SeesAllTenants(role[a]) => CanManagePrivileged(seen)
    /\ role[a] = "owner" /\ r # "owner" => OtherOwner(a)

ChangeRole(j, a, r) ==
    /\ AdminReady(j)
    /\ \/ /\ RoleChangeAllowed(job[j].seen, a, r)
          /\ role[a] # r
          /\ role' = [role EXCEPT ![a] = r]
          /\ Revoked(j, {a}, [wide |-> SeesAllTenants(role[a])
                                          /\ ~SeesAllTenants(r),
                              ids |-> {}])
          /\ UNCHANGED <<tok, code, owner, secrets, handed>>
       \/ /\ role[a] = r \/ ~RoleChangeAllowed(job[j].seen, a, r)
          /\ Refuse(j)

RemoveAllowed(seen, a) ==
    /\ CanManageMembers(seen)
    /\ role[a] # "none"
    /\ SeesAllTenants(role[a]) => CanManagePrivileged(seen)
    /\ role[a] = "owner" => OtherOwner(a)


(* DELETE FROM admins: the foreign keys drop the tokens and null the owner *)
(* column.  The reach is read before the row that it is derived from goes. *)
RemoveAdmin(j, a) ==
    /\ AdminReady(j)
    /\ \/ /\ RemoveAllowed(job[j].seen, a)
          /\ role' = [role EXCEPT ![a] = "none"]
          /\ tok' = [t \in TokIds |-> IF tok[t].admin = a THEN NoTok ELSE tok[t]]
          /\ owner' = [t \in Tenants |-> IF owner[t] = a THEN 0 ELSE owner[t]]
          /\ Revoked(j, {a}, ReadPatReach(role, owner, a))
          /\ UNCHANGED <<code, secrets, handed>>
       \/ ~RemoveAllowed(job[j].seen, a) /\ Refuse(j)

----------------------------------------------------------------------------
(* admin_pat.rs                                                            *)


(* reroll: revoke the unlabelled token and mint its successor.  The insert *)
(* fails on the foreign key when the caller's row is gone.                 *)
Reroll(j) ==
    /\ AdminReady(j)
    /\ LET a == job[j].by IN
       \/ /\ role[a] # "none"
          /\ secrets < MaxSecret
          /\ \E t \in TokIds :
                /\ IsNextTok(t)
                /\ tok' = [[u \in TokIds |->
                              IF tok[u].admin = a /\ tok[u].label = "ui"
                              THEN [tok[u] EXCEPT !.live = FALSE]
                              ELSE tok[u]]
                           EXCEPT ![t] = UiTok(a, secrets + 1)]
          /\ secrets' = secrets + 1
          /\ Revoked(j, {a}, ReadPatReach(role, owner, a))
          /\ UNCHANGED <<role, code, owner, handed>>
       \/ role[a] = "none" /\ Refuse(j)

(* Fault: the row count of the UPDATE is not looked at. *)
FaultRefreshRevokes(j) == TRUE

(* cli_token_refresh: only a caller with a labelled token; the row of that *)
(* id must still be unrevoked when the lock is taken, or the answer is     *)
(* CLI_TOKEN_ALREADY_ROTATED.  Whose row it is by then is not asked.       *)
RefreshRevokes(j) == tok[job[j].byTok].used /\ tok[job[j].byTok].live
Rotated(row, a) == [row EXCEPT !.live = FALSE, !.astray = row.admin # a]

CliTokenRefresh(j) ==
    /\ CliReady(j)
    /\ LET a == job[j].by
           o == job[j].byTok IN
       \/ /\ job[j].seen = "cli"
          /\ RefreshRevokes(j)
          /\ role[a] # "none"
          /\ secrets < MaxSecret
          /\ \E t \in TokIds :
                /\ IsNextTok(t)
                /\ tok' = [tok EXCEPT
                              ![o] = Rotated(tok[o], a),
                              ![t] = CliTok(a, secrets + 1, tok[o].chain)]
          /\ secrets' = secrets + 1
          /\ Revoked(j, {a}, ReadPatReach(role, owner, a))
          /\ UNCHANGED <<role, code, owner, handed>>
       \/ /\ \/ job[j].seen # "cli"
             \/ ~RefreshRevokes(j)
             \/ role[a] = "none"
          /\ Refuse(j)


(* The UPDATE of logout and of cli_token_revoke: the row must be a live    *)
(* labelled token of this admin.                                           *)
RevokeCli(j, t) ==
    LET a == job[j].by IN
    IF tok[t].live /\ tok[t].admin = a /\ tok[t].label = "cli"
    THEN /\ tok' = [tok EXCEPT ![t].live = FALSE]
         /\ Revoked(j, {a}, ReadPatReach(role, owner, a))
         /\ UNCHANGED <<role, code, owner, secrets, handed>>
    ELSE Refuse(j)


CliTokenLogout(j) == CliReady(j) /\ RevokeCli(j, job[j].byTok)

CliTokenRevoke(j, t) == AdminReady(j) /\ RevokeCli(j, t)

----------------------------------------------------------------------------

(* tenant_settings.rs: patch_tenant_owner, NULL (0) included.              *)
PatchTenantOwner(j, t, a) ==
    /\ AdminReady(j)
    /\ \/ /\ job[j].seen = "owner"
          /\ a # 0 => role[a] # "none"
          /\ owner' = [owner EXCEPT ![t] = a]
          /\ Revoked(j, {owner[t], a} \ {0},
                     [wide |-> FALSE,
                      ids |-> IF owner[t] # a THEN {t} ELSE {}])
          /\ UNCHANGED <<role, tok, code, secrets, handed>>
       \/ /\ \/ job[j].seen # "owner"
             \/ a # 0 /\ role[a] = "none"
          /\ Refuse(j)

----------------------------------------------------------------------------
(* cli_device.rs                                                           *)

DeviceStart(c) ==
    /\ code[c].st = "none"
    /\ code' = [code EXCEPT ![c].st = "pending"]
    /\ UNCHANGED <<role, tok, owner, job, secrets, handed>>

DeviceDeny(j, c) ==
    /\ AdminReady(j)
    /\ code' = [code EXCEPT ![c].st = IF @ = "pending" THEN "denied" ELSE @]
    /\ Return(j)
    /\ UNCHANGED <<role, tok, owner, secrets, handed>>

(* device_approve: re-check, mint and flip in one transaction. *)
DeviceApprove(j, c) ==
    /\ AdminReady(j)
    /\ LET a == job[j].by IN
       \/ /\ code[c].st = "pending" /\ ~code[c].expired
          /\ role[a] # "none"
          /\ secrets < MaxSecret
          /\ \E t \in TokIds :
                /\ IsNextTok(t)
                /\ tok' = [tok EXCEPT ![t] = CliTok(a, secrets + 1, c)]
                /\ code' = [code EXCEPT ![c].st = "approved",
                                        ![c].minted = t,
                                        ![c].own = secrets + 1]
          /\ secrets' = secrets + 1
          /\ Return(j)
          /\ UNCHANGED <<role, owner, handed>>
       \/ /\ \/ code[c].st # "pending"
             \/ code[c].expired
             \/ role[a] = "none"
          /\ Refuse(j)

(* device_poll of an approved code: redeem it, then read the plaintext of  *)
(* the row whose id the approval recorded.                                 *)
DevicePoll(c) ==
    /\ code[c].st = "approved" /\ ~code[c].expired
    /\ code' = [code EXCEPT ![c].st = "redeemed"]
    /\ handed' = [handed EXCEPT
                    ![c] = IF tok[code[c].minted].used
                           THEN @ \cup {tok[code[c].minted].secret}
                           ELSE @]
    /\ UNCHANGED <<role, tok, owner, job, secrets>>

(* The 15 minutes of a device code are over; the hourly sweep deletes it. *)
CodeExpires(c) ==
    /\ code[c].st \notin {"none", "swept"} /\ ~code[c].expired
    /\ code' = [code EXCEPT ![c].expired = TRUE]
    /\ UNCHANGED <<role, tok, owner, job, secrets, handed>>

SweepExpiredDeviceCodes ==
    /\ \E c \in Codes : code[c].expired /\ code[c].st # "swept"
    /\ code' = [c \in Codes |-> IF code[c].expired
                                THEN [code[c] EXCEPT !.st = "swept"]
                                ELSE code[c]]
    /\ UNCHANGED <<role, tok, owner, job, secrets, handed>>

(* cli_pat_ttl_secs: the lifetime of a labelled token is over. *)
TokenExpires(t) ==
    /\ tok[t].live /\ tok[t].label = "cli" /\ ~tok[t].expired
    /\ tok' = [tok EXCEPT ![t].expired = TRUE]
    /\ UNCHANGED <<role, code, owner, job, secrets, handed>>

----------------------------------------------------------------------------
(* After the commit: clear_admin_pat, then evict_reach. *)
ClearAdminPat(j) ==
    /\ job[j].pc = "clear"
    /\ job' = [job EXCEPT ![j] = Aftermath("evict", job[j].who, job[j].reach)]
    /\ UNCHANGED <<role, tok, code, owner, secrets, handed>>

EvictReach(j) ==
    /\ job[j].pc = "evict"
    /\ Return(j)
    /\ UNCHANGED <<role, tok, code, owner, secrets, handed>>

Commit(j) ==
    \/ \E r \in Roles : InviteAdmin(j, r)
    \/ \E a \in Admins, r \in Roles : ChangeRole(j, a, r)
    \/ \E a \in Admins : RemoveAdmin(j, a)
    \/ Reroll(j)
    \/ CliTokenRefresh(j)
    \/ CliTokenLogout(j)
    \/ \E t \in TokIds : CliTokenRevoke(j, t)
    \/ \E t \in Tenants, a \in 0 .. MaxAdmin : PatchTenantOwner(j, t, a)
    \/ \E c \in Codes : DeviceDeny(j, c) \/ DeviceApprove(j, c)

Admit(j) ==
    \/ \E a \in Admins : AdmitAdmin(j, a)
    \/ \E t \in TokIds : ResolveCliCaller(j, t)

DeviceStep(c) == DeviceStart(c) \/ DevicePoll(c) \/ CodeExpires(c)

Next ==
    \/ \E j \in Jobs : Admit(j) \/ Commit(j) \/ ClearAdminPat(j) \/ EvictReach(j)
    \/ \E c \in Codes : DeviceStep(c)
    \/ SweepExpiredDeviceCodes
    \/ \E t \in TokIds : TokenExpires(t)

Spec == Init /\ [][Next]_idVars

----------------------------------------------------------------------------
(* Properties.                                                             *)

(* However many demotions and removals are in flight, each deciding on a   *)
(* role it read earlier, the host keeps an owner: the LAST_OWNER checks of *)
(* change_role and remove_admin run in the transaction that writes.        *)
AtLeastOneOwner == \E a \in Admins : role[a] = "owner"

(* A device login has at most one live token at a time, however its        *)
(* refreshes race: the second refresh of one token finds it rotated.       *)
OneTokenPerLogin ==
    \A t, u \in TokIds :
        (/\ tok[t].live /\ tok[u].live
         /\ tok[t].chain # "nocode" /\ tok[t].chain = tok[u].chain)
        => t = u

(* No token outlives its admin: a live row's admin row exists. *)
NoOrphanToken == \A t \in TokIds : tok[t].used => role[tok[t].admin] # "none"

(* cli_device.rs: "approve mints a labeled, expiring PAT; the CLI's poll   *)
(* then collects it": what a poll hands out is the plaintext minted when   *)
(* this code was approved.  It does not hold once the row id of the minted *)
(* token was used again.                                                   *)
PollCollectsItsOwnToken == \A c \in Codes : handed[c] \subseteq {code[c].own}
============================================================================
