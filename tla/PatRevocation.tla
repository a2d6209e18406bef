--------------------------- MODULE PatRevocation ---------------------------
(***************************************************************************)
(* Admin tokens at the tenants' door: AdminIdentity composed with the      *)
(* bearer layer (tenant/router.rs), its auth cache (tenant/auth_cache.rs)  *)
(* and the WebSocket connections that evictions mark for closing           *)
(* (tenant/rooms/ws_auth.rs).  A connection is marked when its tenant's    *)
(* epoch was bumped after the connection captured it: that a bump reaches  *)
(* every such connection is RoomBus's EvictionReachesAll.                  *)
(*                                                                         *)
(* A request probes the cache, on a miss reads meta.sqlite, fills the      *)
(* cache and is admitted; a connect then captures the tenant's epoch.      *)
(* Other tasks run between any two of these.  A handler of AdminIdentity   *)
(* that revoked something clears cache entries and bumps epochs in its two *)
(* aftermath steps.                                                        *)
(***************************************************************************)
EXTENDS AdminIdentity

CONSTANT
    Reqs       \* requests and sockets that may exist at the same time

VARIABLES
    cache,     \* AuthCache by plaintext: the tenant and admin of the entry
    req        \* the requests in flight and the sockets they became

doorVars == <<cache, req>>
allVars == <<role, tok, code, owner, job, secrets, handed, cache, req>>

Secrets == 1 .. MaxSecret
NoEntry == [t |-> "none", admin |-> 0, valid |-> FALSE]
NoReq == [pc |-> "idle", s |-> 0, t |-> "none", admin |-> 0,
          marked |-> FALSE, valid |-> FALSE]

InitDoor ==
    /\ cache = [s \in Secrets |-> NoEntry]
    /\ req = [r \in Reqs |-> NoReq]

(* The bearer CTE and the PAT arm: an unrevoked row of a role that sees    *)
(* every tenant, or of the tenant's owner.                                 *)
MayEnter(s, a, t) ==
    \E i \in TokIds :
        /\ tok[i].live /\ tok[i].secret = s /\ tok[i].admin = a
        /\ SeesAllTenants(role[a]) \/ owner[t] = a
Expired(s) == \E i \in TokIds : tok[i].secret = s /\ tok[i].expired

StepReq(r, q) == req' = [req EXCEPT ![r] = q]

----------------------------------------------------------------------------
(* bearer_auth_layer *)

(* The cache probe: an entry bound to this tenant admits, an expired one   *)
(* is removed and refused, everything else is a miss.  `valid' is history: *)
(* was the credential good when the entry was written or the socket        *)
(* opened.                                                                 *)
Probe(r, s, t) ==
    /\ req[r].pc = "idle" /\ s <= secrets
    /\ \/ /\ cache[s].t = t /\ Expired(s)
          /\ cache' = [cache EXCEPT ![s] = NoEntry]
          /\ UNCHANGED req
       \/ /\ cache[s].t = t /\ ~ Expired(s)
          /\ StepReq(r, [NoReq EXCEPT !.pc = "admitted", !.s = s, !.t = t,
                                      !.admin = cache[s].admin])
          /\ UNCHANGED cache
       \/ /\ cache[s].t # t
          /\ StepReq(r, [NoReq EXCEPT !.pc = "miss", !.s = s, !.t = t])
          /\ UNCHANGED cache
    /\ UNCHANGED <<role, tok, code, owner, job, secrets, handed>>

ReadMeta(r) ==
    LET q == req[r] IN
    /\ q.pc = "miss"
    /\ \/ \E a \in Admins :
             /\ MayEnter(q.s, a, q.t) /\ ~ Expired(q.s)
             /\ StepReq(r, [q EXCEPT !.pc = "read", !.admin = a])
       \/ /\ Expired(q.s) \/ \A a \in Admins : ~ MayEnter(q.s, a, q.t)
          /\ StepReq(r, NoReq)
    /\ UNCHANGED <<role, tok, code, owner, job, secrets, handed, cache>>

(* auth_cache.insert, after the lock is gone. *)
Fill(r) ==
    LET q == req[r] IN
    /\ q.pc = "read"
    /\ cache' = [cache EXCEPT ![q.s] =
                    [t |-> q.t, admin |-> q.admin,
                     valid |-> MayEnter(q.s, q.admin, q.t)]]
    /\ StepReq(r, [q EXCEPT !.pc = "admitted"])
    /\ UNCHANGED <<role, tok, code, owner, job, secrets, handed>>

(* A REST request is served and gone; a connect captures its baseline.     *)
Serve(r) ==
    /\ req[r].pc = "admitted"
    /\ StepReq(r, NoReq)
    /\ UNCHANGED <<role, tok, code, owner, job, secrets, handed, cache>>

Capture(r) ==
    LET q == req[r] IN
    /\ q.pc = "admitted"
    /\ StepReq(r, [q EXCEPT !.pc = "open", !.valid = MayEnter(q.s, q.admin, q.t)])
    /\ UNCHANGED <<role, tok, code, owner, job, secrets, handed, cache>>

(* A socket closes: evicted, expired or hung up. *)
CloseSocket(r) ==
    /\ req[r].pc = "open"
    /\ StepReq(r, NoReq)
    /\ UNCHANGED <<role, tok, code, owner, job, secrets, handed, cache>>

(* The safety TTL of an entry is over, or a full map was cleared. *)
CacheLapse(s) ==
    /\ cache[s] # NoEntry
    /\ cache' = [cache EXCEPT ![s] = NoEntry]
    /\ UNCHANGED <<role, tok, code, owner, job, secrets, handed, req>>

----------------------------------------------------------------------------
(* The aftermath of a revocation. *)

FaultClearEntries(j) ==
    cache' = [s \in Secrets |->
                IF \E i \in TokIds : tok[i].secret = s /\ tok[i].live
                THEN cache[s] ELSE NoEntry]
ClearEntries(j) ==
    cache' = [s \in Secrets |->
                IF cache[s].admin \in job[j].who THEN NoEntry ELSE cache[s]]
Clear(j) == ClearAdminPat(j) /\ ClearEntries(j) /\ UNCHANGED req

(* evict_all_tenants on the sees-all arm, evict_tenant in a loop otherwise. *)
FaultBumpReach(j) ==
    req' = [r \in Reqs |->
              [req[r] EXCEPT !.marked = @ \/ (/\ req[r].pc = "open"
                                              /\ req[r].t \in job[j].reach.ids)]]
BumpReach(j) ==
    req' = [r \in Reqs |->
              [req[r] EXCEPT !.marked = @ \/ (/\ req[r].pc = "open"
                                              /\ \/ job[j].reach.wide
                                                 \/ req[r].t \in job[j].reach.ids)]]
Evict(j) == EvictReach(j) /\ BumpReach(j) /\ UNCHANGED cache

----------------------------------------------------------------------------
IdentityStep ==
    /\ \/ \E j \in Jobs : Admit(j) \/ Commit(j)
       \/ \E c \in Codes : DeviceStep(c)
       \/ SweepExpiredDeviceCodes
       \/ \E t \in TokIds : TokenExpires(t)
    /\ UNCHANGED doorVars

DoorNext ==
    \/ IdentityStep
    \/ \E j \in Jobs : Clear(j) \/ Evict(j)
    \/ \E r \in Reqs :
          \/ \E s \in Secrets, t \in Tenants : Probe(r, s, t)
          \/ ReadMeta(r) \/ Fill(r) \/ Serve(r) \/ Capture(r) \/ CloseSocket(r)
    \/ \E s \in Secrets : CacheLapse(s)

DoorInit == Init /\ InitDoor
DoorSpec == DoorInit /\ [][DoorNext]_allVars

----------------------------------------------------------------------------
(* Properties.                                                             *)

DoorTypeOK ==
    /\ TypeOK
    /\ cache \in [Secrets -> [t : Tenants \cup {"none"}, admin : 0 .. MaxAdmin,
                              valid : BOOLEAN]]
    /\ req \in [Reqs -> [pc : {"idle", "miss", "read", "admitted", "open"},
                         s : 0 .. MaxSecret, t : Tenants \cup {"none"},
                         admin : 0 .. MaxAdmin, marked : BOOLEAN,
                         valid : BOOLEAN]]

(* A revocation whose cache hook has not run yet and concerns admin a.     *)
Uncleared(a) == \E j \in Jobs : job[j].pc = "clear" /\ a \in job[j].who
(* A revocation whose eviction has not run yet and concerns tenant t.      *)
Unevicted(t) ==
    \E j \in Jobs : /\ job[j].pc \in {"clear", "evict"}
                    /\ job[j].reach.wide \/ t \in job[j].reach.ids

(* The credential still has its right to the tenant, or lost it to a       *)
(* refresh that was in flight while the row id changed hands: its handler  *)
(* clears and evicts for the admin it had resolved, not for the row's.     *)
StillHas(s, a, t) ==
    \E i \in TokIds :
        /\ tok[i].live \/ tok[i].astray
        /\ tok[i].secret = s /\ tok[i].admin = a
        /\ SeesAllTenants(role[a]) \/ owner[t] = a

(* Layer 1 of the auth cache: whatever ends a credential's right to a      *)
(* tenant (a revoked token, a lost role, a lost ownership, a removed       *)
(* admin) also clears its entry, once the hook has run.  Only an entry     *)
(* that was written after the right had ended can be stale.                *)
EntriesInvalidated ==
    \A s \in Secrets :
        (cache[s].t # "none" /\ cache[s].valid)
            => StillHas(s, cache[s].admin, cache[s].t) \/ Uncleared(cache[s].admin)

(* The reach read with the commit is wide enough: a socket that was opened *)
(* while its credential was good and whose credential has lost the tenant  *)
(* is marked for closing, or the eviction that will mark it is on its way. *)
ReachSuffices ==
    \A r \in Reqs :
        (req[r].pc = "open" /\ req[r].valid)
            => \/ StillHas(req[r].s, req[r].admin, req[r].t)
               \/ req[r].marked
               \/ Unevicted(req[r].t)
============================================================================
