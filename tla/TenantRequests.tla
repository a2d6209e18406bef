--------------------------- MODULE TenantRequests ---------------------------
(***************************************************************************)
(* Caps and quotas: how many tenants a member may own, how much a tenant   *)
(* may store, and the two queues in which an increase is asked for and     *)
(* decided.  Every handler does its reads and writes under the meta lock,  *)
(* so it is one action; what is hard is the order of handlers and ids that *)
(* come back: admins.id is a rowid SQLite gives out again, a soft-deleted  *)
(* tenant id can be created again, and neither queue has a foreign key.    *)
(***************************************************************************)
EXTENDS Integers, FiniteSets

CONSTANTS
    AdminIds, TenantIds,
    ReqIds,         \* ids of the requests in each queue
    MaxQuotaTier,   \* MAX_TIER
    MaxCap,         \* MAX_CAP
    DefaultCap,     \* configured_default()
    DailyLimit,     \* daily_submit_limit(), 0 for none
    MaxEra,         \* bound: how often an id is given to somebody
    NoAdmin, NoTenant, NoReq

ASSUME RequestsAssumption ==
    /\ MaxQuotaTier \in Nat \ {0} /\ MaxCap \in Nat \ {0} /\ DefaultCap \in 0 .. MaxCap
    /\ DailyLimit \in Nat /\ MaxEra \in Nat
    /\ NoAdmin \notin AdminIds /\ NoAdmin \notin [role : {"owner", "admin", "member"}, bonus : Int]
    /\ NoTenant \notin [owner : AdminIds \cup {NoAdmin}, tier : Int, deleted : BOOLEAN]

VARIABLES
    adm,        \* admins: role, tenant_cap_bonus
    ten,        \* tenants: owner_admin_id, quota_tier, deleted_at
    capq,       \* tenant_cap_requests
    quoq,       \* quota_requests
    aera, tera  \* history: how often an id was given to an admin, a tenant

rqvars == <<adm, ten, capq, quoq, aera, tera>>
Roles == {"owner", "admin", "member"}
Bonuses == -DefaultCap .. MaxCap
AdmRows == [role : Roles, bonus : Bonuses] \cup {NoAdmin}
TenRows == [owner : AdminIds \cup {NoAdmin}, tier : 1 .. MaxQuotaTier, deleted : BOOLEAN]
           \cup {NoTenant}
Statuses == {"pending", "approved", "rejected"}
CapReqs == [by : AdminIds, want : 1 .. MaxCap, status : Statuses, today : BOOLEAN, era : 0 .. MaxEra]
           \cup {NoReq}
QuotaReqs == [of : TenantIds, by : AdminIds, want : 1 .. MaxQuotaTier, status : Statuses,
              today : BOOLEAN, era : 0 .. MaxEra, tera : 0 .. MaxEra] \cup {NoReq}

RqInit ==
    /\ adm \in [AdminIds -> {[role |-> "owner", bonus |-> 0], NoAdmin}]
    /\ \E a \in AdminIds : adm[a] # NoAdmin
    /\ ten = [t \in TenantIds |-> NoTenant]
    /\ capq = [r \in ReqIds |-> NoReq] /\ quoq = [r \in ReqIds |-> NoReq]
    /\ aera = [a \in AdminIds |-> 0] /\ tera = [t \in TenantIds |-> 0]

----------------------------------------------------------------------------
(* mgmt/tenant_cap.rs *)
EffectiveCap(bonus) == LET c == DefaultCap + bonus IN IF c < 0 THEN 0 ELSE c
BonusForTarget(cap) == cap - DefaultCap
SeesAllTenants(role) == role \in {"owner", "admin"}
LookupAdminCap(a) == EffectiveCap(adm[a].bonus)
LiveTenant(t) == ten[t] # NoTenant /\ ~ten[t].deleted
OwnedTenantCount(a) == Cardinality({t \in TenantIds : LiveTenant(t) /\ ten[t].owner = a})
MayCreateTenant(a) == SeesAllTenants(adm[a].role) \/ OwnedTenantCount(a) < LookupAdminCap(a)

Pending(q) == {r \in ReqIds : q[r] # NoReq /\ q[r].status = "pending"}
(* submits_today: rows created today, decided or not. *)
CapSubmitsToday(a) == Cardinality({r \in ReqIds : capq[r] # NoReq /\ capq[r].by = a /\ capq[r].today})
QuotaSubmitsToday(t) == Cardinality({r \in ReqIds : quoq[r] # NoReq /\ quoq[r].of = t /\ quoq[r].today})
UnderLimit(n) == DailyLimit = 0 \/ n < DailyLimit

(* The review pages: every pending row, joined to whoever has the id now. *)
CapRequestsPage == Pending(capq)
QuotaRequestsPage == Pending(quoq)

----------------------------------------------------------------------------
CreateCapRequest(a, r, cap) ==
    /\ adm[a] # NoAdmin /\ cap \in 1 .. MaxCap /\ cap > LookupAdminCap(a)
    /\ \A x \in Pending(capq) : capq[x].by # a
    /\ UnderLimit(CapSubmitsToday(a)) /\ capq[r] = NoReq
    /\ capq' = [capq EXCEPT ![r] = [by |-> a, want |-> cap, status |-> "pending", today |-> TRUE,
                                    era |-> aera[a]]]
    /\ UNCHANGED <<adm, ten, quoq, aera, tera>>
(* The cap may have moved since the request was filed: an approval reads   *)
(* it again.                                                               *)
CapDecidable(o, r, approve) ==
    /\ adm[o] # NoAdmin /\ adm[o].role = "owner" /\ r \in Pending(capq)
    /\ approve => adm[capq[r].by] # NoAdmin /\ capq[r].want > LookupAdminCap(capq[r].by)
DecideCapRequest(o, r, approve) ==
    /\ CapDecidable(o, r, approve)
    /\ adm' = IF approve THEN [adm EXCEPT ![capq[r].by].bonus = BonusForTarget(capq[r].want)] ELSE adm
    /\ capq' = [capq EXCEPT ![r].status = IF approve THEN "approved" ELSE "rejected"]
    /\ UNCHANGED <<ten, quoq, aera, tera>>
(* NULL, here -1, goes back to the default. *)
PatchAdminTenantCap(o, a, cap) ==
    /\ adm[o] # NoAdmin /\ adm[o].role = "owner" /\ adm[a] # NoAdmin
    /\ cap \in 1 .. MaxCap \/ cap = -1
    /\ adm' = [adm EXCEPT ![a].bonus = IF cap = -1 THEN 0 ELSE BonusForTarget(cap)]
    /\ UNCHANGED <<ten, capq, quoq, aera, tera>>

----------------------------------------------------------------------------
(* mgmt/quota_admin.rs.  Deciding and setting a tier are for owners. *)
CreateQuotaRequest(a, t, r, tr) ==
    /\ adm[a] # NoAdmin /\ tr \in 1 .. MaxQuotaTier /\ LiveTenant(t) /\ tr > ten[t].tier
    /\ SeesAllTenants(adm[a].role) \/ ten[t].owner = a
    /\ \A x \in Pending(quoq) : quoq[x].of # t
    /\ UnderLimit(QuotaSubmitsToday(t)) /\ quoq[r] = NoReq
    /\ quoq' = [quoq EXCEPT ![r] = [of |-> t, by |-> a, want |-> tr, status |-> "pending", today |-> TRUE,
                                    era |-> aera[a], tera |-> tera[t]]]
    /\ UNCHANGED <<adm, ten, capq, aera, tera>>
PatchTenantQuota(o, t, tr) ==
    /\ adm[o] # NoAdmin /\ adm[o].role = "owner" /\ LiveTenant(t)
    /\ ten' = [ten EXCEPT ![t].tier = tr]
    /\ UNCHANGED <<adm, capq, quoq, aera, tera>>
QuotaDecidable(o, r, approve) ==
    /\ adm[o] # NoAdmin /\ adm[o].role = "owner" /\ r \in Pending(quoq)
    /\ approve => LiveTenant(quoq[r].of) /\ quoq[r].want > ten[quoq[r].of].tier
DecideQuotaRequest(o, r, approve) ==
    /\ QuotaDecidable(o, r, approve)
    /\ ten' = IF approve THEN [ten EXCEPT ![quoq[r].of].tier = quoq[r].want] ELSE ten
    /\ quoq' = [quoq EXCEPT ![r].status = IF approve THEN "approved" ELSE "rejected"]
    /\ UNCHANGED <<adm, capq, aera, tera>>

(* mgmt/request_janitor.rs: decided rows past their retention. *)
Decided(q, r) == q[r] # NoReq /\ q[r].status # "pending" /\ ~q[r].today
PruneOnce ==
    /\ \E r \in ReqIds : Decided(capq, r) \/ Decided(quoq, r)
    /\ capq' = [r \in ReqIds |-> IF Decided(capq, r) THEN NoReq ELSE capq[r]]
    /\ quoq' = [r \in ReqIds |-> IF Decided(quoq, r) THEN NoReq ELSE quoq[r]]
    /\ UNCHANGED <<adm, ten, aera, tera>>
Midnight ==
    /\ \E r \in ReqIds : (capq[r] # NoReq /\ capq[r].today) \/ (quoq[r] # NoReq /\ quoq[r].today)
    /\ capq' = [r \in ReqIds |-> IF capq[r] = NoReq THEN NoReq ELSE [capq[r] EXCEPT !.today = FALSE]]
    /\ quoq' = [r \in ReqIds |-> IF quoq[r] = NoReq THEN NoReq ELSE [quoq[r] EXCEPT !.today = FALSE]]
    /\ UNCHANGED <<adm, ten, aera, tera>>

----------------------------------------------------------------------------
(* mgmt/admin_team.rs, mgmt/tenants/crud.rs, mgmt/tenant_settings.rs: the  *)
(* rows the queues point at.                                               *)
InviteAdmin(a) ==
    /\ adm[a] = NoAdmin /\ aera[a] < MaxEra
    /\ adm' = [adm EXCEPT ![a] = [role |-> "member", bonus |-> 0]]
    /\ aera' = [aera EXCEPT ![a] = @ + 1]
    /\ UNCHANGED <<ten, capq, quoq, tera>>
SetRole(a, role) ==
    /\ adm[a] # NoAdmin /\ adm' = [adm EXCEPT ![a].role = role]
    /\ UNCHANGED <<ten, capq, quoq, aera, tera>>
FaultRemoveAdmin(a) ==
    /\ adm[a] # NoAdmin /\ \E o \in AdminIds \ {a} : adm[o] # NoAdmin /\ adm[o].role = "owner"
    /\ adm' = [adm EXCEPT ![a] = NoAdmin]
    /\ capq' = [r \in ReqIds |-> IF capq[r] # NoReq /\ capq[r].by = a THEN NoReq ELSE capq[r]]
    /\ ten' = [t \in TenantIds |-> IF ten[t] # NoTenant /\ ten[t].owner = a
                                   THEN [ten[t] EXCEPT !.owner = NoAdmin] ELSE ten[t]]
    /\ UNCHANGED <<quoq, aera, tera>>
RemoveAdmin(a) ==
    /\ adm[a] # NoAdmin /\ \E o \in AdminIds \ {a} : adm[o] # NoAdmin /\ adm[o].role = "owner"
    /\ adm' = [adm EXCEPT ![a] = NoAdmin]
    /\ capq' = [r \in ReqIds |-> IF capq[r] # NoReq /\ capq[r].by = a THEN NoReq ELSE capq[r]]
    /\ quoq' = [r \in ReqIds |-> IF quoq[r] # NoReq /\ quoq[r].by = a THEN NoReq ELSE quoq[r]]
    /\ ten' = [t \in TenantIds |-> IF ten[t] # NoTenant /\ ten[t].owner = a
                                   THEN [ten[t] EXCEPT !.owner = NoAdmin] ELSE ten[t]]
    /\ UNCHANGED <<aera, tera>>
(* A deleted id is free to whoever may access what it was. *)
MakeTenant(a, t) ==
    /\ adm[a] # NoAdmin /\ MayCreateTenant(a) /\ ~LiveTenant(t) /\ tera[t] < MaxEra
    /\ ten[t] # NoTenant => SeesAllTenants(adm[a].role) \/ ten[t].owner = a
    /\ ten' = [ten EXCEPT ![t] = [owner |-> a, tier |-> 1, deleted |-> FALSE]]
    /\ quoq' = [r \in ReqIds |-> IF quoq[r] # NoReq /\ quoq[r].of = t THEN NoReq ELSE quoq[r]]
    /\ tera' = [tera EXCEPT ![t] = @ + 1]
    /\ UNCHANGED <<adm, capq, aera>>
SoftDeleteTenant(t) ==
    /\ LiveTenant(t) /\ ten' = [ten EXCEPT ![t].deleted = TRUE]
    /\ UNCHANGED <<adm, capq, quoq, aera, tera>>
TransferTenant(t, a) ==
    /\ LiveTenant(t) /\ adm[a] # NoAdmin /\ ten[t].owner # a
    /\ ten' = [ten EXCEPT ![t].owner = a]
    /\ UNCHANGED <<adm, capq, quoq, aera, tera>>

Asking ==
    \E a \in AdminIds, r \in ReqIds :
        \/ \E cap \in 1 .. MaxCap : CreateCapRequest(a, r, cap)
        \/ \E t \in TenantIds, tr \in 1 .. MaxQuotaTier : CreateQuotaRequest(a, t, r, tr)
Deciding ==
    \E o \in AdminIds :
        \/ \E r \in ReqIds, ok \in BOOLEAN : DecideCapRequest(o, r, ok) \/ DecideQuotaRequest(o, r, ok)
        \/ \E a \in AdminIds, cap \in -1 .. MaxCap : PatchAdminTenantCap(o, a, cap)
        \/ \E t \in TenantIds, tr \in 1 .. MaxQuotaTier : PatchTenantQuota(o, t, tr)
Housekeeping ==
    \/ \E a \in AdminIds : InviteAdmin(a) \/ RemoveAdmin(a) \/ \E role \in Roles : SetRole(a, role)
    \/ \E a \in AdminIds, t \in TenantIds : MakeTenant(a, t) \/ TransferTenant(t, a)
    \/ \E t \in TenantIds : SoftDeleteTenant(t)
    \/ PruneOnce \/ Midnight
RqNext == Asking \/ Deciding \/ Housekeeping
RqSpec == RqInit /\ [][RqNext]_rqvars

----------------------------------------------------------------------------
(* The state keeps its types. *)
RqTypeOK ==
    /\ adm \in [AdminIds -> AdmRows] /\ ten \in [TenantIds -> TenRows]
    /\ capq \in [ReqIds -> CapReqs] /\ quoq \in [ReqIds -> QuotaReqs]
    /\ aera \in [AdminIds -> 0 .. MaxEra] /\ tera \in [TenantIds -> 0 .. MaxEra]

(* The review pages name the right people: a pending request was filed by  *)
(* the admin who has its requester's id now, and for the tenant that has   *)
(* its tenant's id now.                                                    *)
ReviewTruth ==
    /\ \A r \in CapRequestsPage : adm[capq[r].by] # NoAdmin /\ capq[r].era = aera[capq[r].by]
    /\ \A r \in QuotaRequestsPage : /\ adm[quoq[r].by] # NoAdmin /\ quoq[r].era = aera[quoq[r].by]
                                    /\ ten[quoq[r].of] # NoTenant /\ quoq[r].tera = tera[quoq[r].of]

(* Approving never lowers what the subject has by now. *)
ApprovalRaises ==
    [][/\ \A r \in Pending(capq) : capq'[r] # NoReq /\ capq'[r].status = "approved"
             => EffectiveCap(adm'[capq[r].by].bonus) > LookupAdminCap(capq[r].by)
       /\ \A r \in Pending(quoq) : quoq'[r] # NoReq /\ quoq'[r].status = "approved"
             => ten'[quoq[r].of].tier > ten[quoq[r].of].tier]_rqvars
============================================================================
