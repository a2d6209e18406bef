------------------------- MODULE WebhookDispatcher -------------------------
(***************************************************************************)
(* Outbound calls: webhook subscriptions, the fan-out of record events,    *)
(* deliveries with retries under per-tenant and global permits, the fetch  *)
(* of edge functions, and the egress allowlist that gates all of them.  A  *)
(* fan-out reads the allowlist once; a version counter tells its           *)
(* deliveries, which may wait long for a permit, when that read is stale.  *)
(***************************************************************************)
EXTENDS Naturals, FiniteSets

CONSTANTS
    WTenants, Origins,
    HookIds,            \* bound: ids of subscriptions, never used twice
    MaxHooks,           \* DRUST_WEBHOOK_MAX_PER_TENANT
    Attempts,           \* length of the backoff schedule
    PerTenant, Global,  \* delivery permits
    Fans, Deliveries,   \* bound: fan-outs and deliveries in flight
    Fetches,            \* function invocations that fetch
    MaxAllow,           \* bound: changes of allowlists
    MaxFan              \* bound: fan-outs

ASSUME WebhookAssumption ==
    /\ {MaxHooks, Attempts, PerTenant, Global} \subseteq Nat \ {0} /\ IsFiniteSet(Deliveries)
    /\ MaxAllow \in Nat /\ MaxFan \in Nat

VARIABLES
    hook,       \* _system_webhooks
    allow,      \* the allowlist of a tenant: pairs of a system and an origin
    wver,       \* the version map of egress_allowlist_version
    wlive,      \* tenants that are not soft-deleted
    unbumped,   \* tenants whose change is committed and not yet counted
    reg,        \* a registration between its egress check and its insert
    fan, deliv, fetch,
    badpost,    \* history: an attempt was cleared against the live allowlist
    allows, fans    \* bounds

wcfg == <<hook, allow, wver, wlive, unbumped, reg, allows>>
wvars == <<wcfg, fan, deliv, fetch, badpost, fans>>

NoHook == [url |-> "none"]
Unset == [url |-> "unset"]
HookRows == [tenant : WTenants, url : Origins, active : BOOLEAN, failed : BOOLEAN]
Hooks(t) == {h \in HookIds : hook[h] \notin {NoHook, Unset} /\ hook[h].tenant = t}
FanIdle == [pc |-> "idle"]
DIdle == [pc |-> "idle"]

(* A process starts with the subscriptions on disk. *)
WInit ==
    /\ hook \in [HookIds -> HookRows \cup {NoHook, Unset}] /\ wver = [t \in WTenants |-> 0]
    /\ \A t \in WTenants : Cardinality(Hooks(t)) <= MaxHooks
    /\ allow = [t \in WTenants |-> {"webhook", "function"} \X Origins] /\ wlive = WTenants
    /\ unbumped = {} /\ reg = FanIdle /\ fan = [x \in Fans |-> FanIdle]
    /\ deliv = [d \in Deliveries |-> DIdle] /\ fetch = [x \in Fetches |-> FanIdle]
    /\ badpost = FALSE /\ allows = 0 /\ fans = 0

----------------------------------------------------------------------------
(* The allowlist. *)

(* try_read_live_egress_allowlist: nothing for a deleted tenant. *)
LiveAllow(t) == IF t \in wlive THEN allow[t] ELSE {}
CheckEgress(list, system, o) == <<system, o>> \in list
(* set_allowlist: the UPDATE, then the version. *)
SetAllowlist(t, list) ==
    /\ allows < MaxAllow /\ allows' = allows + 1 /\ t \in wlive /\ t \notin unbumped
    /\ allow' = [allow EXCEPT ![t] = list] /\ unbumped' = unbumped \cup {t}
    /\ UNCHANGED <<hook, wver, wlive, reg, fan, deliv, fetch, badpost, fans>>
McpSetEgressAllowlist(t, list) == SetAllowlist(t, list)
(* soft_delete_tenant denies everything as well, and bumps as well. *)
WSoftDelete(t) ==
    /\ allows < MaxAllow /\ allows' = allows + 1 /\ t \in wlive /\ t \notin unbumped
    /\ wlive' = wlive \ {t} /\ unbumped' = unbumped \cup {t}
    /\ UNCHANGED <<hook, allow, wver, reg, fan, deliv, fetch, badpost, fans>>
BumpVersion(t) ==
    /\ t \in unbumped /\ unbumped' = unbumped \ {t} /\ wver' = [wver EXCEPT ![t] = @ + 1]
    /\ UNCHANGED <<hook, allow, wlive, reg, allows, fan, deliv, fetch, badpost, fans>>

----------------------------------------------------------------------------
(* Subscriptions: REST, tool and console register alike.  The egress check *)
(* reads the meta database, the insert counts under the tenant's writer.   *)
Register(t, o) ==
    /\ reg = FanIdle /\ t \in wlive /\ CheckEgress(allow[t], "webhook", o)
    /\ reg' = [pc |-> "insert", tenant |-> t, url |-> o]
    /\ UNCHANGED <<hook, allow, wver, wlive, unbumped, allows, fan, deliv, fetch, badpost, fans>>
CreateWebhook(t, o) == Register(t, o)
McpCreateWebhook(t, o) == CreateWebhook(t, o)
CreateForm(t, o) == Register(t, o)
InsertHook ==
    /\ reg.pc = "insert" /\ reg' = FanIdle
    /\ \/ Cardinality(Hooks(reg.tenant)) < MaxHooks /\ \E h \in {x \in HookIds : hook[x] = Unset} :
         hook' = [hook EXCEPT ![h] = [tenant |-> reg.tenant, url |-> reg.url, active |-> TRUE, failed |-> FALSE]]
       \/ Cardinality(Hooks(reg.tenant)) >= MaxHooks /\ UNCHANGED hook
    /\ UNCHANGED <<allow, wver, wlive, unbumped, allows, fan, deliv, fetch, badpost, fans>>
PatchHook(h, on) ==
    /\ hook[h] \notin {NoHook, Unset} /\ hook' = [hook EXCEPT ![h].active = on]
    /\ UNCHANGED <<allow, wver, wlive, unbumped, reg, allows, fan, deliv, fetch, badpost, fans>>
UpdateWebhook(h, o) ==
    /\ hook[h] \notin {NoHook, Unset} /\ CheckEgress(allow[hook[h].tenant], "webhook", o)
    /\ hook' = [hook EXCEPT ![h].url = o]
    /\ UNCHANGED <<allow, wver, wlive, unbumped, reg, allows, fan, deliv, fetch, badpost, fans>>
McpUpdateWebhook(h, o) == UpdateWebhook(h, o)
DeleteHook(h) ==
    /\ hook[h] \notin {NoHook, Unset} /\ hook' = [hook EXCEPT ![h] = NoHook]
    /\ UNCHANGED <<allow, wver, wlive, unbumped, reg, allows, fan, deliv, fetch, badpost, fans>>
DeleteWebhook(h) == DeleteHook(h)
McpDeleteWebhook(h) == DeleteWebhook(h)
DeleteForm(h) == DeleteHook(h)
(* record_failure: an UPDATE that finds no row does nothing. *)
RecordFailure(hs) ==
    hook' = [h \in HookIds |-> IF h \in hs /\ hook[h] \notin {NoHook, Unset}
                               THEN [hook[h] EXCEPT !.failed = TRUE] ELSE hook[h]]

----------------------------------------------------------------------------
(* dispatch_many: subscriptions, version, allowlist, in this order.        *)
FanGoto(x, r) == fan' = [fan EXCEPT ![x] = r]
DispatchMany(x, t) ==
    LET subs == {h \in Hooks(t) : hook[h].active} IN
    /\ fan[x] = FanIdle /\ fans < MaxFan /\ fans' = fans + 1 /\ t \in wlive /\ subs # {}
    /\ FanGoto(x, [pc |-> "version", tenant |-> t, subs |-> {<<h, hook[h].url>> : h \in subs}])
    /\ UNCHANGED <<wcfg, deliv, fetch, badpost>>
FanVersion(x) ==
    /\ fan[x].pc = "version"
    /\ FanGoto(x, [pc |-> "list", tenant |-> fan[x].tenant, subs |-> fan[x].subs,
                   ver |-> wver[fan[x].tenant]])
    /\ UNCHANGED <<wcfg, deliv, fetch, badpost, fans>>
(* An unreadable meta database denies everything. *)
FanList(x) ==
    /\ fan[x].pc = "list"
    /\ \E list \in {LiveAllow(fan[x].tenant), {}} :
        LET ok == {s \in fan[x].subs : CheckEgress(list, "webhook", s[2])} IN
        FanGoto(x, [pc |-> "spawn", tenant |-> fan[x].tenant, ver |-> fan[x].ver,
                    subs |-> ok, denied |-> {s[1] : s \in fan[x].subs \ ok}])
    /\ UNCHANGED <<wcfg, deliv, fetch, badpost, fans>>
(* One task per delivery; a delivery is queued, never dropped. *)
FanSpawn(x) ==
    /\ fan[x].pc = "spawn" /\ \E d \in Deliveries : deliv[d] = DIdle
    /\ \E s \in fan[x].subs : LET d == CHOOSE y \in Deliveries : deliv[y] = DIdle IN
        /\ deliv' = [deliv EXCEPT ![d] = [pc |-> "wait", has |-> {}, tenant |-> fan[x].tenant,
                                          hook |-> s[1], url |-> s[2], ver |-> fan[x].ver, try |-> 0]]
        /\ FanGoto(x, [fan[x] EXCEPT !.subs = @ \ {s}])
    /\ UNCHANGED <<wcfg, fetch, badpost, fans>>
(* The denied subscriptions are written last, behind the writer's mutex. *)
FanDenied(x) ==
    /\ fan[x].pc = "spawn" /\ fan[x].subs = {} /\ RecordFailure(fan[x].denied)
    /\ FanGoto(x, FanIdle)
    /\ UNCHANGED <<allow, wver, wlive, unbumped, reg, allows, deliv, fetch, badpost, fans>>

----------------------------------------------------------------------------
(* A delivery. *)
DGoto(d, r) == deliv' = [deliv EXCEPT ![d] = r]
Holding(p) == {d \in Deliveries : deliv[d] # DIdle /\ p \in deliv[d].has}
(* The tenant's permit first, then a global one, both held for the whole   *)
(* chain of attempts.                                                      *)
NextPermit(has) == IF has = {} THEN "tenant" ELSE "global"
AcquirePermit(d) ==
    LET p == NextPermit(deliv[d].has) IN
    /\ deliv[d].pc = "wait"
    /\ p = "tenant" => Cardinality({e \in Holding("tenant") : deliv[e].tenant = deliv[d].tenant}) < PerTenant
    /\ p = "global" => Cardinality(Holding("global")) < Global
    /\ DGoto(d, [deliv[d] EXCEPT !.has = @ \cup {p},
                                 !.pc = IF deliv[d].has = {} THEN "wait" ELSE "resolve"])
    /\ UNCHANGED <<wcfg, fan, fetch, badpost, fans>>
(* resolve_public: a host that is now private ends the chain. *)
PreCheck(d) ==
    /\ deliv[d].pc = "resolve" /\ \E pc \in {"check", "fail"} : DGoto(d, [deliv[d] EXCEPT !.pc = pc])
    /\ UNCHANGED <<wcfg, fan, fetch, badpost, fans>>
(* The gate of an attempt: retries, and a first attempt whose version has  *)
(* moved, read the allowlist again; unreadable skips the attempt, a denial *)
(* is final.                                                               *)
Advance(d) == IF deliv[d].try + 1 < Attempts
              THEN [deliv[d] EXCEPT !.pc = "check", !.try = @ + 1] ELSE [deliv[d] EXCEPT !.pc = "fail"]
FaultMoved(d) == FALSE
Moved(d) == deliv[d].ver # wver[deliv[d].tenant]
FaultSkip(d) == [deliv[d] EXCEPT !.pc = "resolve"]
Skip(d) == Advance(d)
EgressRecheck(d) ==
    LET t == deliv[d].tenant  ok == CheckEgress(LiveAllow(t), "webhook", deliv[d].url) IN
    /\ deliv[d].pc = "check"
    /\ IF deliv[d].try > 0 \/ Moved(d)
       THEN \/ DGoto(d, IF ok THEN [deliv[d] EXCEPT !.pc = "post"] ELSE [deliv[d] EXCEPT !.pc = "fail"])
               /\ UNCHANGED badpost
            \/ DGoto(d, Skip(d)) /\ UNCHANGED badpost
       ELSE /\ DGoto(d, [deliv[d] EXCEPT !.pc = "post"])
            /\ badpost' = (badpost \/ (~ok /\ t \notin unbumped))
    /\ UNCHANGED <<wcfg, fan, fetch, fans>>
(* 2xx, 4xx, and everything that is tried again. *)
Post(d) ==
    /\ deliv[d].pc = "post"
    /\ \/ DGoto(d, DIdle)
       \/ DGoto(d, [deliv[d] EXCEPT !.pc = "fail"])
       \/ DGoto(d, Advance(d))
    /\ UNCHANGED <<wcfg, fan, fetch, badpost, fans>>
DeliveryFails(d) ==
    /\ deliv[d].pc = "fail" /\ DGoto(d, DIdle)
    /\ RecordFailure(IF deliv[d].tenant \in wlive THEN {deliv[d].hook} ELSE {})
    /\ UNCHANGED <<allow, wver, wlive, unbumped, reg, allows, fan, fetch, badpost, fans>>

----------------------------------------------------------------------------
(* http_fetch of an invocation: the allowlist is read on the first fetch   *)
(* and kept for the invocation.                                            *)
FetchStart(x, t) ==
    /\ fetch[x] = FanIdle /\ t \in wlive
    /\ fetch' = [fetch EXCEPT ![x] = [pc |-> "run", tenant |-> t]]
    /\ UNCHANGED <<wcfg, fan, deliv, badpost, fans>>
FetchAllowlist(x) ==
    /\ fetch[x].pc = "run"
    /\ fetch' = [fetch EXCEPT ![x] = [pc |-> "fetch", tenant |-> @.tenant, list |-> allow[@.tenant]]]
    /\ UNCHANGED <<wcfg, fan, deliv, badpost, fans>>
HttpFetch(x, o) ==
    /\ fetch[x].pc = "fetch" /\ CheckEgress(fetch[x].list, "function", o)
    /\ fetch' = [fetch EXCEPT ![x] = FanIdle]
    /\ UNCHANGED <<wcfg, fan, deliv, badpost, fans>>
FetchEnd(x) ==
    /\ fetch[x] # FanIdle /\ fetch' = [fetch EXCEPT ![x] = FanIdle]
    /\ UNCHANGED <<wcfg, fan, deliv, badpost, fans>>

Delivering(d) == AcquirePermit(d) \/ PreCheck(d) \/ EgressRecheck(d) \/ Post(d) \/ DeliveryFails(d)
FanOut(x) == FanVersion(x) \/ FanList(x) \/ FanSpawn(x) \/ FanDenied(x)
WConfig ==
    \/ \E t \in WTenants : BumpVersion(t) \/ WSoftDelete(t)
       \/ \E list \in {{}, {"webhook"} \X Origins, {"webhook", "function"} \X Origins} :
            list # allow[t] /\ (SetAllowlist(t, list) \/ McpSetEgressAllowlist(t, list))
    \/ \E t \in WTenants, o \in Origins : Register(t, o) \/ McpCreateWebhook(t, o) \/ CreateForm(t, o)
    \/ InsertHook
    \/ \E h \in HookIds : DeleteHook(h) \/ McpDeleteWebhook(h) \/ DeleteForm(h) \/ PatchHook(h, FALSE)
       \/ PatchHook(h, TRUE) \/ \E o \in Origins : McpUpdateWebhook(h, o)
WFetching(x) ==
    \/ FetchAllowlist(x) \/ FetchEnd(x)
    \/ \E t \in WTenants : FetchStart(x, t)
    \/ \E o \in Origins : HttpFetch(x, o)
WNext ==
    \/ WConfig
    \/ \E x \in Fans : FanOut(x) \/ \E t \in WTenants : DispatchMany(x, t)
    \/ \E d \in Deliveries : Delivering(d)
    \/ \E x \in Fetches : WFetching(x)
WSpec == WInit /\ [][WNext]_wvars
(* The runtime polls spawned tasks until they end, and a timeout bounds    *)
(* every request of theirs; as long as a delivery can go on, some does.    *)
WRuntime == \E d \in Deliveries : Delivering(d)
WFair == WF_wvars(WRuntime)

----------------------------------------------------------------------------
WTypeOK ==
    /\ hook \in [HookIds -> HookRows \cup {NoHook, Unset}] /\ wver \in [WTenants -> Nat]
    /\ allow \in [WTenants -> SUBSET ({"webhook", "function"} \X Origins)]
    /\ \A t \in WTenants : Cardinality(Hooks(t)) <= MaxHooks

(* Once a change of the allowlist, or a soft delete, is committed and      *)
(* counted, no attempt is cleared for an origin it removed, however long   *)
(* the delivery waited for its permits between the fan-out's read and the  *)
(* first attempt.                                                          *)
RevocationHonoured == ~badpost

(* A tenant's deliveries never hold more global permits than the tenant's  *)
(* own share: waiting for their own share, they do not starve the others.  *)
GlobalShare == \A t \in WTenants :
    Cardinality({d \in Holding("global") : deliv[d].tenant = t}) <= PerTenant

(* Deliveries end, delivered or recorded as failed, whatever subscribers   *)
(* answer and whenever the allowlist cannot be read: when no more events   *)
(* come, no delivery is left and every permit is back.                     *)
DeliveriesEnd == (\E d \in Deliveries : deliv[d] # DIdle) ~> (\A d \in Deliveries : deliv[d] = DIdle)
============================================================================
