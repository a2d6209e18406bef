-------------------------- MODULE CollectionConfig --------------------------
(***************************************************************************)
(* One tenant collection as its settings govern it: owner scope, row       *)
(* policies, the capabilities of the anon and user roles, audit, realtime, *)
(* and the stored RPCs over it.  Each change commits under the tenant's    *)
(* writer, then invalidates the schema cache and, where it may take a row  *)
(* from somebody who is listening, closes the collection's event channel.  *)
(***************************************************************************)
EXTENDS Naturals, FiniteSets, Sequences

CONSTANTS
    Rpcs,       \* names of stored RPCs
    CapSets,    \* the capability sets a role is given
    PolicySets, \* the sets of verbs that are given a policy
    MaxCfg      \* bound: settings changes in one behaviour

ASSUME ConfigAssumption ==
    /\ MaxCfg \in Nat
    /\ CapSets \subseteq SUBSET {"select", "insert", "update", "delete"}
    /\ PolicySets \subseteq SUBSET {"select", "insert", "update", "delete"}

VARIABLES
    schema,     \* the committed settings of the collection
    scache,     \* schema_cache: {} or the cached settings
    change,     \* the settings change in flight
    changes,    \* settings changes committed so far
    rpcs,       \* _system_rpc
    save,       \* the admin console's RPC save between its guard and its write
    raced       \* history: RPCs stored by a save that a settings change overtook

cvars == <<schema, scache, change, changes, rpcs, save, raced>>

Verbs == {"select", "insert", "update", "delete"}

(* CollectionSchema: owner_field and read_scope = own, audit_enabled,      *)
(* realtime_enabled, anon_caps, user_caps and the verbs that have a policy.*)
Schemas == [owner : BOOLEAN, own : BOOLEAN, audit : BOOLEAN, live : BOOLEAN,
            anon : SUBSET Verbs, user : SUBSET Verbs, pol : SUBSET Verbs]

(* A stored RPC over the collection: its kind, its mode, anon_callable and *)
(* whether it declares :user_id and constrains the owner column with it.   *)
RpcRows == [kind : {"none", "sql", "query"}, write : BOOLEAN, anon : BOOLEAN,
            bound : BOOLEAN]
NoRpc == [kind |-> "none", write |-> FALSE, anon |-> FALSE, bound |-> FALSE]
(* check_new_rpc_shape, check_kind_rules and validate_new_query_rpc: a     *)
(* template only reads and has no user_id parameter.                       *)
CheckNewRpcShape(r) == r.kind = "query" => ~r.write /\ ~r.bound

Quiet == [pc |-> "idle", evict |-> FALSE]
NoSave == [name |-> "none", row |-> NoRpc, late |-> FALSE]

CInit ==
    /\ schema \in [owner : {FALSE}, own : {FALSE}, audit : BOOLEAN, live : {TRUE},
                  anon : CapSets, user : CapSets, pol : {{}}]
    /\ scache = {} /\ change = Quiet /\ changes = 0
    /\ rpcs = [r \in Rpcs |-> NoRpc] /\ save = NoSave /\ raced = {}

----------------------------------------------------------------------------
(* The guards between settings and stored RPCs. *)

(* guard_anon_owner_scoped_rpc: stored SQL runs without row policies.      *)
GuardAnonRpc(sc, r) ==
    r.kind = "sql" /\ r.anon => sc.pol = {} /\ (sc.owner => r.bound)
(* guard_owner_scope_change_against_anon_rpcs *)
GuardOwnerChange == \A n \in Rpcs : rpcs[n].kind = "sql" /\ rpcs[n].anon => rpcs[n].bound
(* guard_policy_change_against_anon_rpcs *)
GuardPolicyChange == \A n \in Rpcs : ~(rpcs[n].kind = "sql" /\ rpcs[n].anon)
(* guard_clear_against_anon_query_rpcs *)
GuardClear == \A n \in Rpcs : ~(rpcs[n].kind = "query" /\ rpcs[n].anon)
(* guard_select_policy_clear *)
GuardSelectClear(pol) == "select" \in schema.pol \ pol => GuardClear
(* scan_unsafe_anon_rpcs *)
UnsafeAnonRpcs == {n \in Rpcs : ~GuardAnonRpc(schema, rpcs[n])}

----------------------------------------------------------------------------
(* A settings change: the write, schema_cache.invalidate, evict_collection *)
(* when it applies.  Whatever guard refuses it leaves nothing written.     *)
Commit(new, evict) ==
    /\ change.pc = "idle" /\ changes < MaxCfg /\ changes' = changes + 1
    /\ schema' = new /\ change' = [pc |-> "inval", evict |-> evict]
    /\ save' = IF save = NoSave THEN NoSave ELSE [save EXCEPT !.late = TRUE]
    /\ UNCHANGED <<scache, rpcs, raced>>

(* The MCP tools, the REST routes and the console each have a copy of these*)
(* writes.  set_owner_field with a field (a foreign key to the users       *)
(* table); without one it only opens, and nothing is closed.               *)
Owned(own) == [schema EXCEPT !.owner = TRUE, !.own = own]
Unowned == [schema EXCEPT !.owner = FALSE, !.own = FALSE]
SetOwnerFieldTool(own) == GuardOwnerChange /\ Commit(Owned(own), TRUE)
SetOwnerFieldHandler(own) == GuardOwnerChange /\ Commit(Owned(own), TRUE)
ClearOwnerFieldTool == (schema.owner => GuardClear) /\ Commit(Unowned, FALSE)
ClearOwnerFieldHandler == (schema.owner => GuardClear) /\ Commit(Unowned, FALSE)

(* set_policy and clear_policy for one verb, delete_policy over REST. *)
WithPolicies(pol) == [schema EXCEPT !.pol = pol]
SetPolicyTool(v) == GuardPolicyChange /\ Commit(WithPolicies(schema.pol \cup {v}), TRUE)
ClearPolicyTool(v) ==
    GuardSelectClear(schema.pol \ {v}) /\ Commit(WithPolicies(schema.pol \ {v}), TRUE)
DeletePolicy(v) ==
    GuardSelectClear(schema.pol \ {v}) /\ Commit(WithPolicies(schema.pol \ {v}), TRUE)
(* The handlers of the MCP tools parse their arguments and call these. *)
McpSetOwnerField(own) == SetOwnerFieldTool(own)
McpSetPolicy(v) == SetPolicyTool(v)
McpClearPolicy(v) == ClearPolicyTool(v)
(* put_policies and admin_update_policies replace the set verb by verb,    *)
(* without a transaction: an invalid one leaves those before it written.   *)
PolicyOrder == <<"select", "insert", "update", "delete">>
Replaced(pol) ==
    {LET done == {PolicyOrder[i] : i \in 1 .. n} IN (pol \cap done) \cup (schema.pol \ done) :
       n \in 0 .. Len(PolicyOrder)}
PutPolicies(pol) ==
    /\ (pol # {} => GuardPolicyChange) /\ GuardSelectClear(pol)
    /\ \E p \in Replaced(pol) : Commit(WithPolicies(p), TRUE)
AdminUpdatePolicies(pol) ==
    /\ (pol # {} => GuardPolicyChange) /\ GuardSelectClear(pol)
    /\ \E p \in Replaced(pol) : Commit(WithPolicies(p), TRUE)

(* Capabilities: those of anon close the channel; user tokens cannot       *)
(* subscribe to it.                                                        *)
WithAnonCaps(caps) == [schema EXCEPT !.anon = caps]
WithUserCaps(caps) == [schema EXCEPT !.user = caps]
SetAnonCapsTool(caps) == Commit(WithAnonCaps(caps), TRUE)
UpdateAnonCaps(caps) == Commit(WithAnonCaps(caps), TRUE)
McpSetAnonCaps(caps) == SetAnonCapsTool(caps)
SetUserCapsTool(caps) == Commit(WithUserCaps(caps), FALSE)
McpSetUserCaps(caps) == SetUserCapsTool(caps)
UpdateUserCaps(caps) == Commit(WithUserCaps(caps), FALSE)

(* set_realtime closes what it disables; audit changes no reader. *)
WithRealtime(on) == [schema EXCEPT !.live = on]
WithAudit(on) == [schema EXCEPT !.audit = on]
SetRealtimeTool(on) == Commit(WithRealtime(on), ~on)
PutRealtime(on) == Commit(WithRealtime(on), ~on)
UpdateRealtime(on) == Commit(WithRealtime(on), ~on)
SetAuditTool(on) == Commit(WithAudit(on), FALSE)
PutAudit(on) == Commit(WithAudit(on), FALSE)
UpdateAudit(on) == Commit(WithAudit(on), FALSE)
McpSetRealtime(on) == SetRealtimeTool(on)
McpSetAuditEnabled(on) == SetAuditTool(on)

FaultInvalidate ==
    /\ change.pc = "inval"
    /\ change' = IF change.evict THEN [change EXCEPT !.pc = "evict"] ELSE Quiet
    /\ UNCHANGED <<schema, scache, changes, rpcs, save, raced>>
Invalidate ==
    /\ change.pc = "inval" /\ scache' = {}
    /\ change' = IF change.evict THEN [change EXCEPT !.pc = "evict"] ELSE Quiet
    /\ UNCHANGED <<schema, changes, rpcs, save, raced>>

(* ensure_loaded: a hit, or a load that fills the cache. *)
EnsureLoaded(sc) ==
    /\ sc \in (IF scache = {} THEN {schema} ELSE scache)
    /\ scache' = {sc}

----------------------------------------------------------------------------
(* The RPC registry.  The MCP tools guard and write in one writer closure. *)
FaultCreateRpc(n, r) ==
    /\ rpcs[n] = NoRpc /\ r.kind # "none" /\ CheckNewRpcShape(r)
    /\ rpcs' = [rpcs EXCEPT ![n] = r]
    /\ UNCHANGED <<schema, scache, change, changes, save, raced>>
CreateRpc(n, r) ==
    /\ rpcs[n] = NoRpc /\ r.kind # "none" /\ CheckNewRpcShape(r)
    /\ GuardAnonRpc(schema, r)
    /\ rpcs' = [rpcs EXCEPT ![n] = r]
    /\ UNCHANGED <<schema, scache, change, changes, save, raced>>
(* update: anon_callable, SQL and parameters may change; the kind does not.*)
UpdateRpc(n, r) ==
    /\ rpcs[n] # NoRpc /\ r.kind = rpcs[n].kind /\ r.write = rpcs[n].write
    /\ CheckNewRpcShape(r) /\ GuardAnonRpc(schema, r)
    /\ rpcs' = [rpcs EXCEPT ![n] = r] /\ raced' = raced \ {n}
    /\ UNCHANGED <<schema, scache, change, changes, save>>
DeleteRpc(n) ==
    /\ rpcs[n] # NoRpc
    /\ rpcs' = [rpcs EXCEPT ![n] = NoRpc] /\ raced' = raced \ {n}
    /\ UNCHANGED <<schema, scache, change, changes, save>>

(* The console's rpc_save guards on a reader, then writes in a transaction *)
(* of its own.                                                             *)
RpcSaveGuard(n, r) ==
    /\ save = NoSave /\ r.kind # "none" /\ CheckNewRpcShape(r)
    /\ rpcs[n] = NoRpc \/ rpcs[n].kind = r.kind
    /\ GuardAnonRpc(schema, r) /\ save' = [name |-> n, row |-> r, late |-> FALSE]
    /\ UNCHANGED <<schema, scache, change, changes, rpcs, raced>>
RpcSaveWrite ==
    /\ save # NoSave /\ save' = NoSave
    /\ \/ /\ rpcs[save.name].kind \in {"none", save.row.kind}
          /\ rpcs' = [rpcs EXCEPT ![save.name] = save.row]
          /\ raced' = IF save.late THEN raced \cup {save.name} ELSE raced \ {save.name}
       \/ /\ rpcs[save.name].kind \notin {"none", save.row.kind}
          /\ UNCHANGED <<rpcs, raced>>
    /\ UNCHANGED <<schema, scache, change, changes>>

Configure ==
    \/ \E b \in BOOLEAN :
          \/ McpSetOwnerField(b) \/ SetOwnerFieldHandler(b)
          \/ McpSetRealtime(b) \/ PutRealtime(b) \/ UpdateRealtime(b)
          \/ McpSetAuditEnabled(b) \/ PutAudit(b) \/ UpdateAudit(b)
    \/ ClearOwnerFieldTool \/ ClearOwnerFieldHandler
    \/ \E v \in UNION PolicySets : McpSetPolicy(v) \/ McpClearPolicy(v) \/ DeletePolicy(v)
    \/ \E s \in PolicySets : PutPolicies(s) \/ AdminUpdatePolicies(s)
    \/ \E s \in CapSets :
          \/ McpSetAnonCaps(s) \/ UpdateAnonCaps(s)
          \/ McpSetUserCaps(s) \/ UpdateUserCaps(s)
    \/ Invalidate
EditRpcs ==
    \/ \E n \in Rpcs, r \in RpcRows : CreateRpc(n, r) \/ UpdateRpc(n, r) \/ RpcSaveGuard(n, r)
    \/ \E n \in Rpcs : DeleteRpc(n)
    \/ RpcSaveWrite

----------------------------------------------------------------------------
CTypeOK ==
    /\ schema \in Schemas /\ scache \subseteq Schemas /\ Cardinality(scache) <= 1
    /\ change \in [pc : {"idle", "inval", "evict"}, evict : BOOLEAN]
    /\ changes \in 0 .. MaxCfg /\ rpcs \in [Rpcs -> RpcRows]
    /\ save \in [name : Rpcs \cup {"none"}, row : RpcRows, late : BOOLEAN] /\ raced \subseteq Rpcs

(* Whatever order RPCs and settings are written in, no anon-callable SQL   *)
(* RPC stands over rows that an owner scope or a policy hides: the guards  *)
(* on both sides meet, except where a settings change ran between the      *)
(* guard and the write of the console's rpc_save.                          *)
RpcSafe == UnsafeAnonRpcs \subseteq raced
============================================================================
