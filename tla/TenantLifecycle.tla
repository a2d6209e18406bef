-------------------------- MODULE TenantLifecycle --------------------------
(***************************************************************************)
(* One tenant id over its lives: make_tenant_inner and soft_delete_tenant  *)
(* (mgmt/tenants/crud.rs), the directory at tenants/<id> and the snapshots *)
(* in _trash, and everything that keeps a tenant's pool or credentials in  *)
(* memory: TenantRegistry (storage/pool.rs), the two MCP registries        *)
(* (mcp/http_registry.rs, mcp/server.rs) and the auth cache.               *)
(*                                                                         *)
(* A database file is a number.  The file a creation makes also names      *)
(* that life of the id and its tokens: row = n means that the tenants row  *)
(* of life n is not deleted.  A pool is the file its connections opened,   *)
(* wherever that file has been renamed to since.                           *)
(*                                                                         *)
(* Opening a pool and inserting it are two steps, and so are the rename,   *)
(* the evictions and the cache clear of a deletion; make_tenant_inner and  *)
(* the marking and renaming of soft_delete_tenant hold the meta lock.      *)
(***************************************************************************)
EXTENDS Naturals, FiniteSets

CONSTANTS
    MaxFile,   \* bound on the database files ever created
    Reqs,      \* requests and background tasks in flight
    Dels       \* soft_delete_tenant calls in flight

ASSUME MaxFileAssumption == MaxFile \in Nat

VARIABLES
    files,     \* files created so far: 1 .. files
    row,       \* life of the live tenants row, 0 if there is none
    path,      \* file at tenants/<id>/data.sqlite, 0 if there is none
    trash,     \* files in _trash
    pool,      \* entry of TenantRegistry.pools
    http,      \* entry of McpHttpRegistry.services
    inner,     \* entry of McpRegistry.services
    cache,     \* auth cache entry of each life's token
    keys,      \* life whose rows are in the tokens table, 0 if there are none
    created,   \* a create_tenant_json is past the lock, before its clear hook
    req, del,
    deleted,   \* history: lives marked deleted
    moved,     \* history: files soft_delete_tenant renamed
    expired    \* history: snapshots the janitor removed

diskVars == <<files, row, path, trash, keys, deleted, moved, expired>>
memVars == <<pool, http, inner, cache, created>>
vars == <<files, row, path, trash, keys, deleted, moved, expired,
          pool, http, inner, cache, created, req, del>>

FileIds == 1 .. MaxFile
NoFile == [f |-> 0, late |-> FALSE]
(* An entry for f; late is history: life f was over when it was written. *)
EntryFor(f) == [f |-> f, late |-> f # row]
NoReq == [pc |-> "idle", k |-> 0, f |-> 0, mcp |-> FALSE,
          create |-> FALSE, next |-> "idle"]

Init ==
    /\ files = 0 /\ row = 0 /\ path = 0 /\ trash = {}
    /\ pool = NoFile /\ http = NoFile /\ inner = NoFile
    /\ cache = [k \in FileIds |-> "none"]
    /\ req = [r \in Reqs |-> NoReq]
    /\ del = [d \in Dels |-> "idle"]
    /\ keys = 0 /\ created = FALSE
    /\ deleted = {} /\ moved = {} /\ expired = {}

(* The meta connection's mutex, held from the UPDATE to the rename. *)
MetaFree == \A d \in Dels : del[d] # "rename"

StepReq(r, q) == req' = [req EXCEPT ![r] = q]
StepDel(d, pc) == del' = [del EXCEPT ![d] = pc]

----------------------------------------------------------------------------
(* make_tenant_inner, recycling the id of a deleted tenant: a directory    *)
(* left at the live path is removed, a snapshot in _trash is not.  Its     *)
(* statements are not one transaction: when the database cannot be made,   *)
(* the row stays, without files and tokens.                                *)
MakeTenant ==
    /\ MetaFree /\ row = 0 /\ files < MaxFile /\ ~ created
    /\ files' = files + 1 /\ row' = files + 1
    /\ \/ path' = files + 1 /\ keys' = files + 1 /\ created' = TRUE
       \/ path' = 0 /\ keys' = 0 /\ UNCHANGED created
    /\ UNCHANGED <<trash, pool, http, inner, cache, req, del, deleted, moved, expired>>

(* create_tenant_json's clear hook, after the lock is gone. *)
ClearCreated ==
    /\ created
    /\ cache' = [k \in FileIds |-> "none"]
    /\ created' = FALSE
    /\ UNCHANGED <<diskVars, pool, http, inner, req, del>>

(* soft_delete_tenant: mark the row; 404 when there is no live row. *)
MarkDeleted(d) ==
    /\ del[d] = "idle" /\ MetaFree /\ row # 0
    /\ deleted' = IF path = row THEN deleted \cup {row} ELSE deleted
    /\ row' = 0
    /\ StepDel(d, "rename")
    /\ UNCHANGED <<files, path, trash, keys, memVars, req, moved, expired>>

(* move_tenant_to_trash: nothing to move, moved, or the rename failed and  *)
(* was logged.                                                             *)
MoveToTrash(d) ==
    /\ del[d] = "rename"
    /\ \/ /\ path # 0
          /\ trash' = trash \cup {path} /\ moved' = moved \cup {path}
          /\ path' = 0
       \/ UNCHANGED <<path, trash, moved>>
    /\ StepDel(d, "evict pool")
    /\ UNCHANGED <<files, row, keys, memVars, req, deleted, expired>>

(* tenants.evict *)
FaultEvictPool(d) ==
    /\ del[d] = "evict pool"
    /\ StepDel(d, "evict mcp")
    /\ UNCHANGED <<diskVars, memVars, req>>
EvictPool(d) ==
    /\ del[d] = "evict pool"
    /\ pool' = NoFile
    /\ StepDel(d, "evict mcp")
    /\ UNCHANGED <<diskVars, created, http, inner, cache, req>>

(* mcp.evict, which is McpHttpRegistry::evict: the inner registry's entry  *)
(* stays.                                                                  *)
EvictMcp(d) ==
    /\ del[d] = "evict mcp"
    /\ http' = NoFile
    /\ StepDel(d, "clear")
    /\ UNCHANGED <<diskVars, created, pool, inner, cache, req>>

(* auth_cache.clear_tenant *)
ClearTenant(d) ==
    /\ del[d] = "clear"
    /\ cache' = [k \in FileIds |-> "none"]
    /\ StepDel(d, "idle")
    /\ UNCHANGED <<diskVars, created, pool, http, inner, req>>

(* sweep_trash: some snapshots are past their retention. *)
SweepTrash(S) ==
    /\ S # {} /\ S \subseteq trash
    /\ trash' = trash \ S
    /\ expired' = expired \cup S
    /\ UNCHANGED <<files, row, path, keys, memVars, req, del, deleted, moved>>

----------------------------------------------------------------------------
(* A request with the token of life k: a cache hit looks for a pool that   *)
(* is live, a miss reads meta.sqlite and gets or creates one.              *)
Begin(r, k, mcp) ==
    /\ req[r].pc = "idle" /\ k <= files
    /\ StepReq(r, IF cache[k] # "none"
                  THEN [NoReq EXCEPT !.pc = "open", !.k = k, !.mcp = mcp, !.next = "in"]
                  ELSE [NoReq EXCEPT !.pc = "miss", !.k = k, !.mcp = mcp])
    /\ UNCHANGED <<diskVars, memVars, del>>

(* A janitor, cron, webhook or function task: listed or queued while the   *)
(* tenant was live, run at any later time, and only with get_if_live.      *)
BeginTask(r) ==
    /\ req[r].pc = "idle" /\ row # 0
    /\ StepReq(r, [NoReq EXCEPT !.pc = "open", !.next = "served"])
    /\ UNCHANGED <<diskVars, memVars, del>>

(* An admin's page or API request, which tenant_ownership_layer admits on  *)
(* a live row.                                                             *)
BeginAdmin(r) ==
    /\ req[r].pc = "idle" /\ MetaFree /\ row # 0
    /\ StepReq(r, [NoReq EXCEPT !.pc = "open", !.k = row, !.create = TRUE,
                                !.next = "served"])
    /\ UNCHANGED <<diskVars, memVars, del>>

ReadMeta(r) ==
    LET q == req[r] IN
    /\ q.pc = "miss" /\ MetaFree
    /\ StepReq(r, IF row = q.k /\ keys = q.k
                  THEN [q EXCEPT !.pc = "open", !.create = TRUE, !.next = "fill"]
                  ELSE NoReq)
    /\ UNCHANGED <<diskVars, memVars, del>>

(* get_or_create and get_if_live: the entry, else the file at the live     *)
(* path, else a new database or nothing.                                   *)
Entry(r) ==
    /\ req[r].pc = "open" /\ pool.f # 0
    /\ StepReq(r, [req[r] EXCEPT !.f = pool.f, !.pc = req[r].next])
    /\ UNCHANGED <<diskVars, memVars, del>>

OpenFile(r) ==
    /\ req[r].pc = "open" /\ pool.f = 0 /\ path # 0
    /\ StepReq(r, [req[r] EXCEPT !.f = path, !.pc = "insert"])
    /\ UNCHANGED <<diskVars, memVars, del>>

MakeFile(r) ==
    /\ files < MaxFile
    /\ files' = files + 1 /\ path' = files + 1
    /\ StepReq(r, [req[r] EXCEPT !.f = files + 1, !.pc = "insert"])
    /\ UNCHANGED <<row, trash, keys, memVars, del, deleted, moved, expired>>

OpenMissing(r) ==
    /\ req[r].pc = "open" /\ pool.f = 0 /\ path = 0
    /\ \/ req[r].create /\ MakeFile(r)
       \/ /\ ~ req[r].create
          /\ StepReq(r, NoReq)
          /\ UNCHANGED <<diskVars, memVars, del>>

(* pools.insert, after the connections were opened. *)
InsertPool(r) ==
    /\ req[r].pc = "insert"
    /\ pool' = EntryFor(req[r].f)
    /\ StepReq(r, [req[r] EXCEPT !.pc = req[r].next])
    /\ UNCHANGED <<diskVars, created, http, inner, cache, del>>

FillCache(r) ==
    /\ req[r].pc = "fill"
    /\ cache' = [cache EXCEPT ![req[r].k] = IF row = req[r].k THEN "timely" ELSE "late"]
    /\ StepReq(r, [req[r] EXCEPT !.pc = "in"])
    /\ UNCHANGED <<diskVars, created, pool, http, inner, del>>

(* The safety TTL of an entry. *)
CacheLapse(k) ==
    /\ cache[k] # "none"
    /\ cache' = [cache EXCEPT ![k] = "none"]
    /\ UNCHANGED <<diskVars, created, pool, http, inner, req, del>>

(* A REST handler works on the pool of the bearer layer, or asks the       *)
(* registry again (webhook_routes, auth_routes, admin_user_routes).        *)
HandleRest(r) ==
    /\ req[r].pc = "in" /\ ~ req[r].mcp
    /\ \/ StepReq(r, [req[r] EXCEPT !.pc = "served"])
       \/ StepReq(r, [req[r] EXCEPT !.pc = "open", !.create = TRUE, !.next = "served"])
    /\ UNCHANGED <<diskVars, memVars, del>>

(* dispatch_mcp: the HTTP service, else the inner registry's DrustMcp,     *)
(* else a new DrustMcp on the registry's pool.                             *)
HandleMcp(r) ==
    LET q == req[r] IN
    /\ q.pc = "in" /\ q.mcp
    /\ \/ /\ http.f # 0
          /\ StepReq(r, [q EXCEPT !.f = http.f, !.pc = "served"])
       \/ /\ http.f = 0 /\ inner.f # 0
          /\ StepReq(r, [q EXCEPT !.f = inner.f, !.pc = "wrap"])
       \/ /\ http.f = 0 /\ inner.f = 0
          /\ StepReq(r, [q EXCEPT !.pc = "open", !.create = TRUE, !.next = "inner"])
    /\ UNCHANGED <<diskVars, memVars, del>>

InsertInner(r) ==
    /\ req[r].pc = "inner"
    /\ inner' = EntryFor(req[r].f)
    /\ StepReq(r, [req[r] EXCEPT !.pc = "wrap"])
    /\ UNCHANGED <<diskVars, created, pool, http, cache, del>>

InsertHttp(r) ==
    /\ req[r].pc = "wrap"
    /\ http' = EntryFor(req[r].f)
    /\ StepReq(r, [req[r] EXCEPT !.pc = "served"])
    /\ UNCHANGED <<diskVars, created, pool, inner, cache, del>>

Done(r) ==
    /\ req[r].pc = "served"
    /\ StepReq(r, NoReq)
    /\ UNCHANGED <<diskVars, memVars, del>>

(* The process dies at any point, the rename included, and comes back.     *)
Restart ==
    /\ pool' = NoFile /\ http' = NoFile /\ inner' = NoFile
    /\ cache' = [k \in FileIds |-> "none"]
    /\ req' = [r \in Reqs |-> NoReq]
    /\ del' = [d \in Dels |-> "idle"]
    /\ created' = FALSE
    /\ UNCHANGED diskVars

----------------------------------------------------------------------------
DeleteStep(d) ==
    \/ MarkDeleted(d) \/ MoveToTrash(d)
    \/ EvictPool(d) \/ EvictMcp(d) \/ ClearTenant(d)

RequestStep(r) ==
    \/ \E k \in FileIds, mcp \in BOOLEAN : Begin(r, k, mcp)
    \/ BeginTask(r) \/ BeginAdmin(r) \/ ReadMeta(r)
    \/ Entry(r) \/ OpenFile(r) \/ OpenMissing(r) \/ InsertPool(r) \/ FillCache(r)
    \/ HandleRest(r) \/ HandleMcp(r) \/ InsertInner(r) \/ InsertHttp(r) \/ Done(r)

Next ==
    \/ MakeTenant \/ ClearCreated
    \/ \E d \in Dels : DeleteStep(d)
    \/ \E r \in Reqs : RequestStep(r)
    \/ \E S \in SUBSET FileIds : SweepTrash(S)
    \/ \E k \in FileIds : CacheLapse(k)
    \/ Restart

Spec == Init /\ [][Next]_vars

----------------------------------------------------------------------------
(* Properties.                                                             *)

Entries == [f : 0 .. files, late : BOOLEAN]

ReqRows ==
    [pc : {"idle", "miss", "open", "insert", "fill", "in", "inner", "wrap", "served"},
     k : 0 .. files, f : 0 .. files, mcp : BOOLEAN, create : BOOLEAN,
     next : {"idle", "fill", "in", "inner", "served"}]

TypeOK ==
    /\ files \in 0 .. MaxFile
    /\ row \in 0 .. files /\ path \in 0 .. files
    /\ trash \subseteq 1 .. files
    /\ pool \in Entries /\ http \in Entries /\ inner \in Entries
    /\ cache \in [FileIds -> {"none", "timely", "late"}]
    /\ req \in [Reqs -> ReqRows]
    /\ del \in [Dels -> {"idle", "rename", "evict pool", "evict mcp", "clear"}]
    /\ keys \in 0 .. files /\ created \in BOOLEAN
    /\ deleted \subseteq 1 .. files /\ moved \subseteq 1 .. files
    /\ expired \subseteq 1 .. files

Pending(pcs) == \E d \in Dels : del[d] \in pcs

(* A pool or an MCP service that was registered in the life of its file    *)
(* does not outlive it: once soft_delete_tenant's evictions have run, the  *)
(* registries hold nothing of the deleted life.  What is registered after  *)
(* the life is over is marked late: no eviction follows that removes it.   *)
EvictionsSuffice ==
    /\ (pool.f # 0 /\ ~ pool.late)
          => pool.f = row \/ Pending({"rename", "evict pool"})
    /\ (http.f # 0 /\ ~ http.late)
          => http.f = row \/ Pending({"rename", "evict pool", "evict mcp"})

(* A token that was cached while its life lasted is dropped by the         *)
(* deletion, so that a recycled id does not honour it.                     *)
TokensDropped ==
    \A k \in FileIds : cache[k] = "timely" =>
        k = row \/ Pending({"rename", "evict pool", "evict mcp", "clear"})

(* A snapshot stays in _trash until the janitor expires it, however often  *)
(* the id is recycled and deleted again.                                   *)
SnapshotKept == moved \subseteq trash \cup expired

(* Nothing but a creation and a request that read a live row makes a       *)
(* database for the id: a cached token or a background task does not bring *)
(* a deleted tenant's directory back.                                      *)
OnlyAdmittedCreate ==
    [][(path = 0 /\ path' # 0 /\ row' = row)
          => \E r \in Reqs : req[r].pc = "open" /\ req[r].create]_vars

(* crud.rs: the MCP eviction "drops its Arc<TenantPool> clones": the       *)
(* DrustMcp that serves a live tenant's MCP requests has the tenant's own  *)
(* pool, unless it was registered after the life of its file.              *)
McpPoolDropped ==
    (row # 0 /\ ~ inner.late /\ \A d \in Dels : del[d] = "idle")
        => inner.f \in {0, row}

(* crud.rs: destroying the recovery copy "as a side effect of someone      *)
(* reusing the id is silent data loss": the database of a deleted life is  *)
(* in _trash, was expired from there, or is still where it was.            *)
DeletedDataKept == deleted \subseteq trash \cup expired \cup {path}
============================================================================
