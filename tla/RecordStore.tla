---------------------------- MODULE RecordStore ----------------------------
(***************************************************************************)
(* The records of one collection: REST handlers that pass a gate on the    *)
(* cached settings and then run a writer transaction or a read, the MCP    *)
(* tools and batches of the service, calls of stored RPCs, the history of  *)
(* audited writes, and the event stream of its subscribers.                *)
(***************************************************************************)
EXTENDS CollectionConfig, Functions

CONSTANTS
    Users, Anon, Service,   \* users, and the two keys
    Callers,                \* those of them that send requests
    NoUser,                 \* an empty owner column
    MaxId,                  \* bound: record ids
    Vals, LowVals,          \* field values, and those a row policy admits
    RTasks,                 \* requests in flight at the same time
    Subs,                   \* SSE connections
    MaxHist                 \* bound: history rows

ASSUME RecordAssumption ==
    /\ Callers \subseteq Users \cup {Anon, Service}
    /\ Anon # Service /\ Anon \notin Users /\ Service \notin Users
    /\ MaxId \in Nat /\ MaxHist \in Nat /\ LowVals \subseteq Vals /\ Vals \subseteq Nat \ {0}

VARIABLES
    rec,        \* the table
    nextid,     \* AUTOINCREMENT: an id is never used again
    people,     \* _system_users
    hist,       \* _system_record_history of the collection
    era,        \* history: how often audit has been switched on
    rtask,      \* the requests in flight
    sub,        \* the SSE connections
    lostdel,    \* history: records deleted on an audit flag that had gone stale
    trespass,   \* history: a request with current settings touched what they forbid
    leaked      \* history: a subscriber heard what the settings forbid

dvars == <<rec, nextid, people, hist, era, lostdel>>
rvars == <<cvars, dvars, rtask, sub, trespass, leaked>>

Ids == 1 .. MaxId
NoRow == [owner |-> NoUser, val |-> 0]
Rows == [owner : Users \cup {NoUser}, val : Vals]
Current == {i \in Ids : rec[i] # NoRow}

RIdle == [pc |-> "idle", op |-> "none", who |-> NoUser, id |-> 0, row |-> NoRow,
          sc |-> {}, rpc |-> NoRpc, stale |-> FALSE]
Deaf == [pc |-> "off", who |-> NoUser, sc |-> {}, late |-> FALSE]

RInit ==
    /\ CInit
    /\ rec = [i \in Ids |-> NoRow] /\ nextid = 1 /\ people = Users
    /\ hist = <<>> /\ era = 1 /\ lostdel = {}
    /\ rtask = [t \in RTasks |-> RIdle] /\ sub = [s \in Subs |-> Deaf]
    /\ trespass = FALSE /\ leaked = FALSE

RGoto(t, r) == rtask' = [rtask EXCEPT ![t] = r]
RReturn(t) == RGoto(t, RIdle)
RAt(t, pc, op) == rtask[t].pc = pc /\ rtask[t].op = op
Gated(t) == CHOOSE sc \in rtask[t].sc : TRUE

----------------------------------------------------------------------------
(* Who may do what under given settings. *)

(* has_dml_cap *)
HasDmlCap(sc, who, v) ==
    \/ who = Service
    \/ who = Anon /\ v \in sc.anon
    \/ who \in Users /\ (v \in sc.user \/ (sc.owner /\ (v = "select" => sc.own)))
(* require_write_cap: anon never writes to an owner-scoped collection. *)
RequireWriteCap(sc, who, v) == HasDmlCap(sc, who, v) /\ ~(who = Anon /\ sc.owner)
(* compute_read_auth: a query RPC's grant stands in for a capability, but  *)
(* not for an owner scope.                                                 *)
ReadAuth(sc, who, grant) ==
    \/ who = Service
    \/ who = Anon /\ ~sc.owner /\ (grant \/ "select" \in sc.anon)
    \/ who \in Users /\ ((sc.owner /\ sc.own) \/ "select" \in sc.user \/ (grant /\ ~sc.owner))
(* compute_owner_write_filter, and the owner filter of a read. *)
OwnerWriteFilter(sc, who, r) == who \in Users /\ sc.owner => r.owner = who
OwnerReadFilter(sc, who, r) == who \in Users /\ sc.owner /\ sc.own => r.owner = who
(* policy_using_sql and eval_policy; the service bypasses policies. *)
PolicyAdmits(sc, who, v, r) == who = Service \/ v \notin sc.pol \/ r.val \in LowVals
Readable(sc, who, i) ==
    rec[i] # NoRow /\ OwnerReadFilter(sc, who, rec[i]) /\ PolicyAdmits(sc, who, "select", rec[i])

(* What settings promise, whatever the handler: the yardstick of NoTrespass.*)
MayTouch(sc, who, v, r) ==
    \/ who = Service
    \/ /\ v \notin sc.pol \/ r.val \in LowVals
       /\ who = Anon => ~sc.owner
       /\ sc.owner /\ (v = "select" => sc.own) => r.owner = who
Touch(t, v, rs) ==
    trespass' = (trespass \/ (~rtask[t].stale /\ \E r \in rs \ {NoRow} :
        \/ ~MayTouch(schema, rtask[t].who, v, r)
        \/ rtask[t].rpc = NoRpc /\ ~HasDmlCap(schema, rtask[t].who, v)))

----------------------------------------------------------------------------
(* record_history *)

(* capture: a row in the transaction of the write, when audit is on. *)
HistoryRow(i, old, new) == [id |-> i, old |-> old, new |-> new, era |-> era]
FaultCapture(h, on, i, old, new) == IF on THEN Append(h, HistoryRow(i, new, old)) ELSE h
Capture(h, on, i, old, new) == IF on THEN Append(h, HistoryRow(i, old, new)) ELSE h
(* What history_handler and get_record_history page through for the        *)
(* service, from the last to the first: the places of a record's entries.  *)
HistoryRows(i) == {k \in DOMAIN hist : hist[k].id = i}
HistRoom(n) == Len(hist) + n <= MaxHist
(* prune_tenant: the retention task deletes the oldest rows. *)
PruneTenant ==
    /\ hist # <<>> /\ hist' = Tail(hist)
    /\ UNCHANGED <<cvars, rec, nextid, people, era, lostdel, rtask, sub, trespass, leaked>>

(* A statement of a writer transaction: SQLite's foreign keys hold. *)
FkHolds(r) == r.owner \in people \cup {NoUser}
Write(i, new, audit) ==
    /\ rec' = [rec EXCEPT ![i] = new]
    /\ hist' = Capture(hist, audit, i, rec[i], new)

----------------------------------------------------------------------------
(* REST handlers.  Gate: ensure_loaded on a reader and the caller's        *)
(* rights, then a transaction that may also fail (quota, CHECK, database), *)
(* then publication.                                                       *)
Enter(t, op, who, i, r, sc) ==
    /\ rtask[t] = RIdle /\ EnsureLoaded(sc)
    /\ RGoto(t, [RIdle EXCEPT !.pc = "tx", !.op = op, !.who = who, !.id = i, !.row = r,
                              !.sc = {sc}, !.stale = change.pc = "inval"])
    /\ UNCHANGED <<schema, change, changes, rpcs, save, raced, dvars, sub, trespass, leaked>>
TxFails(t) == RReturn(t) /\ UNCHANGED <<dvars, trespass>>
ROthers == UNCHANGED <<cvars, sub, leaked>>
(* The event of a committed write goes out after the writer is released. *)
Published(t, i, r) == RGoto(t, [rtask[t] EXCEPT !.pc = "publish", !.id = i, !.row = r])

(* create_handler: the service names the owner, a user is the owner. *)
CreateHandler(t, who, r, sc) ==
    /\ RequireWriteCap(sc, who, "insert")
    /\ who = Service /\ sc.owner => r.owner # NoUser
    /\ Enter(t, "create", who, 0, IF who \in Users /\ sc.owner THEN [r EXCEPT !.owner = who] ELSE r, sc)
CreateTx(t) ==
    LET r == rtask[t].row IN
    /\ RAt(t, "tx", "create")
    /\ \/ /\ FkHolds(r) /\ PolicyAdmits(Gated(t), rtask[t].who, "insert", r)
          /\ nextid <= MaxId /\ HistRoom(1) /\ Write(nextid, r, schema.audit)
          /\ nextid' = nextid + 1 /\ Published(t, nextid, r) /\ Touch(t, "insert", {r})
          /\ UNCHANGED <<people, era, lostdel>>
       \/ TxFails(t)
    /\ ROthers

(* update_handler: USING and the owner filter on the old row, CHECK on the *)
(* new one; a user's owner field is taken out of the patch.                *)
UpdateHandler(t, who, i, r, sc) ==
    RequireWriteCap(sc, who, "update") /\ Enter(t, "update", who, i, r, sc)
UpdateTx(t) ==
    LET i == rtask[t].id  who == rtask[t].who  sc == Gated(t)
        new == IF who \in Users /\ sc.owner THEN [rtask[t].row EXCEPT !.owner = rec[i].owner]
                                            ELSE rtask[t].row
    IN
    /\ RAt(t, "tx", "update")
    /\ \/ /\ rec[i] # NoRow /\ OwnerWriteFilter(sc, who, rec[i]) /\ FkHolds(new)
          /\ PolicyAdmits(sc, who, "update", rec[i]) /\ PolicyAdmits(sc, who, "update", new)
          /\ HistRoom(1) /\ Write(i, new, schema.audit)
          /\ Published(t, i, new) /\ Touch(t, "update", {rec[i], new})
          /\ UNCHANGED <<nextid, people, era, lostdel>>
       \/ TxFails(t)
    /\ ROthers

(* delete_handler: unlike the others it records on the gate's audit flag. *)
DeleteHandler(t, who, i, sc) ==
    RequireWriteCap(sc, who, "delete") /\ Enter(t, "delete", who, i, NoRow, sc)
DeleteTx(t) ==
    LET i == rtask[t].id  who == rtask[t].who  sc == Gated(t) IN
    /\ RAt(t, "tx", "delete")
    /\ \/ /\ rec[i] # NoRow /\ OwnerWriteFilter(sc, who, rec[i])
          /\ PolicyAdmits(sc, who, "delete", rec[i])
          /\ HistRoom(1) /\ Write(i, NoRow, sc.audit)
          /\ lostdel' = IF schema.audit # sc.audit THEN lostdel \cup {i} ELSE lostdel
          /\ Published(t, i, NoRow) /\ Touch(t, "delete", {rec[i]})
          /\ UNCHANGED <<nextid, people, era>>
       \/ TxFails(t)
    /\ ROthers

(* delete_handler with dry_run counts the row a deletion would reach. *)
DeleteDryRun(t, who, i, sc) ==
    /\ RequireWriteCap(sc, who, "delete")
    /\ rec[i] # NoRow /\ OwnerWriteFilter(sc, who, rec[i]) /\ PolicyAdmits(sc, who, "delete", rec[i])
    /\ rtask[t] = RIdle /\ EnsureLoaded(sc)
    /\ trespass' = (trespass \/ (change.pc # "inval" /\ ~MayTouch(schema, who, "delete", rec[i])))
    /\ UNCHANGED <<schema, change, changes, rpcs, save, raced, dvars, rtask, sub, leaked>>

(* Readers: the gate, then rows under the owner filter and select policy.  *)
(* A raw filter or sort is for the service alone; a structured one is      *)
(* bound by the list builder; EXPLAIN shows the service the plan.          *)
ListHandler(t, who, raw, sc) ==
    /\ ReadAuth(sc, who, FALSE) /\ (raw => who = Service)
    /\ Enter(t, "read", who, 0, NoRow, sc)
GetHandler(t, who, i, sc) == ReadAuth(sc, who, FALSE) /\ Enter(t, "get", who, i, NoRow, sc)
PostList(t, who, sc) == ReadAuth(sc, who, FALSE) /\ Enter(t, "read", who, 0, NoRow, sc)
PostAggregate(t, who, sc) == ReadAuth(sc, who, FALSE) /\ Enter(t, "read", who, 0, NoRow, sc)
PostListExplain(t, who, sc) == who = Service /\ Enter(t, "read", who, 0, NoRow, sc)
(* Vector search: a gate of its own, which has no policy grant. *)
SearchGate(sc, who) == HasDmlCap(sc, who, "select") /\ ~(who = Anon /\ sc.owner)
SearchHandler(t, who, sc) == SearchGate(sc, who) /\ Enter(t, "read", who, 0, NoRow, sc)
SearchCollection(t, sc) == Enter(t, "read", Service, 0, NoRow, sc)
McpSearchCollection(t, sc) == SearchCollection(t, sc)
(* The MCP tools list_records, aggregate and query serve the service. *)
ListRecords(t, sc) == Enter(t, "read", Service, 0, NoRow, sc)
Aggregate(t, sc) == Enter(t, "read", Service, 0, NoRow, sc)
Query(t, sc) == Enter(t, "read", Service, 0, NoRow, sc)
McpListRecords(t, sc) == ListRecords(t, sc)
McpAggregate(t, sc) == Aggregate(t, sc)
McpQuery(t, sc) == Query(t, sc)
(* An edge function's calls, with the rights of its caller: the gates of   *)
(* the REST handlers over the transactions of the tools.                   *)
EnforcedInsert(t, who, r, sc) == CreateHandler(t, who, r, sc)
EnforcedUpdate(t, who, i, r, sc) == UpdateHandler(t, who, i, r, sc)
EnforcedDelete(t, who, i, sc) == DeleteHandler(t, who, i, sc)
EnforcedList(t, who, sc) == PostList(t, who, sc)
GetRow(t) ==
    /\ RAt(t, "tx", "get") /\ RReturn(t)
    /\ Touch(t, "select", IF Readable(Gated(t), rtask[t].who, rtask[t].id) THEN {rec[rtask[t].id]} ELSE {})
    /\ UNCHANGED dvars /\ ROthers
ReadRows(t) ==
    /\ RAt(t, "tx", "read") /\ RReturn(t)
    /\ Touch(t, "select", {rec[i] : i \in {j \in Ids : Readable(Gated(t), rtask[t].who, j)}})
    /\ UNCHANGED dvars /\ ROthers

----------------------------------------------------------------------------
(* The service's own writes, MCP tools and batches: settings are read in   *)
(* the transaction.                                                        *)
ServiceTx(t, i, r) ==
    /\ rtask[t] = RIdle
    /\ RGoto(t, [RIdle EXCEPT !.pc = "publish", !.op = "service", !.who = Service, !.id = i, !.row = r])
    /\ UNCHANGED <<people, era, lostdel, trespass>> /\ ROthers
(* insert_row_in_tx *)
InsertRecord(t, r) ==
    /\ nextid <= MaxId /\ HistRoom(1) /\ FkHolds(r) /\ (schema.owner => r.owner # NoUser)
    /\ Write(nextid, r, schema.audit) /\ nextid' = nextid + 1 /\ ServiceTx(t, nextid, r)
UpdateRecord(t, i, r) ==
    /\ rec[i] # NoRow /\ FkHolds(r) /\ HistRoom(1)
    /\ Write(i, r, schema.audit) /\ ServiceTx(t, i, r) /\ UNCHANGED nextid
DeleteRecord(t, i) ==
    /\ rec[i] # NoRow /\ HistRoom(1)
    /\ Write(i, NoRow, schema.audit) /\ ServiceTx(t, i, NoRow) /\ UNCHANGED nextid
(* batch_insert_core: every row or none. *)
BatchInsert(t, r1, r2) ==
    LET on == schema.audit IN
    /\ nextid < MaxId /\ HistRoom(2) /\ FkHolds(r1) /\ FkHolds(r2)
    /\ schema.owner => NoUser \notin {r1.owner, r2.owner}
    /\ rec' = [rec EXCEPT ![nextid] = r1, ![nextid + 1] = r2] /\ nextid' = nextid + 2
    /\ hist' = Capture(Capture(hist, on, nextid, NoRow, r1), on, nextid + 1, NoRow, r2)
    /\ ServiceTx(t, nextid, r1)
(* upsert_row_in_tx: the row that has the conflict key, if any, is the     *)
(* history's old image and is overwritten.                                 *)
UpsertRowInTx(db, i, r) ==
    [rows |-> [db.rows EXCEPT ![i] = r], hist |-> Capture(db.hist, schema.audit, i, db.rows[i], r)]
(* batch_upsert_core: one row conflicts and is updated, one is inserted. *)
BatchUpsert(t, i, r1, r2) ==
    LET db == UpsertRowInTx(UpsertRowInTx([rows |-> rec, hist |-> hist], i, r1), nextid, r2) IN
    /\ rec[i] # NoRow /\ nextid <= MaxId /\ HistRoom(2) /\ FkHolds(r1) /\ FkHolds(r2)
    /\ schema.owner => NoUser \notin {r1.owner, r2.owner}
    /\ rec' = db.rows /\ hist' = db.hist /\ nextid' = nextid + 1
    /\ ServiceTx(t, i, r1)

(* The handlers of the MCP tools.  delete_record with dry_run validates    *)
(* and counts, and changes nothing.                                        *)
McpInsertRecord(t, r) == InsertRecord(t, r)
McpUpdateRecord(t, i, r) == UpdateRecord(t, i, r)
DeleteRecordValidate(i) == rec[i] # NoRow
McpDeleteRecord(t, i, dry) ==
    IF dry THEN DeleteRecordValidate(i) /\ UNCHANGED rvars ELSE DeleteRecord(t, i)
McpInsertRecords(t, r1, r2) == BatchInsert(t, r1, r2)
McpUpsertRecords(t, i, r1, r2) == BatchUpsert(t, i, r1, r2)

(* post_batch and post_upsert: the same cores for the service over REST. *)
PostBatch(t, r1, r2) == BatchInsert(t, r1, r2)
PostUpsert(t, i, r1, r2) == BatchUpsert(t, i, r1, r2)

Owns(u) == {i \in Current : rec[i].owner = u}
(* delete_user, tool and route, in one transaction: the user's rows of an  *)
(* owner-scoped collection go, recorded by capture_owner_cascade, then the *)
(* user; a row left elsewhere refers to the user and the foreign key       *)
(* refuses.  No event is published.  The rows are recorded in whatever     *)
(* order the query yields them.                                            *)
CaptureOwnerCascade(u) ==
    \E order \in Bijection(1 .. Cardinality(Owns(u)), Owns(u)) :
        hist' = IF schema.audit
                THEN hist \o [k \in DOMAIN order |-> HistoryRow(order[k], rec[order[k]], NoRow)]
                ELSE hist
DeleteUser(u) ==
    /\ u \in people /\ (~schema.owner => Owns(u) = {}) /\ HistRoom(Cardinality(Owns(u)))
    /\ rec' = [i \in Ids |-> IF i \in Owns(u) THEN NoRow ELSE rec[i]]
    /\ CaptureOwnerCascade(u)
    /\ people' = people \ {u}
    /\ UNCHANGED <<cvars, nextid, era, lostdel, rtask, sub, trespass, leaked>>
DeleteUserHandler(u) == DeleteUser(u)
McpDeleteUser(u) == DeleteUser(u)

----------------------------------------------------------------------------
(* call_rpc.  The stored row is looked up on a reader; the service and,    *)
(* for an anon-callable RPC, everybody may call.  A bound :user_id is the  *)
(* caller's own and anon has none.                                         *)
CallRpc(t, who, n) ==
    /\ rtask[t] = RIdle /\ rpcs[n] # NoRpc /\ (who = Service \/ rpcs[n].anon)
    /\ who = Anon => ~rpcs[n].bound
    /\ RGoto(t, [RIdle EXCEPT !.pc = "rpc", !.who = who, !.rpc = rpcs[n], !.op = n,
                              !.stale = n \in raced \/ change.pc = "inval"])
    /\ UNCHANGED <<dvars, trespass>> /\ ROthers
(* The tool call_rpc serves the service, on the reader whatever the mode:  *)
(* there a statement that writes is refused.                               *)
McpCallRpc(t, n) == ~rpcs[n].write /\ CallRpc(t, Service, n)
Named(t) == {rec[i] : i \in {j \in Current : rtask[t].rpc.bound /\ rtask[t].who \in Users
                                             => rec[j].owner = rtask[t].who}}
(* Stored SQL sees every row its own predicates select; no policy applies. *)
RpcTouch(t, rs) ==
    trespass' = (trespass \/ (~rtask[t].stale /\ rtask[t].who # Service /\
        \E r \in rs \ {NoRow} : schema.pol # {} \/ (schema.owner /\ r.owner # rtask[t].who)))
RpcAt(t, kind, write) ==
    /\ rtask[t].pc = "rpc" /\ rtask[t].rpc.kind = kind /\ rtask[t].rpc.write = write
(* run_query_rpc: a structured list under the RPC's grant. *)
RunQueryRpc(t, sc) ==
    /\ RpcAt(t, "query", FALSE) /\ RReturn(t) /\ EnsureLoaded(sc)
    /\ \/ /\ ReadAuth(sc, rtask[t].who, TRUE)
          /\ Touch(t, "select", {rec[i] : i \in {j \in Ids : Readable(sc, rtask[t].who, j)}})
       \/ ~ReadAuth(sc, rtask[t].who, TRUE) /\ UNCHANGED trespass
    /\ UNCHANGED <<schema, change, changes, rpcs, save, raced, dvars, sub, leaked>>
(* The read mode looks the row up again in the reader that runs it. *)
RunReadRpc(t) ==
    /\ RpcAt(t, "sql", FALSE) /\ RReturn(t)
    /\ \/ rpcs[rtask[t].op] = rtask[t].rpc /\ RpcTouch(t, Named(t))
       \/ rpcs[rtask[t].op] # rtask[t].rpc /\ UNCHANGED trespass
    /\ UNCHANGED dvars /\ ROthers
(* run_write_rpc: each statement that changes an audited table is buffered *)
(* by the pre-update hook, and flush_captured writes the buffer to the     *)
(* history before the savepoint is released.  A bound body keeps to its    *)
(* caller's rows, as the guard's tokens make its author write it.          *)
PreupdateCapture(buf, i, old, new) == Append(buf, [id |-> i, old |-> old, new |-> new])
FlushCaptured(buf) ==
    IF schema.audit THEN hist \o [k \in DOMAIN buf |-> HistoryRow(buf[k].id, buf[k].old, buf[k].new)] ELSE hist
RunWriteRpc(t, i, r, final) ==
    LET bound == rtask[t].rpc.bound /\ rtask[t].who \in Users
        first == PreupdateCapture(<<>>, i, rec[i], r)
    IN
    /\ RpcAt(t, "sql", TRUE) /\ RReturn(t)
    /\ rec[i] \in Named(t) /\ HistRoom(2) /\ FkHolds(r) /\ FkHolds(final)
    /\ bound => r.owner = rtask[t].who /\ (final = NoRow \/ final.owner = rtask[t].who)
    /\ rec' = [rec EXCEPT ![i] = final]
    /\ hist' = FlushCaptured(IF final = r THEN first ELSE PreupdateCapture(first, i, r, final))
    /\ RpcTouch(t, {rec[i], r, final})
    /\ UNCHANGED <<nextid, people, era, lostdel>> /\ ROthers
(* An error, a limit of the hook, the quota or a dry run rolls it back. *)
RollBackWriteRpc(t) ==
    /\ RpcAt(t, "sql", TRUE) /\ RReturn(t) /\ UNCHANGED <<dvars, trespass>> /\ ROthers

----------------------------------------------------------------------------
(* Events.  subscribe_handler gates on the cached settings and keeps the   *)
(* select policy it saw; then it joins the channel.                        *)
SubscribeHandler(s, who, sc) ==
    /\ sub[s] = Deaf /\ who \in {Anon, Service} /\ EnsureLoaded(sc) /\ sc.live
    /\ who = Anon => "select" \in sc.anon /\ ~sc.owner
    /\ sub' = [sub EXCEPT ![s] = [pc |-> "gated", who |-> who, sc |-> {sc}, late |-> FALSE]]
    /\ UNCHANGED <<schema, change, changes, rpcs, save, raced, dvars, rtask, trespass, leaked>>
Subscribe(s) ==
    /\ sub[s].pc = "gated" /\ sub' = [sub EXCEPT ![s].pc = "on"]
    /\ UNCHANGED <<cvars, dvars, rtask, trespass, leaked>>
Disconnect(s) ==
    /\ sub[s].pc = "on" /\ sub' = [sub EXCEPT ![s] = Deaf]
    /\ UNCHANGED <<cvars, dvars, rtask, trespass, leaked>>
(* evict_collection: the sender is dropped and its receivers close. *)
FaultEvictCollection ==
    /\ change.pc = "evict" /\ change' = Quiet
    /\ UNCHANGED <<schema, scache, changes, rpcs, save, raced, dvars, rtask, trespass, leaked, sub>>
EvictCollection ==
    /\ change.pc = "evict" /\ change' = Quiet
    /\ sub' = [s \in Subs |-> CASE sub[s].pc = "on" -> Deaf
                               [] sub[s].pc = "gated" -> [sub[s] EXCEPT !.late = TRUE]
                               [] OTHER -> sub[s]]
    /\ UNCHANGED <<schema, scache, changes, rpcs, save, raced, dvars, rtask, trespass, leaked>>
(* The filter a connection captured; a deletion carries no row. *)
Heard(s, r) ==
    sub[s].pc = "on" /\ \A sc \in sub[s].sc :
        sub[s].who = Service \/ "select" \notin sc.pol \/ r.val \in LowVals
MayHear(who, r) ==
    /\ schema.live
    /\ who = Anon => /\ "select" \in schema.anon /\ ~schema.owner
                     /\ "select" \in schema.pol => r.val \in LowVals
(* publish: to whoever is connected, also when realtime is off by now. *)
Publish(t) ==
    /\ rtask[t].pc = "publish" /\ RReturn(t)
    /\ leaked' = (leaked \/ (change.pc = "idle" /\ \E s \in Subs :
                    ~sub[s].late /\ Heard(s, rtask[t].row) /\ ~MayHear(sub[s].who, rtask[t].row)))
    /\ UNCHANGED <<cvars, dvars, sub, trespass>>
(* The client hung up and the handler is dropped: its event is lost. *)
RDrop(t) ==
    /\ rtask[t].pc = "publish" /\ RReturn(t)
    /\ UNCHANGED <<cvars, dvars, sub, trespass, leaked>>

(* A settings change among the requests in flight. *)
Reconfigure ==
    /\ Configure
    /\ rtask' = [t \in RTasks |-> [rtask[t] EXCEPT !.stale = @ \/ (rtask[t] # RIdle /\ schema' # schema)]]
    /\ era' = IF schema'.audit /\ ~schema.audit THEN era + 1 ELSE era
    /\ UNCHANGED <<rec, nextid, people, hist, lostdel, sub, trespass, leaked>>

Request(t) ==
    \/ \E who \in Callers, sc \in scache \cup {schema} :
          \/ \E r \in Rows : CreateHandler(t, who, r, sc) \/ (\E i \in Ids : UpdateHandler(t, who, i, r, sc))
          \/ \E i \in Ids : DeleteHandler(t, who, i, sc) \/ DeleteDryRun(t, who, i, sc) \/ GetHandler(t, who, i, sc)
          \/ \E raw \in BOOLEAN : ListHandler(t, who, raw, sc)
          \/ PostList(t, who, sc) \/ PostAggregate(t, who, sc) \/ PostListExplain(t, who, sc)
          \/ SearchHandler(t, who, sc)
    \/ \E sc \in scache \cup {schema} :
          McpListRecords(t, sc) \/ McpAggregate(t, sc) \/ McpQuery(t, sc) \/ McpSearchCollection(t, sc)
    \/ CreateTx(t) \/ UpdateTx(t) \/ DeleteTx(t) \/ GetRow(t) \/ ReadRows(t)
    \/ Publish(t) \/ RDrop(t)
FunctionRequest(t) ==
    \E who \in Callers, sc \in scache \cup {schema} :
       \/ \E r \in Rows : EnforcedInsert(t, who, r, sc) \/ (\E i \in Ids : EnforcedUpdate(t, who, i, r, sc))
       \/ EnforcedList(t, who, sc) \/ \E i \in Ids : EnforcedDelete(t, who, i, sc)
ServiceRequest(t) ==
    \/ \E r \in Rows : McpInsertRecord(t, r) \/ (\E i \in Ids : McpUpdateRecord(t, i, r))
    \/ \E i \in Ids, dry \in BOOLEAN : McpDeleteRecord(t, i, dry)
    \/ \E r1, r2 \in Rows :
          \/ McpInsertRecords(t, r1, r2) \/ PostBatch(t, r1, r2)
          \/ \E i \in Ids : McpUpsertRecords(t, i, r1, r2) \/ PostUpsert(t, i, r1, r2)
RpcRequest(t) ==
    \/ \E who \in Callers, n \in Rpcs : CallRpc(t, who, n)
    \/ \E n \in Rpcs : McpCallRpc(t, n)
    \/ \E sc \in scache \cup {schema} : RunQueryRpc(t, sc)
    \/ RunReadRpc(t) \/ RollBackWriteRpc(t)
    \/ \E i \in Ids, r \in Rows, final \in Rows \cup {NoRow} : RunWriteRpc(t, i, r, final)
Listener(s) ==
    \/ \E who \in {Anon, Service}, sc \in scache \cup {schema} : SubscribeHandler(s, who, sc)
    \/ Subscribe(s) \/ Disconnect(s)

RNext ==
    \/ Reconfigure \/ EvictCollection \/ PruneTenant
    \/ EditRpcs /\ UNCHANGED <<dvars, rtask, sub, trespass, leaked>>
    \/ \E u \in Users : McpDeleteUser(u) \/ DeleteUserHandler(u)
    \/ \E t \in RTasks : Request(t) \/ FunctionRequest(t) \/ ServiceRequest(t) \/ RpcRequest(t)
    \/ \E s \in Subs : Listener(s)

RSpec == RInit /\ [][RNext]_rvars

----------------------------------------------------------------------------
(* The shape of the state. *)
RTypeOK ==
    /\ CTypeOK
    /\ rec \in [Ids -> Rows \cup {NoRow}] /\ nextid \in 1 .. MaxId + 1 /\ people \subseteq Users
    /\ \A i \in DOMAIN hist : hist[i].id \in Ids /\ hist[i].era <= era
    /\ Len(hist) <= MaxHist /\ lostdel \subseteq Ids
    /\ \A i \in Current : i < nextid /\ rec[i].owner \in people \cup {NoUser}
    /\ \A t \in RTasks : rtask[t].pc \in {"idle", "tx", "rpc", "publish"}
    /\ \A s \in Subs : sub[s].pc \in {"off", "gated", "on"}

(* While audit stays on, the history of a record is a chain: each entry    *)
(* starts from the row the one before it left, and the last one left the   *)
(* row the table has now -- whoever wrote it, through whichever door, and  *)
(* however much the retention task has pruned.  A deletion whose gate saw  *)
(* another audit flag is the code's known exception.                       *)
HistoryChain ==
    \A i \in Ids \ lostdel :
        LET rows == HistoryRows(i) IN
        /\ \A j, k \in rows :
              j < k /\ (\A l \in rows : l <= j \/ k <= l) /\ hist[j].era = hist[k].era => hist[k].old = hist[j].new
        /\ \A k \in rows :
              (\A l \in rows : l <= k) /\ schema.audit /\ hist[k].era = era => rec[i] = hist[k].new

(* A request that began after the last settings change was finished        *)
(* touches, reads or returns only rows that the committed settings allow   *)
(* its caller: owner scope, policies and the guards of stored RPCs hold    *)
(* whatever the schema cache has.                                          *)
NoTrespass == ~trespass

(* After a settings change is finished no subscriber hears an event the    *)
(* settings now forbid, except one that passed the gate before the channel *)
(* was closed and joined after it.                                         *)
SseNoLeak == ~leaked
============================================================================
