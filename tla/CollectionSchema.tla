------------------------- MODULE CollectionSchema -------------------------
(***************************************************************************)
(* The schema of one collection with one optional field: the table, its    *)
(* row in _system_collection_meta, the operations that change them         *)
(* (mcp/tools/schema.rs, tenant/collections.rs) and the schema cache of    *)
(* each pool (storage/schema_cache.rs), from which the record handlers     *)
(* take capabilities and constraints.                                      *)
(*                                                                         *)
(* A request takes a pool, the registry's or the one the tenant's DrustMcp *)
(* keeps, then runs one operation.  SQLite serialises the writes; between  *)
(* two writes of an operation, between its last write and its invalidate,  *)
(* and between a cache miss's read and its insert, others run.             *)
(***************************************************************************)
EXTENDS Naturals, FiniteSets

CONSTANTS
    MaxPool,   \* bound on the pools opened for the tenant
    Tasks      \* requests in flight

ASSUME BoundsAssumption == MaxPool \in Nat

VARIABLES
    live,      \* tables of this name: 0 or 1
    fld,       \* the field in the DDL: "none", "plain", or "checked" (CHECK)
    meta,      \* the _system_collection_meta row
    opened,    \* pools opened so far
    reg, mcp,  \* the registry's pool and the DrustMcp's pool, 0 if none
    cache,     \* SchemaCache of each pool
    task

tableVars == <<live, fld, meta>>
poolVars == <<opened, reg, mcp>>
vars == <<live, fld, meta, opened, reg, mcp, cache, task>>

Pools == 1 .. MaxPool
NoMeta == [row |-> FALSE, con |-> FALSE, caps |-> FALSE, orphan |-> FALSE]
NoTask == [pc |-> "idle", p |-> 0, face |-> "rest", v |-> <<>>]
(* describe_collection: what the cache keeps of table and meta row. *)
Describe == <<live, fld, meta.con, meta.caps>>
Empty == [v |-> <<>>, late |-> FALSE, missed |-> FALSE]

Init ==
    /\ live = 0 /\ fld = "none" /\ meta = NoMeta
    /\ opened = 0 /\ reg = 0 /\ mcp = 0
    /\ cache = [p \in Pools |-> Empty]
    /\ task = [c \in Tasks |-> NoTask]

Step(c, q) == task' = [task EXCEPT ![c] = q]
(* The operation goes on, through whichever door it came. *)
Goto(c, pc) == Step(c, [NoTask EXCEPT !.pc = pc, !.p = task[c].p])
Ready(c) == task[c].pc = "ready"

----------------------------------------------------------------------------
(* The pool of a request: McpRegistry's DrustMcp keeps its own; otherwise  *)
(* the registry's, or a new one that is inserted after it was opened.      *)
TakePool(c, face) ==
    /\ task[c].pc = "idle"
    /\ LET p == IF face = "mcp" /\ mcp # 0 THEN mcp ELSE reg IN
       \/ /\ p # 0
          /\ Step(c, [NoTask EXCEPT !.pc = "ready", !.p = p, !.face = face])
          /\ mcp' = IF face = "mcp" THEN p ELSE mcp
          /\ UNCHANGED opened
       \/ /\ p = 0 /\ opened < MaxPool
          /\ opened' = opened + 1
          /\ Step(c, [NoTask EXCEPT !.pc = "opened", !.p = opened + 1, !.face = face])
          /\ UNCHANGED mcp
    /\ UNCHANGED <<tableVars, reg, cache>>

InsertPool(c) ==
    /\ task[c].pc = "opened"
    /\ reg' = task[c].p
    /\ mcp' = IF task[c].face = "mcp" THEN task[c].p ELSE mcp
    /\ Step(c, [task[c] EXCEPT !.pc = "ready"])
    /\ UNCHANGED <<tableVars, opened, cache>>

----------------------------------------------------------------------------
(* SchemaCache *)

(* ensure_loaded: a hit changes nothing, a miss reads and then inserts. *)
EnsureLoaded(c) ==
    /\ Ready(c)
    /\ IF cache[task[c].p].v = <<>> /\ live # 0
       THEN Step(c, [NoTask EXCEPT !.pc = "insert", !.p = task[c].p, !.v = Describe])
       ELSE Step(c, NoTask)
    /\ UNCHANGED <<tableVars, poolVars, cache>>

(* late is history: the schema had changed since it was read. *)
InsertSchema(c) ==
    /\ task[c].pc = "insert"
    /\ cache' = [cache EXCEPT ![task[c].p] =
                    [v |-> task[c].v, late |-> task[c].v # Describe, missed |-> FALSE]]
    /\ Step(c, NoTask)
    /\ UNCHANGED <<tableVars, poolVars>>

Invalidate(c) ==
    /\ task[c].pc = "invalidate"
    /\ cache' = [cache EXCEPT ![task[c].p] = Empty]
    /\ Step(c, NoTask)
    /\ UNCHANGED <<tableVars, poolVars>>

(* A committed write through the pool of c.  missed is history: the entry  *)
(* is of a pool whose cache this operation will not invalidate.            *)
Wrote(c) ==
    cache' = [p \in Pools |->
                [cache[p] EXCEPT !.missed = @ \/ (cache[p].v # <<>> /\ p # task[c].p)]]

(* A write that failed after an earlier one was committed: the operation   *)
(* returns and its invalidate never runs.                                  *)
FailsHalfway(c) ==
    /\ task[c].pc = "constraints"
    /\ cache' = [p \in Pools |-> [cache[p] EXCEPT !.missed = @ \/ cache[p].v # <<>>]]
    /\ Step(c, NoTask)
    /\ UNCHANGED <<tableVars, poolVars>>

----------------------------------------------------------------------------
(* Operations on the collection *)

(* create_collection_with_desc: the table and its meta row in one          *)
(* transaction; an existing meta row keeps what the seed does not set.     *)
CreateCollection(c, con) ==
    /\ Ready(c) /\ live = 0
    /\ live' = 1
    /\ fld' = IF con THEN "checked" ELSE "none"
    /\ meta' = [meta EXCEPT !.row = TRUE, !.caps = FALSE, !.con = @ \/ con,
                            !.orphan = FALSE]
    /\ Wrote(c) /\ Goto(c, "invalidate")
    /\ UNCHANGED poolVars

(* drop_collection *)
DropCollection(c) ==
    /\ Ready(c) /\ live # 0
    /\ live' = 0 /\ fld' = "none" /\ meta' = NoMeta
    /\ Wrote(c) /\ Goto(c, "invalidate")
    /\ UNCHANGED poolVars

(* add_field: ALTER TABLE, then, when the field has any, its constraints. *)
AddField(c, con) ==
    /\ Ready(c) /\ live # 0 /\ fld = "none"
    /\ fld' = IF con THEN "checked" ELSE "plain"
    /\ Wrote(c) /\ Goto(c, IF con THEN "constraints" ELSE "invalidate")
    /\ UNCHANGED <<live, meta, poolVars>>

WriteConstraints(c) ==
    /\ task[c].pc = "constraints"
    /\ meta' = [meta EXCEPT !.row = TRUE, !.con = TRUE,
                            !.orphan = @ \/ (~ meta.row /\ live = 0)]
    /\ Wrote(c) /\ Goto(c, "invalidate")
    /\ UNCHANGED <<live, fld, poolVars>>

(* drop_field: the column goes, its vector entry too; the constraints stay *)
(* in the meta row.                                                        *)
FaultDropField(c) ==
    /\ Ready(c) /\ live # 0 /\ fld # "none"
    /\ fld' = "none"
    /\ Wrote(c) /\ Step(c, NoTask)
    /\ UNCHANGED <<live, meta, poolVars>>
DropField(c) ==
    /\ Ready(c) /\ live # 0 /\ fld # "none"
    /\ fld' = "none"
    /\ Wrote(c) /\ Goto(c, "invalidate")
    /\ UNCHANGED <<live, meta, poolVars>>

(* set_anon_caps, set_user_caps, set_policy and the MCP description tools: *)
(* existence is checked in the writer closure.                             *)
SetCaps(c) ==
    /\ Ready(c) /\ live # 0
    /\ meta' = [meta EXCEPT !.row = TRUE, !.caps = ~ @]
    /\ Wrote(c) /\ Goto(c, "invalidate")
    /\ UNCHANGED <<live, fld, poolVars>>

(* The REST description handlers check existence with a reader and write   *)
(* afterwards.                                                             *)
CheckDescription(c) ==
    /\ Ready(c) /\ task[c].face = "rest"
    /\ IF live # 0 THEN Goto(c, "describe") ELSE Step(c, NoTask)
    /\ UNCHANGED <<tableVars, poolVars, cache>>

WriteDescription(c) ==
    /\ task[c].pc = "describe"
    /\ meta' = [meta EXCEPT !.row = TRUE, !.orphan = @ \/ (~ meta.row /\ live = 0)]
    /\ Wrote(c) /\ Goto(c, "invalidate")
    /\ UNCHANGED <<live, fld, poolVars>>

(* The console checks and writes like the REST handler. *)
AdminUpdateCollectionDescription(c) == CheckDescription(c)

(* The MCP tools, each a call of its operation. *)
McpCreateCollection(c, con) == CreateCollection(c, con)
McpAddField(c, con) == AddField(c, con)
McpDropField(c) == DropField(c)

(* An operation that its checks refuse. *)
Refused(c) ==
    /\ Ready(c)
    /\ Step(c, NoTask)
    /\ UNCHANGED <<tableVars, poolVars, cache>>

----------------------------------------------------------------------------
Change(c) ==
    \/ \E con \in BOOLEAN : McpCreateCollection(c, con) \/ McpAddField(c, con)
    \/ DropCollection(c) \/ WriteConstraints(c) \/ FailsHalfway(c)
    \/ McpDropField(c) \/ SetCaps(c)
    \/ CheckDescription(c) \/ AdminUpdateCollectionDescription(c) \/ WriteDescription(c) \/ Refused(c)

Next ==
    \E c \in Tasks :
        \/ \E face \in {"rest", "mcp"} : TakePool(c, face)
        \/ InsertPool(c)
        \/ EnsureLoaded(c) \/ InsertSchema(c) \/ Invalidate(c)
        \/ Change(c)

Spec == Init /\ [][Next]_vars

----------------------------------------------------------------------------
(* Properties.                                                             *)

Schemas ==
    {<<>>} \cup ({0, 1} \X {"none", "plain", "checked"} \X BOOLEAN \X BOOLEAN)

TypeOK ==
    /\ live \in {0, 1}
    /\ fld \in {"none", "plain", "checked"}
    /\ meta \in [row : BOOLEAN, con : BOOLEAN, caps : BOOLEAN, orphan : BOOLEAN]
    /\ opened \in 0 .. MaxPool /\ reg \in 0 .. opened /\ mcp \in 0 .. opened
    /\ cache \in [Pools -> [v : Schemas, late : BOOLEAN, missed : BOOLEAN]]
    /\ task \in [Tasks -> [pc : {"idle", "opened", "ready", "insert", "invalidate",
                                 "constraints", "describe"},
                           p : 0 .. opened, face : {"rest", "mcp"}, v : Schemas]]

(* Every change of the schema reaches the cache of the pool it went        *)
(* through: an entry that was current when it was inserted, and that no    *)
(* change bypassed, is current, or the operation that outdated it is about *)
(* to invalidate it.                                                       *)
ChangesInvalidate ==
    \A p \in Pools :
        (cache[p].v # <<>> /\ ~ cache[p].late /\ ~ cache[p].missed)
            => \/ cache[p].v = Describe
               \/ \E c \in Tasks : /\ task[c].p = p
                                   /\ task[c].pc \in {"constraints", "invalidate"}

(* Table and meta row go together: no operation that checks existence in   *)
(* its writer closure leaves a row without a table, and a drop leaves none *)
(* behind.  orphan marks rows of the operations that check earlier.        *)
MetaFollowsTable == (meta.row /\ live = 0) => meta.orphan

Idle == \A c \in Tasks : task[c].pc = "idle"

(* schema_cache.rs: DDL "forces the next reader to re-fetch a fresh        *)
(* snapshot": when nothing is in flight, a cache that no change bypassed   *)
(* has the current schema or nothing.                                      *)
EntryRefetched ==
    Idle => \A p \in Pools :
                (cache[p].v # <<>> /\ ~ cache[p].missed) => cache[p].v = Describe
============================================================================
