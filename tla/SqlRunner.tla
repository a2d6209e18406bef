------------------------------ MODULE SqlRunner ------------------------------
(***************************************************************************)
(* How caller-written SQL runs on a tenant's pooled connections            *)
(* (src/query/authorizer.rs, src/query/executor.rs, src/rpc/exec_write.rs, *)
(* src/rpc/prepare.rs and their callers).  A connection carries settings   *)
(* that outlive one use of it: an authorizer, a progress handler (the      *)
(* deadline), a preupdate hook and an open savepoint.  Every path, the     *)
(* failing ones too, must take down what it put up before the next holder  *)
(* of the connection runs drust's own statements on it.                    *)
(*                                                                         *)
(* A closure given to with_reader holds its connection without awaiting,   *)
(* so it is one step; the body of a write RPC is one step per statement.   *)
(***************************************************************************)
EXTENDS Integers, Sequences

CONSTANTS
    SqlTasks,  \* callers
    Readers,   \* the pool's read-only connections
    Nobody,    \* the writer is free
    NoBody,    \* no RPC of the name is stored
    Bodies,    \* bodies an RPC may be given: mode, splits cleanly, statements
    Asked,     \* statements of the ad hoc queries
    MaxDml     \* bound: writes acknowledged, calls counted

ASSUME SqlAssumption ==
    /\ 0 \notin Readers /\ Readers \subseteq Nat /\ MaxDml \in Nat
    /\ Nobody \notin SqlTasks
    /\ \A b \in Bodies : b.mode \in {"read", "write"}

Writer == 0
Conns == Readers \cup {Writer}

VARIABLES
    conn,     \* connection |-> what is installed on it
    holder,   \* the task inside the writer's closure
    job,      \* task |-> what it is doing
    coll,     \* the collection (and its search index) exists
    disk,     \* committed writes to the collection and to its search index
    work,     \* the same inside the open savepoint
    rpc,      \* the stored RPC, or NoBody
    acked,    \* writes of the bodies whose callers were told they committed
    tally     \* the RPC's counter, increments spawned and not yet run, successes told

sqlvars == <<conn, holder, job, coll, disk, work, rpc, acked, tally>>

Bare == [auth |-> "open", hook |-> FALSE, clock |-> FALSE, save |-> FALSE]
Idle == [pc |-> "idle"]

-----------------------------------------------------------------------------
(* Authorizers                                                             *)

\* What SQLite asks the authorizer while it prepares a statement: an action, the
\* class of its table, and whether a trigger of the search index is asking.
Select == <<"read", "user", FALSE>>
OwnRead == <<"read", "system", FALSE>>
OwnWrite == <<"write", "system", FALSE>>
Savepoint == <<"ddl", "user", FALSE>>

\* A write to an indexed collection also writes the index's head, on behalf of
\* the sync trigger, and the tables inside it.
Needs(s) ==
    CASE s.op = "select" /\ s.on = "user" -> {Select}
      [] s.op = "select" /\ s.on = "search" -> {<<"read", "head", FALSE>>}
      [] s.op = "select" -> {OwnRead}
      [] s.op = "dml" /\ s.on = "user" -> {Select, <<"write", "user", FALSE>>, <<"write", "head", TRUE>>, <<"write", "internal", FALSE>>}
      [] s.op = "dml" /\ s.on = "search" -> {<<"write", "head", FALSE>>}
      [] s.op = "dml" -> {OwnWrite}
      [] OTHER -> {Savepoint}

ReadonlyAllows(n) == n[1] = "read" /\ n[2] = "user"

SearchReadonlyAllows(n) ==
    \/ n[1] = "read" /\ n[2] # "system"
    \/ n[1] = "write" /\ n[2] \in {"head", "internal"}

WritableAllows(n) ==
    \/ n[1] = "read" /\ n[2] # "system"
    \/ n[1] = "write" /\ (n[2] \in {"user", "internal"} \/ (n[2] = "head" /\ n[3]))

\* referenced_user_tables' authorizer lets every read through and notes it.
CaptureAllows(mode, n) == n[1] = "read" \/ (n[1] = "write" /\ mode = "write")

Allows(auth, n) ==
    CASE auth = "open" -> TRUE
      [] auth = "strict" -> ReadonlyAllows(n)
      [] auth = "search" -> SearchReadonlyAllows(n)
      [] auth = "writable" -> WritableAllows(n)

Prepares(auth, s) ==
    /\ \A n \in Needs(s) : Allows(auth, n)
    /\ s.on = "user" => coll

\* How a statement ends under what is installed on its connection.  "abandon" is
\* INSERT OR ROLLBACK on a conflict: SQLite drops the whole transaction.
Ends(on, s) ==
    CASE \E n \in Needs(s) : ~Allows(on.auth, n) -> "denied"
      [] s.on = "user" /\ ~coll -> "error"
      [] s.end = "long" /\ on.clock -> "timeout"
      [] s.end \in {"fails", "abandon"} -> "error"
      [] OTHER -> "ok"

-----------------------------------------------------------------------------
(* Readers                                                                 *)

AttachReadonly(on) == [on EXCEPT !.auth = "strict"]
AttachSearchReadonly(on) == [on EXCEPT !.auth = "search"]
DetachAuthorizer(on) == [on EXCEPT !.auth = "open"]
ArmDeadline(on) == [on EXCEPT !.clock = TRUE]
DropDeadline(on) == [on EXCEPT !.clock = FALSE]

\* with_reader takes the first slot it can lock.  A closure is one step, so
\* between steps every reader is free and another caller may hold any of them.
WithReader(c) == c \in Readers

\* execute_read_query and execute_read_query_with_named: strict authorizer, then
\* the deadline, then the statement; both come down on every path.
ReadQuery(c, s, tooLarge) ==
    IF tooLarge THEN [on |-> conn[c], result |-> "too_large"]
    ELSE LET armed == ArmDeadline(AttachReadonly(conn[c]))
             \* The readers are opened read-only: a write fails whatever allows it.
             end == IF s.op = "dml" /\ Ends(armed, s) = "ok" THEN "error" ELSE Ends(armed, s)
         IN  [on |-> DetachAuthorizer(DropDeadline(armed)), result |-> end]

\* The list, aggregate and stored-query closures: deadline first, then the
\* authorizer that also admits the search index.
ListQueryRun(c, s) ==
    LET armed == AttachSearchReadonly(ArmDeadline(conn[c]))
    IN  [on |-> DropDeadline(DetachAuthorizer(armed)), result |-> Ends(armed, s)]

QueryHandler(c, s) ==
    /\ WithReader(c)
    /\ \E large \in BOOLEAN : conn' = [conn EXCEPT ![c] = ReadQuery(c, s, large).on]
    /\ UNCHANGED <<holder, job, coll, disk, work, rpc, acked, tally>>

McpQuery(c, s) == QueryHandler(c, s)

\* EXPLAIN QUERY PLAN under the strict authorizer; the closure's errors pass
\* through a local result, so the detach always runs.
ExplainSelect(c, s) ==
    /\ WithReader(c)
    /\ conn' = [conn EXCEPT ![c] = DetachAuthorizer(AttachReadonly(@))]
    /\ UNCHANGED <<holder, job, coll, disk, work, rpc, acked, tally>>

McpExplain(c, s) == ExplainSelect(c, s)

ListRun(c, s) ==
    /\ WithReader(c)
    /\ conn' = [conn EXCEPT ![c] = ListQueryRun(c, s).on]
    /\ UNCHANGED <<holder, job, coll, disk, work, rpc, acked, tally>>

\* The console's list reads a system table with no authorizer of its own, and a
\* collection under the strict one.
AdminList(c, isProtected) ==
    /\ WithReader(c)
    /\ conn' = [conn EXCEPT ![c] = IF isProtected THEN @ ELSE DetachAuthorizer(AttachReadonly(@))]
    /\ UNCHANGED <<holder, job, coll, disk, work, rpc, acked, tally>>

\* Its count is a closure, and so maybe a reader, of its own.
AdminCount(c, isProtected) == AdminList(c, isProtected)

\* drust's own reads run under whatever the last holder left on the reader.
Served(c) == Allows(conn[c].auth, OwnRead)

-----------------------------------------------------------------------------
(* The preview of a delete                                                 *)

\* require_write_cap loads the schema: from the cache, or from the system tables.
DeletePreview(t, c) ==
    /\ job[t].pc = "idle" /\ WithReader(c) /\ coll
    /\ \E cached \in BOOLEAN : cached \/ Served(c)
    /\ job' = [job EXCEPT ![t] = [pc |-> "preview"]]
    /\ UNCHANGED <<conn, holder, coll, disk, work, rpc, acked, tally>>

\* The target is looked up under the strict authorizer.  An error of the
\* statement, as when the collection was dropped meanwhile, leaves the closure
\* by `?` before it detaches.
PreviewTarget(t, c) ==
    /\ job[t].pc = "preview" /\ WithReader(c)
    /\ LET armed == AttachReadonly(conn[c])
           end == Ends(armed, [op |-> "select", on |-> "user", end |-> "ok"])
       IN  /\ conn' = [conn EXCEPT ![c] = IF end = "ok" THEN DetachAuthorizer(armed) ELSE armed]
           /\ job' = [job EXCEPT ![t] = IF end = "ok" THEN [pc |-> "target"] ELSE Idle]
    /\ UNCHANGED <<holder, coll, disk, work, rpc, acked, tally>>

\* delete_blast_radius walks sqlite_master, or fails when the reader refuses it.
DeleteBlastRadius(t, c) ==
    /\ job[t].pc = "target" /\ WithReader(c)
    /\ job' = [job EXCEPT ![t] = Idle]
    /\ UNCHANGED <<conn, holder, coll, disk, work, rpc, acked, tally>>

-----------------------------------------------------------------------------
(* Stored RPCs                                                             *)

TakeWriter(t) == holder = Nobody /\ holder' = t
FreeWriter == holder' = Nobody

\* validate_rpc_sql attaches, prepares and detaches statement by statement: on
\* the first refusal the connection is already clean.
ValidateRpcSql(b) ==
    /\ b.whole /\ b.stmts # <<>>
    /\ \A i \in DOMAIN b.stmts : Prepares(IF b.mode = "write" THEN "writable" ELSE "strict", b.stmts[i])

\* guard_anon_owner_scoped_rpc learns the tables from a capturing authorizer; the
\* bodies of this instance are for the service alone, so it only has to prepare.
ReferencedUserTables(b) ==
    \A i \in DOMAIN b.stmts : \A n \in Needs(b.stmts[i]) : CaptureAllows(b.mode, n)

CreateRpc(b) ==
    /\ rpc = NoBody /\ holder = Nobody
    /\ ValidateRpcSql(b) /\ ReferencedUserTables(b)
    /\ rpc' = b
    /\ conn' = [conn EXCEPT ![Writer] = DetachAuthorizer(@)]
    /\ tally' = [tally EXCEPT !.calls = 0, !.hits = 0]
    /\ UNCHANGED <<holder, job, coll, disk, work, acked>>

DeleteRpc ==
    /\ rpc # NoBody /\ holder = Nobody
    /\ rpc' = NoBody
    /\ UNCHANGED <<conn, holder, job, coll, disk, work, acked, tally>>

\* registry::lookup on a reader fails where the reader refuses the read.  The
\* bound MaxDml is on the committed writes and on the counted calls.
Lookup(t, c, next) ==
    /\ job[t].pc = "idle" /\ WithReader(c) /\ rpc # NoBody
    /\ acked < MaxDml /\ tally.hits < MaxDml /\ tally.owed < MaxDml
    /\ job' = [job EXCEPT ![t] = IF Served(c) THEN next ELSE Idle]
    /\ UNCHANGED <<conn, holder, coll, disk, work, rpc, acked, tally>>

Fetched(pc, from, dry) == [pc |-> pc, from |-> from, dry |-> dry, body |-> rpc]

CallRpc(t, c, dry) == Lookup(t, c, Fetched(rpc.mode, "call", dry /\ rpc.mode = "write"))

\* The MCP tool runs every body, a write one too, through the read executor.
McpCallRpc(t, c) == Lookup(t, c, Fetched("read", "mcp", FALSE))

\* The scheduler never runs dry and never counts.
DispatchRpc(t, c) == Lookup(t, c, Fetched(rpc.mode, "cron", FALSE))

\* The console's test form fetches the RPC, binds its parameters and runs a read
\* on a connection of its own.
RpcTestRun(t, commit) ==
    /\ job[t].pc = "idle" /\ rpc # NoBody /\ acked < MaxDml
    /\ job' = [job EXCEPT ![t] = Fetched("test", "console", ~commit)]
    /\ UNCHANGED <<conn, holder, coll, disk, work, rpc, acked, tally>>

\* A write goes through the pool, dry unless the form says to commit; the RPC may
\* have been replaced meanwhile.  The run is not counted.
RpcTestWrite(t) ==
    /\ job[t].pc = "test"
    /\ job' = [job EXCEPT ![t] = IF @.body.mode = "write" THEN [@ EXCEPT !.pc = "write"] ELSE Idle]
    /\ UNCHANGED <<conn, holder, coll, disk, work, rpc, acked, tally>>

\* A stored query in the test form runs the list pipeline, and never dry.
RunQueryPlayground(c, s) == ListRun(c, s)

\* outcome_to_response and the MCP tool spawn the increment for every success, a
\* dry run's too; a failure is mapped to its code and counted nowhere.
OutcomeToResponse(from, ok) ==
    tally' = IF ok /\ from \in {"call", "mcp"} THEN [tally EXCEPT !.owed = @ + 1, !.hits = @ + 1] ELSE tally

\* call_rpc's read arm looks the RPC up again on the reader that runs it.
RunRead(t, c) ==
    /\ job[t].pc = "read" /\ WithReader(c)
    /\ LET found == job[t].from = "call" => Served(c)
           ran == ReadQuery(c, job[t].body.stmts[1], FALSE)
       IN  /\ conn' = [conn EXCEPT ![c] = IF found THEN ran.on ELSE @]
           /\ OutcomeToResponse(job[t].from, found /\ ran.result = "ok")
    /\ job' = [job EXCEPT ![t] = Idle]
    /\ UNCHANGED <<holder, coll, disk, work, rpc, acked>>

\* A refused increment is logged and forgotten; one for an RPC deleted meanwhile
\* updates no row, and a new RPC of the same name inherits it.
IncrementCounter ==
    /\ tally.owed > 0 /\ holder = Nobody
    /\ tally' = [tally EXCEPT !.owed = @ - 1,
                             !.calls = IF rpc # NoBody /\ Allows(conn[Writer].auth, OwnWrite) THEN @ + 1 ELSE @]
    /\ UNCHANGED <<conn, holder, job, coll, disk, work, rpc, acked>>

\* ROLLBACK TO and RELEASE are themselves SQL: a connection that still has its
\* authorizer refuses both, and a savepoint SQLite abandoned cannot be released.
Release(on) == IF on.save /\ Allows(on.auth, Savepoint) THEN [on EXCEPT !.save = FALSE] ELSE on

\* A plausible fault: the savepoint is resolved before the authorizer comes off.
FaultGiveUp(on) == DetachAuthorizer(Release(on))

\* The three closing moves of a failing path: authorizer off, ROLLBACK TO,
\* RELEASE.
GiveUp(on) == Release(DetachAuthorizer(on))

\* Detach, quota probe, audited set, search tables, SAVEPOINT: a failure of one
\* of these returns with nothing installed.  Then the authorizer, the hook (not
\* for a dry run) and the split of the body, each failure of which cleans up.
WriteFails == {"none", "probe", "savepoint", "hook"}

BeginWrite(t) ==
    /\ job[t].pc = "write"
    /\ TakeWriter(t)
    /\ \E fail \in WriteFails :
          LET clean == DetachAuthorizer(conn[Writer])
              armed == [clean EXCEPT !.save = TRUE, !.auth = "writable"]
              hooked == [armed EXCEPT !.hook = ~job[t].dry]
          IN  /\ fail = "hook" => ~job[t].dry
              /\ conn' = [conn EXCEPT ![Writer] =
                    CASE fail \in {"probe", "savepoint"} -> clean
                      [] fail = "hook" -> GiveUp(armed)
                      [] OTHER -> IF job[t].body.whole THEN hooked ELSE GiveUp([hooked EXCEPT !.hook = FALSE])]
              /\ work' = disk
              /\ job' = [job EXCEPT ![t] =
                    IF fail = "none" /\ job[t].body.whole
                    THEN [pc |-> "body", from |-> @.from, dry |-> @.dry, body |-> @.body, i |-> 1, err |-> FALSE]
                    ELSE [pc |-> "release"]]
    /\ UNCHANGED <<coll, disk, rpc, acked, tally>>

\* The closure of a run that failed early returns and frees the writer.
EndEarly(t) ==
    /\ job[t].pc = "release"
    /\ FreeWriter
    /\ job' = [job EXCEPT ![t] = Idle]
    /\ UNCHANGED <<conn, coll, disk, work, rpc, acked, tally>>

\* A write and the index rows of its triggers; outside a savepoint it commits by
\* itself.  An abandoned transaction takes the savepoint with it.
ApplyDml(wrote, lost) ==
    LET add(d) == [rows |-> d.rows + 1, index |-> d.index + 1] IN
    /\ work' = CASE wrote -> add(work) [] lost -> disk [] OTHER -> work
    /\ disk' = IF wrote /\ ~conn[Writer].save THEN add(disk) ELSE disk
    /\ conn' = IF lost THEN [conn EXCEPT ![Writer].save = FALSE] ELSE conn

\* A plausible fault: the loop over the statements goes on after an error.
FaultExecuteOne(t) ==
    LET s == job[t].body.stmts[job[t].i]
        end == Ends(conn[Writer], s)
    IN
    /\ job[t].pc = "body" /\ job[t].i <= Len(job[t].body.stmts)
    /\ ApplyDml(s.op = "dml" /\ end = "ok", s.end = "abandon" /\ end = "error")
    /\ job' = [job EXCEPT ![t].i = @ + 1, ![t].err = (@ \/ end # "ok")]
    /\ UNCHANGED <<holder, coll, rpc, acked, tally>>

\* execute_one: a DML statement with RETURNING is drained past the row cap, a
\* SELECT stops there, so every write of a statement that succeeds is made.
ExecuteOne(t) ==
    LET s == job[t].body.stmts[job[t].i]
        end == Ends(conn[Writer], s)
        wrote == s.op = "dml" /\ end = "ok"
        lost == s.end = "abandon" /\ end = "error"
    IN
    /\ job[t].pc = "body" /\ ~job[t].err /\ job[t].i <= Len(job[t].body.stmts)
    /\ ApplyDml(wrote, lost)
    /\ job' = [job EXCEPT ![t].i = @ + 1, ![t].err = (@ \/ end # "ok")]
    /\ UNCHANGED <<holder, coll, rpc, acked, tally>>

\* Hook off (which fails only on a borrowed handle, and this one is owned),
\* authorizer off, history flushed, quota probed again (not for a dry run), rolled
\* back after an error or for a dry run, released.  A RELEASE that fails to write
\* leaves nothing: SQLite has rolled the transaction back.
FinishWrite(t) ==
    /\ job[t].pc = "body" /\ (job[t].err \/ job[t].i > Len(job[t].body.stmts))
    /\ \E fail \in {"none", "flush", "requota", "release"} :
          LET j == job[t]
              closed == GiveUp([conn[Writer] EXCEPT !.hook = FALSE])
              ok == fail = "none" /\ ~j.err /\ ~closed.save
              kept == ok /\ ~j.dry
          IN  /\ fail \in {"flush", "requota"} => ~j.dry /\ ~j.err
              /\ conn' = [conn EXCEPT ![Writer] = closed]
              /\ disk' = IF kept THEN work ELSE disk
              /\ acked' = IF kept THEN acked + (work.rows - disk.rows) ELSE acked
              /\ OutcomeToResponse(j.from, ok)
    /\ FreeWriter
    /\ work' = disk'
    /\ job' = [job EXCEPT ![t] = Idle]
    /\ UNCHANGED <<coll, rpc>>

-----------------------------------------------------------------------------
(* Schema changes that make stored SQL fail                                *)

DropCollection ==
    /\ coll /\ holder = Nobody
    /\ coll' = FALSE
    /\ disk' = [rows |-> 0, index |-> 0] /\ work' = disk' /\ acked' = 0
    /\ UNCHANGED <<conn, holder, job, rpc, tally>>

CreateCollection ==
    /\ ~coll /\ holder = Nobody
    /\ coll' = TRUE
    /\ UNCHANGED <<conn, holder, job, disk, work, rpc, acked, tally>>
-----------------------------------------------------------------------------
(* The specification: a data directory may hold bodies that an earlier     *)
(* validate_rpc_sql let through.                                           *)

SqlInit(legacy) ==
    /\ conn = [c \in Conns |-> Bare]
    /\ holder = Nobody /\ job = [t \in SqlTasks |-> Idle]
    /\ coll = TRUE
    /\ disk = [rows |-> 0, index |-> 0] /\ work = [rows |-> 0, index |-> 0]
    /\ rpc \in {NoBody} \cup legacy /\ acked = 0 /\ tally = [calls |-> 0, owed |-> 0, hits |-> 0]

SqlNext ==
    \/ \E c \in Readers, s \in Asked :
          \/ QueryHandler(c, s) \/ McpQuery(c, s) \/ ExplainSelect(c, s) \/ McpExplain(c, s)
          \/ ListRun(c, s) \/ RunQueryPlayground(c, s)
    \/ \E c \in Readers, isProtected \in BOOLEAN : AdminList(c, isProtected) \/ AdminCount(c, isProtected)
    \/ \E t \in SqlTasks, c \in Readers :
          \/ DeletePreview(t, c) \/ PreviewTarget(t, c) \/ DeleteBlastRadius(t, c) \/ RunRead(t, c)
          \/ McpCallRpc(t, c) \/ DispatchRpc(t, c) \/ \E dry \in BOOLEAN : CallRpc(t, c, dry)
    \/ \E t \in SqlTasks, commit \in BOOLEAN : RpcTestRun(t, commit)
    \/ \E b \in Bodies : CreateRpc(b)
    \/ DeleteRpc \/ IncrementCounter \/ DropCollection \/ CreateCollection
    \/ \E t \in SqlTasks : RpcTestWrite(t) \/ BeginWrite(t) \/ EndEarly(t) \/ ExecuteOne(t) \/ FinishWrite(t)

SqlSpec == SqlInit(Bodies) /\ [][SqlNext]_sqlvars

-----------------------------------------------------------------------------
(* Properties                                                              *)

\* Whatever path a body took, the writer goes back bare: no authorizer, no hook,
\* no savepoint.  A reader keeps no deadline, and no authorizer but the strict
\* one of a delete preview (ReaderReturnedOpen).
ConnectionsBare ==
    /\ holder = Nobody => conn[Writer] = Bare
    /\ \A c \in Readers : conn[c] \in {Bare, AttachReadonly(Bare)}

\* The callers' answers are the truth of the database: the collection holds the
\* writes of the bodies reported as committed and no others (no dry run, no
\* failed, denied or abandoned body), its search index holds the same, and every
\* success of call_rpc is counted or about to be.
AnswersHold ==
    /\ disk = [rows |-> acked, index |-> acked]
    /\ rpc # NoBody => tally.calls + tally.owed >= tally.hits

\* What detach_authorizer's comment promises of a connection going back to the
\* pool: it does not carry a restrictive authorizer to the next, internal, user.
ReaderReturnedOpen == \A c \in Readers : conn[c].auth = "open"
=============================================================================
