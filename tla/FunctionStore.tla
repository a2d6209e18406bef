--------------------------- MODULE FunctionStore ---------------------------
(***************************************************************************)
(* The edge functions of a process: the rows of _system_functions, the     *)
(* content-addressed artifacts under a tenant's _functions directory, and  *)
(* the cache of trigger bindings.  The routes that change a function do so *)
(* in several awaits, and two of them may be in flight at a time.          *)
(***************************************************************************)
EXTENDS Naturals, FiniteSets, Sequences

CONSTANTS
    FTenants, FnNames,  \* tenants, and the names of their functions
    Shas,               \* digests of component bytes
    MaxPerTenant,       \* DRUST_FN_MAX_PER_TENANT
    FnLogKeep,          \* FN_LOG_KEEP_PER_FUNCTION
    FTasks,             \* requests and spawned tasks in flight
    MaxEdits            \* bound: changes of functions

ASSUME FunctionStoreAssumption ==
    MaxPerTenant \in Nat \ {0} /\ FnLogKeep \in Nat \ {0} /\ MaxEdits \in Nat

VARIABLES
    fnrow,      \* _system_functions
    artifacts,  \* the .wasm files
    flog,       \* rows of _system_function_logs, per function
    binds,      \* BindingCache: <<>>, or the active bound functions it read
    bindlate,   \* history: tenants whose entry may lag until the TTL drops it
    raced,      \* history: artifacts a collection took from a create in flight
    flive,      \* tenants that are not soft-deleted
    ftask,      \* the tasks in flight
    edits       \* bound

fsvars == <<fnrow, artifacts, flog, binds, bindlate, raced, flive, edits>>

Fns == FTenants \X FnNames
Home(f) == f[1]
NoFn == [sha |-> "none"]
FnRows == [sha : Shas, active : BOOLEAN, anon : BOOLEAN, user : BOOLEAN, bound : BOOLEAN]
Exists(f) == fnrow[f] # NoFn
FIdle == [pc |-> "idle"]

(* A process starts with the rows and the artifacts on disk. *)
FSInit ==
    /\ fnrow \in [Fns -> FnRows \cup {NoFn}] /\ flog = [f \in Fns |-> 0]
    /\ \A t \in FTenants : Cardinality({f \in Fns : Home(f) = t /\ Exists(f)}) <= MaxPerTenant
    /\ artifacts = {<<Home(f), fnrow[f].sha>> : f \in {g \in Fns : Exists(g)}}
    /\ binds = [t \in FTenants |-> <<>>] /\ bindlate = {} /\ raced = {}
    /\ flive = FTenants /\ ftask = [a \in FTasks |-> FIdle] /\ edits = 0

FAt(a, pc) == ftask[a].pc = pc
FGoto(a, r) == ftask' = [ftask EXCEPT ![a] = r]
FReturn(a) == FGoto(a, FIdle)
FRows == UNCHANGED <<artifacts, flog, binds, bindlate, raced, flive>>

----------------------------------------------------------------------------
(* schema.rs: one writer transaction each. *)

SetRow(f, r) == fnrow' = [fnrow EXCEPT ![f] = r]
SetActive(f, on) == Exists(f) /\ SetRow(f, [fnrow[f] EXCEPT !.active = on])
SetInvokeAcl(f, anon, user) == Exists(f) /\ SetRow(f, [fnrow[f] EXCEPT !.anon = anon, !.user = user])
(* set_invoke_acl_partial: COALESCE leaves a side that the body omits. *)
SetInvokeAclPartial(f, side, on) == Exists(f) /\ SetRow(f, [fnrow[f] EXCEPT ![side] = on])
UpdateMeta(f, bound) == Exists(f) /\ SetRow(f, [fnrow[f] EXCEPT !.bound = bound])
(* create_function: the cap counts the others; an upsert keeps the flags.  *)
CapRoom(f) == Cardinality({g \in Fns : Home(g) = Home(f) /\ g # f /\ Exists(g)}) < MaxPerTenant
Upserted(f, s, bound) ==
    IF Exists(f) THEN [fnrow[f] EXCEPT !.sha = s, !.bound = bound]
    ELSE [sha |-> s, active |-> TRUE, anon |-> FALSE, user |-> FALSE, bound |-> bound]
(* insert_log: the insert trims the function's log in its transaction. *)
InsertLog(f) == flog' = [flog EXCEPT ![f] = IF @ < FnLogKeep THEN @ + 1 ELSE FnLogKeep]
ShaStillReferenced(t, s) == \E f \in Fns : Home(f) = t /\ Exists(f) /\ fnrow[f].sha = s

----------------------------------------------------------------------------
(* BindingCache *)

BoundNow(t) == {f \in Fns : Home(f) = t /\ Exists(f) /\ fnrow[f].active /\ fnrow[f].bound}
BindInvalidate(t) == binds' = [binds EXCEPT ![t] = <<>>] /\ bindlate' = bindlate \ {t}
(* A load that read rows of t and has not stored them. *)
Loading(t) == {a \in FTasks : FAt(a, "load") /\ ftask[a].tenant = t}
(* get_or_load past its hit: drop, read the rows, store the bindings.  An  *)
(* invalidate between the read and the store is lost.                      *)
BindRead(a, t, ev) ==
    /\ ftask[a] = FIdle /\ t \in flive /\ binds[t] = <<>>
    /\ FGoto(a, [pc |-> "load", tenant |-> t, got |-> BoundNow(t), ev |-> ev])
BindStore(a) ==
    LET t == ftask[a].tenant IN
    /\ FAt(a, "load") /\ binds' = [binds EXCEPT ![t] = <<ftask[a].got>>]
    /\ bindlate' = IF ftask[a].got = BoundNow(t) THEN bindlate \ {t} ELSE bindlate \cup {t}
(* safety_ttl *)
BindExpire(t) ==
    /\ binds[t] # <<>> /\ BindInvalidate(t)
    /\ UNCHANGED <<fnrow, artifacts, flog, raced, flive, ftask, edits>>

----------------------------------------------------------------------------
(* routes.rs: create.  The artifact is written first, then the row.        *)

Edit(a) == ftask[a] = FIdle /\ edits < MaxEdits /\ edits' = edits + 1
Unlinking(t, s) == \E a \in FTasks : FAt(a, "unlink") /\ ftask[a].tenant = t /\ ftask[a].sha = s
Creating(t, s) == \E a \in FTasks :
    ftask[a].pc \in {"prev", "insert"} /\ Home(ftask[a].fn) = t /\ ftask[a].sha = s
CreateWrite(a, f, s, bound) ==
    /\ Edit(a) /\ Home(f) \in flive
    /\ artifacts' = artifacts \cup {<<Home(f), s>>}
    /\ raced' = IF Unlinking(Home(f), s) THEN raced \cup {<<Home(f), s>>} ELSE raced \ {<<Home(f), s>>}
    /\ FGoto(a, [pc |-> "prev", fn |-> f, sha |-> s, bound |-> bound])
    /\ UNCHANGED <<fnrow, flog, binds, bindlate, flive>>
CreatePrev(a) ==
    /\ FAt(a, "prev")
    /\ FGoto(a, [pc |-> "insert", fn |-> ftask[a].fn, sha |-> ftask[a].sha, bound |-> ftask[a].bound,
                 prev |-> IF Exists(ftask[a].fn) THEN {fnrow[ftask[a].fn].sha} ELSE {}])
    /\ UNCHANGED fsvars
CreateRow(a) ==
    LET f == ftask[a].fn  s == ftask[a].sha IN
    /\ FAt(a, "insert")
    /\ \/ CapRoom(f) /\ SetRow(f, Upserted(f, s, ftask[a].bound))
          /\ FGoto(a, [pc |-> "inval", tenant |-> Home(f), gc |-> ftask[a].prev \ {s}])
       \/ FGoto(a, [pc |-> "gc", tenant |-> Home(f), sha |-> s]) /\ UNCHANGED fnrow
    /\ UNCHANGED edits /\ FRows
(* The tail that create, patch, delete and the tools share. *)
FaultInval(a) ==
    /\ FAt(a, "inval")
    /\ IF ftask[a].gc = {} THEN FReturn(a)
       ELSE \E s \in ftask[a].gc : FGoto(a, [pc |-> "gc", tenant |-> ftask[a].tenant, sha |-> s])
    /\ UNCHANGED fsvars
Inval(a) ==
    /\ FAt(a, "inval") /\ BindInvalidate(ftask[a].tenant)
    /\ IF ftask[a].gc = {} THEN FReturn(a)
       ELSE \E s \in ftask[a].gc : FGoto(a, [pc |-> "gc", tenant |-> ftask[a].tenant, sha |-> s])
    /\ UNCHANGED <<fnrow, artifacts, flog, raced, flive, edits>>
(* gc_artifact_if_unreferenced: the check and the unlink are two awaits. *)
GcCheck(a) ==
    LET t == ftask[a].tenant  s == ftask[a].sha IN
    /\ FAt(a, "gc")
    /\ IF ShaStillReferenced(t, s) THEN FReturn(a) /\ UNCHANGED raced
       ELSE /\ FGoto(a, [pc |-> "unlink", tenant |-> t, sha |-> s])
            /\ raced' = IF Creating(t, s) THEN raced \cup {<<t, s>>} ELSE raced
    /\ UNCHANGED <<fnrow, artifacts, flog, binds, bindlate, flive, edits>>
GcUnlink(a) ==
    /\ FAt(a, "unlink") /\ artifacts' = artifacts \ {<<ftask[a].tenant, ftask[a].sha>>}
    /\ FReturn(a) /\ UNCHANGED <<fnrow, flog, binds, bindlate, raced, flive, edits>>

(* patch: up to three writes, each its own transaction, and one            *)
(* invalidation at the end that an error on the way skips.                 *)
PatchActive(a, f, on) ==
    /\ Edit(a) /\ Home(f) \in flive /\ SetActive(f, on) /\ FRows
    /\ FGoto(a, [pc |-> "meta", fn |-> f])
PatchMeta(a) ==
    LET f == ftask[a].fn IN
    /\ FAt(a, "meta") /\ \E b \in BOOLEAN : UpdateMeta(f, b)
    /\ FGoto(a, [pc |-> "acl", fn |-> f]) /\ UNCHANGED edits /\ FRows
PatchAcl(a) ==
    LET f == ftask[a].fn IN
    /\ FAt(a, "acl") /\ \E side \in {"anon", "user"}, b \in BOOLEAN : SetInvokeAclPartial(f, side, b)
    /\ FGoto(a, [pc |-> "inval", tenant |-> Home(f), gc |-> {}]) /\ UNCHANGED edits /\ FRows
(* A body without the later fields skips them; a write that fails or finds *)
(* no row returns at once.                                                 *)
PatchSkip(a) ==
    /\ ftask[a].pc \in {"meta", "acl"}
    /\ FGoto(a, IF FAt(a, "meta") THEN [pc |-> "acl", fn |-> ftask[a].fn]
                ELSE [pc |-> "inval", tenant |-> Home(ftask[a].fn), gc |-> {}])
    /\ UNCHANGED fsvars
Lags(t) == bindlate' = IF binds[t] # <<>> THEN bindlate \cup {t} ELSE bindlate
PatchStops(a) ==
    /\ ftask[a].pc \in {"meta", "acl"} /\ FReturn(a) /\ Lags(Home(ftask[a].fn))
    /\ UNCHANGED <<fnrow, artifacts, flog, binds, raced, flive, edits>>

(* The tools and the console: one write, then the invalidation. *)
SetFunctionActive(a, f, on) ==
    /\ Edit(a) /\ Home(f) \in flive /\ SetActive(f, on) /\ FRows
    /\ FGoto(a, [pc |-> "inval", tenant |-> Home(f), gc |-> {}])
SetFunctionInvokeAcl(a, f, anon, user) ==
    /\ Edit(a) /\ Home(f) \in flive /\ SetInvokeAcl(f, anon, user) /\ FRows
    /\ FGoto(a, [pc |-> "inval", tenant |-> Home(f), gc |-> {}])
ConsoleInvokeAcl(a, f, anon, user) ==
    /\ Edit(a) /\ SetInvokeAcl(f, anon, user) /\ FRows
    /\ FGoto(a, [pc |-> "inval", tenant |-> Home(f), gc |-> {}])
(* toggle reads the flag, then writes its negation. *)
ToggleRead(a, f) ==
    /\ Edit(a) /\ Exists(f) /\ FGoto(a, [pc |-> "toggle", fn |-> f, to |-> ~fnrow[f].active])
    /\ UNCHANGED fnrow /\ FRows
ToggleWrite(a) ==
    LET f == ftask[a].fn IN
    /\ FAt(a, "toggle") /\ (SetActive(f, ftask[a].to) \/ (~Exists(f) /\ UNCHANGED fnrow))
    /\ FGoto(a, [pc |-> "inval", tenant |-> Home(f), gc |-> {}]) /\ UNCHANGED edits /\ FRows

(* delete_impl, and the tool's copy of it. *)
DeleteRead(a, f) ==
    /\ Edit(a) /\ Home(f) \in flive /\ Exists(f)
    /\ FGoto(a, [pc |-> "delete", fn |-> f, sha |-> fnrow[f].sha])
    /\ UNCHANGED fnrow /\ FRows
DeleteFunctionTool(a, f) == DeleteRead(a, f)
(* The handlers of the three MCP tools. *)
McpSetFunctionActive(a, f, on) == SetFunctionActive(a, f, on)
McpSetFunctionInvokeAcl(a, f, anon, user) == SetFunctionInvokeAcl(a, f, anon, user)
McpDeleteFunction(a, f) == DeleteFunctionTool(a, f)
DeleteFunction(a) ==
    LET f == ftask[a].fn IN
    /\ FAt(a, "delete")
    /\ IF Exists(f)
       THEN /\ SetRow(f, NoFn) /\ flog' = [flog EXCEPT ![f] = 0]
            /\ FGoto(a, [pc |-> "inval", tenant |-> Home(f), gc |-> {ftask[a].sha}])
       ELSE FReturn(a) /\ UNCHANGED <<fnrow, flog>>
    /\ UNCHANGED <<artifacts, binds, bindlate, raced, flive, edits>>

(* hyper drops the handler of a closed connection between two awaits; a    *)
(* committed change then stays cached until the TTL.                       *)
FDrop(a) ==
    /\ ftask[a].pc \in {"prev", "insert", "inval", "meta", "acl", "toggle", "delete", "gc"} /\ FReturn(a)
    /\ IF ftask[a].pc = "inval" THEN Lags(ftask[a].tenant)
       ELSE IF ftask[a].pc \in {"meta", "acl"} THEN Lags(Home(ftask[a].fn)) ELSE UNCHANGED bindlate
    /\ UNCHANGED <<fnrow, artifacts, flog, binds, raced, flive, edits>>
(* soft_delete_tenant *)
FTenantGone(t) ==
    /\ t \in flive /\ flive' = flive \ {t}
    /\ UNCHANGED <<fnrow, artifacts, flog, binds, bindlate, raced, ftask, edits>>

FStep(a) ==
    \/ CreatePrev(a) \/ CreateRow(a) \/ Inval(a) \/ GcCheck(a) \/ GcUnlink(a)
    \/ PatchMeta(a) \/ PatchAcl(a) \/ PatchSkip(a) \/ PatchStops(a)
    \/ ToggleWrite(a) \/ DeleteFunction(a)
FEdit(a, f) ==
    \/ \E s \in Shas, b \in BOOLEAN : CreateWrite(a, f, s, b)
    \/ \E on \in BOOLEAN : PatchActive(a, f, on) \/ McpSetFunctionActive(a, f, on)
    \/ \E x, y \in BOOLEAN : McpSetFunctionInvokeAcl(a, f, x, y) \/ ConsoleInvokeAcl(a, f, x, y)
    \/ ToggleRead(a, f) \/ DeleteRead(a, f) \/ McpDeleteFunction(a, f)

----------------------------------------------------------------------------
FsTypeOK ==
    /\ fnrow \in [Fns -> FnRows \cup {NoFn}] /\ artifacts \subseteq FTenants \X Shas
    /\ flog \in [Fns -> 0 .. FnLogKeep] /\ raced \subseteq FTenants \X Shas
    /\ \A t \in FTenants : binds[t] = <<>> \/ binds[t] \in Seq(SUBSET Fns)
    /\ \A t \in FTenants : Cardinality({f \in Fns : Home(f) = t /\ Exists(f)}) <= MaxPerTenant

(* The artifact of every function exists, so that it can run ("a file      *)
(* exists iff some live row references it", routes.rs): whatever creates,  *)
(* replacements and deletions of functions with the same bytes interleave, *)
(* only a collection that overlaps a create of the same bytes takes it.    *)
ArtifactPresent == \A f \in Fns : Exists(f) =>
    <<Home(f), fnrow[f].sha>> \in artifacts \cup raced

(* The cached bindings are the active bound functions, except while the    *)
(* handler of a change has its invalidation still to do, or a load or a    *)
(* dropped handler left an entry that only the safety TTL corrects.        *)
Pending(t) == \E a \in FTasks :
    \/ FAt(a, "inval") /\ ftask[a].tenant = t
    \/ ftask[a].pc \in {"meta", "acl"} /\ Home(ftask[a].fn) = t
BindFresh == \A t \in FTenants :
    binds[t] = <<>> \/ binds[t] = <<BoundNow(t)>> \/ t \in bindlate \/ Pending(t)
============================================================================
