-------------------------- MODULE FunctionExecutor --------------------------
(***************************************************************************)
(* Dispatcher and executor of edge functions.  An event spawns a task that *)
(* looks up the bindings and enqueues an invocation for each, under a      *)
(* per-tenant cap, into one bounded channel; a drain loop forwards to      *)
(* per-tenant lanes; lane workers and synchronous callers take the         *)
(* tenant's lock and then a global permit, resolve the row again and run.  *)
(***************************************************************************)
EXTENDS FunctionStore

CONSTANTS
    QueueDepth,     \* DRUST_FN_QUEUE_DEPTH
    ChanCap,        \* capacity of the executor's channel
    Permits,        \* DRUST_FN_CONCURRENCY
    CacheCap,       \* DRUST_FN_MODULE_CACHE
    Calls,          \* synchronous invocations in flight
    MaxEvents       \* bound: events and calls

ASSUME FunctionExecutorAssumption ==
    /\ {QueueDepth, ChanCap, Permits, CacheCap} \subseteq Nat \ {0}
    /\ MaxEvents \in Nat /\ FTenants \cap Calls = {} /\ IsFiniteSet(FTasks)

VARIABLES
    depth,      \* the dispatcher's counters
    chan, lane, \* queued invocations: the channel, and the lane of a tenant
    job,        \* what the worker of a lane, or a synchronous call, is doing
    precache,   \* PreCache: compiled components, oldest first
    events      \* bound

fevars == <<fsvars, ftask, depth, chan, lane, job, precache, events>>
fqvars == <<depth, chan, lane, job, precache>>

Workers == FTenants \cup Calls
JIdle == [pc |-> "idle"]
Whos == {"privileged", "anon", "user"}
Invs == [fn : Fns, who : Whos]

FEInit ==
    /\ FSInit /\ depth = [t \in FTenants |-> 0] /\ chan = <<>> /\ lane = [t \in FTenants |-> <<>>]
    /\ job = [w \in Workers |-> JIdle] /\ precache = <<>> /\ events = 0

Happens == events < MaxEvents /\ events' = events + 1
NextBinding(a, todo) == FGoto(a, IF todo = {} THEN FIdle ELSE [pc |-> "enqueue", todo |-> todo])

----------------------------------------------------------------------------
(* dispatch, dispatch_file: a spawned task, gone with its tenant. *)
Dispatch(a, t) ==
    /\ Happens /\ t \in flive /\ ftask[a] = FIdle
    /\ \/ binds[t] # <<>> /\ NextBinding(a, binds[t][1])
       \/ BindRead(a, t, "record")
    /\ UNCHANGED <<fsvars, fqvars>>
DispatchFile(a, t) ==
    /\ Happens /\ t \in flive /\ ftask[a] = FIdle
    /\ \/ binds[t] # <<>> /\ NextBinding(a, binds[t][1])
       \/ BindRead(a, t, "file")
    /\ UNCHANGED <<fsvars, fqvars>>
DispatchLoaded(a) ==
    /\ BindStore(a) /\ NextBinding(a, ftask[a].got)
    /\ UNCHANGED <<fnrow, artifacts, flog, raced, flive, edits, fqvars, events>>
(* enqueue_manual, of the tool invoke_function. *)
EnqueueManual(a, f) ==
    /\ Happens /\ Home(f) \in flive /\ ftask[a] = FIdle /\ Exists(f) /\ NextBinding(a, {f})
    /\ UNCHANGED <<fsvars, fqvars>>

(* enqueue: count first, then look at what the count was. *)
EnqueueAdd(a) ==
    /\ FAt(a, "enqueue")
    /\ \E f \in ftask[a].todo :
        /\ depth' = [depth EXCEPT ![Home(f)] = @ + 1]
        /\ FGoto(a, [pc |-> IF depth[Home(f)] >= QueueDepth THEN "full" ELSE "send",
                     fn |-> f, todo |-> ftask[a].todo \ {f}])
    /\ UNCHANGED <<fsvars, chan, lane, job, precache, events>>
EnqueueFull(a) ==
    LET f == ftask[a].fn IN
    /\ FAt(a, "full") /\ depth' = [depth EXCEPT ![Home(f)] = @ - 1]
    /\ IF Home(f) \in flive THEN InsertLog(f) ELSE UNCHANGED flog
    /\ NextBinding(a, ftask[a].todo)
    /\ UNCHANGED <<fnrow, artifacts, binds, bindlate, raced, flive, edits, chan, lane, job, precache, events>>
EnqueueSend(a) ==
    /\ FAt(a, "send") /\ Len(chan) < ChanCap
    /\ chan' = Append(chan, [fn |-> ftask[a].fn, who |-> "privileged"])
    /\ NextBinding(a, ftask[a].todo)
    /\ UNCHANGED <<fsvars, depth, lane, job, precache, events>>

----------------------------------------------------------------------------
(* spawn_loop, route_to_lane *)
RouteToLane ==
    /\ chan # <<>> /\ chan' = Tail(chan)
    /\ lane' = [lane EXCEPT ![Home(Head(chan).fn)] = Append(@, Head(chan))]
    /\ UNCHANGED <<fsvars, ftask, depth, job, precache, events>>
LaneTake(t) ==
    /\ lane[t] # <<>> /\ job[t] = JIdle
    /\ lane' = [lane EXCEPT ![t] = Tail(@)]
    /\ job' = [job EXCEPT ![t] = [pc |-> "lock", inv |-> Head(lane[t])]]
    /\ UNCHANGED <<fsvars, ftask, depth, chan, precache, events>>
(* decrement_depth, saturating, after run_one in the lane only. *)
FaultLaneDone(t) ==
    /\ job[t].pc = "done" /\ job' = [job EXCEPT ![t] = JIdle]
    /\ UNCHANGED <<fsvars, ftask, depth, chan, lane, precache, events>>
LaneDone(t) ==
    /\ job[t].pc = "done" /\ job' = [job EXCEPT ![t] = JIdle]
    /\ depth' = [depth EXCEPT ![t] = IF @ > 0 THEN @ - 1 ELSE 0]
    /\ UNCHANGED <<fsvars, ftask, chan, lane, precache, events>>

(* run_one: the tenant's lock, then a permit, held to the end. *)
Held(w, t) == job[w].pc \in {"permit", "resolve", "run", "record"} /\ Home(job[w].inv.fn) = t
Permitted == {w \in Workers : job[w].pc \in {"resolve", "run", "record"}}
JGoto(w, pc) == job' = [job EXCEPT ![w] = [pc |-> pc, inv |-> @.inv]]
RunLock(w) ==
    /\ job[w].pc = "lock" /\ ~ \E v \in Workers : Held(v, Home(job[w].inv.fn))
    /\ JGoto(w, "permit") /\ UNCHANGED <<fsvars, ftask, depth, chan, lane, precache, events>>
RunPermit(w) ==
    /\ job[w].pc = "permit" /\ Cardinality(Permitted) < Permits
    /\ JGoto(w, "resolve") /\ UNCHANGED <<fsvars, ftask, depth, chan, lane, precache, events>>
(* resolve_and_run re-reads the row: live tenant, active, still allowed. *)
Allowed(r, who) == who = "privileged" \/ (who = "anon" /\ r.anon) \/ (who = "user" /\ r.user)
ResolveAndRun(w) ==
    LET f == job[w].inv.fn IN
    /\ job[w].pc = "resolve"
    /\ job' = [job EXCEPT ![w] =
         IF Home(f) \in flive /\ Exists(f) /\ fnrow[f].active /\ Allowed(fnrow[f], @.inv.who)
         THEN [pc |-> "run", inv |-> @.inv, sha |-> fnrow[f].sha]
         ELSE [pc |-> "record", inv |-> @.inv]]
    /\ UNCHANGED <<fsvars, ftask, depth, chan, lane, precache, events>>
(* WasmRunner::run: build_mcp, get_or_compile, handle; it ends by itself   *)
(* or at its epoch deadline.                                               *)
Cached(s) == \E i \in DOMAIN precache : precache[i] = s
Without(s) == SelectSeq(precache, LAMBDA x : x # s)
Compiled(s) ==
    precache' = IF Cached(s) THEN Append(Without(s), s)
                ELSE Append(IF Len(precache) >= CacheCap THEN Tail(precache) ELSE precache, s)
RunnerRun(w) ==
    LET f == job[w].inv.fn  s == job[w].sha IN
    /\ job[w].pc = "run"
    /\ job' = [job EXCEPT ![w] = [pc |-> "record", inv |-> @.inv]]
    /\ IF Home(f) \in flive /\ (Cached(s) \/ <<Home(f), s>> \in artifacts)
       THEN Compiled(s) ELSE UNCHANGED precache
    /\ UNCHANGED <<fsvars, ftask, depth, chan, lane, events>>
(* record, then the guards go; a lane has its depth slot still to return. *)
FaultRecordInvocation(w) ==
    LET f == job[w].inv.fn IN
    /\ job[w].pc = "record"
    /\ IF Home(f) \in flive THEN InsertLog(f) ELSE UNCHANGED flog
    /\ job' = [job EXCEPT ![w] = IF w \in Calls THEN JIdle ELSE [pc |-> "done"]]
    /\ depth' = [depth EXCEPT ![Home(f)] = IF w \in Calls /\ @ > 0 THEN @ - 1 ELSE @]
    /\ UNCHANGED <<fnrow, artifacts, binds, bindlate, raced, flive, edits, ftask, chan, lane, precache, events>>
RecordInvocation(w) ==
    LET f == job[w].inv.fn IN
    /\ job[w].pc = "record"
    /\ IF Home(f) \in flive THEN InsertLog(f) ELSE UNCHANGED flog
    /\ job' = [job EXCEPT ![w] = IF w \in Calls THEN JIdle ELSE [pc |-> "done"]]
    /\ UNCHANGED <<fnrow, artifacts, binds, bindlate, raced, flive, edits, ftask, depth, chan, lane, precache, events>>

----------------------------------------------------------------------------
(* Synchronous invocations: they bypass the queue and its cap. *)
Call(c, f, who) ==
    /\ Happens /\ job[c] = JIdle /\ Exists(f)
    /\ job' = [job EXCEPT ![c] = [pc |-> "lock", inv |-> [fn |-> f, who |-> who]]]
    /\ UNCHANGED <<fsvars, ftask, depth, chan, lane, precache>>
(* invoke_gate_layer in front of invoke: the ACL of the row, for all but   *)
(* the service key.                                                        *)
InvokeGate(f, who) == who = "privileged" \/ (Exists(f) /\ Allowed(fnrow[f], who))
Invoke(c, f, who) == Home(f) \in flive /\ InvokeGate(f, who) /\ Call(c, f, who)
McpInvokeFunction(c, f) == Call(c, f, "privileged")
ConsoleInvoke(c, f) == Call(c, f, "privileged")
(* The connection closes: the future of run_one is dropped, and with it    *)
(* the lock and the permit.                                                *)
CallDrop(c) ==
    /\ job[c] # JIdle /\ job' = [job EXCEPT ![c] = JIdle]
    /\ UNCHANGED <<fsvars, ftask, depth, chan, lane, precache, events>>

Enqueueing(a) == DispatchLoaded(a) \/ EnqueueAdd(a) \/ EnqueueFull(a) \/ EnqueueSend(a)
RunInvocation(w) == RunLock(w) \/ RunPermit(w) \/ ResolveAndRun(w) \/ RunnerRun(w) \/ RecordInvocation(w)
LaneStep(t) == LaneTake(t) \/ LaneDone(t)
Events ==
    \/ \E a \in FTasks, t \in FTenants : Dispatch(a, t) \/ DispatchFile(a, t)
    \/ \E a \in FTasks, f \in Fns : EnqueueManual(a, f)
    \/ \E c \in Calls, f \in Fns : ConsoleInvoke(c, f) \/ McpInvokeFunction(c, f) \/ \E who \in Whos : Invoke(c, f, who)
    \/ \E c \in Calls : CallDrop(c)

(* The runtime keeps polling its tasks: as long as one of them can go on,  *)
(* some task does.  Every one of these steps brings an invocation closer   *)
(* to its end, so no fairness between the tasks is needed.                 *)
Runtime ==
    \/ RouteToLane \/ \E a \in FTasks : Enqueueing(a)
    \/ \E w \in Workers : RunInvocation(w)
    \/ \E t \in FTenants : LaneStep(t)
FEFair == WF_fevars(Runtime)

(* What the store's handlers do beside the queue. *)
Store ==
    \/ \E a \in FTasks : FStep(a) \/ FDrop(a) \/ \E f \in Fns : FEdit(a, f)
    \/ \E t \in FTenants : BindExpire(t) \/ FTenantGone(t)
FENext == (Store /\ UNCHANGED <<fqvars, events>>) \/ Runtime \/ Events
FESpec == FEInit /\ [][FENext]_fevars

----------------------------------------------------------------------------
FeTypeOK ==
    /\ FsTypeOK /\ depth \in [FTenants -> Nat] /\ chan \in Seq(Invs)
    /\ lane \in [FTenants -> Seq(Invs)] /\ Len(precache) <= CacheCap

Of(t, q) == Cardinality({i \in DOMAIN q : Home(q[i].fn) = t})
Counting(t) == {a \in FTasks : ftask[a].pc \in {"full", "send"} /\ Home(ftask[a].fn) = t}
Sending(t) == {a \in Counting(t) : FAt(a, "send")}
Serving(t) == IF job[t] = JIdle THEN 0 ELSE 1

(* The depth counter of a tenant is the number of its invocations that are *)
(* being enqueued, queued or run by the lane: no path leaks a slot (the    *)
(* tenant's functions would be dropped for ever) or returns one twice, and *)
(* synchronous calls leave it alone.                                       *)
DepthExact == \A t \in FTenants :
    depth[t] = Cardinality(Counting(t)) + Of(t, chan) + Len(lane[t]) + Serving(t)

(* No more than QueueDepth invocations of a tenant are admitted at a time, *)
(* although the count is raised before it is compared and lanes and the    *)
(* channel are separate queues.                                            *)
QueueBounded == \A t \in FTenants :
    Cardinality(Sending(t)) + Of(t, chan) + Len(lane[t]) + Serving(t) <= QueueDepth

(* Every admitted invocation is served, whatever full channels, locks and  *)
(* permits its tasks wait for, and whichever callers hang up: when no more *)
(* events come, every depth returns to zero.                               *)
AllServed == (\E t \in FTenants : depth[t] > 0) ~> (\A t \in FTenants : depth[t] = 0)
============================================================================
