----------------------------- MODULE MCDispatch -----------------------------
(* Bounds for model checking FunctionExecutor and WebhookDispatcher, which *)
(* share no state, in four scenes: changes of functions that share bytes   *)
(* and race with loads of the bindings; events and calls of two tenants    *)
(* that fill queue, channel and permits; subscriptions and allowlists;     *)
(* deliveries of two tenants that wait for permits.                        *)
EXTENDS FunctionExecutor, WebhookDispatcher

CONSTANTS OneTenant, OtherTenant, OneName, OneSha, OneOrigin, OneHook

VARIABLE scene

mcvars == <<fevars, wvars, scene>>
Plain == [sha |-> OneSha, active |-> TRUE, anon |-> TRUE, user |-> FALSE, bound |-> TRUE]
Sub(t) == [tenant |-> t, url |-> OneOrigin, active |-> TRUE, failed |-> FALSE]
MCInit == scene \in {"store", "queue", "hooks", "deliver"}
    /\ fnrow = [f \in Fns |-> IF scene = "queue" /\ f[2] = OneName THEN Plain ELSE NoFn]
    /\ hook = [h \in HookIds |-> IF scene # "deliver" THEN Unset ELSE Sub(IF h = OneHook THEN OtherTenant ELSE OneTenant)]
    /\ FEInit /\ WInit
(* Changes of functions stay with one tenant, one kind of binding, and one *)
(* event; who may invoke is for the scene of the queue.                    *)
StoreScene ==
    /\ \/ \E f \in Fns, a \in FTasks : Home(f) = OneTenant /\ FEdit(a, f) /\ UNCHANGED <<fqvars, events>>
       \/ \E a \in FTasks : (FStep(a) \/ FDrop(a)) /\ UNCHANGED <<fqvars, events>>
       \/ BindExpire(OneTenant) /\ UNCHANGED <<fqvars, events>>
       \/ \E a \in FTasks : Dispatch(a, OneTenant) \/ DispatchFile(a, OneTenant) \/ Enqueueing(a)
    /\ events' <= 1 /\ \A f \in Fns : fnrow'[f] # NoFn => (~fnrow'[f].anon /\ ~fnrow'[f].user)
    /\ \A a \in FTasks : ftask'[a].pc = "prev" => ftask'[a].bound
QueueScene ==
    \/ Runtime \/ Events
    \/ \E t \in FTenants : FTenantGone(t) /\ UNCHANGED <<fqvars, events>>
(* Configuration with one delivery at a time, and its effect on deliveries *)
(* that compete for permits.                                               *)
HookScene ==
    /\ \/ WConfig
       \/ \E x \in Fans : FanOut(x) \/ DispatchMany(x, OneTenant)
       \/ \E d \in Deliveries : Delivering(d)
       \/ \E x \in Fetches : FetchStart(x, OneTenant) \/ FetchAllowlist(x) \/ FetchEnd(x)
                            \/ \E o \in Origins : HttpFetch(x, o)
    /\ Cardinality({d \in Deliveries : deliv'[d] # DIdle}) <= 1 /\ fans' <= 1 /\ allows' <= 1
    /\ wlive' = wlive /\ \A h \in HookIds : hook'[h] \notin {NoHook, Unset} => hook'[h].tenant = OneTenant
    /\ (\E x \in Fetches : fetch'[x] # FanIdle) => reg' = FanIdle /\ fans' = 0
DeliverScene ==
    /\ \/ \E x \in Fans, t \in WTenants : FanOut(x) \/ DispatchMany(x, t)
       \/ \E d \in Deliveries : Delivering(d)
       \/ SetAllowlist(OneTenant, {}) \/ WSoftDelete(OneTenant) \/ BumpVersion(OneTenant)
    /\ allows' <= 1
MCNext ==
    /\ UNCHANGED scene
    /\ \/ scene = "store" /\ StoreScene /\ UNCHANGED wvars
       \/ scene = "queue" /\ QueueScene /\ UNCHANGED wvars
       \/ scene = "hooks" /\ HookScene /\ UNCHANGED fevars
       \/ scene = "deliver" /\ DeliverScene /\ UNCHANGED fevars
MCSpec == MCInit /\ [][MCNext]_mcvars /\ FEFair /\ WFair
============================================================================
