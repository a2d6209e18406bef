--------------------------- MODULE CronScheduler ---------------------------
(***************************************************************************)
(* The scheduled jobs of the tenants (cron/): the job and run tables in    *)
(* each tenant's database (store.rs), the handlers that change them        *)
(* (ops.rs), the in-memory index they reload (index.rs), and the minute    *)
(* tick that spawns one task per due job (scheduler.rs).                   *)
(*                                                                         *)
(* A minute is a number, a schedule the set of minutes at which it is due. *)
(* Payload and target are left out: no decision looks at them.  A handler  *)
(* holds its tenant's pool, so it goes on reading and writing the database *)
(* after a soft delete moved the file; the boot scan, and get_if_live when *)
(* the registry has no pool, open the file by its path and find nothing.   *)
(* How pools enter and leave the registry is TenantLifecycle's subject.    *)
(***************************************************************************)
EXTENDS Integers, FiniteSets, Sequences

CONSTANTS
    Tenants,
    Names,         \* job names
    Schedules,     \* schedules: sets of minutes
    Handlers,      \* cron handlers that may run at the same time
    MaxMinute,     \* bound: the scheduler's minutes are 1..MaxMinute
    MaxId,         \* bound: job ids are 1..MaxId
    MaxJobs,       \* DRUST_CRON_MAX_JOBS_PER_TENANT
    RunsKept,      \* RUNS_KEEP_PER_JOB
    Concurrency    \* DRUST_CRON_CONCURRENCY

ASSUME CronAssumption ==
    /\ {MaxMinute, MaxId, MaxJobs, RunsKept, Concurrency} \subseteq Nat \ {0}
    /\ Schedules \subseteq SUBSET (1 .. MaxMinute)
    /\ "boot" \notin Handlers \cup Tenants
    /\ Handlers \cap Tenants = {}

VARIABLES
    jobs,      \* _system_cron_jobs by tenant
    nextId,    \* the AUTOINCREMENT counter of that table
    runs,      \* _system_cron_runs by tenant and job id, oldest first
    file,      \* tenants whose data.sqlite is at its path
    pool,      \* tenants with a pool in the registry
    index,     \* CronIndex.map, {} where there is no entry
    arc,       \* which Arc the tenant's entry of CronIndex.locks holds
    hand,      \* whoever reads the jobs to write the index
    booted,    \* tenants the boot scan has passed
    last,      \* last_fired, 0 for None
    fire,      \* the spawned run_due_job tasks
    inFlight,  \* the overlap markers (tenant, job id)
    permits,   \* free dispatch permits
    ran,       \* history: the fires that were dispatched
    blind      \* history: tenants whose last reload could not read

tables == <<jobs, nextId, runs, file, pool>>
indexVars == <<index, arc, hand, booted, blind>>
fireVars == <<last, fire, inFlight, permits, ran>>
cronVars == <<tables, indexVars, fireVars>>

Minutes == 1 .. MaxMinute
Ids == 1 .. MaxId
JobRows == [id : Ids, name : Names, sched : Schedules, active : BOOLEAN]
IndexedJobs == [id : Ids, name : Names, sched : Schedules]

(* A fire is named by its tenant, its job and its minute: the tick spawns  *)
(* a job once for a minute.                                                *)
Keys == Tenants \X Ids \X Minutes
Unborn == [pc |-> "none", name |-> "none", sched |-> {}]

(* The index writers: a handler, the boot scan, and the soft delete of a   *)
(* tenant, which goes by the tenant's name.                                *)
Writers == Handlers \cup {"boot"} \cup Tenants
Free == [pc |-> "idle", t |-> "none", g |-> 0, seen |-> {}]

(* apply_jobs: the active jobs, as the index keeps them. *)
Active(js) == {[id |-> j.id, name |-> j.name, sched |-> j.sched] :
                  j \in {i \in js : i.active}}

Init ==
    /\ jobs \in [Tenants -> {{}} \cup
                  {{[id |-> 1, name |-> n, sched |-> s, active |-> TRUE]} :
                      n \in Names, s \in Schedules}]
    /\ nextId = [t \in Tenants |-> IF jobs[t] = {} THEN 1 ELSE 2]
    /\ runs = [t \in Tenants |-> [i \in Ids |-> << >>]]
    /\ file = Tenants
    /\ pool = {}
    /\ index = [t \in Tenants |-> {}]
    /\ arc = [t \in Tenants |-> 0]
    /\ hand = [w \in Writers |-> Free]
    /\ booted = {}
    /\ last = 0
    /\ fire = [k \in Keys |-> Unborn]
    /\ inFlight = {}
    /\ permits = Concurrency
    /\ ran = {}
    /\ blind = {}

----------------------------------------------------------------------------
(* The reload lock of a tenant.  A writer clones the Arc it finds in the   *)
(* map, then waits for that mutex.                                         *)

Holds(w, t, g) ==
    hand[w].t = t /\ hand[w].g = g /\ hand[w].pc \in {"locked", "read"}

(* Fault: the index is written without the per-tenant lock. *)
FaultLockFree(t, g) == TRUE

LockFree(t, g) == \A w \in Writers : ~ Holds(w, t, g)

CloneArc(w, t) == [pc |-> "wait", t |-> t, g |-> arc[t], seen |-> {}]

StepHand(w, h) == hand' = [hand EXCEPT ![w] = h]

Acquire(w) ==
    /\ hand[w].pc = "wait"
    /\ LockFree(hand[w].t, hand[w].g)
    /\ StepHand(w, [hand[w] EXCEPT !.pc = "locked"])
    /\ UNCHANGED <<tables, index, arc, booted, blind, fireVars>>

(* list_jobs_reader through the pool the handler holds.  The boot scan     *)
(* opens the file by its path.                                             *)
ReadJobs(w) ==
    /\ hand[w].pc = "locked" /\ w \notin Tenants
    /\ w = "boot" => hand[w].t \in file
    /\ StepHand(w, [hand[w] EXCEPT !.pc = "read", !.seen = jobs[hand[w].t]])
    /\ UNCHANGED <<tables, index, arc, booted, blind, fireVars>>

(* apply_jobs and the end of the reload. *)
ApplyJobs(w) ==
    LET t == hand[w].t IN
    /\ hand[w].pc = "read"
    /\ index' = [index EXCEPT ![t] = Active(hand[w].seen)]
    /\ booted' = IF w = "boot" THEN booted \cup {t} ELSE booted
    /\ blind' = blind \ {t}
    /\ StepHand(w, Free)
    /\ UNCHANGED <<tables, arc, fireVars>>

(* A read error clears the entry; the boot scan leaves the tenant alone.   *)
ReadFails(w) ==
    LET t == hand[w].t IN
    /\ hand[w].pc = "locked" /\ w \notin Tenants
    /\ index' = IF w = "boot" THEN index ELSE [index EXCEPT ![t] = {}]
    /\ booted' = IF w = "boot" THEN booted \cup {t} ELSE booted
    /\ blind' = blind \cup {t}
    /\ StepHand(w, Free)
    /\ UNCHANGED <<tables, arc, fireVars>>

----------------------------------------------------------------------------
(* ops.rs: the write in one writer closure, then the reload. *)

(* The tenant's bearer layer let the request in; it holds the pool. *)
Begin(h, t) ==
    /\ hand[h].pc = "idle" /\ hand[t].pc = "idle" /\ t \in file
    /\ StepHand(h, [Free EXCEPT !.pc = "write", !.t = t])
    /\ pool' = pool \cup {t}
    /\ UNCHANGED <<jobs, nextId, runs, file, index, arc, booted, blind, fireVars>>

(* Refused: invalid, unknown target, duplicate, over the cap, not found.   *)
Refuse(h) ==
    /\ hand[h].pc = "write"
    /\ StepHand(h, Free)
    /\ UNCHANGED <<tables, index, arc, booted, blind, fireVars>>

(* The reload that follows a committed write. *)
Reload(h) == StepHand(h, CloneArc(h, hand[h].t))

CreateJob(h, n, s, a) ==
    LET t == hand[h].t IN
    /\ hand[h].pc = "write"
    /\ \A j \in jobs[t] : j.name # n
    /\ Cardinality(jobs[t]) < MaxJobs
    /\ nextId[t] <= MaxId
    /\ jobs' = [jobs EXCEPT ![t] =
                  @ \cup {[id |-> nextId[t], name |-> n, sched |-> s, active |-> a]}]
    /\ nextId' = [nextId EXCEPT ![t] = @ + 1]
    /\ Reload(h)
    /\ UNCHANGED <<runs, file, pool, index, arc, booted, blind, fireVars>>

(* update_job and set_active: any of schedule, payload and active. *)
UpdateJob(h, j, s, a) ==
    LET t == hand[h].t IN
    /\ hand[h].pc = "write"
    /\ j \in jobs[t]
    /\ jobs' = [jobs EXCEPT ![t] =
                  (@ \ {j}) \cup {[j EXCEPT !.sched = s, !.active = a]}]
    /\ Reload(h)
    /\ UNCHANGED <<nextId, runs, file, pool, index, arc, booted, blind, fireVars>>

(* The job and its runs. *)
DeleteJob(h, j) ==
    LET t == hand[h].t IN
    /\ hand[h].pc = "write"
    /\ j \in jobs[t]
    /\ jobs' = [jobs EXCEPT ![t] = @ \ {j}]
    /\ runs' = [runs EXCEPT ![t][j.id] = << >>]
    /\ Reload(h)
    /\ UNCHANGED <<nextId, file, pool, index, arc, booted, blind, fireVars>>

(* The MCP tools; the one for changes sets the active flag and no more. *)
CreateCronJob(h, n, s, a) == CreateJob(h, n, s, a)
SetCronJobActive(h, j, a) == UpdateJob(h, j, j.sched, a)
DeleteCronJob(h, j) == DeleteJob(h, j)

(* boot_scan takes the tenants one after the other; one whose file is gone *)
(* is passed over.                                                         *)
BootScan(t) ==
    /\ hand["boot"].pc = "idle" /\ t \notin booted
    /\ \/ t \in file /\ StepHand("boot", CloneArc("boot", t)) /\ UNCHANGED booted
       \/ t \notin file /\ booted' = booted \cup {t} /\ UNCHANGED hand
    /\ UNCHANGED <<tables, index, arc, blind, fireVars>>

(* soft_delete_tenant as far as cron sees it: the directory is renamed,    *)
(* the pool evicted, then invalidate drops the entry and the lock under    *)
(* the reload lock.                                                        *)
SoftDelete(t) ==
    /\ hand[t].pc = "idle" /\ t \in file
    /\ file' = file \ {t}
    /\ StepHand(t, [Free EXCEPT !.pc = "moved", !.t = t])
    /\ UNCHANGED <<jobs, nextId, runs, pool, index, arc, booted, blind, fireVars>>

EvictPool(t) ==
    /\ hand[t].pc = "moved"
    /\ pool' = pool \ {t}
    /\ StepHand(t, CloneArc(t, t))
    /\ UNCHANGED <<jobs, nextId, runs, file, index, arc, booted, blind, fireVars>>

Invalidate(t) ==
    /\ hand[t].pc = "locked"
    /\ index' = [index EXCEPT ![t] = {}]
    /\ arc' = [arc EXCEPT ![t] = 1]
    /\ StepHand(t, [hand[t] EXCEPT !.pc = "gone"])
    /\ UNCHANGED <<tables, booted, blind, fireVars>>

----------------------------------------------------------------------------
(* scheduler.rs *)

(* tick_decision: only a minute after the last one that fired. *)
ShouldFire(m) == m > last

(* The loop woke for minute m, computed from a wall clock that may have    *)
(* been stepped either way; tick_decision, then one task per due job of    *)
(* the index snapshot.  It is armed after the boot scan.                   *)
Tick(m) ==
    /\ booted = Tenants
    /\ ShouldFire(m)
    /\ last' = m
    /\ fire' = [k \in Keys |->
          LET due == {j \in index[k[1]] : j.id = k[2] /\ m \in j.sched} IN
          IF k[3] = m /\ due # {}
          THEN LET j == CHOOSE j \in due : TRUE
               IN [pc |-> "spawned", name |-> j.name, sched |-> j.sched]
          ELSE fire[k]]
    /\ UNCHANGED <<tables, indexVars, inFlight, permits, ran>>

Marker(k) == <<k[1], k[2]>>
Past == {"permit", "assert", "run", "record"}      \* holds the tenant gate
Working == {"gate"} \cup Past                      \* holds the overlap marker
Dispatching == {"assert", "run", "record"}         \* holds a permit

StepFire(k, pc) == fire' = [fire EXCEPT ![k].pc = pc]

(* get_if_live: a cached pool, or the file opened; none when the file is   *)
(* gone or cannot be opened.  Then the overlap gate.                       *)
Start(k) ==
    /\ fire[k].pc = "spawned"
    /\ \/ k[1] \notin pool /\ StepFire(k, "done") /\ UNCHANGED <<pool, inFlight>>
       \/ /\ k[1] \in pool \cup file
          /\ pool' = pool \cup {k[1]}
          /\ inFlight' = inFlight \cup {Marker(k)}
          /\ StepFire(k, IF Marker(k) \in inFlight THEN "skip" ELSE "gate")
    /\ UNCHANGED <<jobs, nextId, runs, file, indexVars, last, permits, ran>>

(* record_run: nothing when the job is gone, else the newest RunsKept.     *)
RecordRun(t, i, run) ==
    LET rs == Append(runs[t][i], run)
        n == Len(rs) IN
    runs' = IF \E j \in jobs[t] : j.id = i
            THEN [runs EXCEPT ![t][i] =
                    IF n <= RunsKept THEN rs ELSE SubSeq(rs, n - RunsKept + 1, n)]
            ELSE runs

(* The overlapping fire leaves its row without gate or permit. *)
RecordSkip(k) ==
    /\ fire[k].pc = "skip"
    /\ RecordRun(k[1], k[2], <<k[3], "skipped_overlap">>)
    /\ StepFire(k, "done")
    /\ UNCHANGED <<jobs, nextId, file, pool, indexVars, last, inFlight, permits, ran>>

GateFree(t) == \A k \in Keys : k[1] = t => fire[k].pc \notin Past

(* tenant_gate: the tenant's mutex, before any permit. *)
EnterGate(k) ==
    /\ fire[k].pc = "gate"
    /\ GateFree(k[1])
    /\ StepFire(k, "permit")
    /\ UNCHANGED <<tables, indexVars, last, inFlight, permits, ran>>

TakePermit(k) ==
    /\ fire[k].pc = "permit"
    /\ permits > 0
    /\ permits' = permits - 1
    /\ StepFire(k, "assert")
    /\ UNCHANGED <<tables, indexVars, last, inFlight, ran>>

(* Fault: a return that bypasses the drop of the permit. *)
FaultLeave(k) ==
    /\ StepFire(k, "done")
    /\ inFlight' = inFlight \ {Marker(k)}
    /\ UNCHANGED permits

(* Every way out drops the permit, the tenant lock and the marker. *)
Leave(k) ==
    /\ StepFire(k, "done")
    /\ inFlight' = inFlight \ {Marker(k)}
    /\ permits' = permits + 1

(* The row read again by name: still this id, active, same schedule. *)
StillDue(k) ==
    \E j \in jobs[k[1]] :
        /\ j.name = fire[k].name /\ j.id = k[2]
        /\ j.active /\ j.sched = fire[k].sched

(* Fault: the marker is left behind when the job changed under the fire.   *)
FaultReassert(k) ==
    /\ fire[k].pc = "assert"
    /\ \/ /\ StillDue(k)
          /\ StepFire(k, "run")
          /\ ran' = ran \cup {k}
          /\ UNCHANGED <<inFlight, permits>>
       \/ /\ ~ StillDue(k)
          /\ StepFire(k, "done") /\ permits' = permits + 1
          /\ UNCHANGED <<inFlight, ran>>
    /\ UNCHANGED <<tables, indexVars, last>>

Reassert(k) ==
    /\ fire[k].pc = "assert"
    /\ \/ /\ StillDue(k)
          /\ StepFire(k, "run")
          /\ ran' = ran \cup {k}
          /\ UNCHANGED <<inFlight, permits>>
       \/ ~ StillDue(k) /\ Leave(k) /\ UNCHANGED ran
    /\ UNCHANGED <<tables, indexVars, last>>

(* The function or the RPC returned, with success or an error. *)
Dispatched(k) ==
    /\ fire[k].pc = "run"
    /\ StepFire(k, "record")
    /\ UNCHANGED <<tables, indexVars, last, inFlight, permits, ran>>

RecordOutcome(k) ==
    /\ fire[k].pc = "record"
    /\ RecordRun(k[1], k[2], <<k[3], "ended">>)
    /\ Leave(k)
    /\ UNCHANGED <<jobs, nextId, file, pool, indexVars, last, ran>>

(* The re-assert read or the record write failed, or the task panicked.    *)
Unwind(k) ==
    /\ fire[k].pc \in Dispatching
    /\ Leave(k)
    /\ UNCHANGED <<tables, indexVars, last, ran>>

FireStep(k) ==
    \/ Start(k) \/ RecordSkip(k) \/ EnterGate(k) \/ TakePermit(k)
    \/ Reassert(k) \/ Dispatched(k) \/ RecordOutcome(k)

Mutate(h) ==
    \/ Refuse(h)
    \/ \E n \in Names, s \in Schedules, a \in BOOLEAN :
          CreateJob(h, n, s, a) \/ CreateCronJob(h, n, s, a)
    \/ \E j \in JobRows, s \in Schedules, a \in BOOLEAN : UpdateJob(h, j, s, a)
    \/ \E j \in JobRows : DeleteJob(h, j) \/ DeleteCronJob(h, j)
    \/ \E j \in JobRows, a \in BOOLEAN : SetCronJobActive(h, j, a)

Next ==
    \/ \E w \in Writers : Acquire(w) \/ ReadJobs(w) \/ ApplyJobs(w) \/ ReadFails(w)
    \/ \E h \in Handlers : Mutate(h) \/ \E t \in Tenants : Begin(h, t)
    \/ \E t \in Tenants : BootScan(t) \/ SoftDelete(t) \/ EvictPool(t) \/ Invalidate(t)
    \/ \E m \in Minutes : Tick(m)
    \/ \E k \in Keys : FireStep(k) \/ Unwind(k)

Spec == Init /\ [][Next]_cronVars

(* A spawned task is polled until it returns; a dispatch ends (a function  *)
(* at its wall-clock limit, an RPC with its statement).  The mutex and the *)
(* semaphore queue their waiters, and a fire passes each of them once.     *)
FairSpec == Spec /\ \A k \in Keys : WF_cronVars(FireStep(k))

----------------------------------------------------------------------------
(* Properties.                                                             *)

TypeOK ==
    /\ jobs \in [Tenants -> SUBSET JobRows]
    /\ nextId \in [Tenants -> 1 .. MaxId + 1]
    /\ runs \in [Tenants -> [Ids -> Seq(Minutes \X {"skipped_overlap", "ended"})]]
    /\ file \subseteq Tenants
    /\ pool \subseteq Tenants
    /\ index \in [Tenants -> SUBSET IndexedJobs]
    /\ arc \in [Tenants -> {0, 1}]
    /\ hand \in [Writers -> [pc : {"idle", "write", "wait", "locked", "read", "moved", "gone"},
                             t : Tenants \cup {"none"}, g : {0, 1},
                             seen : SUBSET JobRows]]
    /\ booted \subseteq Tenants
    /\ last \in 0 .. MaxMinute
    /\ fire \in [Keys -> [pc : Working \cup {"none", "spawned", "skip", "done"},
                          name : Names \cup {"none"},
                          sched : Schedules \cup {{}}]]
    /\ inFlight \subseteq Tenants \X Ids
    /\ permits \in 0 .. Concurrency
    /\ ran \subseteq Keys
    /\ blind \subseteq Tenants

(* Two fires of one job never work at the same time, however long the      *)
(* first waits or runs, and a marker is there exactly as long as its fire  *)
(* works: InFlightGuard drops it on every exit, so no job stays skipped.   *)
OverlapGate ==
    /\ inFlight = {Marker(k) : k \in {l \in Keys : fire[l].pc \in Working}}
    /\ \A k, l \in Keys :
          (/\ fire[k].pc \in Working /\ fire[l].pc \in Working
           /\ Marker(k) = Marker(l)) => k = l

(* A tenant has at most one fire that competes for or holds a dispatch     *)
(* permit, whatever its other jobs do: tenant_gate comes before permits.   *)
OnePermitPerTenant ==
    \A k, l \in Keys :
        (/\ fire[k].pc \in Past /\ fire[l].pc \in Past
         /\ k[1] = l[1]) => k = l

(* While no reload of a live tenant is under way, the index holds exactly  *)
(* the tenant's active jobs, whichever handlers and boot scan overlapped:  *)
(* reload's read and its write of the map are under one lock.              *)
IndexFresh ==
    \A t \in booted \cap file :
        \/ t \in blind
        \/ \E w \in Writers : hand[w].t = t /\ hand[w].pc \in {"wait", "locked", "read"}
        \/ index[t] = Active(jobs[t])

(* A run row belongs to a job that exists: a fire that ends after its job  *)
(* was deleted writes nothing (record_run).                                *)
NoOrphanRuns ==
    \A t \in Tenants, i \in Ids :
        runs[t][i] # << >> => \E j \in jobs[t] : j.id = i

(* No job is dispatched twice for one minute, however the wall clock is    *)
(* stepped (tick_decision), and no fire is spawned into one that runs.     *)
DispatchedOnce(k) ==
    /\ fire[k].pc # "run" /\ fire'[k].pc = "run" => k \notin ran
    /\ fire'[k].pc = "spawned" => fire[k].pc \in {"none", "spawned"}
MinuteOnce == [][\A k \in Keys : DispatchedOnce(k)]_cronVars

(* A spawned fire ends: neither the overlap gate nor the two locks keep it *)
(* waiting for ever.                                                       *)
EveryFireEnds == \A k \in Keys : fire[k].pc = "spawned" ~> fire[k].pc = "done"
============================================================================
