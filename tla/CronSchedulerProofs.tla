------------------------ MODULE CronSchedulerProofs ------------------------
(***************************************************************************)
(* Proofs about CronScheduler, for any number of tenants, jobs, minutes,   *)
(* handlers and permits: the overlap gate, the tenant gate, the            *)
(* once-a-minute rule, the index that the reloads keep and the runs of     *)
(* deleted jobs; and about SqlRunner, which runs the stored RPCs that jobs *)
(* and callers name, for any number of tasks, readers and bodies.          *)
(***************************************************************************)
EXTENDS CronScheduler, SqlRunner, TLAPS

Pcs == {"none", "spawned", "skip", "gate", "permit", "assert", "run", "record",
        "done"}
FireRows == [pc : Pcs, name : Names \cup {"none"}, sched : SUBSET Minutes]

Hands == [pc : {"idle", "write", "wait", "locked", "read", "moved", "gone"},
          t : Tenants \cup {"none"}, g : {0, 1}, seen : SUBSET JobRows]

(* A handler between its admission and its answer has a tenant. *)
HandTenants ==
    \A w \in Writers : hand[w].pc # "idle" => hand[w].t \in Tenants

TableTypes ==
    /\ jobs \in [Tenants -> SUBSET JobRows]
    /\ nextId \in [Tenants -> Nat \ {0}]
    /\ index \in [Tenants -> SUBSET IndexedJobs]
    /\ arc \in [Tenants -> {0, 1}]
    /\ hand \in [Writers -> Hands]
    /\ HandTenants

FireTypes ==
    /\ fire \in [Keys -> FireRows]
    /\ last \in Nat
    /\ ran \subseteq Keys

(* A working fire has its marker, and a marker its working fire. *)
Marked == \A k \in Keys : fire[k].pc \in Working => Marker(k) \in inFlight
Owned == \A x \in inFlight :
            \E k \in Keys : fire[k].pc \in Working /\ Marker(k) = x
NoOverlap ==
    \A k, l \in Keys :
        (/\ fire[k].pc \in Working /\ fire[l].pc \in Working
         /\ Marker(k) = Marker(l)) => k = l

(* A minute that has not come has no fires. *)
FutureUnborn == \A k \in Keys : k[3] > last => fire[k].pc = "none"

(* A dispatched fire is beyond its re-assert. *)
RanPast == \A k \in ran : fire[k].pc \in {"run", "record", "done"}

FInv ==
    /\ TableTypes /\ FireTypes /\ Marked /\ Owned /\ NoOverlap /\ OnePermitPerTenant
    /\ FutureUnborn /\ RanPast

----------------------------------------------------------------------------
(* The two halves of the marker invariant are the equality of OverlapGate. *)
LEMMA MarkersExact ==
  ASSUME Marked, Owned, NoOverlap
  PROVE  OverlapGate
  BY DEF Marked, Owned, NoOverlap, OverlapGate

(* A step of a fire leaves the tables and the index alone. *)
LEMMA TablesAlone ==
  ASSUME TableTypes, UNCHANGED <<jobs, nextId, indexVars>>
  PROVE  TableTypes'
  BY DEF TableTypes, HandTenants, indexVars

(* One fire moves, the others stay. *)
LEMMA OneMoves ==
  ASSUME FireTypes, NEW k \in Keys, NEW p \in Pcs, StepFire(k, p)
  PROVE  /\ fire' \in [Keys -> FireRows]
         /\ fire'[k].pc = p
         /\ \A l \in Keys : l # k => fire'[l] = fire[l]
  BY DEF FireTypes, FireRows, StepFire

(* A step of the tables or of the index leaves the fires alone. *)
LEMMA FiresAlone ==
  ASSUME FInv, UNCHANGED fireVars, TableTypes'
  PROVE  FInv'
  BY DEF FInv, fireVars, FireTypes, Marked, Owned, NoOverlap, OnePermitPerTenant,
         FutureUnborn, RanPast, FireTypes

(* A fire goes from one working control point to the next; none takes the  *)
(* tenant gate but through GateFree.                                       *)
LEMMA Onward ==
  ASSUME FInv, NEW k \in Keys, NEW p \in Working, StepFire(k, p),
         fire[k].pc \in Working,
         fire[k].pc \in Past \/ GateFree(k[1]),
         UNCHANGED <<jobs, nextId, indexVars, last, inFlight>>,
         \/ UNCHANGED ran /\ (k \in ran => p \in {"run", "record"})
         \/ ran' = ran \cup {k} /\ p = "run"
  PROVE  FInv'
<1>1. p \in Pcs
  BY DEF Working, Past, Pcs
<1>2. /\ fire' \in [Keys -> FireRows]
      /\ fire'[k].pc = p
      /\ \A l \in Keys : l # k => fire'[l] = fire[l]
  BY <1>1, OneMoves DEF FInv
<1>3. TableTypes' /\ FireTypes'
  BY <1>2, TablesAlone DEF FInv, FireTypes
<1>4. Marked' /\ Owned' /\ NoOverlap'
  <2>1. \A l \in Keys : fire'[l].pc \in Working <=> fire[l].pc \in Working
    BY <1>2
  <2>2. QED
    BY <2>1 DEF FInv, Marked, Owned, NoOverlap
<1>5. OnePermitPerTenant'
  BY <1>2 DEF FInv, OnePermitPerTenant, GateFree
<1>6. FutureUnborn'
  BY <1>2 DEF FInv, FutureUnborn, Working, Past
<1>7. RanPast'
  BY <1>2 DEF FInv, RanPast, FireTypes
<1> QED
  BY <1>3, <1>4, <1>5, <1>6, <1>7 DEF FInv

(* A fire that does not work goes on without working. *)
LEMMA Aside ==
  ASSUME FInv, NEW k \in Keys, NEW p \in {"skip", "done"}, StepFire(k, p),
         fire[k].pc \in {"spawned", "skip"},
         UNCHANGED <<jobs, nextId, indexVars, last, inFlight, ran>>
  PROVE  FInv'
<1>1. /\ fire' \in [Keys -> FireRows]
      /\ fire'[k].pc = p
      /\ \A l \in Keys : l # k => fire'[l] = fire[l]
  BY OneMoves DEF FInv, Pcs
<1>2. TableTypes' /\ FireTypes'
  BY <1>1, TablesAlone DEF FInv, FireTypes
<1>3. \A l \in Keys : /\ fire'[l].pc \in Working <=> fire[l].pc \in Working
                      /\ fire'[l].pc \in Past <=> fire[l].pc \in Past
  BY <1>1 DEF Working, Past
<1>4. Marked' /\ Owned' /\ NoOverlap' /\ OnePermitPerTenant'
  BY <1>3 DEF FInv, Marked, Owned, NoOverlap, OnePermitPerTenant
<1>5. FutureUnborn' /\ RanPast'
  BY <1>1 DEF FInv, FutureUnborn, RanPast, FireTypes
<1> QED
  BY <1>2, <1>4, <1>5 DEF FInv

(* A fire marks its job and begins to work. *)
LEMMA Enters ==
  ASSUME FInv, NEW k \in Keys, StepFire(k, "gate"),
         fire[k].pc = "spawned", Marker(k) \notin inFlight,
         inFlight' = inFlight \cup {Marker(k)},
         UNCHANGED <<jobs, nextId, indexVars, last, ran>>
  PROVE  FInv'
<1>1. /\ fire' \in [Keys -> FireRows]
      /\ fire'[k].pc = "gate"
      /\ \A l \in Keys : l # k => fire'[l] = fire[l]
  BY OneMoves DEF FInv, Pcs
<1>2. TableTypes' /\ FireTypes'
  BY <1>1, TablesAlone DEF FInv, FireTypes
<1>3. Marked' /\ NoOverlap'
  BY <1>1 DEF FInv, Marked, NoOverlap
<1>4. Owned'
  <2> SUFFICES ASSUME NEW x \in inFlight'
               PROVE  \E l \in Keys : fire'[l].pc \in Working /\ Marker(l) = x
    BY DEF Owned
  <2>1. CASE x = Marker(k)
    BY <1>1, <2>1 DEF Working
  <2>2. CASE x \in inFlight
    <3>1. PICK l \in Keys : fire[l].pc \in Working /\ Marker(l) = x
      BY <2>2 DEF FInv, Owned
    <3>2. l # k
      BY <3>1 DEF Working, Past
    <3> QED
      BY <1>1, <3>1, <3>2
  <2> QED
    BY <2>1, <2>2
<1>5. OnePermitPerTenant'
  BY <1>1 DEF FInv, OnePermitPerTenant, Past
<1>6. FutureUnborn' /\ RanPast'
  BY <1>1 DEF FInv, FutureUnborn, RanPast, FireTypes
<1> QED
  BY <1>2, <1>3, <1>4, <1>5, <1>6 DEF FInv

(* A fire leaves with its marker, and nobody else's. *)
LEMMA Leaves ==
  ASSUME FInv, NEW k \in Keys, Leave(k), fire[k].pc \in Working,
         UNCHANGED <<jobs, nextId, indexVars, last, ran>>
  PROVE  FInv'
<1>1. /\ fire' \in [Keys -> FireRows]
      /\ fire'[k].pc = "done"
      /\ \A l \in Keys : l # k => fire'[l] = fire[l]
  BY OneMoves DEF FInv, Pcs, Leave
<1>2. TableTypes' /\ FireTypes'
  BY <1>1, TablesAlone DEF FInv, FireTypes
<1>3. "done" \notin Working /\ "done" \notin Past
  BY DEF Working, Past
<1>4. Marked'
  BY <1>1, <1>3 DEF FInv, Marked, NoOverlap, Leave
<1>5. NoOverlap' /\ OnePermitPerTenant'
  BY <1>1, <1>3 DEF FInv, NoOverlap, OnePermitPerTenant
<1>6. Owned'
  <2> SUFFICES ASSUME NEW x \in inFlight'
               PROVE  \E l \in Keys : fire'[l].pc \in Working /\ Marker(l) = x
    BY DEF Owned
  <2>1. PICK l \in Keys : fire[l].pc \in Working /\ Marker(l) = x
    BY DEF FInv, Owned, Leave
  <2>2. l # k
    BY <2>1 DEF Leave
  <2> QED
    BY <1>1, <2>1, <2>2
<1>7. FutureUnborn' /\ RanPast'
  BY <1>1 DEF FInv, FutureUnborn, RanPast, FireTypes, Working, Past
<1> QED
  BY <1>2, <1>4, <1>5, <1>6, <1>7 DEF FInv

----------------------------------------------------------------------------
LEMMA ActiveType ==
  ASSUME NEW js \in SUBSET JobRows
  PROVE  Active(js) \in SUBSET IndexedJobs
  BY DEF Active, JobRows, IndexedJobs

LEMMA InitFInv == Init => FInv
<1> SUFFICES ASSUME Init PROVE FInv
  OBVIOUS
<1>1. fire \in [Keys -> FireRows] /\ \A k \in Keys : fire[k].pc = "none"
  BY DEF Init, Unborn, FireRows, Pcs
<1>2. jobs \in [Tenants -> SUBSET JobRows]
  <2>1. 1 \in Ids
    BY CronAssumption DEF Ids
  <2>2. ASSUME NEW n \in Names, NEW s \in Schedules
        PROVE  {[id |-> 1, name |-> n, sched |-> s, active |-> TRUE]} \in SUBSET JobRows
    BY <2>1 DEF JobRows
  <2> QED
    BY <2>2 DEF Init
<1>3. TableTypes /\ FireTypes
  <2>1. Free \in Hands /\ Free.pc = "idle"
    BY DEF Free, Hands
  <2>2. hand \in [Writers -> Hands] /\ HandTenants
    BY <2>1 DEF Init, HandTenants
  <2>3. /\ nextId \in [Tenants -> Nat \ {0}]
        /\ index \in [Tenants -> SUBSET IndexedJobs]
        /\ arc \in [Tenants -> {0, 1}]
    BY DEF Init
  <2>4. FireTypes
    BY <1>1 DEF Init, FireTypes
  <2> QED
    BY <1>2, <2>2, <2>3, <2>4 DEF TableTypes
<1>4. "none" \notin Working /\ "none" \notin Past
  BY DEF Working, Past
<1>5. Marked /\ Owned /\ NoOverlap /\ OnePermitPerTenant /\ FutureUnborn /\ RanPast
  BY <1>1, <1>4 DEF Init, Marked, Owned, NoOverlap, OnePermitPerTenant,
                    FutureUnborn, RanPast
<1> QED
  BY <1>3, <1>5 DEF FInv

(* The tick spawns fires of a minute that had none. *)
LEMMA Ticks ==
  ASSUME FInv, NEW m \in Minutes, Tick(m)
  PROVE  /\ FInv'
         /\ \A k \in Keys : \/ fire'[k] = fire[k]
                            \/ fire[k].pc = "none" /\ fire'[k].pc = "spawned"
<1> DEFINE Due(k) == {j \in index[k[1]] : j.id = k[2] /\ m \in j.sched}
<1> DEFINE Spawned(j) == [pc |-> "spawned", name |-> j.name, sched |-> j.sched]
<1>1. fire' = [k \in Keys |-> IF k[3] = m /\ Due(k) # {}
                              THEN Spawned(CHOOSE j \in Due(k) : TRUE)
                              ELSE fire[k]]
  BY DEF Tick
<1>2. ASSUME NEW k \in Keys, Due(k) # {}
      PROVE  Spawned(CHOOSE j \in Due(k) : TRUE) \in FireRows
  <2>1. PICK j : j = CHOOSE i \in Due(k) : TRUE
    OBVIOUS
  <2>2. j \in Due(k)
    BY <1>2, <2>1
  <2>3. k[1] \in Tenants
    BY DEF Keys
  <2>4. j \in IndexedJobs
    BY <2>2, <2>3 DEF FInv, TableTypes
  <2>5. j.name \in Names /\ j.sched \in SUBSET Minutes
    BY <2>4, CronAssumption DEF IndexedJobs, Minutes
  <2>6. Spawned(j) \in FireRows
    BY <2>5 DEF FireRows, Pcs
  <2> QED
    BY <2>1, <2>6
<1> HIDE DEF Due
<1>3. fire' \in [Keys -> FireRows]
  BY <1>1, <1>2 DEF FInv, FireTypes
<1>4. ASSUME NEW k \in Keys
      PROVE  \/ fire'[k] = fire[k]
             \/ fire[k].pc = "none" /\ fire'[k].pc = "spawned" /\ k[3] = m
  <2>1. CASE k[3] = m /\ Due(k) # {}
    <3>1. m > last
      BY DEF Tick, ShouldFire
    <3>2. fire[k].pc = "none"
      BY <2>1, <3>1 DEF FInv, FutureUnborn
    <3> QED
      BY <1>1, <2>1, <3>2
  <2>2. CASE ~ (k[3] = m /\ Due(k) # {})
    BY <1>1, <2>2
  <2> QED
    BY <2>1, <2>2
<1>5. TableTypes' /\ FireTypes'
  BY <1>3, TablesAlone DEF FInv, FireTypes, Tick, tables, Minutes
<1>6. \A k \in Keys : /\ fire'[k].pc \in Working <=> fire[k].pc \in Working
                      /\ fire'[k].pc \in Past <=> fire[k].pc \in Past
  BY <1>4 DEF Working, Past
<1>7. Marked' /\ Owned' /\ NoOverlap' /\ OnePermitPerTenant'
  BY <1>6 DEF FInv, Marked, Owned, NoOverlap, OnePermitPerTenant, Tick
<1>8. FutureUnborn'
  <2> SUFFICES ASSUME NEW k \in Keys, k[3] > last'
               PROVE  fire'[k].pc = "none"
    BY DEF FutureUnborn
  <2>1. last' = m /\ m > last /\ last \in Nat /\ m \in Nat /\ k[3] \in Nat
    BY DEF Tick, ShouldFire, FInv, FireTypes, Minutes, Keys
  <2>2. k[3] # m /\ k[3] > last
    BY <2>1
  <2> QED
    BY <1>4, <2>2 DEF FInv, FutureUnborn
<1>9. RanPast'
  BY <1>4 DEF FInv, FireTypes, RanPast, Tick
<1> QED
  BY <1>4, <1>5, <1>7, <1>8, <1>9 DEF FInv

----------------------------------------------------------------------------
(* The steps of the tables and of the index keep the tables' types. *)

LEMMA HandMoves ==
  ASSUME TableTypes, NEW w \in Writers, NEW h \in Hands, StepHand(w, h),
         h.pc # "idle" => h.t \in Tenants
  PROVE  hand' \in [Writers -> Hands] /\ HandTenants'
  BY DEF TableTypes, HandTenants, StepHand

LEMMA FreeType == Free \in Hands /\ Free.pc = "idle"
  BY DEF Free, Hands

LEMMA CloneType ==
  ASSUME TableTypes, NEW w, NEW t \in Tenants
  PROVE  CloneArc(w, t) \in Hands /\ CloneArc(w, t).t = t
  BY DEF TableTypes, CloneArc, Hands

LEMMA PcType ==
  ASSUME NEW h \in Hands,
         NEW p \in {"idle", "write", "wait", "locked", "read", "moved", "gone"},
         NEW js \in SUBSET JobRows
  PROVE  /\ [h EXCEPT !.pc = p] \in Hands /\ [h EXCEPT !.pc = p].t = h.t
         /\ [h EXCEPT !.pc = p, !.seen = js] \in Hands
         /\ [h EXCEPT !.pc = p, !.seen = js].t = h.t
  BY DEF Hands

LEMMA TenantType ==
  ASSUME NEW h \in Hands, NEW t \in Tenants, NEW p \in {"write", "moved"}
  PROVE  [h EXCEPT !.pc = p, !.t = t] \in Hands /\ [h EXCEPT !.pc = p, !.t = t].t = t
  BY DEF Hands

(* A writer of the index that is at work has a tenant. *)
LEMMA AtWork ==
  ASSUME TableTypes, NEW w \in Writers, hand[w].pc # "idle"
  PROVE  hand[w] \in Hands /\ hand[w].t \in Tenants
  BY DEF TableTypes, HandTenants

LEMMA ReloadSteps ==
  ASSUME TableTypes, NEW w \in Writers,
         Acquire(w) \/ ReadJobs(w) \/ ApplyJobs(w) \/ ReadFails(w)
  PROVE  TableTypes'
<1>1. CASE Acquire(w)
  <2>1. hand[w] \in Hands /\ hand[w].t \in Tenants
    BY <1>1, AtWork DEF Acquire
  <2>2. hand' \in [Writers -> Hands] /\ HandTenants'
    BY <1>1, <2>1, PcType, HandMoves DEF Acquire
  <2> QED
    BY <1>1, <2>2 DEF TableTypes, Acquire, tables
<1>2. CASE ReadJobs(w)
  <2>1. hand[w] \in Hands /\ hand[w].t \in Tenants
    BY <1>2, AtWork DEF ReadJobs
  <2>2. jobs[hand[w].t] \in SUBSET JobRows
    BY <2>1 DEF TableTypes
  <2>3. hand' \in [Writers -> Hands] /\ HandTenants'
    BY <1>2, <2>1, <2>2, PcType, HandMoves DEF ReadJobs
  <2> QED
    BY <1>2, <2>3 DEF TableTypes, ReadJobs, tables
<1>3. CASE ApplyJobs(w)
  <2>1. hand[w] \in Hands /\ hand[w].t \in Tenants
    BY <1>3, AtWork DEF ApplyJobs
  <2>2. Active(hand[w].seen) \in SUBSET IndexedJobs
    BY <2>1, ActiveType DEF Hands
  <2>3. hand' \in [Writers -> Hands] /\ HandTenants'
    BY <1>3, FreeType, HandMoves DEF ApplyJobs
  <2> QED
    BY <1>3, <2>1, <2>2, <2>3 DEF TableTypes, ApplyJobs, tables
<1>4. CASE ReadFails(w)
  <2>1. hand' \in [Writers -> Hands] /\ HandTenants'
    BY <1>4, FreeType, HandMoves DEF ReadFails
  <2> QED
    BY <1>4, <2>1 DEF TableTypes, ReadFails, tables
<1> QED
  BY <1>1, <1>2, <1>3, <1>4

LEMMA HandlerSteps ==
  ASSUME TableTypes, NEW h \in Handlers,
         Mutate(h) \/ \E t \in Tenants : Begin(h, t)
  PROVE  TableTypes'
<1>0. h \in Writers
  BY DEF Writers
<1>1. CASE Refuse(h)
  <2>1. hand' \in [Writers -> Hands] /\ HandTenants'
    BY <1>0, <1>1, FreeType, HandMoves DEF Refuse
  <2> QED
    BY <1>1, <2>1 DEF TableTypes, Refuse, tables
<1>2. ASSUME NEW t \in Tenants, Begin(h, t) PROVE TableTypes'
  <2>1. hand' \in [Writers -> Hands] /\ HandTenants'
    BY <1>0, <1>2, FreeType, TenantType, HandMoves DEF Begin
  <2> QED
    BY <1>2, <2>1 DEF TableTypes, Begin
<1>3. ASSUME hand[h].pc = "write", Reload(h)
      PROVE  hand[h].t \in Tenants /\ hand' \in [Writers -> Hands] /\ HandTenants'
  <2>1. hand[h].t \in Tenants
    BY <1>0, <1>3, AtWork
  <2> QED
    BY <1>0, <1>3, <2>1, CloneType, HandMoves DEF Reload
<1>4. ASSUME NEW n \in Names, NEW s \in Schedules, NEW a \in BOOLEAN,
             CreateJob(h, n, s, a)
      PROVE  TableTypes'
  <2>1. hand[h].t \in Tenants /\ hand' \in [Writers -> Hands] /\ HandTenants'
    BY <1>3, <1>4 DEF CreateJob
  <2>2. nextId[hand[h].t] \in Ids
    <3>1. nextId[hand[h].t] \in Nat \ {0} /\ nextId[hand[h].t] <= MaxId
      BY <1>4, <2>1 DEF TableTypes, CreateJob
    <3> QED
      BY <3>1, CronAssumption DEF Ids
  <2>3. [id |-> nextId[hand[h].t], name |-> n, sched |-> s, active |-> a] \in JobRows
    BY <2>2 DEF JobRows
  <2>4. jobs' \in [Tenants -> SUBSET JobRows]
    BY <1>4, <2>1, <2>3 DEF TableTypes, CreateJob
  <2>5. nextId' \in [Tenants -> Nat \ {0}]
    BY <1>4, <2>1 DEF TableTypes, CreateJob
  <2> QED
    BY <1>4, <2>1, <2>4, <2>5 DEF TableTypes, CreateJob
<1>5. ASSUME NEW j \in JobRows, NEW s \in Schedules, NEW a \in BOOLEAN,
             UpdateJob(h, j, s, a)
      PROVE  TableTypes'
  <2>1. hand[h].t \in Tenants /\ hand' \in [Writers -> Hands] /\ HandTenants'
    BY <1>3, <1>5 DEF UpdateJob
  <2>2. [j EXCEPT !.sched = s, !.active = a] \in JobRows
    BY DEF JobRows
  <2>3. jobs' \in [Tenants -> SUBSET JobRows]
    BY <1>5, <2>1, <2>2 DEF TableTypes, UpdateJob
  <2> QED
    BY <1>5, <2>1, <2>3 DEF TableTypes, UpdateJob
<1>6. ASSUME NEW j \in JobRows, DeleteJob(h, j)
      PROVE  TableTypes'
  <2>1. hand[h].t \in Tenants /\ hand' \in [Writers -> Hands] /\ HandTenants'
    BY <1>3, <1>6 DEF DeleteJob
  <2>2. jobs' \in [Tenants -> SUBSET JobRows]
    BY <1>6, <2>1 DEF TableTypes, DeleteJob
  <2> QED
    BY <1>6, <2>1, <2>2 DEF TableTypes, DeleteJob
<1>7. ASSUME NEW j \in JobRows, NEW a \in BOOLEAN, SetCronJobActive(h, j, a)
      PROVE  TableTypes'
  <2>1. j.sched \in Schedules
    BY DEF JobRows
  <2> QED
    BY <1>5, <1>7, <2>1 DEF SetCronJobActive
<1> QED
  BY <1>1, <1>2, <1>4, <1>5, <1>6, <1>7 DEF Mutate, CreateCronJob, DeleteCronJob

LEMMA TenantSteps ==
  ASSUME TableTypes, NEW t \in Tenants,
         BootScan(t) \/ SoftDelete(t) \/ EvictPool(t) \/ Invalidate(t)
  PROVE  TableTypes'
<1>0. t \in Writers /\ "boot" \in Writers
  BY DEF Writers
<1>1. CASE BootScan(t)
  <2>1. hand' \in [Writers -> Hands] /\ HandTenants'
    <3>1. CASE StepHand("boot", CloneArc("boot", t))
      BY <1>0, <3>1, CloneType, HandMoves
    <3>2. CASE UNCHANGED hand
      BY <3>2 DEF TableTypes, HandTenants
    <3> QED
      BY <1>1, <3>1, <3>2 DEF BootScan
  <2> QED
    BY <1>1, <2>1 DEF TableTypes, BootScan, tables
<1>2. CASE SoftDelete(t)
  <2>1. hand' \in [Writers -> Hands] /\ HandTenants'
    BY <1>0, <1>2, FreeType, TenantType, HandMoves DEF SoftDelete
  <2> QED
    BY <1>2, <2>1 DEF TableTypes, SoftDelete
<1>3. CASE EvictPool(t)
  <2>1. hand' \in [Writers -> Hands] /\ HandTenants'
    BY <1>0, <1>3, CloneType, HandMoves DEF EvictPool
  <2> QED
    BY <1>3, <2>1 DEF TableTypes, EvictPool
<1>4. CASE Invalidate(t)
  <2>1. hand[t] \in Hands /\ hand[t].t \in Tenants
    BY <1>0, <1>4, AtWork DEF Invalidate
  <2>2. hand' \in [Writers -> Hands] /\ HandTenants'
    BY <1>0, <1>4, <2>1, PcType, HandMoves DEF Invalidate
  <2> QED
    BY <1>4, <2>2 DEF TableTypes, Invalidate, tables
<1> QED
  BY <1>1, <1>2, <1>3, <1>4

----------------------------------------------------------------------------
(* Every step of a fire is one of the moves above, and none dispatches or  *)
(* spawns a fire a second time.                                            *)
LEMMA FireSteps ==
  ASSUME FInv, NEW k \in Keys, FireStep(k) \/ Unwind(k)
  PROVE  FInv' /\ \A l \in Keys : DispatchedOnce(l)
<1>1. ASSUME NEW p \in Pcs, StepFire(k, p), p # "spawned",
             p = "run" => k \notin ran
      PROVE  \A l \in Keys : DispatchedOnce(l)
  BY <1>1, OneMoves DEF FInv, DispatchedOnce
<1>2. "assert" \in Working /\ "run" \in Working /\ "record" \in Working
      /\ "permit" \in Working /\ "gate" \in Working /\ "gate" \notin Past
      /\ "permit" \in Past /\ "assert" \in Past /\ "run" \in Past
      /\ Working \subseteq Pcs /\ "done" \in Pcs /\ "skip" \in Pcs
      /\ Dispatching \subseteq Working
  BY DEF Working, Past, Pcs, Dispatching
<1>3. CASE Start(k)
  <2>1. CASE StepFire(k, "done") /\ UNCHANGED inFlight
    <3>1. FInv'
      BY <1>3, <2>1, Aside DEF Start
    <3> QED
      BY <1>1, <1>2, <2>1, <3>1
  <2>2. CASE StepFire(k, "skip") /\ Marker(k) \in inFlight
             /\ inFlight' = inFlight \cup {Marker(k)}
    <3>1. inFlight' = inFlight
      BY <2>2
    <3>2. FInv'
      BY <1>3, <2>2, <3>1, Aside DEF Start
    <3> QED
      BY <1>1, <1>2, <2>2, <3>2
  <2>3. CASE StepFire(k, "gate") /\ Marker(k) \notin inFlight
             /\ inFlight' = inFlight \cup {Marker(k)}
    <3>1. FInv'
      BY <1>3, <2>3, Enters DEF Start
    <3> QED
      BY <1>1, <1>2, <2>3, <3>1
  <2> QED
    BY <1>3, <2>1, <2>2, <2>3 DEF Start
<1>4. CASE RecordSkip(k)
  <2>1. FInv'
    BY <1>4, Aside DEF RecordSkip
  <2> QED
    BY <1>1, <1>2, <1>4, <2>1 DEF RecordSkip
<1>5. CASE EnterGate(k)
  <2>1. k \notin ran
    BY <1>5 DEF EnterGate, FInv, RanPast
  <2>2. FInv'
    BY <1>2, <1>5, <2>1, Onward DEF EnterGate, tables
  <2> QED
    BY <1>1, <1>2, <1>5, <2>2 DEF EnterGate
<1>6. CASE TakePermit(k)
  <2>1. k \notin ran
    BY <1>6 DEF TakePermit, FInv, RanPast
  <2>2. FInv'
    BY <1>2, <1>6, <2>1, Onward DEF TakePermit, tables
  <2> QED
    BY <1>1, <1>2, <1>6, <2>2 DEF TakePermit
<1>7. CASE Reassert(k)
  <2>1. k \notin ran
    BY <1>7 DEF Reassert, FInv, RanPast
  <2>2. CASE StepFire(k, "run") /\ ran' = ran \cup {k} /\ UNCHANGED inFlight
    <3>1. FInv'
      BY <1>2, <1>7, <2>2, Onward DEF Reassert, tables
    <3> QED
      BY <1>1, <1>2, <2>1, <2>2, <3>1
  <2>3. CASE Leave(k) /\ UNCHANGED ran
    <3>1. FInv'
      BY <1>2, <1>7, <2>3, Leaves DEF Reassert, tables
    <3> QED
      BY <1>1, <1>2, <2>3, <3>1 DEF Leave
  <2> QED
    BY <1>7, <2>2, <2>3 DEF Reassert
<1>8. CASE Dispatched(k)
  <2>1. FInv'
    BY <1>2, <1>8, Onward DEF Dispatched, tables
  <2> QED
    BY <1>1, <1>2, <1>8, <2>1 DEF Dispatched
<1>9. CASE RecordOutcome(k)
  <2>1. FInv'
    BY <1>2, <1>9, Leaves DEF RecordOutcome
  <2> QED
    BY <1>1, <1>2, <1>9, <2>1 DEF RecordOutcome, Leave
<1>10. CASE Unwind(k)
  <2>1. FInv'
    BY <1>2, <1>10, Leaves DEF Unwind, tables
  <2> QED
    BY <1>1, <1>2, <1>10, <2>1 DEF Unwind, Leave
<1> QED
  BY <1>3, <1>4, <1>5, <1>6, <1>7, <1>8, <1>9, <1>10 DEF FireStep

(* A step that leaves the fires alone dispatches nothing. *)
LEMMA Quiet ==
  ASSUME UNCHANGED fire
  PROVE  \A k \in Keys : DispatchedOnce(k)
  BY DEF DispatchedOnce

LEMMA StepFInv ==
  ASSUME FInv, Next
  PROVE  FInv' /\ \A k \in Keys : DispatchedOnce(k)
<1>0. TableTypes
  BY DEF FInv
<1>1. ASSUME TableTypes', UNCHANGED fireVars
      PROVE  FInv' /\ \A k \in Keys : DispatchedOnce(k)
  BY <1>1, FiresAlone, Quiet DEF fireVars
<1>2. ASSUME NEW w \in Writers,
             Acquire(w) \/ ReadJobs(w) \/ ApplyJobs(w) \/ ReadFails(w)
      PROVE  FInv' /\ \A k \in Keys : DispatchedOnce(k)
  <2>1. UNCHANGED fireVars
    BY <1>2 DEF Acquire, ReadJobs, ApplyJobs, ReadFails
  <2> QED
    BY <1>0, <1>1, <1>2, <2>1, ReloadSteps
<1>3. ASSUME NEW h \in Handlers, Mutate(h) \/ \E t \in Tenants : Begin(h, t)
      PROVE  FInv' /\ \A k \in Keys : DispatchedOnce(k)
  <2>1. UNCHANGED fireVars
    BY <1>3 DEF Mutate, Refuse, CreateJob, UpdateJob, DeleteJob, Begin,
                CreateCronJob, SetCronJobActive, DeleteCronJob
  <2> QED
    BY <1>0, <1>1, <1>3, <2>1, HandlerSteps
<1>4. ASSUME NEW t \in Tenants,
             BootScan(t) \/ SoftDelete(t) \/ EvictPool(t) \/ Invalidate(t)
      PROVE  FInv' /\ \A k \in Keys : DispatchedOnce(k)
  <2>1. UNCHANGED fireVars
    BY <1>4 DEF BootScan, SoftDelete, EvictPool, Invalidate
  <2> QED
    BY <1>0, <1>1, <1>4, <2>1, TenantSteps
<1>5. ASSUME NEW m \in Minutes, Tick(m)
      PROVE  FInv' /\ \A k \in Keys : DispatchedOnce(k)
  BY <1>5, Ticks DEF DispatchedOnce
<1> QED
  BY <1>2, <1>3, <1>4, <1>5, FireSteps DEF Next

LEMMA StutterFInv ==
  ASSUME FInv, UNCHANGED cronVars
  PROVE  FInv'
<1>1. UNCHANGED fireVars /\ UNCHANGED <<jobs, nextId, indexVars>>
  BY DEF cronVars, tables
<1> QED
  BY <1>1, TablesAlone, FiresAlone DEF FInv

(* FInv is an invariant of the scheduler. *)
LEMMA FInvInvariant == Spec => []FInv
<1>1. FInv /\ [Next]_cronVars => FInv'
  BY StepFInv, StutterFInv
<1> QED
  BY <1>1, InitFInv, PTL DEF Spec

(* run_due_job: for any number of tenants, jobs and minutes, two fires of  *)
(* one job never work at the same time and a marker goes with its fire.    *)
THEOREM OverlapExcluded == Spec => []OverlapGate
<1>1. FInv => OverlapGate
  BY MarkersExact DEF FInv
<1> QED
  BY <1>1, FInvInvariant, PTL

(* tenant_gate: a tenant never has two fires that compete for or hold a    *)
(* permit, whatever DRUST_CRON_CONCURRENCY is.                             *)
THEOREM TenantSerialized == Spec => []OnePermitPerTenant
<1>1. FInv => OnePermitPerTenant
  BY DEF FInv
<1> QED
  BY <1>1, FInvInvariant, PTL

(* tick_decision: a job is dispatched at most once for a minute, however   *)
(* the wall clock is stepped.                                              *)
THEOREM DispatchedOnceAMinute == Spec => MinuteOnce
<1>1. FInv /\ [Next]_cronVars => [\A k \in Keys : DispatchedOnce(k)]_cronVars
  BY StepFInv
<1> QED
  BY <1>1, FInvInvariant, PTL DEF Spec, MinuteOnce

----------------------------------------------------------------------------
(* The index of a live tenant.  Its reloads clone one Arc, so one at a     *)
(* time is between the lock and its end; what that one has read is what    *)
(* the table holds, or the handler of the later write waits for the lock.  *)

Reloading(w, t) == hand[w].t = t /\ hand[w].pc \in {"wait", "locked", "read"}
Inside(w, t) == hand[w].t = t /\ hand[w].pc \in {"locked", "read"}
Waiting(w, t) == hand[w].t = t /\ hand[w].pc = "wait"

OneArc(t) == arc[t] = 0 /\ \A w \in Writers : Reloading(w, t) => hand[w].g = 0
OneInside(t) == \A w, v \in Writers : Inside(w, t) /\ Inside(v, t) => w = v
SeenTrue(t) ==
    \A w \in Writers : hand[w].t = t /\ hand[w].pc = "read" =>
        \/ hand[w].seen = jobs[t]
        \/ \E v \in Writers : Waiting(v, t)
FreshAt(t) ==
    t \in booted => \/ t \in blind
                    \/ \E w \in Writers : Reloading(w, t)
                    \/ index[t] = Active(jobs[t])

Live(t) ==
    /\ hand[t].pc = "idle"
    /\ OneArc(t) /\ OneInside(t) /\ SeenTrue(t) /\ FreshAt(t)

(* A soft delete works on its own tenant. *)
OwnHand == \A t \in Tenants : hand[t].pc # "idle" => hand[t].t = t

XInv ==
    /\ TableTypes /\ OwnHand /\ file \subseteq Tenants
    /\ \A t \in file : Live(t)

LEMMA Stepped ==
  ASSUME TableTypes, NEW w \in Writers, NEW h, StepHand(w, h)
  PROVE  hand'[w] = h /\ \A v \in Writers : v # w => hand'[v] = hand[v]
  BY DEF TableTypes, StepHand

(* A step of another tenant's writer. *)
LEMMA OtherTenant ==
  ASSUME TableTypes, NEW t \in Tenants, Live(t), NEW w \in Writers, NEW h, StepHand(w, h),
         w # t, ~ Reloading(w, t), h.t = t => h.pc \notin {"wait", "locked", "read"},
         arc'[t] = arc[t], jobs'[t] = jobs[t], index'[t] = index[t],
         t \in booted' => t \in booted, t \in blind => t \in blind'
  PROVE  Live(t)'
<1>0. t \in Writers
  BY DEF Writers
<1>1. hand'[w] = h /\ \A v \in Writers : v # w => hand'[v] = hand[v]
  BY Stepped
<1>2. \A v \in Writers : Reloading(v, t)' <=> Reloading(v, t)
  BY <1>1 DEF Reloading
<1>3. hand'[t].pc = "idle"
  BY <1>0, <1>1 DEF Live
<1>4. OneArc(t)'
  BY <1>1, <1>2 DEF Live, OneArc, Reloading
<1>5. OneInside(t)'
  BY <1>1 DEF Live, OneInside, Inside, Reloading
<1>6. SeenTrue(t)'
  BY <1>1 DEF Live, SeenTrue, Waiting, Reloading
<1>7. FreshAt(t)'
  <2>1. Active(jobs[t]) = Active(jobs'[t])
    OBVIOUS
  <2> QED
    BY <1>2, <2>1 DEF Live, FreshAt
<1> QED
  BY <1>3, <1>4, <1>5, <1>6, <1>7 DEF Live

(* A step that changes no hand and nothing of the tenant. *)
LEMMA HandsAlone ==
  ASSUME NEW t \in Tenants, Live(t), UNCHANGED <<hand, arc, jobs, index, blind>>,
         t \in booted' => t \in booted
  PROVE  Live(t)'
  BY DEF Live, OneArc, OneInside, SeenTrue, FreshAt, Reloading, Inside, Waiting

LEMMA InitXInv == Init => XInv
<1> SUFFICES ASSUME Init PROVE XInv
  OBVIOUS
<1>1. TableTypes
  BY InitFInv DEF FInv
<1>2. \A w \in Writers : hand[w].pc = "idle"
  BY FreeType DEF Init
<1>3. Tenants \subseteq Writers
  BY DEF Writers
<1>4. OwnHand /\ file \subseteq Tenants
  BY <1>2, <1>3 DEF Init, OwnHand
<1>5. ASSUME NEW t \in Tenants PROVE Live(t)
  <2>1. OneArc(t) /\ OneInside(t) /\ SeenTrue(t)
    BY <1>2 DEF Init, OneArc, OneInside, SeenTrue, Reloading, Inside
  <2>2. FreshAt(t)
    BY DEF Init, FreshAt
  <2> QED
    BY <1>2, <1>3, <2>1, <2>2 DEF Live
<1> QED
  BY <1>1, <1>4, <1>5 DEF XInv

(* The steps of a reload keep the index of its tenant and of the others.   *)
LEMMA ReloadFresh ==
  ASSUME XInv, NEW w \in Writers,
         Acquire(w) \/ ReadJobs(w) \/ ApplyJobs(w) \/ ReadFails(w)
  PROVE  XInv'
<1>1. TableTypes'
  BY ReloadSteps DEF XInv
<1>2. hand[w].t \in Tenants /\ hand[w] \in Hands /\ hand[w].pc # "idle"
  BY AtWork DEF XInv, Acquire, ReadJobs, ApplyJobs, ReadFails
<1>3. PICK h \in Hands : /\ StepHand(w, h)
                         /\ h.pc = "idle" \/ h.t = hand[w].t
  <2>1. CASE Acquire(w)
    BY <1>2, <2>1, PcType DEF Acquire
  <2>2. CASE ReadJobs(w)
    <3>1. jobs[hand[w].t] \in SUBSET JobRows
      BY <1>2 DEF XInv, TableTypes
    <3>2. PICK c : c = [hand[w] EXCEPT !.pc = "read", !.seen = jobs[hand[w].t]]
      OBVIOUS
    <3>3. c \in Hands /\ c.t = hand[w].t
      BY <1>2, <3>1, <3>2 DEF Hands
    <3> QED
      BY <2>2, <3>2, <3>3 DEF ReadJobs
  <2>3. CASE ApplyJobs(w) \/ ReadFails(w)
    BY <2>3, FreeType DEF ApplyJobs, ReadFails
  <2> QED
    BY <2>1, <2>2, <2>3
<1>4. hand'[w] = h /\ \A v \in Writers : v # w => hand'[v] = hand[v]
  BY <1>3, Stepped DEF XInv
<1>5. OwnHand'
  <2>1. \A t \in Tenants : t \in Writers
    BY DEF Writers
  <2> QED
    BY <1>2, <1>3, <1>4, <2>1 DEF XInv, OwnHand
<1>6. UNCHANGED <<file, jobs, arc>>
  BY DEF Acquire, ReadJobs, ApplyJobs, ReadFails, tables
<1>7. ASSUME NEW t \in file, t # hand[w].t PROVE Live(t)'
  <2>1. t \in Tenants /\ Live(t)
    BY DEF XInv
  <2>2. w # t
    BY <1>2, <2>1 DEF Live
  <2>3. index'[t] = index[t] /\ (t \in booted' => t \in booted) /\ (t \in blind => t \in blind')
    BY <1>7, <2>1 DEF Acquire, ReadJobs, ApplyJobs, ReadFails, XInv, TableTypes
  <2>4. ~ Reloading(w, t)
    BY <1>7 DEF Reloading
  <2>5. h.t = t => h.pc \notin {"wait", "locked", "read"}
    BY <1>3, <1>7
  <2> QED
    BY <1>3, <1>6, <2>1, <2>2, <2>3, <2>4, <2>5, OtherTenant DEF XInv
<1>8. ASSUME NEW t \in file, t = hand[w].t PROVE Live(t)'
  <2>1. t \in Tenants /\ Live(t) /\ t \in Writers
    BY DEF XInv, Writers
  <2>2. hand'[t].pc = "idle"
    BY <1>2, <1>4, <2>1 DEF Live
  <2>3. hand[w].g = 0 \/ ~ Reloading(w, t)
    BY <2>1 DEF Live, OneArc
  <2>4. Reloading(w, t)
    BY <1>8 DEF Reloading, Acquire, ReadJobs, ApplyJobs, ReadFails
  <2>5. CASE Acquire(w)
    <3>1. h.pc = "locked" /\ h.t = t /\ h.g = hand[w].g
      BY <1>2, <1>4, <1>8, <2>5, Stepped DEF Acquire, Hands, XInv
    <3>2. \A v \in Writers : ~ Inside(v, t)
      BY <1>8, <2>1, <2>3, <2>4, <2>5 DEF Acquire, LockFree, Holds, Live, OneArc, Reloading, Inside
    <3>3. OneArc(t)'
      BY <1>4, <1>6, <2>1, <2>3, <2>4, <3>1 DEF Live, OneArc, Reloading
    <3>4. OneInside(t)'
      BY <1>4, <3>2 DEF OneInside, Inside
    <3>5. SeenTrue(t)'
      BY <1>4, <3>1, <3>2 DEF SeenTrue, Inside
    <3>6. FreshAt(t)'
      BY <1>4, <3>1 DEF FreshAt, Reloading
    <3> QED
      BY <2>2, <3>3, <3>4, <3>5, <3>6 DEF Live
  <2>6. CASE ReadJobs(w)
    <3>1. h.pc = "read" /\ h.t = t /\ h.g = hand[w].g /\ h.seen = jobs[t]
      <4>1. jobs[t] \in SUBSET JobRows
        BY <2>1 DEF XInv, TableTypes
      <4>2. h = [hand[w] EXCEPT !.pc = "read", !.seen = jobs[t]]
        BY <1>4, <1>8, <2>6, Stepped DEF ReadJobs, XInv
      <4> QED
        BY <1>2, <1>8, <4>1, <4>2 DEF Hands
    <3>2. Inside(w, t)
      BY <1>8, <2>6 DEF Inside, ReadJobs
    <3>3. OneArc(t)'
      BY <1>4, <1>6, <2>1, <2>3, <2>4, <3>1 DEF Live, OneArc, Reloading
    <3>4. OneInside(t)'
      BY <1>4, <2>1, <3>1, <3>2 DEF Live, OneInside, Inside
    <3>5. SeenTrue(t)'
      <4>1. \A v \in Writers : v # w => ~ (hand[v].t = t /\ hand[v].pc = "read")
        BY <2>1, <3>2 DEF Live, OneInside, Inside
      <4> QED
        BY <1>4, <1>6, <3>1, <4>1 DEF SeenTrue
    <3>6. FreshAt(t)'
      BY <1>4, <3>1 DEF FreshAt, Reloading
    <3> QED
      BY <2>2, <3>3, <3>4, <3>5, <3>6 DEF Live
  <2>7. CASE ApplyJobs(w) \/ ReadFails(w)
    <3>1. h.pc = "idle"
      BY <1>4, <2>7, Stepped, FreeType DEF ApplyJobs, ReadFails, XInv
    <3>2. Inside(w, t)
      BY <1>8, <2>7 DEF Inside, ApplyJobs, ReadFails
    <3>3. OneArc(t)'
      BY <1>4, <1>6, <2>1, <3>1 DEF Live, OneArc, Reloading
    <3>4. OneInside(t)'
      BY <1>4, <2>1, <3>1 DEF Live, OneInside, Inside
    <3>5. SeenTrue(t)'
      <4>1. \A v \in Writers : v # w => ~ (hand[v].t = t /\ hand[v].pc = "read")
        BY <2>1, <3>2 DEF Live, OneInside, Inside
      <4> QED
        BY <1>4, <3>1, <4>1 DEF SeenTrue
    <3>6. FreshAt(t)'
      <4>1. CASE ReadFails(w)
        <5>1. t \in blind'
          BY <1>8, <4>1 DEF ReadFails
        <5> QED
          BY <5>1 DEF FreshAt
      <4>2. CASE ApplyJobs(w) /\ hand[w].seen = jobs[t]
        <5>1. index'[t] = Active(jobs'[t])
          BY <1>6, <1>8, <2>1, <4>2 DEF ApplyJobs, XInv, TableTypes
        <5> QED
          BY <5>1 DEF FreshAt
      <4>3. CASE ApplyJobs(w) /\ hand[w].seen # jobs[t]
        <5>1. PICK v \in Writers : Waiting(v, t)
          BY <1>8, <2>1, <4>3 DEF Live, SeenTrue, ApplyJobs
        <5>2. v # w
          BY <3>2, <5>1 DEF Waiting, Inside
        <5>3. Reloading(v, t)'
          BY <1>4, <5>1, <5>2 DEF Waiting, Reloading
        <5> QED
          BY <5>3 DEF FreshAt
      <4> QED
        BY <2>7, <4>1, <4>2, <4>3
    <3> QED
      BY <2>2, <3>3, <3>4, <3>5, <3>6 DEF Live
  <2> QED
    BY <2>5, <2>6, <2>7
<1>9. \A t \in file' : Live(t)'
  <2>1. file' = file
    BY <1>6
  <2> QED
    BY <1>7, <1>8, <2>1
<1>10. file' \subseteq Tenants
  BY <1>6 DEF XInv
<1> QED
  BY <1>1, <1>5, <1>9, <1>10 DEF XInv

(* A committed write leaves its handler waiting for the lock. *)
LEMMA WriteFresh ==
  ASSUME XInv, TableTypes', NEW h \in Handlers, hand[h].pc = "write", Reload(h),
         \A t \in Tenants : t # hand[h].t => jobs'[t] = jobs[t],
         UNCHANGED <<file, index, arc, booted, blind>>
  PROVE  XInv'
<1>0. h \in Writers /\ h \notin Tenants
  BY CronAssumption DEF Writers
<1>1. hand[h].t \in Tenants
  BY <1>0, AtWork DEF XInv
<1>2. PICK c \in Hands : c = CloneArc(h, hand[h].t)
  BY <1>1, CloneType DEF XInv
<1>3. c.pc = "wait" /\ c.t = hand[h].t /\ c.g = arc[hand[h].t]
  BY <1>2 DEF CloneArc
<1>4. StepHand(h, c)
  BY <1>2 DEF Reload
<1>5. hand'[h] = c /\ \A v \in Writers : v # h => hand'[v] = hand[v]
  BY <1>0, <1>4, Stepped DEF XInv
<1>6. OwnHand' /\ file' \subseteq Tenants
  BY <1>0, <1>5 DEF XInv, OwnHand, Writers
<1>7. ASSUME NEW t \in file PROVE Live(t)'
  <2>1. t \in Tenants /\ Live(t) /\ t \in Writers /\ h # t
    BY <1>0 DEF XInv, Writers
  <2>2. ~ Reloading(h, t)
    BY DEF Reloading
  <2>3. CASE t # hand[h].t
    BY <1>0, <1>3, <1>4, <2>1, <2>2, <2>3, OtherTenant DEF XInv
  <2>4. CASE t = hand[h].t
    <3>1. Waiting(h, t)' /\ Reloading(h, t)'
      BY <1>3, <1>5, <2>4 DEF Waiting, Reloading
    <3>2. OneArc(t)'
      BY <1>3, <1>5, <2>1, <2>4 DEF Live, OneArc, Reloading
    <3>3. OneInside(t)'
      BY <1>3, <1>5, <2>1 DEF Live, OneInside, Inside
    <3>4. SeenTrue(t)'
      BY <1>0, <3>1 DEF SeenTrue
    <3>5. FreshAt(t)'
      BY <1>0, <3>1 DEF FreshAt
    <3>6. hand'[t].pc = "idle"
      BY <1>5, <2>1 DEF Live
    <3> QED
      BY <3>2, <3>3, <3>4, <3>5, <3>6 DEF Live
  <2> QED
    BY <2>3, <2>4
<1> QED
  BY <1>6, <1>7 DEF XInv

LEMMA HandlerFresh ==
  ASSUME XInv, NEW h \in Handlers, Mutate(h) \/ \E t \in Tenants : Begin(h, t)
  PROVE  XInv'
<1>0. TableTypes' /\ h \in Writers /\ h \notin Tenants
  BY HandlerSteps, CronAssumption DEF XInv, Writers
<1>1. ASSUME NEW c \in Hands, StepHand(h, c), c.pc \in {"idle", "write"},
             hand[h].pc \in {"idle", "write"},
             UNCHANGED <<jobs, file, index, arc, booted, blind>>
      PROVE  XInv'
  <2>1. hand'[h] = c /\ \A v \in Writers : v # h => hand'[v] = hand[v]
    BY <1>0, <1>1, Stepped DEF XInv
  <2>2. OwnHand' /\ file' \subseteq Tenants
    BY <1>0, <1>1, <2>1 DEF XInv, OwnHand, Writers
  <2>3. ASSUME NEW t \in file PROVE Live(t)'
    <3>1. t \in Tenants /\ Live(t) /\ h # t
      BY <1>0 DEF XInv
    <3>2. ~ Reloading(h, t)
      BY <1>1 DEF Reloading
    <3> QED
      BY <1>0, <1>1, <3>1, <3>2, OtherTenant DEF XInv
  <2>4. \A t \in file' : Live(t)'
    BY <1>1, <2>3
  <2> QED
    BY <1>0, <2>2, <2>4 DEF XInv
<1>2. CASE Refuse(h)
  BY <1>1, <1>2, FreeType DEF Refuse, tables
<1>3. ASSUME NEW t \in Tenants, Begin(h, t) PROVE XInv'
  <2>1. PICK c \in Hands : c = [Free EXCEPT !.pc = "write", !.t = t]
    BY FreeType, TenantType
  <2>2. c.pc = "write"
    BY <2>1 DEF Free
  <2> QED
    BY <1>1, <1>3, <2>1, <2>2 DEF Begin
<1>4. ASSUME NEW n \in Names, NEW s \in Schedules, NEW a \in BOOLEAN,
             CreateJob(h, n, s, a)
      PROVE  XInv'
  BY <1>0, <1>4, WriteFresh DEF CreateJob, XInv, TableTypes
<1>5. ASSUME NEW j \in JobRows, NEW s \in Schedules, NEW a \in BOOLEAN,
             UpdateJob(h, j, s, a)
      PROVE  XInv'
  BY <1>0, <1>5, WriteFresh DEF UpdateJob, XInv, TableTypes
<1>6. ASSUME NEW j \in JobRows, DeleteJob(h, j)
      PROVE  XInv'
  BY <1>0, <1>6, WriteFresh DEF DeleteJob, XInv, TableTypes
<1>7. ASSUME NEW j \in JobRows, NEW a \in BOOLEAN, SetCronJobActive(h, j, a)
      PROVE  XInv'
  <2>1. j.sched \in Schedules
    BY DEF JobRows
  <2> QED
    BY <1>5, <1>7, <2>1 DEF SetCronJobActive
<1> QED
  BY <1>2, <1>3, <1>4, <1>5, <1>6, <1>7 DEF Mutate, CreateCronJob, DeleteCronJob

(* The boot scan and the soft delete. *)
LEMMA TenantFresh ==
  ASSUME XInv, NEW t \in Tenants,
         BootScan(t) \/ SoftDelete(t) \/ EvictPool(t) \/ Invalidate(t)
  PROVE  XInv'
<1>0. TableTypes' /\ t \in Writers /\ "boot" \in Writers /\ "boot" \notin Tenants
  BY TenantSteps, CronAssumption DEF XInv, Writers
<1>1. CASE BootScan(t) /\ t \in file
  <2>1. PICK c \in Hands : c = CloneArc("boot", t)
    BY CloneType DEF XInv
  <2>2. c.pc = "wait" /\ c.t = t /\ c.g = arc[t]
    BY <2>1 DEF CloneArc
  <2>3. StepHand("boot", c) /\ UNCHANGED <<jobs, file, index, arc, booted, blind>>
    BY <1>1, <2>1 DEF BootScan, tables
  <2>4. hand'["boot"] = c /\ \A v \in Writers : v # "boot" => hand'[v] = hand[v]
    BY <1>0, <2>3, Stepped DEF XInv
  <2>5. OwnHand' /\ file' \subseteq Tenants
    BY <1>0, <2>3, <2>4 DEF XInv, OwnHand, Writers
  <2>6. ASSUME NEW u \in file PROVE Live(u)'
    <3>1. u \in Tenants /\ Live(u) /\ u \in Writers /\ "boot" # u
      BY <1>0 DEF XInv, Writers
    <3>2. hand["boot"].pc = "idle" /\ ~ Reloading("boot", u)
      BY <1>1 DEF BootScan, Reloading
    <3>3. CASE u # t
      BY <1>0, <2>2, <2>3, <3>1, <3>2, <3>3, OtherTenant DEF XInv
    <3>4. CASE u = t
      <4>1. Waiting("boot", u)' /\ Reloading("boot", u)'
        BY <2>2, <2>4, <3>4 DEF Waiting, Reloading
      <4>2. OneArc(u)'
        BY <2>2, <2>3, <2>4, <3>1, <3>4 DEF Live, OneArc, Reloading
      <4>3. OneInside(u)'
        BY <2>2, <2>4, <3>1 DEF Live, OneInside, Inside
      <4>4. SeenTrue(u)' /\ FreshAt(u)'
        BY <1>0, <4>1 DEF SeenTrue, FreshAt
      <4>5. hand'[u].pc = "idle"
        BY <2>4, <3>1 DEF Live
      <4> QED
        BY <4>2, <4>3, <4>4, <4>5 DEF Live
    <3> QED
      BY <3>3, <3>4
  <2>7. \A u \in file' : Live(u)'
    BY <2>3, <2>6
  <2> QED
    BY <1>0, <2>5, <2>7 DEF XInv
<1>2. CASE BootScan(t) /\ t \notin file
  <2>1. UNCHANGED <<hand, file, jobs, index, arc, blind>> /\ booted' = booted \cup {t}
    BY <1>2 DEF BootScan, tables
  <2>2. ASSUME NEW u \in file PROVE Live(u)'
    BY <1>2, <2>1, HandsAlone DEF XInv
  <2>3. OwnHand' /\ file' \subseteq Tenants
    BY <2>1 DEF XInv, OwnHand
  <2>4. \A u \in file' : Live(u)'
    BY <2>1, <2>2
  <2> QED
    BY <1>0, <2>3, <2>4 DEF XInv
<1>3. ASSUME NEW c \in Hands, StepHand(t, c), c.t = t, t \notin file', file' \subseteq file,
             hand[t].pc = "idle" \/ hand[t].t = t,
             UNCHANGED <<jobs, booted, blind>>,
             \A u \in Tenants : u # t => index'[u] = index[u] /\ arc'[u] = arc[u]
      PROVE  XInv'
  <2>1. hand'[t] = c /\ \A v \in Writers : v # t => hand'[v] = hand[v]
    BY <1>0, <1>3, Stepped DEF XInv
  <2>2. OwnHand' /\ file' \subseteq Tenants
    BY <1>0, <1>3, <2>1 DEF XInv, OwnHand, Writers
  <2>3. ASSUME NEW u \in file' PROVE Live(u)'
    <3>1. u \in Tenants /\ Live(u) /\ u # t
      BY <1>3 DEF XInv
    <3>2. ~ Reloading(t, u)
      BY <1>3, <3>1 DEF Reloading
    <3> QED
      BY <1>0, <1>3, <3>1, <3>2, OtherTenant DEF XInv
  <2> QED
    BY <1>0, <2>2, <2>3 DEF XInv
<1>4. CASE SoftDelete(t)
  <2>1. PICK c \in Hands : c = [Free EXCEPT !.pc = "moved", !.t = t]
    BY FreeType, TenantType
  <2>2. c.t = t
    BY <2>1 DEF Free
  <2> QED
    BY <1>3, <1>4, <2>1, <2>2 DEF SoftDelete
<1>5. hand[t].pc # "idle" => t \notin file /\ hand[t].t = t
  BY DEF XInv, Live, OwnHand
<1>6. CASE EvictPool(t)
  <2>1. PICK c \in Hands : c = CloneArc(t, t)
    BY CloneType DEF XInv
  <2>2. c.t = t
    BY <2>1 DEF CloneArc
  <2> QED
    BY <1>3, <1>5, <1>6, <2>1, <2>2 DEF EvictPool
<1>7. CASE Invalidate(t)
  <2>1. hand[t] \in Hands /\ hand[t].t = t /\ t \notin file
    BY <1>0, <1>5, <1>7 DEF Invalidate, XInv, TableTypes
  <2>2. PICK c : c = [hand[t] EXCEPT !.pc = "gone"]
    OBVIOUS
  <2>3. c \in Hands /\ c.t = t
    BY <2>1, <2>2 DEF Hands
  <2>4. \A u \in Tenants : u # t => index'[u] = index[u] /\ arc'[u] = arc[u]
    BY <1>7 DEF Invalidate, XInv, TableTypes
  <2> QED
    BY <1>3, <1>7, <2>1, <2>2, <2>3, <2>4 DEF Invalidate, tables
<1> QED
  BY <1>1, <1>2, <1>4, <1>6, <1>7

LEMMA StepXInv ==
  ASSUME XInv, [Next]_cronVars
  PROVE  XInv'
<1>1. ASSUME UNCHANGED <<jobs, nextId, file, indexVars>> PROVE XInv'
  <2>1. TableTypes'
    BY <1>1, TablesAlone DEF XInv
  <2>2. UNCHANGED <<hand, file, jobs, index, arc, booted, blind>>
    BY <1>1 DEF indexVars
  <2>3. \A u \in file' : Live(u)'
    BY <2>2, HandsAlone DEF XInv
  <2>4. OwnHand' /\ file' \subseteq Tenants
    BY <2>2 DEF XInv, OwnHand
  <2> QED
    BY <2>1, <2>3, <2>4 DEF XInv
<1>2. ASSUME NEW m \in Minutes, Tick(m) PROVE XInv'
  BY <1>1, <1>2 DEF Tick, tables
<1>3. ASSUME NEW k \in Keys, FireStep(k) \/ Unwind(k) PROVE XInv'
  BY <1>1, <1>3 DEF FireStep, Start, RecordSkip, EnterGate, TakePermit, Reassert, Dispatched,
                    RecordOutcome, Unwind, tables
<1>4. CASE UNCHANGED cronVars
  BY <1>1, <1>4 DEF cronVars, tables
<1> QED
  BY <1>2, <1>3, <1>4, ReloadFresh, HandlerFresh, TenantFresh DEF Next

(* CronIndex: for any number of handlers, writes and reloads in flight, a  *)
(* boot scan and soft deletes among them, the index of a live tenant holds *)
(* its active jobs unless a reload is under way or its last read failed.   *)
THEOREM IndexIsFresh == Spec => []IndexFresh
<1>1. XInv => IndexFresh
  BY DEF XInv, Live, FreshAt, IndexFresh, Reloading
<1> QED
  BY <1>1, InitXInv, StepXInv, PTL DEF Spec

----------------------------------------------------------------------------
(* The runs of deleted jobs.                                               *)

HasJob(t, i) == \E j \in jobs[t] : j.id = i

RunSeqs == Seq(Minutes \X {"skipped_overlap", "ended"})
RunTable == runs \in [Tenants -> [Ids -> RunSeqs]]
RInv == RunTable /\ NoOrphanRuns

(* A step that keeps the runs and loses no job id orphans nothing. *)
LEMMA IdsKept ==
  ASSUME RInv, UNCHANGED runs,
         \A t \in Tenants, i \in Ids : HasJob(t, i) => HasJob(t, i)'
  PROVE  RInv'
  BY DEF RInv, RunTable, NoOrphanRuns, HasJob

(* The newest rows of a history are a history. *)
LEMMA NewestOf ==
  ASSUME NEW R, NEW s \in Seq(R), NEW x \in R, NEW m \in Nat \ {0}
  PROVE  LET rs == Append(s, x)
             n == Len(rs)
         IN  (IF n <= m THEN rs ELSE SubSeq(rs, n - m + 1, n)) \in Seq(R)
<1> DEFINE rs == Append(s, x)
           n == Len(rs)
<1>1. rs \in Seq(R) /\ n \in Nat
  OBVIOUS
<1> HIDE DEF rs
<1>2. ~ n <= m => n - m + 1 \in 1 .. n
  BY <1>1
<1>3. ~ n <= m => SubSeq(rs, n - m + 1, n) \in Seq(R)
  BY <1>1, <1>2
<1> QED
  BY <1>1, <1>3 DEF rs

(* record_run writes under a job that is there. *)
LEMMA RecordKeeps ==
  ASSUME RInv, NEW k \in Keys, NEW x \in Minutes \X {"skipped_overlap", "ended"},
         RecordRun(k[1], k[2], x), UNCHANGED jobs
  PROVE  RInv'
<1>0. k[1] \in Tenants /\ k[2] \in Ids
  BY DEF Keys
<1>1. CASE HasJob(k[1], k[2])
  <2> DEFINE old == runs[k[1]][k[2]]
             rs == Append(old, x)
             n == Len(rs)
             new == IF n <= RunsKept THEN rs ELSE SubSeq(rs, n - RunsKept + 1, n)
  <2>1. old \in RunSeqs
    BY <1>0 DEF RInv, RunTable
  <2>2. new \in RunSeqs
    BY <2>1, NewestOf, CronAssumption DEF RunSeqs
  <2>3. runs' = [runs EXCEPT ![k[1]] = [runs[k[1]] EXCEPT ![k[2]] = new]]
    BY <1>1 DEF RecordRun, HasJob
  <2> HIDE DEF new
  <2>4. RunTable'
    BY <1>0, <2>2, <2>3 DEF RInv, RunTable
  <2>5. NoOrphanRuns'
    <3> SUFFICES ASSUME NEW t \in Tenants, NEW i \in Ids, runs'[t][i] # << >>
                 PROVE  HasJob(t, i)
      BY DEF NoOrphanRuns, HasJob
    <3>1. CASE t = k[1] /\ i = k[2]
      BY <1>1, <3>1
    <3>2. CASE t # k[1] \/ i # k[2]
      <4>1. runs'[t][i] = runs[t][i]
        BY <1>0, <2>3, <3>2 DEF RInv, RunTable
      <4> QED
        BY <4>1 DEF RInv, NoOrphanRuns, HasJob
    <3> QED
      BY <3>1, <3>2
  <2> QED
    BY <2>4, <2>5 DEF RInv
<1>2. CASE ~ HasJob(k[1], k[2])
  <2>1. UNCHANGED runs
    BY <1>2 DEF RecordRun, HasJob
  <2> QED
    BY <2>1, IdsKept DEF HasJob
<1> QED
  BY <1>1, <1>2

(* create, update and delete in their writer closures. *)
LEMMA MutateKeeps ==
  ASSUME TableTypes, RInv, NEW h \in Handlers, Mutate(h)
  PROVE  RInv'
<1>0. h \in Writers
  BY DEF Writers
<1>1. CASE Refuse(h)
  BY <1>1, IdsKept DEF Refuse, tables, HasJob
<1>2. ASSUME hand[h].pc = "write" PROVE hand[h].t \in Tenants
  BY <1>0, <1>2, AtWork
<1>3. ASSUME NEW n \in Names, NEW s \in Schedules, NEW a \in BOOLEAN,
             CreateJob(h, n, s, a)
      PROVE  RInv'
  <2>1. hand[h].t \in Tenants /\ UNCHANGED runs
    BY <1>2, <1>3 DEF CreateJob
  <2>2. \A t \in Tenants : jobs[t] \subseteq jobs'[t]
    BY <1>3, <2>1 DEF CreateJob, TableTypes
  <2> QED
    BY <2>1, <2>2, IdsKept DEF HasJob
<1>4. ASSUME NEW j \in JobRows, NEW s \in Schedules, NEW a \in BOOLEAN,
             UpdateJob(h, j, s, a)
      PROVE  RInv'
  <2> DEFINE u == [j EXCEPT !.sched = s, !.active = a]
  <2>1. hand[h].t \in Tenants /\ UNCHANGED runs
    BY <1>2, <1>4 DEF UpdateJob
  <2>2. u.id = j.id
    BY DEF JobRows
  <2>3. jobs' = [jobs EXCEPT ![hand[h].t] = (@ \ {j}) \cup {u}]
    BY <1>4 DEF UpdateJob
  <2> HIDE DEF u
  <2>4. \A t \in Tenants : \A x \in jobs[t] : x \in jobs'[t] \/ (x = j /\ u \in jobs'[t])
    BY <2>1, <2>3 DEF TableTypes
  <2> QED
    BY <2>1, <2>2, <2>4, IdsKept DEF HasJob
<1>5. ASSUME NEW j \in JobRows, DeleteJob(h, j)
      PROVE  RInv'
  <2> DEFINE o == hand[h].t
  <2>1. /\ o \in Tenants
        /\ jobs' = [jobs EXCEPT ![o] = @ \ {j}]
        /\ runs' = [runs EXCEPT ![o] = [runs[o] EXCEPT ![j.id] = << >>]]
    BY <1>2, <1>5 DEF DeleteJob
  <2> HIDE DEF o
  <2>2. \A t \in Tenants : \A x \in jobs[t] : x \in jobs'[t] \/ (t = o /\ x = j)
    BY <2>1 DEF TableTypes
  <2>3. << >> \in RunSeqs /\ j.id \in Ids
    BY DEF RunSeqs, JobRows
  <2>4. RunTable'
    BY <2>1, <2>3 DEF RInv, RunTable
  <2>5. NoOrphanRuns'
    <3> SUFFICES ASSUME NEW t \in Tenants, NEW i \in Ids, runs'[t][i] # << >>
                 PROVE  \E x \in jobs'[t] : x.id = i
      BY DEF NoOrphanRuns
    <3>1. runs[t][i] # << >> /\ (t = o => i # j.id)
      BY <2>1, <2>3 DEF RInv, RunTable
    <3>2. PICK x \in jobs[t] : x.id = i
      BY <3>1 DEF RInv, NoOrphanRuns
    <3> QED
      BY <2>2, <3>1, <3>2
  <2> QED
    BY <2>4, <2>5 DEF RInv
<1>6. ASSUME NEW j \in JobRows, NEW a \in BOOLEAN, SetCronJobActive(h, j, a)
      PROVE  RInv'
  <2>1. j.sched \in Schedules
    BY DEF JobRows
  <2> QED
    BY <1>4, <1>6, <2>1 DEF SetCronJobActive
<1> QED
  BY <1>1, <1>3, <1>4, <1>5, <1>6 DEF Mutate, CreateCronJob, DeleteCronJob

(* record_run and delete_job: a run row always belongs to a job that       *)
(* exists, although fires end whenever they do and jobs are changed and    *)
(* deleted under them.                                                     *)
THEOREM RunsHaveJobs == Spec => []NoOrphanRuns
<1>1. Init => RInv
  <2>1. << >> \in RunSeqs
    BY DEF RunSeqs
  <2> QED
    BY <2>1 DEF Init, RInv, RunTable, NoOrphanRuns
<1>2. FInv /\ RInv /\ [Next]_cronVars => RInv'
  <2> SUFFICES ASSUME FInv, RInv, [Next]_cronVars PROVE RInv'
    OBVIOUS
  <2>0. TableTypes
    BY DEF FInv
  <2>1. ASSUME UNCHANGED <<jobs, runs>> PROVE RInv'
    BY <2>1 DEF RInv, RunTable, NoOrphanRuns
  <2>2. CASE UNCHANGED cronVars
    BY <2>1, <2>2 DEF cronVars, tables
  <2>3. ASSUME NEW w \in Writers,
               Acquire(w) \/ ReadJobs(w) \/ ApplyJobs(w) \/ ReadFails(w)
        PROVE  RInv'
    BY <2>1, <2>3 DEF Acquire, ReadJobs, ApplyJobs, ReadFails, tables
  <2>4. ASSUME NEW h \in Handlers, \E t \in Tenants : Begin(h, t)
        PROVE  RInv'
    BY <2>1, <2>4 DEF Begin
  <2>5. ASSUME NEW t \in Tenants,
               BootScan(t) \/ SoftDelete(t) \/ EvictPool(t) \/ Invalidate(t)
        PROVE  RInv'
    BY <2>1, <2>5 DEF BootScan, SoftDelete, EvictPool, Invalidate, tables
  <2>6. ASSUME NEW m \in Minutes, Tick(m) PROVE RInv'
    BY <2>1, <2>6 DEF Tick, tables
  <2>7. ASSUME NEW k \in Keys, RecordSkip(k) \/ RecordOutcome(k) PROVE RInv'
    <3>1. /\ <<k[3], "skipped_overlap">> \in Minutes \X {"skipped_overlap", "ended"}
          /\ <<k[3], "ended">> \in Minutes \X {"skipped_overlap", "ended"}
      BY DEF Keys
    <3> QED
      BY <2>7, <3>1, RecordKeeps DEF RecordSkip, RecordOutcome
  <2>8. ASSUME NEW k \in Keys,
               Start(k) \/ EnterGate(k) \/ TakePermit(k) \/ Reassert(k) \/ Dispatched(k)
               \/ Unwind(k)
        PROVE  RInv'
    BY <2>1, <2>8 DEF Start, EnterGate, TakePermit, Reassert, Dispatched, Unwind, tables
  <2> QED
    BY <2>0, <2>2, <2>3, <2>4, <2>5, <2>6, <2>7, <2>8, MutateKeeps DEF Next, FireStep
<1>3. RInv => NoOrphanRuns
  BY DEF RInv
<1> QED
  BY <1>1, <1>2, <1>3, FInvInvariant, PTL DEF Spec

----------------------------------------------------------------------------
(* SqlRunner.  What is installed on the writer is known from the job of    *)
(* its holder, and the savepoint is open for as long as no statement of    *)
(* the body has failed.                                                    *)

ConnRows == [auth : {"open", "strict", "writable"}, hook : BOOLEAN, clock : BOOLEAN, save : BOOLEAN]
Counts == [calls : Nat, owed : Nat, hits : Nat]

(* A job as its steps leave it: what it fetched, or the body it is in. *)
JobShape(j) ==
    /\ j.pc \in {"idle", "preview", "target", "read", "write", "test", "body", "release"}
    /\ j.pc \in {"read", "write", "test"} =>
          j.dry \in BOOLEAN /\ j = [pc |-> j.pc, from |-> j.from, dry |-> j.dry, body |-> j.body]
    /\ j.pc = "body" =>
          /\ j.err \in BOOLEAN
          /\ j = [pc |-> "body", from |-> j.from, dry |-> j.dry, body |-> j.body, i |-> j.i, err |-> j.err]
Writing(j) == j.pc \in {"body", "release"}

SqlShape ==
    /\ conn \in [Conns -> ConnRows]
    /\ holder \in SqlTasks \cup {Nobody}
    /\ job = [t \in SqlTasks |-> job[t]] /\ \A t \in SqlTasks : JobShape(job[t])
    /\ rpc \in Bodies \cup {NoBody}
    /\ acked \in Nat /\ tally \in Counts

(* The one task in the writer's closure is the holder. *)
HolderWrites == \A t \in SqlTasks : Writing(job[t]) <=> holder = t

WriterKnown ==
    /\ holder = Nobody => conn[Writer] = Bare
    /\ \A t \in SqlTasks : job[t].pc = "release" => conn[Writer] = Bare
    /\ \A t \in SqlTasks : job[t].pc = "body" => ~conn[Writer].clock /\ (~job[t].err => conn[Writer].save)

ReadersKnown == \A c \in Readers : conn[c] \in {Bare, AttachReadonly(Bare)}

(* Inside a savepoint as outside, the search index follows the rows. *)
DataTrue ==
    /\ disk = [rows |-> acked, index |-> acked]
    /\ work.rows \in Nat /\ work = [rows |-> work.rows, index |-> work.rows]
Counted == rpc # NoBody => tally.calls + tally.owed >= tally.hits

SqlInv == SqlShape /\ HolderWrites /\ WriterKnown /\ ReadersKnown /\ DataTrue /\ Counted

(* A connection by what is installed on it. *)
Conn(a, h, k, v) == [auth |-> a, hook |-> h, clock |-> k, save |-> v]

Off == FALSE
Up == TRUE

LEMMA ConnParts ==
    ASSUME NEW a, NEW h, NEW k, NEW v
    PROVE  /\ AttachReadonly(Conn(a, h, k, v)) = Conn("strict", h, k, v)
           /\ AttachSearchReadonly(Conn(a, h, k, v)) = Conn("search", h, k, v)
           /\ DetachAuthorizer(Conn(a, h, k, v)) = Conn("open", h, k, v)
           /\ ArmDeadline(Conn(a, h, k, v)) = Conn(a, h, Up, v)
           /\ DropDeadline(Conn(a, h, k, v)) = Conn(a, h, Off, v)
  <1>1. AttachReadonly(Conn(a, h, k, v)) = Conn("strict", h, k, v)
    BY DEF Conn, AttachReadonly
  <1>2. AttachSearchReadonly(Conn(a, h, k, v)) = Conn("search", h, k, v)
    BY DEF Conn, AttachSearchReadonly
  <1>3. DetachAuthorizer(Conn(a, h, k, v)) = Conn("open", h, k, v)
    BY DEF Conn, DetachAuthorizer
  <1>4. ArmDeadline(Conn(a, h, k, v)) = Conn(a, h, Up, v)
    <2>1. PICK x : x = TRUE
      OBVIOUS
    <2>2. [Conn(a, h, k, v) EXCEPT !.clock = x] = Conn(a, h, x, v)
      BY DEF Conn
    <2> QED BY <2>1, <2>2, Zenon DEF ArmDeadline, Up
  <1>5. DropDeadline(Conn(a, h, k, v)) = Conn(a, h, Off, v)
    <2>1. PICK x : x = FALSE
      OBVIOUS
    <2>2. [Conn(a, h, k, v) EXCEPT !.clock = x] = Conn(a, h, x, v)
      BY DEF Conn
    <2> QED BY <2>1, <2>2, Zenon DEF DropDeadline, Off
  <1> QED BY <1>1, <1>2, <1>3, <1>4, <1>5

LEMMA ConnFields ==
    ASSUME NEW a, NEW h, NEW k, NEW v
    PROVE  /\ Conn(a, h, k, v).auth = a /\ Conn(a, h, k, v).hook = h
           /\ Conn(a, h, k, v).clock = k /\ Conn(a, h, k, v).save = v
  BY DEF Conn

LEMMA ConnTyped ==
    /\ \A a \in {"open", "strict", "writable"}, h, k, v \in BOOLEAN : Conn(a, h, k, v) \in ConnRows
    /\ \A r \in ConnRows : /\ r = Conn(r.auth, r.hook, r.clock, r.save)
                           /\ r.auth \in {"open", "strict", "writable"}
                           /\ r.hook \in BOOLEAN /\ r.clock \in BOOLEAN /\ r.save \in BOOLEAN
  BY DEF Conn, ConnRows

LEMMA BareRows == /\ Bare = Conn("open", Off, Off, Off)
                  /\ AttachReadonly(Bare) = Conn("strict", Off, Off, Off)
                  /\ Bare \in ConnRows /\ AttachReadonly(Bare) \in ConnRows
  <1>1. Bare = Conn("open", Off, Off, Off)
    BY DEF Bare, Conn, Off
  <1>2. AttachReadonly(Bare) = Conn("strict", Off, Off, Off)
    BY <1>1, ConnParts
  <1>3. Off \in BOOLEAN
    BY DEF Off
  <1> QED BY <1>1, <1>2, <1>3, ConnTyped

(* Each of the read paths hands its reader back bare or, too large to run, *)
(* as it took it.                                                          *)
LEMMA ReadsHandBack ==
    ASSUME NEW c, conn[c] \in {Bare, AttachReadonly(Bare)}, NEW s
    PROVE  /\ \A large : ReadQuery(c, s, large).on \in {Bare, AttachReadonly(Bare)}
           /\ ListQueryRun(c, s).on = Bare
           /\ DetachAuthorizer(AttachReadonly(conn[c])) = Bare
  <1> PICK a \in {"open", "strict"} : conn[c] = Conn(a, Off, Off, Off)
    BY BareRows
  <1>1. DetachAuthorizer(DropDeadline(ArmDeadline(AttachReadonly(conn[c])))) = Bare
    BY ConnParts, BareRows
  <1>2. DropDeadline(DetachAuthorizer(AttachSearchReadonly(ArmDeadline(conn[c])))) = Bare
    BY ConnParts, BareRows
  <1>3. DetachAuthorizer(AttachReadonly(conn[c])) = Bare
    BY ConnParts, BareRows
  <1>4. ListQueryRun(c, s).on = Bare
    BY <1>2 DEF ListQueryRun
  <1>5. ASSUME NEW large PROVE ReadQuery(c, s, large).on \in {Bare, AttachReadonly(Bare)}
    BY <1>1 DEF ReadQuery
  <1> QED BY <1>3, <1>4, <1>5

(* A step that leaves the writer alone keeps the invariant. *)
LEMMA WriterAlone ==
    ASSUME SqlInv, SqlAssumption, conn' = [c \in Conns |-> conn'[c]], conn'[Writer] = conn[Writer],
           \A c \in Readers : conn'[c] \in {Bare, AttachReadonly(Bare)},
           holder' = holder, rpc' = rpc, disk' = disk, work' = work, acked' = acked,
           job' = [t \in SqlTasks |-> job'[t]],
           \A t \in SqlTasks : \/ job'[t] = job[t]
                               \/ ~Writing(job[t]) /\ ~Writing(job'[t]) /\ JobShape(job'[t]),
           tally' \in Counts, Counted'
    PROVE  SqlInv'
  <1>1. conn' \in [Conns -> ConnRows]
    <2>1. \A c \in Conns : conn'[c] \in ConnRows
      BY BareRows DEF SqlInv, SqlShape, Conns
    <2> QED BY <2>1
  <1>2. SqlShape'
    BY <1>1 DEF SqlInv, SqlShape
  <1>3. HolderWrites'
    BY DEF SqlInv, HolderWrites, Writing
  <1>4. WriterKnown'
    <2>1. \A t \in SqlTasks : Writing(job'[t]) => job'[t] = job[t]
      OBVIOUS
    <2> QED BY <2>1 DEF SqlInv, WriterKnown, Writing
  <1>5. ReadersKnown' /\ DataTrue'
    BY DEF SqlInv, ReadersKnown, DataTrue
  <1> QED BY <1>2, <1>3, <1>4, <1>5 DEF SqlInv

(* The same with the readers and the jobs that a step may touch. *)
LEMMA ReaderUse ==
    ASSUME SqlInv, SqlAssumption,
           \/ conn' = conn
           \/ \E c \in Readers, r \in {Bare, AttachReadonly(Bare)} : conn' = [conn EXCEPT ![c] = r],
           \/ job' = job
           \/ \E t \in SqlTasks : \E j : /\ job' = [job EXCEPT ![t] = j] /\ JobShape(j)
                                         /\ ~Writing(job[t]) /\ ~Writing(j),
           holder' = holder, rpc' = rpc, disk' = disk, work' = work, acked' = acked,
           tally' \in Counts, Counted'
    PROVE  SqlInv'
  <1>1. conn \in [Conns -> ConnRows] /\ ReadersKnown /\ Writer \in Conns /\ Writer \notin Readers
    BY DEF SqlInv, SqlShape, Conns, Writer, SqlAssumption
  <1>2. /\ conn' = [c \in Conns |-> conn'[c]] /\ conn'[Writer] = conn[Writer]
        /\ \A c \in Readers : conn'[c] \in {Bare, AttachReadonly(Bare)}
    <2>1. CASE conn' = conn
      BY <1>1, <2>1 DEF ReadersKnown
    <2>2. ASSUME NEW c \in Readers, NEW r \in {Bare, AttachReadonly(Bare)}, conn' = [conn EXCEPT ![c] = r]
          PROVE  <1>2
      <3>1. c \in Conns
        BY DEF Conns
      <3>2. \A d \in Readers : d \in Conns
        BY DEF Conns
      <3> QED BY <1>1, <2>2, <3>1, <3>2 DEF ReadersKnown
    <2> QED BY <2>1, <2>2
  <1>3. /\ job' = [t \in SqlTasks |-> job'[t]]
        /\ \A t \in SqlTasks : \/ job'[t] = job[t]
                               \/ ~Writing(job[t]) /\ ~Writing(job'[t]) /\ JobShape(job'[t])
    <2>0. job = [t \in SqlTasks |-> job[t]]
      BY DEF SqlInv, SqlShape
    <2>1. CASE job' = job
      BY <2>0, <2>1
    <2>2. ASSUME NEW t \in SqlTasks, NEW j, job' = [job EXCEPT ![t] = j], JobShape(j),
                 ~Writing(job[t]), ~Writing(j)
          PROVE  <1>3
      <3>1. job'[t] = j /\ \A u \in SqlTasks : u # t => job'[u] = job[u]
        BY <2>0, <2>2
      <3>2. job' = [u \in SqlTasks |-> job'[u]]
        BY <2>0, <2>2
      <3> QED BY <2>2, <3>1, <3>2
    <2> QED BY <2>1, <2>2
  <1> QED BY <1>2, <1>3, WriterAlone

(* The jobs that the reading and fetching steps leave. *)
LEMMA PlainJobs ==
    /\ JobShape(Idle) /\ ~Writing(Idle)
    /\ \A pc \in {"preview", "target"} : JobShape([pc |-> pc]) /\ ~Writing([pc |-> pc])
    /\ JobShape([pc |-> "release"])
    /\ \A pc \in {"read", "write", "test"}, dry \in BOOLEAN : \A from, body, j :
          j = [pc |-> pc, from |-> from, dry |-> dry, body |-> body]
             => JobShape(j) /\ ~Writing(j) /\ j.pc = pc /\ j.dry = dry
    /\ \A err \in BOOLEAN : \A from, body, dry, i, j :
          j = [pc |-> "body", from |-> from, dry |-> dry, body |-> body, i |-> i, err |-> err]
             => JobShape(j) /\ j.pc = "body" /\ j.err = err
  <1>1. JobShape(Idle) /\ ~Writing(Idle)
    BY DEF JobShape, Writing, Idle
  <1>2. \A pc \in {"preview", "target"} : JobShape([pc |-> pc]) /\ ~Writing([pc |-> pc])
    BY DEF JobShape, Writing
  <1>3. JobShape([pc |-> "release"])
    BY DEF JobShape
  <1>4. ASSUME NEW pc \in {"read", "write", "test"}, NEW from, NEW body, NEW dry \in BOOLEAN,
               NEW j, j = [pc |-> pc, from |-> from, dry |-> dry, body |-> body]
        PROVE  JobShape(j) /\ ~Writing(j) /\ j.pc = pc /\ j.dry = dry
    <2>1. j.pc = pc /\ j.from = from /\ j.dry = dry /\ j.body = body
      BY <1>4
    <2>2. j = [pc |-> j.pc, from |-> j.from, dry |-> j.dry, body |-> j.body]
      BY <1>4
    <2> QED BY <2>1, <2>2 DEF JobShape, Writing
  <1>5. ASSUME NEW from, NEW body, NEW dry, NEW i, NEW err \in BOOLEAN, NEW j,
               j = [pc |-> "body", from |-> from, dry |-> dry, body |-> body, i |-> i, err |-> err]
        PROVE  JobShape(j) /\ j.pc = "body" /\ j.err = err
    <2>1. j.pc = "body" /\ j.err = err
      BY <1>5
    <2>2. j = [pc |-> "body", from |-> j.from, dry |-> j.dry, body |-> j.body, i |-> j.i, err |-> j.err]
      BY <1>5
    <2> QED BY <2>1, <2>2 DEF JobShape
  <1> QED BY <1>1, <1>2, <1>3, <1>4, <1>5

(* Every answer that is told as a success owes one increment. *)
LEMMA AnswersCount ==
    ASSUME SqlInv, NEW from, NEW ok, OutcomeToResponse(from, ok), rpc' = rpc
    PROVE  tally' \in Counts /\ Counted'
  <1>1. tally \in Counts /\ Counted
    BY DEF SqlInv, SqlShape
  <1>2. CASE tally' = tally
    BY <1>1, <1>2 DEF Counted
  <1>3. CASE tally' = [tally EXCEPT !.owed = @ + 1, !.hits = @ + 1]
    <2>1. /\ tally.calls \in Nat /\ tally.owed \in Nat /\ tally.hits \in Nat
          /\ tally = [calls |-> tally.calls, owed |-> tally.owed, hits |-> tally.hits]
      BY <1>1 DEF Counts
    <2>2. tally' = [calls |-> tally.calls, owed |-> tally.owed + 1, hits |-> tally.hits + 1]
      BY <1>3, <2>1
    <2>3. tally'.calls = tally.calls /\ tally'.owed = tally.owed + 1 /\ tally'.hits = tally.hits + 1
      BY <2>2
    <2>4. tally' \in Counts
      BY <2>1, <2>2 DEF Counts
    <2>5. Counted'
      BY <1>1, <2>1, <2>3 DEF Counted
    <2> QED BY <2>4, <2>5
  <1> QED BY <1>2, <1>3 DEF OutcomeToResponse

LEMMA Untold == SqlInv /\ tally' = tally /\ rpc' = rpc => tally' \in Counts /\ Counted'
  BY DEF SqlInv, SqlShape, Counted

(* The paths on a reader alone. *)
LEMMA ReadsKeep ==
    ASSUME SqlInv, SqlAssumption, NEW c \in Readers, NEW s, NEW isProtected \in BOOLEAN,
           \/ QueryHandler(c, s) \/ ExplainSelect(c, s) \/ ListRun(c, s) \/ AdminList(c, isProtected)
    PROVE  SqlInv'
  <1>1. conn[c] \in {Bare, AttachReadonly(Bare)}
    BY DEF SqlInv, ReadersKnown
  <1>2. UNCHANGED <<holder, job, coll, disk, work, rpc, acked, tally>>
    BY DEF QueryHandler, ExplainSelect, ListRun, AdminList
  <1>r. /\ \A large : ReadQuery(c, s, large).on \in {Bare, AttachReadonly(Bare)}
        /\ ListQueryRun(c, s).on = Bare
        /\ DetachAuthorizer(AttachReadonly(conn[c])) = Bare
    BY <1>1, ReadsHandBack
  <1>3. \/ conn' = conn
        \/ \E d \in Readers, r \in {Bare, AttachReadonly(Bare)} : conn' = [conn EXCEPT ![d] = r]
    <2>1. CASE QueryHandler(c, s)
      BY <1>1, <1>r, <2>1 DEF QueryHandler
    <2>2. CASE ExplainSelect(c, s)
      BY <1>1, <1>r, <2>2 DEF ExplainSelect
    <2>3. CASE ListRun(c, s)
      BY <1>1, <1>r, <2>3 DEF ListRun
    <2>4. CASE AdminList(c, isProtected)
      BY <1>1, <1>r, <2>4 DEF AdminList
    <2> QED BY <2>1, <2>2, <2>3, <2>4
  <1>4. tally' \in Counts /\ Counted'
    BY <1>2, Untold
  <1> QED BY <1>2, <1>3, <1>4, ReaderUse

(* The preview of a delete leaves its reader strict at the worst. *)
LEMMA PreviewsKeep ==
    ASSUME SqlInv, SqlAssumption, NEW t \in SqlTasks, NEW c \in Readers,
           DeletePreview(t, c) \/ PreviewTarget(t, c) \/ DeleteBlastRadius(t, c)
    PROVE  SqlInv'
  <1>1. conn[c] \in {Bare, AttachReadonly(Bare)}
    BY DEF SqlInv, ReadersKnown
  <1>2. AttachReadonly(conn[c]) = AttachReadonly(Bare)
    BY <1>1, ConnParts, BareRows
  <1>3. DetachAuthorizer(AttachReadonly(conn[c])) = Bare
    BY <1>2, ConnParts, BareRows
  <1>4. UNCHANGED <<holder, coll, disk, work, rpc, acked, tally>>
    BY DEF DeletePreview, PreviewTarget, DeleteBlastRadius
  <1>5. tally' \in Counts /\ Counted'
    BY <1>4, Untold
  <1>6. CASE DeletePreview(t, c)
    <2>1. conn' = conn /\ job' = [job EXCEPT ![t] = [pc |-> "preview"]] /\ ~Writing(job[t])
      BY <1>6 DEF DeletePreview, Writing
    <2> QED BY <1>4, <1>5, <2>1, PlainJobs, ReaderUse
  <1>7. CASE PreviewTarget(t, c)
    <2>1. PICK j \in {[pc |-> "target"], Idle} : job' = [job EXCEPT ![t] = j]
      BY <1>7 DEF PreviewTarget
    <2>2. ~Writing(job[t])
      BY <1>7 DEF PreviewTarget, Writing
    <2>3. PICK r \in {Bare, AttachReadonly(Bare)} : conn' = [conn EXCEPT ![c] = r]
      BY <1>2, <1>3, <1>7 DEF PreviewTarget
    <2>4. JobShape(j) /\ ~Writing(j)
      BY PlainJobs
    <2> QED BY <1>4, <1>5, <2>1, <2>2, <2>3, <2>4, ReaderUse
  <1>8. CASE DeleteBlastRadius(t, c)
    <2>1. conn' = conn /\ job' = [job EXCEPT ![t] = Idle] /\ ~Writing(job[t])
      BY <1>8 DEF DeleteBlastRadius, Writing
    <2> QED BY <1>4, <1>5, <2>1, PlainJobs, ReaderUse
  <1> QED BY <1>6, <1>7, <1>8

(* The steps that fetch a stored RPC and run one that reads. *)
LEMMA CallsKeep ==
    ASSUME SqlInv, SqlAssumption, NEW t \in SqlTasks, NEW c, NEW flag \in BOOLEAN,
           \/ CallRpc(t, c, flag) \/ McpCallRpc(t, c) \/ DispatchRpc(t, c)
           \/ RunRead(t, c) \/ RpcTestRun(t, flag) \/ RpcTestWrite(t)
    PROVE  SqlInv'
  <1>0. rpc # NoBody => rpc.mode \in {"read", "write"}
    BY DEF SqlInv, SqlShape, SqlAssumption
  <1>1. ASSUME NEW pc \in {"read", "write", "test"}, NEW from, NEW dry \in BOOLEAN,
               job[t].pc = "idle", job' \in {[job EXCEPT ![t] = Fetched(pc, from, dry)], [job EXCEPT ![t] = Idle]},
               UNCHANGED <<conn, holder, coll, disk, work, rpc, acked, tally>>
        PROVE  SqlInv'
    <2>1. PICK j \in {Fetched(pc, from, dry), Idle} : job' = [job EXCEPT ![t] = j]
      BY <1>1
    <2>2. JobShape(j) /\ ~Writing(j)
      BY PlainJobs DEF Fetched
    <2>3. ~Writing(job[t])
      BY <1>1 DEF Writing
    <2>4. tally' \in Counts /\ Counted'
      BY <1>1, Untold
    <2> QED BY <1>1, <2>1, <2>2, <2>3, <2>4, ReaderUse
  <1>2. ASSUME NEW pc \in {"read", "write"}, NEW from, NEW dry \in BOOLEAN, Lookup(t, c, Fetched(pc, from, dry))
        PROVE  SqlInv'
    BY <1>1, <1>2 DEF Lookup
  <1>3. CASE CallRpc(t, c, flag)
    <2>1. (flag /\ rpc.mode = "write") \in BOOLEAN /\ rpc # NoBody
      BY <1>3 DEF CallRpc, Lookup
    <2> QED BY <1>0, <1>2, <1>3, <2>1 DEF CallRpc
  <1>4. CASE McpCallRpc(t, c)
    BY <1>2, <1>4 DEF McpCallRpc
  <1>5. CASE DispatchRpc(t, c)
    <2>1. rpc # NoBody
      BY <1>5 DEF DispatchRpc, Lookup
    <2> QED BY <1>0, <1>2, <1>5, <2>1 DEF DispatchRpc
  <1>6. CASE RpcTestRun(t, flag)
    <2>1. (~flag) \in BOOLEAN
      OBVIOUS
    <2> QED BY <1>1, <1>6, <2>1 DEF RpcTestRun
  <1>7. CASE RpcTestWrite(t)
    <2>0. job[t].pc = "test" /\ JobShape(job[t])
      BY <1>7 DEF RpcTestWrite, SqlInv, SqlShape
    <2>1. PICK j \in {[job[t] EXCEPT !.pc = "write"], Idle} : job' = [job EXCEPT ![t] = j]
      BY <1>7 DEF RpcTestWrite
    <2>2. job[t] = [pc |-> "test", from |-> job[t].from, dry |-> job[t].dry, body |-> job[t].body]
          /\ job[t].dry \in BOOLEAN
      BY <2>0 DEF JobShape
    <2>3. [job[t] EXCEPT !.pc = "write"]
             = [pc |-> "write", from |-> job[t].from, dry |-> job[t].dry, body |-> job[t].body]
      BY <2>2
    <2>4. JobShape(j) /\ ~Writing(j)
      BY <2>1, <2>2, <2>3, PlainJobs
    <2>5. ~Writing(job[t])
      BY <2>0 DEF Writing
    <2>6. UNCHANGED <<conn, holder, coll, disk, work, rpc, acked, tally>>
      BY <1>7 DEF RpcTestWrite
    <2>7. tally' \in Counts /\ Counted'
      BY <2>6, Untold
    <2> QED BY <2>1, <2>4, <2>5, <2>6, <2>7, ReaderUse
  <1>8. CASE RunRead(t, c)
    <2>1. c \in Readers /\ conn[c] \in {Bare, AttachReadonly(Bare)}
      BY <1>8 DEF SqlInv, ReadersKnown, RunRead, WithReader
    <2>2. ReadQuery(c, job[t].body.stmts[1], FALSE).on \in {Bare, AttachReadonly(Bare)}
      <3>1. PICK s : s = job[t].body.stmts[1]
        OBVIOUS
      <3>2. \A large : ReadQuery(c, s, large).on \in {Bare, AttachReadonly(Bare)}
        BY <2>1, ReadsHandBack
      <3>3. ReadQuery(c, s, FALSE).on \in {Bare, AttachReadonly(Bare)}
        BY <3>2, Zenon
      <3> QED BY <3>1, <3>3
    <2>3. PICK r \in {Bare, AttachReadonly(Bare)} : conn' = [conn EXCEPT ![c] = r]
      BY <1>8, <2>1, <2>2 DEF RunRead
    <2>4. ~Writing(job[t]) /\ job' = [job EXCEPT ![t] = Idle]
      BY <1>8 DEF RunRead, Writing
    <2>5. UNCHANGED <<holder, coll, disk, work, rpc, acked>>
      BY <1>8 DEF RunRead
    <2>6. tally' \in Counts /\ Counted'
      BY <1>8, <2>5, AnswersCount DEF RunRead
    <2> QED BY <2>1, <2>3, <2>4, <2>5, <2>6, PlainJobs, ReaderUse
  <1> QED BY <1>3, <1>4, <1>5, <1>6, <1>7, <1>8

----------------------------------------------------------------------------
(* Steps on the free writer. *)
LEMMA FreeWriterKeeps ==
    ASSUME SqlInv, SqlAssumption,
           (\E b \in Bodies : CreateRpc(b)) \/ DeleteRpc \/ IncrementCounter \/ DropCollection \/ CreateCollection
    PROVE  SqlInv'
  <1>1. /\ conn \in [Conns -> ConnRows] /\ Writer \in Conns /\ holder = Nobody /\ conn[Writer] = Bare
        /\ tally \in Counts /\ rpc \in Bodies \cup {NoBody} /\ Counted /\ DataTrue /\ acked \in Nat
    BY DEF SqlInv, SqlShape, WriterKnown, Conns, Writer, CreateRpc, DeleteRpc, IncrementCounter, DropCollection,
           CreateCollection
  <1>2. DetachAuthorizer(Bare) = Bare
    BY BareRows, ConnParts
  <1>3. conn' = conn
    <2>1. ASSUME NEW b \in Bodies, CreateRpc(b) PROVE conn' = conn
      <3>1. conn' = [conn EXCEPT ![Writer] = conn[Writer]]
        BY <1>1, <1>2, <2>1 DEF CreateRpc
      <3> QED BY <1>1, <3>1
    <2> QED BY <2>1 DEF DeleteRpc, IncrementCounter, DropCollection, CreateCollection
  <1>4. holder' = holder /\ job' = job
    BY DEF CreateRpc, DeleteRpc, IncrementCounter, DropCollection, CreateCollection
  <1>5. /\ tally.calls \in Nat /\ tally.owed \in Nat /\ tally.hits \in Nat
        /\ tally = [calls |-> tally.calls, owed |-> tally.owed, hits |-> tally.hits]
    BY <1>1 DEF Counts
  <1>6. rpc' \in Bodies \cup {NoBody} /\ tally' \in Counts /\ Counted'
    <2>1. ASSUME NEW b \in Bodies, CreateRpc(b) PROVE <1>6
      <3>1. tally' = [calls |-> 0, owed |-> tally.owed, hits |-> 0] /\ rpc' = b
        BY <1>5, <2>1 DEF CreateRpc
      <3>2. tally'.calls = 0 /\ tally'.owed = tally.owed /\ tally'.hits = 0
        BY <3>1
      <3>3. tally' \in Counts
        BY <1>5, <3>1 DEF Counts
      <3>4. Counted'
        BY <1>5, <3>2 DEF Counted
      <3> QED BY <3>1, <3>3, <3>4
    <2>2. CASE DeleteRpc
      BY <1>1, <2>2 DEF DeleteRpc, Counted
    <2>3. CASE IncrementCounter
      <3>1. Allows(conn[Writer].auth, OwnWrite)
        <4>1. conn[Writer].auth = "open"
          BY <1>1 DEF Bare
        <4> QED BY <4>1 DEF Allows
      <3>2. PICK n : n = IF rpc # NoBody /\ Allows(conn[Writer].auth, OwnWrite) THEN tally.calls + 1 ELSE tally.calls
        OBVIOUS
      <3>3. n \in Nat /\ (rpc # NoBody => n = tally.calls + 1)
        BY <1>5, <3>1, <3>2
      <3>4. tally' = [tally EXCEPT !.owed = @ - 1, !.calls = n] /\ tally.owed > 0 /\ rpc' = rpc
        BY <2>3, <3>2 DEF IncrementCounter
      <3>5. tally' = [calls |-> n, owed |-> tally.owed - 1, hits |-> tally.hits] /\ tally.owed - 1 \in Nat
        <4>1. PICK o : o = tally.owed - 1
          OBVIOUS
        <4>2. [tally EXCEPT !.owed = o] = [calls |-> tally.calls, owed |-> o, hits |-> tally.hits]
          BY <1>5
        <4>3. tally' = [[tally EXCEPT !.owed = o] EXCEPT !.calls = n]
          BY <3>4, <4>1
        <4>4. o \in Nat
          BY <1>5, <3>4, <4>1
        <4> QED BY <4>1, <4>2, <4>3, <4>4
      <3>6. tally'.calls = n /\ tally'.owed = tally.owed - 1 /\ tally'.hits = tally.hits
        BY <3>5
      <3>7. tally' \in Counts
        BY <1>5, <3>3, <3>5 DEF Counts
      <3>8. Counted'
        BY <1>1, <1>5, <3>3, <3>4, <3>6 DEF Counted
      <3> QED BY <1>1, <3>4, <3>7, <3>8
    <2>4. CASE DropCollection \/ CreateCollection
      BY <1>1, <2>4 DEF DropCollection, CreateCollection, Counted
    <2> QED BY <2>1, <2>2, <2>3, <2>4
  <1>7. acked' \in Nat /\ DataTrue'
    <2>1. CASE DropCollection
      <3>1. acked' = 0 /\ disk' = [rows |-> 0, index |-> 0] /\ work' = [rows |-> 0, index |-> 0]
        BY <2>1 DEF DropCollection
      <3>2. work'.rows = 0
        BY <3>1
      <3> QED BY <3>1, <3>2 DEF DataTrue
    <2>2. CASE ~DropCollection
      <3>1. acked' = acked /\ disk' = disk /\ work' = work
        BY <2>2 DEF CreateRpc, DeleteRpc, IncrementCounter, CreateCollection
      <3> QED BY <1>1, <3>1 DEF DataTrue
    <2> QED BY <2>1, <2>2
  <1>8. SqlShape' /\ HolderWrites' /\ WriterKnown' /\ ReadersKnown'
    BY <1>3, <1>4, <1>6, <1>7 DEF SqlInv, SqlShape, HolderWrites, WriterKnown, ReadersKnown
  <1> QED BY <1>6, <1>7, <1>8 DEF SqlInv

(* Steps of the writer's holder, from what they leave on the writer and of *)
(* the job.                                                                *)
LEMMA HolderStep ==
    ASSUME SqlInv, SqlAssumption, NEW t \in SqlTasks, NEW r \in ConnRows, NEW j,
           conn' = [conn EXCEPT ![Writer] = r], job' = [job EXCEPT ![t] = j], JobShape(j),
           holder \in {t, Nobody}, holder' = IF Writing(j) THEN t ELSE Nobody,
           j.pc # "body" => r = Bare,
           j.pc = "body" => ~r.clock /\ (~j.err => r.save),
           rpc' = rpc, acked' \in Nat, DataTrue', tally' \in Counts, Counted'
    PROVE  SqlInv'
  <1>1. /\ conn \in [Conns -> ConnRows] /\ Writer \in Conns /\ Writer \notin Readers
        /\ job = [u \in SqlTasks |-> job[u]] /\ Nobody \notin SqlTasks
    BY DEF SqlInv, SqlShape, Conns, Writer, SqlAssumption
  <1>2. /\ conn' \in [Conns -> ConnRows] /\ conn'[Writer] = r
        /\ \A c \in Readers : conn'[c] = conn[c]
    <2>1. \A c \in Readers : c \in Conns
      BY DEF Conns
    <2> QED BY <1>1, <2>1
  <1>3. /\ job' = [u \in SqlTasks |-> job'[u]] /\ job'[t] = j
        /\ \A u \in SqlTasks : u # t => job'[u] = job[u] /\ ~Writing(job[u])
    <2>1. \A u \in SqlTasks : u # t => ~Writing(job[u])
      BY <1>1 DEF SqlInv, HolderWrites
    <2> QED BY <1>1, <2>1
  <1>4. SqlShape'
    <2>1. \A u \in SqlTasks : JobShape(job'[u])
      BY <1>3 DEF SqlInv, SqlShape
    <2>2. holder' \in SqlTasks \cup {Nobody}
      OBVIOUS
    <2> QED BY <1>2, <1>3, <2>1, <2>2 DEF SqlInv, SqlShape
  <1>5. HolderWrites'
    <2>1. ASSUME NEW u \in SqlTasks PROVE Writing(job'[u]) <=> holder' = u
      BY <1>1, <1>3
    <2> QED BY <2>1 DEF HolderWrites, Writing
  <1>6. WriterKnown'
    <2>1. \A u \in SqlTasks : Writing(job'[u]) => u = t
      BY <1>3
    <2>2. holder' = Nobody => conn'[Writer] = Bare
      <3>1. holder' = Nobody => ~Writing(j)
        BY <1>1
      <3> QED BY <1>2, <3>1 DEF Writing
    <2>3. \A u \in SqlTasks : job'[u].pc = "release" => conn'[Writer] = Bare
      BY <1>2, <1>3, <2>1 DEF Writing
    <2>4. \A u \in SqlTasks : job'[u].pc = "body" => ~conn'[Writer].clock /\ (~job'[u].err => conn'[Writer].save)
      BY <1>2, <1>3, <2>1 DEF Writing
    <2> QED BY <2>2, <2>3, <2>4 DEF WriterKnown
  <1>7. ReadersKnown'
    BY <1>2 DEF SqlInv, ReadersKnown
  <1> QED BY <1>4, <1>5, <1>6, <1>7 DEF SqlInv

(* GiveUp resolves the savepoint because the authorizer comes off first. *)
LEMMA GivesUp ==
    ASSUME NEW a, NEW h, NEW k, NEW v \in BOOLEAN
    PROVE  GiveUp(Conn(a, h, k, v)) = Conn("open", h, k, Off)
  <1>1. DetachAuthorizer(Conn(a, h, k, v)) = Conn("open", h, k, v)
    BY ConnParts
  <1>2. Conn("open", h, k, v).auth = "open" /\ Conn("open", h, k, v).save = v
    BY ConnFields
  <1>3. Allows("open", Savepoint)
    BY DEF Allows
  <1>4. PICK x : x = FALSE
    OBVIOUS
  <1>5. [Conn("open", h, k, v) EXCEPT !.save = x] = Conn("open", h, k, x)
    BY DEF Conn
  <1>6. CASE v
    <2>1. Release(Conn("open", h, k, v)) = [Conn("open", h, k, v) EXCEPT !.save = FALSE]
      BY <1>2, <1>3, <1>6 DEF Release
    <2>2. Release(Conn("open", h, k, v)) = Conn("open", h, k, x)
      BY <1>4, <1>5, <2>1, Zenon
    <2> QED BY <1>1, <1>4, <2>2, Zenon DEF GiveUp, Off
  <1>7. CASE ~v
    <2>1. Release(Conn("open", h, k, v)) = Conn("open", h, k, v)
      BY <1>2, <1>7 DEF Release
    <2>2. v = Off
      BY <1>7 DEF Off
    <2> QED BY <1>1, <2>1, <2>2 DEF GiveUp
  <1> QED BY <1>6, <1>7

LEMMA EarlyEndKeeps ==
    ASSUME SqlInv, SqlAssumption, NEW t \in SqlTasks, EndEarly(t)
    PROVE  SqlInv'
  <1>1. /\ job[t].pc = "release" /\ holder' = Nobody /\ job' = [job EXCEPT ![t] = Idle]
        /\ UNCHANGED <<conn, coll, disk, work, rpc, acked, tally>>
    BY DEF EndEarly, FreeWriter
  <1>2. /\ conn[Writer] = Bare /\ holder = t /\ conn \in [Conns -> ConnRows] /\ Writer \in Conns
        /\ acked \in Nat /\ DataTrue
    BY <1>1 DEF SqlInv, SqlShape, WriterKnown, HolderWrites, Writing, Conns
  <1>3. conn' = [conn EXCEPT ![Writer] = Bare]
    BY <1>1, <1>2
  <1>4. tally' \in Counts /\ Counted'
    BY <1>1, Untold
  <1>5. DataTrue'
    BY <1>1, <1>2 DEF DataTrue
  <1>6. Idle.pc # "body"
    BY DEF Idle
  <1> QED BY <1>1, <1>2, <1>3, <1>4, <1>5, <1>6, BareRows, PlainJobs, HolderStep

LEMMA BeginKeeps ==
    ASSUME SqlInv, SqlAssumption, NEW t \in SqlTasks, BeginWrite(t)
    PROVE  SqlInv'
  <1>1. /\ job[t].pc = "write" /\ holder = Nobody /\ holder' = t /\ work' = disk
        /\ UNCHANGED <<coll, disk, rpc, acked, tally>>
    BY DEF BeginWrite, TakeWriter
  <1>2. /\ conn[Writer] = Bare /\ JobShape(job[t]) /\ acked \in Nat /\ DataTrue
    BY <1>1 DEF SqlInv, SqlShape, WriterKnown
  <1>3. job[t].dry \in BOOLEAN
    BY <1>1, <1>2 DEF JobShape
  <1>4. PICK h : h = ~job[t].dry
    OBVIOUS
  <1>5. h \in BOOLEAN /\ Off \in BOOLEAN /\ Up \in BOOLEAN
    BY <1>3, <1>4 DEF Off, Up
  <1>6. DetachAuthorizer(conn[Writer]) = Bare
    BY <1>2, BareRows, ConnParts
  <1>7. PICK y : y = TRUE
    OBVIOUS
  <1>8. PICK n : n = FALSE
    OBVIOUS
  <1>9. y = Up /\ n = Off
    BY <1>7, <1>8 DEF Up, Off
  <1>10. [Bare EXCEPT !.save = y, !.auth = "writable"] = Conn("writable", Off, Off, Up)
    <2>1. [Conn("open", Off, Off, Off) EXCEPT !.save = y] = Conn("open", Off, Off, Up)
      BY <1>9 DEF Conn
    <2>2. [Conn("open", Off, Off, Up) EXCEPT !.auth = "writable"] = Conn("writable", Off, Off, Up)
      BY DEF Conn
    <2>3. [Bare EXCEPT !.save = y, !.auth = "writable"] = [[Bare EXCEPT !.save = y] EXCEPT !.auth = "writable"]
      OBVIOUS
    <2> QED BY <2>1, <2>2, <2>3, BareRows
  <1>11. [Conn("writable", Off, Off, Up) EXCEPT !.hook = h] = Conn("writable", h, Off, Up)
    BY DEF Conn
  <1>12. [Conn("writable", h, Off, Up) EXCEPT !.hook = n] = Conn("writable", Off, Off, Up)
    BY <1>9 DEF Conn
  <1>13. GiveUp(Conn("writable", Off, Off, Up)) = Bare
    BY <1>5, BareRows, GivesUp
  <1>14. /\ [Bare EXCEPT !.save = TRUE, !.auth = "writable"] = Conn("writable", Off, Off, Up)
         /\ [Conn("writable", Off, Off, Up) EXCEPT !.hook = ~job[t].dry] = Conn("writable", h, Off, Up)
         /\ [Conn("writable", h, Off, Up) EXCEPT !.hook = FALSE] = Conn("writable", Off, Off, Up)
    <2>1. [Bare EXCEPT !.save = TRUE, !.auth = "writable"] = Conn("writable", Off, Off, Up)
      BY <1>7, <1>10, Zenon
    <2>2. [Conn("writable", Off, Off, Up) EXCEPT !.hook = ~job[t].dry] = Conn("writable", h, Off, Up)
      BY <1>4, <1>11, Zenon
    <2>3. [Conn("writable", h, Off, Up) EXCEPT !.hook = FALSE] = Conn("writable", Off, Off, Up)
      BY <1>8, <1>12, Zenon
    <2> QED BY <2>1, <2>2, <2>3
  <1>15. DataTrue'
    <2>1. disk = [rows |-> acked, index |-> acked]
      BY <1>2 DEF DataTrue
    <2>2. disk.rows = acked
      BY <2>1
    <2> QED BY <1>1, <1>2, <2>1, <2>2 DEF DataTrue
  <1>16. tally' \in Counts /\ Counted'
    BY <1>1, Untold
  <1>17. \/ /\ job' = [job EXCEPT ![t] = [pc |-> "release"]] /\ conn' = [conn EXCEPT ![Writer] = Bare]
         \/ /\ job' = [job EXCEPT ![t] = [pc |-> "body", from |-> @.from, dry |-> @.dry, body |-> @.body,
                                          i |-> 1, err |-> FALSE]]
            /\ conn' = [conn EXCEPT ![Writer] = Conn("writable", h, Off, Up)]
    <2> DEFINE armed == [Bare EXCEPT !.save = TRUE, !.auth = "writable"]
               hooked == [armed EXCEPT !.hook = ~job[t].dry]
    <2>1. PICK fail \in WriteFails :
             /\ conn' = [conn EXCEPT ![Writer] =
                    CASE fail \in {"probe", "savepoint"} -> Bare
                      [] fail = "hook" -> GiveUp(armed)
                      [] OTHER -> IF job[t].body.whole THEN hooked ELSE GiveUp([hooked EXCEPT !.hook = FALSE])]
             /\ job' = [job EXCEPT ![t] =
                    IF fail = "none" /\ job[t].body.whole
                    THEN [pc |-> "body", from |-> @.from, dry |-> @.dry, body |-> @.body, i |-> 1, err |-> FALSE]
                    ELSE [pc |-> "release"]]
      BY <1>6 DEF BeginWrite
    <2>2. /\ armed = Conn("writable", Off, Off, Up) /\ hooked = Conn("writable", h, Off, Up)
          /\ [hooked EXCEPT !.hook = FALSE] = Conn("writable", Off, Off, Up)
      BY <1>14, Zenon
    <2> HIDE DEF armed, hooked
    <2>3. CASE fail = "none" /\ job[t].body.whole
      BY <2>1, <2>2, <2>3
    <2>4. CASE ~(fail = "none" /\ job[t].body.whole)
      <3>1. GiveUp([hooked EXCEPT !.hook = FALSE]) = Bare /\ GiveUp(armed) = Bare
        BY <1>13, <2>2, Zenon
      <3> QED BY <2>1, <2>4, <3>1 DEF WriteFails
    <2> QED BY <2>3, <2>4
  <1>18. CASE job' = [job EXCEPT ![t] = [pc |-> "release"]] /\ conn' = [conn EXCEPT ![Writer] = Bare]
    <2>1. PICK j : j = [pc |-> "release"]
      OBVIOUS
    <2>2. JobShape(j) /\ Writing(j) /\ j.pc # "body"
      BY <2>1, PlainJobs DEF Writing
    <2> QED BY <1>1, <1>2, <1>15, <1>16, <1>18, <2>1, <2>2, BareRows, HolderStep
  <1>19. CASE /\ job' = [job EXCEPT ![t] = [pc |-> "body", from |-> @.from, dry |-> @.dry, body |-> @.body,
                                            i |-> 1, err |-> FALSE]]
              /\ conn' = [conn EXCEPT ![Writer] = Conn("writable", h, Off, Up)]
    <2>1. PICK j : j = [pc |-> "body", from |-> job[t].from, dry |-> job[t].dry, body |-> job[t].body,
                        i |-> 1, err |-> FALSE]
      OBVIOUS
    <2>2. JobShape(j) /\ j.pc = "body"
      <3>1. PICK e \in BOOLEAN : e = FALSE
        OBVIOUS
      <3>2. j = [pc |-> "body", from |-> job[t].from, dry |-> job[t].dry, body |-> job[t].body, i |-> 1, err |-> e]
        BY <2>1, <3>1, Zenon
      <3> QED BY <3>2, PlainJobs
    <2>3. Writing(j)
      BY <2>2 DEF Writing
    <2>4. PICK r : r = Conn("writable", h, Off, Up)
      OBVIOUS
    <2>5. r \in ConnRows /\ r.clock = Off /\ r.save = Up
      <3>1. r.clock = Off /\ r.save = Up
        BY <2>4, ConnFields
      <3>2. r \in ConnRows
        BY <1>5, <2>4, ConnTyped
      <3> QED BY <3>1, <3>2
    <2>6. ~r.clock /\ r.save
      BY <2>5 DEF Off, Up
    <2>7. job' = [job EXCEPT ![t] = j] /\ conn' = [conn EXCEPT ![Writer] = r]
      BY <1>19, <2>1, <2>4
    <2> QED BY <1>1, <1>2, <1>15, <1>16, <2>2, <2>3, <2>5, <2>6, <2>7, HolderStep
  <1> QED BY <1>17, <1>18, <1>19

LEMMA StatementKeeps ==
    ASSUME SqlInv, SqlAssumption, NEW t \in SqlTasks, ExecuteOne(t)
    PROVE  SqlInv'
  <1> DEFINE s == job[t].body.stmts[job[t].i]
             end == Ends(conn[Writer], s)
             wrote == s.op = "dml" /\ end = "ok"
             lost == s.end = "abandon" /\ end = "error"
  <1>1. /\ job[t].pc = "body" /\ ~job[t].err /\ ApplyDml(wrote, lost)
        /\ job' = [job EXCEPT ![t].i = @ + 1, ![t].err = (@ \/ end # "ok")]
        /\ UNCHANGED <<holder, coll, rpc, acked, tally>>
    BY DEF ExecuteOne
  <1>w. lost => end # "ok"
    OBVIOUS
  <1> HIDE DEF s, end, wrote, lost
  <1>2. /\ JobShape(job[t]) /\ acked \in Nat /\ DataTrue /\ holder = t /\ Writing(job[t])
        /\ conn \in [Conns -> ConnRows] /\ Writer \in Conns /\ conn[Writer] \in ConnRows
        /\ ~conn[Writer].clock /\ conn[Writer].save /\ job = [u \in SqlTasks |-> job[u]]
    BY <1>1 DEF SqlInv, SqlShape, WriterKnown, HolderWrites, Writing, Conns
  <1>3. DataTrue'
    <2>1. disk' = disk /\ work' \in {[rows |-> work.rows + 1, index |-> work.index + 1], disk, work}
      BY <1>1, <1>2 DEF ApplyDml
    <2>2. /\ disk = [rows |-> acked, index |-> acked]
          /\ work.rows \in Nat /\ work = [rows |-> work.rows, index |-> work.rows]
      BY <1>2 DEF DataTrue
    <2>3. work.index = work.rows /\ disk.rows = acked
      BY <2>2
    <2>4. PICK n \in Nat : work' = [rows |-> n, index |-> n]
      BY <1>2, <2>1, <2>2, <2>3
    <2>5. work'.rows = n
      BY <2>4
    <2> QED BY <1>1, <2>1, <2>2, <2>4, <2>5 DEF DataTrue
  <1>4. PICK e \in BOOLEAN : e <=> end # "ok"
    BY Zenon
  <1>5. PICK j : j = [pc |-> "body", from |-> job[t].from, dry |-> job[t].dry, body |-> job[t].body,
                      i |-> job[t].i + 1, err |-> e]
    OBVIOUS
  <1>6. job' = [job EXCEPT ![t] = j]
    <2>0. PICK n : n = job[t].i + 1
      OBVIOUS
    <2>1. job[t] = [pc |-> "body", from |-> job[t].from, dry |-> job[t].dry, body |-> job[t].body,
                    i |-> job[t].i, err |-> job[t].err]
      BY <1>1, <1>2 DEF JobShape
    <2>2. [job[t] EXCEPT !.i = n] = [pc |-> "body", from |-> job[t].from, dry |-> job[t].dry, body |-> job[t].body,
                                     i |-> n, err |-> job[t].err]
      BY <2>1
    <2>3. [[job[t] EXCEPT !.i = n] EXCEPT !.err = e] = [pc |-> "body", from |-> job[t].from, dry |-> job[t].dry,
                                                        body |-> job[t].body, i |-> n, err |-> e]
      <3>1. PICK from, dry, body, err : [job[t] EXCEPT !.i = n]
                                           = [pc |-> "body", from |-> from, dry |-> dry, body |-> body, i |-> n, err |-> err]
                                        /\ from = job[t].from /\ dry = job[t].dry /\ body = job[t].body
        BY <2>2
      <3>2. PICK g : g = [pc |-> "body", from |-> from, dry |-> dry, body |-> body, i |-> n, err |-> err]
        OBVIOUS
      <3>3. [g EXCEPT !.err = e] = [pc |-> "body", from |-> from, dry |-> dry, body |-> body, i |-> n, err |-> e]
        BY <3>2
      <3> QED BY <3>1, <3>2, <3>3
    <2>4. e = (job[t].err \/ end # "ok")
      BY <1>1, <1>4, Zenon
    <2>5. [job[t] EXCEPT !.i = n].err = job[t].err
      BY <2>2
    <2>6. job' = [[job EXCEPT ![t] = [job[t] EXCEPT !.i = n]] EXCEPT ![t] = [[job[t] EXCEPT !.i = n] EXCEPT !.err = e]]
      <3>1. PICK f : f = [job EXCEPT ![t].i = n]
        OBVIOUS
      <3>2. f = [job EXCEPT ![t] = [job[t] EXCEPT !.i = n]] /\ f[t] = [job[t] EXCEPT !.i = n]
        BY <1>2, <3>1
      <3>3. job' = [f EXCEPT ![t].err = (@ \/ end # "ok")]
        BY <1>1, <2>0, <3>1
      <3>4. job' = [f EXCEPT ![t] = [f[t] EXCEPT !.err = (f[t].err \/ end # "ok")]]
        BY <3>3
      <3>5. (f[t].err \/ end # "ok") = e
        BY <2>4, <2>5, <3>2, Zenon
      <3>6. [f[t] EXCEPT !.err = (f[t].err \/ end # "ok")] = [f[t] EXCEPT !.err = e]
        BY <3>5, Zenon
      <3> QED BY <3>2, <3>4, <3>6, Zenon
    <2> QED BY <1>2, <1>5, <2>0, <2>3, <2>6
  <1>7. JobShape(j) /\ j.pc = "body" /\ j.err = e
    BY <1>5, PlainJobs
  <1>8. PICK r \in ConnRows : /\ conn' = [conn EXCEPT ![Writer] = r] /\ ~r.clock /\ (~lost => r.save)
    <2>1. CASE lost
      <3>1. PICK x \in BOOLEAN : x = FALSE
        OBVIOUS
      <3>2. PICK r : r = [conn[Writer] EXCEPT !.save = x]
        OBVIOUS
      <3>3. r \in ConnRows /\ r.clock = conn[Writer].clock
        BY <1>2, <3>2 DEF ConnRows
      <3>4. conn' = [conn EXCEPT ![Writer].save = FALSE]
        BY <1>1, <2>1 DEF ApplyDml
      <3>5. conn' = [conn EXCEPT ![Writer] = r]
        BY <3>1, <3>2, <3>4, Zenon
      <3> QED BY <1>2, <2>1, <3>3, <3>5
    <2>2. CASE ~lost
      <3>1. conn' = conn
        BY <1>1, <2>2 DEF ApplyDml
      <3>2. conn' = [conn EXCEPT ![Writer] = conn[Writer]]
        BY <1>2, <3>1
      <3> QED BY <1>2, <3>2
    <2> QED BY <2>1, <2>2
  <1>9. tally' \in Counts /\ Counted'
    BY <1>1, Untold
  <1>10. Writing(j) /\ (~j.err => r.save)
    BY <1>w, <1>4, <1>7, <1>8 DEF Writing
  <1> QED BY <1>1, <1>2, <1>3, <1>6, <1>7, <1>8, <1>9, <1>10, HolderStep

LEMMA FinishKeeps ==
    ASSUME SqlInv, SqlAssumption, NEW t \in SqlTasks, FinishWrite(t)
    PROVE  SqlInv'
  <1>1. /\ job[t].pc = "body" /\ holder' = Nobody /\ job' = [job EXCEPT ![t] = Idle]
        /\ work' = disk' /\ UNCHANGED <<coll, rpc>>
    BY DEF FinishWrite, FreeWriter
  <1>2. /\ acked \in Nat /\ DataTrue /\ holder = t /\ conn[Writer] \in ConnRows /\ ~conn[Writer].clock
    BY <1>1 DEF SqlInv, SqlShape, WriterKnown, HolderWrites, Writing, Conns
  <1>3. GiveUp([conn[Writer] EXCEPT !.hook = FALSE]) = Bare
    <2>1. PICK a, h, k, v : conn[Writer] = Conn(a, h, k, v) /\ v \in BOOLEAN /\ k = conn[Writer].clock /\ k \in BOOLEAN
      <3>1. /\ conn[Writer] = Conn(conn[Writer].auth, conn[Writer].hook, conn[Writer].clock, conn[Writer].save)
            /\ conn[Writer].save \in BOOLEAN /\ conn[Writer].clock \in BOOLEAN
        BY <1>2, ConnTyped
      <3> QED BY <3>1, Zenon
    <2>2. k = Off
      BY <1>2, <2>1 DEF Off
    <2>3. PICK x : x = FALSE
      OBVIOUS
    <2>4. [Conn(a, h, k, v) EXCEPT !.hook = x] = Conn(a, x, k, v)
      BY DEF Conn
    <2>5. x = Off
      BY <2>3 DEF Off
    <2>6. [conn[Writer] EXCEPT !.hook = FALSE] = [Conn(a, h, k, v) EXCEPT !.hook = x]
      BY <2>1, <2>3, Zenon
    <2> QED BY <2>1, <2>2, <2>4, <2>5, <2>6, GivesUp, BareRows
  <1>4. PICK ok : /\ conn' = [conn EXCEPT ![Writer] = Bare]
                  /\ OutcomeToResponse(job[t].from, ok)
                  /\ \/ disk' = work /\ acked' = acked + (work.rows - disk.rows)
                     \/ disk' = disk /\ acked' = acked
    BY <1>3 DEF FinishWrite
  <1>5. acked' \in Nat /\ DataTrue'
    <2>1. /\ disk = [rows |-> acked, index |-> acked]
          /\ work.rows \in Nat /\ work = [rows |-> work.rows, index |-> work.rows]
      BY <1>2 DEF DataTrue
    <2>2. disk.rows = acked
      BY <2>1
    <2>3. CASE disk' = work /\ acked' = acked + (work.rows - disk.rows)
      <3>1. acked' = work.rows
        BY <1>2, <2>1, <2>2, <2>3
      <3> QED BY <1>1, <2>1, <2>3, <3>1 DEF DataTrue
    <2>4. CASE disk' = disk /\ acked' = acked
      BY <1>1, <1>2, <2>1, <2>2, <2>4 DEF DataTrue
    <2> QED BY <1>4, <2>3, <2>4
  <1>6. tally' \in Counts /\ Counted'
    BY <1>1, <1>4, AnswersCount
  <1>7. Idle.pc # "body"
    BY DEF Idle
  <1> QED BY <1>1, <1>2, <1>4, <1>5, <1>6, <1>7, BareRows, PlainJobs, HolderStep

LEMMA SqlInitial == SqlInit(Bodies) => SqlInv
  <1> SUFFICES ASSUME SqlInit(Bodies) PROVE SqlInv
    OBVIOUS
  <1>1. /\ conn = [c \in Conns |-> Bare] /\ holder = Nobody /\ job = [t \in SqlTasks |-> Idle]
        /\ disk = [rows |-> 0, index |-> 0] /\ work = [rows |-> 0, index |-> 0]
        /\ rpc \in {NoBody} \cup Bodies /\ acked = 0 /\ tally = [calls |-> 0, owed |-> 0, hits |-> 0]
    BY DEF SqlInit
  <1>2. tally \in Counts /\ tally.calls = 0 /\ tally.owed = 0 /\ tally.hits = 0
    BY <1>1 DEF Counts
  <1>3. SqlShape
    BY <1>1, <1>2, BareRows, PlainJobs DEF SqlShape
  <1>4. HolderWrites
    BY <1>1, PlainJobs, SqlAssumption DEF HolderWrites
  <1>5. WriterKnown /\ ReadersKnown
    <2>1. \A c \in Conns : conn[c] = Bare
      BY <1>1
    <2>2. \A t \in SqlTasks : job[t].pc = "idle"
      BY <1>1 DEF Idle
    <2> QED BY <2>1, <2>2 DEF WriterKnown, ReadersKnown, Conns
  <1>6. DataTrue
    <2>1. work.rows = 0
      BY <1>1
    <2> QED BY <1>1, <2>1 DEF DataTrue
  <1>7. Counted
    BY <1>2 DEF Counted
  <1> QED BY <1>3, <1>4, <1>5, <1>6, <1>7 DEF SqlInv

LEMMA SqlSteps == SqlInv /\ [SqlNext]_sqlvars => SqlInv'
  <1> SUFFICES ASSUME SqlInv, [SqlNext]_sqlvars PROVE SqlInv'
    OBVIOUS
  <1>0. SqlAssumption
    BY SqlAssumption
  <1>1. CASE UNCHANGED sqlvars
    BY <1>1 DEF sqlvars, SqlInv, SqlShape, HolderWrites, WriterKnown, ReadersKnown, DataTrue, Counted
  <1>2. ASSUME NEW c \in Readers, NEW s \in Asked,
               \/ QueryHandler(c, s) \/ McpQuery(c, s) \/ ExplainSelect(c, s) \/ McpExplain(c, s)
               \/ ListRun(c, s) \/ RunQueryPlayground(c, s)
        PROVE  SqlInv'
    BY <1>0, <1>2, ReadsKeep DEF McpQuery, McpExplain, RunQueryPlayground
  <1>3. ASSUME NEW c \in Readers, NEW isProtected \in BOOLEAN, AdminList(c, isProtected) \/ AdminCount(c, isProtected)
        PROVE  SqlInv'
    BY <1>0, <1>3, ReadsKeep DEF AdminCount
  <1>4. ASSUME NEW t \in SqlTasks, NEW c \in Readers,
               \/ DeletePreview(t, c) \/ PreviewTarget(t, c) \/ DeleteBlastRadius(t, c) \/ RunRead(t, c)
               \/ McpCallRpc(t, c) \/ DispatchRpc(t, c) \/ \E dry \in BOOLEAN : CallRpc(t, c, dry)
        PROVE  SqlInv'
    <2>1. CASE DeletePreview(t, c) \/ PreviewTarget(t, c) \/ DeleteBlastRadius(t, c)
      BY <1>0, <2>1, PreviewsKeep
    <2>2. ASSUME NEW dry \in BOOLEAN, CallRpc(t, c, dry) PROVE SqlInv'
      BY <1>0, <2>2, CallsKeep
    <2>3. CASE RunRead(t, c) \/ McpCallRpc(t, c) \/ DispatchRpc(t, c)
      <3>1. PICK flag \in BOOLEAN : flag = TRUE
        OBVIOUS
      <3> QED BY <1>0, <2>3, <3>1, CallsKeep
    <2> QED BY <1>4, <2>1, <2>2, <2>3
  <1>5. ASSUME NEW t \in SqlTasks, NEW commit \in BOOLEAN, RpcTestRun(t, commit) PROVE SqlInv'
    BY <1>0, <1>5, CallsKeep
  <1>6. CASE (\E b \in Bodies : CreateRpc(b)) \/ DeleteRpc \/ IncrementCounter \/ DropCollection \/ CreateCollection
    BY <1>0, <1>6, FreeWriterKeeps
  <1>7. ASSUME NEW t \in SqlTasks,
               RpcTestWrite(t) \/ BeginWrite(t) \/ EndEarly(t) \/ ExecuteOne(t) \/ FinishWrite(t)
        PROVE  SqlInv'
    <2>1. CASE RpcTestWrite(t)
      <3>1. PICK flag \in BOOLEAN : flag = TRUE
        OBVIOUS
      <3> QED BY <1>0, <2>1, <3>1, CallsKeep
    <2> QED BY <1>0, <1>7, <2>1, BeginKeeps, EarlyEndKeeps, StatementKeeps, FinishKeeps
  <1> QED BY <1>1, <1>2, <1>3, <1>4, <1>5, <1>6, <1>7 DEF SqlNext

(* For any number of tasks, readers and stored bodies: whatever path a     *)
(* body takes, the writer goes back with no authorizer, hook or savepoint  *)
(* on it, and a reader with no deadline (exec_write.rs, executor.rs).      *)
THEOREM ConnectionsComeBack == SqlSpec => []ConnectionsBare
  <1>1. SqlInv => ConnectionsBare
    BY DEF SqlInv, WriterKnown, ReadersKnown, ConnectionsBare
  <1> QED BY <1>1, SqlInitial, SqlSteps, PTL DEF SqlSpec

(* For any number of tasks and stored bodies: the collection and its       *)
(* search index hold the writes reported as committed and no others, and   *)
(* no success of call_rpc goes uncounted (outcome_to_response).            *)
THEOREM AnswersAreTrue == SqlSpec => []AnswersHold
  <1>1. SqlInv => AnswersHold
    BY DEF SqlInv, DataTrue, Counted, AnswersHold
  <1> QED BY <1>1, SqlInitial, SqlSteps, PTL DEF SqlSpec
============================================================================
