---------------------------- MODULE SchemaProofs ----------------------------
(***************************************************************************)
(* Theorems about CollectionSchema and CollectionIndexes, which share no   *)
(* state.                                                                  *)
(*                                                                         *)
(* Schema cache: ChangesInvalidate is inductive with the types alone,      *)
(* because a task keeps its pool from its first write to its invalidation  *)
(* and every committed write marks the entries of the other pools.         *)
(***************************************************************************)
EXTENDS CollectionSchema, CollectionIndexes, TLAPS

----------------------------------------------------------------------------
Points == {"idle", "opened", "ready", "insert", "invalidate", "constraints", "describe"}
Rows(n) == [pc : Points, p : 0 .. n, face : {"rest", "mcp"}, v : Schemas]
Entries == [v : Schemas, late : BOOLEAN, missed : BOOLEAN]
MetaRows == [row : BOOLEAN, con : BOOLEAN, caps : BOOLEAN, orphan : BOOLEAN]

LEMMA TypeIs ==
    TypeOK <=> /\ live \in {0, 1} /\ fld \in {"none", "plain", "checked"} /\ meta \in MetaRows
               /\ opened \in 0 .. MaxPool /\ reg \in 0 .. opened /\ mcp \in 0 .. opened
               /\ cache \in [Pools -> Entries] /\ task \in [Tasks -> Rows(opened)]
  BY DEF TypeOK, MetaRows, Entries, Rows, Points

(* An entry that a step of the operations has to keep true. *)
EntryTrue(p) ==
    (cache[p].v # <<>> /\ ~ cache[p].late /\ ~ cache[p].missed)
        => \/ cache[p].v = Describe
           \/ \E c \in Tasks : task[c].p = p /\ task[c].pc \in {"constraints", "invalidate"}

SInv == TypeOK /\ (\A p \in Pools : EntryTrue(p)) /\ MetaFollowsTable

LEMMA NoTaskFields ==
    /\ NoTask.pc = "idle" /\ NoTask.p = 0 /\ \A n \in Nat : NoTask \in Rows(n)
  BY DEF NoTask, Rows, Points, Schemas

(* The rows that tasks go to. *)
PoolRow(pc, p, face) == [NoTask EXCEPT !.pc = pc, !.p = p, !.face = face]
ReadRow(p, v) == [NoTask EXCEPT !.pc = "insert", !.p = p, !.v = v]
OpRow(pc, p) == [NoTask EXCEPT !.pc = pc, !.p = p]
LEMMA PoolRowFields ==
    ASSUME NEW n \in Nat, NEW p \in 0 .. n, NEW pc \in Points, NEW face \in {"rest", "mcp"}
    PROVE  PoolRow(pc, p, face) \in Rows(n) /\ PoolRow(pc, p, face).pc = pc /\ PoolRow(pc, p, face).p = p
  BY DEF PoolRow, NoTask, Rows, Schemas
LEMMA ReadRowFields ==
    ASSUME NEW n \in Nat, NEW p \in 0 .. n, NEW v \in Schemas
    PROVE  ReadRow(p, v) \in Rows(n) /\ ReadRow(p, v).pc = "insert" /\ ReadRow(p, v).p = p /\ ReadRow(p, v).v = v
  BY DEF ReadRow, NoTask, Rows, Points
LEMMA OpRowFields ==
    ASSUME NEW n \in Nat, NEW p \in 0 .. n, NEW pc \in Points
    PROVE  OpRow(pc, p) \in Rows(n) /\ OpRow(pc, p).pc = pc /\ OpRow(pc, p).p = p
  BY DEF OpRow, NoTask, Rows, Schemas

LEMMA TaskFields ==
    ASSUME TypeOK, NEW c \in Tasks
    PROVE  /\ task[c].pc \in Points /\ task[c].p \in 0 .. opened /\ task[c].v \in Schemas
           /\ task[c].face \in {"rest", "mcp"} /\ opened \in Nat /\ MaxPool \in Nat
  <1>1. task[c] \in Rows(opened) /\ opened \in 0 .. MaxPool
    BY TypeIs
  <1> QED  BY <1>1, BoundsAssumption DEF Rows

LEMMA EntryFields ==
    ASSUME TypeOK, NEW p \in Pools
    PROVE  cache[p].v \in Schemas /\ cache[p].late \in BOOLEAN /\ cache[p].missed \in BOOLEAN
  <1>1. cache[p] \in Entries
    BY TypeIs
  <1> QED  BY <1>1 DEF Entries

LEMMA DescribeTyped == ASSUME TypeOK PROVE Describe \in Schemas /\ Describe # <<>>
  <1>1. live \in {0, 1} /\ fld \in {"none", "plain", "checked"} /\ meta.con \in BOOLEAN /\ meta.caps \in BOOLEAN
    BY DEF TypeOK
  <1> QED  BY <1>1 DEF Describe, Schemas

LEMMA SInitial == Init => SInv
  <1> SUFFICES ASSUME Init PROVE SInv
    OBVIOUS
  <1>1. Empty \in Entries /\ Empty.v = <<>>
    BY DEF Empty, Entries, Schemas
  <1>2. NoMeta \in MetaRows /\ NoMeta.row = FALSE
    BY DEF NoMeta, MetaRows
  <1>3. TypeOK
    BY <1>1, <1>2, NoTaskFields, TypeIs, BoundsAssumption DEF Init
  <1>4. \A p \in Pools : EntryTrue(p)
    BY <1>1 DEF Init, EntryTrue
  <1> QED  BY <1>2, <1>3, <1>4 DEF SInv, Init, MetaFollowsTable

----------------------------------------------------------------------------
(* A task that had nothing to invalidate goes on; table and caches rest. *)
LEMMA TaskGoes ==
    ASSUME SInv, NEW c \in Tasks, NEW n \in opened .. MaxPool, opened' = n, NEW r \in Rows(n), Step(c, r),
           task[c].pc \notin {"constraints", "invalidate"},
           reg' \in 0 .. n, mcp' \in 0 .. n, UNCHANGED <<tableVars, cache>>
    PROVE  SInv'
  <1>1. TypeOK /\ opened \in 0 .. MaxPool /\ MaxPool \in Nat
    BY TypeIs, BoundsAssumption DEF SInv
  <1>2. n \in 0 .. MaxPool /\ \A x \in Rows(opened) : x \in Rows(n)
    BY <1>1 DEF Rows
  <1>3. /\ task' \in [Tasks -> Rows(n)]
        /\ \A d \in Tasks : d # c => task'[d] = task[d]
    BY <1>1, <1>2, TypeIs DEF Step
  <1>4. TypeOK'
    <2>1. live' \in {0, 1} /\ fld' \in {"none", "plain", "checked"} /\ meta' \in MetaRows /\ cache' \in [Pools -> Entries]
      BY <1>1, TypeIs DEF tableVars
    <2> QED  BY <1>2, <1>3, <2>1, TypeIs DEF TypeOK, Rows, Points, MetaRows, Entries
  <1>5. ASSUME NEW p \in Pools PROVE EntryTrue(p)'
    <2>1. EntryTrue(p) /\ Describe' = Describe /\ cache'[p] = cache[p]
      BY DEF SInv, tableVars, Describe
    <2>2. \A d \in Tasks : task[d].pc \in {"constraints", "invalidate"} => task'[d] = task[d]
      BY <1>3
    <2> QED  BY <2>1, <2>2 DEF EntryTrue
  <1>6. MetaFollowsTable'
    BY DEF SInv, MetaFollowsTable, tableVars
  <1> QED  BY <1>4, <1>5, <1>6 DEF SInv

(* The same, with the pools as they are. *)
LEMMA TaskSteps ==
    ASSUME SInv, NEW c \in Tasks, NEW r \in Rows(opened), Step(c, r),
           task[c].pc \notin {"constraints", "invalidate"}, UNCHANGED <<tableVars, poolVars, cache>>
    PROVE  SInv'
  <1>1. opened \in opened .. MaxPool /\ reg' \in 0 .. opened /\ mcp' \in 0 .. opened /\ opened' = opened
    BY TypeIs, BoundsAssumption DEF SInv, poolVars
  <1> QED  BY <1>1, TaskGoes

(* One entry is replaced by one that is true of the schema, or empty. *)
LEMMA EntryGoes ==
    ASSUME SInv, NEW c \in Tasks, Step(c, NoTask), NEW e \in Entries, NEW q,
           cache' = [cache EXCEPT ![q] = e], UNCHANGED <<tableVars, poolVars>>,
           task[c].pc \in {"constraints", "invalidate"} => q = task[c].p,
           e.v = <<>> \/ e.late \/ e.v = Describe
    PROVE  SInv'
  <1>1. TypeOK /\ opened \in Nat
    BY TypeIs, BoundsAssumption DEF SInv
  <1>2. cache' \in [Pools -> Entries] /\ \A p \in Pools : cache'[p] = IF p = q THEN e ELSE cache[p]
    BY <1>1, TypeIs
  <1>3. task' \in [Tasks -> Rows(opened)] /\ \A d \in Tasks : d # c => task'[d] = task[d]
    BY <1>1, TypeIs, NoTaskFields DEF Step
  <1>4. TypeOK'
    <2>1. /\ live' \in {0, 1} /\ fld' \in {"none", "plain", "checked"} /\ meta' \in MetaRows
          /\ opened' \in 0 .. MaxPool /\ reg' \in 0 .. opened' /\ mcp' \in 0 .. opened' /\ opened' = opened
      BY <1>1, TypeIs DEF tableVars, poolVars
    <2> QED  BY <1>2, <1>3, <2>1 DEF TypeOK, Rows, Points, MetaRows, Entries
  <1>5. ASSUME NEW p \in Pools PROVE EntryTrue(p)'
    <2>1. EntryTrue(p) /\ Describe' = Describe
      BY DEF SInv, tableVars, Describe
    <2>2. CASE p = q
      BY <1>2, <2>1, <2>2 DEF EntryTrue
    <2>3. CASE p # q
      <3>1. cache'[p] = cache[p]
        BY <1>2, <2>3
      <3>2. \A d \in Tasks : task[d].p = p /\ task[d].pc \in {"constraints", "invalidate"} => task'[d] = task[d]
        BY <1>3, <2>3
      <3> QED  BY <2>1, <3>1, <3>2 DEF EntryTrue
    <2> QED  BY <2>2, <2>3
  <1>6. MetaFollowsTable'
    BY DEF SInv, MetaFollowsTable, tableVars
  <1> QED  BY <1>4, <1>5, <1>6 DEF SInv

(* A committed write through the pool of c, and c on its way to the        *)
(* invalidation: the other pools are marked, c answers for its own.        *)
LEMMA WriteGoes ==
    ASSUME SInv, NEW c \in Tasks, NEW pc \in {"constraints", "invalidate"}, Goto(c, pc), Wrote(c),
           UNCHANGED poolVars, live' \in {0, 1}, fld' \in {"none", "plain", "checked"}, meta' \in MetaRows,
           MetaFollowsTable'
    PROVE  SInv'
  <1>1. TypeOK /\ opened \in Nat /\ task[c].p \in 0 .. opened
    BY TaskFields DEF SInv
  <1> DEFINE r == OpRow(pc, task[c].p)
  <1>2. r \in Rows(opened) /\ r.pc = pc /\ r.p = task[c].p
    BY <1>1, OpRowFields DEF Points
  <1>3. Step(c, r)
    BY DEF Goto, OpRow
  <1> HIDE DEF r
  <1>4. task' \in [Tasks -> Rows(opened)] /\ task'[c] = r /\ \A d \in Tasks : d # c => task'[d] = task[d]
    BY <1>1, <1>2, <1>3, TypeIs DEF Step
  <1>5. ASSUME NEW p \in Pools
        PROVE  /\ cache'[p] \in Entries /\ cache'[p].v = cache[p].v /\ cache'[p].late = cache[p].late
               /\ cache[p].missed => cache'[p].missed
               /\ cache[p].v # <<>> /\ p # task[c].p => cache'[p].missed
    <2>1. cache[p] \in Entries
      BY <1>1, TypeIs
    <2>2. PICK b \in BOOLEAN : b = (cache[p].missed \/ (cache[p].v # <<>> /\ p # task[c].p))
      OBVIOUS
    <2>3. cache'[p] = [cache[p] EXCEPT !.missed = b]
      BY <2>2 DEF Wrote
    <2>4. /\ cache'[p] \in Entries /\ cache'[p].v = cache[p].v /\ cache'[p].late = cache[p].late
          /\ cache'[p].missed = b
      BY <2>1, <2>3 DEF Entries
    <2> QED  BY <2>2, <2>4
  <1>6. cache' \in [Pools -> Entries]
    BY <1>5 DEF Wrote
  <1>7. TypeOK'
    <2>1. opened' \in 0 .. MaxPool /\ reg' \in 0 .. opened' /\ mcp' \in 0 .. opened' /\ opened' = opened
      BY <1>1, TypeIs DEF poolVars
    <2> QED  BY <1>4, <1>6, <2>1 DEF TypeOK, Rows, Points, MetaRows, Entries
  <1>8. ASSUME NEW p \in Pools PROVE EntryTrue(p)'
    <2>1. CASE p = task[c].p
      <3>1. task'[c].p = p /\ task'[c].pc \in {"constraints", "invalidate"}
        BY <1>2, <1>4, <2>1
      <3> QED  BY <3>1 DEF EntryTrue
    <2>2. CASE p # task[c].p
      BY <1>5, <2>2 DEF EntryTrue
    <2> QED  BY <2>1, <2>2
  <1> QED  BY <1>7, <1>8 DEF SInv

LEMMA HalfwayKeeps == ASSUME SInv, NEW c \in Tasks, FailsHalfway(c) PROVE SInv'
  <1>1. TypeOK /\ opened \in Nat
    BY TaskFields DEF SInv
  <1>2. task' \in [Tasks -> Rows(opened)]
    BY <1>1, TypeIs, NoTaskFields DEF FailsHalfway, Step
  <1>3. ASSUME NEW p \in Pools
        PROVE  cache'[p] \in Entries /\ cache'[p].v = cache[p].v /\ (cache[p].v # <<>> => cache'[p].missed)
    <2>1. cache[p] \in Entries
      BY <1>1, TypeIs
    <2>2. PICK b \in BOOLEAN : b = (cache[p].missed \/ cache[p].v # <<>>)
      BY <2>1 DEF Entries
    <2>3. cache'[p] = [cache[p] EXCEPT !.missed = b]
      BY <2>2 DEF FailsHalfway
    <2>4. cache'[p] \in Entries /\ cache'[p].v = cache[p].v /\ cache'[p].missed = b
      BY <2>1, <2>3 DEF Entries
    <2> QED  BY <2>2, <2>4
  <1>4. cache' \in [Pools -> Entries]
    BY <1>3 DEF FailsHalfway
  <1>5. /\ live' \in {0, 1} /\ fld' \in {"none", "plain", "checked"} /\ meta' \in MetaRows
        /\ opened' \in 0 .. MaxPool /\ reg' \in 0 .. opened' /\ mcp' \in 0 .. opened' /\ opened' = opened
    BY <1>1, TypeIs DEF FailsHalfway, tableVars, poolVars
  <1>6. TypeOK'
    BY <1>2, <1>4, <1>5 DEF TypeOK, Rows, Points, MetaRows, Entries
  <1>7. \A p \in Pools : EntryTrue(p)'
    BY <1>3 DEF EntryTrue
  <1>8. MetaFollowsTable'
    BY DEF SInv, MetaFollowsTable, FailsHalfway, tableVars
  <1> QED  BY <1>6, <1>7, <1>8 DEF SInv

(* The meta row after a write: con, caps and orphan as given. *)
MetaRow(con, caps, orphan) == [meta EXCEPT !.row = TRUE, !.con = con, !.caps = caps, !.orphan = orphan]
LEMMA MetaRowFields ==
    ASSUME meta \in MetaRows, NEW con \in BOOLEAN, NEW caps \in BOOLEAN, NEW orphan \in BOOLEAN
    PROVE  MetaRow(con, caps, orphan) \in MetaRows /\ MetaRow(con, caps, orphan).orphan = orphan
  BY DEF MetaRow, MetaRows
LEMMA MetaFields ==
    ASSUME meta \in MetaRows
    PROVE  meta.con \in BOOLEAN /\ meta.caps \in BOOLEAN /\ meta.orphan \in BOOLEAN /\ meta.row \in BOOLEAN
  BY DEF MetaRows

LEMMA MetaWrites ==
    ASSUME SInv, NEW c \in Tasks,
           (\E con \in BOOLEAN : CreateCollection(c, con)) \/ SetCaps(c) \/ WriteConstraints(c) \/ WriteDescription(c)
    PROVE  \E con, caps, orphan \in BOOLEAN :
              meta' = MetaRow(con, caps, orphan) /\ (live' = 0 => orphan)
  <1>1. meta \in MetaRows /\ live \in {0, 1}
    BY TypeIs DEF SInv
  <1>2. meta.con \in BOOLEAN /\ meta.caps \in BOOLEAN /\ meta.orphan \in BOOLEAN /\ meta.row \in BOOLEAN
    BY <1>1, MetaFields
  <1>3. live = 0 => meta.orphan \/ ~meta.row
    BY <1>2 DEF SInv, MetaFollowsTable
  <1>4. ASSUME NEW con \in BOOLEAN, CreateCollection(c, con) PROVE meta' = MetaRow(meta.con \/ con, FALSE, FALSE) /\ live' = 1
    BY <1>1, <1>4 DEF CreateCollection, MetaRow, MetaRows
  <1>5. ASSUME SetCaps(c) PROVE meta' = MetaRow(meta.con, ~meta.caps, meta.orphan) /\ live' # 0
    BY <1>1, <1>5 DEF SetCaps, MetaRow, MetaRows
  <1>6. ASSUME WriteConstraints(c)
        PROVE  meta' = MetaRow(TRUE, meta.caps, meta.orphan \/ (~meta.row /\ live = 0)) /\ live' = live
    BY <1>1, <1>6 DEF WriteConstraints, MetaRow, MetaRows
  <1>7. ASSUME WriteDescription(c)
        PROVE  meta' = MetaRow(meta.con, meta.caps, meta.orphan \/ (~meta.row /\ live = 0)) /\ live' = live
    BY <1>1, <1>7 DEF WriteDescription, MetaRow, MetaRows
  <1>8. ASSUME NEW x, NEW y, NEW z, x \in BOOLEAN, y \in BOOLEAN, z \in BOOLEAN, meta' = MetaRow(x, y, z), live' = 0 => z
        PROVE  \E con, caps, orphan \in BOOLEAN : meta' = MetaRow(con, caps, orphan) /\ (live' = 0 => orphan)
    BY <1>8
  <1> HIDE DEF MetaRow
  <1>9. ASSUME NEW con \in BOOLEAN, CreateCollection(c, con)
        PROVE  \E k, caps, orphan \in BOOLEAN : meta' = MetaRow(k, caps, orphan) /\ (live' = 0 => orphan)
    <2> DEFINE k == meta.con \/ con
               no == FALSE
    <2>1. k \in BOOLEAN /\ no \in BOOLEAN
      OBVIOUS
    <2>2. meta' = MetaRow(k, no, no) /\ live' = 1
      BY <1>4, <1>9, Zenon
    <2>3. ~(live' = 0)
      BY <2>2
    <2> HIDE DEF k, no
    <2> QED  BY <1>8, <2>1, <2>2, <2>3
  <1>10. CASE SetCaps(c)
    <2>1. (~meta.caps) \in BOOLEAN
      OBVIOUS
    <2> QED  BY <1>2, <1>5, <1>8, <1>10, <2>1
  <1> DEFINE o == meta.orphan \/ (~meta.row /\ live = 0)
  <1>11. o \in BOOLEAN /\ TRUE \in BOOLEAN /\ (live = 0 => o)
    BY <1>3
  <1> HIDE DEF o
  <1>12. CASE WriteConstraints(c)
    <2>1. meta' = MetaRow(TRUE, meta.caps, o) /\ live' = live
      BY <1>6, <1>12 DEF o
    <2> QED  BY <1>2, <1>8, <1>11, <2>1
  <1>13. CASE WriteDescription(c)
    <2>1. meta' = MetaRow(meta.con, meta.caps, o) /\ live' = live
      BY <1>7, <1>13 DEF o
    <2> QED  BY <1>2, <1>8, <1>11, <2>1
  <1> QED  BY <1>9, <1>10, <1>12, <1>13

LEMMA MetaKeeps ==
    ASSUME SInv, NEW c \in Tasks,
           (\E con \in BOOLEAN : CreateCollection(c, con)) \/ SetCaps(c) \/ WriteConstraints(c) \/ WriteDescription(c)
    PROVE  SInv'
  <1>1. PICK con, caps, orphan \in BOOLEAN : meta' = MetaRow(con, caps, orphan) /\ (live' = 0 => orphan)
    BY MetaWrites
  <1>2. meta \in MetaRows /\ live \in {0, 1} /\ fld \in {"none", "plain", "checked"}
    BY TypeIs DEF SInv
  <1>3. meta' \in MetaRows /\ meta'.orphan = orphan
    BY <1>1, <1>2, MetaRowFields
  <1>4. MetaFollowsTable'
    BY <1>1, <1>3 DEF MetaFollowsTable
  <1>5. live' \in {0, 1} /\ fld' \in {"none", "plain", "checked"} /\ UNCHANGED poolVars
    BY <1>2 DEF CreateCollection, SetCaps, WriteConstraints, WriteDescription
  <1>6. Goto(c, "invalidate") /\ Wrote(c)
    BY DEF CreateCollection, SetCaps, WriteConstraints, WriteDescription
  <1> QED  BY <1>3, <1>4, <1>5, <1>6, WriteGoes

LEMMA TableKeeps ==
    ASSUME SInv, NEW c \in Tasks,
           DropCollection(c) \/ DropField(c) \/ (\E con \in BOOLEAN : AddField(c, con))
    PROVE  SInv'
  <1>1. meta \in MetaRows /\ live \in {0, 1} /\ NoMeta \in MetaRows /\ NoMeta.row = FALSE
    BY TypeIs DEF SInv, NoMeta, MetaRows
  <1>2. live' \in {0, 1} /\ fld' \in {"none", "plain", "checked"} /\ meta' \in MetaRows /\ UNCHANGED poolVars
    BY <1>1 DEF DropCollection, DropField, AddField
  <1>3. MetaFollowsTable'
    BY <1>1 DEF SInv, MetaFollowsTable, DropCollection, DropField, AddField
  <1>4. Wrote(c) /\ \E pc \in {"constraints", "invalidate"} : Goto(c, pc)
    BY DEF DropCollection, DropField, AddField
  <1> QED  BY <1>2, <1>3, <1>4, WriteGoes

LEMMA PoolKeeps ==
    ASSUME SInv, NEW c \in Tasks, (\E face \in {"rest", "mcp"} : TakePool(c, face)) \/ InsertPool(c)
    PROVE  SInv'
  <1>1. /\ TypeOK /\ opened \in Nat /\ MaxPool \in Nat /\ opened \in 0 .. MaxPool
        /\ reg \in 0 .. opened /\ mcp \in 0 .. opened
    BY TypeIs, TaskFields DEF SInv
  <1>2. ASSUME NEW face \in {"rest", "mcp"}, TakePool(c, face) PROVE SInv'
    <2> DEFINE p == IF face = "mcp" /\ mcp # 0 THEN mcp ELSE reg
    <2>1. p \in 0 .. opened
      BY <1>1
    <2>2. UNCHANGED <<tableVars, reg, cache>> /\ task[c].pc \notin {"constraints", "invalidate"}
      BY <1>2 DEF TakePool
    <2>3. ASSUME Step(c, PoolRow("ready", p, face)), mcp' \in {p, mcp}, UNCHANGED opened PROVE SInv'
      <3>1. opened \in opened .. MaxPool /\ opened' = opened /\ reg' \in 0 .. opened /\ mcp' \in 0 .. opened
        BY <1>1, <2>1, <2>2, <2>3
      <3>2. PoolRow("ready", p, face) \in Rows(opened)
        BY <1>1, <2>1, PoolRowFields DEF Points
      <3> HIDE DEF p
      <3> QED  BY <2>2, <2>3, <3>1, <3>2, TaskGoes
    <2>4. ASSUME opened < MaxPool, opened' = opened + 1, UNCHANGED mcp, Step(c, PoolRow("opened", opened + 1, face))
          PROVE  SInv'
      <3> DEFINE n == opened + 1
      <3>1. n \in opened .. MaxPool /\ opened' = n /\ reg' \in 0 .. n /\ mcp' \in 0 .. n /\ n \in Nat /\ n \in 0 .. n
        BY <1>1, <2>2, <2>4
      <3>2. PoolRow("opened", n, face) \in Rows(n)
        BY <3>1, PoolRowFields DEF Points
      <3>3. Step(c, PoolRow("opened", n, face))
        BY <2>4
      <3> HIDE DEF n
      <3> QED  BY <2>2, <3>1, <3>2, <3>3, TaskGoes
    <2> QED  BY <1>2, <2>3, <2>4 DEF TakePool, PoolRow
  <1>3. ASSUME InsertPool(c) PROVE SInv'
    <2>1. task[c] \in Rows(opened) /\ task[c].p \in 0 .. opened
      BY <1>1, TaskFields, TypeIs
    <2> DEFINE r == [task[c] EXCEPT !.pc = "ready"]
    <2>2. r \in Rows(opened)
      BY <2>1 DEF Rows, Points
    <2>3. Step(c, r) /\ task[c].pc \notin {"constraints", "invalidate"} /\ UNCHANGED <<tableVars, cache>>
      BY <1>3 DEF InsertPool
    <2>4. opened \in opened .. MaxPool /\ opened' = opened /\ reg' \in 0 .. opened /\ mcp' \in 0 .. opened
      BY <1>1, <1>3, <2>1 DEF InsertPool
    <2> HIDE DEF r
    <2> QED  BY <2>2, <2>3, <2>4, TaskGoes
  <1> QED  BY <1>2, <1>3

LEMMA CacheKeeps ==
    ASSUME SInv, NEW c \in Tasks, EnsureLoaded(c) \/ InsertSchema(c) \/ Invalidate(c)
    PROVE  SInv'
  <1>1. TypeOK /\ opened \in Nat /\ task[c].p \in 0 .. opened /\ task[c].v \in Schemas
    BY TaskFields DEF SInv
  <1>2. ASSUME EnsureLoaded(c) PROVE SInv'
    <2>1. UNCHANGED <<tableVars, poolVars, cache>> /\ task[c].pc \notin {"constraints", "invalidate"}
      BY <1>2 DEF EnsureLoaded, Ready
    <2>2. Step(c, ReadRow(task[c].p, Describe)) \/ Step(c, NoTask)
      BY <1>2 DEF EnsureLoaded, ReadRow
    <2>3. ReadRow(task[c].p, Describe) \in Rows(opened) /\ NoTask \in Rows(opened)
      BY <1>1, ReadRowFields, DescribeTyped, NoTaskFields
    <2> QED  BY <2>1, <2>2, <2>3, TaskSteps
  <1>3. ASSUME InsertSchema(c) PROVE SInv'
    <2>1. PICK b \in BOOLEAN : b = (task[c].v # Describe)
      OBVIOUS
    <2> DEFINE e == [v |-> task[c].v, late |-> b, missed |-> FALSE]
    <2>2. e \in Entries /\ e.v = task[c].v /\ e.late = b
      BY <1>1 DEF Entries
    <2>3. /\ cache' = [cache EXCEPT ![task[c].p] = e] /\ Step(c, NoTask) /\ UNCHANGED <<tableVars, poolVars>>
          /\ task[c].pc = "insert"
      BY <1>3, <2>1 DEF InsertSchema
    <2> HIDE DEF e
    <2>4. e.v = <<>> \/ e.late \/ e.v = Describe
      BY <2>1, <2>2
    <2> QED  BY <2>2, <2>3, <2>4, EntryGoes
  <1>4. ASSUME Invalidate(c) PROVE SInv'
    <2>1. Empty \in Entries /\ Empty.v = <<>>
      BY DEF Empty, Entries, Schemas
    <2>2. /\ cache' = [cache EXCEPT ![task[c].p] = Empty] /\ Step(c, NoTask) /\ UNCHANGED <<tableVars, poolVars>>
      BY <1>4 DEF Invalidate
    <2> QED  BY <2>1, <2>2, EntryGoes
  <1> QED  BY <1>2, <1>3, <1>4

LEMMA ReadsKeep == ASSUME SInv, NEW c \in Tasks, CheckDescription(c) \/ Refused(c) PROVE SInv'
  <1>1. opened \in Nat /\ task[c].p \in 0 .. opened
    BY TaskFields DEF SInv
  <1>2. UNCHANGED <<tableVars, poolVars, cache>> /\ task[c].pc \notin {"constraints", "invalidate"}
    BY DEF CheckDescription, Refused, Ready
  <1>3. Step(c, OpRow("describe", task[c].p)) \/ Step(c, NoTask)
    BY DEF CheckDescription, Refused, Goto, OpRow
  <1>4. OpRow("describe", task[c].p) \in Rows(opened) /\ NoTask \in Rows(opened)
    BY <1>1, OpRowFields, NoTaskFields DEF Points
  <1> QED  BY <1>2, <1>3, <1>4, TaskSteps

LEMMA SStep == ASSUME SInv, Next PROVE SInv'
  <1>1. PICK c \in Tasks : \/ \E face \in {"rest", "mcp"} : TakePool(c, face)
                           \/ InsertPool(c) \/ EnsureLoaded(c) \/ InsertSchema(c) \/ Invalidate(c) \/ Change(c)
    BY DEF Next
  <1>2. CASE Change(c)
    BY <1>2, MetaKeeps, TableKeeps, HalfwayKeeps, ReadsKeep
       DEF Change, McpCreateCollection, McpAddField, McpDropField, AdminUpdateCollectionDescription
  <1> QED  BY <1>1, <1>2, PoolKeeps, CacheKeeps

LEMMA SInvariant == Spec => []SInv
  <1>1. SInv /\ [Next]_vars => SInv'
    <2> SUFFICES ASSUME SInv, [Next]_vars PROVE SInv'
      OBVIOUS
    <2>1. CASE UNCHANGED vars
      BY <2>1 DEF vars, SInv, TypeOK, EntryTrue, Describe, MetaFollowsTable
    <2> QED  BY <2>1, SStep
  <1> QED  BY <1>1, SInitial, PTL DEF Spec

(* Every value of the schema, its caches and its requests has its type. *)
THEOREM SchemaTypes == Spec => []TypeOK
  <1>1. SInv => TypeOK
    BY DEF SInv
  <1> QED  BY <1>1, SInvariant, PTL

(* Every change of a schema reaches the cache of the pool it went through, *)
(* for any number of pools and requests: schema_cache.rs is invalidated by *)
(* each operation of schema.rs and collections.rs after its last write.    *)
THEOREM ChangesReachCache == Spec => []ChangesInvalidate
  <1>1. SInv => ChangesInvalidate
    BY DEF SInv, EntryTrue, ChangesInvalidate
  <1> QED  BY <1>1, SInvariant, PTL

(* No operation that checks for the table in its writer closure leaves a   *)
(* row of _system_collection_meta without a table.                         *)
THEOREM MetaRowsFollow == Spec => []MetaFollowsTable
  <1>1. SInv => MetaFollowsTable
    BY DEF SInv
  <1> QED  BY <1>1, SInvariant, PTL

----------------------------------------------------------------------------
(***************************************************************************)
(* Registries and foreign keys.  RegistryTruth and NoDanglingFk need that  *)
(* a table that is gone has no columns, that an index is only ever         *)
(* described under its own collection, and that while drop_collection is   *)
(* past its check every new reference to the collection is marked.         *)
(***************************************************************************)

TableRows == [live : BOOLEAN, col : [Fields -> Kinds], rows : SUBSET RowIds]
HeadRows == [on : BOOLEAN, fields : SUBSET Fields, docs : SUBSET RowIds]
FtsEntries == [name : FtsNames, fields : SUBSET Fields]
Registries == [fts : SUBSET FtsEntries, vec : SUBSET Fields, idesc : SUBSET IndexNames, fdesc : SUBSET Fields]
Marks == [cols : SUBSET (Colls \X Fields), ixs : SUBSET IndexNames]

OpOK(r) ==
    /\ r.pc # "idle" => r.c \in Colls
    /\ r.pc \in {"index", "idesc", "unindex"} => r.ix \in IndexNames
    /\ r.pc \in {"index", "idesc"} => r.ix[1] = r.c
    /\ r.pc \in {"fts", "unfts"} => r.n \in FtsNames
    /\ r.pc = "fts" => r.fs \in SUBSET Fields
    /\ r.pc \in {"add", "vec", "dropcol", "unvec", "fdesc"} => r.f \in Fields
    /\ r.pc = "add" => r.kind \in Kinds
    /\ r.pc = "create" => r.col \in [Fields -> Kinds]
IShape ==
    /\ tbl \in [Colls -> TableRows] /\ heads \in [Colls \X FtsNames -> HeadRows]
    /\ imeta \in [Colls -> Registries] /\ sidx \in SUBSET IndexNames /\ crossed \in Marks
    /\ DOMAIN itask = ITasks /\ \A t \in ITasks : OpOK(itask[t])

Bare(c) == ~tbl[c].live => \A f \in Fields : tbl[c].col[f] = "none"
FtsTrue(c) ==
    /\ ~tbl[c].live => imeta[c].fts = {}
    /\ imeta[c].fts = {[name |-> n, fields |-> heads[<<c, n>>].fields] : n \in {m \in FtsNames : heads[<<c, m>>].on}}
    /\ \A n \in FtsNames : heads[<<c, n>>].on =>
        heads[<<c, n>>].docs = tbl[c].rows /\ heads[<<c, n>>].fields \subseteq Cols(c)
DescTrue(c) == \A ix \in imeta[c].idesc : ix[1] = c /\ (ix \in sidx \/ ix \in crossed.ixs)
Unvec(c, f) == \E t \in ITasks : itask[t].pc = "unvec" /\ itask[t].c = c /\ itask[t].f = f
VecTrue(c) == \A f \in imeta[c].vec : tbl[c].col[f] = "vec" \/ <<c, f>> \in crossed.cols \/ Unvec(c, f)
FkTrue(c) == \A f \in Fields, d \in Colls :
    tbl[c].live /\ tbl[c].col[f] = d => tbl[d].live \/ <<c, f>> \in crossed.cols
RefsMarked(d) == \A c \in Colls \ {d}, f \in Fields :
    tbl[c].live /\ tbl[c].col[f] = d => <<c, f>> \in crossed.cols
DropTrue == \A t \in ITasks : itask[t].pc = "drop" => RefsMarked(itask[t].c)
True(c) == Bare(c) /\ FtsTrue(c) /\ DescTrue(c) /\ VecTrue(c) /\ FkTrue(c)

IInv == IShape /\ (\A c \in Colls : True(c)) /\ DropTrue

LEMMA TableFields ==
    ASSUME IShape, NEW c \in Colls
    PROVE  /\ tbl[c] \in TableRows /\ tbl[c].live \in BOOLEAN /\ tbl[c].col \in [Fields -> Kinds]
           /\ tbl[c].rows \in SUBSET RowIds /\ Cols(c) \in SUBSET Fields
  <1>1. tbl[c] \in TableRows
    BY DEF IShape
  <1> QED  BY <1>1 DEF TableRows, Cols
LEMMA RegistryFields ==
    ASSUME IShape, NEW c \in Colls
    PROVE  /\ imeta[c] \in Registries /\ imeta[c].fts \in SUBSET FtsEntries /\ imeta[c].vec \in SUBSET Fields
           /\ imeta[c].idesc \in SUBSET IndexNames /\ imeta[c].fdesc \in SUBSET Fields
  <1>1. imeta[c] \in Registries
    BY DEF IShape
  <1> QED  BY <1>1 DEF Registries
LEMMA MarkFields == ASSUME IShape PROVE crossed.cols \in SUBSET (Colls \X Fields) /\ crossed.ixs \in SUBSET IndexNames
  <1>1. crossed \in Marks
    BY DEF IShape
  <1> QED  BY <1>1 DEF Marks

LEMMA IInitial == IInit => IInv
  <1> SUFFICES ASSUME IInit PROVE IInv
    OBVIOUS
  <1> DEFINE T == [NoTable EXCEPT !.live = TRUE, !.col = [f \in Fields |-> "text"]]
  <1>1. T \in TableRows /\ T.live = TRUE /\ T.rows = {} /\ \A f \in Fields : T.col[f] = "text"
    BY DEF NoTable, TableRows, Kinds
  <1>2. NoRegistry \in Registries /\ NoRegistry.fts = {} /\ NoRegistry.vec = {} /\ NoRegistry.idesc = {}
    BY DEF NoRegistry, Registries
  <1>3. NoHead \in HeadRows /\ NoHead.on = FALSE
    BY DEF NoHead, HeadRows
  <1>4. [cols |-> {}, ixs |-> {}] \in Marks
    BY DEF Marks
  <1>5. OpOK(IIdle) /\ IIdle.pc = "idle"
    BY DEF OpOK, IIdle
  <1>6. \A c \in Colls : tbl[c] = T /\ imeta[c] = NoRegistry /\ \A n \in FtsNames : heads[<<c, n>>] = NoHead
    BY DEF IInit
  <1>7. IShape
    <2> HIDE DEF T
    <2>1. tbl = [c \in Colls |-> T] /\ itask = [t \in ITasks |-> IIdle] /\ imeta = [c \in Colls |-> NoRegistry]
          /\ heads = [x \in Colls \X FtsNames |-> NoHead] /\ sidx = {} /\ crossed = [cols |-> {}, ixs |-> {}]
      BY DEF IInit, T
    <2>2. tbl \in [Colls -> TableRows] /\ imeta \in [Colls -> Registries] /\ heads \in [Colls \X FtsNames -> HeadRows]
      BY <1>1, <1>2, <1>3, <2>1
    <2> QED  BY <1>4, <1>5, <2>1, <2>2 DEF IShape
  <1> HIDE DEF T
  <1>8. ASSUME NEW c \in Colls PROVE True(c)
    <2>1. FtsTrue(c)
      BY <1>1, <1>2, <1>3, <1>6 DEF FtsTrue
    <2>2. Bare(c) /\ DescTrue(c) /\ VecTrue(c)
      BY <1>1, <1>2, <1>6 DEF Bare, DescTrue, VecTrue
    <2>3. FkTrue(c)
      BY <1>1, <1>6 DEF FkTrue
    <2> QED  BY <2>1, <2>2, <2>3 DEF True
  <1>9. DropTrue
    BY <1>5 DEF DropTrue, IInit
  <1> QED  BY <1>7, <1>8, <1>9 DEF IInv

----------------------------------------------------------------------------
(* What a step has to show of the operations. *)
LEMMA OpsTyped ==
    ASSUME IShape, NEW t \in ITasks, NEW r, OpOK(r), IGoto(t, r)
    PROVE  DOMAIN itask' = ITasks /\ \A u \in ITasks : OpOK(itask'[u])
  BY DEF IShape, IGoto

LEMMA UnvecStays ==
    ASSUME IShape, NEW t \in ITasks, NEW r, IGoto(t, r), NEW c, NEW f, Unvec(c, f),
           ~(itask[t].pc = "unvec" /\ itask[t].c = c /\ itask[t].f = f)
    PROVE  Unvec(c, f)'
  <1>1. PICK u \in ITasks : itask[u].pc = "unvec" /\ itask[u].c = c /\ itask[u].f = f
    BY DEF Unvec
  <1>2. u # t /\ itask'[u] = itask[u]
    BY <1>1 DEF IGoto, IShape
  <1> QED  BY <1>1, <1>2 DEF Unvec

RefsStay == \A d \in Colls : RefsMarked(d) => RefsMarked(d)'
LEMMA DropsStay ==
    ASSUME IShape, DropTrue, RefsStay, NEW t \in ITasks, NEW r, OpOK(r), IGoto(t, r),
           r.pc = "drop" => RefsMarked(r.c)
    PROVE  DropTrue'
  <1>1. \A u \in ITasks : itask'[u] = IF u = t THEN r ELSE itask[u]
    BY DEF IGoto, IShape
  <1>2. ASSUME NEW u \in ITasks, itask'[u].pc = "drop", NEW d, d = itask'[u].c PROVE RefsMarked(d)'
    <2>1. RefsMarked(d) /\ d \in Colls
      <3>1. CASE u = t
        BY <1>1, <1>2, <3>1 DEF OpOK
      <3>2. CASE u # t
        BY <1>1, <1>2, <3>2 DEF DropTrue, IShape, OpOK
      <3> QED  BY <3>1, <3>2
    <2> QED  BY <2>1 DEF RefsStay
  <1>3. ASSUME NEW u \in ITasks, itask'[u].pc = "drop" PROVE RefsMarked(itask[u].c)'
    BY <1>2, <1>3 DEF RefsMarked
  <1> QED  BY <1>3 DEF DropTrue

LEMMA RefsRest == ASSUME UNCHANGED tbl, crossed'.cols = crossed.cols PROVE RefsStay
  BY DEF RefsStay, RefsMarked

(* A step that only reads. *)
LEMMA ReadsOnly ==
    ASSUME IInv, NEW t \in ITasks, NEW r, OpOK(r), IGoto(t, r), OnlyReads, itask[t].pc # "unvec",
           r.pc = "drop" => RefsMarked(r.c)
    PROVE  IInv'
  <1>1. IShape /\ DropTrue /\ UNCHANGED <<tbl, sidx, heads, imeta, crossed>>
    BY DEF IInv, OnlyReads
  <1>2. DOMAIN itask' = ITasks /\ \A u \in ITasks : OpOK(itask'[u])
    BY <1>1, OpsTyped
  <1>3. IShape'
    BY <1>1, <1>2 DEF IShape, OpOK
  <1>4. DropTrue'
    BY <1>1, RefsRest, DropsStay
  <1>5. ASSUME NEW c \in Colls PROVE True(c)'
    <2>1. True(c)
      BY DEF IInv
    <2>2. Bare(c)' /\ FtsTrue(c)' /\ DescTrue(c)' /\ FkTrue(c)'
      BY <1>1, <2>1 DEF True, Bare, FtsTrue, DescTrue, FkTrue, Cols
    <2>3. \A f : Unvec(c, f) => Unvec(c, f)'
      BY <1>1, UnvecStays
    <2>4. VecTrue(c)'
      BY <1>1, <2>1, <2>3 DEF True, VecTrue
    <2> QED  BY <2>2, <2>4 DEF True
  <1> QED  BY <1>3, <1>4, <1>5 DEF IInv

LEMMA BeginKeeps ==
    ASSUME IInv, NEW t \in ITasks, NEW r, OpOK(r), Begin(t, r), OnlyReads, r.pc = "drop" => RefsMarked(r.c)
    PROVE  IInv'
  BY ReadsOnly DEF Begin, IAt

LEMMA IndexBegins ==
    ASSUME IInv, NEW t \in ITasks, NEW c \in Colls,
           \/ \E fs \in SUBSET Fields : \E force, desc : CreateIndexCheck(t, c, fs, force, desc)
           \/ \E ix \in sidx : DropIndexCheck(t, c, ix) \/ PutIndexDescription(t, c, ix)
           \/ \E f \in Fields : PutFieldDescription(t, c, f)
    PROVE  IInv'
  <1>1. ASSUME NEW fs \in SUBSET Fields, NEW force, NEW desc, CreateIndexCheck(t, c, fs, force, desc) PROVE IInv'
    <2> DEFINE ix == <<c, fs>>
               r == [pc |-> "index", c |-> c, ix |-> ix, desc |-> desc]
    <2>0. fs # {}
      BY <1>1 DEF CreateIndexCheck
    <2>1. ix \in IndexNames /\ ix[1] = c
      <3>1. fs \in (SUBSET Fields) \ {{}}
        BY <2>0
      <3>2. ix \in Colls \X ((SUBSET Fields) \ {{}})
        BY <3>1
      <3>3. ix[1] = c
        OBVIOUS
      <3> QED  BY <3>2, <3>3 DEF IndexNames
    <2>2. Begin(t, r) /\ OnlyReads
      BY <1>1 DEF CreateIndexCheck
    <2> HIDE DEF ix
    <2>3. OpOK(r) /\ r.pc = "index"
      BY <2>1 DEF OpOK
    <2> HIDE DEF r
    <2> QED  BY <2>2, <2>3, BeginKeeps
  <1>2. ASSUME NEW ix \in sidx, DropIndexCheck(t, c, ix) PROVE IInv'
    <2> DEFINE r == [pc |-> "unindex", c |-> c, ix |-> ix]
    <2>1. ix \in IndexNames
      BY DEF IInv, IShape
    <2>2. OpOK(r) /\ r.pc = "unindex"
      BY <2>1 DEF OpOK
    <2>3. Begin(t, r) /\ OnlyReads
      BY <1>2 DEF DropIndexCheck
    <2> HIDE DEF r
    <2> QED  BY <2>2, <2>3, BeginKeeps
  <1>3. ASSUME NEW ix \in sidx, PutIndexDescription(t, c, ix) PROVE IInv'
    <2> DEFINE r == [pc |-> "idesc", c |-> c, ix |-> ix]
    <2>1. ix \in IndexNames /\ ix[1] = c
      BY <1>3 DEF IInv, IShape, PutIndexDescription
    <2>2. OpOK(r) /\ r.pc = "idesc"
      BY <2>1 DEF OpOK
    <2>3. Begin(t, r) /\ OnlyReads
      BY <1>3 DEF PutIndexDescription
    <2> HIDE DEF r
    <2> QED  BY <2>2, <2>3, BeginKeeps
  <1>4. ASSUME NEW f \in Fields, PutFieldDescription(t, c, f) PROVE IInv'
    <2> DEFINE r == [pc |-> "fdesc", c |-> c, f |-> f]
    <2>1. OpOK(r) /\ r.pc = "fdesc"
      BY DEF OpOK
    <2>2. Begin(t, r) /\ OnlyReads
      BY <1>4 DEF PutFieldDescription
    <2> HIDE DEF r
    <2> QED  BY <2>1, <2>2, BeginKeeps
  <1> QED  BY <1>1, <1>2, <1>3, <1>4

LEMMA TableBegins ==
    ASSUME IInv, NEW t \in ITasks, NEW c \in Colls,
           \/ \E n \in FtsNames : DropFtsCheck(t, c, n) \/ \E fs \in SUBSET Fields : CreateFtsCheck(t, c, n, fs)
           \/ \E f \in Fields : DropFieldCheck(t, c, f) \/ \E k \in Kinds : \E b : AddFieldCheck(t, c, f, k, b)
           \/ DropCollectionCheck(t, c) \/ \E col \in [Fields -> Kinds] : CreateCollectionCheck(t, c, col)
    PROVE  IInv'
  <1>1. ASSUME NEW n \in FtsNames, DropFtsCheck(t, c, n) PROVE IInv'
    <2> DEFINE r == [pc |-> "unfts", c |-> c, n |-> n]
    <2>1. OpOK(r) /\ r.pc = "unfts" /\ Begin(t, r) /\ OnlyReads
      BY <1>1 DEF OpOK, DropFtsCheck
    <2> HIDE DEF r
    <2> QED  BY <2>1, BeginKeeps
  <1>2. ASSUME NEW n \in FtsNames, NEW fs \in SUBSET Fields, CreateFtsCheck(t, c, n, fs) PROVE IInv'
    <2> DEFINE r == [pc |-> "fts", c |-> c, n |-> n, fs |-> fs]
    <2>1. OpOK(r) /\ r.pc = "fts"
      BY DEF OpOK
    <2>2. Begin(t, r) /\ OnlyReads
      BY <1>2 DEF CreateFtsCheck
    <2> HIDE DEF r
    <2> QED  BY <2>1, <2>2, BeginKeeps
  <1>3. ASSUME NEW f \in Fields, DropFieldCheck(t, c, f) PROVE IInv'
    <2> DEFINE r == [pc |-> "dropcol", c |-> c, f |-> f]
    <2>1. OpOK(r) /\ r.pc = "dropcol"
      BY DEF OpOK
    <2>2. Begin(t, r) /\ OnlyReads
      BY <1>3 DEF DropFieldCheck
    <2> HIDE DEF r
    <2> QED  BY <2>1, <2>2, BeginKeeps
  <1>4. ASSUME NEW f \in Fields, NEW k \in Kinds, NEW b, AddFieldCheck(t, c, f, k, b) PROVE IInv'
    <2> DEFINE r == [pc |-> "add", c |-> c, f |-> f, kind |-> k, desc |-> b]
    <2>1. OpOK(r) /\ r.pc = "add"
      BY DEF OpOK
    <2>2. Begin(t, r) /\ OnlyReads
      BY <1>4 DEF AddFieldCheck
    <2> HIDE DEF r
    <2> QED  BY <2>1, <2>2, BeginKeeps
  <1>5. ASSUME DropCollectionCheck(t, c) PROVE IInv'
    <2> DEFINE r == [pc |-> "drop", c |-> c]
    <2>1. OpOK(r) /\ r.c = c
      BY DEF OpOK
    <2>2. Begin(t, r) /\ OnlyReads /\ FindFkReferrers(c) = {}
      BY <1>5 DEF DropCollectionCheck
    <2>3. RefsMarked(c)
      <3>1. ASSUME NEW d \in Colls \ {c}, NEW f \in Fields, tbl[d].live, tbl[d].col[f] = c PROVE FALSE
        <4>1. <<d, f>> \in (Colls \ {c}) \X Fields /\ <<d, f>>[1] = d /\ <<d, f>>[2] = f
          OBVIOUS
        <4>2. <<d, f>> \in FindFkReferrers(c)
          BY <3>1, <4>1 DEF FindFkReferrers
        <4> QED  BY <2>2, <4>2
      <3> QED  BY <3>1 DEF RefsMarked
    <2> HIDE DEF r
    <2> QED  BY <2>1, <2>2, <2>3, BeginKeeps
  <1>6. ASSUME NEW col \in [Fields -> Kinds], CreateCollectionCheck(t, c, col) PROVE IInv'
    <2> DEFINE r == [pc |-> "create", c |-> c, col |-> col]
    <2>1. OpOK(r) /\ r.pc = "create"
      BY DEF OpOK
    <2>2. Begin(t, r) /\ OnlyReads
      BY <1>6 DEF CreateCollectionCheck
    <2> HIDE DEF r
    <2> QED  BY <2>1, <2>2, BeginKeeps
  <1> QED  BY <1>1, <1>2, <1>3, <1>4, <1>5, <1>6

LEMMA IdleRow == OpOK(IIdle) /\ IIdle.pc = "idle"
  BY DEF OpOK, IIdle

LEMMA AbandonKeeps == ASSUME IInv, NEW t \in ITasks, ~IAt(t, "unvec"), Abandon(t) PROVE IInv'
  BY IdleRow, ReadsOnly DEF Abandon, IAt, IReturn

----------------------------------------------------------------------------
(* Indexes and descriptions: tables, full-text tables and vectors rest. *)
LEMMA DescMoves ==
    ASSUME IInv, UNCHANGED <<tbl, heads>>, sidx' \in SUBSET IndexNames, crossed' \in Marks,
           crossed'.cols = crossed.cols, imeta' \in [Colls -> Registries],
           \A c \in Colls : imeta'[c].fts = imeta[c].fts /\ imeta'[c].vec = imeta[c].vec,
           \A c \in Colls : DescTrue(c)',
           UNCHANGED itask \/ (\E t \in ITasks : \E r : OpOK(r) /\ IGoto(t, r) /\ itask[t].pc # "unvec" /\ r.pc # "drop")
    PROVE  IInv'
  <1>1. IShape /\ DropTrue
    BY DEF IInv
  <1>2. DOMAIN itask' = ITasks /\ \A u \in ITasks : OpOK(itask'[u])
    BY <1>1, OpsTyped DEF IShape
  <1>3. IShape'
    BY <1>1, <1>2 DEF IShape, OpOK
  <1>4. RefsStay
    BY RefsRest
  <1>5. DropTrue'
    <2>1. CASE UNCHANGED itask
      BY <1>1, <1>4, <2>1 DEF DropTrue, RefsStay, RefsMarked
    <2>2. ASSUME NEW t \in ITasks, NEW r, OpOK(r), IGoto(t, r), r.pc # "drop" PROVE DropTrue'
      BY <1>1, <1>4, <2>2, DropsStay
    <2> QED  BY <2>1, <2>2
  <1>6. \A c, f : Unvec(c, f) => Unvec(c, f)'
    <2>1. CASE UNCHANGED itask
      BY <2>1 DEF Unvec
    <2>2. ASSUME NEW t \in ITasks, NEW r, IGoto(t, r), itask[t].pc # "unvec" PROVE \A c, f : Unvec(c, f) => Unvec(c, f)'
      BY <1>1, <2>2, UnvecStays
    <2> QED  BY <2>1, <2>2
  <1>7. ASSUME NEW c \in Colls PROVE True(c)'
    <2>1. True(c) /\ DescTrue(c)'
      BY DEF IInv
    <2>2. Bare(c)' /\ FtsTrue(c)' /\ FkTrue(c)'
      BY <2>1 DEF True, Bare, FtsTrue, FkTrue, Cols
    <2>3. VecTrue(c)'
      BY <1>6, <2>1 DEF True, VecTrue
    <2> QED  BY <2>1, <2>2, <2>3 DEF True
  <1> QED  BY <1>3, <1>5, <1>7 DEF IInv

(* A row of the registry with other descriptions; marks with other parts. *)
IdescRow(c, s) == [imeta[c] EXCEPT !.idesc = s]
FdescRow(c, s) == [imeta[c] EXCEPT !.fdesc = s]
VecRow(c, s) == [imeta[c] EXCEPT !.vec = s]
FtsRow(c, s) == [imeta[c] EXCEPT !.fts = s]
LEMMA RegistryRows ==
    ASSUME IShape, NEW c \in Colls
    PROVE  /\ \A s \in SUBSET IndexNames : /\ IdescRow(c, s) \in Registries /\ IdescRow(c, s).idesc = s
                                           /\ IdescRow(c, s).fts = imeta[c].fts /\ IdescRow(c, s).vec = imeta[c].vec
           /\ \A s \in SUBSET Fields : /\ FdescRow(c, s) \in Registries /\ FdescRow(c, s).idesc = imeta[c].idesc
                                       /\ FdescRow(c, s).fts = imeta[c].fts /\ FdescRow(c, s).vec = imeta[c].vec
           /\ \A s \in SUBSET Fields : /\ VecRow(c, s) \in Registries /\ VecRow(c, s).idesc = imeta[c].idesc
                                       /\ VecRow(c, s).fts = imeta[c].fts /\ VecRow(c, s).vec = s
           /\ \A s \in SUBSET FtsEntries : /\ FtsRow(c, s) \in Registries /\ FtsRow(c, s).idesc = imeta[c].idesc
                                           /\ FtsRow(c, s).fts = s /\ FtsRow(c, s).vec = imeta[c].vec
  <1>1. imeta[c] \in Registries
    BY DEF IShape
  <1> QED  BY <1>1 DEF Registries, IdescRow, FdescRow, VecRow, FtsRow
MarkCols(s) == [crossed EXCEPT !.cols = s]
MarkIxs(s) == [crossed EXCEPT !.ixs = s]
LEMMA MarkRows ==
    ASSUME IShape
    PROVE  /\ \A s \in SUBSET (Colls \X Fields) : /\ MarkCols(s) \in Marks /\ MarkCols(s).cols = s
                                                  /\ MarkCols(s).ixs = crossed.ixs
           /\ \A s \in SUBSET IndexNames : /\ MarkIxs(s) \in Marks /\ MarkIxs(s).ixs = s
                                           /\ MarkIxs(s).cols = crossed.cols
  <1>1. crossed \in Marks
    BY DEF IShape
  <1> QED  BY <1>1 DEF Marks, MarkCols, MarkIxs

LEMMA IndexBuilt == ASSUME IInv, NEW t \in ITasks, CreateIndexBuild(t) PROVE IInv'
  <1> DEFINE c == itask[t].c
             ix == itask[t].ix
             r == [pc |-> "idesc", c |-> c, ix |-> ix]
  <1>1. itask[t].pc = "index" /\ c \in Colls /\ ix \in IndexNames /\ ix[1] = c
    BY DEF CreateIndexBuild, IAt, IInv, IShape, OpOK
  <1>2. sidx' = sidx \cup {ix} /\ UNCHANGED <<tbl, heads, imeta, crossed>> /\ (IGoto(t, r) \/ IGoto(t, IIdle))
    BY DEF CreateIndexBuild
  <1>3. IShape
    BY DEF IInv
  <1> HIDE DEF c, ix
  <1>4. OpOK(r) /\ r.pc = "idesc"
    BY <1>1 DEF OpOK
  <1> HIDE DEF r
  <1>5. sidx' \in SUBSET IndexNames /\ crossed' \in Marks /\ imeta' \in [Colls -> Registries]
    BY <1>1, <1>2, <1>3 DEF IShape
  <1>6. \A d \in Colls : DescTrue(d)'
    BY <1>2 DEF IInv, True, DescTrue
  <1> QED  BY <1>1, <1>2, <1>4, <1>5, <1>6, IdleRow, DescMoves

LEMMA IndexDropped == ASSUME IInv, NEW t \in ITasks, DropIndexWrite(t) PROVE IInv'
  <1> DEFINE c == itask[t].c
             ix == itask[t].ix
  <1>1. itask[t].pc = "unindex" /\ c \in Colls /\ ix \in IndexNames /\ IShape
    BY DEF DropIndexWrite, IAt, IInv, IShape, OpOK
  <1>2. /\ sidx' = sidx \ {ix} /\ imeta' = [imeta EXCEPT ![c] = IdescRow(c, imeta[c].idesc \ {ix})]
        /\ crossed' = IF c = ix[1] THEN crossed ELSE MarkIxs(crossed.ixs \cup {ix})
        /\ IGoto(t, IIdle) /\ UNCHANGED <<tbl, heads>>
    BY DEF DropIndexWrite, IdescRow, MarkIxs, IReturn
  <1> DEFINE s == imeta[c].idesc \ {ix}
             q == crossed.ixs \cup {ix}
  <1>3. s \in SUBSET IndexNames /\ q \in SUBSET IndexNames
    BY <1>1, RegistryFields, MarkFields
  <1> HIDE DEF s, q
  <1>4. /\ IdescRow(c, s) \in Registries /\ IdescRow(c, s).idesc = s
        /\ IdescRow(c, s).fts = imeta[c].fts /\ IdescRow(c, s).vec = imeta[c].vec
        /\ MarkIxs(q) \in Marks /\ MarkIxs(q).ixs = q /\ MarkIxs(q).cols = crossed.cols
    BY <1>1, <1>3, RegistryRows, MarkRows
  <1>5. imeta' = [imeta EXCEPT ![c] = IdescRow(c, s)] /\ crossed' = IF c = ix[1] THEN crossed ELSE MarkIxs(q)
    BY <1>2 DEF s, q
  <1> HIDE DEF c, ix
  <1>6. \A d \in Colls : imeta'[d] = IF d = c THEN IdescRow(c, s) ELSE imeta[d]
    BY <1>1, <1>5 DEF IShape
  <1>7. /\ sidx' \in SUBSET IndexNames /\ crossed' \in Marks /\ imeta' \in [Colls -> Registries]
        /\ crossed'.cols = crossed.cols
        /\ \A d \in Colls : imeta'[d].fts = imeta[d].fts /\ imeta'[d].vec = imeta[d].vec
    BY <1>1, <1>2, <1>4, <1>5, <1>6 DEF IShape
  <1>8. ASSUME NEW d \in Colls, NEW x \in imeta'[d].idesc
        PROVE  x[1] = d /\ (x \in sidx' \/ x \in crossed'.ixs)
    <2>1. x \in imeta[d].idesc /\ (d = c => x # ix)
      BY <1>4, <1>6, <1>8 DEF s, ix
    <2>2. x[1] = d /\ (x \in sidx \/ x \in crossed.ixs)
      BY <2>1 DEF IInv, True, DescTrue
    <2>3. crossed.ixs \subseteq crossed'.ixs /\ (c # ix[1] => ix \in crossed'.ixs)
      BY <1>4, <1>5 DEF q, ix
    <2>4. CASE x = ix
      BY <2>1, <2>2, <2>3, <2>4
    <2>5. CASE x # ix
      BY <1>2, <2>2, <2>3, <2>5 DEF ix
    <2> QED  BY <2>4, <2>5
  <1>9. \A d \in Colls : DescTrue(d)'
    BY <1>8 DEF DescTrue
  <1> QED  BY <1>1, <1>2, <1>7, <1>9, IdleRow, DescMoves

(* The description of an index, with or without a task. *)
LEMMA IndexDescribed ==
    ASSUME IInv, NEW c \in Colls, NEW ix \in IndexNames, ix[1] = c, WriteIndexDescription(c, ix),
           UNCHANGED <<tbl, sidx, heads>>,
           \/ ix \in sidx /\ UNCHANGED crossed
           \/ crossed' = MarkIxs(crossed.ixs \cup {ix}),
           UNCHANGED itask \/ (\E t \in ITasks : IGoto(t, IIdle) /\ itask[t].pc # "unvec")
    PROVE  IInv'
  <1> DEFINE s == imeta[c].idesc \cup {ix}
             q == crossed.ixs \cup {ix}
  <1>1. IShape /\ imeta' = [imeta EXCEPT ![c] = IdescRow(c, s)]
    BY DEF IInv, WriteIndexDescription, IdescRow
  <1>2. s \in SUBSET IndexNames /\ q \in SUBSET IndexNames /\ (crossed' = MarkIxs(q) \/ (ix \in sidx /\ UNCHANGED crossed))
    BY <1>1, RegistryFields, MarkFields
  <1>3. imeta[c].idesc \cup {ix} = s /\ crossed.ixs \cup {ix} = q
    OBVIOUS
  <1> HIDE DEF s, q
  <1>4. /\ IdescRow(c, s) \in Registries /\ IdescRow(c, s).idesc = s
        /\ IdescRow(c, s).fts = imeta[c].fts /\ IdescRow(c, s).vec = imeta[c].vec
        /\ MarkIxs(q) \in Marks /\ MarkIxs(q).ixs = q /\ MarkIxs(q).cols = crossed.cols
    BY <1>1, <1>2, RegistryRows, MarkRows
  <1>5. \A d \in Colls : imeta'[d] = IF d = c THEN IdescRow(c, s) ELSE imeta[d]
    BY <1>1 DEF IShape
  <1>6. /\ sidx' \in SUBSET IndexNames /\ crossed' \in Marks /\ imeta' \in [Colls -> Registries]
        /\ crossed'.cols = crossed.cols
        /\ \A d \in Colls : imeta'[d].fts = imeta[d].fts /\ imeta'[d].vec = imeta[d].vec
    BY <1>1, <1>2, <1>4, <1>5 DEF IShape
  <1>7. crossed.ixs \subseteq crossed'.ixs /\ (ix \in sidx \/ ix \in crossed'.ixs)
    BY <1>2, <1>3, <1>4
  <1>8. ASSUME NEW d \in Colls, NEW x \in imeta'[d].idesc
        PROVE  x[1] = d /\ (x \in sidx' \/ x \in crossed'.ixs)
    <2>1. x \in imeta[d].idesc \/ (d = c /\ x = ix)
      BY <1>3, <1>4, <1>5, <1>8
    <2>2. x \in imeta[d].idesc => x[1] = d /\ (x \in sidx \/ x \in crossed.ixs)
      BY DEF IInv, True, DescTrue
    <2> QED  BY <1>7, <2>1, <2>2
  <1>9. \A d \in Colls : DescTrue(d)'
    BY <1>8 DEF DescTrue
  <1> QED  BY <1>6, <1>9, IdleRow, DescMoves

LEMMA FieldDescribed ==
    ASSUME IInv, NEW c \in Colls, NEW f \in Fields, WriteFieldDescription(c, f),
           UNCHANGED <<tbl, sidx, heads, crossed>>,
           UNCHANGED itask \/ (\E t \in ITasks : IGoto(t, IIdle) /\ itask[t].pc # "unvec")
    PROVE  IInv'
  <1> DEFINE s == imeta[c].fdesc \cup {f}
  <1>1. IShape /\ imeta' = [imeta EXCEPT ![c] = FdescRow(c, s)]
    BY DEF IInv, WriteFieldDescription, FdescRow
  <1>2. s \in SUBSET Fields
    BY <1>1, RegistryFields
  <1> HIDE DEF s
  <1>3. /\ FdescRow(c, s) \in Registries /\ FdescRow(c, s).idesc = imeta[c].idesc
        /\ FdescRow(c, s).fts = imeta[c].fts /\ FdescRow(c, s).vec = imeta[c].vec
    BY <1>1, <1>2, RegistryRows
  <1>4. \A d \in Colls : imeta'[d] = IF d = c THEN FdescRow(c, s) ELSE imeta[d]
    BY <1>1 DEF IShape
  <1>5. /\ sidx' \in SUBSET IndexNames /\ crossed' \in Marks /\ imeta' \in [Colls -> Registries]
        /\ crossed'.cols = crossed.cols
        /\ \A d \in Colls : /\ imeta'[d].fts = imeta[d].fts /\ imeta'[d].vec = imeta[d].vec
                            /\ imeta'[d].idesc = imeta[d].idesc
    BY <1>1, <1>3, <1>4 DEF IShape
  <1>6. \A d \in Colls : DescTrue(d)'
    BY <1>5 DEF IInv, True, DescTrue
  <1> QED  BY <1>5, <1>6, IdleRow, DescMoves

LEMMA DescriptionsKeep ==
    ASSUME IInv, NEW t \in ITasks,
           \/ \E c \in Colls, ix \in sidx, f \in Fields : McpSetDescription(t, c, ix, f)
           \/ DescribeIndex(t) \/ DescribeField(t)
    PROVE  IInv'
  <1>1. IShape
    BY DEF IInv
  <1>2. ASSUME NEW c \in Colls, NEW ix \in sidx, SetIndexDescription(t, c, ix) PROVE IInv'
    <2>1. ix \in IndexNames /\ ix[1] = c /\ WriteIndexDescription(c, ix) /\ UNCHANGED <<tbl, sidx, heads, itask, crossed>>
      BY <1>1, <1>2 DEF SetIndexDescription, IShape
    <2> QED  BY <2>1, IndexDescribed
  <1>3. ASSUME NEW c \in Colls, NEW f \in Fields, SetFieldDescription(t, c, f) PROVE IInv'
    BY <1>3, FieldDescribed DEF SetFieldDescription
  <1>4. ASSUME DescribeIndex(t) PROVE IInv'
    <2>1. /\ itask[t].pc = "idesc" /\ itask[t].c \in Colls /\ itask[t].ix \in IndexNames /\ itask[t].ix[1] = itask[t].c
      BY <1>1, <1>4 DEF DescribeIndex, IAt, IShape, OpOK
    <2>2. /\ WriteIndexDescription(itask[t].c, itask[t].ix) /\ IGoto(t, IIdle) /\ UNCHANGED <<tbl, sidx, heads>>
          /\ \/ itask[t].ix \in sidx /\ UNCHANGED crossed
             \/ crossed' = MarkIxs(crossed.ixs \cup {itask[t].ix})
      BY <1>4 DEF DescribeIndex, IReturn, MarkIxs
    <2>3. PICK c \in Colls, ix \in IndexNames : c = itask[t].c /\ ix = itask[t].ix
      BY <2>1
    <2>4. ix[1] = c /\ itask[t].pc # "unvec"
      BY <2>1, <2>3
    <2>5. /\ WriteIndexDescription(c, ix)
          /\ (ix \in sidx /\ UNCHANGED crossed) \/ crossed' = MarkIxs(crossed.ixs \cup {ix})
      BY <2>2, <2>3
    <2> QED  BY <2>2, <2>4, <2>5, IndexDescribed
  <1>5. ASSUME DescribeField(t) PROVE IInv'
    <2>1. itask[t].pc = "fdesc" /\ itask[t].c \in Colls /\ itask[t].f \in Fields
      BY <1>1, <1>5 DEF DescribeField, IAt, IShape, OpOK
    <2>2. WriteFieldDescription(itask[t].c, itask[t].f) /\ IGoto(t, IIdle) /\ UNCHANGED <<tbl, sidx, heads, crossed>>
      BY <1>5 DEF DescribeField, IReturn
    <2> QED  BY <2>1, <2>2, FieldDescribed
  <1> QED  BY <1>2, <1>3, <1>4, <1>5 DEF McpSetDescription

----------------------------------------------------------------------------
(* Full-text indexes and rows. *)
LEMMA Settles ==
    ASSUME IInv, IShape', RefsStay, \A c \in Colls : True(c)',
           UNCHANGED itask \/ (\E t \in ITasks : \E r : OpOK(r) /\ IGoto(t, r) /\ r.pc # "drop")
    PROVE  IInv'
  <1>1. IShape /\ DropTrue
    BY DEF IInv
  <1>2. DropTrue'
    <2>1. CASE UNCHANGED itask
      BY <1>1, <2>1 DEF DropTrue, RefsStay, IShape, OpOK, RefsMarked
    <2>2. ASSUME NEW t \in ITasks, NEW r, OpOK(r), IGoto(t, r), r.pc # "drop" PROVE DropTrue'
      BY <1>1, <2>2, DropsStay
    <2> QED  BY <2>1, <2>2
  <1> QED  BY <1>2 DEF IInv

(* Bare, descriptions, vectors and keys of a collection that rest. *)
LEMMA OthersRest ==
    ASSUME IInv, UNCHANGED <<sidx, crossed>>, NEW c \in Colls,
           \A d \in Colls : tbl'[d].live = tbl[d].live /\ tbl'[d].col = tbl[d].col,
           imeta'[c].vec = imeta[c].vec, imeta'[c].idesc = imeta[c].idesc, FtsTrue(c)',
           UNCHANGED itask \/ (\E t \in ITasks : \E r : IGoto(t, r) /\ itask[t].pc # "unvec")
    PROVE  True(c)'
  <1>1. True(c) /\ IShape
    BY DEF IInv
  <1>2. \A f : Unvec(c, f) => Unvec(c, f)'
    <2>1. CASE UNCHANGED itask
      BY <2>1 DEF Unvec
    <2>2. ASSUME NEW t \in ITasks, NEW r, IGoto(t, r), itask[t].pc # "unvec" PROVE \A f : Unvec(c, f) => Unvec(c, f)'
      BY <1>1, <2>2, UnvecStays
    <2> QED  BY <2>1, <2>2
  <1>3. Bare(c)' /\ DescTrue(c)'
    BY <1>1 DEF True, Bare, DescTrue
  <1>4. FkTrue(c)'
    BY <1>1 DEF True, FkTrue
  <1>5. VecTrue(c)'
    BY <1>1, <1>2 DEF True, VecTrue
  <1> QED  BY <1>3, <1>4, <1>5 DEF True

LEMMA FtsRests ==
    ASSUME NEW c \in Colls, FtsTrue(c), tbl'[c] = tbl[c], imeta'[c].fts = imeta[c].fts,
           \A n \in FtsNames : heads'[<<c, n>>] = heads[<<c, n>>]
    PROVE  FtsTrue(c)'
  BY DEF FtsTrue, Cols

Entry(n, fs) == [name |-> n, fields |-> fs]
LEMMA FtsEntryFields ==
    ASSUME NEW n, NEW fs, n \in FtsNames, fs \in SUBSET Fields
    PROVE  Entry(n, fs) \in FtsEntries /\ Entry(n, fs).name = n /\ Entry(n, fs).fields = fs
  <1>1. fs \in SUBSET Fields /\ n \in FtsNames
    OBVIOUS
  <1>2. Entry(n, fs).name = n /\ Entry(n, fs).fields = fs
    BY DEF Entry
  <1>3. Entry(n, fs) \in FtsEntries
    BY <1>1, Zenon DEF Entry, FtsEntries
  <1> QED  BY <1>2, <1>3
LEMMA FtsIs ==
    ASSUME NEW c \in Colls
    PROVE  FtsTrue(c) <=> /\ ~tbl[c].live => imeta[c].fts = {}
                          /\ \A e : e \in imeta[c].fts <=>
                                \E n \in FtsNames : heads[<<c, n>>].on /\ e = Entry(n, heads[<<c, n>>].fields)
                          /\ \A n \in FtsNames : heads[<<c, n>>].on =>
                                heads[<<c, n>>].docs = tbl[c].rows /\ heads[<<c, n>>].fields \subseteq Cols(c)
  BY DEF FtsTrue, Entry

LEMMA FtsCreated == ASSUME IInv, NEW t \in ITasks, CreateFtsTx(t) PROVE IInv'
  <1>1. IShape /\ itask[t].pc = "fts" /\ itask[t].c \in Colls /\ itask[t].n \in FtsNames /\ itask[t].fs \in SUBSET Fields
    BY DEF CreateFtsTx, IAt, IInv, IShape, OpOK
  <1>2. PICK c \in Colls, n \in FtsNames, fs \in SUBSET Fields : c = itask[t].c /\ n = itask[t].n /\ fs = itask[t].fs
    BY <1>1
  <1> DEFINE h == [on |-> TRUE, fields |-> fs, docs |-> tbl[c].rows]
             s == imeta[c].fts \cup {Entry(n, fs)}
  <1>3. /\ tbl[c].live /\ ~heads[<<c, n>>].on /\ fs \subseteq Cols(c) /\ heads' = [heads EXCEPT ![<<c, n>>] = h]
        /\ imeta' = [imeta EXCEPT ![c] = FtsRow(c, s)] /\ IGoto(t, IIdle) /\ UNCHANGED <<tbl, sidx, crossed>>
    BY <1>2 DEF CreateFtsTx, FtsRow, Entry, IReturn
  <1>4. h \in HeadRows /\ h.on = TRUE /\ h.fields = fs /\ h.docs = tbl[c].rows
    BY <1>1, TableFields DEF HeadRows
  <1>5. s \in SUBSET FtsEntries
    <2>1. imeta[c].fts \in SUBSET FtsEntries
      BY <1>1, RegistryFields
    <2>2. Entry(n, fs) \in FtsEntries
      BY FtsEntryFields, Zenon
    <2> HIDE DEF FtsEntries
    <2> QED  BY <2>1, <2>2
  <1>6. \A e : e \in s <=> e \in imeta[c].fts \/ e = Entry(n, fs)
    OBVIOUS
  <1> HIDE DEF h, s
  <1>7. /\ FtsRow(c, s) \in Registries /\ FtsRow(c, s).idesc = imeta[c].idesc
        /\ FtsRow(c, s).fts = s /\ FtsRow(c, s).vec = imeta[c].vec
    BY <1>1, <1>5, RegistryRows
  <1>8. \A d \in Colls : imeta'[d] = IF d = c THEN FtsRow(c, s) ELSE imeta[d]
    BY <1>1, <1>3 DEF IShape
  <1>9. \A d \in Colls, m \in FtsNames : heads'[<<d, m>>] = IF d = c /\ m = n THEN h ELSE heads[<<d, m>>]
    BY <1>1, <1>3 DEF IShape
  <1>10. IShape'
    <2>1. DOMAIN itask' = ITasks /\ \A u \in ITasks : OpOK(itask'[u])
      BY <1>1, <1>3, IdleRow, OpsTyped
    <2>2. heads' \in [Colls \X FtsNames -> HeadRows] /\ imeta' \in [Colls -> Registries]
      BY <1>1, <1>3, <1>4, <1>7 DEF IShape
    <2> QED  BY <1>1, <1>3, <2>1, <2>2 DEF IShape, OpOK
  <1>11. ASSUME NEW d \in Colls PROVE FtsTrue(d)'
    <2>1. FtsTrue(d)
      BY DEF IInv, True
    <2>2. CASE d # c
      BY <1>3, <1>8, <1>9, <2>1, <2>2, FtsRests
    <2>3. CASE d = c
      <3>1. imeta'[c].fts = s /\ Cols(c)' = Cols(c) /\ UNCHANGED tbl
        BY <1>3, <1>7, <1>8 DEF Cols
      <3>2. ASSUME NEW e PROVE e \in s <=> \E m \in FtsNames : heads'[<<c, m>>].on /\ e = Entry(m, heads'[<<c, m>>].fields)
        <4>1. e \in imeta[c].fts <=> \E m \in FtsNames : heads[<<c, m>>].on /\ e = Entry(m, heads[<<c, m>>].fields)
          BY <2>1, <2>3, FtsIs
        <4>2. ASSUME NEW m \in FtsNames, heads'[<<c, m>>].on, e = Entry(m, heads'[<<c, m>>].fields) PROVE e \in s
          BY <1>4, <1>6, <1>9, <4>1, <4>2
        <4>3. ASSUME e \in imeta[c].fts PROVE \E m \in FtsNames : heads'[<<c, m>>].on /\ e = Entry(m, heads'[<<c, m>>].fields)
          BY <1>3, <1>9, <4>1, <4>3
        <4>4. heads'[<<c, n>>].on /\ Entry(n, heads'[<<c, n>>].fields) = Entry(n, fs)
          BY <1>4, <1>9
        <4> QED  BY <1>6, <4>2, <4>3, <4>4
      <3>3. \A m \in FtsNames : heads'[<<c, m>>].on =>
                heads'[<<c, m>>].docs = tbl[c].rows /\ heads'[<<c, m>>].fields \subseteq Cols(c)
        BY <1>3, <1>4, <1>9, <2>1, <2>3, FtsIs
      <3>4. FtsTrue(c)'
        BY <1>3, <3>1, <3>2, <3>3 DEF FtsTrue, Entry
      <3> QED  BY <2>3, <3>4
    <2> QED  BY <2>2, <2>3
  <1>12. \A d \in Colls : imeta'[d].vec = imeta[d].vec /\ imeta'[d].idesc = imeta[d].idesc
    BY <1>7, <1>8
  <1>13. \A d \in Colls : True(d)'
    BY <1>1, <1>3, <1>11, <1>12, OthersRest
  <1> QED  BY <1>3, <1>10, <1>13, IdleRow, RefsRest, Settles

LEMMA FtsDropped == ASSUME IInv, NEW t \in ITasks, DropFtsTx(t) PROVE IInv'
  <1>1. IShape /\ itask[t].pc = "unfts" /\ itask[t].c \in Colls /\ itask[t].n \in FtsNames
    BY DEF DropFtsTx, IAt, IInv, IShape, OpOK
  <1>2. PICK c \in Colls, n \in FtsNames : c = itask[t].c /\ n = itask[t].n
    BY <1>1
  <1> DEFINE s == {e \in imeta[c].fts : e.name # n}
  <1>3. /\ heads' = [heads EXCEPT ![<<c, n>>] = NoHead]
        /\ imeta' = [imeta EXCEPT ![c] = FtsRow(c, s)] /\ IGoto(t, IIdle) /\ UNCHANGED <<tbl, sidx, crossed>>
    BY <1>2 DEF DropFtsTx, FtsRow, IReturn
  <1>4. NoHead \in HeadRows /\ NoHead.on = FALSE
    BY DEF HeadRows, NoHead
  <1>5. s \in SUBSET FtsEntries
    BY <1>1, RegistryFields
  <1>6. \A e : e \in s <=> e \in imeta[c].fts /\ e.name # n
    OBVIOUS
  <1> HIDE DEF s
  <1>7. /\ FtsRow(c, s) \in Registries /\ FtsRow(c, s).idesc = imeta[c].idesc
        /\ FtsRow(c, s).fts = s /\ FtsRow(c, s).vec = imeta[c].vec
    BY <1>1, <1>5, RegistryRows
  <1>8. \A d \in Colls : imeta'[d] = IF d = c THEN FtsRow(c, s) ELSE imeta[d]
    BY <1>1, <1>3 DEF IShape
  <1>9. \A d \in Colls, m \in FtsNames : heads'[<<d, m>>] = IF d = c /\ m = n THEN NoHead ELSE heads[<<d, m>>]
    BY <1>1, <1>3 DEF IShape
  <1>10. IShape'
    <2>1. DOMAIN itask' = ITasks /\ \A u \in ITasks : OpOK(itask'[u])
      BY <1>1, <1>3, IdleRow, OpsTyped
    <2>2. heads' \in [Colls \X FtsNames -> HeadRows] /\ imeta' \in [Colls -> Registries]
      BY <1>1, <1>3, <1>4, <1>7 DEF IShape
    <2> QED  BY <1>1, <1>3, <2>1, <2>2 DEF IShape, OpOK
  <1>11. ASSUME NEW d \in Colls PROVE FtsTrue(d)'
    <2>1. FtsTrue(d)
      BY DEF IInv, True
    <2>2. CASE d # c
      BY <1>3, <1>8, <1>9, <2>1, <2>2, FtsRests
    <2>3. CASE d = c
      <3>1. imeta'[c].fts = s /\ Cols(c)' = Cols(c) /\ UNCHANGED tbl
        BY <1>3, <1>7, <1>8 DEF Cols
      <3>2. ASSUME NEW e PROVE e \in s <=> \E m \in FtsNames : heads'[<<c, m>>].on /\ e = Entry(m, heads'[<<c, m>>].fields)
        <4>1. e \in imeta[c].fts <=> \E m \in FtsNames : heads[<<c, m>>].on /\ e = Entry(m, heads[<<c, m>>].fields)
          BY <2>1, <2>3, FtsIs
        <4>2. \A m \in FtsNames : Entry(m, heads[<<c, m>>].fields).name = m
          BY DEF Entry
        <4>3. \A m \in FtsNames \ {n} : heads'[<<c, m>>] = heads[<<c, m>>]
          BY <1>9
        <4>4. ~heads'[<<c, n>>].on
          BY <1>4, <1>9
        <4>5. ASSUME e \in s PROVE \E m \in FtsNames : heads'[<<c, m>>].on /\ e = Entry(m, heads'[<<c, m>>].fields)
          <5>1. PICK m \in FtsNames : heads[<<c, m>>].on /\ e = Entry(m, heads[<<c, m>>].fields)
            BY <1>6, <4>1, <4>5
          <5>2. m # n
            BY <1>6, <4>2, <4>5, <5>1
          <5> QED  BY <4>3, <5>1, <5>2
        <4>6. ASSUME NEW m \in FtsNames, heads'[<<c, m>>].on, e = Entry(m, heads'[<<c, m>>].fields) PROVE e \in s
          <5>1. m # n /\ heads'[<<c, m>>] = heads[<<c, m>>]
            BY <4>3, <4>4, <4>6
          <5>2. e \in imeta[c].fts /\ e.name # n
            BY <4>1, <4>2, <4>6, <5>1
          <5> QED  BY <1>6, <5>2
        <4> QED  BY <4>5, <4>6
      <3>3. \A m \in FtsNames : heads'[<<c, m>>].on =>
                heads'[<<c, m>>].docs = tbl[c].rows /\ heads'[<<c, m>>].fields \subseteq Cols(c)
        BY <1>3, <1>4, <1>9, <2>1, <2>3, FtsIs
      <3>4. ~tbl[c].live => s = {}
        BY <1>6, <2>1, <2>3 DEF FtsTrue
      <3>5. FtsTrue(c)'
        BY <1>3, <3>1, <3>2, <3>3, <3>4 DEF FtsTrue, Entry
      <3> QED  BY <2>3, <3>5
    <2> QED  BY <2>2, <2>3
  <1>12. \A d \in Colls : imeta'[d].vec = imeta[d].vec /\ imeta'[d].idesc = imeta[d].idesc
    BY <1>7, <1>8
  <1>13. \A d \in Colls : True(d)'
    BY <1>1, <1>3, <1>11, <1>12, OthersRest
  <1> QED  BY <1>3, <1>10, <1>13, IdleRow, RefsRest, Settles

(* A row comes or goes: the triggers follow in every full-text table. *)
TableWith(c, rows) == [tbl[c] EXCEPT !.rows = rows]
HeadWith(x, rows) == [heads[x] EXCEPT !.docs = rows]
LEMMA RowsSet ==
    ASSUME IInv, NEW c \in Colls, NEW rows \in SUBSET RowIds, SetRows(c, rows)
    PROVE  IInv'
  <1>1. IShape
    BY DEF IInv
  <1>2. /\ tbl[c].live /\ tbl' = [tbl EXCEPT ![c] = TableWith(c, rows)]
        /\ heads' = [x \in DOMAIN heads |-> IF x[1] = c /\ heads[x].on THEN HeadWith(x, rows) ELSE heads[x]]
        /\ UNCHANGED <<sidx, imeta, itask, crossed>>
    BY DEF SetRows, TableWith, HeadWith
  <1>3. /\ TableWith(c, rows) \in TableRows /\ TableWith(c, rows).rows = rows
        /\ TableWith(c, rows).live = tbl[c].live /\ TableWith(c, rows).col = tbl[c].col
    BY <1>1, TableFields DEF TableRows, TableWith
  <1>4. ASSUME NEW x \in Colls \X FtsNames
        PROVE  /\ heads[x] \in HeadRows /\ HeadWith(x, rows) \in HeadRows /\ HeadWith(x, rows).on = heads[x].on
               /\ HeadWith(x, rows).fields = heads[x].fields /\ HeadWith(x, rows).docs = rows
    <2>1. heads[x] \in HeadRows
      BY <1>1 DEF IShape
    <2> QED  BY <2>1 DEF HeadRows, HeadWith
  <1>5. \A d \in Colls : tbl'[d] = IF d = c THEN TableWith(c, rows) ELSE tbl[d]
    BY <1>1, <1>2 DEF IShape
  <1>6. ASSUME NEW d \in Colls, NEW n \in FtsNames
        PROVE  heads'[<<d, n>>] = IF d = c /\ heads[<<d, n>>].on THEN HeadWith(<<d, n>>, rows) ELSE heads[<<d, n>>]
    <2>1. <<d, n>> \in DOMAIN heads /\ <<d, n>>[1] = d
      BY <1>1 DEF IShape
    <2> QED  BY <1>2, <2>1
  <1>7. \A d \in Colls : tbl'[d].live = tbl[d].live /\ tbl'[d].col = tbl[d].col
    BY <1>3, <1>5
  <1>8. IShape'
    <2>1. tbl' \in [Colls -> TableRows]
      BY <1>1, <1>2, <1>3 DEF IShape
    <2>2. heads' \in [Colls \X FtsNames -> HeadRows]
      <3>1. DOMAIN heads = Colls \X FtsNames
        BY <1>1 DEF IShape
      <3>2. \A x \in Colls \X FtsNames : heads'[x] \in HeadRows
        BY <1>2, <1>4, <3>1
      <3> QED  BY <1>2, <3>1, <3>2
    <2> QED  BY <1>1, <1>2, <2>1, <2>2 DEF IShape, OpOK
  <1>9. ASSUME NEW d \in Colls PROVE FtsTrue(d)'
    <2>1. FtsTrue(d)
      BY DEF IInv, True
    <2>2. CASE d # c
      BY <1>2, <1>5, <1>6, <2>1, <2>2, FtsRests
    <2>3. CASE d = c
      <3>1. Cols(c)' = Cols(c) /\ tbl'[c].rows = rows /\ imeta'[c] = imeta[c] /\ tbl'[c].live
        BY <1>2, <1>3, <1>5, <1>7 DEF Cols
      <3>2. \A m \in FtsNames : /\ heads'[<<c, m>>].on = heads[<<c, m>>].on /\ heads'[<<c, m>>].fields = heads[<<c, m>>].fields
                                /\ heads'[<<c, m>>].on => heads'[<<c, m>>].docs = rows
        BY <1>4, <1>6
      <3>3. FtsTrue(c)
        BY <2>1, <2>3
      <3>4. {[name |-> n, fields |-> heads'[<<c, n>>].fields] : n \in {m \in FtsNames : heads'[<<c, m>>].on}}
              = {[name |-> n, fields |-> heads[<<c, n>>].fields] : n \in {m \in FtsNames : heads[<<c, m>>].on}}
        BY <3>2
      <3>5. FtsTrue(c)'
        BY <3>1, <3>2, <3>3, <3>4 DEF FtsTrue
      <3> QED  BY <2>3, <3>5
    <2> QED  BY <2>2, <2>3
  <1>10. \A d \in Colls : True(d)'
    BY <1>2, <1>7, <1>9, OthersRest
  <1>11. RefsStay
    BY <1>2, <1>7 DEF RefsStay, RefsMarked
  <1> QED  BY <1>2, <1>8, <1>10, <1>11, Settles

LEMMA RowsKeep == ASSUME IInv, NEW c \in Colls, InsertRow(c) \/ DeleteRow(c) PROVE IInv'
  <1>1. IShape /\ tbl[c].rows \in SUBSET RowIds
    BY TableFields DEF IInv
  <1>2. ASSUME NEW i \in RowIds, SetRows(c, tbl[c].rows \cup {i}) PROVE IInv'
    <2>1. PICK s \in SUBSET RowIds : s = tbl[c].rows \cup {i}
      BY <1>1
    <2> QED  BY <1>2, <2>1, RowsSet
  <1>3. ASSUME NEW i \in RowIds, SetRows(c, tbl[c].rows \ {i}) PROVE IInv'
    <2>1. PICK s \in SUBSET RowIds : s = tbl[c].rows \ {i}
      BY <1>1
    <2> QED  BY <1>3, <2>1, RowsSet
  <1> QED  BY <1>1, <1>2, <1>3 DEF InsertRow, DeleteRow

----------------------------------------------------------------------------
(* Columns and tables. *)
Dropping(d) == \E u \in ITasks : itask[u].pc = "drop" /\ itask[u].c = d
DropsMarked == \A d \in Colls : Dropping(d) => RefsMarked(d)'
LEMMA DropsStand ==
    ASSUME IShape, DropsMarked, NEW t \in ITasks, NEW r, r.pc # "drop", IGoto(t, r)
    PROVE  DropTrue'
  <1>1. \A u \in ITasks : itask'[u] = IF u = t THEN r ELSE itask[u]
    BY DEF IGoto, IShape
  <1>2. ASSUME NEW u \in ITasks, itask'[u].pc = "drop", NEW d, d = itask'[u].c PROVE RefsMarked(d)'
    <2>1. itask'[u] = itask[u] /\ d \in Colls
      BY <1>1, <1>2 DEF IShape, OpOK
    <2>2. Dropping(d)
      BY <1>2, <2>1 DEF Dropping
    <2> QED  BY <2>1, <2>2 DEF DropsMarked
  <1>3. ASSUME NEW u \in ITasks, itask'[u].pc = "drop" PROVE RefsMarked(itask[u].c)'
    BY <1>2, <1>3 DEF RefsMarked
  <1> QED  BY <1>3 DEF DropTrue
LEMMA RefsOfDrops == ASSUME DropTrue, NEW d, Dropping(d) PROVE RefsMarked(d)
  BY DEF DropTrue, Dropping

(* A collection that rests while another changes. *)
LEMMA PartRests ==
    ASSUME IInv, NEW d \in Colls, tbl'[d] = tbl[d], imeta'[d] = imeta[d], FkTrue(d)',
           \A n \in FtsNames : heads'[<<d, n>>] = heads[<<d, n>>],
           \A ix : ix[1] = d /\ ix \in sidx => ix \in sidx',
           \A ix : ix[1] = d /\ ix \in crossed.ixs => ix \in crossed'.ixs,
           \A g \in Fields : <<d, g>> \in crossed.cols => <<d, g>> \in crossed'.cols,
           \A g \in Fields : Unvec(d, g) => Unvec(d, g)' \/ <<d, g>> \in crossed'.cols
    PROVE  True(d)'
  <1>1. True(d) /\ imeta[d].vec \in SUBSET Fields
    BY RegistryFields DEF IInv
  <1>2. FtsTrue(d)'
    BY <1>1, FtsRests DEF True
  <1>3. Bare(d)'
    BY <1>1 DEF True, Bare
  <1>4. DescTrue(d)'
    BY <1>1 DEF True, DescTrue
  <1>5. VecTrue(d)'
    BY <1>1 DEF True, VecTrue
  <1> QED  BY <1>2, <1>3, <1>4, <1>5 DEF True

ColRow(c, f, k) == [tbl[c] EXCEPT !.col = [tbl[c].col EXCEPT ![f] = k]]
LEMMA ColRows ==
    ASSUME IShape, NEW c \in Colls, NEW f \in Fields, NEW k \in Kinds
    PROVE  /\ ColRow(c, f, k) \in TableRows /\ ColRow(c, f, k).live = tbl[c].live
           /\ ColRow(c, f, k).rows = tbl[c].rows
           /\ \A g \in Fields : ColRow(c, f, k).col[g] = IF g = f THEN k ELSE tbl[c].col[g]
  <1>1. tbl[c] \in TableRows /\ tbl[c].col \in [Fields -> Kinds]
    BY TableFields
  <1> DEFINE q == [tbl[c].col EXCEPT ![f] = k]
  <1>2. q \in [Fields -> Kinds] /\ \A g \in Fields : q[g] = IF g = f THEN k ELSE tbl[c].col[g]
    BY <1>1
  <1> HIDE DEF q
  <1>3. [tbl[c] EXCEPT !.col = q] \in TableRows /\ [tbl[c] EXCEPT !.col = q].live = tbl[c].live
        /\ [tbl[c] EXCEPT !.col = q].rows = tbl[c].rows /\ [tbl[c] EXCEPT !.col = q].col = q
    BY <1>1, <1>2 DEF TableRows
  <1>4. ColRow(c, f, k) = [tbl[c] EXCEPT !.col = q]
    BY DEF ColRow, q
  <1> QED  BY <1>2, <1>3, <1>4

(* One column changes its kind, to or from none. *)
LEMMA ColumnMoves ==
    ASSUME IInv, NEW c \in Colls, NEW f \in Fields, NEW k \in Kinds, tbl[c].live,
           tbl' = [tbl EXCEPT ![c] = ColRow(c, f, k)], UNCHANGED <<sidx, heads, imeta>>,
           crossed' \in Marks, crossed'.ixs = crossed.ixs, NEW t \in ITasks, NEW r, OpOK(r), r.pc # "drop", IGoto(t, r),
           itask[t].pc # "unvec",
           tbl[c].col[f] = "none" \/ ~UsedBySchema(c, f),
           \A x \in Colls \X Fields : x # <<c, f>> /\ x \in crossed.cols => x \in crossed'.cols,
           f \in imeta[c].vec => k = "vec" \/ <<c, f>> \in crossed'.cols \/ Unvec(c, f)',
           k \in Colls => (tbl[k].live \/ <<c, f>> \in crossed'.cols) /\ (Dropping(k) => <<c, f>> \in crossed'.cols)
    PROVE  IInv'
  <1>1. IShape /\ DropTrue
    BY DEF IInv
  <1> DEFINE q == ColRow(c, f, k)
  <1> HIDE DEF q
  <1>2. /\ q \in TableRows /\ q.live = tbl[c].live /\ q.rows = tbl[c].rows
        /\ \A g \in Fields : q.col[g] = IF g = f THEN k ELSE tbl[c].col[g]
    <2>1. q = ColRow(c, f, k)
      BY DEF q
    <2>2. /\ ColRow(c, f, k) \in TableRows /\ ColRow(c, f, k).live = tbl[c].live
          /\ ColRow(c, f, k).rows = tbl[c].rows
          /\ \A g \in Fields : ColRow(c, f, k).col[g] = IF g = f THEN k ELSE tbl[c].col[g]
      <3>1. ColRow(c, f, k) \in TableRows /\ ColRow(c, f, k).rows = tbl[c].rows
        BY <1>1, ColRows
      <3>3. ColRow(c, f, k).live = tbl[c].live
        BY <1>1, ColRows, Zenon
      <3>2. \A g \in Fields : ColRow(c, f, k).col[g] = IF g = f THEN k ELSE tbl[c].col[g]
        BY <1>1, ColRows
      <3> QED  BY <3>1, <3>2, <3>3
    <2> QED  BY <2>1, <2>2
  <1>3. \A d \in Colls : tbl'[d] = IF d = c THEN q ELSE tbl[d]
    BY <1>1 DEF IShape, q
  <1>4. IShape'
    <2>1. DOMAIN itask' = ITasks /\ \A u \in ITasks : OpOK(itask'[u])
      BY <1>1, OpsTyped
    <2>2. tbl' \in [Colls -> TableRows]
      BY <1>1, <1>2, <1>3 DEF IShape, q
    <2> QED  BY <1>1, <2>1, <2>2 DEF IShape, OpOK
  <1>5. \A d \in Colls : tbl'[d].live = tbl[d].live
    BY <1>2, <1>3
  <1>6. ASSUME NEW d \in Colls, NEW g \in Fields, <<d, g>> # <<c, f>>
        PROVE  tbl'[d].col[g] = tbl[d].col[g] /\ (<<d, g>> \in crossed.cols => <<d, g>> \in crossed'.cols)
    <2>1. <<d, g>> \in Colls \X Fields /\ (d = c => g # f)
      BY <1>6
    <2> QED  BY <1>2, <1>3, <1>6, <2>1
  <1>7. tbl'[c].col[f] = k
    BY <1>2, <1>3
  <1>8. ASSUME NEW d \in Colls PROVE FkTrue(d)'
    <2>1. FkTrue(d)
      BY DEF IInv, True
    <2>2. ASSUME NEW g \in Fields, NEW e \in Colls, tbl'[d].live, tbl'[d].col[g] = e
          PROVE  tbl'[e].live \/ <<d, g>> \in crossed'.cols
      <3>1. CASE <<d, g>> = <<c, f>>
        <4>1. d = c /\ g = f
          BY <3>1
        <4> QED  BY <1>5, <1>7, <2>2, <4>1
      <3>2. CASE <<d, g>> # <<c, f>>
        BY <1>5, <1>6, <2>1, <2>2, <3>2 DEF FkTrue
      <3> QED  BY <3>1, <3>2
    <2> QED  BY <2>2 DEF FkTrue
  <1>9. \A d, g : Unvec(d, g) => Unvec(d, g)'
    BY <1>1, UnvecStays
  <1>10. ASSUME NEW d \in Colls, d # c PROVE True(d)'
    <2>1. \A g \in Fields : <<d, g>> # <<c, f>>
      BY <1>10
    <2>2. \A g \in Fields : <<d, g>> \in crossed.cols => <<d, g>> \in crossed'.cols
      BY <1>6, <2>1
    <2>3. tbl'[d] = tbl[d]
      BY <1>3, <1>10
    <2> QED  BY <1>8, <1>9, <2>2, <2>3, PartRests
  <1>11. True(c)'
    <2>1. True(c)
      BY DEF IInv
    <2>2. Bare(c)' /\ DescTrue(c)'
      BY <1>5, <2>1 DEF True, Bare, DescTrue
    <2>3. FtsTrue(c)'
      <3>1. ASSUME NEW n \in FtsNames, heads[<<c, n>>].on PROVE heads[<<c, n>>].fields \subseteq Cols(c)'
        <4>1. heads[<<c, n>>].fields \subseteq Cols(c)
          BY <2>1, <3>1 DEF True, FtsTrue
        <4>2. f \notin heads[<<c, n>>].fields
          BY <3>1, <4>1 DEF UsedBySchema, Cols
        <4>3. ASSUME NEW g \in heads[<<c, n>>].fields PROVE g \in Cols(c)'
          <5>1. g \in Fields /\ g # f /\ tbl[c].col[g] # "none"
            BY <4>1, <4>2 DEF Cols
          <5>2. tbl'[c].col[g] = tbl[c].col[g]
            BY <1>2, <1>3, <5>1
          <5> QED  BY <5>1, <5>2 DEF Cols
        <4> QED  BY <4>3
      <3>2. tbl'[c].rows = tbl[c].rows
        BY <1>2, <1>3
      <3> QED  BY <1>5, <2>1, <3>1, <3>2 DEF True, FtsTrue
    <2>4. VecTrue(c)'
      <3>1. ASSUME NEW g \in imeta[c].vec PROVE tbl'[c].col[g] = "vec" \/ <<c, g>> \in crossed'.cols \/ Unvec(c, g)'
        <4>1. g \in Fields /\ (tbl[c].col[g] = "vec" \/ <<c, g>> \in crossed.cols \/ Unvec(c, g))
          BY <1>1, <2>1, RegistryFields DEF True, VecTrue
        <4>2. CASE g = f
          BY <1>7, <3>1, <4>2
        <4>3. CASE g # f
          <5>1. <<c, g>> # <<c, f>>
            BY <4>3
          <5> QED  BY <1>6, <1>9, <4>1, <5>1
        <4> QED  BY <4>2, <4>3
      <3> QED  BY <3>1 DEF VecTrue
    <2> QED  BY <1>8, <2>2, <2>3, <2>4 DEF True
  <1>12. DropsMarked
    <2>1. ASSUME NEW d \in Colls, Dropping(d), NEW e \in Colls \ {d}, NEW g \in Fields, tbl'[e].live, tbl'[e].col[g] = d
          PROVE  <<e, g>> \in crossed'.cols
      <3>1. RefsMarked(d)
        BY <1>1, <2>1, RefsOfDrops
      <3>2. CASE <<e, g>> = <<c, f>>
        <4>1. e = c /\ g = f
          BY <3>2
        <4> QED  BY <1>7, <2>1, <4>1
      <3>3. CASE <<e, g>> # <<c, f>>
        BY <1>5, <1>6, <2>1, <3>1, <3>3 DEF RefsMarked
      <3> QED  BY <3>2, <3>3
    <2> QED  BY <2>1 DEF DropsMarked, RefsMarked
  <1>13. DropTrue'
    BY <1>1, <1>12, DropsStand
  <1> QED  BY <1>4, <1>10, <1>11, <1>13 DEF IInv

LEMMA ThenRow ==
    ASSUME IShape, NEW t \in ITasks, itask[t].pc \in {"add", "vec"}
    PROVE  OpOK(AddFieldThen(t)) /\ AddFieldThen(t).pc \in {"idle", "fdesc"}
  <1>1. itask[t].c \in Colls /\ itask[t].f \in Fields
    BY DEF IShape, OpOK
  <1> DEFINE r == [pc |-> "fdesc", c |-> itask[t].c, f |-> itask[t].f]
  <1>2. OpOK(r) /\ r.pc = "fdesc"
    BY <1>1 DEF OpOK
  <1>3. AddFieldThen(t) \in {r, IIdle}
    BY DEF AddFieldThen
  <1> HIDE DEF r
  <1> QED  BY <1>2, <1>3, IdleRow

LEMMA ColumnAdded == ASSUME IInv, NEW t \in ITasks, AddFieldAlter(t) PROVE IInv'
  <1>1. IShape /\ itask[t].pc = "add" /\ itask[t].c \in Colls /\ itask[t].f \in Fields /\ itask[t].kind \in Kinds
    BY DEF AddFieldAlter, IAt, IInv, IShape, OpOK
  <1>2. PICK c \in Colls, f \in Fields, k \in Kinds : c = itask[t].c /\ f = itask[t].f /\ k = itask[t].kind
    BY <1>1
  <1> DEFINE v == [pc |-> "vec", c |-> c, f |-> f, desc |-> itask[t].desc]
             m == crossed.cols \cup {<<c, f>>}
  <1>3. /\ tbl[c].live /\ f \notin Cols(c) /\ tbl' = [tbl EXCEPT ![c] = ColRow(c, f, k)] /\ UNCHANGED <<sidx, heads, imeta>>
        /\ IGoto(t, v) \/ IGoto(t, AddFieldThen(t))
        /\ crossed' = MarkCols(m) \/ (crossed' = crossed /\ ~Crossing(k))
    BY <1>2 DEF AddFieldAlter, ColRow, MarkCols
  <1>4. OpOK(v) /\ v.pc = "vec"
    BY DEF OpOK
  <1> HIDE DEF v
  <1>5. PICK r : OpOK(r) /\ r.pc # "drop" /\ IGoto(t, r)
    BY <1>1, <1>3, <1>4, ThenRow
  <1>6. m \in SUBSET (Colls \X Fields) /\ <<c, f>> \in m /\ crossed.cols \subseteq m
    BY <1>1, MarkFields
  <1> HIDE DEF m
  <1>7. MarkCols(m) \in Marks /\ MarkCols(m).cols = m /\ MarkCols(m).ixs = crossed.ixs /\ crossed \in Marks
    BY <1>1, <1>6, MarkRows DEF IShape
  <1>8. crossed' \in Marks /\ crossed'.ixs = crossed.ixs /\ crossed.cols \subseteq crossed'.cols
        /\ (<<c, f>> \in crossed'.cols \/ ~Crossing(k))
    BY <1>3, <1>6, <1>7
  <1>9. tbl[c].col[f] = "none"
    BY <1>3 DEF Cols
  <1>10. k \in Colls => (tbl[k].live \/ <<c, f>> \in crossed'.cols) /\ (Dropping(k) => <<c, f>> \in crossed'.cols)
    BY <1>8 DEF Crossing, Dropping, IAt
  <1>11. f \in imeta[c].vec => <<c, f>> \in crossed'.cols \/ Unvec(c, f)'
    <2>1. f \in imeta[c].vec => <<c, f>> \in crossed.cols \/ Unvec(c, f)
      BY <1>9 DEF IInv, True, VecTrue
    <2>2. Unvec(c, f) => Unvec(c, f)'
      BY <1>1, <1>5, UnvecStays
    <2> QED  BY <1>8, <2>1, <2>2
  <1> QED  BY <1>1, <1>3, <1>5, <1>8, <1>9, <1>10, <1>11, ColumnMoves

LEMMA ColumnDropped == ASSUME IInv, NEW t \in ITasks, DropFieldAlter(t) PROVE IInv'
  <1>1. IShape /\ itask[t].pc = "dropcol" /\ itask[t].c \in Colls /\ itask[t].f \in Fields
    BY DEF DropFieldAlter, IAt, IInv, IShape, OpOK
  <1>2. PICK c \in Colls, f \in Fields, k \in Kinds : c = itask[t].c /\ f = itask[t].f /\ k = "none"
    BY <1>1 DEF Kinds
  <1> DEFINE r == [pc |-> "unvec", c |-> c, f |-> f]
             m == crossed.cols \ {<<c, f>>}
  <1>3. /\ tbl[c].live /\ ~UsedBySchema(c, f) /\ tbl' = [tbl EXCEPT ![c] = ColRow(c, f, k)] /\ UNCHANGED <<sidx, heads, imeta>>
        /\ IGoto(t, r) /\ crossed' = MarkCols(m)
    BY <1>2 DEF DropFieldAlter, ColRow, MarkCols
  <1>4. OpOK(r) /\ r.pc = "unvec" /\ r.c = c /\ r.f = f
    BY DEF OpOK
  <1> HIDE DEF r
  <1>5. m \in SUBSET (Colls \X Fields) /\ \A x : x # <<c, f>> /\ x \in crossed.cols => x \in m
    BY <1>1, MarkFields
  <1> HIDE DEF m
  <1>6. crossed' \in Marks /\ crossed'.ixs = crossed.ixs /\ crossed'.cols = m
    BY <1>1, <1>3, <1>5, MarkRows
  <1>7. Unvec(c, f)'
    <2>1. itask'[t] = r
      BY <1>1, <1>3 DEF IGoto, IShape
    <2> QED  BY <1>4, <2>1 DEF Unvec
  <1>8. k \notin Colls
    BY <1>2, IndexAssumption
  <1> QED  BY <1>1, <1>3, <1>4, <1>5, <1>6, <1>7, <1>8, ColumnMoves

LEMMA VectorAdded == ASSUME IInv, NEW t \in ITasks, AddFieldVector(t) PROVE IInv'
  <1>1. IShape /\ itask[t].pc = "vec" /\ itask[t].c \in Colls /\ itask[t].f \in Fields
    BY DEF AddFieldVector, IAt, IInv, IShape, OpOK
  <1>2. PICK c \in Colls, f \in Fields : c = itask[t].c /\ f = itask[t].f
    BY <1>1
  <1> DEFINE s == imeta[c].vec \cup {f}
             m == crossed.cols \cup {<<c, f>>}
  <1>3. /\ imeta' = [imeta EXCEPT ![c] = VecRow(c, s)] /\ UNCHANGED <<tbl, sidx, heads>> /\ IGoto(t, AddFieldThen(t))
        /\ (crossed' = crossed /\ tbl[c].col[f] = "vec") \/ crossed' = MarkCols(m)
    BY <1>2 DEF AddFieldVector, VecRow, MarkCols
  <1>4. PICK r : OpOK(r) /\ r.pc # "drop" /\ IGoto(t, r)
    BY <1>1, <1>3, ThenRow
  <1>5. m \in SUBSET (Colls \X Fields) /\ <<c, f>> \in m /\ crossed.cols \subseteq m
    BY <1>1, MarkFields
  <1>6. s \in SUBSET Fields /\ \A g : g \in s <=> g \in imeta[c].vec \/ g = f
    BY <1>1, RegistryFields
  <1> HIDE DEF m, s
  <1>7. /\ MarkCols(m) \in Marks /\ MarkCols(m).cols = m /\ MarkCols(m).ixs = crossed.ixs /\ crossed \in Marks
        /\ VecRow(c, s) \in Registries /\ VecRow(c, s).idesc = imeta[c].idesc
        /\ VecRow(c, s).fts = imeta[c].fts /\ VecRow(c, s).vec = s
    BY <1>1, <1>5, <1>6, MarkRows, RegistryRows DEF IShape
  <1>8. crossed' \in Marks /\ crossed'.ixs = crossed.ixs /\ crossed.cols \subseteq crossed'.cols
        /\ (<<c, f>> \in crossed'.cols \/ tbl[c].col[f] = "vec")
    BY <1>3, <1>5, <1>7
  <1>9. \A d \in Colls : imeta'[d] = IF d = c THEN VecRow(c, s) ELSE imeta[d]
    BY <1>1, <1>3 DEF IShape
  <1>10. IShape'
    <2>1. DOMAIN itask' = ITasks /\ \A u \in ITasks : OpOK(itask'[u])
      BY <1>1, <1>4, OpsTyped
    <2>2. imeta' \in [Colls -> Registries]
      BY <1>1, <1>3, <1>7 DEF IShape
    <2> QED  BY <1>1, <1>3, <1>8, <2>1, <2>2 DEF IShape, OpOK
  <1>11. \A d, g : Unvec(d, g) => Unvec(d, g)'
    BY <1>1, <1>4, UnvecStays
  <1>12. ASSUME NEW d \in Colls PROVE FkTrue(d)'
    BY <1>3, <1>8 DEF IInv, True, FkTrue
  <1>13. ASSUME NEW d \in Colls, d # c PROVE True(d)'
    BY <1>3, <1>8, <1>9, <1>11, <1>12, <1>13, PartRests
  <1>14. True(c)'
    <2>1. True(c) /\ imeta'[c].fts = imeta[c].fts /\ imeta'[c].idesc = imeta[c].idesc /\ imeta'[c].vec = s
      BY <1>7, <1>9 DEF IInv
    <2>2. Bare(c)' /\ DescTrue(c)'
      BY <1>3, <1>8, <2>1 DEF True, Bare, DescTrue
    <2>3. FtsTrue(c)'
      BY <1>3, <2>1, FtsRests DEF True
    <2>4. VecTrue(c)'
      <3>1. ASSUME NEW g \in s PROVE tbl[c].col[g] = "vec" \/ <<c, g>> \in crossed'.cols \/ Unvec(c, g)'
        BY <1>6, <1>8, <1>11, <2>1, <3>1 DEF True, VecTrue
      <3> QED  BY <1>3, <2>1, <3>1 DEF VecTrue
    <2> QED  BY <1>12, <2>2, <2>3, <2>4 DEF True
  <1>15. RefsStay
    BY <1>3, <1>8 DEF RefsStay, RefsMarked
  <1> QED  BY <1>4, <1>10, <1>13, <1>14, <1>15, Settles

(* drop_field after its ALTER: the registry follows, or the mark stays. *)
LEMMA VectorDropped == ASSUME IInv, NEW t \in ITasks, DropFieldVector(t) \/ DropFieldEnds(t) PROVE IInv'
  <1>1. IShape /\ itask[t].pc = "unvec" /\ itask[t].c \in Colls /\ itask[t].f \in Fields
    BY DEF DropFieldVector, DropFieldEnds, IAt, IInv, IShape, OpOK
  <1>2. PICK c \in Colls, f \in Fields : c = itask[t].c /\ f = itask[t].f
    BY <1>1
  <1> DEFINE s == imeta[c].vec \ {f}
             m == crossed.cols \cup {<<c, f>>}
  <1>3. /\ UNCHANGED <<tbl, sidx, heads>> /\ IGoto(t, IIdle)
        /\ \/ imeta' = [imeta EXCEPT ![c] = VecRow(c, s)] /\ crossed' = crossed
           \/ imeta' = imeta /\ crossed' = MarkCols(m)
    BY <1>2 DEF DropFieldVector, DropFieldEnds, VecRow, MarkCols, IReturn
  <1>4. m \in SUBSET (Colls \X Fields) /\ <<c, f>> \in m /\ crossed.cols \subseteq m
    BY <1>1, MarkFields
  <1>5. s \in SUBSET Fields /\ \A g : g \in s <=> g \in imeta[c].vec /\ g # f
    BY <1>1, RegistryFields
  <1> HIDE DEF m, s
  <1>6. /\ MarkCols(m) \in Marks /\ MarkCols(m).cols = m /\ MarkCols(m).ixs = crossed.ixs /\ crossed \in Marks
        /\ VecRow(c, s) \in Registries /\ VecRow(c, s).idesc = imeta[c].idesc
        /\ VecRow(c, s).fts = imeta[c].fts /\ VecRow(c, s).vec = s
    BY <1>1, <1>4, <1>5, MarkRows, RegistryRows DEF IShape
  <1>7. crossed' \in Marks /\ crossed'.ixs = crossed.ixs /\ crossed.cols \subseteq crossed'.cols
    BY <1>3, <1>4, <1>6
  <1>8. \A d \in Colls : imeta'[d] = imeta[d] \/ (d = c /\ imeta'[d] = VecRow(c, s))
    BY <1>1, <1>3 DEF IShape
  <1>9. imeta'[c].vec = s \/ (imeta'[c].vec = imeta[c].vec /\ <<c, f>> \in crossed'.cols)
    BY <1>1, <1>3, <1>4, <1>6 DEF IShape
  <1>10. IShape'
    <2>1. DOMAIN itask' = ITasks /\ \A u \in ITasks : OpOK(itask'[u])
      BY <1>1, <1>3, IdleRow, OpsTyped
    <2>2. imeta' \in [Colls -> Registries]
      BY <1>1, <1>3, <1>6 DEF IShape
    <2> QED  BY <1>1, <1>3, <1>7, <2>1, <2>2 DEF IShape, OpOK
  <1>11. ASSUME NEW d, NEW g, d # c \/ g # f, Unvec(d, g) PROVE Unvec(d, g)'
    BY <1>1, <1>2, <1>3, <1>11, UnvecStays
  <1>12. ASSUME NEW d \in Colls PROVE FkTrue(d)'
    BY <1>3, <1>7 DEF IInv, True, FkTrue
  <1>13. ASSUME NEW d \in Colls, d # c PROVE True(d)'
    BY <1>3, <1>7, <1>8, <1>11, <1>12, <1>13, PartRests
  <1>14. True(c)'
    <2>1. True(c) /\ imeta'[c].fts = imeta[c].fts /\ imeta'[c].idesc = imeta[c].idesc
      BY <1>6, <1>8 DEF IInv
    <2>2. Bare(c)' /\ DescTrue(c)'
      BY <1>3, <1>7, <2>1 DEF True, Bare, DescTrue
    <2>3. FtsTrue(c)'
      BY <1>3, <2>1, FtsRests DEF True
    <2>4. VecTrue(c)'
      <3>1. ASSUME NEW g \in imeta'[c].vec PROVE tbl[c].col[g] = "vec" \/ <<c, g>> \in crossed'.cols \/ Unvec(c, g)'
        <4>1. g \in imeta[c].vec /\ (g = f => <<c, f>> \in crossed'.cols)
          BY <1>5, <1>9, <3>1
        <4>2. tbl[c].col[g] = "vec" \/ <<c, g>> \in crossed.cols \/ Unvec(c, g)
          BY <2>1, <4>1 DEF True, VecTrue
        <4>3. CASE g = f
          BY <4>1, <4>3
        <4>4. CASE g # f
          BY <1>7, <1>11, <4>2, <4>4
        <4> QED  BY <4>3, <4>4
      <3> QED  BY <1>3, <3>1 DEF VecTrue
    <2> QED  BY <1>12, <2>2, <2>3, <2>4 DEF True
  <1>15. RefsStay
    BY <1>3, <1>7 DEF RefsStay, RefsMarked
  <1> QED  BY <1>3, <1>10, <1>13, <1>14, <1>15, IdleRow, Settles

LEMMA CollectionDropped == ASSUME IInv, NEW t \in ITasks, DropCollectionTx(t) PROVE IInv'
  <1>1. IShape /\ DropTrue /\ itask[t].pc = "drop" /\ itask[t].c \in Colls
    BY DEF DropCollectionTx, IAt, IInv, IShape, OpOK
  <1>2. PICK c \in Colls : c = itask[t].c
    BY <1>1
  <1>3. /\ tbl' = [tbl EXCEPT ![c] = NoTable] /\ sidx' = {ix \in sidx : ix[1] # c}
        /\ heads' = [x \in DOMAIN heads |-> IF x[1] = c THEN NoHead ELSE heads[x]]
        /\ imeta' = [imeta EXCEPT ![c] = NoRegistry] /\ crossed' = Forget(c) /\ IGoto(t, IIdle)
    BY <1>2 DEF DropCollectionTx, IReturn
  <1>4. /\ NoTable \in TableRows /\ NoTable.live = FALSE /\ \A f \in Fields : NoTable.col[f] = "none"
    BY DEF NoTable, TableRows, Kinds
  <1>5. NoRegistry \in Registries /\ NoRegistry.fts = {} /\ NoRegistry.vec = {} /\ NoRegistry.idesc = {}
    BY DEF NoRegistry, Registries
  <1>6. NoHead \in HeadRows /\ NoHead.on = FALSE
    BY DEF NoHead, HeadRows
  <1>7. /\ crossed' \in Marks /\ \A x : x[1] # c /\ x \in crossed.cols => x \in crossed'.cols
        /\ \A x : x[1] # c /\ x \in crossed.ixs => x \in crossed'.ixs
    <2>1. {x \in crossed.cols : x[1] # c} \in SUBSET (Colls \X Fields) /\ {x \in crossed.ixs : x[1] # c} \in SUBSET IndexNames
      BY <1>1, MarkFields
    <2>2. Forget(c) \in Marks
      BY <2>1 DEF Forget, Marks
    <2> QED  BY <1>3, <2>2 DEF Forget
  <1>8. \A d \in Colls : /\ tbl'[d] = IF d = c THEN NoTable ELSE tbl[d]
                         /\ imeta'[d] = IF d = c THEN NoRegistry ELSE imeta[d]
    BY <1>1, <1>3 DEF IShape
  <1>9. ASSUME NEW d \in Colls, NEW n \in FtsNames
        PROVE  heads'[<<d, n>>] = IF d = c THEN NoHead ELSE heads[<<d, n>>]
    <2>1. <<d, n>> \in DOMAIN heads /\ <<d, n>>[1] = d
      BY <1>1 DEF IShape
    <2> QED  BY <1>3, <2>1
  <1>10. IShape'
    <2>1. DOMAIN itask' = ITasks /\ \A u \in ITasks : OpOK(itask'[u])
      BY <1>1, <1>3, IdleRow, OpsTyped
    <2>2. tbl' \in [Colls -> TableRows] /\ imeta' \in [Colls -> Registries] /\ sidx' \in SUBSET IndexNames
      BY <1>1, <1>3, <1>4, <1>5 DEF IShape
    <2>3. heads' \in [Colls \X FtsNames -> HeadRows]
      BY <1>1, <1>3, <1>6 DEF IShape
    <2> QED  BY <1>7, <2>1, <2>2, <2>3 DEF IShape, OpOK
  <1>11. RefsMarked(c)
    BY <1>1, <1>2 DEF DropTrue
  <1>12. ASSUME NEW d \in Colls, d # c, NEW g \in Fields, <<d, g>> \in crossed.cols PROVE <<d, g>> \in crossed'.cols
    <2>1. <<d, g>>[1] # c
      BY <1>12
    <2> QED  BY <1>7, <1>12, <2>1
  <1>13. ASSUME NEW d \in Colls PROVE FkTrue(d)'
    <2>1. FkTrue(d)
      BY DEF IInv, True
    <2>2. ASSUME NEW g \in Fields, NEW e \in Colls, tbl'[d].live, tbl'[d].col[g] = e
          PROVE  tbl'[e].live \/ <<d, g>> \in crossed'.cols
      <3>1. d # c /\ tbl[d].live /\ tbl[d].col[g] = e
        BY <1>4, <1>8, <2>2
      <3>2. CASE e = c
        BY <1>11, <1>12, <3>1, <3>2 DEF RefsMarked
      <3>3. CASE e # c
        BY <1>8, <1>12, <2>1, <3>1, <3>3 DEF FkTrue
      <3> QED  BY <3>2, <3>3
    <2> QED  BY <2>2 DEF FkTrue
  <1>14. \A d, g : Unvec(d, g) => Unvec(d, g)'
    BY <1>1, <1>3, UnvecStays
  <1>15. ASSUME NEW d \in Colls, d # c PROVE True(d)'
    <2>1. \A ix : ix[1] = d /\ ix \in sidx => ix \in sidx'
      BY <1>3, <1>15
    <2>2. \A ix : ix[1] = d /\ ix \in crossed.ixs => ix \in crossed'.ixs
      BY <1>7, <1>15
    <2>3. tbl'[d] = tbl[d] /\ imeta'[d] = imeta[d] /\ \A n \in FtsNames : heads'[<<d, n>>] = heads[<<d, n>>]
      BY <1>8, <1>9, <1>15
    <2> QED  BY <1>12, <1>13, <1>14, <1>15, <2>1, <2>2, <2>3, PartRests
  <1>16. True(c)'
    <2>1. tbl'[c] = NoTable /\ imeta'[c] = NoRegistry /\ \A n \in FtsNames : heads'[<<c, n>>] = NoHead
      BY <1>8, <1>9
    <2>2. Bare(c)' /\ DescTrue(c)' /\ VecTrue(c)'
      BY <1>4, <1>5, <2>1 DEF Bare, DescTrue, VecTrue
    <2>3. FtsTrue(c)'
      BY <1>4, <1>5, <1>6, <2>1 DEF FtsTrue
    <2> QED  BY <1>13, <2>2, <2>3 DEF True
  <1>17. RefsStay
    <2>1. ASSUME NEW d \in Colls, RefsMarked(d), NEW e \in Colls \ {d}, NEW g \in Fields, tbl'[e].live, tbl'[e].col[g] = d
          PROVE  <<e, g>> \in crossed'.cols
      <3>1. e # c /\ tbl[e].live /\ tbl[e].col[g] = d
        BY <1>4, <1>8, <2>1
      <3> QED  BY <1>12, <2>1, <3>1 DEF RefsMarked
    <2> QED  BY <2>1 DEF RefsStay, RefsMarked
  <1> QED  BY <1>3, <1>10, <1>15, <1>16, <1>17, IdleRow, Settles

LEMMA CollectionCreated == ASSUME IInv, NEW t \in ITasks, CreateCollectionTx(t) PROVE IInv'
  <1>1. IShape /\ DropTrue /\ itask[t].pc = "create" /\ itask[t].c \in Colls /\ itask[t].col \in [Fields -> Kinds]
    BY DEF CreateCollectionTx, IAt, IInv, IShape, OpOK
  <1>2. PICK c \in Colls, col \in [Fields -> Kinds] : c = itask[t].c /\ col = itask[t].col
    BY <1>1
  <1> DEFINE s == {f \in Fields : col[f] = "vec"}
             q == [live |-> TRUE, rows |-> {}, col |-> col]
             m == crossed.cols \cup {<<c, f>> : f \in {g \in Fields : col[g] # c /\ Crossing(col[g])}}
  <1>3. /\ ~tbl[c].live /\ tbl' = [tbl EXCEPT ![c] = q] /\ crossed' = MarkCols(m) /\ UNCHANGED <<sidx, heads>> /\ IGoto(t, IIdle)
        /\ (s = {} /\ imeta' = imeta) \/ imeta' = [imeta EXCEPT ![c] = VecRow(c, s)]
    BY <1>2 DEF CreateCollectionTx, MarkCols, VecRow, IReturn
  <1>4. q \in TableRows /\ q.live = TRUE /\ q.rows = {} /\ q.col = col
    <2>1. {} \in SUBSET RowIds
      OBVIOUS
    <2> QED  BY <2>1 DEF TableRows
  <1>5. s \in SUBSET Fields /\ \A g \in s : col[g] = "vec"
    OBVIOUS
  <1>6. /\ m \in SUBSET (Colls \X Fields) /\ crossed.cols \subseteq m
        /\ \A g \in Fields : col[g] # c /\ Crossing(col[g]) => <<c, g>> \in m
    BY <1>1, MarkFields
  <1> HIDE DEF s, q, m
  <1>7. /\ MarkCols(m) \in Marks /\ MarkCols(m).cols = m /\ MarkCols(m).ixs = crossed.ixs
        /\ VecRow(c, s) \in Registries /\ VecRow(c, s).idesc = imeta[c].idesc
        /\ VecRow(c, s).fts = imeta[c].fts /\ VecRow(c, s).vec = s
    BY <1>1, <1>5, <1>6, MarkRows, RegistryRows
  <1>8. /\ crossed' \in Marks /\ crossed'.cols = m /\ crossed'.ixs = crossed.ixs
    BY <1>3, <1>7
  <1>9. \A d \in Colls : tbl'[d] = IF d = c THEN q ELSE tbl[d]
    BY <1>1, <1>3 DEF IShape
  <1>10. /\ \A d \in Colls : d # c => imeta'[d] = imeta[d]
         /\ imeta'[c] = imeta[c] \/ imeta'[c] = VecRow(c, s)
    BY <1>1, <1>3 DEF IShape
  <1>11. IShape'
    <2>1. DOMAIN itask' = ITasks /\ \A u \in ITasks : OpOK(itask'[u])
      BY <1>1, <1>3, IdleRow, OpsTyped
    <2>2. tbl' \in [Colls -> TableRows] /\ imeta' \in [Colls -> Registries]
      BY <1>1, <1>3, <1>4, <1>7 DEF IShape
    <2> QED  BY <1>1, <1>3, <1>8, <2>1, <2>2 DEF IShape, OpOK
  <1>12. \A d \in Colls : tbl[d].live => tbl'[d].live
    BY <1>4, <1>9
  <1>13. ASSUME NEW d \in Colls PROVE FkTrue(d)'
    <2>1. FkTrue(d)
      BY DEF IInv, True
    <2>2. ASSUME NEW g \in Fields, NEW e \in Colls, tbl'[d].live, tbl'[d].col[g] = e
          PROVE  tbl'[e].live \/ <<d, g>> \in crossed'.cols
      <3>1. CASE d = c
        <4>1. col[g] = e
          BY <1>4, <1>9, <2>2, <3>1
        <4>2. CASE e = c
          BY <2>2, <3>1, <4>2
        <4>3. CASE e # c
          BY <1>6, <1>8, <1>12, <3>1, <4>1, <4>3 DEF Crossing
        <4> QED  BY <4>2, <4>3
      <3>2. CASE d # c
        BY <1>6, <1>8, <1>9, <1>12, <2>1, <2>2, <3>2 DEF FkTrue
      <3> QED  BY <3>1, <3>2
    <2> QED  BY <2>2 DEF FkTrue
  <1>14. \A d, g : Unvec(d, g) => Unvec(d, g)'
    BY <1>1, <1>3, UnvecStays
  <1>15. ASSUME NEW d \in Colls, d # c PROVE True(d)'
    BY <1>3, <1>6, <1>8, <1>9, <1>10, <1>13, <1>14, <1>15, PartRests
  <1>16. True(c)'
    <2>1. True(c) /\ imeta'[c].fts = imeta[c].fts /\ imeta'[c].idesc = imeta[c].idesc /\ tbl'[c] = q
      BY <1>7, <1>9, <1>10 DEF IInv
    <2>2. Bare(c)' /\ DescTrue(c)'
      BY <1>3, <1>4, <1>8, <2>1 DEF True, Bare, DescTrue
    <2>3. FtsTrue(c)'
      <3>1. imeta[c].fts = {} /\ FtsTrue(c)
        BY <1>3, <2>1 DEF True, FtsTrue
      <3>2. \A n \in FtsNames : ~heads[<<c, n>>].on
        BY <3>1, FtsIs
      <3> QED  BY <1>3, <2>1, <3>1, <3>2 DEF FtsTrue
    <2>4. VecTrue(c)'
      <3>1. ASSUME NEW g \in imeta'[c].vec PROVE q.col[g] = "vec" \/ <<c, g>> \in m \/ Unvec(c, g)'
        <4>1. CASE g \in s
          BY <1>4, <1>5, <4>1
        <4>2. CASE g \in imeta[c].vec
          <5>1. g \in Fields
            BY <1>1, <4>2, RegistryFields
          <5>2. tbl[c].col[g] = "none"
            BY <1>3, <2>1, <5>1 DEF True, Bare
          <5>3. <<c, g>> \in crossed.cols \/ Unvec(c, g)
            BY <2>1, <4>2, <5>2 DEF True, VecTrue
          <5> QED  BY <1>6, <1>14, <5>3
        <4> QED  BY <1>7, <1>10, <3>1, <4>1, <4>2
      <3> QED  BY <1>8, <2>1, <3>1 DEF VecTrue
    <2> QED  BY <1>13, <2>2, <2>3, <2>4 DEF True
  <1>17. DropsMarked
    <2>1. ASSUME NEW d \in Colls, Dropping(d), NEW e \in Colls \ {d}, NEW g \in Fields, tbl'[e].live, tbl'[e].col[g] = d
          PROVE  <<e, g>> \in crossed'.cols
      <3>1. RefsMarked(d)
        BY <1>1, <2>1, RefsOfDrops
      <3>2. CASE e = c
        <4>1. col[g] = d /\ d # c
          BY <1>4, <1>9, <2>1, <3>2
        <4>2. Crossing(d)
          BY <2>1 DEF Crossing, Dropping, IAt
        <4> QED  BY <1>6, <1>8, <3>2, <4>1, <4>2
      <3>3. CASE e # c
        BY <1>6, <1>8, <1>9, <2>1, <3>1, <3>3 DEF RefsMarked
      <3> QED  BY <3>2, <3>3
    <2> QED  BY <2>1 DEF DropsMarked, RefsMarked
  <1>18. DropTrue'
    BY <1>1, <1>3, <1>17, IdleRow, DropsStand
  <1> QED  BY <1>11, <1>15, <1>16, <1>18 DEF IInv

LEMMA StutterKeeps == ASSUME IInv, UNCHANGED ivars PROVE IInv'
  <1>1. IShape' /\ DropTrue'
    BY DEF ivars, IInv, IShape, OpOK, DropTrue, RefsMarked
  <1>2. ASSUME NEW c \in Colls PROVE True(c)'
    <2>1. True(c)
      BY DEF IInv
    <2>2. Bare(c)' /\ FtsTrue(c)' /\ DescTrue(c)'
      BY <2>1 DEF True, Bare, FtsTrue, DescTrue, Cols, ivars
    <2>3. VecTrue(c)' /\ FkTrue(c)'
      BY <2>1 DEF True, VecTrue, FkTrue, Unvec, ivars
    <2> QED  BY <2>2, <2>3 DEF True
  <1> QED  BY <1>1, <1>2 DEF IInv

LEMMA IStep == ASSUME IInv, INext PROVE IInv'
  <1>1. UNCHANGED ivars => IInv'
    BY StutterKeeps
  <1>2. ASSUME NEW t \in ITasks, IndexOp(t) PROVE IInv'
    BY <1>1, <1>2, IndexBegins, IndexBuilt, IndexDropped, DescriptionsKeep
       DEF IndexOp, McpCreateIndex, CreateIndexHandler, CreateIndexAdmin, DropIndexAdmin, McpDropIndex, DropIndexHandler,
           AdminUpdateIndexDescription
  <1>3. ASSUME NEW t \in ITasks, FtsOp(t) PROVE IInv'
    BY <1>3, TableBegins, FtsCreated, FtsDropped DEF FtsOp, McpDropFtsIndex, McpCreateFtsIndex
  <1>4. ASSUME NEW t \in ITasks, TableOp(t) PROVE IInv'
    BY <1>1, <1>4, IndexBegins, TableBegins, ColumnAdded, ColumnDropped, VectorAdded, VectorDropped,
       CollectionDropped, CollectionCreated
       DEF TableOp, AdminUpdateFieldDescription, McpDropCollection
  <1> QED  BY <1>2, <1>3, <1>4, AbandonKeeps, RowsKeep DEF INext

LEMMA IInvariant == ISpec => []IInv
  <1>1. IInv /\ [INext]_ivars => IInv'
    BY StutterKeeps, IStep
  <1> QED  BY <1>1, IInitial, PTL DEF ISpec

(* For any number of collections, columns and overlapping operations of    *)
(* schema.rs: a full-text index is registered exactly when its table and   *)
(* triggers exist, over existing columns and with every row; a registered  *)
(* vector or a described index exists, but for the marked overlaps.        *)
THEOREM RegistriesTrue == ISpec => []RegistryTruth
  <1>1. IInv => RegistryTruth
    <2> SUFFICES ASSUME IInv, NEW c \in Colls
                 PROVE  /\ McpListFtsIndexes(c) = imeta[c].fts
                        /\ imeta[c].fts = {[name |-> n, fields |-> heads[<<c, n>>].fields] : n \in {m \in FtsNames : heads[<<c, m>>].on}}
                        /\ \A n \in FtsNames : heads[<<c, n>>].on => heads[<<c, n>>].docs = tbl[c].rows /\ heads[<<c, n>>].fields \subseteq Cols(c)
                        /\ imeta[c].idesc \subseteq sidx \cup crossed.ixs
                        /\ \A f \in imeta[c].vec : \/ tbl[c].col[f] = "vec" \/ <<c, f>> \in crossed.cols
                                                   \/ \E t \in ITasks : IAt(t, "unvec") /\ itask[t].c = c /\ itask[t].f = f
      BY DEF RegistryTruth
    <2>1. FtsTrue(c) /\ DescTrue(c) /\ VecTrue(c)
      BY DEF IInv, True
    <2>2. McpListFtsIndexes(c) = imeta[c].fts
      BY <2>1 DEF FtsTrue, McpListFtsIndexes
    <2>3. imeta[c].idesc \subseteq sidx \cup crossed.ixs
      BY <2>1 DEF DescTrue
    <2> QED  BY <2>1, <2>2, <2>3 DEF FtsTrue, VecTrue, Unvec, IAt
  <1> QED  BY <1>1, IInvariant, PTL

(* For any number of collections and overlapping operations, a foreign key *)
(* points to a live collection unless its column came while the collection *)
(* was being dropped (find_fk_referrers runs before the drop), and the     *)
(* preview of a drop shows no referrer exactly when the drop's check does. *)
THEOREM ForeignKeysHold == ISpec => []NoDanglingFk
  <1>1. ASSUME IInv PROVE NoDanglingFk
    <2>1. \A c, d \in Colls, f \in Fields : tbl[c].live /\ tbl[c].col[f] = d => tbl[d].live \/ <<c, f>> \in crossed.cols
      BY <1>1 DEF IInv, True, FkTrue
    <2>2. ASSUME NEW c \in Colls PROVE DropCollectionBlastRadius(c).reverse = FindFkReferrers(c)
      <3>1. DropCollectionBlastRadius(c).reverse = {x \in (Colls \ {c}) \X Fields : tbl[x[1]].col[x[2]] = c}
        BY DEF DropCollectionBlastRadius
      <3>2. ASSUME NEW x \in (Colls \ {c}) \X Fields, tbl[x[1]].col[x[2]] = c PROVE tbl[x[1]].live
        <4>1. x[1] \in Colls /\ x[2] \in Fields /\ c # "none"
          BY IndexAssumption
        <4>2. Bare(x[1])
          BY <1>1, <4>1 DEF IInv, True
        <4> QED  BY <3>2, <4>1, <4>2 DEF Bare
      <3> QED  BY <3>1, <3>2 DEF FindFkReferrers
    <2> QED  BY <2>1, <2>2 DEF NoDanglingFk
  <1> QED  BY <1>1, IInvariant, PTL
=============================================================================
