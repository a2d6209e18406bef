----------------------- MODULE TenantLifecycleProofs -----------------------
(***************************************************************************)
(* Proofs about the databases of tenants: TenantLifecycle, for any number  *)
(* of lives of the id, requests and deletions in flight, and Migrations,   *)
(* for any number of administrators, tenants, starts and crashes.          *)
(***************************************************************************)
EXTENDS TenantLifecycle, Migrations, WellFoundedInduction, NaturalsInduction, TLAPS

(* The type invariant makes the three statements about the deletion        *)
(* inductive: each relates an entry to the row and to the program counters *)
(* of the deletions that still have to remove it.                          *)
IInv == TypeOK /\ EvictionsSuffice /\ TokensDropped /\ SnapshotKept

----------------------------------------------------------------------------
(* Files are only ever added, so a request that was well typed stays so.   *)
LEMMA RowsGrow ==
    ASSUME files \in Nat, files' \in Nat, files <= files'
    PROVE  ReqRows \subseteq ReqRows'
  BY DEF ReqRows

(* The parts of the type invariant that the steps need. *)
LEMMA Parts ==
    ASSUME TypeOK
    PROVE  /\ MaxFile \in Nat /\ files \in Nat /\ files <= MaxFile
           /\ row \in 0 .. files /\ path \in 0 .. files
           /\ req \in [Reqs -> ReqRows]
           /\ pool.f \in 0 .. files /\ http.f \in 0 .. files /\ inner.f \in 0 .. files
  <1>1. /\ files \in 0 .. MaxFile /\ row \in 0 .. files /\ path \in 0 .. files
        /\ req \in [Reqs -> ReqRows]
        /\ pool \in Entries /\ http \in Entries /\ inner \in Entries
    BY DEF TypeOK
  <1>2. files \in Nat /\ files <= MaxFile
    BY <1>1, MaxFileAssumption
  <1> QED BY <1>1, <1>2, MaxFileAssumption DEF Entries

(* The fields of a request. *)
LEMMA ReqFields ==
    ASSUME TypeOK, NEW r \in Reqs
    PROVE  /\ req[r] \in ReqRows
           /\ req[r].k \in 0 .. files /\ req[r].f \in 0 .. files
           /\ req[r].next \in {"idle", "fill", "in", "inner", "served"}
  BY DEF TypeOK, ReqRows

(* What the steps of a request make of its record. *)
ReqPcs == {"idle", "miss", "open", "insert", "fill", "in", "inner", "wrap", "served"}
ReqNexts == {"idle", "fill", "in", "inner", "served"}

LEMMA ReqEdits ==
    ASSUME NEW q \in ReqRows, NEW pc \in ReqPcs
    PROVE  /\ [q EXCEPT !.pc = pc] \in ReqRows
           /\ \A f \in 0 .. files : [q EXCEPT !.f = f, !.pc = pc] \in ReqRows
           /\ \A n \in ReqNexts :
                 /\ [q EXCEPT !.pc = pc, !.next = n] \in ReqRows
                 /\ [q EXCEPT !.pc = pc, !.create = TRUE, !.next = n] \in ReqRows
           /\ \A k \in 0 .. files, mcp \in BOOLEAN, n \in ReqNexts :
                 /\ [q EXCEPT !.pc = pc, !.k = k, !.mcp = mcp] \in ReqRows
                 /\ [q EXCEPT !.pc = pc, !.k = k, !.mcp = mcp, !.next = n] \in ReqRows
                 /\ [q EXCEPT !.pc = pc, !.k = k, !.create = TRUE, !.next = n] \in ReqRows
  <1> USE DEF ReqRows, ReqPcs, ReqNexts
  <1>1. [q EXCEPT !.pc = pc] \in ReqRows
    OBVIOUS
  <1>2. ASSUME NEW f \in 0 .. files PROVE [q EXCEPT !.f = f, !.pc = pc] \in ReqRows
    OBVIOUS
  <1>3. ASSUME NEW n \in ReqNexts
        PROVE  /\ [q EXCEPT !.pc = pc, !.next = n] \in ReqRows
               /\ [q EXCEPT !.pc = pc, !.create = TRUE, !.next = n] \in ReqRows
    OBVIOUS
  <1>4. ASSUME NEW k \in 0 .. files, NEW mcp \in BOOLEAN, NEW n \in ReqNexts
        PROVE  /\ [q EXCEPT !.pc = pc, !.k = k, !.mcp = mcp] \in ReqRows
               /\ [q EXCEPT !.pc = pc, !.k = k, !.mcp = mcp, !.next = n] \in ReqRows
               /\ [q EXCEPT !.pc = pc, !.k = k, !.create = TRUE, !.next = n] \in ReqRows
    OBVIOUS
  <1> QED BY <1>1, <1>2, <1>3, <1>4, Zenon

LEMMA FreshReqs ==
    ASSUME files \in Nat
    PROVE  /\ NoReq \in ReqRows
           /\ \A k \in 0 .. files, mcp \in BOOLEAN :
                 /\ [NoReq EXCEPT !.pc = "open", !.k = k, !.mcp = mcp, !.next = "in"]
                       \in ReqRows
                 /\ [NoReq EXCEPT !.pc = "miss", !.k = k, !.mcp = mcp] \in ReqRows
           /\ [NoReq EXCEPT !.pc = "open", !.next = "served"] \in ReqRows
           /\ \A k \in 0 .. files :
                 [NoReq EXCEPT !.pc = "open", !.k = k, !.create = TRUE, !.next = "served"]
                    \in ReqRows
  <1>1. NoReq \in ReqRows
    BY DEF ReqRows, NoReq
  <1>2. "open" \in ReqPcs /\ "miss" \in ReqPcs /\ "in" \in ReqNexts
        /\ "served" \in ReqNexts /\ TRUE \in BOOLEAN
    BY DEF ReqPcs, ReqNexts
  <1> QED BY <1>1, <1>2, ReqEdits, Zenon

(* A step of one request keeps the others. *)
LEMMA StepReqType ==
    ASSUME req \in [Reqs -> ReqRows], NEW r \in Reqs, NEW q \in ReqRows,
           StepReq(r, q)
    PROVE  req' \in [Reqs -> ReqRows]
  BY DEF StepReq

(* The empty entry, and an entry for a file that exists. *)
LEMMA EntryTypes ==
    ASSUME files \in Nat
    PROVE  /\ NoFile \in Entries
           /\ \A f \in 0 .. files : EntryFor(f) \in Entries
  BY DEF NoFile, EntryFor, Entries

----------------------------------------------------------------------------
LEMMA InitIInv == Init => IInv
  <1> SUFFICES ASSUME Init PROVE IInv
    OBVIOUS
  <1>1. TypeOK
    <2>1. NoReq \in ReqRows
      BY MaxFileAssumption DEF Init, NoReq, ReqRows
    <2>2. NoFile \in Entries /\ files \in 0 .. MaxFile
      BY MaxFileAssumption, EntryTypes DEF Init
    <2>3. row \in 0 .. files /\ path \in 0 .. files /\ keys \in 0 .. files
      BY DEF Init
    <2> QED BY <2>1, <2>2, <2>3 DEF Init, TypeOK
  <1> QED BY <1>1 DEF Init, IInv, EvictionsSuffice, TokensDropped, SnapshotKept, NoFile

----------------------------------------------------------------------------
(* Types.  Most request steps change nothing but the request. *)
LEMMA RequestOnly ==
    ASSUME TypeOK, UNCHANGED <<diskVars, memVars, del>>, req' \in [Reqs -> ReqRows]
    PROVE  TypeOK'
  BY DEF TypeOK, diskVars, memVars, ReqRows, Entries

LEMMA RequestTypes ==
    ASSUME TypeOK, NEW r \in Reqs, RequestStep(r)
    PROVE  TypeOK'
  <1>1. /\ MaxFile \in Nat /\ files \in Nat /\ files <= MaxFile
        /\ row \in 0 .. files /\ path \in 0 .. files
        /\ req \in [Reqs -> ReqRows]
    BY Parts
  <1>2. /\ req[r] \in ReqRows
        /\ req[r].k \in 0 .. files /\ req[r].f \in 0 .. files
        /\ req[r].next \in {"idle", "fill", "in", "inner", "served"}
    BY ReqFields
  <1>3. pool.f \in 0 .. files /\ http.f \in 0 .. files /\ inner.f \in 0 .. files
    BY Parts
  <1> USE DEF ReqPcs, ReqNexts
  <1>4. CASE \E k \in FileIds, mcp \in BOOLEAN : Begin(r, k, mcp)
    <2>1. PICK k \in FileIds, mcp \in BOOLEAN : Begin(r, k, mcp)
      BY <1>4
    <2>2. k \in 0 .. files
      BY <1>1, <2>1 DEF Begin, FileIds
    <2> QED BY <1>1, <1>2, <2>1, <2>2, FreshReqs, StepReqType, RequestOnly DEF Begin
  <1>5. CASE BeginTask(r)
    BY <1>1, <1>2, <1>5, FreshReqs, StepReqType, RequestOnly DEF BeginTask
  <1>6. CASE BeginAdmin(r)
    BY <1>1, <1>2, <1>6, FreshReqs, StepReqType, RequestOnly DEF BeginAdmin
  <1>7. CASE ReadMeta(r)
    BY <1>1, <1>2, <1>7, ReqEdits, FreshReqs, StepReqType, RequestOnly DEF ReadMeta
  <1>8. CASE Entry(r)
    BY <1>1, <1>2, <1>3, <1>8, ReqEdits, StepReqType, RequestOnly DEF Entry
  <1>9. CASE OpenFile(r)
    BY <1>1, <1>2, <1>9, ReqEdits, StepReqType, RequestOnly DEF OpenFile
  <1>10. CASE OpenMissing(r)
    <2>1. CASE MakeFile(r)
      <3>1. files' \in Nat /\ files < files' /\ files' = files + 1
        BY <1>1, <2>1 DEF MakeFile
      <3>2. req[r] \in ReqRows' /\ req \in [Reqs -> ReqRows']
        BY <1>1, <1>2, <3>1, RowsGrow
      <3>3. [req[r] EXCEPT !.f = files + 1, !.pc = "insert"] \in ReqRows'
        <4>1. files + 1 \in 0 .. files'
          BY <3>1
        <4> QED BY <3>2, <4>1 DEF ReqRows
      <3>4. req' \in [Reqs -> ReqRows']
        BY <2>1, <3>2, <3>3 DEF MakeFile, StepReq
      <3>5. Entries \subseteq Entries' /\ 1 .. files \subseteq 1 .. files'
            /\ 0 .. files \subseteq 0 .. files'
        BY <1>1, <3>1 DEF Entries
      <3>6. files' \in 0 .. MaxFile /\ path' \in 0 .. files'
        BY <1>1, <2>1, <3>1 DEF MakeFile
      <3> QED BY <2>1, <3>4, <3>5, <3>6 DEF MakeFile, TypeOK, memVars
    <2>2. CASE StepReq(r, NoReq) /\ UNCHANGED <<diskVars, memVars, del>>
      BY <1>1, <1>2, <2>2, FreshReqs, StepReqType, RequestOnly
    <2> QED BY <1>10, <2>1, <2>2 DEF OpenMissing
  <1>11. CASE InsertPool(r)
    <2>1. req' \in [Reqs -> ReqRows]
      BY <1>1, <1>2, <1>11, ReqEdits, StepReqType DEF InsertPool
    <2>2. pool' \in Entries
      BY <1>1, <1>2, <1>11, EntryTypes DEF InsertPool
    <2> QED BY <1>11, <2>1, <2>2 DEF InsertPool, TypeOK, diskVars, ReqRows, Entries
  <1>12. CASE FillCache(r)
    <2>1. req' \in [Reqs -> ReqRows]
      BY <1>1, <1>2, <1>12, ReqEdits, StepReqType DEF FillCache
    <2>2. cache' \in [FileIds -> {"none", "timely", "late"}]
      BY <1>12 DEF FillCache, TypeOK
    <2> QED BY <1>12, <2>1, <2>2 DEF FillCache, TypeOK, diskVars, ReqRows, Entries
  <1>13. CASE HandleRest(r)
    BY <1>1, <1>2, <1>13, ReqEdits, StepReqType, RequestOnly DEF HandleRest
  <1>14. CASE HandleMcp(r)
    BY <1>1, <1>2, <1>3, <1>14, ReqEdits, StepReqType, RequestOnly DEF HandleMcp
  <1>15. CASE InsertInner(r)
    <2>1. req' \in [Reqs -> ReqRows]
      BY <1>1, <1>2, <1>15, ReqEdits, StepReqType DEF InsertInner
    <2>2. inner' \in Entries
      BY <1>1, <1>2, <1>15, EntryTypes DEF InsertInner
    <2> QED BY <1>15, <2>1, <2>2 DEF InsertInner, TypeOK, diskVars, ReqRows, Entries
  <1>16. CASE InsertHttp(r)
    <2>1. req' \in [Reqs -> ReqRows]
      BY <1>1, <1>2, <1>16, ReqEdits, StepReqType DEF InsertHttp
    <2>2. http' \in Entries
      BY <1>1, <1>2, <1>16, EntryTypes DEF InsertHttp
    <2> QED BY <1>16, <2>1, <2>2 DEF InsertHttp, TypeOK, diskVars, ReqRows, Entries
  <1>17. CASE Done(r)
    BY <1>1, <1>2, <1>17, ReqEdits, FreshReqs, StepReqType, RequestOnly DEF Done
  <1> QED BY <1>4, <1>5, <1>6, <1>7, <1>8, <1>9, <1>10, <1>11, <1>12, <1>13,
             <1>14, <1>15, <1>16, <1>17, RequestStep(r) DEF RequestStep

LEMMA DeleteTypes ==
    ASSUME TypeOK, NEW d \in Dels, DeleteStep(d)
    PROVE  TypeOK'
  <1>1. files \in Nat /\ row \in 0 .. files /\ path \in 0 .. files
    BY Parts
  <1>2. NoFile \in Entries
    BY <1>1, EntryTypes
  <1>3. CASE MarkDeleted(d)
    <2>1. row \in 1 .. files /\ row' \in 0 .. files
      BY <1>1, <1>3 DEF MarkDeleted
    <2>2. deleted' \subseteq 1 .. files
      BY <1>3, <2>1 DEF MarkDeleted, TypeOK
    <2> QED BY <1>3, <2>1, <2>2 DEF MarkDeleted, StepDel, TypeOK, memVars, ReqRows, Entries
  <1>4. CASE MoveToTrash(d)
    <2>1. path # 0 => path \in 1 .. files
      BY <1>1
    <2>2. trash' \subseteq 1 .. files /\ moved' \subseteq 1 .. files
      BY <1>4, <2>1 DEF MoveToTrash, TypeOK
    <2>3. path' \in 0 .. files
      <3>1. path' = 0 \/ path' = path
        BY <1>4 DEF MoveToTrash
      <3> QED BY <1>1, <3>1
    <2> QED BY <1>4, <2>2, <2>3 DEF MoveToTrash, StepDel, TypeOK, memVars, ReqRows, Entries
  <1>5. CASE EvictPool(d)
    BY <1>2, <1>5 DEF EvictPool, StepDel, TypeOK, diskVars, ReqRows, Entries
  <1>6. CASE EvictMcp(d)
    BY <1>2, <1>6 DEF EvictMcp, StepDel, TypeOK, diskVars, ReqRows, Entries
  <1>7. CASE ClearTenant(d)
    BY <1>7 DEF ClearTenant, StepDel, TypeOK, diskVars, ReqRows, Entries
  <1> QED BY <1>3, <1>4, <1>5, <1>6, <1>7, DeleteStep(d) DEF DeleteStep

LEMMA TypeStep == TypeOK /\ [Next]_vars => TypeOK'
  <1> SUFFICES ASSUME TypeOK, [Next]_vars PROVE TypeOK'
    OBVIOUS
  <1>1. files \in Nat /\ MaxFile \in Nat /\ req \in [Reqs -> ReqRows]
    BY Parts
  <1>2. CASE MakeTenant
    <2>1. files' \in Nat /\ files' = files + 1
      BY <1>1, <1>2 DEF MakeTenant
    <2>2. ReqRows \subseteq ReqRows'
      BY <1>1, <2>1, RowsGrow
    <2>3. req' \in [Reqs -> ReqRows']
      BY <1>1, <1>2, <2>2 DEF MakeTenant
    <2>4. Entries \subseteq Entries' /\ 1 .. files \subseteq 1 .. files'
      BY <1>1, <2>1 DEF Entries
    <2>5. files' \in 0 .. MaxFile /\ row' \in 0 .. files' /\ path' \in 0 .. files'
          /\ keys' \in 0 .. files'
      BY <1>1, <1>2, <2>1 DEF MakeTenant
    <2>6. created' \in BOOLEAN
      BY <1>2 DEF MakeTenant, TypeOK
    <2> QED BY <1>2, <2>3, <2>4, <2>5, <2>6 DEF MakeTenant, TypeOK
  <1>3. CASE ClearCreated
    BY <1>3 DEF ClearCreated, TypeOK, diskVars, ReqRows, Entries
  <1>4. CASE \E S \in SUBSET FileIds : SweepTrash(S)
    BY <1>4 DEF SweepTrash, TypeOK, memVars, ReqRows, Entries
  <1>5. CASE \E k \in FileIds : CacheLapse(k)
    BY <1>5 DEF CacheLapse, TypeOK, diskVars, ReqRows, Entries
  <1>6. CASE Restart
    <2>1. NoReq \in ReqRows
      BY <1>1 DEF NoReq, ReqRows
    <2> QED BY <1>1, <1>6, <2>1, EntryTypes DEF Restart, TypeOK, diskVars, ReqRows, Entries
  <1>7. CASE UNCHANGED vars
    BY <1>7 DEF vars, TypeOK, ReqRows, Entries
  <1> QED BY <1>2, <1>3, <1>4, <1>5, <1>6, <1>7, RequestTypes, DeleteTypes DEF Next

----------------------------------------------------------------------------
(* The deletion's part of the invariant: what each step does to the        *)
(* entries, to the row and to the deletions that are under way.            *)
DelInv == EvictionsSuffice /\ TokensDropped

(* A step that moves neither the row, the entries nor a deletion. *)
LEMMA Undisturbed ==
    ASSUME DelInv, UNCHANGED <<row, pool, http, cache, del>>
    PROVE  DelInv'
  BY DEF DelInv, EvictionsSuffice, TokensDropped, Pending

LEMMA RequestDelInv ==
    ASSUME TypeOK, DelInv, NEW r \in Reqs, RequestStep(r)
    PROVE  DelInv'
  <1>1. CASE InsertPool(r)
    BY <1>1 DEF InsertPool, DelInv, EvictionsSuffice, TokensDropped, Pending,
       EntryFor, diskVars
  <1>2. CASE InsertHttp(r)
    BY <1>2 DEF InsertHttp, DelInv, EvictionsSuffice, TokensDropped, Pending,
       EntryFor, diskVars
  <1>3. CASE FillCache(r)
    BY <1>3 DEF FillCache, DelInv, EvictionsSuffice, TokensDropped, Pending,
       diskVars, TypeOK
  <1>4. CASE InsertInner(r)
    BY <1>4, Undisturbed DEF InsertInner, diskVars
  <1>5. CASE UNCHANGED <<row, memVars, del>>
    BY <1>5, Undisturbed DEF memVars
  <1> QED BY <1>1, <1>2, <1>3, <1>4, <1>5, RequestStep(r) DEF RequestStep, Begin,
             BeginTask, BeginAdmin, ReadMeta, Entry, OpenFile, OpenMissing, MakeFile,
             HandleRest, HandleMcp, Done, diskVars

(* A deletion keeps what it has yet to remove on its program counter. *)
LEMMA DeleteDelInv ==
    ASSUME TypeOK, DelInv, NEW d \in Dels, DeleteStep(d)
    PROVE  DelInv'
  <1>1. ASSUME NEW pc, StepDel(d, pc)
        PROVE  /\ del'[d] = pc
               /\ \A e \in Dels \ {d} : del'[e] = del[e]
    BY <1>1 DEF StepDel, TypeOK
  <1>2. CASE MarkDeleted(d)
    BY <1>1, <1>2 DEF MarkDeleted, DelInv, EvictionsSuffice, TokensDropped, Pending,
       memVars
  <1>3. CASE MoveToTrash(d)
    BY <1>1, <1>3 DEF MoveToTrash, DelInv, EvictionsSuffice, TokensDropped, Pending,
       memVars
  <1>4. CASE EvictPool(d)
    BY <1>1, <1>4 DEF EvictPool, DelInv, EvictionsSuffice, TokensDropped, Pending,
       diskVars, NoFile
  <1>5. CASE EvictMcp(d)
    BY <1>1, <1>5 DEF EvictMcp, DelInv, EvictionsSuffice, TokensDropped, Pending,
       diskVars, NoFile
  <1>6. CASE ClearTenant(d)
    BY <1>1, <1>6 DEF ClearTenant, DelInv, EvictionsSuffice, TokensDropped, Pending,
       diskVars
  <1> QED BY <1>2, <1>3, <1>4, <1>5, <1>6, DeleteStep(d) DEF DeleteStep

LEMMA DelInvStep == TypeOK /\ DelInv /\ [Next]_vars => DelInv'
  <1> SUFFICES ASSUME TypeOK, DelInv, [Next]_vars PROVE DelInv'
    OBVIOUS
  <1>1. CASE MakeTenant
    <2>1. row = 0 /\ UNCHANGED <<pool, http, cache, del>>
      BY <1>1 DEF MakeTenant
    <2>2. \A k \in FileIds : k # 0
      BY MaxFileAssumption DEF FileIds
    <2> QED BY <2>1, <2>2 DEF DelInv, EvictionsSuffice, TokensDropped, Pending
  <1>2. CASE ClearCreated
    BY <1>2 DEF ClearCreated, DelInv, EvictionsSuffice, TokensDropped, Pending,
       diskVars
  <1>3. CASE \E S \in SUBSET FileIds : SweepTrash(S)
    BY <1>3, Undisturbed DEF SweepTrash, memVars
  <1>4. CASE \E k \in FileIds : CacheLapse(k)
    BY <1>4 DEF CacheLapse, DelInv, EvictionsSuffice, TokensDropped, Pending,
       diskVars, TypeOK
  <1>5. CASE Restart
    BY <1>5 DEF Restart, DelInv, EvictionsSuffice, TokensDropped, NoFile
  <1>6. CASE UNCHANGED vars
    BY <1>6, Undisturbed DEF vars
  <1> QED BY <1>1, <1>2, <1>3, <1>4, <1>5, <1>6, RequestDelInv, DeleteDelInv
          DEF Next

----------------------------------------------------------------------------
(* Only the rename adds to moved, and it adds to _trash as well; only the  *)
(* janitor takes from _trash, and it records what it took.                 *)
LEMMA SnapshotStep == SnapshotKept /\ [Next]_vars => SnapshotKept'
  <1> SUFFICES ASSUME SnapshotKept, [Next]_vars PROVE SnapshotKept'
    OBVIOUS
  <1>1. CASE \E S \in SUBSET FileIds : SweepTrash(S)
    BY <1>1 DEF SweepTrash, SnapshotKept
  <1>2. CASE \E d \in Dels : MoveToTrash(d)
    BY <1>2 DEF MoveToTrash, SnapshotKept
  <1>3. CASE UNCHANGED <<trash, moved, expired>>
    BY <1>3 DEF SnapshotKept
  <1>4. ASSUME NEW r \in Reqs, RequestStep(r)
        PROVE  UNCHANGED <<trash, moved, expired>>
    BY <1>4 DEF RequestStep, Begin, BeginTask, BeginAdmin, ReadMeta, Entry, OpenFile,
       OpenMissing, MakeFile, InsertPool, FillCache, HandleRest, HandleMcp,
       InsertInner, InsertHttp, Done, diskVars
  <1>5. ASSUME NEW d \in Dels, DeleteStep(d), ~ MoveToTrash(d)
        PROVE  UNCHANGED <<trash, moved, expired>>
    BY <1>5 DEF DeleteStep, MarkDeleted, EvictPool, EvictMcp, ClearTenant, diskVars
  <1>6. CASE MakeTenant \/ ClearCreated \/ Restart \/ UNCHANGED vars
    BY <1>3, <1>6 DEF MakeTenant, ClearCreated, Restart, vars, diskVars
  <1>7. CASE \E k \in FileIds : CacheLapse(k)
    BY <1>3, <1>7 DEF CacheLapse, diskVars
  <1> QED BY <1>1, <1>2, <1>3, <1>4, <1>5, <1>6, <1>7 DEF Next

----------------------------------------------------------------------------
LEMMA Inductive == Spec => []IInv
  <1>1. IInv /\ [Next]_vars => IInv'
    BY TypeStep, DelInvStep, SnapshotStep DEF IInv, DelInv
  <1> QED BY <1>1, InitIInv, PTL DEF Spec

(* The registries, the tables and the requests in flight keep their types. *)
THEOREM LifecycleTypes == Spec => []TypeOK
  <1>1. IInv => TypeOK
    BY DEF IInv
  <1> QED BY <1>1, Inductive, PTL

(* However many deletions, creations and requests overlap, no pool or MCP  *)
(* service registered during a life is there once the evictions of         *)
(* soft_delete_tenant have run.                                            *)
THEOREM DeletionEvicts == Spec => []EvictionsSuffice
  <1>1. IInv => EvictionsSuffice
    BY DEF IInv
  <1> QED BY <1>1, Inductive, PTL

(* However many deletions, creations and requests overlap, no token cached *)
(* during a life is honoured once clear_tenant has run.                    *)
THEOREM DeletionDropsTokens == Spec => []TokensDropped
  <1>1. IInv => TokensDropped
    BY DEF IInv
  <1> QED BY <1>1, Inductive, PTL

(* A tenant snapshot in _trash leaves it only by the janitor's hand. *)
THEOREM SnapshotsSurvive == Spec => []SnapshotKept
  <1>1. IInv => SnapshotKept
    BY DEF IInv
  <1> QED BY <1>1, Inductive, PTL

(* A deleted tenant's database is made again by a new life of the id or by *)
(* a request that read a live row, never on the word of a cached token or  *)
(* of a background task.                                                   *)
THEOREM DeletedStaysDeleted == Spec => OnlyAdmittedCreate
  <1> DEFINE Admitted == \E r \in Reqs : req[r].pc = "open" /\ req[r].create
             Made == path = 0 /\ path' # 0 /\ row' = row
  <1>1. ASSUME TypeOK, Next, Made PROVE Admitted
    <2>1. CASE MakeTenant
      BY <1>1, <2>1, Parts DEF MakeTenant
    <2>2. ASSUME NEW r \in Reqs, RequestStep(r) PROVE Admitted
      <3>1. OpenMissing(r)
        BY <1>1, <2>2 DEF RequestStep, Begin, BeginTask, BeginAdmin, ReadMeta, Entry,
           OpenFile, InsertPool, FillCache, HandleRest, HandleMcp, InsertInner,
           InsertHttp, Done, diskVars
      <3> QED BY <1>1, <3>1 DEF OpenMissing, diskVars
    <2>3. ASSUME NEW d \in Dels, DeleteStep(d) PROVE FALSE
      BY <1>1, <2>3 DEF DeleteStep, MarkDeleted, MoveToTrash, EvictPool, EvictMcp,
         ClearTenant, diskVars
    <2>4. CASE \/ ClearCreated \/ Restart
               \/ \E S \in SUBSET FileIds : SweepTrash(S)
               \/ \E k \in FileIds : CacheLapse(k)
      BY <1>1, <2>4 DEF ClearCreated, Restart, SweepTrash, CacheLapse, diskVars
    <2> QED BY <1>1, <2>1, <2>2, <2>3, <2>4 DEF Next
  <1>2. TypeOK /\ [Next]_vars => [Made => Admitted]_vars
    BY <1>1
  <1> QED BY <1>2, LifecycleTypes, PTL DEF Spec, OnlyAdmittedCreate

----------------------------------------------------------------------------
(* Migrations.  Where a start is, what the meta database has by then, and  *)
(* for each tenant what its markers, its history and the cut-off starts    *)
(* say of its rule, grants, origins and owner.                             *)

AdminRows == [row : {TRUE}, role : {"member", "owner"}, tok : {"none", "legacy", "plain"}, minted : Nat]
TenantRows == [row : {TRUE}, owner : MAdmins \cup {NoAdmin}, mark : SUBSET Jobs, allow : SUBSET MOrigins]
DbRows == [file : BOOLEAN, hooks : SUBSET MOrigins, root : {"none", "read", "both"},
           rpc : {"none", "unsafe", "closed"}, new : BOOLEAN, strict : BOOLEAN]

TenantPcs == {"migrate", "egress", "policy", "stamp", "publish", "grant", "strict"}
PastOwner == {"assign", "tenants", "pick", "serving"} \cup TenantPcs
PastMint == {"owner"} \cup PastOwner
PastRole == {"lift", "revoke", "rebuild", "mint"} \cup PastMint

MgShape ==
    /\ adm \in [MAdmins -> {NoRow} \cup AdminRows]
    /\ ten \in [MTenants -> {NoRow} \cup TenantRows]
    /\ tdb \in [MTenants -> DbRows]
    /\ at.pc \in {"down", "bootstrap", "columns", "role"} \cup PastRole
    /\ at.pc \in TenantPcs => at.t \in MTenants /\ ten[at.t].row
    /\ at.pc \in TenantPcs \cup {"pick"} => at.left \subseteq Rows(ten)

HasOwner == \E a \in MAdmins : adm[a].row /\ adm[a].role = "owner"
MintsOnce == \A a \in MAdmins : adm[a].row => \/ adm[a].minted = 0
                                              \/ adm[a].minted = 1 /\ adm[a].tok = "plain"
Tokened == at.pc \in PastMint => \A a \in MAdmins : adm[a].row => adm[a].tok # "none"
Peopled == at.pc \notin {"down", "bootstrap"} => \E a \in MAdmins : adm[a].row
RoleGiven == "role" \in cols => at.pc = "lift" \/ <<"role">> \in cut \/ HasOwner
Passed == (at.pc \in PastRole => "role" \in cols) /\ (at.pc \in PastOwner => "owner" \in cols)
MetaTrue == MintsOnce /\ Tokened /\ Peopled /\ RoleGiven /\ Passed

Taken(x, t) == <<x, t>> \in removed
(* A tenant that is not there yet left no traces. *)
Absent(t) ==
    ~ten[t].row => /\ ~tdb[t].file /\ tdb[t].root = "none"
                   /\ ~Taken("policy", t) /\ ~Taken("publish", t) /\ ~Taken("owner", t)
                   /\ \A o \in MOrigins : <<"egress", t, o>> \notin removed
EgressTrue(t) ==
    ten[t].row =>
        /\ ten[t].allow # {} => "egress" \in ten[t].mark
        /\ \A o \in MOrigins : <<"egress", t, o>> \in removed => "egress" \in ten[t].mark /\ o \notin ten[t].allow
        /\ tdb[t].file /\ "egress" \in ten[t].mark =>
              \A o \in tdb[t].hooks : o \in ten[t].allow \/ <<"egress", t, o>> \in removed
RuleTrue(t) ==
    ten[t].row =>
        /\ tdb[t].root # "none" => "policy" \in ten[t].mark \/ On(t, "stamp") \/ <<"policy", t>> \in cut
        /\ On(t, "stamp") => tdb[t].root # "none"
        /\ "policy" \in ten[t].mark => tdb[t].root # "none" \/ <<"policy", t>> \in removed \cup cut
        /\ Taken("policy", t) => \/ tdb[t].root = "none" /\ "policy" \in ten[t].mark
                                 \/ <<"policy", t>> \in cut
GrantTrue(t) ==
    ten[t].row =>
        /\ tdb[t].root = "both" => "publish" \in ten[t].mark
        /\ On(t, "grant") => tdb[t].root # "both" /\ "publish" \in ten[t].mark
        /\ Taken("publish", t) => \/ tdb[t].root # "both" /\ "publish" \in ten[t].mark /\ ~On(t, "grant")
                                  \/ tdb[t].root = "none" /\ "policy" \in ten[t].mark
                                  \/ <<"policy", t>> \in cut \cap removed
OwnerTrue(t) ==
    ten[t].row =>
        /\ Taken("owner", t) => ten[t].owner = NoAdmin /\ "owner" \in cols /\ at.pc # "assign"
        /\ "owner" \in cols /\ tdb[t].file =>
              \/ at.pc = "assign" \/ <<"owner">> \in cut \/ <<"role">> \in cut
              \/ ten[t].owner # NoAdmin \/ Taken("owner", t)
RpcClosed(t) == tdb[t].new => tdb[t].rpc # "unsafe"
TenantTrue(t) == Absent(t) /\ EgressTrue(t) /\ RuleTrue(t) /\ GrantTrue(t) /\ OwnerTrue(t) /\ RpcClosed(t)
MgInv == MgShape /\ MetaTrue /\ \A t \in MTenants : TenantTrue(t)

LEMMA LowestIn ==
    ASSUME NEW S \in SUBSET Nat, S # {}
    PROVE  Lowest(S) \in S
  <1>1. IsWellFoundedOn(OpToRel(<, Nat), Nat)
    BY NatLessThanWellFounded
  <1>2. PICK x \in S : \A y \in S : ~(<<y, x>> \in OpToRel(<, Nat))
    BY <1>1, WFMin
  <1>3. OpToRel(<, Nat) = {ss \in Nat \X Nat : ss[1] < ss[2]}
    BY DEF OpToRel
  <1>4. ASSUME NEW y \in S PROVE x <= y
    <2>1. x \in Nat /\ y \in Nat /\ ~(<<y, x>> \in {ss \in Nat \X Nat : ss[1] < ss[2]})
      BY <1>2, <1>3
    <2> QED BY <2>1
  <1> QED BY <1>4 DEF Lowest

(* What a step leaves true of a tenant whose rows it does not touch. *)
LEMMA TenantFrame ==
    ASSUME NEW t \in MTenants, TenantTrue(t), ten'[t] = ten[t], tdb'[t] = tdb[t],
           \A o : <<"egress", t, o>> \in removed' <=> <<"egress", t, o>> \in removed,
           \A x \in {"policy", "publish", "owner"} : <<x, t>> \in removed' <=> <<x, t>> \in removed,
           <<"policy", t>> \in cut => <<"policy", t>> \in cut',
           <<"owner">> \in cut => <<"owner">> \in cut', <<"role">> \in cut => <<"role">> \in cut',
           On(t, "stamp") => On(t, "stamp")' \/ <<"policy", t>> \in cut',
           On(t, "stamp")' => On(t, "stamp"), On(t, "grant")' => On(t, "grant"),
           "owner" \in cols => "owner" \in cols',
           "owner" \in cols' => "owner" \in cols \/ at'.pc = "assign",
           at'.pc = "assign" => "owner" \notin cols \/ at.pc = "assign",
           at.pc = "assign" => at'.pc = "assign" \/ <<"owner">> \in cut'
    PROVE  TenantTrue(t)'
  <1>1. Absent(t)'
    BY DEF TenantTrue, Absent, Taken
  <1>2. EgressTrue(t)'
    BY DEF TenantTrue, EgressTrue
  <1>3. RuleTrue(t)'
    <2> USE DEF TenantTrue, RuleTrue, Taken
    <2> QED OBVIOUS
  <1>4. GrantTrue(t)'
    BY DEF TenantTrue, GrantTrue, Taken
  <1>5. OwnerTrue(t)'
    BY DEF TenantTrue, OwnerTrue, Taken
  <1>6. RpcClosed(t)'
    BY DEF TenantTrue, RpcClosed
  <1> QED BY <1>1, <1>2, <1>3, <1>4, <1>5, <1>6 DEF TenantTrue

(* A step of the meta level leaves the tenants alone. *)
LEMMA MetaFrame ==
    ASSUME MgInv, UNCHANGED <<ten, tdb, removed, cut>>, at.pc \notin {"stamp", "grant", "assign"},
           at'.pc \notin {"stamp", "grant"}, cols \subseteq cols',
           "owner" \in cols' => "owner" \in cols \/ at'.pc = "assign",
           at'.pc = "assign" => "owner" \notin cols
    PROVE  \A t \in MTenants : TenantTrue(t)'
  <1> SUFFICES ASSUME NEW t \in MTenants PROVE TenantTrue(t)'
    OBVIOUS
  <1>1. TenantTrue(t)
    BY DEF MgInv
  <1>2. ~On(t, "stamp") /\ ~On(t, "stamp")' /\ ~On(t, "grant")'
    BY DEF On
  <1> QED BY <1>1, <1>2, TenantFrame

LEMMA AdminCases ==
    ASSUME MgShape, NEW a \in MAdmins
    PROVE  /\ adm[a].row \in BOOLEAN
           /\ adm[a].row => /\ adm[a] \in AdminRows /\ adm[a].minted \in Nat
                            /\ adm[a].tok \in {"none", "legacy", "plain"}
  <1>1. adm[a] = NoRow \/ adm[a] \in AdminRows
    BY DEF MgShape
  <1>2. CASE adm[a] = NoRow
    <2>1. adm[a].row = FALSE
      BY <1>2 DEF NoRow
    <2> QED BY <2>1
  <1>3. CASE adm[a] \in AdminRows
    <2>1. adm[a].row = TRUE
      BY <1>3 DEF AdminRows
    <2>2. adm[a].minted \in Nat /\ adm[a].tok \in {"none", "legacy", "plain"}
      BY <1>3 DEF AdminRows
    <2> QED BY <1>3, <2>1, <2>2
  <1> QED BY <1>1, <1>2, <1>3
LEMMA TenantCases ==
    ASSUME MgShape, NEW t \in MTenants
    PROVE  /\ ten[t].row \in BOOLEAN /\ tdb[t] \in DbRows
           /\ ten[t].row => /\ ten[t] \in TenantRows /\ ten[t].mark \in SUBSET Jobs
                            /\ ten[t].allow \in SUBSET MOrigins /\ ten[t].owner \in MAdmins \cup {NoAdmin}
  <1>1. (ten[t] = NoRow \/ ten[t] \in TenantRows) /\ tdb[t] \in DbRows
    BY DEF MgShape
  <1>2. CASE ten[t] = NoRow
    <2>1. ten[t].row = FALSE
      BY <1>2 DEF NoRow
    <2> QED BY <1>1, <2>1
  <1>3. CASE ten[t] \in TenantRows
    <2>1. ten[t].row = TRUE
      BY <1>3 DEF TenantRows
    <2>2. /\ ten[t].mark \in SUBSET Jobs /\ ten[t].allow \in SUBSET MOrigins
          /\ ten[t].owner \in MAdmins \cup {NoAdmin}
      BY <1>3 DEF TenantRows
    <2> QED BY <1>1, <1>3, <2>1, <2>2
  <1> QED BY <1>1, <1>2, <1>3
LEMMA AdminSet == ASSUME MgShape PROVE Rows(adm) = {a \in MAdmins : adm[a].row}
  BY DEF MgShape, Rows
LEMMA TenantSet == ASSUME MgShape PROVE Rows(ten) = {t \in MTenants : ten[t].row}
  BY DEF MgShape, Rows

LEMMA MetaOnlySteps ==
    ASSUME MgInv,
           \/ OpenMeta \/ AddMetaColumns \/ RoleColumn \/ RebuildTokens \/ OwnerColumn \/ StartTenants \/ Serve
           \/ \E t \in MTenants : NextTenant(t)
    PROVE  MgInv'
  <1> USE DEF MAt, MGo
  <1>1. UNCHANGED <<adm, ten, tdb, removed, cut>>
    BY DEF OpenMeta, AddMetaColumns, RoleColumn, RebuildTokens, OwnerColumn, StartTenants, Serve, NextTenant
  <1>2. cols \subseteq cols' /\ at.pc \notin {"stamp", "grant", "assign"} /\ at'.pc \notin {"stamp", "grant"}
    BY DEF OpenMeta, AddMetaColumns, RoleColumn, RebuildTokens, OwnerColumn, StartTenants, Serve, NextTenant
  <1>3. /\ "owner" \in cols' => "owner" \in cols \/ at'.pc = "assign"
        /\ at'.pc = "assign" => "owner" \notin cols
    BY DEF OpenMeta, AddMetaColumns, RoleColumn, RebuildTokens, OwnerColumn, StartTenants, Serve, NextTenant
  <1>4. \A t \in MTenants : TenantTrue(t)'
    BY <1>1, <1>2, <1>3, MetaFrame
  <1>5. MgShape'
    <2>1. UNCHANGED Rows(ten)
      BY <1>1 DEF Rows
    <2>2. /\ at'.pc \in {"down", "bootstrap", "columns", "role"} \cup PastRole
          /\ at'.pc \in TenantPcs => at'.t \in Rows(ten)
          /\ at'.pc \in TenantPcs \cup {"pick"} => at'.left \subseteq Rows(ten)
      BY DEF MgInv, MgShape, OpenMeta, AddMetaColumns, RoleColumn, RebuildTokens, OwnerColumn, StartTenants,
             Serve, NextTenant, PastRole, PastMint, PastOwner, TenantPcs
    <2>3. Rows(ten) = {t \in MTenants : ten[t].row}
      BY TenantSet DEF MgInv
    <2> QED BY <1>1, <2>1, <2>2, <2>3 DEF MgInv, MgShape
  <1>6. MetaTrue'
    <2>1. MintsOnce'
      BY <1>1 DEF MgInv, MetaTrue, MintsOnce
    <2>2. at'.pc \in PastMint => at.pc \in PastMint
      BY DEF OpenMeta, AddMetaColumns, RoleColumn, RebuildTokens, OwnerColumn, StartTenants,
             Serve, NextTenant, PastMint, PastOwner, TenantPcs
    <2>3. at'.pc \notin {"down", "bootstrap"} => at.pc \notin {"down", "bootstrap"}
      BY DEF OpenMeta, AddMetaColumns, RoleColumn, RebuildTokens, OwnerColumn, StartTenants, Serve, NextTenant
    <2>4. Tokened' /\ Peopled'
      BY <1>1, <2>2, <2>3 DEF MgInv, MetaTrue, Tokened, Peopled
    <2>5. at.pc # "lift" /\ ("role" \in cols' => "role" \in cols \/ at'.pc = "lift")
      BY DEF OpenMeta, AddMetaColumns, RoleColumn, RebuildTokens, OwnerColumn, StartTenants, Serve, NextTenant
    <2>6. RoleGiven'
      BY <1>1, <2>5 DEF MgInv, MetaTrue, RoleGiven, HasOwner
    <2>7. Passed'
      BY <1>2 DEF MgInv, MetaTrue, Passed, OpenMeta, AddMetaColumns, RoleColumn, RebuildTokens, OwnerColumn,
             StartTenants, Serve, NextTenant, PastRole, PastMint, PastOwner, TenantPcs
    <2> QED BY <2>1, <2>4, <2>6, <2>7 DEF MetaTrue
  <1> QED BY <1>4, <1>5, <1>6 DEF MgInv

(* The steps that write the administrators' table. *)
LEMMA AdminSteps ==
    ASSUME MgInv, BootstrapAdmin \/ RoleBackfill \/ RevokeLegacyTokens \/ MintToken
    PROVE  MgInv'
  <1> USE DEF MAt, MGo
  <1>t. MgShape /\ MetaTrue /\ MAdmins # {} /\ MAdmins \in SUBSET Nat
    BY MigrationAssumption DEF MgInv
  <1>1. UNCHANGED <<cols, ten, tdb, removed, cut>>
    BY DEF BootstrapAdmin, RoleBackfill, RevokeLegacyTokens, MintToken
  <1>2. at.pc \notin {"stamp", "grant", "assign"} /\ at'.pc \notin {"stamp", "grant", "assign"}
    BY DEF BootstrapAdmin, RoleBackfill, RevokeLegacyTokens, MintToken
  <1>3. \A t \in MTenants : TenantTrue(t)'
    BY <1>1, <1>2, MetaFrame
  <1>4. ASSUME adm' \in [MAdmins -> {NoRow} \cup AdminRows] PROVE MgShape'
    <2>1. at'.pc \in {"columns", "revoke", "rebuild", "owner", "mint"}
      BY DEF BootstrapAdmin, RoleBackfill, RevokeLegacyTokens, MintToken
    <2>2. /\ at'.pc \notin TenantPcs \cup {"pick"}
          /\ at'.pc \in {"down", "bootstrap", "columns", "role"} \cup PastRole
      BY <2>1 DEF TenantPcs, PastRole, PastMint
    <2> QED BY <1>1, <1>4, <1>t, <2>2 DEF MgShape
  <1>5. CASE BootstrapAdmin
    <2>1. at.pc = "bootstrap" /\ at'.pc = "columns"
      BY <1>5 DEF BootstrapAdmin
    <2>2. CASE Rows(adm) = {}
      <3>1. PICK a \in MAdmins : a = Lowest(MAdmins)
        BY <1>t, LowestIn
      <3>2. adm' = [adm EXCEPT ![a] = OldAdmin("none")]
        BY <1>5, <2>2, <3>1 DEF BootstrapAdmin
      <3>3. /\ OldAdmin("none") \in AdminRows /\ OldAdmin("none").row /\ OldAdmin("none").minted = 0
        BY DEF OldAdmin, AdminRows
      <3>4. adm' \in [MAdmins -> {NoRow} \cup AdminRows] /\ adm'[a] = OldAdmin("none")
            /\ \A b \in MAdmins : b # a => adm'[b] = adm[b]
        BY <1>t, <3>2, <3>3 DEF MgShape
      <3>5. \A b \in MAdmins : ~adm[b].row
        BY <1>t, <2>2, AdminSet
      <3>6. MintsOnce' /\ Peopled'
        BY <1>t, <3>3, <3>4, <3>5 DEF MetaTrue, MintsOnce, Peopled
      <3>7. Tokened' /\ Passed'
        BY <1>1, <2>1 DEF Tokened, Passed, PastRole, PastMint, PastOwner, TenantPcs
      <3>8. RoleGiven'
        BY <1>t, <1>1, <2>1, <3>5 DEF MetaTrue, RoleGiven, HasOwner
      <3> QED BY <1>3, <1>4, <3>4, <3>6, <3>7, <3>8 DEF MgInv, MetaTrue
    <2>3. CASE Rows(adm) # {}
      <3>1. adm' = adm
        BY <1>5, <2>3 DEF BootstrapAdmin
      <3>2. \E b \in MAdmins : adm[b].row
        BY <1>t, <2>3, AdminSet
      <3>3. MintsOnce' /\ Peopled' /\ RoleGiven'
        BY <1>t, <1>1, <2>1, <3>1, <3>2 DEF MetaTrue, MintsOnce, Peopled, RoleGiven, HasOwner
      <3>4. Tokened' /\ Passed'
        BY <1>1, <2>1 DEF Tokened, Passed, PastRole, PastMint, PastOwner, TenantPcs
      <3> QED BY <1>3, <1>4, <1>t, <3>1, <3>3, <3>4 DEF MgInv, MetaTrue, MgShape
    <2> QED BY <2>2, <2>3
  <1>6. CASE RoleBackfill
    <2>1. at.pc = "lift" /\ at'.pc = "revoke"
      BY <1>6 DEF RoleBackfill
    <2>2. \A a \in MAdmins : adm'[a] = IF adm[a].row THEN [adm[a] EXCEPT !.role = "owner"] ELSE adm[a]
      BY <1>6 DEF RoleBackfill
    <2>3. ASSUME NEW a \in MAdmins, adm[a].row
          PROVE  /\ adm'[a] \in AdminRows /\ adm'[a].row /\ adm'[a].role = "owner"
                 /\ adm'[a].tok = adm[a].tok /\ adm'[a].minted = adm[a].minted
      BY <1>t, <2>2, <2>3, AdminCases DEF AdminRows
    <2>4. \A a \in MAdmins : ~adm[a].row => adm'[a] = adm[a]
      BY <2>2
    <2>5. adm' \in [MAdmins -> {NoRow} \cup AdminRows]
      <3>1. DOMAIN adm' = MAdmins /\ adm' = [a \in MAdmins |-> adm'[a]]
        BY <1>6 DEF RoleBackfill
      <3> QED BY <1>t, <2>3, <2>4, <3>1 DEF MgShape
    <2>6. \A a \in MAdmins : adm'[a].row <=> adm[a].row
      BY <1>t, <2>3, <2>4, AdminCases
    <2>7. MintsOnce'
      BY <1>t, <2>3, <2>6 DEF MetaTrue, MintsOnce
    <2>8. Peopled' /\ RoleGiven'
      BY <1>t, <2>1, <2>3, <2>6 DEF MetaTrue, Peopled, RoleGiven, HasOwner
    <2>9. Tokened' /\ Passed'
      BY <1>t, <1>1, <2>1 DEF MetaTrue, Tokened, Passed, PastRole, PastMint, PastOwner, TenantPcs
    <2> QED BY <1>3, <1>4, <2>5, <2>7, <2>8, <2>9 DEF MgInv, MetaTrue
  <1>7. CASE RevokeLegacyTokens
    <2>1. at.pc = "revoke" /\ at'.pc = "rebuild"
      BY <1>7 DEF RevokeLegacyTokens
    <2>2. \A a \in MAdmins : adm'[a] = IF adm[a].row /\ adm[a].tok = "legacy"
                                       THEN [adm[a] EXCEPT !.tok = "none"] ELSE adm[a]
      BY <1>7 DEF RevokeLegacyTokens
    <2>3. ASSUME NEW a \in MAdmins, adm[a].row
          PROVE  /\ adm'[a] \in AdminRows /\ adm'[a].row /\ adm'[a].role = adm[a].role
                 /\ adm'[a].minted = adm[a].minted /\ (adm[a].tok = "plain" => adm'[a].tok = "plain")
      BY <1>t, <2>2, <2>3, AdminCases DEF AdminRows
    <2>4. \A a \in MAdmins : ~adm[a].row => adm'[a] = adm[a]
      BY <2>2
    <2>5. adm' \in [MAdmins -> {NoRow} \cup AdminRows]
      <3>1. DOMAIN adm' = MAdmins /\ adm' = [a \in MAdmins |-> adm'[a]]
        BY <1>7 DEF RevokeLegacyTokens
      <3> QED BY <1>t, <2>3, <2>4, <3>1 DEF MgShape
    <2>6. \A a \in MAdmins : adm'[a].row <=> adm[a].row
      BY <1>t, <2>3, <2>4, AdminCases
    <2>7. MintsOnce'
      BY <1>t, <2>3, <2>6 DEF MetaTrue, MintsOnce
    <2>8. Peopled' /\ RoleGiven'
      BY <1>t, <1>1, <2>1, <2>3, <2>6 DEF MetaTrue, Peopled, RoleGiven, HasOwner
    <2>9. Tokened' /\ Passed'
      BY <1>t, <1>1, <2>1 DEF MetaTrue, Tokened, Passed, PastRole, PastMint, PastOwner, TenantPcs
    <2> QED BY <1>3, <1>4, <2>5, <2>7, <2>8, <2>9 DEF MgInv, MetaTrue
  <1>8. CASE MintToken
    <2>1. CASE Tokenless = {}
      <3>1. adm' = adm /\ at.pc = "mint" /\ at'.pc = "owner"
        BY <1>8, <2>1 DEF MintToken
      <3>2. \A a \in MAdmins : adm[a].row => adm[a].tok # "none"
        BY <1>t, <2>1, AdminSet DEF Tokenless
      <3>3. MintsOnce' /\ Tokened'
        BY <1>t, <3>1, <3>2 DEF MetaTrue, MintsOnce, Tokened
      <3>4. Peopled' /\ RoleGiven'
        BY <1>t, <1>1, <3>1 DEF MetaTrue, Peopled, RoleGiven, HasOwner
      <3>5. Passed'
        BY <1>t, <1>1, <3>1 DEF MetaTrue, Passed, PastRole, PastMint, PastOwner, TenantPcs
      <3> QED BY <1>3, <1>4, <1>t, <3>1, <3>3, <3>4, <3>5 DEF MgInv, MetaTrue, MgShape
    <2>2. CASE Tokenless # {}
      <3>1. Tokenless = {a \in MAdmins : adm[a].row /\ adm[a].tok = "none"}
        BY <1>t, AdminSet DEF Tokenless
      <3>2. PICK a \in MAdmins : a = Lowest(Tokenless) /\ adm[a].row /\ adm[a].tok = "none"
        <4>1. Tokenless \in SUBSET Nat
          BY <1>t, <3>1
        <4> QED BY <2>2, <3>1, <4>1, LowestIn
      <3>3. at' = at /\ at.pc = "mint" /\ adm' = [adm EXCEPT ![a].tok = "plain", ![a].minted = @ + 1]
        BY <1>8, <2>2, <3>2 DEF MintToken
      <3>4. adm[a] \in AdminRows /\ adm[a].minted = 0
        BY <1>t, <3>2, AdminCases DEF MetaTrue, MintsOnce
      <3>5. /\ adm'[a] \in AdminRows /\ adm'[a].row /\ adm'[a].tok = "plain" /\ adm'[a].minted = 1
            /\ adm'[a].role = adm[a].role
            /\ \A b \in MAdmins : b # a => adm'[b] = adm[b]
        BY <1>t, <3>3, <3>4 DEF MgShape, AdminRows
      <3>6. adm' \in [MAdmins -> {NoRow} \cup AdminRows]
        <4>1. DOMAIN adm' = MAdmins /\ adm' = [b \in MAdmins |-> adm'[b]]
          BY <1>t, <3>3 DEF MgShape
        <4> QED BY <1>t, <3>5, <4>1 DEF MgShape
      <3>7. MintsOnce'
        BY <1>t, <3>5 DEF MetaTrue, MintsOnce
      <3>8. Peopled' /\ RoleGiven'
        BY <1>t, <1>1, <3>3, <3>5, <3>2 DEF MetaTrue, Peopled, RoleGiven, HasOwner
      <3>9. Tokened' /\ Passed'
        BY <1>t, <1>1, <3>3 DEF MetaTrue, Tokened, Passed, PastRole, PastMint, PastOwner, TenantPcs
      <3> QED BY <1>3, <1>4, <3>6, <3>7, <3>8, <3>9 DEF MgInv, MetaTrue
    <2> QED BY <2>1, <2>2
  <1> QED BY <1>5, <1>6, <1>7, <1>8

(* A job of tenant u: what it leaves true of the rest. *)
Working(u) ==
    /\ at.pc \in TenantPcs /\ at.t = u
    /\ \/ \E q \in TenantPcs : Then(u, q)
       \/ at' = [pc |-> "pick", left |-> at.left]
LEMMA JobMoves ==
    ASSUME MgInv, NEW u \in MTenants, Working(u), UNCHANGED <<adm, cols>>,
           ten' \in [MTenants -> {NoRow} \cup TenantRows], tdb' \in [MTenants -> DbRows],
           \A t \in MTenants : ten'[t].row <=> ten[t].row,
           <<"role">> \in cut => <<"role">> \in cut'
    PROVE  MgShape' /\ MetaTrue'
  <1>1. /\ at'.pc \in TenantPcs \cup {"pick"} /\ at'.left = at.left
        /\ at'.pc \in TenantPcs => at'.t = u
    BY DEF Working, Then, TenantPcs
  <1>2. at'.pc \in PastOwner /\ at.pc \in PastOwner /\ at'.pc \in PastRole /\ at'.pc \in PastMint
        /\ at.pc \in PastMint /\ at.pc \in PastRole
    BY <1>1 DEF Working, PastOwner, PastRole, PastMint
  <1>3. at.pc \notin {"lift", "down", "bootstrap"} /\ at'.pc \notin {"lift", "down", "bootstrap"}
    BY <1>1 DEF Working, TenantPcs
  <1>4. MgShape'
    <2>1. Rows(ten) = {t \in MTenants : ten[t].row} /\ ten[u].row /\ at.left \subseteq Rows(ten)
      BY TenantSet DEF MgInv, MgShape, Working
    <2>2. Rows(ten)' = {t \in MTenants : ten'[t].row}
      BY DEF Rows
    <2> QED BY <1>1, <1>2, <2>1, <2>2 DEF MgInv, MgShape
  <1>5. MintsOnce' /\ Tokened' /\ Peopled'
    BY <1>2, <1>3 DEF MgInv, MetaTrue, MintsOnce, Tokened, Peopled
  <1>6. RoleGiven' /\ Passed'
    BY <1>2, <1>3 DEF MgInv, MetaTrue, RoleGiven, HasOwner, Passed
  <1> QED BY <1>4, <1>5, <1>6 DEF MetaTrue
LEMMA JobElsewhere ==
    ASSUME MgInv, NEW u \in MTenants, Working(u), UNCHANGED <<cols, removed>>,
           NEW t \in MTenants, t # u, ten'[t] = ten[t], tdb'[t] = tdb[t],
           <<"policy", t>> \in cut => <<"policy", t>> \in cut',
           <<"owner">> \in cut => <<"owner">> \in cut', <<"role">> \in cut => <<"role">> \in cut'
    PROVE  TenantTrue(t)'
  <1>1. TenantTrue(t)
    BY DEF MgInv
  <1>2. \A pc : ~On(t, pc)
    BY DEF Working, On
  <1>3. ~On(t, "stamp")' /\ ~On(t, "grant")'
    BY DEF Working, On, Then
  <1>4. at.pc # "assign" /\ at'.pc # "assign"
    BY DEF Working, Then, TenantPcs
  <1> QED BY <1>1, <1>2, <1>3, <1>4, TenantFrame

LEMMA StampApart ==
    ASSUME NEW u, NEW t, t # u
    PROVE  /\ <<"policy", t>> \notin {<<"policy", u>>} \ removed
           /\ <<"owner">> \notin {<<"policy", u>>} \ removed /\ <<"role">> \notin {<<"policy", u>>} \ removed
  OBVIOUS

LEMMA DbJobs ==
    ASSUME MgInv, NEW u \in MTenants, MigrateTenantDb(u) \/ StrictRebuildTenant(u) \/ JobFails(u)
    PROVE  MgInv'
  <1>t. /\ tdb \in [MTenants -> DbRows] /\ tdb[u] \in DbRows /\ TenantTrue(u)
        /\ ten \in [MTenants -> {NoRow} \cup TenantRows]
    BY DEF MgInv, MgShape
  <1>1. UNCHANGED <<adm, cols, ten, removed>> /\ cut \subseteq cut'
    BY DEF MigrateTenantDb, StrictRebuildTenant, JobFails
  <1>2. Working(u)
    BY DEF MigrateTenantDb, StrictRebuildTenant, JobFails, Working, On, TenantPcs
  <1>3. /\ at.pc = "stamp" => <<"policy", u>> \in cut'
        /\ \A q \in {"stamp", "grant"} : ~Then(u, q)
    BY DEF MigrateTenantDb, StrictRebuildTenant, JobFails, On, Then
  <1>4. PICK d \in DbRows :
           /\ tdb' = [tdb EXCEPT ![u] = d]
           /\ d.file = tdb[u].file /\ d.hooks = tdb[u].hooks /\ d.root = tdb[u].root
           /\ RpcClosed(u) => (d.new => d.rpc # "unsafe")
    <2>1. CASE tdb' = tdb
      <3>1. tdb' = [tdb EXCEPT ![u] = tdb[u]]
        BY <1>t, <2>1
      <3> QED BY <1>t, <3>1 DEF RpcClosed
    <2>2. CASE MigrateTenantDb(u) /\ tdb' # tdb
      <3>1. tdb' = [tdb EXCEPT ![u] = [NeutralizeRpcs(tdb[u]) EXCEPT !.new = TRUE]]
        BY <1>t, <2>2 DEF MigrateTenantDb
      <3>2. PICK d : d = [NeutralizeRpcs(tdb[u]) EXCEPT !.new = TRUE]
        OBVIOUS
      <3>3. PICK e : e = NeutralizeRpcs(tdb[u])
        OBVIOUS
      <3>4. e \in DbRows /\ e.file = tdb[u].file /\ e.hooks = tdb[u].hooks /\ e.root = tdb[u].root /\ e.rpc # "unsafe"
        BY <1>t, <3>3 DEF NeutralizeRpcs, DbRows
      <3>5. d \in DbRows /\ d.file = e.file /\ d.hooks = e.hooks /\ d.root = e.root /\ d.rpc = e.rpc
        BY <3>2, <3>3, <3>4 DEF DbRows
      <3> QED BY <3>1, <3>2, <3>4, <3>5
    <2>3. CASE StrictRebuildTenant(u) /\ tdb' # tdb
      <3>1. tdb' = [tdb EXCEPT ![u] = [tdb[u] EXCEPT !.strict = TRUE]]
        BY <1>t, <2>3 DEF StrictRebuildTenant, RebuildOneTableStrict
      <3>2. PICK d : d = [tdb[u] EXCEPT !.strict = TRUE]
        OBVIOUS
      <3>3. /\ d \in DbRows /\ d.file = tdb[u].file /\ d.hooks = tdb[u].hooks /\ d.root = tdb[u].root
            /\ d.rpc = tdb[u].rpc /\ d.new = tdb[u].new
        BY <1>t, <3>2 DEF DbRows
      <3> QED BY <3>1, <3>2, <3>3 DEF RpcClosed
    <2>4. JobFails(u) => tdb' = tdb
      BY DEF JobFails
    <2> QED BY <2>1, <2>2, <2>3, <2>4
  <1>5. tdb' \in [MTenants -> DbRows] /\ tdb'[u] = d /\ \A t \in MTenants : t # u => tdb'[t] = tdb[t]
    BY <1>t, <1>4
  <1>6. MgShape' /\ MetaTrue'
    BY <1>1, <1>2, <1>5, <1>t, JobMoves
  <1>7. ASSUME NEW t \in MTenants, t # u PROVE TenantTrue(t)'
    BY <1>1, <1>2, <1>5, <1>7, JobElsewhere
  <1>8. TenantTrue(u)'
    <2>1. On(u, "stamp") => <<"policy", u>> \in cut'
      BY <1>3 DEF On
    <2>2. ~On(u, "stamp")' /\ ~On(u, "grant")'
      BY <1>2, <1>3 DEF Working, On, Then
    <2>3. at.pc # "assign" /\ at'.pc # "assign"
      BY <1>2 DEF Working, Then, TenantPcs
    <2>4. /\ tdb'[u].file = tdb[u].file /\ tdb'[u].hooks = tdb[u].hooks /\ tdb'[u].root = tdb[u].root
          /\ RpcClosed(u)'
      BY <1>4, <1>5, <1>t DEF TenantTrue, RpcClosed
    <2>5. Absent(u)' /\ EgressTrue(u)'
      BY <1>1, <1>t, <2>4 DEF TenantTrue, Absent, EgressTrue, Taken
    <2>6. RuleTrue(u)'
      BY <1>1, <1>t, <2>1, <2>2, <2>4 DEF TenantTrue, RuleTrue, Taken
    <2>7. GrantTrue(u)'
      BY <1>1, <1>t, <2>1, <2>2, <2>4 DEF TenantTrue, GrantTrue, Taken
    <2>8. OwnerTrue(u)'
      BY <1>1, <1>t, <2>3, <2>4 DEF TenantTrue, OwnerTrue, Taken
    <2> QED BY <2>4, <2>5, <2>6, <2>7, <2>8 DEF TenantTrue
  <1> QED BY <1>6, <1>7, <1>8 DEF MgInv

LEMMA EgressJob ==
    ASSUME MgInv, NEW u \in MTenants, BackfillEgress(u)
    PROVE  MgInv'
  <1>1. UNCHANGED <<adm, cols, tdb, removed, cut>> /\ Working(u) /\ Then(u, "policy") /\ at.pc = "egress"
    BY DEF BackfillEgress, Working, On, TenantPcs
  <1>t. /\ tdb \in [MTenants -> DbRows] /\ tdb[u] \in DbRows /\ TenantTrue(u)
        /\ ten \in [MTenants -> {NoRow} \cup TenantRows] /\ ten[u].row
    BY <1>1 DEF MgInv, MgShape, Working
  <1>f. ten[u] \in TenantRows /\ ten[u].mark \in SUBSET Jobs /\ ten[u].allow \in SUBSET MOrigins
        /\ tdb[u].hooks \in SUBSET MOrigins
    BY <1>t, TenantCases DEF MgInv, DbRows
  <1>2. PICK r \in TenantRows :
           /\ ten' = [ten EXCEPT ![u] = r] /\ r.owner = ten[u].owner
           /\ \/ r = ten[u] /\ "egress" \in ten[u].mark
              \/ /\ "egress" \notin ten[u].mark /\ r.mark = ten[u].mark \cup {"egress"}
                 /\ r.allow = ten[u].allow \cup (IF tdb[u].file THEN tdb[u].hooks ELSE {})
    <2>1. CASE "egress" \in ten[u].mark
      <3>1. ten' = [ten EXCEPT ![u] = ten[u]]
        BY <1>t, <2>1 DEF BackfillEgress
      <3> QED BY <1>f, <2>1, <3>1
    <2>2. CASE "egress" \notin ten[u].mark
      <3>1. PICK r : r = [ten[u] EXCEPT !.mark = @ \cup {"egress"},
                                        !.allow = @ \cup (IF tdb[u].file THEN tdb[u].hooks ELSE {})]
        OBVIOUS
      <3>2. ten' = [ten EXCEPT ![u] = r]
        BY <1>t, <2>2, <3>1 DEF BackfillEgress
      <3>3. /\ r.mark = ten[u].mark \cup {"egress"} /\ r.owner = ten[u].owner
            /\ r.allow = ten[u].allow \cup (IF tdb[u].file THEN tdb[u].hooks ELSE {})
        BY <1>f, <3>1 DEF TenantRows
      <3>4. ten[u].mark \cup {"egress"} \in SUBSET Jobs
            /\ ten[u].allow \cup (IF tdb[u].file THEN tdb[u].hooks ELSE {}) \in SUBSET MOrigins
        BY <1>f DEF Jobs
      <3>5. r \in TenantRows
        BY <1>f, <3>1, <3>4 DEF TenantRows
      <3> QED BY <2>2, <3>2, <3>3, <3>5
    <2> QED BY <2>1, <2>2
  <1>3. /\ ten' \in [MTenants -> {NoRow} \cup TenantRows] /\ ten'[u] = r /\ r.row
        /\ \A t \in MTenants : t # u => ten'[t] = ten[t]
    BY <1>t, <1>2 DEF TenantRows
  <1>4. \A t \in MTenants : ten'[t].row <=> ten[t].row
    BY <1>3, <1>t
  <1>5. MgShape' /\ MetaTrue'
    BY <1>1, <1>3, <1>4, <1>t, JobMoves
  <1>6. ASSUME NEW t \in MTenants, t # u PROVE TenantTrue(t)'
    BY <1>1, <1>3, <1>6, JobElsewhere
  <1>7. TenantTrue(u)'
    <2>1. ~On(u, "stamp") /\ ~On(u, "stamp")' /\ ~On(u, "grant")' /\ at.pc # "assign" /\ at'.pc # "assign"
      BY <1>1 DEF On, Then
    <2>2. /\ "policy" \in r.mark <=> "policy" \in ten[u].mark
          /\ "publish" \in r.mark <=> "publish" \in ten[u].mark
          /\ "egress" \in r.mark
      BY <1>2
    <2>3. Absent(u)' /\ RpcClosed(u)'
      BY <1>1, <1>3, <1>t DEF TenantTrue, Absent, RpcClosed
    <2>4. RuleTrue(u)'
      BY <1>1, <1>3, <1>t, <2>1, <2>2 DEF TenantTrue, RuleTrue, Taken
    <2>5. GrantTrue(u)'
      BY <1>1, <1>3, <1>t, <2>1, <2>2 DEF TenantTrue, GrantTrue, Taken
    <2>6. OwnerTrue(u)'
      BY <1>1, <1>2, <1>3, <1>t, <2>1 DEF TenantTrue, OwnerTrue, Taken
    <2>7. EgressTrue(u)'
      <3>1. \A o \in MOrigins : <<"egress", u, o>> \in removed => r = ten[u] /\ o \notin r.allow
        BY <1>2, <1>t DEF TenantTrue, EgressTrue
      <3>2. tdb[u].file => \A o \in tdb[u].hooks : o \in r.allow \/ <<"egress", u, o>> \in removed
        BY <1>2, <1>t DEF TenantTrue, EgressTrue
      <3> QED BY <1>1, <1>3, <2>2, <3>1, <3>2 DEF EgressTrue
    <2> QED BY <2>3, <2>4, <2>5, <2>6, <2>7 DEF TenantTrue
  <1> QED BY <1>5, <1>6, <1>7 DEF MgInv

(* The jobs that write a marker or the root rule of tenant u: the rows they *)
(* leave, and what has to be shown of them.                                *)
LEMMA RuleJob ==
    ASSUME MgInv, NEW u \in MTenants, Working(u), UNCHANGED <<adm, cols, removed>>,
           NEW r \in TenantRows, NEW d \in DbRows,
           ten' = [ten EXCEPT ![u] = r], tdb' = [tdb EXCEPT ![u] = d],
           r.owner = ten[u].owner, r.allow = ten[u].allow, "egress" \in r.mark <=> "egress" \in ten[u].mark,
           d.file = tdb[u].file, d.hooks = tdb[u].hooks, d.new = tdb[u].new, d.rpc = tdb[u].rpc,
           \A t \in MTenants : t # u => (<<"policy", t>> \in cut => <<"policy", t>> \in cut'),
           <<"owner">> \in cut => <<"owner">> \in cut', <<"role">> \in cut => <<"role">> \in cut',
           RuleTrue(u)', GrantTrue(u)'
    PROVE  MgInv'
  <1>t. /\ tdb \in [MTenants -> DbRows] /\ TenantTrue(u)
        /\ ten \in [MTenants -> {NoRow} \cup TenantRows] /\ ten[u].row
    BY DEF MgInv, MgShape, Working
  <1>1. /\ ten' \in [MTenants -> {NoRow} \cup TenantRows] /\ ten'[u] = r /\ r.row
        /\ tdb' \in [MTenants -> DbRows] /\ tdb'[u] = d
        /\ \A t \in MTenants : t # u => ten'[t] = ten[t] /\ tdb'[t] = tdb[t]
    BY <1>t DEF TenantRows
  <1>2. \A t \in MTenants : ten'[t].row <=> ten[t].row
    BY <1>1, <1>t
  <1>3. MgShape' /\ MetaTrue'
    BY <1>1, <1>2, JobMoves
  <1>4. ASSUME NEW t \in MTenants, t # u PROVE TenantTrue(t)'
    BY <1>1, <1>4, JobElsewhere
  <1>5. at.pc # "assign" /\ at'.pc # "assign"
    BY DEF Working, Then, TenantPcs
  <1>6. Absent(u)' /\ RpcClosed(u)' /\ EgressTrue(u)'
    BY <1>1, <1>t DEF TenantTrue, Absent, RpcClosed, EgressTrue
  <1>7. OwnerTrue(u)'
    BY <1>1, <1>5, <1>t DEF TenantTrue, OwnerTrue, Taken
  <1> QED BY <1>3, <1>4, <1>6, <1>7 DEF MgInv, TenantTrue

LEMMA RuleSteps ==
    ASSUME MgInv, NEW u \in MTenants,
           SeedFilePolicyRoot(u) \/ StampPolicy(u) \/ SeedPublicUpload(u) \/ GrantRootPublicUpload(u)
    PROVE  MgInv'
  <1>1. UNCHANGED <<adm, cols, removed>> /\ Working(u) /\ On(u, at.pc) /\ at.pc \in TenantPcs
    BY DEF SeedFilePolicyRoot, StampPolicy, SeedPublicUpload, GrantRootPublicUpload, Working, On, TenantPcs
  <1>t. /\ tdb \in [MTenants -> DbRows] /\ tdb[u] \in DbRows /\ TenantTrue(u)
        /\ ten \in [MTenants -> {NoRow} \cup TenantRows] /\ ten[u].row
    BY <1>1 DEF MgInv, MgShape, Working
  <1>f. ten[u] \in TenantRows /\ ten[u].mark \in SUBSET Jobs
    BY <1>t, TenantCases DEF MgInv
  <1>s. ten = [ten EXCEPT ![u] = ten[u]] /\ tdb = [tdb EXCEPT ![u] = tdb[u]]
    BY <1>t
  <1>m. ASSUME NEW m \in SUBSET Jobs
        PROVE  \E r \in TenantRows : /\ r = [ten[u] EXCEPT !.mark = m] /\ r.mark = m
                                     /\ r.owner = ten[u].owner /\ r.allow = ten[u].allow
    <2>1. PICK r : r = [ten[u] EXCEPT !.mark = m]
      OBVIOUS
    <2>2. r \in TenantRows /\ r.mark = m /\ r.owner = ten[u].owner /\ r.allow = ten[u].allow
      BY <1>f, <2>1 DEF TenantRows
    <2> QED BY <2>1, <2>2
  <1>r. ASSUME NEW x \in {"none", "read", "both"}
        PROVE  \E d \in DbRows : /\ d = [tdb[u] EXCEPT !.root = x] /\ d.root = x /\ d.file = tdb[u].file
                                 /\ d.hooks = tdb[u].hooks /\ d.new = tdb[u].new /\ d.rpc = tdb[u].rpc
    <2>1. PICK d : d = [tdb[u] EXCEPT !.root = x]
      OBVIOUS
    <2>2. /\ d \in DbRows /\ d.root = x /\ d.file = tdb[u].file
          /\ d.hooks = tdb[u].hooks /\ d.new = tdb[u].new /\ d.rpc = tdb[u].rpc
      BY <1>t, <2>1 DEF DbRows
    <2> QED BY <2>1, <2>2
  <1>i. /\ RuleTrue(u) /\ GrantTrue(u) /\ tdb[u].root \in {"none", "read", "both"}
    BY <1>t DEF TenantTrue, DbRows
  <1>2. CASE SeedFilePolicyRoot(u)
    <2>1. at.pc = "policy" /\ at.t = u /\ UNCHANGED <<ten, cut>>
      BY <1>2 DEF SeedFilePolicyRoot, On
    <2>2. CASE "policy" \in ten[u].mark \/ ~tdb[u].file
      <3>1. Then(u, "publish") /\ tdb' = tdb
        BY <1>2, <2>2 DEF SeedFilePolicyRoot
      <3>2. ~On(u, "stamp") /\ ~On(u, "stamp")' /\ ~On(u, "grant")'
        BY <2>1, <3>1 DEF On, Then
      <3>3. RuleTrue(u)'
        BY <1>1, <1>i, <2>1, <3>1, <3>2 DEF RuleTrue, Taken
      <3>4. GrantTrue(u)'
        BY <1>1, <1>i, <2>1, <3>1, <3>2 DEF GrantTrue, Taken
      <3> QED BY <1>1, <1>f, <1>s, <1>t, <2>1, <3>1, <3>3, <3>4, RuleJob
    <2>3. CASE "policy" \notin ten[u].mark /\ tdb[u].file
      <3>1. PICK x \in {"none", "read", "both"} : x = IF tdb[u].root = "none" THEN "read" ELSE tdb[u].root
        BY <1>i
      <3>2. PICK d \in DbRows : /\ d = [tdb[u] EXCEPT !.root = x] /\ d.root = x /\ d.file = tdb[u].file
                                /\ d.hooks = tdb[u].hooks /\ d.new = tdb[u].new /\ d.rpc = tdb[u].rpc
        BY <1>r
      <3>3. Then(u, "stamp") /\ tdb' = [tdb EXCEPT ![u] = d]
        BY <1>2, <1>t, <2>3, <3>1, <3>2 DEF SeedFilePolicyRoot
      <3>4. tdb'[u] = d /\ On(u, "stamp")' /\ ~On(u, "stamp") /\ ~On(u, "grant") /\ ~On(u, "grant")'
        BY <1>t, <2>1, <3>3 DEF On, Then
      <3>5. RuleTrue(u)'
        BY <1>1, <1>i, <2>1, <2>3, <3>1, <3>2, <3>4 DEF RuleTrue, Taken
      <3>6. GrantTrue(u)'
        BY <1>1, <1>i, <2>1, <2>3, <3>1, <3>2, <3>4 DEF GrantTrue, Taken
      <3> QED BY <1>1, <1>f, <1>s, <2>1, <3>2, <3>3, <3>5, <3>6, RuleJob
    <2> QED BY <2>2, <2>3
  <1>3. CASE StampPolicy(u)
    <2>1. /\ at.pc = "stamp" /\ at.t = u /\ UNCHANGED tdb /\ Then(u, "publish")
          /\ cut' = cut \ ({<<"policy", u>>} \ removed)
      BY <1>3 DEF StampPolicy, On
    <2>2. ten[u].mark \cup {"policy"} \in SUBSET Jobs
      BY <1>f DEF Jobs
    <2>3. PICK r \in TenantRows : /\ r = [ten[u] EXCEPT !.mark = ten[u].mark \cup {"policy"}]
                                  /\ r.mark = ten[u].mark \cup {"policy"}
                                  /\ r.owner = ten[u].owner /\ r.allow = ten[u].allow
      BY <1>m, <2>2
    <2>4. ten' = [ten EXCEPT ![u] = r] /\ ten'[u] = r
      BY <1>3, <1>t, <2>3 DEF StampPolicy
    <2>5. On(u, "stamp") /\ ~On(u, "stamp")' /\ ~On(u, "grant") /\ ~On(u, "grant")'
      BY <2>1 DEF On, Then
    <2>6. /\ \A t \in MTenants : t # u => (<<"policy", t>> \in cut => <<"policy", t>> \in cut')
          /\ <<"owner">> \in cut => <<"owner">> \in cut'
          /\ <<"role">> \in cut => <<"role">> \in cut'
          /\ <<"policy", u>> \in cut \cap removed => <<"policy", u>> \in cut'
      BY <2>1, StampApart
    <2>7. RuleTrue(u)'
      BY <1>1, <1>i, <1>t, <2>1, <2>3, <2>4, <2>5, <2>6 DEF RuleTrue, Taken
    <2>8. GrantTrue(u)'
      BY <1>1, <1>i, <1>t, <2>1, <2>3, <2>4, <2>5, <2>6 DEF GrantTrue, Taken
    <2>9. "egress" \in r.mark <=> "egress" \in ten[u].mark
      BY <2>3
    <2>10. tdb' = [tdb EXCEPT ![u] = tdb[u]]
      BY <1>s, <2>1
    <2>11. r.owner = ten[u].owner /\ r.allow = ten[u].allow /\ ten' = [ten EXCEPT ![u] = r] /\ tdb[u] \in DbRows
      BY <1>t, <2>3, <2>4
    <2> QED BY <1>1, <2>6, <2>7, <2>8, <2>9, <2>10, <2>11, RuleJob
  <1>4. CASE SeedPublicUpload(u)
    <2>1. at.pc = "publish" /\ at.t = u /\ UNCHANGED <<tdb, cut>>
      BY <1>4 DEF SeedPublicUpload, On
    <2>2. CASE "publish" \in ten[u].mark \/ ~tdb[u].file
      <3>1. Then(u, "strict") /\ ten' = ten
        BY <1>4, <2>2 DEF SeedPublicUpload
      <3>2. ~On(u, "stamp") /\ ~On(u, "stamp")' /\ ~On(u, "grant")'
        BY <2>1, <3>1 DEF On, Then
      <3>3. RuleTrue(u)'
        BY <1>1, <1>i, <2>1, <3>1, <3>2 DEF RuleTrue, Taken
      <3>4. GrantTrue(u)'
        BY <1>1, <1>i, <2>1, <3>1, <3>2 DEF GrantTrue, Taken
      <3> QED BY <1>1, <1>f, <1>s, <1>t, <2>1, <3>1, <3>3, <3>4, RuleJob
    <2>3. CASE "publish" \notin ten[u].mark /\ tdb[u].file
      <3>1. ten[u].mark \cup {"publish"} \in SUBSET Jobs
        BY <1>f DEF Jobs
      <3>2. PICK r \in TenantRows : /\ r = [ten[u] EXCEPT !.mark = ten[u].mark \cup {"publish"}]
                                    /\ r.mark = ten[u].mark \cup {"publish"}
                                    /\ r.owner = ten[u].owner /\ r.allow = ten[u].allow
        BY <1>m, <3>1
      <3>3. Then(u, "grant") /\ ten' = [ten EXCEPT ![u] = r] /\ ten'[u] = r
        BY <1>4, <1>t, <2>3, <3>2 DEF SeedPublicUpload
      <3>4. On(u, "grant")' /\ ~On(u, "stamp") /\ ~On(u, "grant") /\ ~On(u, "stamp")'
        BY <2>1, <3>3 DEF On, Then
      <3>5. RuleTrue(u)'
        BY <1>1, <1>i, <1>t, <2>1, <3>2, <3>3, <3>4 DEF RuleTrue, Taken
      <3>6. GrantTrue(u)'
        BY <1>1, <1>i, <1>t, <2>1, <2>3, <3>2, <3>3, <3>4 DEF GrantTrue, Taken
      <3>7. "egress" \in r.mark <=> "egress" \in ten[u].mark
        BY <3>2
      <3>8. tdb' = [tdb EXCEPT ![u] = tdb[u]]
        BY <1>s, <2>1
      <3>9. r.owner = ten[u].owner /\ r.allow = ten[u].allow /\ ten' = [ten EXCEPT ![u] = r] /\ tdb[u] \in DbRows
        BY <1>t, <3>2, <3>3
      <3>10. cut' = cut
        BY <2>1
      <3> QED BY <1>1, <3>5, <3>6, <3>7, <3>8, <3>9, <3>10, RuleJob
    <2> QED BY <2>2, <2>3
  <1>5. CASE GrantRootPublicUpload(u)
    <2>1. at.pc = "grant" /\ at.t = u /\ Then(u, "strict")
      BY <1>5 DEF GrantRootPublicUpload, On
    <2>2. On(u, "grant") /\ ~On(u, "stamp") /\ ~On(u, "grant")' /\ ~On(u, "stamp")'
      BY <2>1 DEF On, Then
    <2>3. CASE UNCHANGED <<ten, cut>> /\ tdb' = [tdb EXCEPT ![u].root = IF @ = "read" THEN "both" ELSE @]
      <3>1. PICK x \in {"none", "read", "both"} : x = IF tdb[u].root = "read" THEN "both" ELSE tdb[u].root
        BY <1>i
      <3>2. PICK d \in DbRows : /\ d = [tdb[u] EXCEPT !.root = x] /\ d.root = x /\ d.file = tdb[u].file
                                /\ d.hooks = tdb[u].hooks /\ d.new = tdb[u].new /\ d.rpc = tdb[u].rpc
        BY <1>r
      <3>3. tdb' = [tdb EXCEPT ![u] = d] /\ tdb'[u] = d
        BY <1>t, <2>3, <3>1, <3>2
      <3>4. RuleTrue(u)'
        BY <1>1, <1>i, <2>2, <2>3, <3>1, <3>2, <3>3 DEF RuleTrue, Taken
      <3>5. GrantTrue(u)'
        BY <1>1, <1>i, <1>t, <2>2, <2>3, <3>1, <3>2, <3>3 DEF GrantTrue, Taken
      <3> QED BY <1>1, <1>f, <1>s, <2>3, <3>2, <3>3, <3>4, <3>5, RuleJob
    <2>4. CASE tdb' = tdb /\ cut' = cut /\ ten' = [ten EXCEPT ![u].mark = @ \ {"publish"}]
      <3>1. PICK r \in TenantRows : /\ r = [ten[u] EXCEPT !.mark = ten[u].mark \ {"publish"}]
                                    /\ r.mark = ten[u].mark \ {"publish"}
                                    /\ r.owner = ten[u].owner /\ r.allow = ten[u].allow
        BY <1>m, <1>f
      <3>2. ten' = [ten EXCEPT ![u] = r] /\ ten'[u] = r
        BY <1>t, <2>4, <3>1
      <3>3. RuleTrue(u)'
        BY <1>1, <1>i, <1>t, <2>2, <2>4, <3>1, <3>2 DEF RuleTrue, Taken
      <3>4. GrantTrue(u)'
        BY <1>1, <1>i, <1>t, <2>2, <2>4, <3>1, <3>2 DEF GrantTrue, Taken
      <3>5. "egress" \in r.mark <=> "egress" \in ten[u].mark
        BY <3>1
      <3> QED BY <1>1, <1>s, <1>t, <2>4, <3>1, <3>2, <3>3, <3>4, <3>5, RuleJob
    <2>5. CASE tdb' = tdb /\ ten' = ten /\ cut' = cut \cup {<<"publish", u>>}
      <3>1. RuleTrue(u)'
        BY <1>1, <1>i, <2>2, <2>5 DEF RuleTrue, Taken
      <3>2. GrantTrue(u)'
        BY <1>1, <1>i, <2>2, <2>5 DEF GrantTrue, Taken
      <3> QED BY <1>1, <1>f, <1>s, <1>t, <2>5, <3>1, <3>2, RuleJob
    <2> QED BY <1>5, <2>3, <2>4, <2>5 DEF GrantRootPublicUpload
  <1> QED BY <1>2, <1>3, <1>4, <1>5

LEMMA OwnersAssigned ==
    ASSUME MgInv, OwnerBackfill
    PROVE  MgInv'
  <1> DEFINE owners == {a \in Rows(adm) : adm[a].role = "owner"}
             first == IF owners = {} THEN NoAdmin ELSE Lowest(owners)
  <1>1. /\ UNCHANGED <<cols, adm, tdb, cut, removed>> /\ at.pc = "assign" /\ at' = [pc |-> "tenants"]
        /\ ten' = [t \in MTenants |-> IF ten[t].row /\ tdb[t].file /\ ten[t].owner = NoAdmin
                                      THEN [ten[t] EXCEPT !.owner = first] ELSE ten[t]]
    BY DEF OwnerBackfill, MAt, MGo
  <1>t. MgShape /\ MetaTrue /\ MAdmins \in SUBSET Nat /\ NoAdmin \notin MAdmins
    BY MigrationAssumption DEF MgInv
  <1>2. owners = {a \in MAdmins : adm[a].row /\ adm[a].role = "owner"}
    BY <1>t, AdminSet
  <1>3. owners # {} => first \in MAdmins
    <2>1. owners \in SUBSET Nat
      BY <1>2, <1>t
    <2> QED BY <1>2, <2>1, LowestIn
  <1>4. owners = {} => first = NoAdmin
    OBVIOUS
  <1>5. owners = {} => <<"role">> \in cut
    BY <1>1, <1>2, <1>t DEF MetaTrue, RoleGiven, HasOwner, Passed, PastRole, PastMint, PastOwner
  <1>6. first \in MAdmins \cup {NoAdmin}
    BY <1>3, <1>4
  <1> HIDE DEF first, owners
  <1>7. ASSUME NEW t \in MTenants
        PROVE  /\ ten'[t] \in {NoRow} \cup TenantRows /\ (ten'[t].row <=> ten[t].row)
               /\ ten[t].row => /\ ten'[t].mark = ten[t].mark /\ ten'[t].allow = ten[t].allow
                                /\ tdb[t].file => ten'[t].owner # NoAdmin \/ <<"role">> \in cut
    <2>1. ten'[t] = IF ten[t].row /\ tdb[t].file /\ ten[t].owner = NoAdmin
                    THEN [ten[t] EXCEPT !.owner = first] ELSE ten[t]
      BY <1>1
    <2>2. CASE ten'[t] = ten[t]
      <3>1. ten[t].row /\ tdb[t].file /\ ten[t].owner = NoAdmin => first = NoAdmin
        BY <2>1, <2>2, <1>6, <1>t, TenantCases DEF TenantRows
      <3> QED BY <2>1, <2>2, <3>1, <1>3, <1>5, <1>t DEF MgShape
    <2>3. CASE ten[t].row /\ tdb[t].file /\ ten[t].owner = NoAdmin
      <3>1. ten[t] \in TenantRows
        BY <1>t, <2>3, TenantCases
      <3>2. /\ ten'[t] \in TenantRows /\ ten'[t].row /\ ten'[t].mark = ten[t].mark
            /\ ten'[t].allow = ten[t].allow /\ ten'[t].owner = first
        BY <1>6, <2>1, <2>3, <3>1 DEF TenantRows
      <3> QED BY <1>3, <1>5, <1>t, <2>3, <3>2
    <2> QED BY <2>1, <2>2, <2>3
  <1>8. MgShape'
    <2>1. DOMAIN ten' = MTenants /\ ten' = [t \in MTenants |-> ten'[t]]
      BY <1>1
    <2>2. ten' \in [MTenants -> {NoRow} \cup TenantRows]
      BY <1>7, <2>1
    <2> QED BY <1>1, <1>t, <2>2 DEF MgShape, PastRole, PastMint, PastOwner, TenantPcs
  <1>9. MetaTrue'
    <2>1. MintsOnce' /\ Tokened' /\ Peopled'
      BY <1>1, <1>t DEF MetaTrue, MintsOnce, Tokened, Peopled, PastMint, PastOwner
    <2>2. RoleGiven' /\ Passed'
      BY <1>1, <1>t DEF MetaTrue, RoleGiven, HasOwner, Passed, PastRole, PastMint, PastOwner
    <2> QED BY <2>1, <2>2 DEF MetaTrue
  <1>10. ASSUME NEW t \in MTenants PROVE TenantTrue(t)'
    <2>1. TenantTrue(t)
      BY DEF MgInv
    <2>2. ~On(t, "stamp") /\ ~On(t, "stamp")' /\ ~On(t, "grant")'
      BY <1>1 DEF On
    <2>3. Absent(t)' /\ RpcClosed(t)'
      BY <1>1, <1>7, <2>1 DEF TenantTrue, Absent, RpcClosed, Taken
    <2>4. EgressTrue(t)'
      BY <1>1, <1>7, <2>1 DEF TenantTrue, EgressTrue
    <2>5. RuleTrue(t)'
      BY <1>1, <1>7, <2>1, <2>2 DEF TenantTrue, RuleTrue, Taken
    <2>6. GrantTrue(t)'
      BY <1>1, <1>7, <2>1, <2>2 DEF TenantTrue, GrantTrue, Taken
    <2>7. OwnerTrue(t)'
      BY <1>1, <1>7, <2>1 DEF TenantTrue, OwnerTrue, Taken
    <2> QED BY <2>3, <2>4, <2>5, <2>6, <2>7 DEF TenantTrue
  <1> QED BY <1>8, <1>9, <1>10 DEF MgInv

LEMMA CrashKeeps ==
    ASSUME MgInv, Crash
    PROVE  MgInv'
  <1>1. UNCHANGED <<cols, adm, ten, tdb, removed>> /\ at' = Down /\ at'.pc = "down" /\ cut \subseteq cut'
    BY DEF Crash, Down
  <1>2. /\ at.pc = "lift" => <<"role">> \in cut'
        /\ at.pc = "assign" => <<"owner">> \in cut'
        /\ \A t \in MTenants : On(t, "stamp") => <<"policy", t>> \in cut'
    BY DEF Crash, MAt
  <1>3. MgShape'
    BY <1>1 DEF MgInv, MgShape, TenantPcs
  <1>4. MetaTrue'
    <2>1. MintsOnce' /\ Tokened' /\ Peopled' /\ Passed'
      BY <1>1 DEF MgInv, MetaTrue, MintsOnce, Tokened, Peopled, Passed, PastRole, PastMint, PastOwner, TenantPcs
    <2>2. RoleGiven'
      BY <1>1, <1>2 DEF MgInv, MetaTrue, RoleGiven, HasOwner
    <2> QED BY <2>1, <2>2 DEF MetaTrue
  <1>5. ASSUME NEW t \in MTenants PROVE TenantTrue(t)'
    <2>1. TenantTrue(t) /\ ~On(t, "stamp")' /\ ~On(t, "grant")'
      BY <1>1 DEF MgInv, On
    <2> QED BY <1>1, <1>2, <2>1, TenantFrame
  <1> QED BY <1>3, <1>4, <1>5 DEF MgInv

(* Operators act while the server runs: the start has moved nowhere. *)
LEMMA OperatorMoves ==
    ASSUME MgInv, Operate, UNCHANGED adm, cut \subseteq cut',
           ten' \in [MTenants -> {NoRow} \cup TenantRows], tdb' \in [MTenants -> DbRows]
    PROVE  MgShape' /\ MetaTrue'
  <1>1. at' = at /\ at.pc = "serving" /\ cols' = cols
    BY DEF Operate, MAt
  <1>2. MgShape'
    BY <1>1 DEF MgInv, MgShape, TenantPcs
  <1>3. MintsOnce' /\ Tokened' /\ Peopled' /\ Passed' /\ RoleGiven'
    BY <1>1 DEF MgInv, MetaTrue, MintsOnce, Tokened, Peopled, Passed, RoleGiven, HasOwner
  <1> QED BY <1>2, <1>3 DEF MetaTrue
LEMMA OperatorElsewhere ==
    ASSUME MgInv, Operate, cut \subseteq cut', NEW t \in MTenants, ten'[t] = ten[t], tdb'[t] = tdb[t],
           \A o : <<"egress", t, o>> \in removed' <=> <<"egress", t, o>> \in removed,
           \A x \in {"policy", "publish", "owner"} : <<x, t>> \in removed' <=> <<x, t>> \in removed
    PROVE  TenantTrue(t)'
  <1>1. at' = at /\ at.pc = "serving" /\ cols' = cols /\ TenantTrue(t)
    BY DEF Operate, MAt, MgInv
  <1>2. ~On(t, "stamp") /\ ~On(t, "stamp")' /\ ~On(t, "grant")'
    BY <1>1 DEF On
  <1> QED BY <1>1, <1>2, TenantFrame

LEMMA TenantsBorn ==
    ASSUME MgInv, NEW u \in MTenants, NewTenant(u)
    PROVE  MgInv'
  <1>1. /\ Operate /\ ~ten[u].row /\ UNCHANGED <<adm, removed>> /\ cut \subseteq cut'
        /\ at' = at /\ at.pc = "serving" /\ cols' = cols
    BY DEF NewTenant, Operate, MAt
  <1>t. MgShape /\ TenantTrue(u) /\ Absent(u) /\ Rows(adm) \subseteq MAdmins /\ NoAdmin \notin MAdmins
    BY AdminSet, MigrationAssumption DEF MgInv, TenantTrue
  <1>2. PICK a \in MAdmins : ten' = [ten EXCEPT ![u] = [OldTenant EXCEPT !.owner = a, !.mark = Jobs]]
    BY <1>t DEF NewTenant
  <1>3. PICK r : r = [OldTenant EXCEPT !.owner = a, !.mark = Jobs]
    OBVIOUS
  <1>4. r \in TenantRows /\ r.row /\ r.owner = a /\ r.mark = Jobs /\ r.allow = {}
    BY <1>3 DEF OldTenant, TenantRows
  <1>5. /\ ten' \in [MTenants -> {NoRow} \cup TenantRows] /\ ten'[u] = r
        /\ \A t \in MTenants : t # u => ten'[t] = ten[t]
    BY <1>2, <1>3, <1>4, <1>t DEF MgShape
  <1>6. /\ tdb' \in [MTenants -> DbRows] /\ \A t \in MTenants : t # u => tdb'[t] = tdb[t]
        /\ tdb'[u].hooks = {} \/ ~tdb'[u].file
        /\ tdb'[u].root = "read" \/ (tdb'[u].root = "none" /\ <<"policy", u>> \in cut')
        /\ RpcClosed(u)'
    <2>1. CASE cut' = cut \cup {<<"policy", u>>} /\ tdb' = tdb
      BY <1>1, <1>t, <2>1 DEF MgShape, Absent, TenantTrue, RpcClosed
    <2>2. CASE tdb' = [tdb EXCEPT ![u] = [OldDb(TRUE, {}) EXCEPT !.root = "read", !.rpc = "none",
                                                                 !.new = TRUE, !.strict = TRUE]]
      <3>1. PICK d : d = [OldDb(TRUE, {}) EXCEPT !.root = "read", !.rpc = "none", !.new = TRUE, !.strict = TRUE]
        OBVIOUS
      <3>2. d \in DbRows /\ d.hooks = {} /\ d.root = "read" /\ d.rpc = "none"
        BY <3>1 DEF OldDb, DbRows
      <3>3. tdb' \in [MTenants -> DbRows] /\ tdb'[u] = d /\ \A t \in MTenants : t # u => tdb'[t] = tdb[t]
        BY <1>t, <2>2, <3>1, <3>2 DEF MgShape
      <3> QED BY <3>2, <3>3 DEF RpcClosed
    <2> QED BY <2>1, <2>2 DEF NewTenant
  <1>7. MgShape' /\ MetaTrue'
    BY <1>1, <1>5, <1>6, OperatorMoves
  <1>8. ASSUME NEW t \in MTenants, t # u PROVE TenantTrue(t)'
    BY <1>1, <1>5, <1>6, <1>8, OperatorElsewhere
  <1>9. TenantTrue(u)'
    <2>1. /\ ~Taken("policy", u)' /\ ~Taken("publish", u)' /\ ~Taken("owner", u)'
          /\ \A o \in MOrigins : <<"egress", u, o>> \notin removed'
      BY <1>1, <1>t DEF Absent, Taken
    <2>2. ~On(u, "stamp")' /\ ~On(u, "grant")'
      BY <1>1 DEF On
    <2>3. Jobs = {"egress", "policy", "publish"}
      BY DEF Jobs
    <2>4. Absent(u)'
      BY <1>4, <1>5 DEF Absent
    <2>5. EgressTrue(u)'
      BY <1>4, <1>5, <1>6, <2>1, <2>3 DEF EgressTrue
    <2>6. RuleTrue(u)'
      BY <1>4, <1>5, <1>6, <2>1, <2>2, <2>3 DEF RuleTrue
    <2>7. GrantTrue(u)'
      BY <1>4, <1>5, <1>6, <2>1, <2>2, <2>3 DEF GrantTrue
    <2>8. OwnerTrue(u)'
      BY <1>4, <1>5, <1>t, <2>1 DEF OwnerTrue
    <2> QED BY <1>6, <2>4, <2>5, <2>6, <2>7, <2>8 DEF TenantTrue
  <1> QED BY <1>7, <1>8, <1>9 DEF MgInv

LEMMA OperatorsTake ==
    ASSUME MgInv, NEW u \in MTenants,
           ClearRootPolicy(u) \/ RevokePublish(u) \/ Disown(u) \/ \E o \in MOrigins : RemoveOrigin(u, o)
    PROVE  MgInv'
  <1>1. /\ Operate /\ UNCHANGED <<adm, cut>> /\ at' = at /\ at.pc = "serving" /\ cols' = cols
    BY DEF ClearRootPolicy, RevokePublish, Disown, RemoveOrigin, Operate, MAt
  <1>t. /\ MgShape /\ TenantTrue(u) /\ tdb[u] \in DbRows /\ tdb \in [MTenants -> DbRows]
        /\ ten \in [MTenants -> {NoRow} \cup TenantRows]
    BY DEF MgInv, MgShape
  <1>i. ten[u].row
    BY <1>t DEF TenantTrue, Absent, ClearRootPolicy, RevokePublish, Disown, RemoveOrigin
  <1>f. /\ ten[u] \in TenantRows /\ ten[u].mark \in SUBSET Jobs /\ ten[u].allow \in SUBSET MOrigins
        /\ "owner" \in cols
    BY <1>1, <1>i, <1>t, TenantCases DEF MgInv, MetaTrue, Passed, PastOwner
  <1>o. /\ ~On(u, "stamp") /\ ~On(u, "grant") /\ ~On(u, "stamp")' /\ ~On(u, "grant")'
    BY <1>1 DEF On
  <1>p. RuleTrue(u) /\ GrantTrue(u) /\ EgressTrue(u) /\ OwnerTrue(u) /\ RpcClosed(u)
    BY <1>t DEF TenantTrue
  <1>2. ASSUME NEW x \in {"none", "read"}, tdb' = [tdb EXCEPT ![u].root = x], ten' = ten,
               removed' \subseteq removed \cup {<<"policy", u>>, <<"publish", u>>}, removed \subseteq removed',
               RuleTrue(u)', GrantTrue(u)'
        PROVE  MgInv'
    <2>1. PICK d : d = [tdb[u] EXCEPT !.root = x]
      OBVIOUS
    <2>2. /\ d \in DbRows /\ d.root = x /\ d.file = tdb[u].file /\ d.hooks = tdb[u].hooks
          /\ d.new = tdb[u].new /\ d.rpc = tdb[u].rpc
      BY <1>t, <2>1 DEF DbRows
    <2>3. tdb' \in [MTenants -> DbRows] /\ tdb'[u] = d /\ \A t \in MTenants : t # u => tdb'[t] = tdb[t]
      BY <1>2, <1>t, <2>1, <2>2
    <2>4. MgShape' /\ MetaTrue'
      BY <1>1, <1>2, <1>t, <2>3, OperatorMoves
    <2>5. \A t, o : <<"egress", t, o>> \in removed' <=> <<"egress", t, o>> \in removed
      BY <1>2
    <2>6. ASSUME NEW t \in MTenants, t # u PROVE TenantTrue(t)'
      <3>1. \A y \in {"policy", "publish", "owner"} : <<y, t>> \in removed' <=> <<y, t>> \in removed
        BY <1>2, <2>6
      <3> QED BY <1>1, <1>2, <2>3, <2>5, <2>6, <3>1, OperatorElsewhere
    <2>7. Absent(u)' /\ RpcClosed(u)' /\ EgressTrue(u)'
      BY <1>2, <1>i, <1>p, <2>2, <2>3, <2>5 DEF Absent, RpcClosed, EgressTrue
    <2>8. <<"owner", u>> \in removed' <=> <<"owner", u>> \in removed
      BY <1>2
    <2>9. OwnerTrue(u)'
      BY <1>1, <1>2, <1>p, <2>2, <2>3, <2>8 DEF OwnerTrue, Taken
    <2> QED BY <1>2, <2>4, <2>6, <2>7, <2>9 DEF MgInv, TenantTrue
  <1>3. CASE ClearRootPolicy(u)
    <2>1. /\ tdb[u].root # "none" /\ tdb' = [tdb EXCEPT ![u].root = "none"] /\ ten' = ten
          /\ removed' = removed \cup {<<"policy", u>>, <<"publish", u>>}
      BY <1>3 DEF ClearRootPolicy
    <2>2. tdb'[u].root = "none"
      BY <1>t, <2>1 DEF DbRows
    <2>3. <<"policy", u>> \in removed' /\ <<"publish", u>> \in removed'
      BY <2>1
    <2>4. RuleTrue(u)'
      BY <1>1, <1>i, <1>o, <1>p, <2>1, <2>2, <2>3 DEF RuleTrue, Taken
    <2>5. GrantTrue(u)'
      BY <1>1, <1>i, <1>o, <1>p, <2>1, <2>2, <2>3 DEF RuleTrue, GrantTrue, Taken
    <2> QED BY <1>2, <2>1, <2>4, <2>5
  <1>4. CASE RevokePublish(u)
    <2>1. /\ tdb[u].root = "both" /\ tdb' = [tdb EXCEPT ![u].root = "read"] /\ ten' = ten
          /\ removed' = removed \cup {<<"publish", u>>}
      BY <1>4 DEF RevokePublish
    <2>2. tdb'[u].root = "read"
      BY <1>t, <2>1 DEF DbRows
    <2>3. <<"policy", u>> \in removed' <=> <<"policy", u>> \in removed
      BY <2>1
    <2>4. RuleTrue(u)'
      BY <1>1, <1>i, <1>o, <1>p, <2>1, <2>2, <2>3 DEF RuleTrue, Taken
    <2>5. GrantTrue(u)'
      BY <1>1, <1>i, <1>o, <1>p, <2>1, <2>2, <2>3 DEF GrantTrue, Taken
    <2>6. removed' \subseteq removed \cup {<<"policy", u>>, <<"publish", u>>} /\ removed \subseteq removed'
      BY <2>1
    <2> QED BY <1>2, <2>1, <2>4, <2>5, <2>6
  <1>5. ASSUME NEW r \in TenantRows, ten' = [ten EXCEPT ![u] = r], tdb' = tdb, r.mark = ten[u].mark,
               \A x \in {"policy", "publish"}, t \in MTenants : <<x, t>> \in removed' <=> <<x, t>> \in removed,
               \A t \in MTenants : t # u =>
                  /\ \A o : <<"egress", t, o>> \in removed' <=> <<"egress", t, o>> \in removed
                  /\ <<"owner", t>> \in removed' <=> <<"owner", t>> \in removed,
               EgressTrue(u)', OwnerTrue(u)'
        PROVE  MgInv'
    <2>1. /\ ten' \in [MTenants -> {NoRow} \cup TenantRows] /\ ten'[u] = r /\ r.row
          /\ \A t \in MTenants : t # u => ten'[t] = ten[t]
      BY <1>5, <1>t DEF TenantRows
    <2>2. MgShape' /\ MetaTrue'
      BY <1>1, <1>5, <1>t, <2>1, OperatorMoves
    <2>3. ASSUME NEW t \in MTenants, t # u PROVE TenantTrue(t)'
      BY <1>1, <1>5, <2>1, <2>3, OperatorElsewhere
    <2>4. Absent(u)' /\ RpcClosed(u)'
      BY <1>5, <1>p, <2>1 DEF Absent, RpcClosed
    <2>5. RuleTrue(u)'
      BY <1>1, <1>5, <1>i, <1>o, <1>p, <2>1 DEF RuleTrue, Taken
    <2>6. GrantTrue(u)'
      BY <1>1, <1>5, <1>i, <1>o, <1>p, <2>1 DEF GrantTrue, Taken
    <2> QED BY <1>5, <2>2, <2>3, <2>4, <2>5, <2>6 DEF MgInv, TenantTrue
  <1>6. CASE Disown(u)
    <2>1. PICK r : r = [ten[u] EXCEPT !.owner = NoAdmin]
      OBVIOUS
    <2>2. r \in TenantRows /\ r.mark = ten[u].mark /\ r.allow = ten[u].allow /\ r.owner = NoAdmin
      BY <1>f, <2>1 DEF TenantRows
    <2>3. ten' = [ten EXCEPT ![u] = r] /\ ten'[u] = r /\ tdb' = tdb /\ removed' = removed \cup {<<"owner", u>>}
      BY <1>6, <1>t, <2>1 DEF Disown
    <2>4. \A x \in {"policy", "publish"}, t \in MTenants : <<x, t>> \in removed' <=> <<x, t>> \in removed
      BY <2>3
    <2>5. \A t, o : <<"egress", t, o>> \in removed' <=> <<"egress", t, o>> \in removed
      BY <2>3
    <2>6. \A t : t # u => (<<"owner", t>> \in removed' <=> <<"owner", t>> \in removed)
      BY <2>3
    <2>7. EgressTrue(u)'
      BY <1>i, <1>p, <2>2, <2>3, <2>5 DEF EgressTrue
    <2>8. OwnerTrue(u)'
      BY <1>1, <1>f, <2>2, <2>3 DEF OwnerTrue, Taken
    <2> QED BY <1>5, <2>2, <2>3, <2>4, <2>5, <2>6, <2>7, <2>8
  <1>7. ASSUME NEW o \in MOrigins, RemoveOrigin(u, o) PROVE MgInv'
    <2>1. PICK r : r = [ten[u] EXCEPT !.allow = @ \ {o}]
      OBVIOUS
    <2>2. r \in TenantRows /\ r.mark = ten[u].mark /\ r.allow = ten[u].allow \ {o} /\ r.owner = ten[u].owner
      BY <1>f, <2>1 DEF TenantRows
    <2>3. /\ ten' = [ten EXCEPT ![u] = r] /\ ten'[u] = r /\ tdb' = tdb /\ o \in ten[u].allow
          /\ removed' = removed \cup {<<"egress", u, o>>}
      BY <1>7, <1>t, <2>1 DEF RemoveOrigin
    <2>4. \A x, t : <<x, t>> \in removed' <=> <<x, t>> \in removed
      BY <2>3
    <2>5. \A t, p : t # u \/ p # o => (<<"egress", t, p>> \in removed' <=> <<"egress", t, p>> \in removed)
      BY <2>3
    <2>6. <<"egress", u, o>> \in removed'
      BY <2>3
    <2>7. EgressTrue(u)'
      BY <1>i, <1>p, <2>2, <2>3, <2>5, <2>6 DEF EgressTrue
    <2>8. OwnerTrue(u)'
      BY <1>1, <1>i, <1>p, <2>2, <2>3, <2>4 DEF OwnerTrue, Taken
    <2> QED BY <1>5, <2>2, <2>3, <2>4, <2>5, <2>7, <2>8
  <1> QED BY <1>3, <1>4, <1>6, <1>7

LEMMA MgInitial == MgInit => MgInv
  <1> SUFFICES ASSUME MgInit PROVE MgInv
    OBVIOUS
  <1>0. at = Down /\ removed = {} /\ cut = {} /\ cols = {}
    BY DEF MgInit
  <1>1. at.pc = "down" /\ removed = {} /\ cut = {} /\ cols = {}
    BY <1>0 DEF Down
  <1>2. OldAdmin("none") \in AdminRows /\ OldAdmin("legacy") \in AdminRows
        /\ \A x \in {"none", "legacy"} : OldAdmin(x).minted = 0
    BY DEF OldAdmin, AdminRows
  <1>3. OldTenant \in TenantRows /\ OldTenant.row /\ OldTenant.allow = {} /\ OldTenant.mark = {}
    BY DEF OldTenant, TenantRows
  <1>4. NoRow.row = FALSE
    BY DEF NoRow
  <1>5. \A f \in BOOLEAN, h \in SUBSET MOrigins : /\ OldDb(f, h) \in DbRows /\ OldDb(f, h).root = "none"
                                                 /\ OldDb(f, h).file = f /\ ~OldDb(f, h).new
    BY DEF OldDb, DbRows
  <1>6. /\ \A a \in MAdmins : adm[a] \in {NoRow, OldAdmin("none"), OldAdmin("legacy")}
        /\ adm \in [MAdmins -> {NoRow} \cup AdminRows]
        /\ \/ /\ ten = [t \in MTenants |-> OldTenant]
              /\ tdb \in [MTenants -> UNION {{OldDb(f, h) : f \in BOOLEAN} : h \in {{}, MOrigins}}]
           \/ ten = [t \in MTenants |-> NoRow] /\ tdb = [t \in MTenants |-> OldDb(FALSE, {})]
    <2>1. CASE /\ ten = [t \in MTenants |-> OldTenant]
               /\ adm \in [MAdmins -> {OldAdmin("none"), OldAdmin("legacy")}]
               /\ tdb \in [MTenants -> UNION {{OldDb(f, h) : f \in BOOLEAN} : h \in {{}, MOrigins}}]
      BY <1>2, <2>1
    <2>2. CASE /\ ten = [t \in MTenants |-> NoRow] /\ adm = [a \in MAdmins |-> NoRow]
               /\ tdb = [t \in MTenants |-> OldDb(FALSE, {})]
      BY <2>2
    <2> QED BY <2>1, <2>2 DEF MgInit
  <1>7. /\ ten \in [MTenants -> {NoRow} \cup TenantRows] /\ tdb \in [MTenants -> DbRows]
        /\ \A t \in MTenants : /\ tdb[t].root = "none" /\ ~tdb[t].new
                               /\ \/ ten[t] = OldTenant
                                  \/ ten[t] = NoRow /\ ~tdb[t].file
    <2>1. CASE /\ ten = [t \in MTenants |-> OldTenant]
               /\ tdb \in [MTenants -> UNION {{OldDb(f, h) : f \in BOOLEAN} : h \in {{}, MOrigins}}]
      <3>1. \A d \in UNION {{OldDb(f, h) : f \in BOOLEAN} : h \in {{}, MOrigins}} : d \in DbRows /\ d.root = "none" /\ ~d.new
        BY <1>5
      <3> QED BY <1>3, <2>1, <3>1
    <2>2. CASE ten = [t \in MTenants |-> NoRow] /\ tdb = [t \in MTenants |-> OldDb(FALSE, {})]
      <3>1. OldDb(FALSE, {}) \in DbRows /\ OldDb(FALSE, {}).root = "none" /\ ~OldDb(FALSE, {}).new
            /\ OldDb(FALSE, {}).file = FALSE
        BY <1>5
      <3> HIDE DEF OldDb, NoRow
      <3> QED BY <2>2, <3>1
    <2> QED BY <1>6, <2>1, <2>2
  <1>8. MgShape
    BY <1>1, <1>6, <1>7 DEF MgShape, TenantPcs
  <1>9. MetaTrue
    <2>1. MintsOnce
      BY <1>2, <1>4, <1>6 DEF MintsOnce
    <2> QED BY <1>1, <2>1 DEF MetaTrue, Tokened, Peopled, RoleGiven, Passed, PastRole, PastMint, PastOwner, TenantPcs
  <1>10. ASSUME NEW t \in MTenants PROVE TenantTrue(t)
    <2>1. ~On(t, "stamp") /\ ~On(t, "grant")
      BY <1>1 DEF On
    <2> QED BY <1>1, <1>3, <1>4, <1>7, <2>1 DEF TenantTrue, Absent, EgressTrue, RuleTrue, GrantTrue, OwnerTrue,
                                                RpcClosed, Taken
  <1> QED BY <1>8, <1>9, <1>10 DEF MgInv

LEMMA MgSteps == MgInv /\ [MgNext]_mgvars => MgInv'
  <1> SUFFICES ASSUME MgInv, [MgNext]_mgvars PROVE MgInv'
    OBVIOUS
  <1>1. CASE MgBoot
    <2>1. ASSUME NEW t \in MTenants, MigrateTenantDb(t) \/ StrictRebuildTenant(t) PROVE MgInv'
      BY <2>1, DbJobs
    <2>2. ASSUME NEW t \in MTenants,
                 SeedFilePolicyRoot(t) \/ StampPolicy(t) \/ SeedPublicUpload(t) \/ GrantRootPublicUpload(t)
          PROVE  MgInv'
      BY <2>2, RuleSteps
    <2> QED BY <1>1, <2>1, <2>2, MetaOnlySteps, AdminSteps, OwnersAssigned, EgressJob DEF MgBoot
  <1>2. ASSUME NEW t \in MTenants, JobFails(t) PROVE MgInv'
    BY <1>2, DbJobs
  <1>3. ASSUME NEW t \in MTenants,
               ClearRootPolicy(t) \/ RevokePublish(t) \/ Disown(t) \/ \E o \in MOrigins : RemoveOrigin(t, o)
        PROVE  MgInv'
    BY <1>3, OperatorsTake
  <1>4. CASE UNCHANGED mgvars
    <2>1. UNCHANGED <<at, cols, adm, ten, tdb, removed, cut>>
      BY <1>4 DEF mgvars
    <2>2. MgShape'
      BY <2>1 DEF MgInv, MgShape, Rows
    <2>3. MetaTrue'
      BY <2>1 DEF MgInv, MetaTrue, MintsOnce, Tokened, Peopled, RoleGiven, HasOwner, Passed
    <2>4. ASSUME NEW t \in MTenants PROVE TenantTrue(t)'
      <3>1. TenantTrue(t)
        BY DEF MgInv
      <3>2. \A pc : On(t, pc)' <=> On(t, pc)
        BY <2>1 DEF On
      <3> QED BY <2>1, <3>1, <3>2, TenantFrame
    <2> QED BY <2>2, <2>3, <2>4 DEF MgInv
  <1> QED BY <1>1, <1>2, <1>3, <1>4, CrashKeeps, TenantsBorn DEF MgNext

(* For any number of administrators, tenants and starts, cut off anywhere: *)
(* a start mints nobody a second token and gives back nothing an operator  *)
(* took away, but for a rule whose marker was cut off (run_migrations).    *)
THEOREM StartsAreIdempotent == MgSpec => []BootIdempotent
  <1>1. MgInv => BootIdempotent
    <2> SUFFICES ASSUME MgInv PROVE BootIdempotent
      OBVIOUS
    <2>1. ASSUME NEW a \in Rows(adm) PROVE adm[a].minted <= 1
      BY AdminSet, <2>1 DEF MgInv, MetaTrue, MintsOnce
    <2>2. ASSUME NEW t \in MTenants
          PROVE  /\ \A o \in MOrigins : <<"egress", t, o>> \in removed => o \notin ten[t].allow
                 /\ <<"policy", t>> \in removed => tdb[t].root = "none" \/ <<"policy", t>> \in cut
                 /\ <<"publish", t>> \in removed => tdb[t].root # "both" \/ <<"policy", t>> \in cut
                 /\ <<"owner", t>> \in removed => ten[t].owner = NoAdmin
      BY DEF MgInv, TenantTrue, Absent, EgressTrue, RuleTrue, GrantTrue, OwnerTrue, Taken
    <2> QED BY <2>1, <2>2 DEF BootIdempotent
  <1> QED BY <1>1, MgInitial, MgSteps, PTL DEF MgSpec

(* For any number of administrators, tenants and starts: once a start      *)
(* serves, everybody still has what they had before the upgrade, except    *)
(* where a crash hit the statements of a backfill (run_migrations).        *)
THEOREM UpgradesKeepAccess == MgSpec => []UpgradeKeepsAccess
  <1>1. MgInv => UpgradeKeepsAccess
    <2> SUFFICES ASSUME MgInv, at.pc = "serving" PROVE UpgradeKeepsAccess
      BY DEF UpgradeKeepsAccess, MAt
    <2>1. "serving" \in PastMint /\ "serving" \in PastRole /\ "serving" \in PastOwner
      BY DEF PastMint, PastRole, PastOwner
    <2>2. Tokenless = {}
      BY <2>1, AdminSet DEF MgInv, MetaTrue, Tokened, Tokenless
    <2>3. <<"role">> \in cut \/ \E a \in Rows(adm) : adm[a].role = "owner"
      BY <2>1, AdminSet DEF MgInv, MetaTrue, RoleGiven, HasOwner, Passed
    <2>4. "owner" \in cols
      BY <2>1 DEF MgInv, MetaTrue, Passed
    <2>5. ASSUME NEW t \in Rows(ten)
          PROVE  /\ tdb[t].file => \/ ten[t].owner # NoAdmin \/ <<"owner", t>> \in removed
                                   \/ cut \cap {<<"owner">>, <<"role">>} # {}
                 /\ tdb[t].file /\ "egress" \in ten[t].mark =>
                       \A o \in tdb[t].hooks : o \in ten[t].allow \/ <<"egress", t, o>> \in removed
                 /\ "policy" \in ten[t].mark => tdb[t].root # "none" \/ <<"policy", t>> \in removed \cup cut
                 /\ tdb[t].new => tdb[t].rpc # "unsafe"
      <3>1. t \in MTenants /\ ten[t].row
        BY <2>5, TenantSet DEF MgInv
      <3>2. TenantTrue(t)
        BY <3>1 DEF MgInv
      <3> QED BY <2>4, <3>1, <3>2 DEF TenantTrue, EgressTrue, RuleTrue, OwnerTrue, RpcClosed, Taken
    <2> QED BY <2>2, <2>3, <2>5 DEF UpgradeKeepsAccess
  <1> QED BY <1>1, MgInitial, MgSteps, PTL DEF MgSpec
============================================================================
