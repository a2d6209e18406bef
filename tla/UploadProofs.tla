---------------------------- MODULE UploadProofs ----------------------------
(***************************************************************************)
(* Proofs about the file store and resumable uploads, for any number of    *)
(* files, uploads and handlers in flight, any file length and any tiers;   *)
(* and about a collection's records, for any number of callers, requests,  *)
(* settings changes, stored RPCs and subscribers.                          *)
(***************************************************************************)
EXTENDS ResumableUpload, RecordStore, SequenceTheorems, FiniteSetTheorems, TLAPS

----------------------------------------------------------------------------
(* Types, and the keys a file handler works on at each of its awaits.      *)

Uploading == {"insert", "put", "undo"}
MoverPcs == {"get", "copy", "update", "delold"}
RowKeyed(r, us, as) ==
    /\ r.pc = "insert" => r.k \in TKeys
    /\ r.pc \in Uploading => r.k \in TKeys \cup AKeys /\ r.k \in us
    /\ r.pc \in MoverPcs => r.k \in TenantKeys /\ r.k \in us /\ r.vis # r.from
    /\ r.pc \in {"delobj", "delrow"} => r.k \in FKeys /\ r.k \in as
Keyed == \A t \in FTasks : RowKeyed(ftask[t], used, asked)
(* A row or an object means that the key was given out. *)
UsedKeys == \A k \in FKeys : frow[k] # "none" \/ fobj[k] # {} => k \in used
FBase == FTypeOK /\ Keyed /\ UsedKeys

LEMMA IdleRows == FIdle \in FTaskRows /\ UIdle \in UTaskRows
  BY FileAssumption, UploadAssumption
  DEF FIdle, FTaskRows, FPcs, Buckets, UIdle, UTaskRows, UPcs, Sizes

LEMMA IdleKeyed == \A us, as : RowKeyed(FIdle, us, as)
  BY DEF FIdle, RowKeyed, Uploading, MoverPcs

(* A handler that only moves on. *)
To(r, pc) == [r EXCEPT !.pc = pc]
LEMMA MoveOn ==
    ASSUME NEW r \in FTaskRows, NEW pc \in FPcs
    PROVE  /\ To(r, pc) \in FTaskRows /\ To(r, pc).pc = pc /\ To(r, pc).k = r.k
           /\ To(r, pc).vis = r.vis /\ To(r, pc).from = r.from /\ To(r, pc).tier = r.tier
           /\ To(r, pc).seen = r.seen
  BY DEF FTaskRows, To

(* A handler that starts. *)
InsertRow(k, v, n) == [FIdle EXCEPT !.pc = "insert", !.k = k, !.vis = v, !.tier = n]
PutRow(k, v) == [FIdle EXCEPT !.pc = "put", !.k = k, !.vis = v]
DeletionRow(k, b) == [FIdle EXCEPT !.pc = "delobj", !.k = k, !.from = b]
MoveRow(k, b, v) == [FIdle EXCEPT !.pc = "get", !.k = k, !.from = b, !.vis = v]
PageRow(s) == [FIdle EXCEPT !.pc = "rows", !.seen = s]

LEMMA IdleFields ==
    /\ FIdle.tier = 1 /\ FIdle.pc = "idle" /\ FIdle.seen = {}
    /\ UIdle.pc = "idle" /\ UIdle.tier = 1
  BY DEF FIdle, UIdle

LEMMA InsertFields ==
    ASSUME NEW k \in FKeys, NEW v \in Buckets, NEW n \in 1 .. MaxTier
    PROVE  /\ InsertRow(k, v, n) \in FTaskRows /\ InsertRow(k, v, n).pc = "insert"
           /\ InsertRow(k, v, n).k = k /\ InsertRow(k, v, n).vis = v /\ InsertRow(k, v, n).tier = n
           /\ InsertRow(k, v, n).seen = {}
  BY IdleRows, IdleFields DEF FTaskRows, FPcs, InsertRow
LEMMA PutFields ==
    ASSUME NEW k \in FKeys, NEW v \in Buckets
    PROVE  /\ PutRow(k, v) \in FTaskRows /\ PutRow(k, v).pc = "put" /\ PutRow(k, v).k = k
           /\ PutRow(k, v).vis = v /\ PutRow(k, v).tier = 1 /\ PutRow(k, v).seen = {}
  BY IdleRows, IdleFields DEF FTaskRows, FPcs, PutRow
LEMMA DeletionFields ==
    ASSUME NEW k \in FKeys, NEW b \in Buckets
    PROVE  /\ DeletionRow(k, b) \in FTaskRows /\ DeletionRow(k, b).pc = "delobj"
           /\ DeletionRow(k, b).k = k /\ DeletionRow(k, b).from = b /\ DeletionRow(k, b).tier = 1
           /\ DeletionRow(k, b).seen = {}
  BY IdleRows, IdleFields DEF FTaskRows, FPcs, DeletionRow
LEMMA MoveFields ==
    ASSUME NEW k \in FKeys, NEW b \in Buckets, NEW v \in Buckets
    PROVE  /\ MoveRow(k, b, v) \in FTaskRows /\ MoveRow(k, b, v).pc = "get" /\ MoveRow(k, b, v).k = k
           /\ MoveRow(k, b, v).from = b /\ MoveRow(k, b, v).vis = v /\ MoveRow(k, b, v).tier = 1
           /\ MoveRow(k, b, v).seen = {}
  BY IdleRows, IdleFields DEF FTaskRows, FPcs, MoveRow
LEMMA PageFields ==
    ASSUME NEW s \in SUBSET AKeys
    PROVE  PageRow(s) \in FTaskRows /\ PageRow(s).pc = "rows" /\ PageRow(s).seen = s /\ PageRow(s).tier = 1
  BY IdleRows, IdleFields DEF FTaskRows, FPcs, PageRow

LEMMA UploadVisible ==
    ASSUME NEW c, NEW w \in Buckets \cup {"omitted"}, NEW d \in Buckets, NEW g
    PROVE  UploadVisibility(c, w, d, g) \subseteq Buckets
  BY DEF UploadVisibility, Buckets

(* The step of one handler, as far as types and keys go. *)
LEMMA StepBase ==
    ASSUME FBase, NEW t \in FTasks, NEW r \in FTaskRows, FGoto(t, r), RowKeyed(r, used', asked'),
           frow' \in [FKeys -> Buckets \cup {"none"}], fobj' \in [FKeys -> SUBSET Buckets],
           tier' \in 1 .. MaxTier, topTier' \in 1 .. MaxTier,
           page' \in [orphans : SUBSET AKeys, dangling : SUBSET AKeys],
           used \subseteq used', asked \subseteq asked', used' \subseteq FKeys, asked' \subseteq FKeys,
           acked' \subseteq FKeys, crossed' \subseteq FKeys, UsedKeys'
    PROVE  FBase'
  <1>1. Keyed'
    <2> SUFFICES ASSUME NEW s \in FTasks PROVE RowKeyed(ftask'[s], used', asked')
      BY DEF Keyed
    <2>1. CASE s = t
      BY <2>1 DEF FGoto, FBase, FTypeOK
    <2>2. CASE s # t
      BY <2>2 DEF FGoto, FBase, FTypeOK, Keyed, RowKeyed
    <2> QED BY <2>1, <2>2
  <1>2. ftask' \in [FTasks -> FTaskRows]
    BY DEF FGoto, FBase, FTypeOK
  <1> QED BY <1>1, <1>2 DEF FBase, FTypeOK

(* A step of a file handler keeps the types, and a key given out once is   *)
(* never fresh again.                                                      *)
LEMMA FileStepTypes ==
    ASSUME FBase, NEW t \in FTasks, FStep(t)
    PROVE  FBase' /\ used \subseteq used'
  <1>t. /\ frow \in [FKeys -> Buckets \cup {"none"}] /\ fobj \in [FKeys -> SUBSET Buckets]
        /\ tier \in 1 .. MaxTier /\ topTier \in 1 .. MaxTier
        /\ page \in [orphans : SUBSET AKeys, dangling : SUBSET AKeys]
        /\ used \subseteq FKeys /\ acked \subseteq FKeys /\ asked \subseteq FKeys
        /\ crossed \subseteq FKeys /\ ftask[t] \in FTaskRows /\ UsedKeys
    BY DEF FBase, FTypeOK
  <1>k. RowKeyed(ftask[t], used, asked) /\ TKeys \subseteq FKeys /\ AKeys \subseteq FKeys
        /\ TenantKeys \subseteq FKeys
    BY DEF FBase, Keyed, FKeys, TenantKeys
  <1>f. /\ ftask[t].vis \in Buckets /\ ftask[t].from \in Buckets /\ ftask[t].seen \in SUBSET AKeys
        /\ ftask[t].k \in FKeys \cup {NoKey}
    BY <1>t DEF FTaskRows
  <1>1. ASSUME NEW k \in TKeys, NEW v \in Buckets, used' = used \cup {k},
               FGoto(t, InsertRow(k, v, tier)), crossed' \subseteq FKeys,
               UNCHANGED <<frow, fobj, tier, page, acked, asked, topTier>>
        PROVE  FBase' /\ used \subseteq used'
    <2>1. k \in FKeys
      BY <1>k
    <2>2. InsertRow(k, v, tier) \in FTaskRows /\ InsertRow(k, v, tier).pc = "insert"
          /\ InsertRow(k, v, tier).k = k
      BY <1>t, <2>1, InsertFields
    <2>3. RowKeyed(InsertRow(k, v, tier), used', asked')
      BY <1>1, <2>2 DEF RowKeyed, Uploading, MoverPcs
    <2>4. UsedKeys'
      BY <1>t, <1>1 DEF UsedKeys
    <2> QED BY <1>1, <1>t, <2>1, <2>2, <2>3, <2>4, StepBase
  <1>2. ASSUME NEW k \in TKeys, NEW c, NEW w \in Buckets \cup {"omitted"}, NEW g,
               UploadStart(t, k, c, w, g)
        PROVE  FBase' /\ used \subseteq used'
    <2>1. UploadVisibility(c, w, "public", g) \subseteq Buckets
      BY UploadVisible DEF Buckets
    <2>2. PICK v \in Buckets : FGoto(t, InsertRow(k, v, tier))
      BY <1>2, <2>1 DEF UploadStart, InsertRow
    <2>3. used' = used \cup {k} /\ UNCHANGED <<frow, fobj, tier, page, acked, asked, topTier, crossed>>
      BY <1>2 DEF UploadStart, Fresh, UNCHECKS
    <2> QED BY <1>1, <1>t, <2>2, <2>3
  <1>3. ASSUME NEW k \in TKeys, NEW w \in Buckets, NEW g,
               PutFileRaw(t, k, w) \/ EnforcedPutFile(t, k, w, g)
        PROVE  FBase' /\ used \subseteq used'
    <2>1. UploadVisibility("user", w, "private", g) \subseteq Buckets
      BY UploadVisible DEF Buckets
    <2>2. PICK v \in Buckets : PutFileAs(t, k, v)
      BY <1>3, <2>1 DEF PutFileRaw, EnforcedPutFile
    <2>3. FGoto(t, InsertRow(k, v, tier))
      BY <2>2 DEF PutFileAs, InsertRow
    <2>4. /\ used' = used \cup {k} /\ UNCHANGED <<frow, fobj, tier, page, acked, asked, topTier>>
          /\ crossed' \subseteq FKeys
      BY <1>t, <1>k, <2>2 DEF PutFileAs
    <2> QED BY <1>1, <2>3, <2>4
  <1>4. ASSUME NEW k \in AKeys, NEW v \in Buckets, AdminUpload(t, k, v)
        PROVE  FBase' /\ used \subseteq used'
    <2>1. k \in FKeys
      BY <1>k
    <2>2. PutRow(k, v) \in FTaskRows /\ PutRow(k, v).pc = "put" /\ PutRow(k, v).k = k
      BY PutFields, <2>1
    <2>3. FGoto(t, PutRow(k, v))
      BY <1>4 DEF AdminUpload, PutRow
    <2>4. /\ used' = used \cup {k} /\ frow' = [frow EXCEPT ![k] = v]
          /\ UNCHANGED <<fobj, tier, page, acked, asked, crossed, topTier>>
      BY <1>4 DEF AdminUpload, Fresh, UNCHECKS
    <2>5. RowKeyed(PutRow(k, v), used', asked')
      BY <2>2, <2>4 DEF RowKeyed, Uploading, MoverPcs
    <2>6. UsedKeys' /\ frow' \in [FKeys -> Buckets \cup {"none"}]
      BY <1>t, <2>1, <2>4 DEF UsedKeys
    <2> QED BY <1>t, <2>1, <2>2, <2>3, <2>4, <2>5, <2>6, StepBase
  <1>5. ASSUME NEW r, FGoto(t, r), r \in FTaskRows, RowKeyed(r, used, asked),
               frow' \in [FKeys -> Buckets \cup {"none"}], fobj' \in [FKeys -> SUBSET Buckets],
               UNCHANGED <<tier, page, used, asked, crossed, topTier>>, acked' \subseteq FKeys, UsedKeys'
        PROVE  FBase' /\ used \subseteq used'
    BY <1>5, <1>t, StepBase
  <1>i. FIdle \in FTaskRows /\ RowKeyed(FIdle, used, asked)
    BY IdleRows, IdleKeyed
  <1>6. ASSUME UploadInsert(t) PROVE FBase' /\ used \subseteq used'
    <2>1. To(ftask[t], "put") \in FTaskRows /\ RowKeyed(To(ftask[t], "put"), used, asked)
      BY <1>6, <1>k, <1>t, MoveOn DEF RowKeyed, UploadInsert, FAt, Uploading, MoverPcs, FPcs
    <2>2. ftask[t].k \in used /\ ftask[t].k \in FKeys
      BY <1>6, <1>k DEF UploadInsert, FAt, RowKeyed, Uploading
    <2>3. frow' \in [FKeys -> Buckets \cup {"none"}]
      BY <1>6, <1>t, <1>f DEF UploadInsert
    <2>4. UsedKeys'
      BY <1>6, <1>t, <2>2 DEF UploadInsert, UsedKeys, UNHIST, fhist
    <2>5. FGoto(t, To(ftask[t], "put")) \/ FGoto(t, FIdle)
      BY <1>6 DEF UploadInsert, FReturn, To
    <2>6. UNCHANGED <<fobj, tier, page, used, acked, asked, crossed, topTier>>
      BY <1>6 DEF UploadInsert, UNHIST, fhist
    <2> QED BY <1>5, <1>i, <1>t, <2>1, <2>3, <2>4, <2>5, <2>6
  <1>7. ASSUME UploadPut(t) PROVE FBase' /\ used \subseteq used'
    <2>1. To(ftask[t], "undo") \in FTaskRows /\ RowKeyed(To(ftask[t], "undo"), used, asked)
      BY <1>7, <1>k, <1>t, MoveOn DEF RowKeyed, UploadPut, FAt, Uploading, MoverPcs, FPcs
    <2>2. ftask[t].k \in FKeys /\ ftask[t].k \in used
      BY <1>7, <1>k DEF UploadPut, FAt, RowKeyed, Uploading
    <2>3. fobj' \in [FKeys -> SUBSET Buckets] /\ UsedKeys' /\ acked' \subseteq FKeys
      BY <1>7, <1>t, <1>f, <2>2 DEF UploadPut, PutObjectIn, UsedKeys
    <2>4. FGoto(t, To(ftask[t], "undo")) \/ FGoto(t, FIdle)
      BY <1>7 DEF UploadPut, FReturn, To
    <2>5. UNCHANGED <<frow, tier, page, used, asked, crossed, topTier>>
      BY <1>7 DEF UploadPut
    <2> QED BY <1>5, <1>i, <1>t, <2>1, <2>3, <2>4, <2>5
  <1>8. ASSUME UploadUndo(t) \/ DeleteRow(t) PROVE FBase' /\ used \subseteq used'
    <2>1. frow' = [frow EXCEPT ![ftask[t].k] = "none"] /\ FGoto(t, FIdle)
          /\ UNCHANGED <<fobj, tier, page, used, acked, asked, crossed, topTier>>
      BY <1>8 DEF UploadUndo, DeleteRow, UNHIST, fhist, FReturn
    <2>2. frow' \in [FKeys -> Buckets \cup {"none"}]
      BY <1>t, <2>1
    <2>3. UsedKeys'
      BY <1>t, <2>1 DEF UsedKeys
    <2> QED BY <1>5, <1>i, <1>t, <2>1, <2>2, <2>3
  <1>9. ASSUME NEW k \in FKeys, DeleteStart(t, k) \/ AdminDelete(t, k)
        PROVE  FBase' /\ used \subseteq used'
    <2>1. PICK b \in Buckets : FGoto(t, DeletionRow(k, b))
      BY <1>9, <1>t DEF DeleteStart, AdminDelete, Buckets, DeletionRow
    <2>2. /\ DeletionRow(k, b) \in FTaskRows /\ DeletionRow(k, b).pc = "delobj"
          /\ DeletionRow(k, b).k = k
      BY DeletionFields
    <2>3. asked' = asked \cup {k} /\ UNCHANGED <<frow, fobj, tier, page, used, acked, crossed, topTier>>
      BY <1>9 DEF DeleteStart, AdminDelete
    <2>4. RowKeyed(DeletionRow(k, b), used', asked')
      BY <2>2, <2>3 DEF RowKeyed, Uploading, MoverPcs
    <2>5. UsedKeys'
      BY <2>3, <1>t DEF UsedKeys
    <2> QED BY <1>t, <2>1, <2>2, <2>3, <2>4, <2>5, StepBase
  <1>10. ASSUME DeleteObject(t) PROVE FBase' /\ used \subseteq used'
    <2>1. To(ftask[t], "delrow") \in FTaskRows /\ RowKeyed(To(ftask[t], "delrow"), used, asked)
      BY <1>10, <1>k, <1>t, MoveOn DEF RowKeyed, DeleteObject, FAt, Uploading, MoverPcs, FPcs
    <2>2. fobj' \in [FKeys -> SUBSET Buckets] /\ UsedKeys'
      BY <1>10, <1>t DEF DeleteObject, DeleteObjectIn, UsedKeys, UNHIST, fhist
    <2>3. FGoto(t, To(ftask[t], "delrow")) \/ FGoto(t, FIdle)
      BY <1>10 DEF DeleteObject, FReturn, To
    <2>4. UNCHANGED <<frow, tier, page, used, acked, asked, crossed, topTier>>
      BY <1>10 DEF DeleteObject, UNHIST, fhist
    <2> QED BY <1>5, <1>i, <1>t, <2>1, <2>2, <2>3, <2>4
  <1>11. ASSUME NEW k \in FKeys, NEW v \in Buckets, VisibilityRead(t, k, v)
         PROVE  FBase' /\ used \subseteq used'
    <2>1. frow[k] \in Buckets /\ frow[k] # v /\ k \in TenantKeys /\ k \in used
      BY <1>11, <1>t DEF VisibilityRead, UsedKeys
    <2>2. /\ MoveRow(k, frow[k], v) \in FTaskRows /\ MoveRow(k, frow[k], v).pc = "get"
          /\ MoveRow(k, frow[k], v).k = k /\ MoveRow(k, frow[k], v).from = frow[k]
          /\ MoveRow(k, frow[k], v).vis = v
      BY <2>1, MoveFields
    <2>3. /\ UNCHANGED <<frow, fobj, tier, page, used, acked, asked, topTier>>
          /\ FGoto(t, MoveRow(k, frow[k], v)) /\ crossed' \subseteq FKeys
      BY <1>11, <1>t DEF VisibilityRead, MoveRow
    <2>4. RowKeyed(MoveRow(k, frow[k], v), used', asked')
      BY <2>1, <2>2, <2>3 DEF RowKeyed, Uploading, MoverPcs
    <2>5. UsedKeys'
      BY <2>3, <1>t DEF UsedKeys
    <2> QED BY <1>t, <2>2, <2>3, <2>4, <2>5, StepBase
  <1>12. ASSUME VisibilityGet(t) \/ VisibilityCopy(t) \/ VisibilityUpdate(t) \/ VisibilityDeleteOld(t)
         PROVE  FBase' /\ used \subseteq used'
    <2>1. ASSUME NEW pc \in {"copy", "update", "delold"}, ftask[t].pc \in MoverPcs
          PROVE  To(ftask[t], pc) \in FTaskRows /\ RowKeyed(To(ftask[t], pc), used, asked)
      <3>1. pc \in FPcs /\ pc \notin Uploading /\ pc \notin {"delobj", "delrow", "insert"}
        BY DEF FPcs, Uploading
      <3>2. ftask[t].k \in TenantKeys /\ ftask[t].k \in used /\ ftask[t].vis # ftask[t].from
        BY <2>1, <1>k DEF RowKeyed
      <3> QED BY <1>t, <3>1, <3>2, MoveOn DEF RowKeyed
    <2>2. ftask[t].pc \in MoverPcs
      BY <1>12 DEF VisibilityGet, VisibilityCopy, VisibilityUpdate, VisibilityDeleteOld, FAt, MoverPcs
    <2>3. ftask[t].k \in FKeys /\ ftask[t].k \in used
      BY <1>k, <2>2 DEF RowKeyed
    <2>4. UNCHANGED <<tier, page, used, asked, crossed, topTier, acked>>
      BY <1>12 DEF VisibilityGet, VisibilityCopy, VisibilityUpdate, VisibilityDeleteOld, UNHIST, fhist
    <2>5. frow' = frow \/ frow' = [frow EXCEPT ![ftask[t].k] = IF @ = "none" THEN @ ELSE ftask[t].vis]
      BY <1>12 DEF VisibilityGet, VisibilityCopy, VisibilityUpdate, VisibilityDeleteOld
    <2>6. \/ fobj' = fobj \/ fobj' = PutObjectIn(ftask[t].k, ftask[t].vis)
          \/ fobj' = DeleteObjectIn(ftask[t].k, ftask[t].from)
      BY <1>12 DEF VisibilityGet, VisibilityCopy, VisibilityUpdate, VisibilityDeleteOld
    <2>7. frow' \in [FKeys -> Buckets \cup {"none"}] /\ fobj' \in [FKeys -> SUBSET Buckets]
      BY <1>t, <1>f, <2>5, <2>6 DEF PutObjectIn, DeleteObjectIn
    <2>8. UsedKeys'
      BY <1>t, <2>3, <2>4, <2>5, <2>6 DEF PutObjectIn, DeleteObjectIn, UsedKeys
    <2>9. FGoto(t, FIdle) \/ \E pc \in {"copy", "update", "delold"} : FGoto(t, To(ftask[t], pc))
      BY <1>12 DEF VisibilityGet, VisibilityCopy, VisibilityUpdate, VisibilityDeleteOld, FReturn, To
    <2> QED BY <1>5, <1>i, <1>t, <2>1, <2>2, <2>4, <2>7, <2>8, <2>9
  <1>13. ASSUME ReconcileList(t) PROVE FBase' /\ used \subseteq used'
    <2>1. PICK s \in SUBSET AKeys : FGoto(t, PageRow(s))
      BY <1>13 DEF ReconcileList, IsAdminLevelKey, PageRow
    <2>2. PageRow(s) \in FTaskRows /\ PageRow(s).pc = "rows"
      BY PageFields
    <2>3. UNCHANGED <<frow, fobj, tier, page, used, acked, asked, crossed, topTier>>
      BY <1>13 DEF ReconcileList, UNHIST, fhist
    <2>4. RowKeyed(PageRow(s), used', asked')
      BY <2>2 DEF RowKeyed, Uploading, MoverPcs
    <2>5. UsedKeys'
      BY <2>3, <1>t DEF UsedKeys
    <2> QED BY <1>t, <2>1, <2>2, <2>3, <2>4, <2>5, StepBase
  <1>14. ASSUME ReconcileRows(t) PROVE FBase' /\ used \subseteq used'
    <2>1. page' \in [orphans : SUBSET AKeys, dangling : SUBSET AKeys]
      BY <1>14, <1>f DEF ReconcileRows
    <2>2. UNCHANGED <<frow, fobj, tier, used, acked, asked, crossed, topTier>> /\ FGoto(t, FIdle)
      BY <1>14 DEF ReconcileRows, UNHIST, fhist, FReturn
    <2>3. UsedKeys'
      BY <1>t, <2>2 DEF UsedKeys
    <2> QED BY <1>t, <1>i, <2>1, <2>2, <2>3, StepBase
  <1> QED BY <1>2, <1>3, <1>4, <1>6, <1>7, <1>8, <1>9, <1>10, <1>11, <1>12, <1>13, <1>14
      DEF FStep, McpSetFileVisibility, SetVisibility, McpDeleteFile, DeleteFileTool

(* The rest of the file store's steps. *)
LEMMA FileBase == FInit => FBase
  <1> SUFFICES ASSUME FInit PROVE FBase
    OBVIOUS
  <1>1. ftask \in [FTasks -> FTaskRows] /\ \A t \in FTasks : ftask[t] = FIdle
    BY IdleRows DEF FInit
  <1>2. Keyed
    BY <1>1, IdleKeyed DEF Keyed
  <1>3. 1 \in 1 .. MaxTier
    BY FileAssumption
  <1>4. UsedKeys
    BY DEF FInit, UsedKeys
  <1> QED BY <1>1, <1>2, <1>3, <1>4 DEF FInit, FBase, FTypeOK

(* A step that leaves the file handlers where they are. *)
LEMMA StillBase ==
    ASSUME FBase, UNCHANGED <<ftask, asked, crossed>>,
           frow' \in [FKeys -> Buckets \cup {"none"}], fobj' \in [FKeys -> SUBSET Buckets],
           tier' \in 1 .. MaxTier, topTier' \in 1 .. MaxTier,
           page' \in [orphans : SUBSET AKeys, dangling : SUBSET AKeys],
           used \subseteq used', used' \subseteq FKeys, acked' \subseteq FKeys, UsedKeys'
    PROVE  FBase'
  <1>1. Keyed'
    <2> SUFFICES ASSUME NEW s \in FTasks PROVE RowKeyed(ftask'[s], used', asked')
      BY DEF Keyed
    <2> QED BY DEF FBase, FTypeOK, Keyed, RowKeyed
  <1> QED BY <1>1 DEF FBase, FTypeOK

LEMMA FileRest ==
    ASSUME FBase,
           \/ \E k \in AKeys : ReconcileDeleteObject(k) \/ ReconcileDeleteRow(k)
           \/ \E n \in 1 .. MaxTier : SetTier(n)
           \/ FCrash
    PROVE  FBase' /\ used \subseteq used'
  <1>t. /\ frow \in [FKeys -> Buckets \cup {"none"}] /\ fobj \in [FKeys -> SUBSET Buckets]
        /\ tier \in 1 .. MaxTier /\ topTier \in 1 .. MaxTier
        /\ page \in [orphans : SUBSET AKeys, dangling : SUBSET AKeys]
        /\ used \subseteq FKeys /\ acked \subseteq FKeys /\ UsedKeys
    BY DEF FBase, FTypeOK
  <1>1. ASSUME NEW k \in AKeys, ReconcileDeleteObject(k) PROVE FBase' /\ used \subseteq used'
    <2>1. UNCHANGED <<frow, tier, ftask, used, acked, asked, crossed, topTier>>
      BY <1>1 DEF ReconcileDeleteObject, UNHIST, fhist
    <2>2. fobj' \in [FKeys -> SUBSET Buckets] /\ UsedKeys'
      BY <1>1, <1>t, <2>1 DEF ReconcileDeleteObject, DeleteObjectDefault, DeleteObjectIn, UsedKeys
    <2>3. page' \in [orphans : SUBSET AKeys, dangling : SUBSET AKeys]
      BY <1>1, <1>t DEF ReconcileDeleteObject
    <2> QED BY <1>t, <2>1, <2>2, <2>3, StillBase
  <1>2. ASSUME NEW k \in AKeys, ReconcileDeleteRow(k) PROVE FBase' /\ used \subseteq used'
    <2>1. UNCHANGED <<fobj, tier, ftask, used, acked, asked, crossed, topTier>>
      BY <1>2 DEF ReconcileDeleteRow, UNHIST, fhist
    <2>2. frow' \in [FKeys -> Buckets \cup {"none"}] /\ UsedKeys'
      BY <1>2, <1>t, <2>1 DEF ReconcileDeleteRow, UsedKeys
    <2>3. page' \in [orphans : SUBSET AKeys, dangling : SUBSET AKeys]
      BY <1>2, <1>t DEF ReconcileDeleteRow
    <2> QED BY <1>t, <2>1, <2>2, <2>3, StillBase
  <1>3. ASSUME NEW n \in 1 .. MaxTier, SetTier(n) PROVE FBase' /\ used \subseteq used'
    <2>1. /\ UNCHANGED <<frow, fobj, page, ftask, used, acked, asked, crossed>>
          /\ tier' \in 1 .. MaxTier /\ topTier' \in 1 .. MaxTier
      BY <1>3, <1>t DEF SetTier
    <2>2. UsedKeys'
      BY <1>t, <2>1 DEF UsedKeys
    <2> QED BY <1>t, <2>1, <2>2, StillBase
  <1>4. ASSUME FCrash PROVE FBase' /\ used \subseteq used'
    <2>1. UNCHANGED <<frow, fobj, tier, page, used, acked, asked, crossed, topTier>>
      BY <1>4 DEF FCrash, UNHIST, fhist
    <2>2. ftask' \in [FTasks -> FTaskRows] /\ \A t \in FTasks : ftask'[t] = FIdle
      BY <1>4, IdleRows DEF FCrash
    <2>3. Keyed'
      BY <2>2, IdleKeyed DEF Keyed
    <2>4. UsedKeys'
      BY <1>t, <2>1 DEF UsedKeys
    <2> QED BY <2>1, <2>2, <2>3, <2>4 DEF FBase, FTypeOK
  <1> QED BY <1>1, <1>2, <1>3, <1>4

----------------------------------------------------------------------------
(* Resumable uploads.  What an upload handler may count on at each of its  *)
(* awaits: whoever waits for the lock of a token whose spool exists waits  *)
(* for the lock the map holds, so at most one handler is between TusLock   *)
(* and its return for that spool, and what it read of the spool's length   *)
(* is still true when it writes.                                           *)
LockPcs == {"lock"} \cup Holding
RowFits(r, us) ==
    /\ r.pc # "idle" => r.k \in UKeys /\ r.k \in us
    /\ r.pc = "open" => ~spooled[r.k] /\ sess[r.k] = "none"
    /\ r.pc \in LockPcs /\ spooled[r.k] => r.arc = arc[r.k] /\ arc[r.k] # 0
    /\ r.pc = "append" => /\ r.want + r.len <= Total
                          /\ spooled[r.k] => r.want = Len(spool[r.k])
    /\ r.pc \in {"finrow", "finput"} /\ spooled[r.k] => Len(spool[r.k]) = Total
Apart(r, q) ==
    /\ r.pc = "open" /\ q.pc # "idle" => q.k # r.k
    /\ r.pc \in Holding /\ q.pc \in Holding /\ r.k = q.k => ~spooled[r.k]
AllFit == \A t \in UTasks : RowFits(utask[t], used)
AllApart == \A s, t \in UTasks : s # t => Apart(utask[s], utask[t])
Spools ==
    \A u \in UKeys :
        /\ sess[u] # "none" \/ spooled[u] => u \in used
        /\ ~spooled[u] => spool[u] = <<>>
UState ==
    /\ sess \in [UKeys -> Buckets \cup {"none"}] /\ lapsed \subseteq UKeys
    /\ spool \in [UKeys -> Seq(1 .. Total)] /\ spooled \in [UKeys -> BOOLEAN]
    /\ arc \in [UKeys -> 0 .. MaxArc] /\ arcs \in [UKeys -> 0 .. MaxArc]
    /\ utask \in [UTasks -> UTaskRows] /\ stored \subseteq UKeys
LogInv == FBase /\ UState /\ AllFit /\ AllApart /\ Spools

LEMMA IdleFits == \A us, q : RowFits(UIdle, us) /\ Apart(UIdle, q) /\ Apart(q, UIdle)
  BY DEF RowFits, Apart, UIdle, LockPcs, Holding

OpenRow(u, v) == [UIdle EXCEPT !.pc = "open", !.k = u, !.vis = v]
PatchRow(u, o, n, v) == [UIdle EXCEPT !.pc = "arc", !.k = u, !.want = o, !.len = n, !.vis = v]
DropRow(u) == [UIdle EXCEPT !.pc = "drop", !.k = u]
LockRow(r, a) == [r EXCEPT !.pc = "lock", !.arc = a]
FinishRow(r, n) == [r EXCEPT !.pc = "finrow", !.tier = n]
UTo(r, pc) == [r EXCEPT !.pc = pc]

LEMMA OpenFields ==
    ASSUME NEW u \in UKeys, NEW v \in Buckets
    PROVE  /\ OpenRow(u, v) \in UTaskRows /\ OpenRow(u, v).pc = "open" /\ OpenRow(u, v).k = u
           /\ OpenRow(u, v).vis = v /\ OpenRow(u, v).tier = 1
  BY IdleRows, IdleFields DEF UTaskRows, UPcs, OpenRow
LEMMA PatchFields ==
    ASSUME NEW u \in UKeys, NEW o \in Sizes, NEW n \in Sizes, NEW v \in Buckets
    PROVE  /\ PatchRow(u, o, n, v) \in UTaskRows /\ PatchRow(u, o, n, v).pc = "arc"
           /\ PatchRow(u, o, n, v).k = u /\ PatchRow(u, o, n, v).vis = v
           /\ PatchRow(u, o, n, v).tier = 1
  BY IdleRows, IdleFields DEF UTaskRows, UPcs, PatchRow
LEMMA DropFields ==
    ASSUME NEW u \in UKeys
    PROVE  /\ DropRow(u) \in UTaskRows /\ DropRow(u).pc = "drop" /\ DropRow(u).k = u
           /\ DropRow(u).tier = 1
  BY IdleRows, IdleFields DEF UTaskRows, UPcs, DropRow
LEMMA LockFields ==
    ASSUME NEW r \in UTaskRows, NEW a \in 0 .. MaxArc
    PROVE  /\ LockRow(r, a) \in UTaskRows /\ LockRow(r, a).pc = "lock" /\ LockRow(r, a).k = r.k
           /\ LockRow(r, a).arc = a /\ LockRow(r, a).vis = r.vis /\ LockRow(r, a).tier = r.tier
  BY DEF UTaskRows, UPcs, LockRow
LEMMA FinishFields ==
    ASSUME NEW r \in UTaskRows, NEW n \in 1 .. MaxTier
    PROVE  /\ FinishRow(r, n) \in UTaskRows /\ FinishRow(r, n).pc = "finrow"
           /\ FinishRow(r, n).k = r.k /\ FinishRow(r, n).arc = r.arc /\ FinishRow(r, n).vis = r.vis
           /\ FinishRow(r, n).tier = n
  BY DEF UTaskRows, UPcs, FinishRow
LEMMA UMoveOn ==
    ASSUME NEW r \in UTaskRows, NEW pc \in UPcs
    PROVE  /\ UTo(r, pc) \in UTaskRows /\ UTo(r, pc).pc = pc /\ UTo(r, pc).k = r.k
           /\ UTo(r, pc).arc = r.arc /\ UTo(r, pc).vis = r.vis /\ UTo(r, pc).tier = r.tier
           /\ UTo(r, pc).want = r.want /\ UTo(r, pc).len = r.len
  BY DEF UTaskRows, UTo

(* An upload handler moves and nothing else happens to the sessions. *)
LEMMA HandlerMoves ==
    ASSUME LogInv, NEW t \in UTasks, NEW r \in UTaskRows, UGoto(t, r), UNCHANGED <<svars, arc>>,
           used \subseteq used', RowFits(r, used'),
           \A s \in UTasks \ {t} : Apart(r, utask[s]) /\ Apart(utask[s], r)
    PROVE  AllFit' /\ AllApart' /\ Spools' /\ utask' \in [UTasks -> UTaskRows]
  <1>1. /\ utask' \in [UTasks -> UTaskRows] /\ utask'[t] = r
        /\ \A s \in UTasks \ {t} : utask'[s] = utask[s]
    BY DEF LogInv, UState, UGoto
  <1>2. ASSUME NEW s \in UTasks PROVE RowFits(utask[s], used)'
    <2>1. CASE s = t
      BY <2>1, <1>1 DEF RowFits, svars
    <2>2. CASE s # t
      <3>1. RowFits(utask[s], used)
        BY DEF LogInv, AllFit
      <3> QED BY <2>2, <3>1, <1>1 DEF RowFits, svars
    <2> QED BY <2>1, <2>2
  <1>3. ASSUME NEW s \in UTasks, NEW q \in UTasks, s # q PROVE Apart(utask[s], utask[q])'
    <2>1. CASE s = t
      BY <2>1, <1>3, <1>1 DEF Apart, svars
    <2>2. CASE q = t
      BY <2>2, <1>3, <1>1 DEF Apart, svars
    <2>3. CASE s # t /\ q # t
      <3>1. Apart(utask[s], utask[q])
        BY <1>3 DEF LogInv, AllApart
      <3> QED BY <2>3, <3>1, <1>1 DEF Apart, svars
    <2> QED BY <2>1, <2>2, <2>3
  <1>4. Spools'
    <2>1. Spools /\ sess' = sess /\ spool' = spool /\ spooled' = spooled
      BY DEF LogInv, svars
    <2> QED BY <2>1 DEF Spools
  <1> QED BY <1>1, <1>2, <1>3, <1>4 DEF AllFit, AllApart

LEMMA IdleFitsNext == \A us, q : (RowFits(UIdle, us) /\ Apart(UIdle, q) /\ Apart(q, UIdle))'
  BY DEF RowFits, Apart, UIdle, LockPcs, Holding

(* A step of the file store, or of the clock. *)
LEMMA FilesMove ==
    ASSUME LogInv, FBase', used \subseteq used', UNCHANGED <<sess, spool, spooled, arc, arcs, utask, stored>>,
           lapsed' \subseteq UKeys
    PROVE  LogInv'
  <1>1. UState'
    BY DEF LogInv, UState
  <1>2. AllFit'
    BY DEF LogInv, AllFit, RowFits
  <1>3. AllApart'
    BY DEF LogInv, AllApart, Apart
  <1>4. Spools'
    BY DEF LogInv, Spools
  <1> QED BY <1>1, <1>2, <1>3, <1>4 DEF LogInv

(* A session ends: by its own finalization, a termination or the janitor. *)
LEMMA Dropped ==
    ASSUME LogInv, NEW u \in UKeys, DropSession(u), FBase', used \subseteq used',
           utask' = utask \/ \E t \in UTasks : UReturn(t)
    PROVE  LogInv'
  <1>1. /\ utask' \in [UTasks -> UTaskRows]
        /\ \A s \in UTasks : utask'[s] = utask[s] \/ utask'[s] = UIdle
    BY IdleRows DEF LogInv, UState, UReturn, UGoto
  <1>2. UState'
    <2>1. <<>> \in Seq(1 .. Total) /\ 0 \in 0 .. MaxArc
      BY UploadAssumption
    <2> QED BY <1>1, <2>1 DEF LogInv, UState, DropSession
  <1>3. ASSUME NEW s \in UTasks PROVE RowFits(utask[s], used)'
    <2>1. CASE utask'[s] = UIdle
      BY <2>1, IdleFitsNext
    <2>2. CASE utask'[s] = utask[s]
      <3>1. RowFits(utask[s], used)
        BY DEF LogInv, AllFit
      <3>2. UState
        BY DEF LogInv
      <3> QED BY <2>2, <3>1, <3>2 DEF RowFits, DropSession, UState, LockPcs, Holding
    <2> QED BY <1>1, <2>1, <2>2
  <1>4. ASSUME NEW s \in UTasks, NEW q \in UTasks, s # q PROVE Apart(utask[s], utask[q])'
    <2>1. CASE utask'[s] = UIdle \/ utask'[q] = UIdle
      BY <2>1, IdleFitsNext
    <2>2. CASE utask'[s] = utask[s] /\ utask'[q] = utask[q]
      <3>1. Apart(utask[s], utask[q]) /\ RowFits(utask[s], used) /\ UState
        BY <1>4 DEF LogInv, AllApart, AllFit
      <3> QED BY <2>2, <3>1 DEF Apart, DropSession, UState, RowFits, Holding
    <2> QED BY <1>1, <2>1, <2>2
  <1>5. Spools'
    <2>1. Spools /\ UState
      BY DEF LogInv
    <2> QED BY <2>1 DEF Spools, DropSession, UState
  <1> QED BY <1>2, <1>3, <1>4, <1>5 DEF LogInv, AllFit, AllApart

----------------------------------------------------------------------------
(* Each step of an upload handler keeps LogInv and is a step of UploadLog. *)
LogStep == LogInv' /\ [Log!LNext]_(Log!lvars)

LEMMA Stutters == UNCHANGED <<spool, spooled, stored>> => [Log!LNext]_(Log!lvars)
  BY DEF Log!lvars

(* A handler that only moves, files left alone. *)
LEMMA OnlyMoves ==
    ASSUME LogInv, NEW t \in UTasks, NEW r \in UTaskRows, UGoto(t, r), UNCHANGED <<svars, stored>>,
           UNLOCKS, FBase', used \subseteq used', RowFits(r, used'),
           \A s \in UTasks \ {t} : Apart(r, utask[s]) /\ Apart(utask[s], r)
    PROVE  LogStep
  <1>1. UNCHANGED <<svars, arc>> /\ UNCHANGED <<sess, lapsed, spool, spooled, arc, arcs, stored>>
    BY DEF svars, UNLOCKS
  <1>2. AllFit' /\ AllApart' /\ Spools' /\ utask' \in [UTasks -> UTaskRows]
    BY <1>1, HandlerMoves
  <1>3. UState'
    BY <1>1, <1>2 DEF LogInv, UState
  <1> QED BY <1>1, <1>2, <1>3, Stutters DEF LogInv, LogStep

LEMMA OnlyReturns ==
    ASSUME LogInv, NEW t \in UTasks, UReturn(t), UNCHANGED <<svars, stored>>,
           UNLOCKS, FBase', used \subseteq used'
    PROVE  LogStep
  BY OnlyMoves, IdleRows, IdleFits DEF UReturn

LEMMA StillFiles ==
    ASSUME FBase, UNFILES
    PROVE  FBase' /\ used' = used
  <1>1. UNCHANGED <<frow, fobj, tier, page, ftask, used, acked, asked, crossed, topTier>>
    BY DEF UNFILES, fvars, fhist
  <1>2. UsedKeys' /\ Keyed' /\ FTypeOK'
    BY <1>1 DEF FBase, FTypeOK, UsedKeys, Keyed, RowKeyed
  <1> QED BY <1>1, <1>2 DEF FBase

LEMMA CreateStep ==
    ASSUME LogInv, NEW t \in UTasks, NEW u \in UKeys, NEW c, NEW w \in Buckets \cup {"omitted"}, NEW g,
           TusCreate(t, u, c, w, g)
    PROVE  LogStep
  <1>1. PICK v \in Buckets : UGoto(t, OpenRow(u, v))
    <2>1. UploadVisibility(c, w, "private", g) \subseteq Buckets
      BY UploadVisible DEF Buckets
    <2> QED BY <2>1 DEF TusCreate, OpenRow
  <1>2. /\ u \notin used /\ used' = used \cup {u} /\ UNLOCKS
        /\ UNCHANGED <<svars, stored>> /\ UNCHANGED <<frow, fobj, tier, page, ftask>>
        /\ UNCHANGED <<acked, asked, crossed, topTier>>
    BY DEF TusCreate, Fresh, UNCHECKS
  <1>3. FBase'
    <2>1. FBase /\ used' \subseteq FKeys
      BY <1>2 DEF LogInv, FBase, FTypeOK, FKeys
    <2>2. UsedKeys'
      BY <1>2, <2>1 DEF FBase, UsedKeys
    <2> QED BY <1>2, <2>1, <2>2, StillBase DEF FBase, FTypeOK
  <1>4. OpenRow(u, v) \in UTaskRows /\ OpenRow(u, v).pc = "open" /\ OpenRow(u, v).k = u
    BY OpenFields
  <1>5. RowFits(OpenRow(u, v), used')
    <2>1. ~spooled[u] /\ sess[u] = "none"
      BY <1>2 DEF LogInv, Spools
    <2> QED BY <1>2, <1>4, <2>1 DEF RowFits, LockPcs, Holding
  <1>6. ASSUME NEW s \in UTasks \ {t}
        PROVE  Apart(OpenRow(u, v), utask[s]) /\ Apart(utask[s], OpenRow(u, v))
    <2>1. utask[s].pc # "idle" => utask[s].k # u
      BY <1>2 DEF LogInv, AllFit, RowFits
    <2> QED BY <1>4, <2>1 DEF Apart, Holding
  <1> QED BY <1>1, <1>2, <1>3, <1>4, <1>5, <1>6, OnlyMoves

LEMMA OpenStep ==
    ASSUME LogInv, NEW t \in UTasks, TusOpen(t)
    PROVE  LogStep
  <1> DEFINE u == utask[t].k
  <1>1. FBase' /\ used' = used /\ UReturn(t) /\ UNLOCKS /\ UNCHANGED <<lapsed, spool, stored>>
    BY StillFiles DEF TusOpen, LogInv
  <1>2. /\ u \in UKeys /\ u \in used /\ ~spooled[u] /\ sess[u] = "none" /\ spool[u] = <<>>
        /\ utask[t] \in UTaskRows
    BY DEF TusOpen, UAt, LogInv, AllFit, RowFits, Spools, UState
  <1>3. CASE UNCHANGED <<sess, spooled>>
    BY <1>1, <1>3, OnlyReturns DEF svars
  <1>4. CASE sess' = [sess EXCEPT ![u] = utask[t].vis] /\ spooled' = [spooled EXCEPT ![u] = TRUE]
    <2>1. /\ utask' \in [UTasks -> UTaskRows] /\ utask'[t] = UIdle
          /\ \A s \in UTasks \ {t} : utask'[s] = utask[s]
      BY <1>1, IdleRows DEF LogInv, UState, UReturn, UGoto
    <2>2. UState
      BY DEF LogInv
    <2>3. UState'
      <3>1. utask[t].vis \in Buckets
        BY <1>2 DEF UTaskRows
      <3> QED BY <1>1, <1>4, <2>1, <2>2, <3>1 DEF UState, UNLOCKS
    <2>4. ASSUME NEW s \in UTasks \ {t}
          PROVE  RowFits(utask[s], used) /\ (utask[s].pc # "idle" => utask[s].k # u)
      BY DEF LogInv, AllFit, AllApart, Apart, TusOpen, UAt
    <2>5. ASSUME NEW s \in UTasks PROVE RowFits(utask[s], used)'
      <3>1. CASE s = t
        BY <2>1, <3>1, IdleFitsNext
      <3>2. CASE s # t
        BY <2>1, <2>2, <2>4, <3>2, <1>1, <1>2, <1>4 DEF RowFits, UState, UNLOCKS, LockPcs, Holding
      <3> QED BY <3>1, <3>2
    <2>6. ASSUME NEW s \in UTasks, NEW q \in UTasks, s # q PROVE Apart(utask[s], utask[q])'
      <3>1. CASE s = t \/ q = t
        BY <2>1, <3>1, IdleFitsNext
      <3>2. CASE s # t /\ q # t
        <4>1. Apart(utask[s], utask[q])
          BY <2>6 DEF LogInv, AllApart
        <4> QED BY <2>1, <2>2, <2>4, <3>2, <4>1, <1>2, <1>4 DEF Apart, UState, RowFits, Holding
      <3> QED BY <3>1, <3>2
    <2>7. Spools'
      <3>1. Spools
        BY DEF LogInv
      <3> QED BY <1>1, <1>2, <1>4, <2>2, <3>1 DEF Spools, UState
    <2>8. Log!Open(u)
      BY <1>1, <1>2, <1>4, <2>2 DEF Log!Open, UState
    <2> QED BY <1>1, <1>2, <2>3, <2>5, <2>6, <2>7, <2>8 DEF LogStep, LogInv, AllFit, AllApart, Log!LNext
  <1> QED BY <1>3, <1>4 DEF TusOpen

LEMMA PatchStep ==
    ASSUME LogInv, NEW t \in UTasks, NEW u \in UKeys, NEW o \in Sizes, NEW n \in 1 .. Total,
           TusPatch(t, u, o, n)
    PROVE  LogStep
  <1>1. /\ FBase' /\ used' = used /\ UNLOCKS /\ UNCHANGED <<svars, stored>> /\ sess[u] # "none"
        /\ UGoto(t, PatchRow(u, o, n, sess[u]))
    BY StillFiles DEF TusPatch, PatchRow, LogInv
  <1>2. n \in Sizes /\ sess[u] \in Buckets /\ u \in used
    BY <1>1, FileAssumption DEF Sizes, LogInv, UState, Spools
  <1>3. /\ PatchRow(u, o, n, sess[u]) \in UTaskRows /\ PatchRow(u, o, n, sess[u]).pc = "arc"
        /\ PatchRow(u, o, n, sess[u]).k = u
    BY <1>2, PatchFields
  <1>4. RowFits(PatchRow(u, o, n, sess[u]), used')
    BY <1>1, <1>2, <1>3 DEF RowFits, LockPcs, Holding
  <1>5. ASSUME NEW s \in UTasks \ {t}
        PROVE  Apart(PatchRow(u, o, n, sess[u]), utask[s]) /\ Apart(utask[s], PatchRow(u, o, n, sess[u]))
    <2>1. utask[s].pc = "open" => utask[s].k # u
      BY <1>1 DEF LogInv, AllFit, RowFits
    <2> QED BY <1>3, <2>1 DEF Apart, Holding
  <1> QED BY <1>1, <1>3, <1>4, <1>5, OnlyMoves

LEMMA TerminateStep ==
    ASSUME LogInv, NEW t \in UTasks, NEW u \in UKeys, TusTerminate(t, u)
    PROVE  LogStep
  <1>1. /\ FBase' /\ used' = used /\ UNLOCKS /\ UNCHANGED <<svars, stored>> /\ sess[u] # "none"
        /\ UGoto(t, DropRow(u))
    BY StillFiles DEF TusTerminate, DropRow, LogInv
  <1>2. u \in used
    BY <1>1 DEF LogInv, Spools
  <1>3. DropRow(u) \in UTaskRows /\ DropRow(u).pc = "drop" /\ DropRow(u).k = u
    BY DropFields
  <1>4. RowFits(DropRow(u), used')
    BY <1>1, <1>2, <1>3 DEF RowFits, LockPcs, Holding
  <1>5. ASSUME NEW s \in UTasks \ {t}
        PROVE  Apart(DropRow(u), utask[s]) /\ Apart(utask[s], DropRow(u))
    <2>1. utask[s].pc = "open" => utask[s].k # u
      BY <1>1 DEF LogInv, AllFit, RowFits
    <2> QED BY <1>3, <2>1 DEF Apart, Holding
  <1> QED BY <1>1, <1>3, <1>4, <1>5, OnlyMoves

(* What a handler that has started may count on. *)
LEMMA Started ==
    ASSUME LogInv, NEW t \in UTasks, utask[t].pc # "idle"
    PROVE  /\ utask[t] \in UTaskRows /\ utask[t].k \in UKeys /\ utask[t].k \in used
           /\ RowFits(utask[t], used)
           /\ \A s \in UTasks \ {t} : Apart(utask[t], utask[s]) /\ Apart(utask[s], utask[t])
           /\ \A s \in UTasks \ {t} : utask[s].pc = "open" => utask[s].k # utask[t].k
  BY DEF LogInv, AllFit, AllApart, RowFits, Apart, UState

LEMMA LockStep ==
    ASSUME LogInv, NEW t \in UTasks, TusLock(t)
    PROVE  LogStep
  <1>1. /\ FBase' /\ used' = used /\ UNLOCKS /\ UNCHANGED <<svars, stored>> /\ utask[t].pc = "lock"
        /\ UGoto(t, UTo(utask[t], "check"))
    BY StillFiles DEF TusLock, UTo, LogInv, UAt
  <1>2. utask[t] \in UTaskRows /\ RowFits(utask[t], used)
    BY <1>1, Started
  <1>3. /\ UTo(utask[t], "check") \in UTaskRows /\ UTo(utask[t], "check").pc = "check"
        /\ UTo(utask[t], "check").k = utask[t].k /\ UTo(utask[t], "check").arc = utask[t].arc
    BY <1>2, UMoveOn DEF UPcs
  <1>4. RowFits(UTo(utask[t], "check"), used')
    BY <1>1, <1>2, <1>3 DEF RowFits, LockPcs, Holding
  <1>5. ASSUME NEW s \in UTasks \ {t}
        PROVE  Apart(UTo(utask[t], "check"), utask[s]) /\ Apart(utask[s], UTo(utask[t], "check"))
    <2>1. utask[s].pc = "open" => utask[s].k # utask[t].k
      BY <1>1, Started
    <2>2. utask[s].pc \in Holding /\ utask[s].k = utask[t].k => utask[s].arc # utask[t].arc
      BY DEF TusLock, Holds
    <2>3. utask[s].pc \in Holding /\ utask[s].k = utask[t].k => ~spooled[utask[t].k]
      BY <1>1, <1>2, <2>2 DEF LogInv, AllFit, RowFits, LockPcs
    <2> QED BY <1>3, <2>1, <2>3 DEF Apart, Holding
  <1> QED BY <1>1, <1>3, <1>4, <1>5, OnlyMoves

LEMMA TokenLockStep ==
    ASSUME LogInv, NEW t \in UTasks, TokenLock(t)
    PROVE  LogStep
  <1> DEFINE u == utask[t].k
  <1>1. FBase' /\ used' = used /\ UNCHANGED <<svars, stored>> /\ utask[t].pc = "arc"
    BY StillFiles DEF TokenLock, LogInv, UAt
  <1>2. utask[t] \in UTaskRows /\ u \in UKeys /\ u \in used /\ UState
    BY <1>1, Started DEF LogInv
  <1>3. ASSUME NEW a \in 0 .. MaxArc, a # 0
        PROVE  /\ LockRow(utask[t], a) \in UTaskRows /\ LockRow(utask[t], a).pc = "lock"
               /\ LockRow(utask[t], a).k = u /\ LockRow(utask[t], a).arc = a
    BY <1>2, LockFields
  <1>4. CASE arc[u] # 0 /\ UNLOCKS /\ UGoto(t, LockRow(utask[t], arc[u]))
    <2>1. /\ LockRow(utask[t], arc[u]) \in UTaskRows /\ LockRow(utask[t], arc[u]).pc = "lock"
          /\ LockRow(utask[t], arc[u]).k = u /\ LockRow(utask[t], arc[u]).arc = arc[u]
      BY <1>2, <1>3, <1>4 DEF UState
    <2>2. RowFits(LockRow(utask[t], arc[u]), used')
      BY <1>1, <1>2, <1>4, <2>1 DEF RowFits, LockPcs, Holding
    <2>3. ASSUME NEW s \in UTasks \ {t}
          PROVE  /\ Apart(LockRow(utask[t], arc[u]), utask[s])
                 /\ Apart(utask[s], LockRow(utask[t], arc[u]))
      <3>1. utask[s].pc = "open" => utask[s].k # u
        BY <1>1, Started
      <3> QED BY <2>1, <3>1 DEF Apart, Holding
    <2> QED BY <1>1, <1>4, <2>1, <2>2, <2>3, OnlyMoves
  <1>5. CASE /\ arc[u] = 0 /\ arcs[u] < MaxArc
             /\ arcs' = [arcs EXCEPT ![u] = @ + 1] /\ arc' = [arc EXCEPT ![u] = arcs[u] + 1]
             /\ UGoto(t, LockRow(utask[t], arcs[u] + 1))
    <2>1. arcs[u] + 1 \in 0 .. MaxArc /\ arcs[u] + 1 # 0
      BY <1>2, <1>5, UploadAssumption DEF UState
    <2> DEFINE r == LockRow(utask[t], arcs[u] + 1)
    <2>2. r \in UTaskRows /\ r.pc = "lock" /\ r.k = u /\ r.arc = arcs[u] + 1
      BY <1>3, <2>1
    <2> HIDE DEF r
    <2>3. /\ utask' \in [UTasks -> UTaskRows] /\ utask'[t] = r
          /\ \A s \in UTasks \ {t} : utask'[s] = utask[s]
      BY <1>2, <1>5, <2>2 DEF UState, UGoto, r
    <2>4. arc' \in [UKeys -> 0 .. MaxArc] /\ arcs' \in [UKeys -> 0 .. MaxArc]
      BY <1>2, <1>5, <2>1 DEF UState
    <2>5. UState'
      BY <1>1, <1>2, <2>3, <2>4 DEF UState, svars
    <2>6. arc'[u] = arcs[u] + 1 /\ \A k \in UKeys : k # u => arc'[k] = arc[k]
      BY <1>2, <1>5 DEF UState
    <2>7. ASSUME NEW s \in UTasks PROVE RowFits(utask[s], used)'
      <3>1. CASE s = t
        BY <1>1, <1>2, <2>1, <2>2, <2>3, <2>6, <3>1 DEF RowFits, LockPcs, Holding
      <3>2. CASE s # t
        <4>1. RowFits(utask[s], used)
          BY DEF LogInv, AllFit
        <4> QED BY <1>1, <1>5, <2>3, <2>6, <3>2, <4>1 DEF RowFits, svars, LockPcs, Holding
      <3> QED BY <3>1, <3>2
    <2>8. ASSUME NEW s \in UTasks, NEW q \in UTasks, s # q PROVE Apart(utask[s], utask[q])'
      <3>1. \A x \in UTasks \ {t} : utask[x].pc = "open" => utask[x].k # u
        BY <1>1, Started
      <3>2. Apart(utask[s], utask[q])
        BY <2>8 DEF LogInv, AllApart
      <3> QED BY <1>1, <2>2, <2>3, <2>8, <3>1, <3>2 DEF Apart, Holding, svars
    <2>9. Spools'
      <3>1. Spools /\ UNCHANGED <<sess, spool, spooled>>
        BY <1>1 DEF LogInv, svars
      <3> QED BY <1>1, <3>1 DEF Spools
    <2> QED BY <1>1, <2>5, <2>7, <2>8, <2>9, Stutters DEF LogStep, LogInv, AllFit, AllApart, svars
  <1> QED BY <1>4, <1>5 DEF TokenLock, LockRow

(* The holder of a lock goes on with the lock. *)
LEMMA HolderGoesOn ==
    ASSUME LogInv, NEW t \in UTasks, utask[t].pc \in Holding, NEW r, r.pc \in Holding, r.k = utask[t].k
    PROVE  \A s \in UTasks \ {t} : Apart(r, utask[s]) /\ Apart(utask[s], r)
  <1>1. utask[t].pc # "idle" /\ r.pc # "open"
    BY DEF Holding
  <1> QED BY <1>1, Started DEF Apart

LEMMA CheckStep ==
    ASSUME LogInv, NEW t \in UTasks, TusCheck(t)
    PROVE  LogStep
  <1> DEFINE u == utask[t].k
  <1>1. FBase' /\ used' = used /\ UNLOCKS /\ UNCHANGED <<svars, stored>> /\ utask[t].pc = "check"
    BY StillFiles DEF TusCheck, LogInv, UAt
  <1>2. utask[t] \in UTaskRows /\ u \in UKeys /\ RowFits(utask[t], used) /\ tier \in 1 .. MaxTier
        /\ utask[t].pc \in Holding /\ u \in used
    BY <1>1, Started DEF LogInv, FBase, FTypeOK, Holding
  <1>3. CASE UReturn(t)
    BY <1>1, <1>3, OnlyReturns
  <1>4. CASE utask[t].want = SpoolLen(u) /\ SpoolLen(u) = Total /\ UGoto(t, FinishRow(utask[t], tier))
    <2>1. /\ FinishRow(utask[t], tier) \in UTaskRows /\ FinishRow(utask[t], tier).pc = "finrow"
          /\ FinishRow(utask[t], tier).k = u /\ FinishRow(utask[t], tier).arc = utask[t].arc
      BY <1>2, FinishFields
    <2>2. RowFits(FinishRow(utask[t], tier), used')
      BY <1>1, <1>2, <1>4, <2>1 DEF RowFits, LockPcs, Holding, SpoolLen
    <2>3. FinishRow(utask[t], tier).pc \in Holding
      BY <2>1 DEF Holding
    <2> QED BY <1>1, <1>2, <1>4, <2>1, <2>2, <2>3, HolderGoesOn, OnlyMoves
  <1>5. CASE /\ utask[t].want = SpoolLen(u) /\ SpoolLen(u) + utask[t].len <= Total
             /\ UGoto(t, UTo(utask[t], "append"))
    <2>1. /\ UTo(utask[t], "append") \in UTaskRows /\ UTo(utask[t], "append").pc = "append"
          /\ UTo(utask[t], "append").k = u /\ UTo(utask[t], "append").arc = utask[t].arc
          /\ UTo(utask[t], "append").want = utask[t].want /\ UTo(utask[t], "append").len = utask[t].len
      BY <1>2, UMoveOn DEF UPcs
    <2>2. RowFits(UTo(utask[t], "append"), used')
      BY <1>1, <1>2, <1>5, <2>1 DEF RowFits, LockPcs, Holding, SpoolLen
    <2>3. UTo(utask[t], "append").pc \in Holding
      BY <2>1 DEF Holding
    <2> QED BY <1>1, <1>2, <1>5, <2>1, <2>2, <2>3, HolderGoesOn, OnlyMoves
  <1> QED BY <1>3, <1>4, <1>5 DEF TusCheck, FinishRow, UTo

LEMMA FinishRowStep ==
    ASSUME LogInv, NEW t \in UTasks, TusFinishRow(t)
    PROVE  LogStep
  <1> DEFINE u == utask[t].k
  <1>1. /\ UNLOCKS /\ UNCHANGED <<svars, stored>> /\ utask[t].pc = "finrow"
        /\ UNCHANGED <<fobj, tier, page, ftask, used, acked, asked, crossed, topTier>>
        /\ frow' = frow \/ frow' = [frow EXCEPT ![u] = IF @ = "none" THEN utask[t].vis ELSE @]
        /\ UReturn(t) \/ UGoto(t, UTo(utask[t], "finput"))
    BY DEF TusFinishRow, UAt, fhist, UTo
  <1>2. utask[t] \in UTaskRows /\ u \in UKeys /\ RowFits(utask[t], used) /\ u \in used
        /\ utask[t].pc \in Holding
    BY <1>1, Started DEF Holding
  <1>3. FBase'
    <2>1. FBase /\ utask[t].vis \in Buckets /\ u \in FKeys
      BY <1>2 DEF LogInv, UTaskRows, FKeys
    <2>2. frow' \in [FKeys -> Buckets \cup {"none"}]
      BY <1>1, <2>1 DEF FBase, FTypeOK
    <2>3. UsedKeys'
      BY <1>1, <1>2, <2>1 DEF FBase, FTypeOK, UsedKeys
    <2> QED BY <1>1, <2>1, <2>2, <2>3, StillBase DEF FBase, FTypeOK
  <1>4. /\ UTo(utask[t], "finput") \in UTaskRows /\ UTo(utask[t], "finput").pc = "finput"
        /\ UTo(utask[t], "finput").k = u /\ UTo(utask[t], "finput").arc = utask[t].arc
    BY <1>2, UMoveOn DEF UPcs
  <1>5. RowFits(UTo(utask[t], "finput"), used')
    BY <1>1, <1>2, <1>4 DEF RowFits, LockPcs, Holding
  <1>6. UTo(utask[t], "finput").pc \in Holding
    BY <1>4 DEF Holding
  <1>7. CASE UReturn(t)
    BY <1>1, <1>3, <1>7, OnlyReturns
  <1>8. CASE UGoto(t, UTo(utask[t], "finput"))
    BY <1>1, <1>2, <1>3, <1>4, <1>5, <1>6, <1>8, HolderGoesOn, OnlyMoves
  <1> QED BY <1>1, <1>7, <1>8

(* The bytes of a chunk, at the end of the spool. *)
Chunk(from, n) == [i \in 1 .. n |-> from + i]
LEMMA Appended ==
    ASSUME NEW q \in Seq(1 .. Total), NEW n \in Nat, Len(q) + n <= Total
    PROVE  /\ q \o Chunk(Len(q), n) \in Seq(1 .. Total) /\ Len(q \o Chunk(Len(q), n)) = Len(q) + n
           /\ n = 0 => q \o Chunk(Len(q), n) = q
  <1>1. Len(q) \in Nat /\ Total \in Nat
    BY FileAssumption
  <1>2. \A i \in 1 .. n : Len(q) + i \in 1 .. Total
    BY <1>1
  <1>3. Chunk(Len(q), n) \in Seq(1 .. Total) /\ Len(Chunk(Len(q), n)) = n
    BY <1>2 DEF Chunk
  <1>4. n = 0 => Chunk(Len(q), n) = <<>>
    BY <1>3
  <1>5. /\ q \o Chunk(Len(q), n) \in Seq(1 .. Total)
        /\ Len(q \o Chunk(Len(q), n)) = Len(q) + n
    BY <1>3, ConcatProperties
  <1>6. n = 0 => q \o Chunk(Len(q), n) = q
    BY <1>4, ConcatEmptySeq
  <1> QED BY <1>5, <1>6

LEMMA AppendStep ==
    ASSUME LogInv, NEW t \in UTasks, TusAppend(t)
    PROVE  LogStep
  <1> DEFINE u == utask[t].k
  <1>1. /\ FBase' /\ used' = used /\ UNLOCKS /\ UNCHANGED <<sess, lapsed, spooled, stored>>
        /\ utask[t].pc = "append"
    BY StillFiles DEF TusAppend, LogInv, UAt
  <1>2. /\ utask[t] \in UTaskRows /\ u \in UKeys /\ RowFits(utask[t], used) /\ UState
        /\ utask[t].pc \in Holding /\ tier \in 1 .. MaxTier
    BY <1>1, Started DEF LogInv, FBase, FTypeOK, Holding
  <1>3. utask[t].want \in Nat /\ utask[t].len \in Nat /\ utask[t].want + utask[t].len <= Total
    BY <1>1, <1>2, FileAssumption DEF UTaskRows, Sizes, RowFits
  <1>4. CASE UReturn(t) /\ UNCHANGED spool
    BY <1>1, <1>4, OnlyReturns DEF svars
  <1>5. ASSUME spooled[u], NEW n \in 0 .. utask[t].len, NEW r \in UTaskRows,
               spool' = [spool EXCEPT ![u] = @ \o Chunk(utask[t].want, n)], UGoto(t, r),
               r = UIdle \/ /\ r.pc = "finrow" /\ r.k = u /\ r.arc = utask[t].arc
                            /\ utask[t].want + n = Total
        PROVE  LogStep
    <2>1. utask[t].want = Len(spool[u]) /\ n \in Nat /\ spool[u] \in Seq(1 .. Total)
      BY <1>1, <1>2, <1>3, <1>5 DEF RowFits, UState
    <2>2. /\ spool'[u] \in Seq(1 .. Total) /\ Len(spool'[u]) = Len(spool[u]) + n
          /\ n = 0 => spool'[u] = spool[u]
          /\ spool'[u] = spool[u] \o Chunk(Len(spool[u]), n)
          /\ \A k \in UKeys : k # u => spool'[k] = spool[k]
      <3>1. spool'[u] = spool[u] \o Chunk(Len(spool[u]), n)
        BY <1>2, <1>5, <2>1 DEF UState
      <3>2. Len(spool[u]) + n <= Total
        BY <1>3, <1>5, <2>1, FileAssumption
      <3>3. /\ spool'[u] \in Seq(1 .. Total) /\ Len(spool'[u]) = Len(spool[u]) + n
            /\ n = 0 => spool'[u] = spool[u]
        BY <2>1, <3>1, <3>2, Appended
      <3>4. \A k \in UKeys : k # u => spool'[k] = spool[k]
        BY <1>2, <1>5 DEF UState
      <3> QED BY <3>1, <3>3, <3>4
    <2>3. spool' \in [UKeys -> Seq(1 .. Total)]
      BY <1>2, <1>5, <2>2 DEF UState
    <2>4. /\ utask' \in [UTasks -> UTaskRows] /\ utask'[t] = r
          /\ \A s \in UTasks \ {t} : utask'[s] = utask[s]
      BY <1>2, <1>5 DEF UState, UGoto
    <2>5. UState'
      BY <1>1, <1>2, <2>3, <2>4 DEF UState, UNLOCKS
    <2>6. ASSUME NEW s \in UTasks \ {t}
          PROVE  /\ RowFits(utask[s], used)
                 /\ utask[s].pc \in Holding => utask[s].k # u
                 /\ utask[s].pc = "open" => utask[s].k # u
      BY <1>1, <1>2, <1>5, Started DEF LogInv, AllFit, Apart, Holding
    <2>7. ASSUME NEW s \in UTasks PROVE RowFits(utask[s], used)'
      <3>1. CASE s = t /\ r = UIdle
        BY <2>4, <3>1, IdleFitsNext
      <3>2. CASE s = t /\ r # UIdle
        BY <1>1, <1>2, <1>5, <2>1, <2>2, <2>4, <3>2 DEF RowFits, LockPcs, Holding, UNLOCKS
      <3>3. CASE s # t
        BY <1>1, <2>2, <2>4, <2>6, <3>3 DEF RowFits, LockPcs, Holding, UNLOCKS
      <3> QED BY <3>1, <3>2, <3>3
    <2>8. ASSUME NEW s \in UTasks, NEW q \in UTasks, s # q PROVE Apart(utask[s], utask[q])'
      <3>1. Apart(utask[s], utask[q])
        BY <2>8 DEF LogInv, AllApart
      <3>2. CASE (s = t \/ q = t) /\ r = UIdle
        BY <2>4, <2>8, <3>2, IdleFitsNext
      <3>3. CASE (s = t \/ q = t) /\ r # UIdle
        BY <1>1, <1>5, <2>4, <2>6, <2>8, <3>3 DEF Apart, Holding
      <3>4. CASE s # t /\ q # t
        BY <1>1, <2>4, <3>1, <3>4 DEF Apart
      <3> QED BY <3>2, <3>3, <3>4
    <2>9. Spools'
      <3>1. Spools
        BY DEF LogInv
      <3> QED BY <1>1, <1>5, <2>2, <3>1 DEF Spools
    <2>10. LogInv'
      BY <1>1, <2>5, <2>7, <2>8, <2>9 DEF LogInv, AllFit, AllApart
    <2>11. CASE n = 0
      <3>1. spool' = spool
        <4>1. \A k \in UKeys : spool'[k] = spool[k]
          BY <2>2, <2>11
        <4> QED BY <1>2, <2>3, <4>1 DEF UState
      <3> QED BY <1>1, <2>10, <3>1, Stutters DEF LogStep
    <2>12. CASE n # 0
      <3>1. n \in 1 .. Total /\ Len(spool[u]) + n <= Total
        BY <1>3, <1>5, <2>1, <2>12, FileAssumption
      <3>2. Log!Accept(u, n)
        BY <1>1, <1>5, <2>1, <3>1 DEF Log!Accept, Chunk
      <3> QED BY <1>2, <2>10, <3>1, <3>2 DEF LogStep, Log!LNext
    <2> QED BY <2>11, <2>12
  <1>6. CASE /\ spooled[u] /\ UReturn(t)
             /\ \E n \in 0 .. utask[t].len : spool' = [spool EXCEPT ![u] = @ \o Chunk(utask[t].want, n)]
    BY <1>5, <1>6, IdleRows DEF UReturn
  <1>7. CASE /\ spooled[u] /\ UGoto(t, FinishRow(utask[t], tier))
             /\ spool' = [spool EXCEPT ![u] = @ \o Chunk(utask[t].want, utask[t].len)]
             /\ utask[t].want + utask[t].len = Total
    <2>1. utask[t].len \in 0 .. utask[t].len
      BY <1>3
    <2>2. /\ FinishRow(utask[t], tier) \in UTaskRows /\ FinishRow(utask[t], tier).pc = "finrow"
          /\ FinishRow(utask[t], tier).k = u /\ FinishRow(utask[t], tier).arc = utask[t].arc
      BY <1>2, FinishFields
    <2> QED BY <1>5, <1>7, <2>1, <2>2
  <1>8. utask[t].len \in 0 .. utask[t].len
    BY <1>3
  <1> QED BY <1>4, <1>6, <1>7, <1>8 DEF TusAppend, Chunk, FinishRow

LEMMA FinishPutStep ==
    ASSUME LogInv, NEW t \in UTasks, TusFinishPut(t)
    PROVE  LogStep
  <1> DEFINE u == utask[t].k
  <1>1. /\ UNLOCKS /\ UNCHANGED svars /\ utask[t].pc = "finput"
        /\ UNCHANGED <<frow, tier, page, ftask, used, acked, asked, crossed, topTier>>
    BY DEF TusFinishPut, UAt, fhist
  <1>2. utask[t] \in UTaskRows /\ u \in UKeys /\ RowFits(utask[t], used) /\ u \in used
        /\ utask[t].pc \in Holding /\ utask[t].vis \in Buckets /\ FBase /\ u \in FKeys
    BY <1>1, Started DEF Holding, UTaskRows, LogInv, FKeys
  <1>3. fobj' = fobj \/ fobj' = PutObjectIn(u, utask[t].vis)
    BY DEF TusFinishPut
  <1>4. FBase'
    <2>1. fobj' \in [FKeys -> SUBSET Buckets]
      BY <1>2, <1>3 DEF PutObjectIn, FBase, FTypeOK
    <2>2. UsedKeys'
      BY <1>1, <1>2, <1>3 DEF PutObjectIn, FBase, FTypeOK, UsedKeys
    <2> QED BY <1>1, <1>2, <2>1, <2>2, StillBase DEF FBase, FTypeOK
  <1>5. CASE UReturn(t) /\ UNCHANGED stored
    BY <1>1, <1>4, <1>5, OnlyReturns DEF svars
  <1>6. CASE spooled[u] /\ stored' = stored \cup {u} /\ UGoto(t, UTo(utask[t], "finclean"))
    <2>1. /\ UTo(utask[t], "finclean") \in UTaskRows /\ UTo(utask[t], "finclean").pc = "finclean"
          /\ UTo(utask[t], "finclean").k = u /\ UTo(utask[t], "finclean").arc = utask[t].arc
      BY <1>2, UMoveOn DEF UPcs
    <2>2. RowFits(UTo(utask[t], "finclean"), used')
      BY <1>1, <1>2, <2>1 DEF RowFits, LockPcs, Holding
    <2>3. UTo(utask[t], "finclean").pc \in Holding
      BY <2>1 DEF Holding
    <2>4. AllFit' /\ AllApart' /\ Spools' /\ utask' \in [UTasks -> UTaskRows]
      BY <1>1, <1>2, <1>6, <2>1, <2>2, <2>3, HolderGoesOn, HandlerMoves DEF UNLOCKS
    <2>5. UState'
      BY <1>1, <1>2, <1>6, <2>4 DEF LogInv, UState, svars, UNLOCKS
    <2>6. Log!Store(u)
      BY <1>1, <1>2, <1>6 DEF Log!Store, RowFits, svars
    <2> QED BY <1>2, <1>4, <2>4, <2>5, <2>6 DEF LogStep, LogInv, Log!LNext
  <1> QED BY <1>5, <1>6 DEF TusFinishPut, UTo

LEMMA DropIsClose ==
    ASSUME NEW u \in UKeys, DropSession(u)
    PROVE  [Log!LNext]_(Log!lvars)
  <1>1. Log!Close(u)
    BY DEF DropSession, Log!Close
  <1> QED BY <1>1 DEF Log!LNext

LEMMA FinishCleanStep ==
    ASSUME LogInv, NEW t \in UTasks, TusFinishClean(t) \/ TusDrop(t)
    PROVE  LogStep
  <1>1. DropSession(utask[t].k) /\ UReturn(t) /\ utask[t].pc # "idle"
    BY DEF TusFinishClean, TusDrop, UAt
  <1>2. utask[t].k \in UKeys
    BY <1>1, Started
  <1>3. FBase' /\ used \subseteq used'
    <2>1. CASE TusDrop(t)
      BY <2>1, StillFiles DEF TusDrop, LogInv
    <2>2. CASE TusFinishClean(t)
      <3>1. /\ UNCHANGED <<frow, fobj, tier, page, ftask, used, asked, crossed, topTier>> /\ FBase
            /\ acked' \subseteq FKeys
        BY <1>2, <2>2 DEF TusFinishClean, LogInv, FBase, FTypeOK, FKeys
      <3>2. UsedKeys'
        BY <3>1 DEF FBase, UsedKeys
      <3> QED BY <3>1, <3>2, StillBase DEF FBase, FTypeOK
    <2> QED BY <2>1, <2>2
  <1> QED BY <1>1, <1>2, <1>3, Dropped, DropIsClose DEF LogStep

LEMMA ClockStep ==
    ASSUME LogInv, NEW u \in UKeys, TusExpire(u) \/ SweepTenant(u)
    PROVE  LogStep
  <1>1. FBase' /\ used' = used
    BY StillFiles DEF TusExpire, SweepTenant, LogInv
  <1>2. CASE TusExpire(u)
    <2>1. UNCHANGED <<sess, spool, spooled, arc, arcs, utask, stored>> /\ lapsed' \subseteq UKeys
      BY <1>2 DEF TusExpire, UNLOCKS, LogInv, UState
    <2> QED BY <1>1, <2>1, FilesMove, Stutters DEF LogStep
  <1>3. CASE SweepTenant(u)
    BY <1>1, <1>3, Dropped, DropIsClose DEF SweepTenant, LogStep
  <1> QED BY <1>2, <1>3

LEMMA CrashStep ==
    ASSUME LogInv, UCrash
    PROVE  LogStep
  <1>1. FBase' /\ used \subseteq used'
    BY FileRest DEF UCrash, LogInv
  <1>2. /\ UNCHANGED <<arcs, sess, lapsed, spool, spooled, stored>>
        /\ utask' \in [UTasks -> UTaskRows] /\ \A t \in UTasks : utask'[t] = UIdle
        /\ arc' \in [UKeys -> 0 .. MaxArc]
    BY IdleRows, UploadAssumption DEF UCrash, svars
  <1>3. UState'
    BY <1>2 DEF LogInv, UState
  <1>4. AllFit' /\ AllApart'
    BY <1>2, IdleFitsNext DEF AllFit, AllApart
  <1>5. Spools'
    BY <1>1, <1>2 DEF LogInv, Spools
  <1> QED BY <1>1, <1>2, <1>3, <1>4, <1>5, Stutters DEF LogStep, LogInv

LEMMA LogInitial == UInit => LogInv /\ Log!LInit
  <1> SUFFICES ASSUME UInit PROVE LogInv /\ Log!LInit
    OBVIOUS
  <1>1. FBase
    BY FileBase DEF UInit
  <1>2. utask \in [UTasks -> UTaskRows] /\ \A t \in UTasks : utask[t] = UIdle
    BY IdleRows DEF UInit
  <1>3. <<>> \in Seq(1 .. Total) /\ 0 \in 0 .. MaxArc
    BY UploadAssumption
  <1>4. UState
    BY <1>2, <1>3 DEF UInit, UState
  <1>5. AllFit /\ AllApart
    BY <1>2, IdleFits DEF AllFit, AllApart
  <1>6. Spools
    BY DEF UInit, Spools
  <1> QED BY <1>1, <1>4, <1>5, <1>6 DEF LogInv, UInit, Log!LInit

LEMMA LogSteps == LogInv /\ [UNext]_upvars => LogStep
  <1> SUFFICES ASSUME LogInv, [UNext]_upvars PROVE LogStep
    OBVIOUS
  <1>1. ASSUME NEW t \in UTasks, TusStep(t) PROVE LogStep
    BY <1>1, CreateStep, OpenStep, PatchStep, TokenLockStep, LockStep, CheckStep, AppendStep,
       FinishRowStep, FinishPutStep, FinishCleanStep, TerminateStep DEF TusStep
  <1>2. ASSUME UNCHANGED uvars, FBase', used \subseteq used' PROVE LogStep
    <2>1. UNCHANGED <<sess, lapsed, spool, spooled, arc, arcs, utask, stored>>
      BY <1>2 DEF uvars, svars
    <2>2. lapsed' \subseteq UKeys
      BY <2>1 DEF LogInv, UState
    <2> QED BY <1>2, <2>1, <2>2, FilesMove, Stutters DEF LogStep
  <1>3. ASSUME NEW t \in FTasks, FStep(t), UNCHANGED uvars PROVE LogStep
    BY <1>2, <1>3, FileStepTypes DEF LogInv
  <1>4. ASSUME NEW k \in AKeys, ReconcileDeleteObject(k) \/ ReconcileDeleteRow(k), UNCHANGED uvars
        PROVE  LogStep
    BY <1>2, <1>4, FileRest DEF LogInv
  <1>5. ASSUME NEW n \in 1 .. MaxTier, SetTier(n), UNCHANGED uvars PROVE LogStep
    BY <1>2, <1>5, FileRest DEF LogInv
  <1>6. CASE UNCHANGED upvars
    <2>1. UNFILES /\ UNCHANGED uvars
      BY <1>6 DEF upvars, UNFILES
    <2> QED BY <1>2, <2>1, StillFiles DEF LogInv
  <1> QED BY <1>1, <1>3, <1>4, <1>5, <1>6, ClockStep, CrashStep DEF UNext

(* The state keeps its types, however many handlers and uploads there are. *)
THEOREM UploadTypes == USpec => []UTypeOK
  <1>1. UInit => LogInv
    BY LogInitial
  <1>2. LogInv /\ [UNext]_upvars => LogInv'
    BY LogSteps DEF LogStep
  <1>3. LogInv => UTypeOK
    BY DEF LogInv, FBase, UState, UTypeOK
  <1> QED BY <1>1, <1>2, <1>3, PTL DEF USpec

(* Repeated, raced and cut-off PATCH requests, terminations, the janitor   *)
(* and crashes implement UploadLog: under the per-token lock bytes are     *)
(* accepted in order and once, and only a complete file is stored.         *)
THEOREM UploadsImplementLog == USpec => LogRefined
  <1>1. UInit => LogInv /\ Log!LInit
    BY LogInitial
  <1>2. LogInv /\ [UNext]_upvars => LogInv' /\ [Log!LNext]_(Log!lvars)
    BY LogSteps DEF LogStep
  <1> QED BY <1>1, <1>2, PTL DEF USpec, LogRefined, Log!LSpec

----------------------------------------------------------------------------
(* The quota.  Every tier a handler read is at most the largest the tenant *)
(* had, and a row that is paid for is added by a writer closure that has   *)
(* just checked the usage against such a tier.                             *)
Paid == {k \in TenantKeys : frow[k] # "none"}
Tiers ==
    /\ tier <= topTier
    /\ \A t \in FTasks : ftask[t].tier <= topTier
    /\ \A t \in UTasks : utask[t].tier <= topTier
QuotaInv == LogInv /\ Tiers /\ QuotaHeld

LEMMA Times ==
    ASSUME NEW a \in Nat, NEW b \in Nat, NEW c \in Nat, a <= b
    PROVE  a * c <= b * c /\ c * a <= c * b
  OBVIOUS
LEMMA Product == ASSUME NEW a \in Nat, NEW b \in Nat PROVE a * b \in Nat
  OBVIOUS

LEMMA OneMore ==
    ASSUME NEW a \in Nat, NEW c \in Nat
    PROVE  a * (c + 1) = a * c + a
  OBVIOUS

LEMMA PaidFinite ==
    ASSUME LogInv
    PROVE  IsFiniteSet(Paid) /\ Cardinality(Paid) \in Nat /\ UsageOnConn = Total * Cardinality(Paid)
  <1>1. IsFiniteSet(TenantKeys)
    BY FileAssumption, FS_Union DEF TenantKeys
  <1>2. IsFiniteSet(Paid)
    BY <1>1, FS_Subset DEF Paid
  <1> QED BY <1>2, FS_CardinalityType DEF UsageOnConn, Paid

(* Rows go, or one comes within the tier that was checked. *)
PaidStep ==
    \/ Paid' \subseteq Paid /\ topTier <= topTier'
    \/ \E k \in TenantKeys, n \in 1 .. MaxTier :
          /\ k \notin Paid /\ Paid' = Paid \cup {k} /\ n <= topTier
          /\ CheckTenantQuota(Total, n) /\ topTier' = topTier

LEMMA QuotaKept ==
    ASSUME LogInv, LogInv', QuotaHeld, PaidStep
    PROVE  QuotaHeld'
  <1>1. /\ IsFiniteSet(Paid) /\ Cardinality(Paid) \in Nat
        /\ UsageOnConn = Total * Cardinality(Paid)
    BY PaidFinite
  <1>2. UsageOnConn' = Total * Cardinality(Paid')
    BY DEF UsageOnConn, Paid
  <1>3. topTier \in Nat /\ topTier' \in Nat /\ TierBytes \in Nat /\ Total \in Nat
    BY FileAssumption DEF LogInv, FBase, FTypeOK
  <1>4. CASE Paid' \subseteq Paid /\ topTier <= topTier'
    <2>1. Cardinality(Paid') <= Cardinality(Paid) /\ Cardinality(Paid') \in Nat
      BY <1>1, <1>4, FS_Subset, FS_CardinalityType
    <2>2. Total * Cardinality(Paid') <= Total * Cardinality(Paid)
      BY <1>1, <1>3, <2>1, Times
    <2>3. topTier * TierBytes <= topTier' * TierBytes
      BY <1>3, <1>4, Times
    <2>4. /\ Total * Cardinality(Paid') \in Nat /\ Total * Cardinality(Paid) \in Nat
          /\ topTier * TierBytes \in Nat /\ topTier' * TierBytes \in Nat
      BY <1>1, <1>3, <2>1, Product
    <2> QED BY <1>1, <1>2, <2>2, <2>3, <2>4 DEF QuotaHeld
  <1>5. ASSUME NEW k \in TenantKeys, NEW n \in 1 .. MaxTier, k \notin Paid, Paid' = Paid \cup {k},
               n <= topTier, CheckTenantQuota(Total, n), topTier' = topTier
        PROVE  QuotaHeld'
    <2>1. Cardinality(Paid') = Cardinality(Paid) + 1
      BY <1>1, <1>5, FS_AddElement
    <2>2. Total * Cardinality(Paid') = Total * Cardinality(Paid) + Total
      BY <1>1, <1>3, <2>1, OneMore
    <2>3. n \in Nat /\ n * TierBytes <= topTier * TierBytes
      BY <1>3, <1>5, Times
    <2>4. Total * Cardinality(Paid) + Total <= n * TierBytes
      BY <1>1, <1>5 DEF CheckTenantQuota
    <2>5. Total * Cardinality(Paid) + Total \in Nat /\ n * TierBytes \in Nat /\ topTier * TierBytes \in Nat
      BY <1>1, <1>3, <2>3
    <2> QED BY <1>2, <1>5, <2>2, <2>3, <2>4, <2>5 DEF QuotaHeld
  <1> QED BY <1>4, <1>5 DEF PaidStep

(* The tier of a handler that moves was known before. *)
TierStep(t) ==
    /\ tier' = tier /\ topTier' = topTier /\ utask' = utask
    /\ \E r \in FTaskRows : FGoto(t, r) /\ (r.tier = 1 \/ r.tier = tier \/ r.tier = ftask[t].tier)

LEMMA FileTiers ==
    ASSUME QuotaInv, NEW t \in FTasks, FStep(t), UNCHANGED uvars
    PROVE  TierStep(t)
  <1>t. /\ ftask[t] \in FTaskRows /\ tier \in 1 .. MaxTier /\ FIdle \in FTaskRows /\ FIdle.tier = 1
        /\ utask' = utask /\ TKeys \subseteq FKeys /\ AKeys \subseteq FKeys
        /\ frow \in [FKeys -> Buckets \cup {"none"}]
    BY IdleRows, IdleFields DEF QuotaInv, LogInv, FBase, FTypeOK, uvars, FKeys
  <1>m. ASSUME NEW pc \in FPcs PROVE To(ftask[t], pc) \in FTaskRows /\ To(ftask[t], pc).tier = ftask[t].tier
    BY <1>t, MoveOn
  <1>1. ASSUME NEW k \in TKeys, NEW v \in Buckets, FGoto(t, InsertRow(k, v, tier)),
               tier' = tier, topTier' = topTier
        PROVE  TierStep(t)
    <2>1. InsertRow(k, v, tier) \in FTaskRows /\ InsertRow(k, v, tier).tier = tier
      BY <1>t, InsertFields
    <2> QED BY <1>1, <1>t, <2>1 DEF TierStep
  <1>2. ASSUME NEW k \in TKeys, NEW c, NEW w \in Buckets \cup {"omitted"}, NEW g,
               UploadStart(t, k, c, w, g)
        PROVE  TierStep(t)
    <2>1. UploadVisibility(c, w, "public", g) \subseteq Buckets
      BY UploadVisible DEF Buckets
    <2>2. PICK v \in Buckets : FGoto(t, InsertRow(k, v, tier))
      BY <1>2, <2>1 DEF UploadStart, InsertRow
    <2>3. tier' = tier /\ topTier' = topTier
      BY <1>2 DEF UploadStart, UNCHECKS
    <2> QED BY <1>1, <2>2, <2>3
  <1>3. ASSUME NEW k \in TKeys, NEW w \in Buckets, NEW g,
               PutFileRaw(t, k, w) \/ EnforcedPutFile(t, k, w, g)
        PROVE  TierStep(t)
    <2>1. UploadVisibility("user", w, "private", g) \subseteq Buckets
      BY UploadVisible DEF Buckets
    <2>2. PICK v \in Buckets : PutFileAs(t, k, v)
      BY <1>3, <2>1 DEF PutFileRaw, EnforcedPutFile
    <2>3. FGoto(t, InsertRow(k, v, tier)) /\ tier' = tier /\ topTier' = topTier
      BY <2>2 DEF PutFileAs, InsertRow
    <2> QED BY <1>1, <2>3
  <1>4. ASSUME NEW k \in AKeys, NEW v \in Buckets, AdminUpload(t, k, v)
        PROVE  TierStep(t)
    <2>1. PutRow(k, v) \in FTaskRows /\ PutRow(k, v).tier = 1
      BY <1>t, PutFields
    <2>2. FGoto(t, PutRow(k, v)) /\ tier' = tier /\ topTier' = topTier
      BY <1>4 DEF AdminUpload, PutRow, UNCHECKS
    <2> QED BY <1>t, <2>1, <2>2 DEF TierStep
  <1>5. ASSUME NEW pc \in FPcs, FGoto(t, To(ftask[t], pc)) \/ FGoto(t, FIdle),
               tier' = tier, topTier' = topTier
        PROVE  TierStep(t)
    BY <1>5, <1>t, <1>m DEF TierStep
  <1>6. ASSUME NEW k \in FKeys, DeleteStart(t, k) \/ AdminDelete(t, k) PROVE TierStep(t)
    <2>1. PICK b \in Buckets : FGoto(t, DeletionRow(k, b))
      BY <1>6, <1>t DEF DeleteStart, AdminDelete, Buckets, DeletionRow
    <2>2. DeletionRow(k, b) \in FTaskRows /\ DeletionRow(k, b).tier = 1
      BY DeletionFields
    <2>3. tier' = tier /\ topTier' = topTier
      BY <1>6 DEF DeleteStart, AdminDelete
    <2> QED BY <1>t, <2>1, <2>2, <2>3 DEF TierStep
  <1>7. ASSUME NEW k \in FKeys, NEW v \in Buckets, VisibilityRead(t, k, v) PROVE TierStep(t)
    <2>1. frow[k] \in Buckets
      BY <1>7, <1>t DEF VisibilityRead
    <2>2. MoveRow(k, frow[k], v) \in FTaskRows /\ MoveRow(k, frow[k], v).tier = 1
      BY <2>1, MoveFields
    <2>3. FGoto(t, MoveRow(k, frow[k], v)) /\ tier' = tier /\ topTier' = topTier
      BY <1>7 DEF VisibilityRead, MoveRow
    <2> QED BY <1>t, <2>2, <2>3 DEF TierStep
  <1>8. ASSUME ReconcileList(t) PROVE TierStep(t)
    <2>1. PICK s \in SUBSET AKeys : FGoto(t, PageRow(s))
      BY <1>8 DEF ReconcileList, IsAdminLevelKey, PageRow
    <2>2. PageRow(s) \in FTaskRows /\ PageRow(s).tier = 1
      BY PageFields
    <2>3. tier' = tier /\ topTier' = topTier
      BY <1>8 DEF ReconcileList, UNHIST, fhist
    <2> QED BY <1>t, <2>1, <2>2, <2>3 DEF TierStep
  <1>9. ASSUME \/ UploadInsert(t) \/ UploadPut(t) \/ UploadUndo(t) \/ DeleteObject(t) \/ DeleteRow(t)
               \/ VisibilityGet(t) \/ VisibilityCopy(t) \/ VisibilityUpdate(t)
               \/ VisibilityDeleteOld(t) \/ ReconcileRows(t)
        PROVE  TierStep(t)
    <2>1. tier' = tier /\ topTier' = topTier
      BY <1>9 DEF UploadInsert, UploadPut, UploadUndo, DeleteObject, DeleteRow, VisibilityGet,
         VisibilityCopy, VisibilityUpdate, VisibilityDeleteOld, ReconcileRows, UNHIST, fhist
    <2>2. \E pc \in FPcs : FGoto(t, To(ftask[t], pc)) \/ FGoto(t, FIdle)
      BY <1>9 DEF UploadInsert, UploadPut, UploadUndo, DeleteObject, DeleteRow, VisibilityGet,
         VisibilityCopy, VisibilityUpdate, VisibilityDeleteOld, ReconcileRows, FReturn, To, FPcs
    <2> QED BY <1>5, <2>1, <2>2
  <1> QED BY <1>2, <1>3, <1>4, <1>6, <1>7, <1>8, <1>9
      DEF FStep, McpSetFileVisibility, SetVisibility, McpDeleteFile, DeleteFileTool

LEMMA FilePaid ==
    ASSUME QuotaInv, NEW t \in FTasks, FStep(t), topTier' = topTier
    PROVE  PaidStep
  <1>t. /\ frow \in [FKeys -> Buckets \cup {"none"}] /\ ftask[t] \in FTaskRows /\ RowKeyed(ftask[t], used, asked)
        /\ ftask[t].tier <= topTier /\ topTier \in 1 .. MaxTier
    BY DEF QuotaInv, LogInv, FBase, FTypeOK, Keyed, Tiers
  <1>1. ASSUME UNCHANGED frow PROVE PaidStep
    BY <1>1, <1>t DEF PaidStep, Paid
  <1>2. ASSUME NEW k \in AKeys, NEW v \in Buckets, AdminUpload(t, k, v) PROVE PaidStep
    <2>1. frow' = [frow EXCEPT ![k] = v] /\ k \notin TenantKeys /\ TenantKeys \subseteq FKeys
      BY <1>2, FileAssumption DEF AdminUpload, TenantKeys, FKeys
    <2>2. Paid' \subseteq Paid
      BY <1>t, <2>1 DEF Paid
    <2> QED BY <2>2, <1>t DEF PaidStep
  <1>3. ASSUME UploadInsert(t) PROVE PaidStep
    <2>1. CASE UNCHANGED frow
      BY <1>1, <2>1
    <2>2. CASE /\ CheckTenantQuota(Total, ftask[t].tier) /\ frow[ftask[t].k] = "none"
               /\ frow' = [frow EXCEPT ![ftask[t].k] = ftask[t].vis]
      <3>1. /\ ftask[t].k \in TenantKeys /\ ftask[t].k \in FKeys /\ TenantKeys \subseteq FKeys
            /\ ftask[t].vis \in Buckets /\ ftask[t].vis # "none" /\ ftask[t].tier \in 1 .. MaxTier
        BY <1>3, <1>t DEF UploadInsert, FAt, RowKeyed, TenantKeys, FKeys, FTaskRows, Buckets
      <3>2. ftask[t].k \notin Paid /\ Paid' = Paid \cup {ftask[t].k}
        BY <1>t, <2>2, <3>1 DEF Paid
      <3> QED BY <1>t, <2>2, <3>1, <3>2 DEF PaidStep
    <2> QED BY <1>3, <2>1, <2>2 DEF UploadInsert
  <1>4. ASSUME UploadUndo(t) \/ DeleteRow(t) \/ VisibilityUpdate(t) PROVE PaidStep
    <2>1. \/ frow' = [frow EXCEPT ![ftask[t].k] = "none"]
          \/ frow' = [frow EXCEPT ![ftask[t].k] = IF @ = "none" THEN @ ELSE ftask[t].vis]
      BY <1>4 DEF UploadUndo, DeleteRow, VisibilityUpdate
    <2>2. TenantKeys \subseteq FKeys
      BY DEF TenantKeys, FKeys
    <2>3. Paid' \subseteq Paid
      BY <1>t, <2>1, <2>2 DEF Paid
    <2> QED BY <2>3, <1>t DEF PaidStep
  <1>5. ASSUME NEW k \in FKeys, DeleteStart(t, k) \/ AdminDelete(t, k) PROVE PaidStep
    BY <1>1, <1>5 DEF DeleteStart, AdminDelete
  <1>6. ASSUME NEW k \in FKeys, NEW v \in Buckets, VisibilityRead(t, k, v) PROVE PaidStep
    BY <1>1, <1>6 DEF VisibilityRead
  <1>7. ASSUME NEW k, NEW c, NEW w, NEW g,
               UploadStart(t, k, c, w, g) \/ PutFileRaw(t, k, w) \/ EnforcedPutFile(t, k, w, g)
        PROVE  PaidStep
    BY <1>1, <1>7 DEF UploadStart, PutFileRaw, EnforcedPutFile, PutFileAs
  <1>8. ASSUME \/ UploadPut(t) \/ DeleteObject(t) \/ VisibilityGet(t) \/ VisibilityCopy(t)
               \/ VisibilityDeleteOld(t) \/ ReconcileList(t) \/ ReconcileRows(t)
        PROVE  PaidStep
    BY <1>1, <1>8 DEF UploadPut, DeleteObject, VisibilityGet, VisibilityCopy, VisibilityDeleteOld,
       ReconcileList, ReconcileRows
  <1> QED BY <1>2, <1>3, <1>4, <1>5, <1>6, <1>7, <1>8
      DEF FStep, McpSetFileVisibility, SetVisibility, McpDeleteFile, DeleteFileTool

(* The same of the upload handlers. *)
LEMMA UploadTiers ==
    ASSUME QuotaInv, NEW t \in UTasks, TusStep(t)
    PROVE  /\ tier' = tier /\ topTier' = topTier /\ ftask' = ftask
           /\ \E r \in UTaskRows : UGoto(t, r) /\ (r.tier = 1 \/ r.tier = tier \/ r.tier = utask[t].tier)
  <1> DEFINE Moved(r) == UGoto(t, r) /\ (r.tier = 1 \/ r.tier = tier \/ r.tier = utask[t].tier)
  <1>t. /\ utask[t] \in UTaskRows /\ tier \in 1 .. MaxTier /\ UIdle \in UTaskRows /\ UIdle.tier = 1
        /\ sess \in [UKeys -> Buckets \cup {"none"}] /\ arc \in [UKeys -> 0 .. MaxArc]
        /\ arcs \in [UKeys -> 0 .. MaxArc]
    BY IdleRows, IdleFields DEF QuotaInv, LogInv, FBase, FTypeOK, UState
  <1>i. ASSUME UReturn(t) PROVE \E r \in UTaskRows : Moved(r)
    BY <1>i, <1>t DEF UReturn
  <1>m. ASSUME NEW pc \in UPcs, UGoto(t, UTo(utask[t], pc)) PROVE \E r \in UTaskRows : Moved(r)
    BY <1>m, <1>t, UMoveOn
  <1>f. ASSUME UGoto(t, FinishRow(utask[t], tier)) PROVE \E r \in UTaskRows : Moved(r)
    BY <1>f, <1>t, FinishFields
  <1>1. tier' = tier /\ topTier' = topTier /\ ftask' = ftask
    BY DEF TusStep, TusCreate, TusOpen, TusPatch, TokenLock, TusLock, TusCheck, TusAppend, TusFinishRow,
       TusFinishPut, TusFinishClean, TusTerminate, TusDrop, UNFILES, fvars, fhist, UNCHECKS
  <1>2. ASSUME NEW u \in UKeys, NEW c, NEW w \in Buckets \cup {"omitted"}, NEW g, TusCreate(t, u, c, w, g)
        PROVE  \E r \in UTaskRows : Moved(r)
    <2>1. UploadVisibility(c, w, "private", g) \subseteq Buckets
      BY UploadVisible DEF Buckets
    <2>2. PICK v \in Buckets : UGoto(t, OpenRow(u, v))
      BY <1>2, <2>1 DEF TusCreate, OpenRow
    <2> QED BY <2>2, OpenFields
  <1>3. ASSUME NEW u \in UKeys, NEW o \in Sizes, NEW n \in 1 .. Total, TusPatch(t, u, o, n)
        PROVE  \E r \in UTaskRows : Moved(r)
    <2>1. n \in Sizes /\ sess[u] \in Buckets /\ UGoto(t, PatchRow(u, o, n, sess[u]))
      BY <1>3, <1>t, FileAssumption DEF Sizes, TusPatch, PatchRow
    <2> QED BY <2>1, PatchFields
  <1>4. ASSUME NEW u \in UKeys, TusTerminate(t, u) PROVE \E r \in UTaskRows : Moved(r)
    <2>1. UGoto(t, DropRow(u))
      BY <1>4 DEF TusTerminate, DropRow
    <2> QED BY <2>1, DropFields
  <1>5. ASSUME TokenLock(t) PROVE \E r \in UTaskRows : Moved(r)
    <2>1. utask[t].k \in UKeys
      BY <1>5, Started DEF QuotaInv, TokenLock, UAt
    <2>2. PICK a \in 0 .. MaxArc : UGoto(t, LockRow(utask[t], a))
      <3>1. arc[utask[t].k] \in 0 .. MaxArc /\ arcs[utask[t].k] \in 0 .. MaxArc
        BY <1>t, <2>1
      <3>2. arcs[utask[t].k] < MaxArc => arcs[utask[t].k] + 1 \in 0 .. MaxArc
        BY <3>1, UploadAssumption
      <3> QED BY <1>5, <3>1, <3>2 DEF TokenLock, LockRow
    <2> QED BY <1>t, <2>2, LockFields
  <1>6. ASSUME \/ TusOpen(t) \/ TusLock(t) \/ TusCheck(t) \/ TusAppend(t) \/ TusFinishRow(t)
               \/ TusFinishPut(t) \/ TusFinishClean(t) \/ TusDrop(t)
        PROVE  \E r \in UTaskRows : Moved(r)
    <2>1. \/ UReturn(t) \/ UGoto(t, FinishRow(utask[t], tier))
          \/ \E pc \in {"check", "append", "finput", "finclean"} : UGoto(t, UTo(utask[t], pc))
      BY <1>6 DEF TusOpen, TusLock, TusCheck, TusAppend, TusFinishRow, TusFinishPut, TusFinishClean,
         TusDrop, FinishRow, UTo
    <2>2. {"check", "append", "finput", "finclean"} \subseteq UPcs
      BY DEF UPcs
    <2> QED BY <1>i, <1>m, <1>f, <2>1, <2>2
  <1>7. \E r \in UTaskRows : Moved(r)
    BY <1>2, <1>3, <1>4, <1>5, <1>6 DEF TusStep
  <1> QED BY <1>1, <1>7

LEMMA UploadPaid ==
    ASSUME QuotaInv, NEW t \in UTasks, TusStep(t), topTier' = topTier
    PROVE  PaidStep
  <1>t. frow \in [FKeys -> Buckets \cup {"none"}] /\ utask[t].tier <= topTier /\ topTier \in 1 .. MaxTier
    BY DEF QuotaInv, LogInv, FBase, FTypeOK, Tiers
  <1>1. CASE UNCHANGED frow
    BY <1>1, <1>t DEF PaidStep, Paid
  <1>2. CASE TusFinishRow(t)
    <2> DEFINE u == utask[t].k
    <2>1. /\ u \in TenantKeys /\ u \in FKeys /\ TenantKeys \subseteq FKeys /\ utask[t].tier \in 1 .. MaxTier
          /\ utask[t].vis \in Buckets
      BY <1>2, Started DEF QuotaInv, TusFinishRow, UAt, TenantKeys, FKeys, UTaskRows
    <2>2. CASE frow[u] # "none" /\ frow' = [frow EXCEPT ![u] = IF @ = "none" THEN utask[t].vis ELSE @]
      <3>1. Paid' \subseteq Paid
        BY <1>t, <2>1, <2>2 DEF Paid
      <3> QED BY <1>t, <3>1 DEF PaidStep
    <2>3. CASE /\ frow[u] = "none" /\ CheckTenantQuota(Total, utask[t].tier)
               /\ frow' = [frow EXCEPT ![u] = IF @ = "none" THEN utask[t].vis ELSE @]
      <3>1. u \notin Paid /\ Paid' = Paid \cup {u}
        BY <1>t, <2>1, <2>3 DEF Paid, Buckets
      <3> QED BY <1>t, <2>1, <2>3, <3>1 DEF PaidStep
    <2> QED BY <1>1, <1>2, <2>2, <2>3 DEF TusFinishRow
  <1>3. TusFinishRow(t) \/ UNCHANGED frow
    BY DEF TusStep, TusCreate, TusOpen, TusPatch, TokenLock, TusLock, TusCheck, TusAppend,
       TusFinishPut, TusFinishClean, TusTerminate, TusDrop, UNFILES, fvars
  <1> QED BY <1>1, <1>2, <1>3

LEMMA QuotaSteps == QuotaInv /\ [UNext]_upvars => QuotaInv'
  <1> SUFFICES ASSUME QuotaInv, [UNext]_upvars PROVE QuotaInv'
    OBVIOUS
  <1>1. LogInv /\ LogInv' /\ Tiers /\ QuotaHeld
    BY LogSteps DEF QuotaInv, LogStep
  <1>t. /\ tier \in 1 .. MaxTier /\ topTier \in 1 .. MaxTier /\ 1 <= topTier
        /\ ftask \in [FTasks -> FTaskRows] /\ utask \in [UTasks -> UTaskRows]
        /\ frow \in [FKeys -> Buckets \cup {"none"}]
    BY <1>1 DEF LogInv, FBase, FTypeOK, UState
  <1>2. ASSUME NEW t \in FTasks, FStep(t), UNCHANGED uvars PROVE QuotaInv'
    <2>1. TierStep(t)
      BY <1>2, FileTiers
    <2>2. PICK r \in FTaskRows : FGoto(t, r) /\ (r.tier = 1 \/ r.tier = tier \/ r.tier = ftask[t].tier)
      BY <2>1 DEF TierStep
    <2>3. r.tier <= topTier
      BY <1>1, <1>t, <2>2 DEF Tiers
    <2>4. Tiers'
      BY <1>1, <1>t, <2>1, <2>2, <2>3 DEF Tiers, TierStep, FGoto
    <2>5. PaidStep
      BY <1>2, <2>1, FilePaid DEF TierStep
    <2> QED BY <1>1, <2>4, <2>5, QuotaKept DEF QuotaInv
  <1>3. ASSUME NEW t \in UTasks, TusStep(t) PROVE QuotaInv'
    <2>1. tier' = tier /\ topTier' = topTier /\ ftask' = ftask
      BY <1>3, UploadTiers
    <2>2. PICK r \in UTaskRows : UGoto(t, r) /\ (r.tier = 1 \/ r.tier = tier \/ r.tier = utask[t].tier)
      BY <1>3, UploadTiers
    <2>3. r.tier <= topTier
      BY <1>1, <1>t, <2>2 DEF Tiers
    <2>4. Tiers'
      BY <1>1, <1>t, <2>1, <2>2, <2>3 DEF Tiers, UGoto
    <2>5. PaidStep
      BY <1>3, <2>1, UploadPaid
    <2> QED BY <1>1, <2>4, <2>5, QuotaKept DEF QuotaInv
  <1>4. ASSUME UNCHANGED <<tier, topTier, ftask, utask>>, Paid' \subseteq Paid PROVE QuotaInv'
    <2>1. Tiers'
      BY <1>1, <1>4 DEF Tiers
    <2>2. PaidStep
      BY <1>t, <1>4 DEF PaidStep
    <2> QED BY <1>1, <2>1, <2>2, QuotaKept DEF QuotaInv
  <1>5. ASSUME NEW u \in UKeys, TusExpire(u) \/ SweepTenant(u) PROVE QuotaInv'
    BY <1>4, <1>5 DEF TusExpire, SweepTenant, UNFILES, fvars, fhist, Paid
  <1>6. ASSUME NEW k \in AKeys, ReconcileDeleteObject(k) \/ ReconcileDeleteRow(k), UNCHANGED uvars
        PROVE  QuotaInv'
    <2>1. frow' = frow \/ frow' = [frow EXCEPT ![k] = "none"]
      BY <1>6 DEF ReconcileDeleteObject, ReconcileDeleteRow
    <2>2. TenantKeys \subseteq FKeys
      BY DEF TenantKeys, FKeys
    <2>3. Paid' \subseteq Paid
      BY <1>t, <2>1, <2>2 DEF Paid
    <2> QED BY <1>4, <1>6, <2>3 DEF ReconcileDeleteObject, ReconcileDeleteRow, UNHIST, fhist, uvars
  <1>7. ASSUME NEW n \in 1 .. MaxTier, SetTier(n), UNCHANGED uvars PROVE QuotaInv'
    <2>1. /\ tier' = n /\ topTier <= topTier' /\ n <= topTier' /\ topTier' \in 1 .. MaxTier
          /\ UNCHANGED <<frow, ftask, utask>>
      BY <1>7, <1>t DEF SetTier, uvars
    <2>2. \A t \in FTasks : ftask[t].tier \in 1 .. MaxTier
      BY <1>t DEF FTaskRows
    <2>3. \A t \in UTasks : utask[t].tier \in 1 .. MaxTier
      BY <1>t DEF UTaskRows
    <2>4. Tiers'
      BY <1>1, <1>t, <2>1, <2>2, <2>3 DEF Tiers
    <2>5. PaidStep
      BY <2>1 DEF PaidStep, Paid
    <2> QED BY <1>1, <2>4, <2>5, QuotaKept DEF QuotaInv
  <1>8. ASSUME UCrash PROVE QuotaInv'
    <2>1. /\ UNCHANGED <<frow, tier, topTier>> /\ \A t \in FTasks : ftask'[t] = FIdle
          /\ \A t \in UTasks : utask'[t] = UIdle
      BY <1>8 DEF UCrash, FCrash, UNHIST, fhist
    <2>2. Tiers'
      BY <1>1, <1>t, <2>1, IdleFields DEF Tiers
    <2>3. PaidStep
      BY <1>t, <2>1 DEF PaidStep, Paid
    <2> QED BY <1>1, <2>2, <2>3, QuotaKept DEF QuotaInv
  <1>9. CASE UNCHANGED upvars
    BY <1>4, <1>9 DEF upvars, uvars, fvars, fhist, Paid
  <1> QED BY <1>2, <1>3, <1>5, <1>6, <1>7, <1>8, <1>9 DEF UNext

(* However uploads, finalizations and changes of the tier interleave, the  *)
(* rows a tenant pays for stay within the largest tier it ever had: the    *)
(* quota check and the INSERT are one writer closure, though the tier      *)
(* checked against was read before it.                                     *)
THEOREM QuotaIsHeld == USpec => []QuotaHeld
  <1>1. UInit => QuotaInv
    <2> SUFFICES ASSUME UInit PROVE QuotaInv
      OBVIOUS
    <2>1. LogInv
      BY LogInitial
    <2>2. Tiers
      BY IdleFields DEF UInit, FInit, Tiers
    <2>3. Paid = {}
      BY DEF UInit, FInit, Paid, TenantKeys, FKeys
    <2>4. UsageOnConn = Total * 0
      BY <2>1, <2>3, PaidFinite, FS_EmptySet
    <2>5. UsageOnConn = 0 /\ topTier * TierBytes \in Nat
      BY <2>4, FileAssumption DEF UInit, FInit
    <2> QED BY <2>1, <2>2, <2>5 DEF QuotaInv, QuotaHeld
  <1>2. QuotaInv => QuotaHeld
    BY DEF QuotaInv
  <1> QED BY <1>1, <1>2, QuotaSteps, PTL DEF USpec

----------------------------------------------------------------------------
(* Acknowledged files.  For a key that nobody asked to delete and no two   *)
(* handlers crossed on: one upload and one visibility change at a time,    *)
(* nothing is stored before the upload's own put, a visibility change      *)
(* removes the old object only when the row names the new one, and all     *)
(* handlers of a resumable upload write to the session's bucket.           *)
Good(k) == k \notin asked /\ k \notin crossed
Mover(r, k) == r.k = k /\ r.pc \in MoverPcs
Uploader(r, k) == r.k = k /\ r.pc \in Uploading
Handles(r, u) == r.k = u /\ r.pc \notin {"idle", "drop"}
Session(u, v) ==
    /\ sess[u] \in {"none", v}
    /\ \A t \in UTasks : Handles(utask[t], u) => utask[t].vis = v

FileOK(r, k) ==
    /\ Uploader(r, k) => k \notin acked
    /\ r.k = k /\ r.pc = "insert" => fobj[k] = {} /\ frow[k] = "none"
    /\ r.k = k /\ r.pc = "put" => fobj[k] = {} /\ frow[k] \in {"none", r.vis}
    /\ r.k = k /\ r.pc = "copy" => r.from \in fobj[k]
    /\ r.k = k /\ r.pc = "update" => r.vis \in fobj[k]
    /\ r.k = k /\ r.pc = "delold" => r.vis \in fobj[k] /\ frow[k] \in {"none", r.vis}
    /\ Mover(r, k) /\ k \in UKeys => frow[k] # "none"
UpOK(r, k) ==
    /\ r.k = k /\ r.pc \in {"finput", "finclean"} => frow[k] # "none"
    /\ r.k = k /\ r.pc = "finclean" => frow[k] \in fobj[k]
Alone(k) ==
    \A s, t \in FTasks : s # t => /\ ~ (Uploader(ftask[s], k) /\ Uploader(ftask[t], k))
                                  /\ ~ (Mover(ftask[s], k) /\ Mover(ftask[t], k))
Served(k) ==
    /\ k \in acked => frow[k] = "none" \/ frow[k] \in fobj[k]
    /\ k \in UKeys /\ k \in acked => frow[k] # "none"
    /\ k \in UKeys => frow[k] = "none" \/ frow[k] \in fobj[k] \/ Session(k, frow[k])
KeyOK(k) ==
    /\ Alone(k) /\ Served(k)
    /\ \A t \in FTasks : FileOK(ftask[t], k)
    /\ \A t \in UTasks : UpOK(utask[t], k)

Sessions == \A u \in UKeys : \E v \in Buckets : Session(u, v)
(* What the reconcile page calls an orphan had its row before. *)
Orphans ==
    /\ \A k \in page.orphans : k \in used /\ frow[k] = "none"
    /\ \A t \in FTasks : ftask[t].seen \subseteq used
AckInv ==
    /\ LogInv /\ acked \subseteq used /\ Sessions /\ Orphans
    /\ \A k \in FKeys : Good(k) => KeyOK(k)

(* Nothing of the key changes but handlers that leave it. *)
LEMMA KeyMoves ==
    ASSUME NEW k \in FKeys, KeyOK(k), frow'[k] = frow[k], fobj'[k] = fobj[k],
           k \in acked' => k \in acked,
           \A t \in FTasks : ftask'[t] = ftask[t] \/ ftask'[t].pc = "idle" \/ ftask'[t].k # k,
           \A t \in UTasks : \/ utask'[t] = utask[t] \/ utask'[t].k # k
                             \/ utask'[t].pc \notin {"finput", "finclean"},
           k \in UKeys => frow[k] = "none" \/ \A v : Session(k, v) => Session(k, v)'
    PROVE  KeyOK(k)'
  <1>1. Alone(k)'
    BY DEF KeyOK, Alone, Uploader, Mover, Uploading, MoverPcs
  <1>2. Served(k)'
    <2>1. frow[k] = "none" => frow'[k] = "none"
      OBVIOUS
    <2>2. k \in UKeys /\ Session(k, frow[k]) => frow[k] = "none" \/ Session(k, frow[k])'
      <3>1. PICK v : v = frow[k]
        OBVIOUS
      <3>2. k \in UKeys /\ Session(k, v) => frow[k] = "none" \/ Session(k, v)'
        OBVIOUS
      <3>3. frow'[k] = v
        BY <3>1
      <3>4. Session(k, v)' => Session(k, frow[k])'
        BY <3>3 DEF Session
      <3> QED BY <3>1, <3>2, <3>4
    <2> QED BY <2>1, <2>2 DEF KeyOK, Served, Session
  <1>3. ASSUME NEW t \in FTasks PROVE FileOK(ftask[t], k)'
    <2>1. FileOK(ftask[t], k)
      BY DEF KeyOK
    <2>2. CASE ftask'[t].pc = "idle" \/ ftask'[t].k # k
      BY <2>2 DEF FileOK, Uploader, Mover, Uploading, MoverPcs
    <2>3. CASE ftask'[t] = ftask[t]
      BY <2>1, <2>3 DEF FileOK, Uploader, Mover
    <2> QED BY <2>2, <2>3
  <1>4. ASSUME NEW t \in UTasks PROVE UpOK(utask[t], k)'
    <2>1. UpOK(utask[t], k)
      BY DEF KeyOK
    <2> QED BY <2>1 DEF UpOK
  <1> QED BY <1>1, <1>2, <1>3, <1>4 DEF KeyOK


(* A handler other than the ones at work on the key. *)
Beside(p, q, k) ==
    /\ FileOK(q, k) /\ RowKeyed(q, used, asked)
    /\ ~ (Uploader(p, k) /\ Uploader(q, k)) /\ ~ (Mover(p, k) /\ Mover(q, k))

(* A file handler moves on the key. *)
LEMMA KeyTouched ==
    ASSUME AckInv, NEW k \in FKeys, KeyOK(k), NEW t \in FTasks, NEW p, p = ftask[t], NEW r, FGoto(t, r),
           UNCHANGED utask, Uploader(r, k) => Uploader(p, k) \/ k \notin used,
           Mover(r, k) => Mover(p, k) \/ ~ Moving(k),
           FileOK(r, k)', \A q : Beside(p, q, k) => FileOK(q, k)', Served(k)',
           \A q : UpOK(q, k) /\ (q.pc # "idle" => q.k \in UKeys) => UpOK(q, k)'
    PROVE  KeyOK(k)'
  <1>1. /\ ftask'[t] = r /\ \A s \in FTasks : s # t => ftask'[s] = ftask[s]
        /\ \A s \in FTasks : RowKeyed(ftask[s], used, asked)
    BY DEF AckInv, LogInv, FBase, FTypeOK, FGoto, Keyed
  <1>2. \A s \in FTasks : Uploader(ftask[s], k) => k \in used
    BY <1>1 DEF RowKeyed, Uploader
  <1>3. \A s \in FTasks : Mover(ftask[s], k) => Moving(k)
    BY DEF Mover, Moving, MoverPcs
  <1>4. Alone(k)'
    <2>1. Alone(k)
      BY DEF KeyOK
    <2> QED BY <1>1, <1>2, <1>3, <2>1 DEF Alone, Uploader, Mover
  <1>5. ASSUME NEW s \in FTasks PROVE FileOK(ftask[s], k)'
    <2>1. CASE s = t
      BY <1>1, <2>1 DEF FileOK, Uploader, Mover
    <2>2. CASE s # t
      <3>1. PICK q : q = ftask[s]
        OBVIOUS
      <3>2. Beside(p, q, k)
        BY <1>1, <2>2, <3>1 DEF KeyOK, Alone, Beside
      <3>3. FileOK(q, k)'
        BY <3>2
      <3>4. ftask'[s] = q
        BY <1>1, <2>2, <3>1
      <3> QED BY <3>3, <3>4 DEF FileOK, Uploader, Mover
    <2> QED BY <2>1, <2>2
  <1>6. ASSUME NEW s \in UTasks PROVE UpOK(utask[s], k)'
    <2>1. PICK q : q = utask[s]
      OBVIOUS
    <2>2. UpOK(q, k) /\ (q.pc # "idle" => q.k \in UKeys)
      BY <2>1 DEF KeyOK, AckInv, LogInv, AllFit, RowFits
    <2>3. UpOK(q, k)'
      BY <2>2
    <2>4. utask'[s] = q
      BY <2>1
    <2> QED BY <2>3, <2>4 DEF UpOK
  <1> QED BY <1>4, <1>5, <1>6 DEF KeyOK

(* What a handler carries past a step that leaves the key's files alone,   *)
(* or that only adds an object while no upload waits for its own put.      *)
LEMMA FileSame ==
    ASSUME NEW k, NEW q, FileOK(q, k), frow'[k] = frow[k], acked' = acked,
           \/ fobj'[k] = fobj[k]
           \/ fobj[k] \subseteq fobj'[k] /\ ~ (q.k = k /\ q.pc \in {"insert", "put"})
    PROVE  FileOK(q, k)'
  BY DEF FileOK, Uploader, Mover
LEMMA UpSame ==
    ASSUME NEW k, NEW q, UpOK(q, k), frow'[k] = frow[k], fobj[k] \subseteq fobj'[k]
    PROVE  UpOK(q, k)'
  BY DEF UpOK
LEMMA ServedSame ==
    ASSUME NEW k, Served(k), frow'[k] = frow[k], fobj[k] \subseteq fobj'[k], acked' = acked,
           UNCHANGED <<sess, utask>>
    PROVE  Served(k)'
  BY DEF Served, Session, Handles

(* A step of a file handler: the keys it works on, and the others. *)
LEMMA FileKeys ==
    ASSUME AckInv, NEW t \in FTasks, FStep(t), UNCHANGED uvars, NEW k \in FKeys, Good(k)'
    PROVE  KeyOK(k)'
  <1>t. /\ frow \in [FKeys -> Buckets \cup {"none"}] /\ fobj \in [FKeys -> SUBSET Buckets]
        /\ ftask[t] \in FTaskRows /\ RowKeyed(ftask[t], used, asked) /\ UsedKeys /\ acked \subseteq used
        /\ TKeys \cap UKeys = {} /\ AKeys \cap UKeys = {}
        /\ tier \in 1 .. MaxTier /\ TKeys \subseteq FKeys /\ AKeys \subseteq FKeys
    BY FileAssumption DEF AckInv, LogInv, FBase, FTypeOK, Keyed, FKeys
  <1>u. UNCHANGED <<sess, utask>>
    BY DEF uvars, svars
  <1>p. PICK p \in FTaskRows : p = ftask[t] /\ RowKeyed(p, used, asked)
    BY <1>t
  <1>f. p.vis \in Buckets /\ p.from \in Buckets
    BY <1>p DEF FTaskRows
  <1>g. ASSUME asked \subseteq asked', crossed \subseteq crossed' PROVE Good(k) /\ KeyOK(k)
    BY <1>g DEF Good, AckInv
  <1>o. ASSUME KeyOK(k), frow'[k] = frow[k], fobj'[k] = fobj[k], k \in acked' => k \in acked,
               NEW r, FGoto(t, r), r.k # k \/ r.pc = "idle"
        PROVE  KeyOK(k)'
    <2>1. \A s \in FTasks : ftask'[s] = ftask[s] \/ ftask'[s].pc = "idle" \/ ftask'[s].k # k
      BY <1>o DEF FGoto, AckInv, LogInv, FBase, FTypeOK
    <2>2. \A v : Session(k, v) => Session(k, v)'
      BY <1>u DEF Session
    <2> QED BY <1>o, <1>u, <2>1, <2>2, KeyMoves
  <1>q. ASSUME KeyOK(k), frow'[k] = frow[k], fobj'[k] = fobj[k], acked' = acked, NEW r, FGoto(t, r),
               Uploader(r, k) => Uploader(p, k) \/ k \notin used, Mover(r, k) => Mover(p, k) \/ ~ Moving(k),
               FileOK(r, k)'
        PROVE  KeyOK(k)'
    <2>1. \A q : Beside(p, q, k) => FileOK(q, k)'
      BY <1>q, FileSame DEF Beside
    <2>2. \A q : UpOK(q, k) => UpOK(q, k)'
      BY <1>q, UpSame
    <2>3. Served(k)'
      BY <1>q, <1>u, ServedSame DEF KeyOK
    <2> QED BY <1>p, <1>q, <1>u, <2>1, <2>2, <2>3, KeyTouched
  <1>1. ASSUME NEW c \in TKeys, NEW v \in Buckets, used' = used \cup {c},
               FGoto(t, InsertRow(c, v, tier)), c \in used => c \in crossed', crossed \subseteq crossed',
               UNCHANGED <<frow, fobj, acked, asked>>
        PROVE  KeyOK(k)'
    <2>1. InsertRow(c, v, tier).pc = "insert" /\ InsertRow(c, v, tier).k = c
      BY <1>1, <1>t, InsertFields
    <2>2. KeyOK(k)
      BY <1>1, <1>g
    <2>3. CASE c # k
      BY <1>1, <1>o, <2>1, <2>2, <2>3
    <2>4. CASE c = k
      <3>1. k \notin used
        BY <1>1, <2>4 DEF Good
      <3>2. frow[k] = "none" /\ fobj[k] = {} /\ k \notin acked
        BY <1>t, <3>1 DEF UsedKeys
      <3>3. PICK r : r = InsertRow(c, v, tier)
        OBVIOUS
      <3>4. FileOK(r, k)' /\ ~ Mover(r, k)
        BY <1>1, <2>1, <3>2, <3>3 DEF FileOK, Mover, MoverPcs
      <3> QED BY <1>1, <1>q, <2>2, <3>1, <3>3, <3>4
    <2> QED BY <2>3, <2>4
  <1>2. ASSUME NEW c \in TKeys, NEW x, NEW w \in Buckets \cup {"omitted"}, NEW g,
               UploadStart(t, c, x, w, g)
        PROVE  KeyOK(k)'
    <2>1. UploadVisibility(x, w, "public", g) \subseteq Buckets
      BY UploadVisible DEF Buckets
    <2>2. PICK v \in Buckets : FGoto(t, InsertRow(c, v, tier))
      BY <1>2, <2>1 DEF UploadStart, InsertRow
    <2>3. used' = used \cup {c} /\ c \notin used /\ UNCHANGED <<frow, fobj, acked, asked, crossed>>
      BY <1>2 DEF UploadStart, Fresh, UNCHECKS
    <2> QED BY <1>1, <2>2, <2>3
  <1>3. ASSUME NEW c \in TKeys, NEW w \in Buckets, NEW g,
               PutFileRaw(t, c, w) \/ EnforcedPutFile(t, c, w, g)
        PROVE  KeyOK(k)'
    <2>1. UploadVisibility("user", w, "private", g) \subseteq Buckets
      BY UploadVisible DEF Buckets
    <2>2. PICK v \in Buckets : PutFileAs(t, c, v)
      BY <1>3, <2>1 DEF PutFileRaw, EnforcedPutFile
    <2>3. FGoto(t, InsertRow(c, v, tier))
      BY <2>2 DEF PutFileAs, InsertRow
    <2>4. /\ used' = used \cup {c} /\ UNCHANGED <<frow, fobj, acked, asked>>
          /\ (c \in used => c \in crossed') /\ crossed \subseteq crossed'
      BY <2>2 DEF PutFileAs
    <2> QED BY <1>1, <2>3, <2>4
  <1>4. ASSUME NEW c \in AKeys, NEW v \in Buckets, AdminUpload(t, c, v) PROVE KeyOK(k)'
    <2>1. PutRow(c, v).pc = "put" /\ PutRow(c, v).k = c /\ PutRow(c, v).vis = v
      BY <1>t, PutFields
    <2>2. FGoto(t, PutRow(c, v))
      BY <1>4 DEF AdminUpload, PutRow
    <2>3. /\ used' = used \cup {c} /\ c \notin used /\ frow' = [frow EXCEPT ![c] = v]
          /\ UNCHANGED <<fobj, page, acked, asked, crossed>>
      BY <1>4 DEF AdminUpload, Fresh, UNCHECKS
    <2>4. KeyOK(k)
      BY <1>g, <2>3
    <2>5. CASE c # k
      <3>1. frow'[k] = frow[k]
        BY <1>t, <2>3, <2>5
      <3> QED BY <1>o, <2>1, <2>2, <2>3, <2>4, <2>5, <3>1
    <2>6. CASE c = k
      <3>1. frow'[k] = v /\ fobj[k] = {} /\ k \notin acked /\ k \notin UKeys
        BY <1>t, <2>3, <2>6 DEF UsedKeys
      <3>2. FileOK(PutRow(c, v), k)' /\ ~ Mover(PutRow(c, v), k)
        BY <2>1, <2>3, <3>1 DEF FileOK, Mover, MoverPcs
      <3>3. \A q : Beside(p, q, k) => FileOK(q, k)'
        BY <2>3, <2>6 DEF Beside, RowKeyed, FileOK, Uploader, Mover, Uploading, MoverPcs
      <3>4. \A q : UpOK(q, k) /\ (q.pc # "idle" => q.k \in UKeys) => UpOK(q, k)'
        BY <3>1 DEF UpOK
      <3>5. Served(k)'
        BY <2>3, <3>1 DEF Served
      <3> QED BY <1>p, <1>u, <2>2, <2>3, <2>4, <2>6, <3>2, <3>3, <3>4, <3>5, KeyTouched
    <2> QED BY <2>5, <2>6
  <1>5. ASSUME UploadInsert(t) PROVE KeyOK(k)'
    <2>1. p.pc = "insert" /\ p.k \in TKeys /\ UNCHANGED <<fobj, acked, asked, crossed>>
      BY <1>5, <1>p DEF UploadInsert, FAt, RowKeyed, UNHIST, fhist
    <2>2. KeyOK(k)
      BY <1>g, <2>1
    <2>3. CASE FReturn(t) /\ UNCHANGED frow
      BY <1>o, <2>1, <2>2, <2>3, IdleFields DEF FReturn
    <2>4. CASE frow' = [frow EXCEPT ![p.k] = p.vis] /\ FGoto(t, To(p, "put"))
      <3>1. To(p, "put").pc = "put" /\ To(p, "put").k = p.k /\ To(p, "put").vis = p.vis
        BY <1>p, MoveOn DEF FPcs
      <3>2. CASE p.k # k
        <4>1. frow'[k] = frow[k]
          BY <1>t, <2>4, <3>2
        <4> QED BY <1>o, <2>1, <2>2, <2>4, <3>1, <3>2, <4>1
      <3>3. CASE p.k = k
        <4>1. FileOK(p, k) /\ Uploader(p, k)
          BY <1>p, <2>1, <2>2, <3>3 DEF KeyOK, Uploader, Uploading
        <4>2. frow'[k] = p.vis /\ fobj[k] = {} /\ k \notin acked /\ k \notin UKeys
          BY <1>t, <2>1, <2>4, <3>3, <4>1 DEF FileOK
        <4>3. FileOK(To(p, "put"), k)' /\ ~ Mover(To(p, "put"), k)
          BY <2>1, <3>1, <3>3, <4>2 DEF FileOK, Mover, MoverPcs
        <4>4. \A q : Beside(p, q, k) => FileOK(q, k)'
          BY <2>1, <4>1, <4>2 DEF Beside, FileOK, Uploader, Mover, Uploading
        <4>5. \A q : UpOK(q, k) /\ (q.pc # "idle" => q.k \in UKeys) => UpOK(q, k)'
          BY <4>2 DEF UpOK
        <4>6. Served(k)'
          BY <2>1, <4>2 DEF Served
        <4> QED BY <1>p, <1>u, <2>2, <2>4, <4>1, <4>3, <4>4, <4>5, <4>6, KeyTouched
      <3> QED BY <3>2, <3>3
    <2> QED BY <1>5, <1>p, <2>3, <2>4 DEF UploadInsert, To
  <1>6. ASSUME UploadPut(t) PROVE KeyOK(k)'
    <2>1. p.pc = "put" /\ p.k \in TKeys \cup AKeys /\ p.k \in FKeys /\ UNCHANGED <<frow, asked, crossed>>
      BY <1>6, <1>p, <1>t DEF UploadPut, FAt, RowKeyed, Uploading
    <2>2. KeyOK(k)
      BY <1>g, <2>1
    <2>3. fobj' = fobj \/ fobj' = [fobj EXCEPT ![p.k] = @ \cup {p.vis}]
      BY <1>6, <1>p DEF UploadPut, PutObjectIn
    <2>4. To(p, "undo").pc = "undo" /\ To(p, "undo").k = p.k
      BY <1>p, MoveOn DEF FPcs
    <2>5. \/ FGoto(t, FIdle) /\ acked' = acked \cup {p.k} /\ p.vis \in fobj'[p.k]
          \/ FGoto(t, To(p, "undo")) /\ acked' = acked
      BY <1>6, <1>p, <1>t, <2>1 DEF UploadPut, FReturn, To, PutObjectIn
    <2>6. CASE p.k # k
      <3>1. fobj'[k] = fobj[k]
        BY <1>t, <2>3, <2>6
      <3> QED BY <1>o, <2>1, <2>2, <2>4, <2>5, <2>6, <3>1, IdleFields
    <2>7. CASE p.k = k
      <3>1. FileOK(p, k) /\ Uploader(p, k)
        BY <1>p, <2>1, <2>2, <2>7 DEF KeyOK, Uploader, Uploading
      <3>2. frow[k] \in {"none", p.vis} /\ k \notin acked /\ k \notin UKeys /\ fobj[k] \subseteq fobj'[k]
        BY <1>t, <2>1, <2>3, <2>7, <3>1 DEF FileOK
      <3>3. \A q : Beside(p, q, k) => FileOK(q, k)'
        BY <2>1, <3>1, <3>2 DEF Beside, FileOK, Uploader, Mover, Uploading
      <3>4. \A q : UpOK(q, k) /\ (q.pc # "idle" => q.k \in UKeys) => UpOK(q, k)'
        BY <3>2 DEF UpOK
      <3>5. CASE FGoto(t, FIdle) /\ acked' = acked \cup {p.k} /\ p.vis \in fobj'[p.k]
        <4>1. Served(k)'
          BY <2>1, <2>7, <3>2, <3>5 DEF Served
        <4>2. FileOK(FIdle, k)' /\ ~ Mover(FIdle, k) /\ ~ Uploader(FIdle, k)
          BY IdleFields DEF FileOK, Mover, Uploader, Uploading, MoverPcs
        <4> QED BY <1>p, <1>u, <2>2, <3>3, <3>4, <3>5, <4>1, <4>2, KeyTouched
      <3>6. CASE FGoto(t, To(p, "undo")) /\ acked' = acked
        <4>1. Served(k)'
          BY <2>1, <3>2, <3>6 DEF Served
        <4>2. FileOK(To(p, "undo"), k)' /\ ~ Mover(To(p, "undo"), k)
          BY <2>4, <3>2, <3>6 DEF FileOK, Mover, MoverPcs
        <4> QED BY <1>p, <1>u, <2>2, <3>1, <3>3, <3>4, <3>6, <4>1, <4>2, KeyTouched
      <3> QED BY <2>5, <3>5, <3>6
    <2> QED BY <2>6, <2>7
  <1>7. ASSUME UploadUndo(t) PROVE KeyOK(k)'
    <2>1. /\ p.pc = "undo" /\ p.k \in TKeys \cup AKeys /\ p.k \in FKeys
          /\ frow' = [frow EXCEPT ![p.k] = "none"] /\ FGoto(t, FIdle)
          /\ UNCHANGED <<fobj, acked, asked, crossed>>
      BY <1>7, <1>p, <1>t DEF UploadUndo, FAt, RowKeyed, Uploading, UNHIST, fhist, FReturn
    <2>2. KeyOK(k)
      BY <1>g, <2>1
    <2>3. CASE p.k # k
      <3>1. frow'[k] = frow[k]
        BY <1>t, <2>1, <2>3
      <3> QED BY <1>o, <2>1, <2>2, <3>1, IdleFields
    <2>4. CASE p.k = k
      <3>1. FileOK(p, k) /\ Uploader(p, k)
        BY <1>p, <2>1, <2>2, <2>4 DEF KeyOK, Uploader, Uploading
      <3>2. frow'[k] = "none" /\ k \notin acked /\ k \notin UKeys
        BY <1>t, <2>1, <2>4, <3>1 DEF FileOK
      <3>3. \A q : Beside(p, q, k) => FileOK(q, k)'
        BY <2>1, <3>1, <3>2 DEF Beside, FileOK, Uploader, Mover, Uploading
      <3>4. \A q : UpOK(q, k) /\ (q.pc # "idle" => q.k \in UKeys) => UpOK(q, k)'
        BY <3>2 DEF UpOK
      <3>5. Served(k)'
        BY <2>1, <3>2 DEF Served
      <3>6. FileOK(FIdle, k)' /\ ~ Mover(FIdle, k) /\ ~ Uploader(FIdle, k)
        BY IdleFields DEF FileOK, Mover, Uploader, Uploading, MoverPcs
      <3> QED BY <1>p, <1>u, <2>1, <2>2, <3>3, <3>4, <3>5, <3>6, KeyTouched
    <2> QED BY <2>3, <2>4
  <1>8. ASSUME NEW c \in FKeys, DeleteStart(t, c) \/ AdminDelete(t, c) PROVE KeyOK(k)'
    <2>1. PICK b \in Buckets : FGoto(t, DeletionRow(c, b))
      BY <1>8, <1>t DEF DeleteStart, AdminDelete, Buckets, DeletionRow
    <2>2. DeletionRow(c, b).k = c
      BY DeletionFields
    <2>3. asked' = asked \cup {c} /\ UNCHANGED <<frow, fobj, acked, crossed>>
      BY <1>8 DEF DeleteStart, AdminDelete
    <2>4. KeyOK(k) /\ c # k
      BY <1>g, <2>3 DEF Good
    <2> QED BY <1>o, <2>1, <2>2, <2>3, <2>4
  <1>9. ASSUME DeleteObject(t) \/ DeleteRow(t) PROVE KeyOK(k)'
    <2>1. p.k \in asked /\ UNCHANGED <<acked, asked, crossed>>
      BY <1>9, <1>p DEF DeleteObject, DeleteRow, FAt, RowKeyed, UNHIST, fhist
    <2>2. KeyOK(k) /\ p.k # k
      BY <1>g, <2>1 DEF Good
    <2>3. frow'[k] = frow[k] /\ fobj'[k] = fobj[k]
      BY <1>9, <1>p, <1>t, <2>2 DEF DeleteObject, DeleteRow, DeleteObjectIn
    <2>4. To(p, "delrow").k = p.k
      BY <1>p, MoveOn DEF FPcs
    <2>5. FGoto(t, FIdle) \/ FGoto(t, To(p, "delrow"))
      BY <1>9, <1>p DEF DeleteObject, DeleteRow, FReturn, To
    <2> QED BY <1>o, <2>1, <2>2, <2>3, <2>4, <2>5, IdleFields
  <1>10. ASSUME NEW c \in FKeys, NEW v \in Buckets, VisibilityRead(t, c, v) PROVE KeyOK(k)'
    <2>1. frow[c] \in Buckets /\ frow[c] # "none"
      BY <1>10, <1>t DEF VisibilityRead
    <2>2. /\ MoveRow(c, frow[c], v).pc = "get" /\ MoveRow(c, frow[c], v).k = c
      BY <2>1, MoveFields
    <2>3. /\ UNCHANGED <<frow, fobj, acked, asked>> /\ FGoto(t, MoveRow(c, frow[c], v))
          /\ crossed \subseteq crossed' /\ (Moving(c) => c \in crossed')
      BY <1>10 DEF VisibilityRead, MoveRow
    <2>4. KeyOK(k)
      BY <1>g, <2>3
    <2>5. PICK r : r = MoveRow(c, frow[c], v)
      OBVIOUS
    <2>6. CASE c # k
      BY <1>o, <2>2, <2>3, <2>4, <2>5, <2>6
    <2>7. CASE c = k
      <3>1. ~ Moving(k)
        BY <2>3, <2>7 DEF Good
      <3>2. FileOK(r, k)' /\ ~ Uploader(r, k)
        BY <2>1, <2>2, <2>3, <2>5, <2>7 DEF FileOK, Uploader, Uploading
      <3> QED BY <1>q, <2>3, <2>4, <2>5, <3>1, <3>2
    <2> QED BY <2>6, <2>7
  <1>11. ASSUME VisibilityGet(t) \/ VisibilityCopy(t) \/ VisibilityUpdate(t) \/ VisibilityDeleteOld(t)
         PROVE  KeyOK(k)'
    <2>1. /\ p.pc \in MoverPcs /\ p.k \in FKeys /\ p.vis # p.from
          /\ UNCHANGED <<acked, asked, crossed>>
      BY <1>11, <1>p DEF VisibilityGet, VisibilityCopy, VisibilityUpdate, VisibilityDeleteOld, FAt,
         MoverPcs, RowKeyed, UNHIST, fhist, TenantKeys, FKeys
    <2>2. KeyOK(k)
      BY <1>g, <2>1
    <2>3. ASSUME NEW pc \in {"copy", "update", "delold"}
          PROVE  /\ To(p, pc).pc = pc /\ To(p, pc).k = p.k /\ To(p, pc).vis = p.vis /\ To(p, pc).from = p.from
                 /\ ~ Uploader(To(p, pc), k)
      <3>1. pc \in FPcs /\ pc \notin Uploading
        BY DEF FPcs, Uploading
      <3> QED BY <1>p, <3>1, MoveOn DEF Uploader
    <2>4. CASE p.k # k
      <3>1. frow'[k] = frow[k] /\ fobj'[k] = fobj[k]
        BY <1>11, <1>p, <1>t, <2>4 DEF VisibilityGet, VisibilityCopy, VisibilityUpdate,
           VisibilityDeleteOld, PutObjectIn, DeleteObjectIn
      <3>2. FGoto(t, FIdle) \/ \E pc \in {"copy", "update", "delold"} : FGoto(t, To(p, pc))
        BY <1>11, <1>p DEF VisibilityGet, VisibilityCopy, VisibilityUpdate, VisibilityDeleteOld, FReturn, To
      <3> QED BY <1>o, <2>1, <2>2, <2>3, <2>4, <3>1, <3>2, IdleFields
    <2>5. CASE p.k = k
      <3>1. FileOK(p, k) /\ Mover(p, k) /\ Served(k)
        BY <1>p, <2>1, <2>2, <2>5 DEF KeyOK, Mover
      <3>2. FileOK(FIdle, k)' /\ ~ Mover(FIdle, k) /\ ~ Uploader(FIdle, k)
        BY IdleFields DEF FileOK, Mover, Uploader, Uploading, MoverPcs
      <3>3. CASE VisibilityGet(t)
        <4>1. UNCHANGED <<frow, fobj>> /\ p.pc = "get"
          BY <1>p, <3>3 DEF VisibilityGet, FAt
        <4>2. CASE FGoto(t, FIdle)
          BY <1>o, <2>1, <2>2, <4>1, <4>2, IdleFields
        <4>3. CASE FGoto(t, To(p, "copy")) /\ p.from \in fobj[k]
          <5>1. FileOK(To(p, "copy"), k)'
            BY <2>1, <2>3, <2>5, <3>1, <4>1, <4>3 DEF FileOK, Mover, Uploader
          <5> QED BY <1>q, <2>1, <2>2, <2>3, <3>1, <4>1, <4>3, <5>1
        <4> QED BY <1>p, <2>5, <3>3, <4>2, <4>3 DEF VisibilityGet, FReturn, To
      <3>4. CASE VisibilityCopy(t)
        <4>1. /\ UNCHANGED frow /\ p.pc = "copy" /\ fobj[k] # {} /\ fobj[k] \subseteq fobj'[k]
          BY <1>p, <1>t, <2>5, <3>1, <3>4 DEF VisibilityCopy, FAt, FileOK, PutObjectIn
        <4>2. \A q : Beside(p, q, k) => FileOK(q, k)'
          <5>1. \A q : Beside(p, q, k) => ~ (q.k = k /\ q.pc \in {"insert", "put"})
            BY <4>1 DEF Beside, FileOK
          <5> QED BY <2>1, <4>1, <5>1, FileSame DEF Beside
        <4>3. \A q : UpOK(q, k) => UpOK(q, k)'
          BY <4>1, UpSame
        <4>4. Served(k)'
          BY <1>u, <2>1, <3>1, <4>1, ServedSame
        <4>5. CASE FGoto(t, FIdle)
          BY <1>p, <1>u, <2>2, <3>2, <4>2, <4>3, <4>4, <4>5, KeyTouched
        <4>6. CASE FGoto(t, To(p, "update")) /\ p.vis \in fobj'[k]
          <5>1. FileOK(To(p, "update"), k)'
            BY <2>1, <2>3, <2>5, <3>1, <4>1, <4>6 DEF FileOK, Mover, Uploader
          <5> QED BY <1>p, <1>u, <2>2, <2>3, <3>1, <4>2, <4>3, <4>4, <4>6, <5>1, KeyTouched
        <4>7. FGoto(t, FIdle) \/ (FGoto(t, To(p, "update")) /\ p.vis \in fobj'[k])
          BY <1>p, <1>t, <2>5, <3>4 DEF VisibilityCopy, FReturn, To, PutObjectIn
        <4> QED BY <4>5, <4>6, <4>7
      <3>5. CASE VisibilityUpdate(t)
        <4>1. /\ UNCHANGED fobj /\ p.pc = "update" /\ p.vis \in fobj[k] /\ FGoto(t, To(p, "delold"))
              /\ frow'[k] = IF frow[k] = "none" THEN "none" ELSE p.vis
          BY <1>p, <1>t, <2>5, <3>1, <3>5 DEF VisibilityUpdate, FAt, FileOK, To
        <4>2. \A q : Beside(p, q, k) => FileOK(q, k)'
          BY <2>1, <3>1, <4>1 DEF Beside, FileOK, Mover, MoverPcs, Uploader
        <4>3. \A q : UpOK(q, k) => UpOK(q, k)'
          BY <1>f, <4>1 DEF UpOK, Buckets
        <4>4. Served(k)'
          BY <1>f, <2>1, <3>1, <4>1 DEF Served, Buckets
        <4>5. FileOK(To(p, "delold"), k)'
          BY <1>f, <2>1, <2>3, <2>5, <3>1, <4>1 DEF FileOK, Mover, Uploader, Buckets
        <4> QED BY <1>p, <1>u, <2>2, <2>3, <3>1, <4>1, <4>2, <4>3, <4>4, <4>5, KeyTouched
      <3>6. CASE VisibilityDeleteOld(t)
        <4>1. /\ UNCHANGED frow /\ p.pc = "delold" /\ p.vis \in fobj[k] /\ frow[k] \in {"none", p.vis}
              /\ FGoto(t, FIdle)
          BY <1>p, <2>5, <3>1, <3>6 DEF VisibilityDeleteOld, FAt, FileOK, FReturn
        <4>2. p.vis \in fobj'[k]
          BY <1>p, <1>t, <2>1, <2>5, <3>6, <4>1 DEF VisibilityDeleteOld, DeleteObjectIn
        <4>3. \A q : Beside(p, q, k) => FileOK(q, k)'
          BY <2>1, <3>1, <4>1, <4>2 DEF Beside, FileOK, Mover, MoverPcs, Uploader
        <4>4. \A q : UpOK(q, k) => UpOK(q, k)'
          BY <4>1, <4>2 DEF UpOK
        <4>5. Served(k)'
          BY <2>1, <3>1, <4>1, <4>2 DEF Served
        <4> QED BY <1>p, <1>u, <2>2, <3>2, <4>1, <4>3, <4>4, <4>5, KeyTouched
      <3> QED BY <1>11, <3>3, <3>4, <3>5, <3>6
    <2> QED BY <2>4, <2>5
  <1>12. ASSUME ReconcileList(t) \/ ReconcileRows(t) PROVE KeyOK(k)'
    <2>1. UNCHANGED <<frow, fobj, acked, asked, crossed>>
      BY <1>12 DEF ReconcileList, ReconcileRows, UNHIST, fhist
    <2>2. KeyOK(k)
      BY <1>g, <2>1
    <2>3. FGoto(t, FIdle) \/ \E s \in SUBSET AKeys : FGoto(t, PageRow(s))
      BY <1>12 DEF ReconcileList, ReconcileRows, IsAdminLevelKey, PageRow, FReturn
    <2>4. \A s : PageRow(s).k = NoKey /\ NoKey \notin FKeys
      BY FileAssumption DEF PageRow, FIdle, FKeys
    <2>5. \A s : PageRow(s).k # k
      BY <2>4
    <2> QED BY <1>o, <2>1, <2>2, <2>3, <2>5, IdleFields
  <1> QED BY <1>2, <1>3, <1>4, <1>5, <1>6, <1>7, <1>8, <1>9, <1>10, <1>11, <1>12
      DEF FStep, McpSetFileVisibility, SetVisibility, McpDeleteFile, DeleteFileTool

(* No file handler gives a row back to what the page calls an orphan. *)
LEMMA FileOrphans ==
    ASSUME AckInv, NEW t \in FTasks, FStep(t)
    PROVE  Orphans' /\ acked' \subseteq used'
  <1>t. /\ frow \in [FKeys -> Buckets \cup {"none"}] /\ fobj \in [FKeys -> SUBSET Buckets]
        /\ ftask \in [FTasks -> FTaskRows] /\ RowKeyed(ftask[t], used, asked) /\ UsedKeys
        /\ acked \subseteq used /\ TKeys \cap AKeys = {} /\ AKeys \subseteq FKeys /\ TKeys \subseteq FKeys
        /\ page \in [orphans : SUBSET AKeys, dangling : SUBSET AKeys] /\ tier \in 1 .. MaxTier
        /\ used \subseteq used' /\ Orphans /\ page.orphans \subseteq AKeys
    BY FileAssumption, FileStepTypes DEF AckInv, LogInv, FBase, FTypeOK, Keyed, FKeys
  <1>p. PICK p \in FTaskRows : p = ftask[t] /\ RowKeyed(p, used, asked) /\ p.seen \subseteq used
    BY <1>t DEF Orphans
  <1>s. ASSUME NEW r, FGoto(t, r), r.seen \subseteq used',
               \A k \in page'.orphans : k \in used /\ frow'[k] = "none"
        PROVE  Orphans'
    <2>1. ftask'[t] = r /\ \A s \in FTasks : s # t => ftask'[s] = ftask[s]
      BY <1>s, <1>t DEF FGoto
    <2>2. \A s \in FTasks : ftask'[s].seen \subseteq used'
      BY <1>s, <1>t, <2>1 DEF Orphans
    <2> QED BY <1>s, <1>t, <2>2 DEF Orphans
  <1>r. ASSUME NEW r, FGoto(t, r), r.seen \subseteq used', page' = page,
               \A k \in AKeys : k \in used /\ frow[k] = "none" => frow'[k] = "none"
        PROVE  Orphans'
    BY <1>r, <1>s, <1>t DEF Orphans
  <1>1. ASSUME NEW c \in TKeys, NEW v \in Buckets, FGoto(t, InsertRow(c, v, tier)),
               UNCHANGED <<frow, page, acked>>
        PROVE  Orphans' /\ acked' \subseteq used'
    <2>1. InsertRow(c, v, tier).seen = {}
      BY <1>t, InsertFields
    <2> QED BY <1>1, <1>r, <1>t, <2>1
  <1>2. ASSUME NEW c \in TKeys, NEW x, NEW w \in Buckets \cup {"omitted"}, NEW g,
               UploadStart(t, c, x, w, g)
        PROVE  Orphans' /\ acked' \subseteq used'
    <2>1. UploadVisibility(x, w, "public", g) \subseteq Buckets
      BY UploadVisible DEF Buckets
    <2>2. PICK v \in Buckets : FGoto(t, InsertRow(c, v, tier))
      BY <1>2, <2>1 DEF UploadStart, InsertRow
    <2> QED BY <1>1, <1>2, <2>2 DEF UploadStart, UNCHECKS
  <1>3. ASSUME NEW c \in TKeys, NEW w \in Buckets, NEW g,
               PutFileRaw(t, c, w) \/ EnforcedPutFile(t, c, w, g)
        PROVE  Orphans' /\ acked' \subseteq used'
    <2>1. UploadVisibility("user", w, "private", g) \subseteq Buckets
      BY UploadVisible DEF Buckets
    <2>2. PICK v \in Buckets : PutFileAs(t, c, v)
      BY <1>3, <2>1 DEF PutFileRaw, EnforcedPutFile
    <2>3. FGoto(t, InsertRow(c, v, tier)) /\ UNCHANGED <<frow, page, acked>>
      BY <2>2 DEF PutFileAs, InsertRow
    <2> QED BY <1>1, <2>3
  <1>4. ASSUME NEW c \in AKeys, NEW v \in Buckets, AdminUpload(t, c, v)
        PROVE  Orphans' /\ acked' \subseteq used'
    <2>1. PutRow(c, v).seen = {} /\ FGoto(t, PutRow(c, v))
      BY <1>4, <1>t, PutFields DEF AdminUpload, PutRow
    <2>2. c \notin used /\ frow' = [frow EXCEPT ![c] = v] /\ UNCHANGED <<page, acked>>
      BY <1>4 DEF AdminUpload, Fresh, UNCHECKS
    <2>3. \A k \in AKeys : k \in used /\ frow[k] = "none" => frow'[k] = "none"
      BY <1>t, <2>2
    <2> QED BY <1>r, <1>t, <2>1, <2>2, <2>3
  <1>5. ASSUME \/ UploadInsert(t) \/ UploadPut(t) \/ UploadUndo(t) \/ DeleteObject(t) \/ DeleteRow(t)
               \/ VisibilityGet(t) \/ VisibilityCopy(t) \/ VisibilityUpdate(t) \/ VisibilityDeleteOld(t)
        PROVE  Orphans' /\ acked' \subseteq used'
    <2>1. PICK pc \in FPcs : FGoto(t, FIdle) \/ FGoto(t, To(p, pc))
      BY <1>5, <1>p DEF UploadInsert, UploadPut, UploadUndo, DeleteObject, DeleteRow, VisibilityGet,
         VisibilityCopy, VisibilityUpdate, VisibilityDeleteOld, FReturn, To, FPcs
    <2>2. To(p, pc).seen \subseteq used' /\ FIdle.seen \subseteq used'
      BY <1>p, <1>t, MoveOn, IdleFields
    <2>3. page' = page
      BY <1>5 DEF UploadInsert, UploadPut, UploadUndo, DeleteObject, DeleteRow, VisibilityGet,
         VisibilityCopy, VisibilityUpdate, VisibilityDeleteOld
    <2>4. acked' \subseteq used'
      <3>1. acked' = acked \/ (UploadPut(t) /\ acked' = acked \cup {p.k})
        BY <1>5, <1>p DEF UploadInsert, UploadPut, UploadUndo, DeleteObject, DeleteRow, VisibilityGet,
           VisibilityCopy, VisibilityUpdate, VisibilityDeleteOld, UNHIST, fhist
      <3>2. UploadPut(t) => p.k \in used
        BY <1>p DEF UploadPut, FAt, RowKeyed, Uploading
      <3> QED BY <1>t, <3>1, <3>2
    <2>5. \A k \in AKeys : frow[k] = "none" => frow'[k] = "none"
      <3>1. CASE UploadInsert(t)
        <4>1. p.k \notin AKeys
          BY <1>p, <1>t, <3>1 DEF UploadInsert, FAt, RowKeyed
        <4> QED BY <1>p, <1>t, <3>1, <4>1 DEF UploadInsert
      <3>2. CASE ~ UploadInsert(t)
        BY <1>5, <1>t, <3>2 DEF UploadPut, UploadUndo, DeleteObject, DeleteRow, VisibilityGet,
           VisibilityCopy, VisibilityUpdate, VisibilityDeleteOld
      <3> QED BY <3>1, <3>2
    <2> QED BY <1>r, <2>1, <2>2, <2>3, <2>4, <2>5
  <1>6. ASSUME NEW c \in FKeys, DeleteStart(t, c) \/ AdminDelete(t, c)
        PROVE  Orphans' /\ acked' \subseteq used'
    <2>1. PICK b \in Buckets : FGoto(t, DeletionRow(c, b))
      BY <1>6, <1>t DEF DeleteStart, AdminDelete, Buckets, DeletionRow
    <2>2. DeletionRow(c, b).seen = {}
      BY DeletionFields
    <2> QED BY <1>6, <1>r, <1>t, <2>1, <2>2 DEF DeleteStart, AdminDelete
  <1>7. ASSUME NEW c \in FKeys, NEW v \in Buckets, VisibilityRead(t, c, v)
        PROVE  Orphans' /\ acked' \subseteq used'
    <2>1. frow[c] \in Buckets
      BY <1>7, <1>t DEF VisibilityRead
    <2>2. MoveRow(c, frow[c], v).seen = {}
      BY <2>1, MoveFields
    <2>3. FGoto(t, MoveRow(c, frow[c], v))
      BY <1>7 DEF VisibilityRead, MoveRow
    <2> QED BY <1>7, <1>r, <1>t, <2>2, <2>3 DEF VisibilityRead
  <1>8. ASSUME ReconcileList(t) PROVE Orphans' /\ acked' \subseteq used'
    <2> DEFINE S == {k \in ListObjects : IsAdminLevelKey(k)}
    <2>1. S \in SUBSET AKeys /\ FGoto(t, PageRow(S))
      BY <1>8 DEF ReconcileList, PageRow, IsAdminLevelKey
    <2>2. S \subseteq used
      BY <1>t DEF ListObjects, UsedKeys
    <2>3. PageRow(S).seen \subseteq used'
      BY <1>t, <2>1, <2>2, PageFields
    <2>4. UNCHANGED <<frow, page, acked>>
      BY <1>8 DEF ReconcileList, UNHIST, fhist
    <2> QED BY <1>r, <1>t, <2>1, <2>3, <2>4
  <1>9. ASSUME ReconcileRows(t) PROVE Orphans' /\ acked' \subseteq used'
    <2>1. UNCHANGED <<frow, acked>> /\ FGoto(t, FIdle)
      BY <1>9 DEF ReconcileRows, UNHIST, fhist, FReturn
    <2>2. page'.orphans = p.seen \ {k \in AKeys : frow[k] # "none"} /\ p.seen \subseteq AKeys
      BY <1>9, <1>p DEF ReconcileRows, FTaskRows
    <2>3. \A k \in page'.orphans : k \in used /\ frow'[k] = "none"
      BY <1>p, <2>1, <2>2
    <2>4. FIdle.seen \subseteq used'
      BY IdleFields
    <2> QED BY <1>s, <1>t, <2>1, <2>3, <2>4
  <1> QED BY <1>2, <1>3, <1>4, <1>5, <1>6, <1>7, <1>8, <1>9
      DEF FStep, McpSetFileVisibility, SetVisibility, McpDeleteFile, DeleteFileTool

(* The reconcile page's two buttons. *)
LEMMA PageKeys ==
    ASSUME AckInv, NEW c \in AKeys, ReconcileDeleteObject(c) \/ ReconcileDeleteRow(c), UNCHANGED uvars
    PROVE  Orphans' /\ \A k \in FKeys : Good(k)' => KeyOK(k)'
  <1>t. /\ frow \in [FKeys -> Buckets \cup {"none"}] /\ fobj \in [FKeys -> SUBSET Buckets]
        /\ ftask \in [FTasks -> FTaskRows] /\ Keyed /\ Orphans /\ AKeys \subseteq FKeys
        /\ TKeys \cap AKeys = {} /\ AKeys \cap UKeys = {} /\ c \notin TenantKeys /\ c \notin UKeys
        /\ page \in [orphans : SUBSET AKeys, dangling : SUBSET AKeys]
    BY FileAssumption DEF AckInv, LogInv, FBase, FTypeOK, FKeys, TenantKeys
  <1>1. UNCHANGED <<ftask, used, acked, asked, crossed, sess, utask>>
    BY DEF ReconcileDeleteObject, ReconcileDeleteRow, UNHIST, fhist, uvars, svars
  <1>2. \/ frow' = frow /\ fobj' = DeleteObjectIn(c, "public") /\ frow[c] = "none"
        \/ fobj' = fobj /\ frow' = [frow EXCEPT ![c] = "none"]
    BY <1>t DEF ReconcileDeleteObject, ReconcileDeleteRow, DeleteObjectDefault, Orphans
  <1>3. page'.orphans \subseteq page.orphans
    BY <1>t DEF ReconcileDeleteObject, ReconcileDeleteRow
  <1>4. Orphans'
    <2>1. \A k \in AKeys : frow[k] = "none" => frow'[k] = "none"
      BY <1>t, <1>2
    <2>2. \A k \in page'.orphans : k \in used' /\ frow'[k] = "none"
      BY <1>1, <1>3, <1>t, <2>1 DEF Orphans
    <2> QED BY <1>1, <1>t, <2>2 DEF Orphans
  <1>5. ASSUME NEW k \in FKeys, Good(k)' PROVE KeyOK(k)'
    <2>1. KeyOK(k)
      BY <1>1, <1>5 DEF Good, AckInv
    <2>2. CASE k # c
      <3>1. frow'[k] = frow[k] /\ fobj'[k] = fobj[k]
        BY <1>t, <1>2, <2>2 DEF DeleteObjectIn
      <3>2. \A v : Session(k, v) => Session(k, v)'
        BY <1>1 DEF Session
      <3> QED BY <1>1, <2>1, <3>1, <3>2, KeyMoves
    <2>3. CASE k = c
      <3>1. frow'[k] = "none" /\ fobj'[k] \subseteq fobj[k]
        BY <1>t, <1>2, <2>3 DEF DeleteObjectIn
      <3>2. Alone(k)'
        BY <1>1, <2>1 DEF KeyOK, Alone
      <3>3. Served(k)'
        BY <1>t, <2>3, <3>1 DEF Served
      <3>4. ASSUME NEW s \in FTasks PROVE FileOK(ftask[s], k)'
        <4>1. FileOK(ftask[s], k) /\ RowKeyed(ftask[s], used, asked)
          BY <1>t, <2>1 DEF KeyOK, Keyed
        <4>2. ~ (ftask[s].k = k /\ ftask[s].pc \in MoverPcs)
          BY <1>t, <2>3, <4>1 DEF RowKeyed
        <4> QED BY <1>1, <3>1, <4>1, <4>2 DEF FileOK, Uploader, Mover, MoverPcs
      <3>5. ASSUME NEW s \in UTasks PROVE UpOK(utask[s], k)'
        <4>1. utask[s].pc # "idle" => utask[s].k # k
          BY <1>t, <2>3 DEF AckInv, LogInv, AllFit, RowFits
        <4> QED BY <1>1, <4>1 DEF UpOK
      <3> QED BY <3>2, <3>3, <3>4, <3>5 DEF KeyOK
    <2> QED BY <2>2, <2>3
  <1> QED BY <1>4, <1>5

(* A session, as the handlers of the upload and a file of it see it: each  *)
(* handler that works on it was there, or has read the session row.        *)
LEMMA SessionKept ==
    ASSUME NEW u \in UKeys, NEW v, Session(u, v),
           \A t \in UTasks : Handles(utask'[t], u) =>
               \/ Handles(utask[t], u) /\ utask'[t].vis = utask[t].vis
               \/ sess[u] # "none" /\ utask'[t].vis = sess[u],
           \/ sess'[u] \in {sess[u], "none"}
           \/ \E t \in UTasks : Handles(utask[t], u) /\ sess'[u] = utask[t].vis
    PROVE  Session(u, v)'
  BY DEF Session

(* An upload handler that leaves the files alone. *)
LEMMA UploadMoves ==
    ASSUME AckInv, UNCHANGED <<frow, fobj, ftask, acked, asked, crossed, page>>, used \subseteq used',
           \A t \in UTasks : utask'[t] = utask[t] \/ utask'[t].pc \notin {"finput", "finclean"},
           \A u \in UKeys : \/ \A v : Session(u, v) => Session(u, v)'
                            \/ frow[u] = "none" /\ \E v \in Buckets : Session(u, v)'
    PROVE  /\ acked' \subseteq used' /\ Sessions' /\ Orphans'
           /\ \A k \in FKeys : Good(k)' => KeyOK(k)'
  <1>1. acked' \subseteq used' /\ Orphans'
    BY DEF AckInv, Orphans
  <1>2. Sessions'
    BY DEF AckInv, Sessions
  <1>3. ASSUME NEW k \in FKeys, Good(k)' PROVE KeyOK(k)'
    <2>1. KeyOK(k)
      BY <1>3 DEF AckInv, Good
    <2> QED BY <2>1, KeyMoves
  <1> QED BY <1>1, <1>2, <1>3

AckRest ==
    /\ acked' \subseteq used' /\ Sessions' /\ Orphans'
    /\ \A k \in FKeys : Good(k)' => KeyOK(k)'

(* A handler that goes on with the upload it works on, or ends. *)
LEMMA HandlerGoesOn ==
    ASSUME AckInv, NEW t \in UTasks, NEW r \in UTaskRows, UGoto(t, r),
           r.pc \notin {"finput", "finclean"},
           r.pc \in {"idle", "drop"} \/ (utask[t].pc \notin {"idle", "drop"} /\ r.k = utask[t].k /\ r.vis = utask[t].vis),
           \A u \in UKeys : sess'[u] \in {sess[u], "none"},
           UNCHANGED <<frow, fobj, ftask, used, acked, asked, crossed, page>>
    PROVE  AckRest
  <1>1. utask'[t] = r /\ \A s \in UTasks : s # t => utask'[s] = utask[s]
    BY DEF UGoto, AckInv, LogInv, UState
  <1>2. ASSUME NEW u \in UKeys, NEW v, Session(u, v) PROVE Session(u, v)'
    <2>1. \A s \in UTasks : Handles(utask'[s], u) => Handles(utask[s], u) /\ utask'[s].vis = utask[s].vis
      BY <1>1 DEF Handles
    <2> QED BY <1>2, <2>1, SessionKept
  <1> QED BY <1>1, <1>2, UploadMoves DEF AckRest

LEMMA UploadKeys ==
    ASSUME AckInv, NEW t \in UTasks, TusStep(t)
    PROVE  AckRest
  <1>t. /\ frow \in [FKeys -> Buckets \cup {"none"}] /\ fobj \in [FKeys -> SUBSET Buckets]
        /\ sess \in [UKeys -> Buckets \cup {"none"}] /\ UsedKeys /\ LogInv
        /\ utask \in [UTasks -> UTaskRows] /\ utask[t] \in UTaskRows /\ UKeys \subseteq FKeys
        /\ tier \in 1 .. MaxTier /\ arc \in [UKeys -> 0 .. MaxArc] /\ arcs \in [UKeys -> 0 .. MaxArc]
        /\ Keyed /\ UKeys \cap (TKeys \cup AKeys) = {}
    BY FileAssumption DEF AckInv, LogInv, UState, FBase, FTypeOK, FKeys
  <1>i. UIdle \in UTaskRows /\ UIdle.pc = "idle"
    BY IdleRows, IdleFields
  <1>g. ASSUME NEW r, UGoto(t, r)
        PROVE  utask'[t] = r /\ \A s \in UTasks : s # t => utask'[s] = utask[s]
    BY <1>g, <1>t DEF UGoto
  <1>1. ASSUME NEW u \in UKeys, NEW c, NEW w \in Buckets \cup {"omitted"}, NEW g, TusCreate(t, u, c, w, g)
        PROVE  AckRest
    <2>1. UploadVisibility(c, w, "private", g) \subseteq Buckets
      BY UploadVisible DEF Buckets
    <2>2. PICK v \in Buckets : UGoto(t, OpenRow(u, v))
      BY <1>1, <2>1 DEF TusCreate, OpenRow
    <2>3. OpenRow(u, v).pc = "open" /\ OpenRow(u, v).k = u /\ OpenRow(u, v).vis = v
      BY OpenFields
    <2>4. /\ UNCHANGED <<frow, fobj, ftask, acked, asked, crossed, page, sess>> /\ u \notin used
          /\ used' = used \cup {u}
      BY <1>1 DEF TusCreate, Fresh, UNCHECKS, svars
    <2>5. utask'[t] = OpenRow(u, v) /\ \A s \in UTasks : s # t => utask'[s] = utask[s]
      BY <1>g, <2>2
    <2>6. \A s \in UTasks : utask[s].pc # "idle" => utask[s].k # u
      BY <1>t, <2>4 DEF LogInv, AllFit, RowFits
    <2>7. frow[u] = "none" /\ sess[u] = "none"
      BY <1>t, <2>4 DEF UsedKeys, LogInv, Spools
    <2>8. Session(u, v)'
      BY <2>3, <2>4, <2>5, <2>6, <2>7 DEF Session, Handles
    <2>9. ASSUME NEW x \in UKeys, x # u, NEW y, Session(x, y) PROVE Session(x, y)'
      BY <2>3, <2>4, <2>5, <2>9 DEF Session, Handles
    <2>10. \A x \in UKeys : \/ \A y : Session(x, y) => Session(x, y)'
                            \/ frow[x] = "none" /\ \E y \in Buckets : Session(x, y)'
      BY <2>7, <2>8, <2>9
    <2> QED BY <2>3, <2>4, <2>5, <2>10, UploadMoves DEF AckRest
  <1>2. ASSUME TusOpen(t) PROVE AckRest
    <2>1. /\ UGoto(t, UIdle) /\ UNCHANGED <<frow, fobj, ftask, used, acked, asked, crossed, page>>
          /\ utask[t].pc = "open" /\ utask[t].k \in UKeys
      BY <1>2, <1>t, Started DEF TusOpen, UReturn, UNFILES, fvars, fhist, UAt
    <2>2. utask'[t] = UIdle /\ \A s \in UTasks : s # t => utask'[s] = utask[s]
      BY <1>g, <2>1
    <2>3. sess' = sess \/ sess' = [sess EXCEPT ![utask[t].k] = utask[t].vis]
      BY <1>2 DEF TusOpen
    <2>4. ASSUME NEW u \in UKeys, NEW v, Session(u, v) PROVE Session(u, v)'
      <3>1. \A s \in UTasks : Handles(utask'[s], u) => Handles(utask[s], u) /\ utask'[s].vis = utask[s].vis
        BY <1>i, <2>2 DEF Handles
      <3>2. sess'[u] = sess[u] \/ (Handles(utask[t], u) /\ sess'[u] = utask[t].vis)
        BY <1>t, <2>1, <2>3 DEF Handles
      <3> QED BY <2>4, <3>1, <3>2, SessionKept
    <2> QED BY <1>i, <2>1, <2>2, <2>4, UploadMoves DEF AckRest
  <1>3. ASSUME NEW u \in UKeys, NEW o \in Sizes, NEW n \in 1 .. Total, TusPatch(t, u, o, n)
        PROVE  AckRest
    <2>1. n \in Sizes /\ sess[u] \in Buckets /\ UGoto(t, PatchRow(u, o, n, sess[u])) /\ sess[u] # "none"
      BY <1>3, <1>t, FileAssumption DEF Sizes, TusPatch, PatchRow
    <2>2. PICK r : r = PatchRow(u, o, n, sess[u])
      OBVIOUS
    <2>3. r.pc = "arc" /\ r.k = u /\ r.vis = sess[u]
      BY <2>1, <2>2, PatchFields
    <2>4. utask'[t] = r /\ \A s \in UTasks : s # t => utask'[s] = utask[s]
      BY <1>g, <2>1, <2>2
    <2>5. UNCHANGED <<frow, fobj, ftask, used, acked, asked, crossed, page, sess>>
      BY <1>3 DEF TusPatch, UNFILES, fvars, fhist, svars
    <2>6. ASSUME NEW x \in UKeys, NEW v, Session(x, v) PROVE Session(x, v)'
      BY <2>1, <2>3, <2>4, <2>5, <2>6 DEF Session, Handles
    <2> QED BY <2>3, <2>4, <2>5, <2>6, UploadMoves DEF AckRest
  <1>4. ASSUME \/ TokenLock(t) \/ TusLock(t) \/ TusCheck(t) \/ TusAppend(t) \/ TusDrop(t)
               \/ \E u \in UKeys : TusTerminate(t, u)
        PROVE  AckRest
    <2>1. UNCHANGED <<frow, fobj, ftask, used, acked, asked, crossed, page>>
      BY <1>4 DEF TokenLock, TusLock, TusCheck, TusAppend, TusDrop, TusTerminate, UNFILES, fvars, fhist
    <2>2. \A u \in UKeys : sess'[u] \in {sess[u], "none"}
      BY <1>4, <1>t DEF TokenLock, TusLock, TusCheck, TusAppend, TusDrop, TusTerminate, DropSession, svars
    <2>3. PICK r \in UTaskRows :
             /\ UGoto(t, r) /\ r.pc \notin {"finput", "finclean"}
             /\ \/ r.pc \in {"idle", "drop"}
                \/ utask[t].pc \notin {"idle", "drop"} /\ r.k = utask[t].k /\ r.vis = utask[t].vis
      <3>1. CASE TokenLock(t)
        <4>1. utask[t].k \in UKeys /\ utask[t].pc = "arc"
          BY <1>t, <3>1, Started DEF TokenLock, UAt
        <4>2. PICK a \in 0 .. MaxArc : UGoto(t, LockRow(utask[t], a))
          <5>1. arc[utask[t].k] \in 0 .. MaxArc /\ arcs[utask[t].k] \in 0 .. MaxArc
            BY <1>t, <4>1
          <5>2. arcs[utask[t].k] < MaxArc => arcs[utask[t].k] + 1 \in 0 .. MaxArc
            BY <5>1, UploadAssumption
          <5> QED BY <3>1, <5>1, <5>2 DEF TokenLock, LockRow
        <4>3. PICK r : r = LockRow(utask[t], a)
          OBVIOUS
        <4>4. r \in UTaskRows /\ r.pc = "lock" /\ r.k = utask[t].k /\ r.vis = utask[t].vis
          BY <1>t, <4>2, <4>3, LockFields
        <4> QED BY <4>1, <4>2, <4>3, <4>4
      <3>2. CASE TusLock(t) \/ TusCheck(t) \/ TusAppend(t)
        <4>1. \/ UGoto(t, UIdle) \/ UGoto(t, FinishRow(utask[t], tier))
              \/ \E pc \in {"check", "append"} : UGoto(t, UTo(utask[t], pc))
          BY <3>2 DEF TusLock, TusCheck, TusAppend, UReturn, FinishRow, UTo
        <4>2. utask[t].pc \notin {"idle", "drop"}
          BY <3>2 DEF TusLock, TusCheck, TusAppend, UAt
        <4>3. {"check", "append"} \subseteq UPcs
          BY DEF UPcs
        <4>4. CASE UGoto(t, UIdle)
          BY <1>i, <4>4
        <4>5. CASE UGoto(t, FinishRow(utask[t], tier))
          <5>1. PICK r : r = FinishRow(utask[t], tier)
            OBVIOUS
          <5>2. r \in UTaskRows /\ r.pc = "finrow" /\ r.k = utask[t].k /\ r.vis = utask[t].vis
            BY <1>t, <5>1, FinishFields
          <5> QED BY <4>2, <4>5, <5>1, <5>2
        <4>6. ASSUME NEW pc \in {"check", "append"}, UGoto(t, UTo(utask[t], pc))
              PROVE  \E r \in UTaskRows :
                        /\ UGoto(t, r) /\ r.pc = pc /\ r.k = utask[t].k /\ r.vis = utask[t].vis
          <5>1. PICK r : r = UTo(utask[t], pc)
            OBVIOUS
          <5>2. r \in UTaskRows /\ r.pc = pc /\ r.k = utask[t].k /\ r.vis = utask[t].vis
            BY <1>t, <4>3, <5>1, UMoveOn
          <5> QED BY <4>6, <5>1, <5>2
        <4> QED BY <4>1, <4>2, <4>4, <4>5, <4>6
      <3>3. CASE TusDrop(t)
        BY <1>i, <3>3 DEF TusDrop, UReturn
      <3>4. ASSUME NEW u \in UKeys, TusTerminate(t, u) PROVE UGoto(t, DropRow(u))
        BY <3>4 DEF TusTerminate, DropRow
      <3> QED BY <1>4, <3>1, <3>2, <3>3, <3>4, DropFields
    <2> QED BY <2>1, <2>2, <2>3, HandlerGoesOn
  <1>5. ASSUME TusFinishRow(t) \/ TusFinishPut(t) \/ TusFinishClean(t) PROVE AckRest
    <2>1. /\ utask[t].pc \in {"finrow", "finput", "finclean"} /\ utask[t].k \in UKeys
          /\ utask[t].k \in used
          /\ UNCHANGED <<ftask, used, asked, crossed, page>>
      BY <1>5, <1>t, Started DEF TusFinishRow, TusFinishPut, TusFinishClean, UAt, fhist
    <2>2. PICK p \in UTaskRows, u \in UKeys : p = utask[t] /\ u = p.k
      BY <1>t, <2>1
    <2>3. p.vis \in Buckets /\ Handles(p, u)
      BY <2>1, <2>2 DEF UTaskRows, Handles
    <2>4. Session(u, p.vis)
      BY <2>2, <2>3 DEF AckInv, Sessions, Session
    <2>5. \A x \in UKeys : sess'[x] \in {sess[x], "none"}
      BY <1>5, <1>t DEF TusFinishRow, TusFinishPut, TusFinishClean, DropSession, svars
    <2>6. ASSUME NEW pc \in {"finput", "finclean"}
          PROVE  UTo(p, pc) \in UTaskRows /\ UTo(p, pc).pc = pc /\ UTo(p, pc).k = u /\ UTo(p, pc).vis = p.vis
      <3>1. pc \in UPcs
        BY DEF UPcs
      <3> QED BY <2>2, <3>1, UMoveOn
    <2>7. UGoto(t, UIdle) \/ \E pc \in {"finput", "finclean"} : UGoto(t, UTo(p, pc))
      BY <1>5, <2>2 DEF TusFinishRow, TusFinishPut, TusFinishClean, UReturn, UTo
    <2>8. PICK r \in UTaskRows : UGoto(t, r) /\ (r = UIdle \/ \E pc \in {"finput", "finclean"} : r = UTo(p, pc))
      BY <1>i, <2>6, <2>7
    <2>9. utask'[t] = r /\ \A s \in UTasks : s # t => utask'[s] = utask[s]
      BY <1>g, <2>8
    <2>10. ASSUME NEW x \in UKeys, NEW v, Session(x, v) PROVE Session(x, v)'
      <3>1. \A s \in UTasks : Handles(utask'[s], x) => Handles(utask[s], x) /\ utask'[s].vis = utask[s].vis
        BY <1>i, <2>1, <2>2, <2>6, <2>8, <2>9 DEF Handles
      <3> QED BY <2>5, <2>10, <3>1, SessionKept
    <2>11. Sessions'
      BY <2>10 DEF AckInv, Sessions
    <2>12. acked' \subseteq used'
      <3>1. acked' = acked \/ acked' = acked \cup {u}
        BY <1>5, <2>2 DEF TusFinishRow, TusFinishPut, TusFinishClean, fhist
      <3> QED BY <2>1, <2>2, <3>1 DEF AckInv
    <2>13. /\ \A k \in FKeys : k # u => frow'[k] = frow[k] /\ fobj'[k] = fobj[k]
           /\ \A k \in FKeys : k # u => (k \in acked' => k \in acked)
      BY <1>5, <1>t, <2>2 DEF TusFinishRow, TusFinishPut, TusFinishClean, PutObjectIn, fhist
    <2>14. Orphans'
      <3>1. page.orphans \subseteq AKeys
        BY DEF AckInv, LogInv, FBase, FTypeOK
      <3>2. \A k \in page.orphans : k # u /\ k \in FKeys
        BY <1>t, <3>1 DEF FKeys
      <3> QED BY <2>1, <2>13, <3>2 DEF AckInv, Orphans
    <2>15. ASSUME NEW k \in FKeys, Good(k)', k # u PROVE KeyOK(k)'
      <3>1. KeyOK(k)
        BY <2>1, <2>15 DEF AckInv, Good
      <3>2. \A s \in UTasks : utask'[s] = utask[s] \/ utask'[s].k # k \/ utask'[s].pc \notin {"finput", "finclean"}
        BY <1>i, <2>6, <2>8, <2>9, <2>15
      <3> QED BY <2>1, <2>10, <2>13, <2>15, <3>1, <3>2, KeyMoves
    <2>16. ASSUME Good(u)' PROVE KeyOK(u)'
      <3>1. KeyOK(u) /\ u \in FKeys
        BY <1>t, <2>1, <2>16 DEF AckInv, Good
      <3>2. Alone(u) /\ Served(u) /\ UpOK(p, u)
        BY <2>2, <3>1 DEF KeyOK
      <3>3. Alone(u)'
        BY <2>1, <3>2 DEF Alone
      <3>4. \A s \in FTasks : FileOK(ftask[s], u) /\ ~ Uploader(ftask[s], u)
        BY <1>t, <3>1 DEF KeyOK, Keyed, RowKeyed, Uploader
      <3>5. \A s \in UTasks : UpOK(utask[s], u)
        BY <3>1 DEF KeyOK
      <3>6. /\ fobj[u] \subseteq fobj'[u]
            /\ frow[u] # "none" => frow'[u] = frow[u]
            /\ frow'[u] = frow[u] \/ frow'[u] = p.vis
        BY <1>5, <1>t, <2>2, <3>1 DEF TusFinishRow, TusFinishPut, TusFinishClean, PutObjectIn
      <3>7. ASSUME NEW s \in FTasks PROVE FileOK(ftask[s], u)'
        <4>1. FileOK(ftask[s], u) /\ ~ Uploader(ftask[s], u)
          BY <3>4
        <4>2. (ftask[s].k = u /\ ftask[s].pc \in MoverPcs) => frow[u] # "none"
          BY <4>1 DEF FileOK, Mover
        <4> QED BY <2>1, <3>6, <4>1, <4>2 DEF FileOK, Uploader, Mover, Uploading, MoverPcs
      <3>8. /\ r.pc \in {"finput", "finclean"} => frow'[u] # "none"
            /\ r.pc = "finclean" => frow'[u] \in fobj'[u]
            /\ u \in acked' => u \in acked \/ (frow[u] # "none" /\ frow[u] \in fobj[u])
        <4>1. CASE TusFinishRow(t)
          <5>1. r = UIdle \/ (r.pc = "finput" /\ frow'[u] # "none")
            <6>1. CASE UGoto(t, UIdle)
              BY <1>g, <2>9, <6>1
            <6>2. CASE UGoto(t, UTo(p, "finput")) /\ frow' = [frow EXCEPT ![u] = IF @ = "none" THEN p.vis ELSE @]
              BY <1>g, <1>t, <2>3, <2>6, <2>9, <3>1, <6>2 DEF Buckets
            <6> QED BY <2>2, <4>1, <6>1, <6>2 DEF TusFinishRow, UReturn, UTo
          <5> QED BY <1>i, <4>1, <5>1 DEF TusFinishRow, fhist
        <4>2. CASE TusFinishPut(t)
          <5>1. p.pc = "finput" /\ UNCHANGED <<frow, acked>>
            BY <2>2, <4>2 DEF TusFinishPut, UAt, fhist
          <5>2. frow[u] # "none" /\ (frow[u] \in fobj[u] \/ Session(u, frow[u]))
            BY <2>2, <3>2, <5>1 DEF UpOK, Served
          <5>3. frow[u] \in fobj[u] \/ frow[u] = p.vis
            BY <2>2, <2>3, <5>2 DEF Session
          <5>4. CASE UGoto(t, UIdle)
            BY <1>g, <1>i, <2>9, <5>1, <5>4
          <5>5. CASE fobj' = [fobj EXCEPT ![u] = @ \cup {p.vis}]
            BY <1>t, <3>1, <5>1, <5>2, <5>3, <5>5
          <5> QED BY <2>2, <4>2, <5>4, <5>5 DEF TusFinishPut, UReturn, PutObjectIn
        <4>3. CASE TusFinishClean(t)
          <5>1. p.pc = "finclean" /\ r = UIdle
            BY <1>g, <2>2, <2>9, <4>3 DEF TusFinishClean, UAt, UReturn
          <5> QED BY <1>i, <2>2, <3>2, <5>1 DEF UpOK
        <4> QED BY <1>5, <4>1, <4>2, <4>3
      <3>9. ASSUME NEW s \in UTasks PROVE UpOK(utask[s], u)'
        <4>1. CASE s = t
          BY <2>9, <3>8, <4>1 DEF UpOK
        <4>2. CASE s # t
          <5>1. UpOK(utask[s], u) /\ utask'[s] = utask[s]
            BY <2>9, <3>5, <4>2
          <5> QED BY <3>6, <5>1 DEF UpOK
        <4> QED BY <4>1, <4>2
      <3>10. Served(u)'
        <4>1. u \in acked' => frow'[u] \in fobj'[u] /\ frow'[u] # "none"
          BY <3>2, <3>6, <3>8 DEF Served
        <4>2. \/ frow'[u] = "none" \/ frow'[u] \in fobj'[u] \/ Session(u, frow[u])'
          <5>1. CASE frow'[u] = p.vis
            <6>1. PICK v : v = p.vis
              OBVIOUS
            <6>2. Session(u, v)'
              BY <2>4, <2>10, <6>1
            <6> QED BY <5>1, <6>1, <6>2 DEF Session
          <5>2. CASE frow'[u] = frow[u]
            <6>1. PICK v : v = frow[u]
              OBVIOUS
            <6>2. v = "none" \/ v \in fobj[u] \/ Session(u, v)'
              BY <2>10, <3>2, <6>1 DEF Served
            <6> QED BY <3>6, <5>2, <6>1, <6>2 DEF Session
          <5> QED BY <3>6, <5>1, <5>2
        <4> QED BY <4>1, <4>2 DEF Served
      <3> QED BY <3>3, <3>7, <3>9, <3>10 DEF KeyOK
    <2>17. \A k \in FKeys : Good(k)' => KeyOK(k)'
      BY <2>15, <2>16
    <2> QED BY <2>11, <2>12, <2>14, <2>17 DEF AckRest
  <1> QED BY <1>1, <1>2, <1>3, <1>4, <1>5 DEF TusStep

LEMMA AckSteps == AckInv /\ [UNext]_upvars => AckInv'
  <1> SUFFICES ASSUME AckInv, [UNext]_upvars PROVE AckInv'
    OBVIOUS
  <1>1. LogInv'
    BY LogSteps DEF AckInv, LogStep
  <1>2. AckRest => AckInv'
    BY <1>1 DEF AckRest, AckInv
  <1>t. sess \in [UKeys -> Buckets \cup {"none"}] /\ AckInv
    BY DEF AckInv, LogInv, UState
  <1>3. ASSUME UNCHANGED <<frow, fobj, ftask, used, acked, asked, crossed, page, utask>>,
               \A u \in UKeys : sess'[u] \in {sess[u], "none"}
        PROVE  AckRest
    <2>1. ASSUME NEW u \in UKeys, NEW v, Session(u, v) PROVE Session(u, v)'
      BY <1>3, <2>1, SessionKept
    <2> QED BY <1>3, <2>1, UploadMoves DEF AckRest
  <1>4. UNCHANGED uvars => (Sessions')
    BY DEF uvars, svars, AckInv, Sessions, Session
  <1>5. ASSUME NEW t \in UTasks, TusStep(t) PROVE AckRest
    BY <1>5, UploadKeys
  <1>6. ASSUME NEW u \in UKeys, TusExpire(u) \/ SweepTenant(u) PROVE AckRest
    <2>1. UNCHANGED <<frow, fobj, ftask, used, acked, asked, crossed, page, utask>>
      BY <1>6 DEF TusExpire, SweepTenant, UNFILES, fvars, fhist
    <2>2. \A x \in UKeys : sess'[x] \in {sess[x], "none"}
      BY <1>6, <1>t DEF TusExpire, SweepTenant, DropSession
    <2> QED BY <1>3, <2>1, <2>2
  <1>7. ASSUME NEW t \in FTasks, FStep(t), UNCHANGED uvars PROVE AckRest
    BY <1>4, <1>7, FileKeys, FileOrphans DEF AckRest
  <1>8. ASSUME NEW k \in AKeys, ReconcileDeleteObject(k) \/ ReconcileDeleteRow(k), UNCHANGED uvars
        PROVE  AckRest
    <2>1. acked' \subseteq used'
      BY <1>8 DEF ReconcileDeleteObject, ReconcileDeleteRow, UNHIST, fhist, AckInv
    <2> QED BY <1>4, <1>8, <2>1, PageKeys DEF AckRest
  <1>9. ASSUME NEW n \in 1 .. MaxTier, SetTier(n), UNCHANGED uvars PROVE AckRest
    BY <1>3, <1>9 DEF SetTier, uvars, svars
  <1>10. ASSUME UCrash PROVE AckRest
    <2>1. /\ UNCHANGED <<frow, fobj, page, used, acked, asked, crossed, sess>>
          /\ \A t \in FTasks : ftask'[t] = FIdle
          /\ \A t \in UTasks : utask'[t] = UIdle
      BY <1>10 DEF UCrash, FCrash, UNHIST, fhist, svars
    <2>2. ASSUME NEW u \in UKeys, NEW v, Session(u, v) PROVE Session(u, v)'
      BY <2>1, <2>2, IdleFields DEF Session, Handles
    <2>3. Sessions'
      BY <2>2 DEF AckInv, Sessions
    <2>4. acked' \subseteq used' /\ Orphans'
      BY <2>1, IdleFields DEF AckInv, Orphans
    <2>5. ASSUME NEW k \in FKeys, Good(k)' PROVE KeyOK(k)'
      <3>1. KeyOK(k)
        BY <2>1, <2>5 DEF AckInv, Good
      <3>2. \A t \in FTasks : ftask'[t].pc = "idle"
        BY <2>1, IdleFields
      <3>3. \A t \in UTasks : utask'[t].pc \notin {"finput", "finclean"}
        BY <2>1, IdleFields
      <3> QED BY <2>1, <2>2, <3>1, <3>2, <3>3, KeyMoves
    <2> QED BY <2>3, <2>4, <2>5 DEF AckRest
  <1>11. ASSUME UNCHANGED upvars PROVE AckRest
    <2>1. UNCHANGED <<frow, fobj, ftask, used, acked, asked, crossed, page, utask>>
      BY <1>11 DEF upvars, uvars, svars, fvars, fhist
    <2>2. sess' = sess
      BY <1>11 DEF upvars, uvars, svars
    <2>3. \A u \in UKeys : sess'[u] \in {sess[u], "none"}
      BY <2>2
    <2> QED BY <1>3, <2>1, <2>3
  <1>12. ASSUME UNext PROVE AckRest
    <2>1. CASE \E t \in UTasks : TusStep(t)
      BY <1>5, <2>1
    <2>2. CASE \E u \in UKeys : TusExpire(u) \/ SweepTenant(u)
      BY <1>6, <2>2
    <2>3. CASE \E t \in FTasks : FStep(t) /\ UNCHANGED uvars
      BY <1>7, <2>3
    <2>4. CASE \E k \in AKeys : (ReconcileDeleteObject(k) \/ ReconcileDeleteRow(k)) /\ UNCHANGED uvars
      BY <1>8, <2>4
    <2>5. CASE \E n \in 1 .. MaxTier : SetTier(n) /\ UNCHANGED uvars
      BY <1>9, <2>5
    <2> QED BY <1>10, <1>12, <2>1, <2>2, <2>3, <2>4, <2>5 DEF UNext
  <1>13. AckRest
    BY <1>11, <1>12
  <1> QED BY <1>2, <1>13

(* For any number of files, uploads and handlers: a file whose upload was  *)
(* answered with success, that nobody asked to delete and no two handlers  *)
(* crossed on, is readable where its row points, at every await of a       *)
(* visibility change, across store failures, crashes, retried              *)
(* finalizations and the reconcile page.                                   *)
THEOREM AckedFilesReadable == USpec => []AckedReadable
  <1>1. UInit => AckInv
    <2> SUFFICES ASSUME UInit PROVE AckInv
      OBVIOUS
    <2>1. LogInv
      BY LogInitial
    <2>2. /\ \A t \in FTasks : ftask[t] = FIdle
          /\ \A t \in UTasks : utask[t] = UIdle
          /\ acked = {} /\ used = {} /\ page.orphans = {}
          /\ \A u \in UKeys : sess[u] = "none"
          /\ \A k \in FKeys : frow[k] = "none"
      BY DEF UInit, FInit
    <2>3. Sessions
      <3>1. "private" \in Buckets
        BY DEF Buckets
      <3> QED BY <2>2, <3>1, IdleFields DEF Sessions, Session, Handles
    <2>4. Orphans
      BY <2>2, IdleFields DEF Orphans
    <2>5. ASSUME NEW k \in FKeys PROVE KeyOK(k)
      <3>1. Alone(k) /\ Served(k)
        BY <2>2, IdleFields DEF Alone, Served, Uploader, Mover, Uploading, MoverPcs
      <3>2. \A t \in FTasks : FileOK(ftask[t], k)
        BY <2>2, IdleFields DEF FileOK, Uploader, Mover, Uploading, MoverPcs
      <3>3. \A t \in UTasks : UpOK(utask[t], k)
        BY <2>2, IdleFields DEF UpOK
      <3> QED BY <3>1, <3>2, <3>3 DEF KeyOK
    <2> QED BY <2>1, <2>2, <2>3, <2>4, <2>5 DEF AckInv
  <1>2. AckInv => AckedReadable
    BY DEF AckInv, LogInv, FBase, FTypeOK, Good, KeyOK, Served, AckedReadable
  <1> QED BY <1>1, <1>2, AckSteps, PTL DEF USpec


----------------------------------------------------------------------------
(* RecordStore.  The cache has the committed settings except while a       *)
(* change has yet to invalidate it; a request or a subscriber that is not  *)
(* marked stale or late was admitted under settings that still stand.      *)

ConfigTypes ==
    /\ schema \in Schemas /\ scache \subseteq Schemas
    /\ change \in [pc : {"idle", "inval", "evict"}, evict : BOOLEAN]
    /\ rpcs \in [Rpcs -> RpcRows] /\ raced \subseteq Rpcs
    /\ save = NoSave \/ save \in [name : Rpcs, row : RpcRows, late : BOOLEAN]

(* A change that closes no channel takes no event from anybody. *)
Opens(old, new) ==
    /\ old.live => new.live
    /\ new.anon = old.anon /\ new.pol = old.pol
    /\ ~old.owner => ~new.owner

CacheTrue ==
    /\ change.pc # "inval" => scache \subseteq {schema}
    /\ change.pc = "inval" /\ ~change.evict => \A sc \in scache : Opens(sc, schema)
    /\ change.pc = "evict" => change.evict

GuardsMeet ==
    /\ \A n \in Rpcs \ raced : GuardAnonRpc(schema, rpcs[n])
    /\ save # NoSave /\ ~save.late => GuardAnonRpc(schema, save.row)

(* What the gate of each handler knows of its caller. *)
Admitted(op, who, r, sc) ==
    /\ op = "create" => RequireWriteCap(sc, who, "insert") /\ (who \in Users /\ sc.owner => r.owner = who)
    /\ op = "update" => RequireWriteCap(sc, who, "update") /\ r \in Rows
    /\ op = "delete" => RequireWriteCap(sc, who, "delete")
    /\ op \in {"read", "get"} => HasDmlCap(sc, who, "select") /\ ~(who = Anon /\ sc.owner)

TaskShape(r) ==
    /\ r = [pc |-> r.pc, op |-> r.op, who |-> r.who, id |-> r.id, row |-> r.row,
            sc |-> r.sc, rpc |-> r.rpc, stale |-> r.stale]
    /\ r.stale \in BOOLEAN
    /\ r.pc = "tx" => \E sc : r.sc = {sc} /\ Admitted(r.op, r.who, r.row, sc)
    /\ r.pc = "rpc" => /\ r.who \in Users \cup {Anon, Service}
                       /\ r.who # Service => r.rpc.anon
                       /\ r.who = Anon => ~r.rpc.bound

Standing(r) ==
    ~r.stale => /\ r.pc = "tx" => r.sc = {schema}
                /\ r.pc = "rpc" => scache \subseteq {schema} /\ GuardAnonRpc(schema, r.rpc)

TasksTrue ==
    /\ rtask = [t \in RTasks |-> rtask[t]]
    /\ \A t \in RTasks : TaskShape(rtask[t]) /\ Standing(rtask[t])

Hears(l) == l.pc \in {"gated", "on"}
MayListen(l, sc, set) ==
    /\ set.live
    /\ l.who = Anon => "select" \in set.anon /\ ~set.owner /\ ("select" \in set.pol => "select" \in sc.pol)
Closing == change.pc # "idle" /\ change.evict
ListensTrue(l) ==
    Hears(l) => /\ l.who \in {Anon, Service}
                /\ \E sc : l.sc = {sc} /\ (~l.late /\ ~Closing => MayListen(l, sc, schema))
LShape(l) == l.late \in BOOLEAN /\ l = [pc |-> l.pc, who |-> l.who, sc |-> l.sc, late |-> l.late]
SubsTrue ==
    /\ sub = [s \in Subs |-> sub[s]]
    /\ \A s \in Subs : LShape(sub[s]) /\ ListensTrue(sub[s])

RecInv == ConfigTypes /\ CacheTrue /\ GuardsMeet /\ TasksTrue /\ SubsTrue /\ ~trespass /\ ~leaked

----------------------------------------------------------------------------
(* Changes of settings. *)

LEMMA SettingsTyped ==
    ASSUME schema \in Schemas, NEW b \in BOOLEAN, NEW v \in SUBSET Verbs
    PROVE  /\ Owned(b) \in Schemas /\ Owned(b).pol = schema.pol
           /\ Unowned \in Schemas /\ ~Unowned.owner /\ Unowned.pol = schema.pol
           /\ WithPolicies(v) \in Schemas /\ WithPolicies(v).pol = v /\ WithPolicies(v).owner = schema.owner
           /\ WithAnonCaps(v) \in Schemas /\ WithAnonCaps(v).pol = schema.pol
           /\ WithAnonCaps(v).owner = schema.owner
           /\ WithUserCaps(v) \in Schemas /\ WithUserCaps(v).pol = schema.pol
           /\ WithUserCaps(v).owner = schema.owner
           /\ WithRealtime(b) \in Schemas /\ WithRealtime(b).pol = schema.pol
           /\ WithRealtime(b).owner = schema.owner
           /\ WithAudit(b) \in Schemas /\ WithAudit(b).pol = schema.pol /\ WithAudit(b).owner = schema.owner
           /\ Opens(schema, Unowned) /\ Opens(schema, WithUserCaps(v)) /\ Opens(schema, WithAudit(b))
           /\ b => Opens(schema, WithRealtime(b))
  <1>1. /\ Owned(b) \in Schemas /\ Owned(b).pol = schema.pol
    BY DEF Owned, Schemas
  <1>2. /\ Unowned \in Schemas /\ ~Unowned.owner /\ Unowned.pol = schema.pol /\ Opens(schema, Unowned)
    BY DEF Unowned, Schemas, Opens
  <1>3. /\ WithPolicies(v) \in Schemas /\ WithPolicies(v).pol = v /\ WithPolicies(v).owner = schema.owner
    BY DEF WithPolicies, Schemas
  <1>4. /\ WithAnonCaps(v) \in Schemas /\ WithAnonCaps(v).pol = schema.pol
        /\ WithAnonCaps(v).owner = schema.owner
    BY DEF WithAnonCaps, Schemas
  <1>5. /\ WithUserCaps(v) \in Schemas /\ WithUserCaps(v).pol = schema.pol
        /\ WithUserCaps(v).owner = schema.owner /\ Opens(schema, WithUserCaps(v))
    BY DEF WithUserCaps, Schemas, Opens
  <1>6. /\ WithRealtime(b) \in Schemas /\ WithRealtime(b).pol = schema.pol
        /\ WithRealtime(b).owner = schema.owner
        /\ b => Opens(schema, WithRealtime(b))
    BY DEF WithRealtime, Schemas, Opens
  <1>7. /\ WithAudit(b) \in Schemas /\ WithAudit(b).pol = schema.pol /\ WithAudit(b).owner = schema.owner
        /\ Opens(schema, WithAudit(b))
    BY DEF WithAudit, Schemas, Opens
  <1> QED BY <1>1, <1>2, <1>3, <1>4, <1>5, <1>6, <1>7

(* Reconfigure marks the requests that a change of settings overtook. *)
LEMMA TasksMarked ==
    ASSUME TasksTrue, scache' \subseteq scache,
           rtask' = [t \in RTasks |-> [rtask[t] EXCEPT !.stale = @ \/ (rtask[t] # RIdle /\ schema' # schema)]]
    PROVE  TasksTrue'
  <1>1. ASSUME NEW t \in RTasks PROVE TaskShape(rtask'[t]) /\ Standing(rtask[t])'
    <2>1. PICK r : r = rtask[t]
      OBVIOUS
    <2>2. TaskShape(r) /\ Standing(r)
      BY <2>1 DEF TasksTrue
    <2>3. PICK b \in BOOLEAN : b <=> (r.stale \/ (r # RIdle /\ schema' # schema))
      BY Zenon
    <2>4. b = (r.stale \/ (r # RIdle /\ schema' # schema))
      BY <2>2, <2>3, Zenon DEF TaskShape
    <2>5. PICK e : e = [r EXCEPT !.stale = b]
      OBVIOUS
    <2>6. rtask'[t] = e
      <3>1. rtask'[t] = [r EXCEPT !.stale = r.stale \/ (r # RIdle /\ schema' # schema)]
        BY <2>1
      <3> QED BY <2>4, <2>5, <3>1, Zenon
    <2>7. r = [pc |-> r.pc, op |-> r.op, who |-> r.who, id |-> r.id, row |-> r.row,
               sc |-> r.sc, rpc |-> r.rpc, stale |-> r.stale]
      BY <2>2 DEF TaskShape
    <2>8. e = [pc |-> r.pc, op |-> r.op, who |-> r.who, id |-> r.id, row |-> r.row,
               sc |-> r.sc, rpc |-> r.rpc, stale |-> b]
      BY <2>5, <2>7
    <2>9. /\ e.pc = r.pc /\ e.op = r.op /\ e.who = r.who /\ e.id = r.id /\ e.row = r.row
          /\ e.sc = r.sc /\ e.rpc = r.rpc /\ e.stale = b
      BY <2>8
    <2>10. e = [pc |-> e.pc, op |-> e.op, who |-> e.who, id |-> e.id, row |-> e.row,
                sc |-> e.sc, rpc |-> e.rpc, stale |-> e.stale]
      BY <2>8, <2>9
    <2>11. TaskShape(e)
      BY <2>2, <2>9, <2>10 DEF TaskShape
    <2>12. r.pc \in {"tx", "rpc"} => r # RIdle
      BY DEF RIdle
    <2>13. ~e.stale => /\ e.pc = "tx" => e.sc = {schema'}
                       /\ e.pc = "rpc" => scache' \subseteq {schema'} /\ GuardAnonRpc(schema', e.rpc)
      <3>1. SUFFICES ASSUME ~e.stale, e.pc \in {"tx", "rpc"}
                     PROVE  /\ e.pc = "tx" => e.sc = {schema'}
                            /\ e.pc = "rpc" => scache' \subseteq {schema'} /\ GuardAnonRpc(schema', e.rpc)
        OBVIOUS
      <3>2. schema' = schema /\ ~r.stale
        BY <2>3, <2>9, <2>12, <3>1
      <3>3. /\ e.pc = "tx" => e.sc = {schema}
            /\ e.pc = "rpc" => scache \subseteq {schema} /\ GuardAnonRpc(schema, e.rpc)
        BY <2>2, <2>9, <3>2 DEF Standing
      <3> QED BY <3>2, <3>3
    <2> QED BY <2>6, <2>11, <2>13 DEF Standing
  <1>2. rtask' = [t \in RTasks |-> rtask'[t]]
    OBVIOUS
  <1> QED BY <1>1, <1>2 DEF TasksTrue, TaskShape

(* A change of settings, from what its guard and its new settings promise. *)
LEMMA CommitKeeps ==
    ASSUME RecInv, Commit(schema', change'.evict), schema' \in Schemas, change'.evict \in BOOLEAN,
           \A n \in Rpcs \ raced : GuardAnonRpc(schema, rpcs[n]) => GuardAnonRpc(schema', rpcs[n]),
           ~change'.evict => Opens(schema, schema'),
           rtask' = [t \in RTasks |-> [rtask[t] EXCEPT !.stale = @ \/ (rtask[t] # RIdle /\ schema' # schema)]],
           UNCHANGED <<sub, trespass, leaked>>
    PROVE  RecInv'
  <1>1. /\ ConfigTypes /\ CacheTrue /\ GuardsMeet /\ TasksTrue /\ SubsTrue /\ ~trespass /\ ~leaked
        /\ change.pc = "idle" /\ change' = [pc |-> "inval", evict |-> change'.evict]
        /\ save' = IF save = NoSave THEN NoSave ELSE [save EXCEPT !.late = TRUE]
        /\ UNCHANGED <<scache, rpcs, raced>>
    BY DEF RecInv, Commit
  <1>2. change'.pc = "inval" /\ change' \in [pc : {"idle", "inval", "evict"}, evict : BOOLEAN]
    BY <1>1
  <1>3. save' = NoSave \/ (save' \in [name : Rpcs, row : RpcRows, late : BOOLEAN] /\ save'.late)
    <2>1. CASE save = NoSave
      BY <1>1, <2>1
    <2>2. CASE save # NoSave
      <3>1. save \in [name : Rpcs, row : RpcRows, late : BOOLEAN] /\ save' = [save EXCEPT !.late = TRUE]
        BY <1>1, <2>2 DEF ConfigTypes
      <3> QED BY <3>1
    <2> QED BY <2>1, <2>2
  <1>4. ConfigTypes'
    BY <1>1, <1>2, <1>3 DEF ConfigTypes
  <1>5. scache \subseteq {schema}
    BY <1>1 DEF CacheTrue
  <1>6. CacheTrue'
    BY <1>1, <1>2, <1>5 DEF CacheTrue
  <1>7. GuardsMeet'
    <2>1. \A n \in Rpcs \ raced : GuardAnonRpc(schema', rpcs[n])
      BY <1>1 DEF GuardsMeet
    <2> QED BY <1>1, <1>3, <2>1 DEF GuardsMeet
  <1>8. TasksTrue'
    BY <1>1, TasksMarked
  <1>9. ASSUME NEW s \in Subs PROVE ListensTrue(sub[s])'
    <2>1. ListensTrue(sub[s]) /\ sub' = sub /\ ~Closing
      BY <1>1 DEF SubsTrue, Closing
    <2>2. Closing' <=> change'.evict
      BY <1>2 DEF Closing
    <2>3. ASSUME NEW sc, ~change'.evict, MayListen(sub[s], sc, schema) PROVE MayListen(sub[s], sc, schema')
      BY <2>3 DEF MayListen, Opens
    <2> QED BY <2>1, <2>2, <2>3 DEF ListensTrue
  <1>10. SubsTrue'
    BY <1>1, <1>9 DEF SubsTrue
  <1> QED BY <1>1, <1>4, <1>6, <1>7, <1>8, <1>10 DEF RecInv

LEMMA CommitOf ==
    ASSUME RecInv, NEW new \in Schemas, NEW ev \in BOOLEAN, Commit(new, ev),
           \A n \in Rpcs \ raced : GuardAnonRpc(schema, rpcs[n]) => GuardAnonRpc(new, rpcs[n]),
           ~ev => Opens(schema, new),
           rtask' = [t \in RTasks |-> [rtask[t] EXCEPT !.stale = @ \/ (rtask[t] # RIdle /\ schema' # schema)]],
           UNCHANGED <<sub, trespass, leaked>>
    PROVE  RecInv'
  <1>1. schema' = new /\ change' = [pc |-> "inval", evict |-> ev]
    BY DEF Commit
  <1>2. change'.evict = ev
    BY <1>1
  <1>3. Commit(schema', change'.evict)
    BY <1>1, <1>2
  <1> QED BY <1>1, <1>2, <1>3, CommitKeeps

(* The guards of the three kinds of change: an owner scope, policies, and  *)
(* what touches neither.                                                   *)
LEMMA GuardsSuffice ==
    ASSUME NEW new, NEW r, GuardAnonRpc(schema, r),
           \/ new.pol = schema.pol /\ (r.kind = "sql" /\ r.anon => r.bound)
           \/ new.pol = schema.pol /\ new.owner = schema.owner
           \/ new.pol = schema.pol /\ ~new.owner
           \/ new.pol \subseteq schema.pol /\ new.owner = schema.owner
           \/ ~(r.kind = "sql" /\ r.anon)
    PROVE  GuardAnonRpc(new, r)
  BY DEF GuardAnonRpc

LEMMA ConfigureKeeps ==
    ASSUME RecInv, Configure,
           rtask' = [t \in RTasks |-> [rtask[t] EXCEPT !.stale = @ \/ (rtask[t] # RIdle /\ schema' # schema)]],
           UNCHANGED <<sub, trespass, leaked>>
    PROVE  RecInv'
  <1>0. schema \in Schemas /\ schema.pol \in SUBSET Verbs
    BY DEF RecInv, ConfigTypes, Schemas
  <1>y. PICK y \in BOOLEAN : y = TRUE
    OBVIOUS
  <1>n. PICK no \in BOOLEAN : no = FALSE
    OBVIOUS
  <1>1. ASSUME NEW b \in BOOLEAN, GuardOwnerChange, Commit(Owned(b), TRUE) PROVE RecInv'
    <2>1. Commit(Owned(b), y) /\ y
      BY <1>y, <1>1, Zenon
    <2>2. Owned(b) \in Schemas /\ Owned(b).pol = schema.pol
      BY <1>0, SettingsTyped
    <2>3. \A n \in Rpcs \ raced : GuardAnonRpc(schema, rpcs[n]) => GuardAnonRpc(Owned(b), rpcs[n])
      BY <1>1, <2>2, GuardsSuffice DEF GuardOwnerChange
    <2> QED BY <2>1, <2>2, <2>3, CommitOf
  <1>2. ASSUME Commit(Unowned, FALSE) PROVE RecInv'
    <2>1. Commit(Unowned, no) /\ ~no
      BY <1>n, <1>2, Zenon
    <2>2. Unowned \in Schemas /\ ~Unowned.owner /\ Unowned.pol = schema.pol /\ Opens(schema, Unowned)
      BY <1>0, <1>y, SettingsTyped
    <2>3. \A n \in Rpcs \ raced : GuardAnonRpc(schema, rpcs[n]) => GuardAnonRpc(Unowned, rpcs[n])
      BY <2>2, GuardsSuffice
    <2> QED BY <2>1, <2>2, <2>3, CommitOf
  <1>3. ASSUME NEW pol \in SUBSET Verbs, GuardPolicyChange \/ pol \subseteq schema.pol,
               Commit(WithPolicies(pol), TRUE)
        PROVE  RecInv'
    <2>1. Commit(WithPolicies(pol), y) /\ y
      BY <1>y, <1>3, Zenon
    <2>2. WithPolicies(pol) \in Schemas /\ WithPolicies(pol).pol = pol /\ WithPolicies(pol).owner = schema.owner
      BY <1>0, <1>y, SettingsTyped
    <2>3. \A n \in Rpcs \ raced : GuardAnonRpc(schema, rpcs[n]) => GuardAnonRpc(WithPolicies(pol), rpcs[n])
      BY <1>3, <2>2, GuardsSuffice DEF GuardPolicyChange
    <2> QED BY <2>1, <2>2, <2>3, CommitOf
  <1>4. ASSUME NEW caps \in SUBSET Verbs, Commit(WithAnonCaps(caps), TRUE) \/ Commit(WithUserCaps(caps), FALSE)
        PROVE  RecInv'
    <2>1. CASE Commit(WithAnonCaps(caps), TRUE)
      <3>1. Commit(WithAnonCaps(caps), y) /\ y
        BY <1>y, <2>1, Zenon
      <3>2. /\ WithAnonCaps(caps) \in Schemas /\ WithAnonCaps(caps).pol = schema.pol
            /\ WithAnonCaps(caps).owner = schema.owner
        BY <1>0, <1>y, SettingsTyped
      <3>3. \A n \in Rpcs \ raced : GuardAnonRpc(schema, rpcs[n]) => GuardAnonRpc(WithAnonCaps(caps), rpcs[n])
        BY <3>2, GuardsSuffice
      <3> QED BY <3>1, <3>2, <3>3, CommitOf
    <2>2. CASE Commit(WithUserCaps(caps), FALSE)
      <3>1. Commit(WithUserCaps(caps), no) /\ ~no
        BY <1>n, <2>2, Zenon
      <3>2. /\ WithUserCaps(caps) \in Schemas /\ WithUserCaps(caps).pol = schema.pol
            /\ WithUserCaps(caps).owner = schema.owner /\ Opens(schema, WithUserCaps(caps))
        BY <1>0, <1>y, SettingsTyped
      <3>3. \A n \in Rpcs \ raced : GuardAnonRpc(schema, rpcs[n]) => GuardAnonRpc(WithUserCaps(caps), rpcs[n])
        BY <3>2, GuardsSuffice
      <3> QED BY <3>1, <3>2, <3>3, CommitOf
    <2> QED BY <1>4, <2>1, <2>2
  <1>5. ASSUME NEW b \in BOOLEAN, Commit(WithRealtime(b), ~b) \/ Commit(WithAudit(b), FALSE)
        PROVE  RecInv'
    <2>0. {} \in SUBSET Verbs
      OBVIOUS
    <2>1. CASE Commit(WithRealtime(b), ~b)
      <3>1. PICK ev \in BOOLEAN : ev = ~b
        OBVIOUS
      <3>2. Commit(WithRealtime(b), ev) /\ (~ev => b)
        BY <2>1, <3>1, Zenon
      <3>3. /\ WithRealtime(b) \in Schemas /\ WithRealtime(b).pol = schema.pol
            /\ WithRealtime(b).owner = schema.owner
            /\ b => Opens(schema, WithRealtime(b))
        BY <1>0, <2>0, SettingsTyped
      <3>4. \A n \in Rpcs \ raced : GuardAnonRpc(schema, rpcs[n]) => GuardAnonRpc(WithRealtime(b), rpcs[n])
        BY <3>3, GuardsSuffice
      <3> QED BY <3>2, <3>3, <3>4, CommitOf
    <2>2. CASE Commit(WithAudit(b), FALSE)
      <3>1. Commit(WithAudit(b), no) /\ ~no
        BY <1>n, <2>2, Zenon
      <3>2. /\ WithAudit(b) \in Schemas /\ WithAudit(b).pol = schema.pol /\ WithAudit(b).owner = schema.owner
            /\ Opens(schema, WithAudit(b))
        BY <1>0, <2>0, SettingsTyped
      <3>3. \A n \in Rpcs \ raced : GuardAnonRpc(schema, rpcs[n]) => GuardAnonRpc(WithAudit(b), rpcs[n])
        BY <3>2, GuardsSuffice
      <3> QED BY <3>1, <3>2, <3>3, CommitOf
    <2> QED BY <1>5, <2>1, <2>2
  <1>6. CASE Invalidate
    <2>1. /\ change.pc = "inval" /\ scache' = {}
          /\ change' = IF change.evict THEN [change EXCEPT !.pc = "evict"] ELSE Quiet
          /\ UNCHANGED <<schema, changes, rpcs, save, raced>>
      BY <1>6 DEF Invalidate
    <2>2. change \in [pc : {"idle", "inval", "evict"}, evict : BOOLEAN]
      BY DEF RecInv, ConfigTypes
    <2>3. /\ change' \in [pc : {"idle", "inval", "evict"}, evict : BOOLEAN]
          /\ change'.pc # "inval" /\ (change'.pc = "evict" => change'.evict)
          /\ (Closing' <=> Closing)
      <3>1. CASE change.evict
        <4>1. change' = [change EXCEPT !.pc = "evict"]
          BY <2>1, <3>1
        <4>2. /\ change' \in [pc : {"idle", "inval", "evict"}, evict : BOOLEAN]
              /\ change'.pc = "evict" /\ change'.evict = change.evict
          BY <2>2, <4>1
        <4> QED BY <2>1, <3>1, <4>2 DEF Closing
      <3>2. CASE ~change.evict
        <4>1. change' = [pc |-> "idle", evict |-> FALSE]
          BY <2>1, <3>2 DEF Quiet
        <4>2. change' \in [pc : {"idle", "inval", "evict"}, evict : BOOLEAN] /\ change'.pc = "idle"
          BY <4>1
        <4> QED BY <2>1, <3>2, <4>2 DEF Closing
      <3> QED BY <3>1, <3>2
    <2>4. ConfigTypes' /\ CacheTrue' /\ GuardsMeet'
      BY <2>1, <2>3 DEF RecInv, ConfigTypes, CacheTrue, GuardsMeet
    <2>5. TasksTrue'
      BY <2>1, TasksMarked DEF RecInv
    <2>6. SubsTrue'
      BY <2>1, <2>3 DEF RecInv, SubsTrue, ListensTrue
    <2> QED BY <2>4, <2>5, <2>6 DEF RecInv
  <1>7. ASSUME NEW v \in UNION PolicySets, McpSetPolicy(v) \/ McpClearPolicy(v) \/ DeletePolicy(v) PROVE RecInv'
    <2>1. schema.pol \cup {v} \in SUBSET Verbs /\ schema.pol \ {v} \in SUBSET Verbs
      BY <1>0, ConfigAssumption DEF Verbs
    <2> QED BY <1>3, <1>7, <2>1 DEF McpSetPolicy, McpClearPolicy, DeletePolicy, SetPolicyTool, ClearPolicyTool
  <1>8. ASSUME NEW pol \in PolicySets, PutPolicies(pol) \/ AdminUpdatePolicies(pol) PROVE RecInv'
    <2>1. PICK p \in Replaced(pol) : Commit(WithPolicies(p), TRUE) /\ (pol # {} => GuardPolicyChange)
      BY <1>8 DEF PutPolicies, AdminUpdatePolicies
    <2>2. p \subseteq pol \cup schema.pol
      BY <2>1 DEF Replaced
    <2>3. p \in SUBSET Verbs /\ (pol = {} => p \subseteq schema.pol)
      BY <1>0, <2>2, ConfigAssumption DEF Verbs
    <2> QED BY <1>3, <2>1, <2>3
  <1>9. ASSUME NEW s \in CapSets, McpSetAnonCaps(s) \/ UpdateAnonCaps(s) \/ McpSetUserCaps(s) \/ UpdateUserCaps(s)
        PROVE  RecInv'
    <2>1. s \in SUBSET Verbs
      BY ConfigAssumption DEF Verbs
    <2> QED BY <1>4, <1>9, <2>1 DEF McpSetAnonCaps, UpdateAnonCaps, McpSetUserCaps, UpdateUserCaps,
                                     SetAnonCapsTool, SetUserCapsTool
  <1>10. ASSUME NEW b \in BOOLEAN,
                \/ McpSetOwnerField(b) \/ SetOwnerFieldHandler(b)
                \/ McpSetRealtime(b) \/ PutRealtime(b) \/ UpdateRealtime(b)
                \/ McpSetAuditEnabled(b) \/ PutAudit(b) \/ UpdateAudit(b)
         PROVE  RecInv'
    BY <1>1, <1>5, <1>10 DEF McpSetOwnerField, SetOwnerFieldTool, SetOwnerFieldHandler, McpSetRealtime,
          SetRealtimeTool, PutRealtime, UpdateRealtime, McpSetAuditEnabled, SetAuditTool, PutAudit, UpdateAudit
  <1>11. CASE ClearOwnerFieldTool \/ ClearOwnerFieldHandler
    BY <1>2, <1>11 DEF ClearOwnerFieldTool, ClearOwnerFieldHandler
  <1> QED BY <1>6, <1>7, <1>8, <1>9, <1>10, <1>11 DEF Configure

----------------------------------------------------------------------------
(* The registry of RPCs: each write is guarded on the settings that stand, *)
(* or is known as overtaken.                                               *)
LEMMA EditsKeep ==
    ASSUME RecInv, EditRpcs, UNCHANGED <<dvars, rtask, sub, trespass, leaked>>
    PROVE  RecInv'
  <1>0. /\ ConfigTypes /\ CacheTrue /\ GuardsMeet /\ TasksTrue /\ SubsTrue /\ ~trespass /\ ~leaked
        /\ rpcs \in [Rpcs -> RpcRows] /\ raced \subseteq Rpcs
    BY DEF RecInv, ConfigTypes
  <1>1. schema' = schema /\ scache' = scache /\ change' = change
    BY DEF EditRpcs, CreateRpc, UpdateRpc, RpcSaveGuard, DeleteRpc, RpcSaveWrite
  <1>2. CacheTrue' /\ TasksTrue' /\ SubsTrue' /\ ~trespass' /\ ~leaked'
    BY <1>0, <1>1 DEF CacheTrue, TasksTrue, Standing, SubsTrue, ListensTrue, Closing
  <1>3. ASSUME NEW n \in Rpcs, NEW r \in RpcRows, GuardAnonRpc(schema, r), rpcs' = [rpcs EXCEPT ![n] = r],
               raced \ {n} \subseteq raced', raced' \subseteq raced, save' = save \/ save' = NoSave
        PROVE  RecInv'
    <2>1. rpcs' \in [Rpcs -> RpcRows] /\ rpcs'[n] = r /\ \A m \in Rpcs : m # n => rpcs'[m] = rpcs[m]
      BY <1>0, <1>3
    <2>2. ConfigTypes'
      BY <1>0, <1>1, <1>3, <2>1 DEF ConfigTypes
    <2>3. \A m \in Rpcs \ raced' : GuardAnonRpc(schema, rpcs'[m])
      BY <1>0, <1>3, <2>1 DEF GuardsMeet
    <2>4. GuardsMeet'
      BY <1>0, <1>1, <1>3, <2>3 DEF GuardsMeet
    <2> QED BY <1>2, <2>2, <2>4 DEF RecInv
  <1>4. NoRpc \in RpcRows /\ GuardAnonRpc(schema, NoRpc)
    BY DEF NoRpc, RpcRows, GuardAnonRpc
  <1>5. ASSUME NEW n \in Rpcs, NEW r \in RpcRows, CreateRpc(n, r) \/ UpdateRpc(n, r) PROVE RecInv'
    BY <1>3, <1>5 DEF CreateRpc, UpdateRpc
  <1>6. ASSUME NEW n \in Rpcs, DeleteRpc(n) PROVE RecInv'
    BY <1>3, <1>4, <1>6 DEF DeleteRpc
  <1>7. ASSUME NEW n \in Rpcs, NEW r \in RpcRows, RpcSaveGuard(n, r) PROVE RecInv'
    <2>1. save' = [name |-> n, row |-> r, late |-> FALSE] /\ GuardAnonRpc(schema, r) /\ UNCHANGED <<rpcs, raced>>
      BY <1>7 DEF RpcSaveGuard
    <2>2. save' \in [name : Rpcs, row : RpcRows, late : BOOLEAN] /\ save'.row = r
      BY <2>1
    <2>3. ConfigTypes' /\ GuardsMeet'
      BY <1>0, <1>1, <2>1, <2>2 DEF ConfigTypes, GuardsMeet
    <2> QED BY <1>2, <2>3 DEF RecInv
  <1>8. CASE RpcSaveWrite
    <2>1. save # NoSave /\ save' = NoSave /\ save \in [name : Rpcs, row : RpcRows, late : BOOLEAN]
      BY <1>0, <1>8 DEF RpcSaveWrite, ConfigTypes
    <2>2. CASE UNCHANGED <<rpcs, raced>>
      <3>1. ConfigTypes' /\ GuardsMeet'
        BY <1>0, <1>1, <2>1, <2>2 DEF ConfigTypes, GuardsMeet
      <3> QED BY <1>2, <3>1 DEF RecInv
    <2>3. CASE /\ rpcs' = [rpcs EXCEPT ![save.name] = save.row]
               /\ raced' = IF save.late THEN raced \cup {save.name} ELSE raced \ {save.name}
      <3>1. PICK n \in Rpcs, r \in RpcRows : n = save.name /\ r = save.row
        BY <2>1
      <3>2. CASE ~save.late
        <4>1. GuardAnonRpc(schema, r)
          BY <1>0, <2>1, <3>1, <3>2 DEF GuardsMeet
        <4> QED BY <1>3, <2>1, <2>3, <3>1, <3>2, <4>1
      <3>3. CASE save.late
        <4>1. rpcs' \in [Rpcs -> RpcRows] /\ \A m \in Rpcs : m # n => rpcs'[m] = rpcs[m]
          BY <1>0, <2>3, <3>1
        <4>2. raced' = raced \cup {n}
          BY <2>3, <3>1, <3>3
        <4>3. ConfigTypes'
          BY <1>0, <1>1, <2>1, <4>1, <4>2 DEF ConfigTypes
        <4>4. GuardsMeet'
          BY <1>0, <1>1, <2>1, <4>1, <4>2 DEF GuardsMeet
        <4> QED BY <1>2, <4>3, <4>4 DEF RecInv
      <3> QED BY <3>2, <3>3
    <2> QED BY <1>8, <2>2, <2>3 DEF RpcSaveWrite
  <1> QED BY <1>5, <1>6, <1>7, <1>8 DEF EditRpcs

----------------------------------------------------------------------------
(* Requests. *)

(* A gate takes the cached settings, or loads the committed ones. *)
LEMMA LoadsKeep ==
    ASSUME RecInv, NEW sc, EnsureLoaded(sc), UNCHANGED <<schema, change, changes, rpcs, save, raced>>
    PROVE  /\ ConfigTypes' /\ CacheTrue' /\ GuardsMeet'
           /\ scache \subseteq {schema} => sc = schema /\ scache' \subseteq {schema}
           /\ change.pc # "inval" => sc = schema
           /\ sc \in Schemas
           /\ change.pc = "inval" /\ ~change.evict => Opens(sc, schema)
  <1>1. scache' = {sc} /\ sc \in (IF scache = {} THEN {schema} ELSE scache)
    BY DEF EnsureLoaded
  <1>2. sc \in Schemas /\ (scache \subseteq {schema} => sc = schema) /\ (change.pc # "inval" => sc = schema)
    BY <1>1 DEF RecInv, ConfigTypes, CacheTrue
  <1>3. change.pc = "inval" /\ ~change.evict => Opens(sc, schema)
    <2>1. Opens(schema, schema)
      BY DEF Opens
    <2> QED BY <1>1, <2>1 DEF RecInv, CacheTrue
  <1>4. ConfigTypes' /\ CacheTrue' /\ GuardsMeet'
    BY <1>1, <1>2, <1>3 DEF RecInv, ConfigTypes, CacheTrue, GuardsMeet
  <1> QED BY <1>1, <1>2, <1>3, <1>4

(* A step of one task that leaves the settings alone. *)
LEMMA TaskStep ==
    ASSUME RecInv, NEW t \in RTasks, NEW r, rtask' = [rtask EXCEPT ![t] = r], TaskShape(r), Standing(r)',
           ConfigTypes', CacheTrue', GuardsMeet', schema' = schema, change' = change,
           scache \subseteq {schema} => scache' \subseteq {schema},
           sub' = sub, ~trespass', ~leaked'
    PROVE  RecInv'
  <1>1. TasksTrue /\ SubsTrue
    BY DEF RecInv
  <1>2. rtask' = [u \in RTasks |-> rtask'[u]] /\ rtask'[t] = r /\ \A u \in RTasks : u # t => rtask'[u] = rtask[u]
    BY <1>1 DEF TasksTrue
  <1>3. Standing(rtask[t])'
    BY <1>2 DEF Standing
  <1>4. \A u \in RTasks : u # t => Standing(rtask[u])'
    BY <1>1, <1>2 DEF TasksTrue, Standing
  <1>5. \A u \in RTasks : TaskShape(rtask'[u])
    BY <1>1, <1>2 DEF TasksTrue
  <1>6. TasksTrue'
    BY <1>2, <1>3, <1>4, <1>5 DEF TasksTrue, TaskShape
  <1>7. SubsTrue'
    BY <1>1 DEF SubsTrue, ListensTrue, Closing
  <1> QED BY <1>6, <1>7 DEF RecInv

LEMMA IdleTask == TaskShape(RIdle) /\ RIdle.pc = "idle"
  <1>1. RIdle.pc = "idle" /\ RIdle.stale = FALSE
    BY DEF RIdle
  <1>2. RIdle = [pc |-> RIdle.pc, op |-> RIdle.op, who |-> RIdle.who, id |-> RIdle.id, row |-> RIdle.row,
                 sc |-> RIdle.sc, rpc |-> RIdle.rpc, stale |-> RIdle.stale]
    BY DEF RIdle
  <1> QED BY <1>1, <1>2 DEF TaskShape

(* A task by its fields, and the ways the handlers make one. *)
TaskOf(pc, op, who, id, row, sc, rpc, stale) ==
    [pc |-> pc, op |-> op, who |-> who, id |-> id, row |-> row, sc |-> sc, rpc |-> rpc, stale |-> stale]

LEMMA TaskFields ==
    ASSUME NEW pc, NEW op, NEW who, NEW id, NEW row, NEW sc, NEW rpc, NEW stale, NEW e,
           e = TaskOf(pc, op, who, id, row, sc, rpc, stale)
    PROVE  /\ e.pc = pc /\ e.op = op /\ e.who = who /\ e.id = id /\ e.row = row /\ e.sc = sc
           /\ e.rpc = rpc /\ e.stale = stale
           /\ e = [pc |-> e.pc, op |-> e.op, who |-> e.who, id |-> e.id, row |-> e.row,
                   sc |-> e.sc, rpc |-> e.rpc, stale |-> e.stale]
  <1>1. /\ e.pc = pc /\ e.op = op /\ e.who = who /\ e.id = id /\ e.row = row /\ e.sc = sc
        /\ e.rpc = rpc /\ e.stale = stale
    BY DEF TaskOf
  <1> QED BY <1>1 DEF TaskOf

GateRow(op, who, id, row, sc, stale) ==
    [RIdle EXCEPT !.pc = "tx", !.op = op, !.who = who, !.id = id, !.row = row, !.sc = sc, !.stale = stale]
CallRow(op, who, rpc, stale) ==
    [RIdle EXCEPT !.pc = "rpc", !.who = who, !.rpc = rpc, !.op = op, !.stale = stale]

LEMMA GateTask ==
    ASSUME NEW op, NEW who, NEW id, NEW row, NEW sc, NEW stale
    PROVE  GateRow(op, who, id, row, sc, stale) = TaskOf("tx", op, who, id, row, sc, NoRpc, stale)
  <1>1. PICK s : s = RIdle.stale
    OBVIOUS
  <1>2. PICK z : z = 0
    OBVIOUS
  <1>3. RIdle = TaskOf("idle", "none", NoUser, z, NoRow, {}, NoRpc, s)
    BY <1>1, <1>2 DEF RIdle, TaskOf
  <1>4. PICK a : a = [RIdle EXCEPT !.pc = "tx"]
    OBVIOUS
  <1>5. a = TaskOf("tx", "none", NoUser, z, NoRow, {}, NoRpc, s)
    BY <1>3, <1>4 DEF TaskOf
  <1>6. PICK b : b = [a EXCEPT !.op = op]
    OBVIOUS
  <1>7. b = TaskOf("tx", op, NoUser, z, NoRow, {}, NoRpc, s)
    BY <1>5, <1>6 DEF TaskOf
  <1>8. PICK c : c = [b EXCEPT !.who = who]
    OBVIOUS
  <1>9. c = TaskOf("tx", op, who, z, NoRow, {}, NoRpc, s)
    BY <1>7, <1>8 DEF TaskOf
  <1>10. PICK d : d = [c EXCEPT !.id = id]
    OBVIOUS
  <1>11. d = TaskOf("tx", op, who, id, NoRow, {}, NoRpc, s)
    BY <1>9, <1>10 DEF TaskOf
  <1>12. PICK e : e = [d EXCEPT !.row = row]
    OBVIOUS
  <1>13. e = TaskOf("tx", op, who, id, row, {}, NoRpc, s)
    BY <1>11, <1>12 DEF TaskOf
  <1>14. PICK f : f = [e EXCEPT !.sc = sc]
    OBVIOUS
  <1>15. f = TaskOf("tx", op, who, id, row, sc, NoRpc, s)
    BY <1>13, <1>14 DEF TaskOf
  <1>16. [f EXCEPT !.stale = stale] = TaskOf("tx", op, who, id, row, sc, NoRpc, stale)
    BY <1>15 DEF TaskOf
  <1>17. GateRow(op, who, id, row, sc, stale) = [f EXCEPT !.stale = stale]
    BY <1>4, <1>6, <1>8, <1>10, <1>12, <1>14 DEF GateRow
  <1> QED BY <1>16, <1>17

LEMMA CallTask ==
    ASSUME NEW op, NEW who, NEW rpc, NEW stale
    PROVE  CallRow(op, who, rpc, stale) = TaskOf("rpc", op, who, RIdle.id, RIdle.row, RIdle.sc, rpc, stale)
  <1>1. PICK i, w, c, s : i = RIdle.id /\ w = RIdle.row /\ c = RIdle.sc /\ s = RIdle.stale
    OBVIOUS
  <1>2. RIdle = TaskOf("idle", "none", NoUser, i, w, c, NoRpc, s)
    BY <1>1 DEF RIdle, TaskOf
  <1>3. PICK a : a = [RIdle EXCEPT !.pc = "rpc"]
    OBVIOUS
  <1>4. a = TaskOf("rpc", "none", NoUser, i, w, c, NoRpc, s)
    BY <1>2, <1>3 DEF TaskOf
  <1>5. PICK b : b = [a EXCEPT !.who = who]
    OBVIOUS
  <1>6. b = TaskOf("rpc", "none", who, i, w, c, NoRpc, s)
    BY <1>4, <1>5 DEF TaskOf
  <1>7. PICK d : d = [b EXCEPT !.rpc = rpc]
    OBVIOUS
  <1>8. d = TaskOf("rpc", "none", who, i, w, c, rpc, s)
    BY <1>6, <1>7 DEF TaskOf
  <1>9. PICK e : e = [d EXCEPT !.op = op]
    OBVIOUS
  <1>10. e = TaskOf("rpc", op, who, i, w, c, rpc, s)
    BY <1>8, <1>9 DEF TaskOf
  <1>11. [e EXCEPT !.stale = stale] = TaskOf("rpc", op, who, i, w, c, rpc, stale)
    BY <1>10 DEF TaskOf
  <1>12. CallRow(op, who, rpc, stale) = [e EXCEPT !.stale = stale]
    BY <1>3, <1>5, <1>7, <1>9 DEF CallRow
  <1> QED BY <1>1, <1>11, <1>12

(* A task that publishes keeps its fields but those the write gave it. *)
PublishRow(r, id, row) == [r EXCEPT !.pc = "publish", !.id = id, !.row = row]

LEMMA PublishTask ==
    ASSUME NEW r, TaskShape(r), NEW id, NEW row
    PROVE  TaskShape(PublishRow(r, id, row)) /\ PublishRow(r, id, row).pc = "publish"
  <1>1. r = TaskOf(r.pc, r.op, r.who, r.id, r.row, r.sc, r.rpc, r.stale) /\ r.stale \in BOOLEAN
    BY DEF TaskShape, TaskOf
  <1>2. PICK pc, op, who, i, w, c, p, s : r = TaskOf(pc, op, who, i, w, c, p, s) /\ s \in BOOLEAN
    BY <1>1, Zenon
  <1>3. PICK a : a = [r EXCEPT !.pc = "publish"]
    OBVIOUS
  <1>4. a = TaskOf("publish", op, who, i, w, c, p, s)
    BY <1>2, <1>3 DEF TaskOf
  <1>5. PICK b : b = [a EXCEPT !.id = id]
    OBVIOUS
  <1>6. b = TaskOf("publish", op, who, id, w, c, p, s)
    BY <1>4, <1>5 DEF TaskOf
  <1>7. PICK e : e = [b EXCEPT !.row = row]
    OBVIOUS
  <1>8. e = TaskOf("publish", op, who, id, row, c, p, s)
    BY <1>6, <1>7 DEF TaskOf
  <1>9. e = PublishRow(r, id, row)
    BY <1>3, <1>5, <1>7 DEF PublishRow
  <1>10. e.pc = "publish" /\ TaskShape(e)
    BY <1>2, <1>8, TaskFields DEF TaskShape
  <1> QED BY <1>9, <1>10

LEMMA ServiceTask ==
    ASSUME NEW id, NEW row
    PROVE  \E e : /\ e = [RIdle EXCEPT !.pc = "publish", !.op = "service", !.who = Service, !.id = id, !.row = row]
                  /\ TaskShape(e) /\ e.pc = "publish"
  <1>1. PICK i, w, c, s : i = RIdle.id /\ w = RIdle.row /\ c = RIdle.sc /\ s = RIdle.stale
    OBVIOUS
  <1>2. RIdle = TaskOf("idle", "none", NoUser, i, w, c, NoRpc, s)
    BY <1>1 DEF RIdle, TaskOf
  <1>s. s \in BOOLEAN
    BY <1>1, IdleTask DEF TaskShape
  <1>3. PICK a : a = [RIdle EXCEPT !.pc = "publish"]
    OBVIOUS
  <1>4. a = TaskOf("publish", "none", NoUser, i, w, c, NoRpc, s)
    BY <1>2, <1>3 DEF TaskOf
  <1>5. PICK b : b = [a EXCEPT !.op = "service"]
    OBVIOUS
  <1>6. b = TaskOf("publish", "service", NoUser, i, w, c, NoRpc, s)
    BY <1>4, <1>5 DEF TaskOf
  <1>7. PICK d : d = [b EXCEPT !.who = Service]
    OBVIOUS
  <1>8. d = TaskOf("publish", "service", Service, i, w, c, NoRpc, s)
    BY <1>6, <1>7 DEF TaskOf
  <1>9. TaskShape(d)
    BY <1>s, <1>8, TaskFields DEF TaskShape
  <1>10. [RIdle EXCEPT !.pc = "publish", !.op = "service", !.who = Service, !.id = id, !.row = row]
            = [d EXCEPT !.id = id, !.row = row]
    BY <1>3, <1>5, <1>7
  <1>11. PICK f : f = [d EXCEPT !.id = id]
    OBVIOUS
  <1>12. f = TaskOf("publish", "service", Service, id, w, c, NoRpc, s)
    BY <1>8, <1>11 DEF TaskOf
  <1>13. PICK e : e = [f EXCEPT !.row = row]
    OBVIOUS
  <1>14. e = TaskOf("publish", "service", Service, id, row, c, NoRpc, s)
    BY <1>12, <1>13 DEF TaskOf
  <1>15. TaskShape(e) /\ e.pc = "publish"
    BY <1>s, <1>14, TaskFields DEF TaskShape
  <1> QED BY <1>10, <1>11, <1>13, <1>15

(* A step of a task that admits nobody: it ends, or goes on to publish. *)
LEMMA EndingStep ==
    ASSUME RecInv, NEW t \in RTasks, NEW r, rtask' = [rtask EXCEPT ![t] = r], TaskShape(r),
           r.pc \in {"idle", "publish"}, ROthers, ~trespass'
    PROVE  RecInv'
  <1>1. UNCHANGED <<cvars, sub, leaked>>
    BY DEF ROthers
  <1>2. ConfigTypes' /\ CacheTrue' /\ GuardsMeet' /\ ~leaked'
    BY <1>1 DEF cvars, RecInv, ConfigTypes, CacheTrue, GuardsMeet
  <1>3. Standing(r)'
    BY DEF Standing
  <1> QED BY <1>1, <1>2, <1>3, TaskStep DEF cvars

(* Passing a gate. *)
LEMMA EnterKeeps ==
    ASSUME RecInv, NEW t \in RTasks, NEW op, NEW who, NEW i, NEW row, NEW sc,
           Enter(t, op, who, i, row, sc), Admitted(op, who, row, sc)
    PROVE  RecInv'
  <1>1. /\ EnsureLoaded(sc) /\ UNCHANGED <<schema, change, changes, rpcs, save, raced, dvars, sub, trespass, leaked>>
        /\ rtask' = [rtask EXCEPT ![t] = GateRow(op, who, i, row, {sc}, change.pc = "inval")]
    BY DEF Enter, RGoto, GateRow
  <1>2. PICK st \in BOOLEAN : st = (change.pc = "inval")
    BY Zenon
  <1>3. PICK e : e = TaskOf("tx", op, who, i, row, {sc}, NoRpc, st)
    OBVIOUS
  <1>4. rtask' = [rtask EXCEPT ![t] = e]
    <2>1. GateRow(op, who, i, row, {sc}, st) = e
      BY <1>3, GateTask
    <2> QED BY <1>1, <1>2, <2>1, Zenon
  <1>5. /\ ConfigTypes' /\ CacheTrue' /\ GuardsMeet'
        /\ scache \subseteq {schema} => sc = schema /\ scache' \subseteq {schema}
        /\ change.pc # "inval" => sc = schema
    BY <1>1, LoadsKeep
  <1>6. /\ e.pc = "tx" /\ e.op = op /\ e.who = who /\ e.row = row /\ e.sc = {sc} /\ e.stale = st
        /\ e = [pc |-> e.pc, op |-> e.op, who |-> e.who, id |-> e.id, row |-> e.row,
                sc |-> e.sc, rpc |-> e.rpc, stale |-> e.stale]
    BY <1>3, TaskFields
  <1>7. TaskShape(e)
    BY <1>6 DEF TaskShape
  <1>8. ~e.stale => e.sc = {schema}
    BY <1>2, <1>5, <1>6
  <1>9. Standing(e)'
    BY <1>1, <1>6, <1>8 DEF Standing
  <1>10. ~trespass' /\ ~leaked'
    BY <1>1 DEF RecInv
  <1> QED BY <1>1, <1>4, <1>5, <1>7, <1>9, <1>10, TaskStep

LEMMA GatesKeep ==
    ASSUME RecInv, RecordAssumption, NEW t \in RTasks, NEW who \in Callers, NEW sc,
           \/ \E r \in Rows : CreateHandler(t, who, r, sc) \/ (\E i \in Ids : UpdateHandler(t, who, i, r, sc))
           \/ \E i \in Ids : DeleteHandler(t, who, i, sc) \/ GetHandler(t, who, i, sc)
           \/ \E raw \in BOOLEAN : ListHandler(t, who, raw, sc)
           \/ PostList(t, who, sc) \/ PostAggregate(t, who, sc) \/ PostListExplain(t, who, sc)
           \/ SearchHandler(t, who, sc)
           \/ Enter(t, "read", Service, 0, NoRow, sc)
    PROVE  RecInv'
  <1>1. ASSUME NEW r \in Rows, CreateHandler(t, who, r, sc) PROVE RecInv'
    <2>1. PICK w : w = IF who \in Users /\ sc.owner THEN [r EXCEPT !.owner = who] ELSE r
      OBVIOUS
    <2>2. who \in Users /\ sc.owner => w.owner = who
      BY <2>1 DEF Rows
    <2>3. Admitted("create", who, w, sc)
      BY <1>1, <2>2 DEF CreateHandler, Admitted
    <2> QED BY <1>1, <2>1, <2>3, EnterKeeps DEF CreateHandler
  <1>2. ASSUME NEW r \in Rows, NEW i \in Ids, UpdateHandler(t, who, i, r, sc) PROVE RecInv'
    <2>1. Admitted("update", who, r, sc)
      BY <1>2 DEF UpdateHandler, Admitted
    <2> QED BY <1>2, <2>1, EnterKeeps DEF UpdateHandler
  <1>3. ASSUME NEW i \in Ids, DeleteHandler(t, who, i, sc) PROVE RecInv'
    <2>1. Admitted("delete", who, NoRow, sc)
      BY <1>3 DEF DeleteHandler, Admitted
    <2> QED BY <1>3, <2>1, EnterKeeps DEF DeleteHandler
  <1>4. ASSUME \/ ReadAuth(sc, who, FALSE) \/ SearchGate(sc, who) \/ who = Service
        PROVE  HasDmlCap(sc, who, "select") /\ ~(who = Anon /\ sc.owner)
    <2>1. CASE ReadAuth(sc, who, FALSE)
      BY <2>1, RecordAssumption DEF ReadAuth, HasDmlCap
    <2>2. CASE SearchGate(sc, who)
      BY <2>2 DEF SearchGate
    <2>3. CASE who = Service
      BY <2>3, RecordAssumption DEF HasDmlCap
    <2> QED BY <1>4, <2>1, <2>2, <2>3
  <1>5. ASSUME NEW op \in {"read", "get"}, NEW i, Enter(t, op, who, i, NoRow, sc),
               \/ ReadAuth(sc, who, FALSE) \/ SearchGate(sc, who) \/ who = Service
        PROVE  RecInv'
    <2>1. Admitted(op, who, NoRow, sc)
      BY <1>4, <1>5 DEF Admitted
    <2> QED BY <1>5, <2>1, EnterKeeps
  <1>6. ASSUME Enter(t, "read", Service, 0, NoRow, sc) PROVE RecInv'
    <2>1. Admitted("read", Service, NoRow, sc)
      BY RecordAssumption DEF Admitted, HasDmlCap
    <2> QED BY <1>6, <2>1, EnterKeeps
  <1>7. ASSUME NEW i \in Ids, GetHandler(t, who, i, sc) PROVE RecInv'
    BY <1>5, <1>7 DEF GetHandler
  <1>8. ASSUME NEW raw \in BOOLEAN, ListHandler(t, who, raw, sc) PROVE RecInv'
    BY <1>5, <1>8 DEF ListHandler
  <1>9. ASSUME \/ PostList(t, who, sc) \/ PostAggregate(t, who, sc) \/ PostListExplain(t, who, sc)
               \/ SearchHandler(t, who, sc)
        PROVE  RecInv'
    BY <1>5, <1>9 DEF PostList, PostAggregate, PostListExplain, SearchHandler
  <1> QED BY <1>1, <1>2, <1>3, <1>6, <1>7, <1>8, <1>9

(* Who was admitted under the settings that stand touches only what they   *)
(* allow.                                                                  *)
LEMMA AdmittedMayTouch ==
    ASSUME RecordAssumption, NEW sc, NEW who, NEW v \in {"insert", "update", "delete"}, NEW r,
           RequireWriteCap(sc, who, v), PolicyAdmits(sc, who, v, r), who \in Users /\ sc.owner => r.owner = who
    PROVE  MayTouch(sc, who, v, r) /\ HasDmlCap(sc, who, v)
  BY DEF RequireWriteCap, HasDmlCap, PolicyAdmits, MayTouch, RecordAssumption

LEMMA ReadersMayTouch ==
    ASSUME RecordAssumption, NEW sc, NEW who, NEW i,
           who \in Users \cup {Anon, Service}, ~(who = Anon /\ sc.owner), Readable(sc, who, i)
    PROVE  MayTouch(sc, who, "select", rec[i])
  BY DEF Readable, OwnerReadFilter, PolicyAdmits, MayTouch, RecordAssumption

(* The settings a task was gated on. *)
LEMMA GatedOn ==
    ASSUME RecInv, NEW t \in RTasks, rtask[t].pc = "tx"
    PROVE  /\ Admitted(rtask[t].op, rtask[t].who, rtask[t].row, Gated(t))
           /\ ~rtask[t].stale => Gated(t) = schema
  <1>1. TaskShape(rtask[t]) /\ Standing(rtask[t])
    BY DEF RecInv, TasksTrue
  <1>2. PICK sc : rtask[t].sc = {sc} /\ Admitted(rtask[t].op, rtask[t].who, rtask[t].row, sc)
    BY <1>1 DEF TaskShape
  <1>3. Gated(t) = sc
    BY <1>2 DEF Gated
  <1> QED BY <1>1, <1>2, <1>3 DEF Standing

LEMMA TouchAllowed ==
    ASSUME RecInv, NEW t, NEW v, NEW rs, Touch(t, v, rs),
           ~rtask[t].stale => \A r \in rs : /\ MayTouch(schema, rtask[t].who, v, r)
                                            /\ rtask[t].rpc = NoRpc => HasDmlCap(schema, rtask[t].who, v)
    PROVE  ~trespass'
  <1>1. ~trespass
    BY DEF RecInv
  <1> QED BY <1>1, Zenon DEF Touch

LEMMA FailedTx == ASSUME RecInv, NEW t \in RTasks, TxFails(t), ROthers PROVE RecInv'
  <1>1. rtask' = [rtask EXCEPT ![t] = RIdle] /\ trespass' = trespass
    BY DEF TxFails, RReturn, RGoto
  <1>2. ~trespass'
    BY <1>1 DEF RecInv
  <1> QED BY <1>1, <1>2, IdleTask, EndingStep

LEMMA PublishedTx ==
    ASSUME RecInv, NEW t \in RTasks, NEW i, NEW r, Published(t, i, r), ROthers, ~trespass'
    PROVE  RecInv'
  <1>1. PICK e : e = PublishRow(rtask[t], i, r)
    OBVIOUS
  <1>2. TaskShape(rtask[t])
    BY DEF RecInv, TasksTrue
  <1>3. TaskShape(e) /\ e.pc = "publish"
    BY <1>1, <1>2, PublishTask
  <1>4. rtask' = [rtask EXCEPT ![t] = e]
    BY <1>1 DEF Published, RGoto, PublishRow
  <1> QED BY <1>3, <1>4, EndingStep

LEMMA WritesKeep ==
    ASSUME RecInv, RecordAssumption, NEW t \in RTasks, CreateTx(t) \/ UpdateTx(t) \/ DeleteTx(t)
    PROVE  RecInv'
  <1> DEFINE who == rtask[t].who
             sc == Gated(t)
  <1>0. ROthers /\ rtask[t].pc = "tx"
    BY DEF CreateTx, UpdateTx, DeleteTx, RAt
  <1>1. Admitted(rtask[t].op, who, rtask[t].row, sc) /\ (~rtask[t].stale => sc = schema)
    BY <1>0, GatedOn
  <1>2. CASE TxFails(t)
    BY <1>0, <1>2, FailedTx
  <1>3. CASE CreateTx(t) /\ ~TxFails(t)
    <2>1. /\ PolicyAdmits(sc, who, "insert", rtask[t].row) /\ rtask[t].op = "create"
          /\ Published(t, nextid, rtask[t].row) /\ Touch(t, "insert", {rtask[t].row})
      BY <1>3 DEF CreateTx, RAt
    <2>2. MayTouch(sc, who, "insert", rtask[t].row) /\ HasDmlCap(sc, who, "insert")
      BY <1>1, <2>1, AdmittedMayTouch DEF Admitted
    <2>3. ~trespass'
      BY <1>1, <2>1, <2>2, TouchAllowed
    <2> QED BY <1>0, <2>1, <2>3, PublishedTx
  <1>4. CASE UpdateTx(t) /\ ~TxFails(t)
    <2>0. PICK i : i = rtask[t].id
      OBVIOUS
    <2>1. PICK new : new = IF who \in Users /\ sc.owner THEN [rtask[t].row EXCEPT !.owner = rec[i].owner]
                                                        ELSE rtask[t].row
      OBVIOUS
    <2>2. /\ OwnerWriteFilter(sc, who, rec[i]) /\ rtask[t].op = "update"
          /\ PolicyAdmits(sc, who, "update", rec[i]) /\ PolicyAdmits(sc, who, "update", new)
          /\ Published(t, i, new) /\ Touch(t, "update", {rec[i], new})
      BY <1>4, <2>0, <2>1 DEF UpdateTx, RAt
    <2>3. RequireWriteCap(sc, who, "update") /\ rtask[t].row \in Rows
      BY <1>1, <2>2 DEF Admitted
    <2>4. who \in Users /\ sc.owner => rec[i].owner = who /\ new.owner = who
      BY <2>1, <2>2, <2>3 DEF OwnerWriteFilter, Rows
    <2>5. /\ MayTouch(sc, who, "update", rec[i]) /\ HasDmlCap(sc, who, "update")
          /\ MayTouch(sc, who, "update", new)
      BY <2>2, <2>3, <2>4, AdmittedMayTouch
    <2>6. ~trespass'
      BY <1>1, <2>2, <2>5, TouchAllowed
    <2> QED BY <1>0, <2>2, <2>6, PublishedTx
  <1>5. CASE DeleteTx(t) /\ ~TxFails(t)
    <2>0. PICK i : i = rtask[t].id
      OBVIOUS
    <2>1. /\ OwnerWriteFilter(sc, who, rec[i]) /\ rtask[t].op = "delete"
          /\ PolicyAdmits(sc, who, "delete", rec[i])
          /\ Published(t, i, NoRow) /\ Touch(t, "delete", {rec[i]})
      BY <1>5, <2>0 DEF DeleteTx, RAt
    <2>2. MayTouch(sc, who, "delete", rec[i]) /\ HasDmlCap(sc, who, "delete")
      BY <1>1, <2>1, AdmittedMayTouch DEF Admitted, OwnerWriteFilter
    <2>3. ~trespass'
      BY <1>1, <2>1, <2>2, TouchAllowed
    <2> QED BY <1>0, <2>1, <2>3, PublishedTx
  <1> QED BY <1>2, <1>3, <1>4, <1>5

LEMMA ReadsEnd ==
    ASSUME RecInv, RecordAssumption, NEW t \in RTasks, GetRow(t) \/ ReadRows(t)
    PROVE  RecInv'
  <1> DEFINE who == rtask[t].who
             sc == Gated(t)
  <1>1. /\ ROthers /\ rtask[t].pc = "tx" /\ rtask[t].op \in {"read", "get"}
        /\ rtask' = [rtask EXCEPT ![t] = RIdle]
    BY DEF GetRow, ReadRows, RAt, RReturn, RGoto
  <1>2. /\ HasDmlCap(sc, who, "select") /\ ~(who = Anon /\ sc.owner)
        /\ (~rtask[t].stale => sc = schema)
    BY <1>1, GatedOn DEF Admitted
  <1>3. who \in Users \cup {Anon, Service}
    BY <1>2 DEF HasDmlCap
  <1>4. \A i : Readable(sc, who, i) => MayTouch(sc, who, "select", rec[i])
    BY <1>2, <1>3, ReadersMayTouch
  <1>5. ~trespass'
    <2>1. CASE GetRow(t)
      <3>1. PICK rs : /\ rs = IF Readable(sc, who, rtask[t].id) THEN {rec[rtask[t].id]} ELSE {}
                      /\ Touch(t, "select", rs)
        BY <2>1 DEF GetRow
      <3>2. \A r \in rs : MayTouch(sc, who, "select", r)
        BY <1>4, <3>1
      <3> QED BY <1>2, <3>1, <3>2, TouchAllowed
    <2>2. CASE ReadRows(t)
      <3>1. PICK rs : /\ rs = {rec[i] : i \in {j \in Ids : Readable(sc, who, j)}}
                      /\ Touch(t, "select", rs)
        BY <2>2 DEF ReadRows
      <3>2. \A r \in rs : MayTouch(sc, who, "select", r)
        BY <1>4, <3>1
      <3> QED BY <1>2, <3>1, <3>2, TouchAllowed
    <2> QED BY <2>1, <2>2
  <1> QED BY <1>1, <1>5, IdleTask, EndingStep

(* A dry run of a deletion leaves no task behind. *)
LEMMA DryRunKeeps ==
    ASSUME RecInv, RecordAssumption, NEW t \in RTasks, NEW who \in Callers, NEW i, NEW sc,
           DeleteDryRun(t, who, i, sc)
    PROVE  RecInv'
  <1>1. /\ RequireWriteCap(sc, who, "delete") /\ OwnerWriteFilter(sc, who, rec[i])
        /\ PolicyAdmits(sc, who, "delete", rec[i]) /\ EnsureLoaded(sc)
        /\ trespass' = (trespass \/ (change.pc # "inval" /\ ~MayTouch(schema, who, "delete", rec[i])))
        /\ UNCHANGED <<schema, change, changes, rpcs, save, raced, dvars, rtask, sub, leaked>>
    BY DEF DeleteDryRun
  <1>2. /\ ConfigTypes' /\ CacheTrue' /\ GuardsMeet'
        /\ scache \subseteq {schema} => sc = schema /\ scache' \subseteq {schema}
        /\ change.pc # "inval" => sc = schema
    BY <1>1, LoadsKeep
  <1>3. MayTouch(sc, who, "delete", rec[i])
    BY <1>1, AdmittedMayTouch DEF OwnerWriteFilter
  <1>4. change.pc # "inval" => MayTouch(schema, who, "delete", rec[i])
    BY <1>2, <1>3
  <1>5. ~trespass
    BY DEF RecInv
  <1>6. ~trespass'
    BY <1>1, <1>4, <1>5, Zenon
  <1>7. TasksTrue' /\ SubsTrue' /\ ~leaked'
    BY <1>1, <1>2 DEF RecInv, TasksTrue, Standing, SubsTrue, ListensTrue, Closing
  <1> QED BY <1>2, <1>6, <1>7 DEF RecInv

----------------------------------------------------------------------------
(* The service's own writes, and stored RPCs. *)
LEMMA ServiceKeeps == ASSUME RecInv, NEW t \in RTasks, ServiceRequest(t) PROVE RecInv'
  <1>1. ASSUME NEW i, NEW r, ServiceTx(t, i, r) PROVE RecInv'
    <2>1. PICK e : /\ e = [RIdle EXCEPT !.pc = "publish", !.op = "service", !.who = Service, !.id = i, !.row = r]
                   /\ TaskShape(e) /\ e.pc = "publish"
      BY ServiceTask
    <2>2. rtask' = [rtask EXCEPT ![t] = e] /\ ROthers /\ trespass' = trespass
      BY <1>1, <2>1 DEF ServiceTx, RGoto
    <2>3. ~trespass'
      BY <2>2 DEF RecInv
    <2> QED BY <2>1, <2>2, <2>3, EndingStep
  <1>2. CASE UNCHANGED rvars
    BY <1>2 DEF rvars, cvars, RecInv, ConfigTypes, CacheTrue, GuardsMeet, TasksTrue, Standing, SubsTrue, ListensTrue,
                Closing
  <1>3. ASSUME NEW r \in Rows, McpInsertRecord(t, r) PROVE RecInv'
    BY <1>1, <1>3 DEF McpInsertRecord, InsertRecord
  <1>4. ASSUME NEW i \in Ids, NEW r \in Rows, McpUpdateRecord(t, i, r) PROVE RecInv'
    BY <1>1, <1>4 DEF McpUpdateRecord, UpdateRecord
  <1>5. ASSUME NEW i \in Ids, NEW dry \in BOOLEAN, McpDeleteRecord(t, i, dry) PROVE RecInv'
    BY <1>1, <1>2, <1>5 DEF McpDeleteRecord, DeleteRecord
  <1>6. ASSUME NEW r1 \in Rows, NEW r2 \in Rows, McpInsertRecords(t, r1, r2) \/ PostBatch(t, r1, r2) PROVE RecInv'
    BY <1>1, <1>6 DEF McpInsertRecords, PostBatch, BatchInsert
  <1>7. ASSUME NEW r1 \in Rows, NEW r2 \in Rows, NEW i \in Ids,
               McpUpsertRecords(t, i, r1, r2) \/ PostUpsert(t, i, r1, r2)
        PROVE  RecInv'
    <2>1. ServiceTx(t, i, r1)
      BY <1>7 DEF McpUpsertRecords, PostUpsert, BatchUpsert
    <2> QED BY <1>1, <2>1
  <1> QED BY <1>3, <1>4, <1>5, <1>6, <1>7 DEF ServiceRequest

LEMMA CallsAdmitted ==
    ASSUME RecInv, RecordAssumption, NEW t \in RTasks, NEW who \in Callers \cup {Service}, NEW n \in Rpcs,
           CallRpc(t, who, n)
    PROVE  RecInv'
  <1>1. /\ who = Service \/ rpcs[n].anon
        /\ who = Anon => ~rpcs[n].bound
        /\ rtask' = [rtask EXCEPT ![t] = CallRow(n, who, rpcs[n], n \in raced \/ change.pc = "inval")]
        /\ UNCHANGED <<cvars, sub, leaked, trespass>>
    BY DEF CallRpc, RGoto, CallRow, ROthers
  <1>2. PICK st \in BOOLEAN : st = (n \in raced \/ change.pc = "inval")
    BY Zenon
  <1>3. PICK i, w, c : i = RIdle.id /\ w = RIdle.row /\ c = RIdle.sc
    OBVIOUS
  <1>4. PICK e : e = TaskOf("rpc", n, who, i, w, c, rpcs[n], st)
    OBVIOUS
  <1>5. rtask' = [rtask EXCEPT ![t] = e]
    <2>1. CallRow(n, who, rpcs[n], st) = e
      BY <1>3, <1>4, CallTask
    <2> QED BY <1>1, <1>2, <2>1, Zenon
  <1>6. /\ e.pc = "rpc" /\ e.who = who /\ e.rpc = rpcs[n] /\ e.stale = st
        /\ e = [pc |-> e.pc, op |-> e.op, who |-> e.who, id |-> e.id, row |-> e.row,
                sc |-> e.sc, rpc |-> e.rpc, stale |-> e.stale]
    BY <1>4, TaskFields
  <1>7. who \in Users \cup {Anon, Service}
    BY RecordAssumption
  <1>8. TaskShape(e)
    BY <1>1, <1>6, <1>7 DEF TaskShape
  <1>9. ~e.stale => scache \subseteq {schema} /\ GuardAnonRpc(schema, e.rpc)
    <2>1. ~st => n \notin raced /\ change.pc # "inval"
      BY <1>2
    <2> QED BY <1>6, <2>1 DEF RecInv, CacheTrue, GuardsMeet
  <1>10. UNCHANGED <<schema, scache, change, changes, rpcs, save, raced>>
    BY <1>1 DEF cvars
  <1>11. Standing(e)'
    BY <1>6, <1>9, <1>10 DEF Standing
  <1>12. ConfigTypes' /\ CacheTrue' /\ GuardsMeet' /\ ~leaked' /\ ~trespass'
    BY <1>1, <1>10 DEF RecInv, ConfigTypes, CacheTrue, GuardsMeet
  <1> QED BY <1>1, <1>5, <1>8, <1>10, <1>11, <1>12, TaskStep

(* A stored body that was guarded reaches no row its caller may not see. *)
LEMMA BodiesKeepOut ==
    ASSUME RecInv, RecordAssumption, NEW t \in RTasks, rtask[t].pc = "rpc", rtask[t].rpc.kind = "sql",
           NEW rs, RpcTouch(t, rs),
           \A r \in rs : r # NoRow /\ rtask[t].rpc.bound /\ rtask[t].who \in Users => r.owner = rtask[t].who
    PROVE  ~trespass'
  <1>1. TaskShape(rtask[t]) /\ Standing(rtask[t]) /\ ~trespass
    BY DEF RecInv, TasksTrue
  <1>2. ASSUME ~rtask[t].stale, rtask[t].who # Service, NEW r \in rs, r # NoRow
        PROVE  schema.pol = {} /\ ~(schema.owner /\ r.owner # rtask[t].who)
    <2>1. schema.pol = {} /\ (schema.owner => rtask[t].rpc.bound)
      BY <1>1, <1>2 DEF TaskShape, Standing, GuardAnonRpc
    <2>2. rtask[t].who \in Users \cup {Anon} /\ (rtask[t].who = Anon => ~rtask[t].rpc.bound)
      BY <1>1, <1>2 DEF TaskShape
    <2> QED BY <1>2, <2>1, <2>2
  <1>3. ~(~rtask[t].stale /\ rtask[t].who # Service /\
            \E r \in rs \ {NoRow} : schema.pol # {} \/ (schema.owner /\ r.owner # rtask[t].who))
    BY <1>2
  <1> QED BY <1>1, <1>3, Zenon DEF RpcTouch

LEMMA NamedRows ==
    ASSUME NEW t, NEW r \in Named(t), rtask[t].rpc.bound, rtask[t].who \in Users
    PROVE  r.owner = rtask[t].who
  BY DEF Named

LEMMA RpcsKeep ==
    ASSUME RecInv, RecordAssumption, NEW t \in RTasks, RpcRequest(t)
    PROVE  RecInv'
  <1>1. ASSUME NEW who \in Callers, NEW n \in Rpcs, CallRpc(t, who, n) PROVE RecInv'
    BY <1>1, CallsAdmitted
  <1>2. ASSUME NEW n \in Rpcs, McpCallRpc(t, n) PROVE RecInv'
    BY <1>2, CallsAdmitted DEF McpCallRpc
  <1>3. CASE RollBackWriteRpc(t)
    <2>1. rtask' = [rtask EXCEPT ![t] = RIdle] /\ ROthers /\ trespass' = trespass
      BY <1>3 DEF RollBackWriteRpc, RReturn, RGoto
    <2>2. ~trespass'
      BY <2>1 DEF RecInv
    <2> QED BY <2>1, <2>2, IdleTask, EndingStep
  <1>4. CASE RunReadRpc(t)
    <2>1. rtask' = [rtask EXCEPT ![t] = RIdle] /\ ROthers /\ rtask[t].pc = "rpc" /\ rtask[t].rpc.kind = "sql"
      BY <1>4 DEF RunReadRpc, RReturn, RGoto, RpcAt
    <2>2. trespass' = trespass \/ RpcTouch(t, Named(t))
      BY <1>4 DEF RunReadRpc
    <2>3. ~trespass'
      <3>1. CASE trespass' = trespass
        BY <3>1 DEF RecInv
      <3>2. CASE RpcTouch(t, Named(t))
        BY <2>1, <3>2, NamedRows, BodiesKeepOut
      <3> QED BY <2>2, <3>1, <3>2
    <2> QED BY <2>1, <2>3, IdleTask, EndingStep
  <1>5. ASSUME NEW i \in Ids, NEW r \in Rows, NEW final \in Rows \cup {NoRow}, RunWriteRpc(t, i, r, final)
        PROVE  RecInv'
    <2>1. /\ rtask' = [rtask EXCEPT ![t] = RIdle] /\ ROthers /\ rtask[t].pc = "rpc" /\ rtask[t].rpc.kind = "sql"
          /\ rec[i] \in Named(t) /\ RpcTouch(t, {rec[i], r, final})
          /\ rtask[t].rpc.bound /\ rtask[t].who \in Users
                => r.owner = rtask[t].who /\ (final = NoRow \/ final.owner = rtask[t].who)
      BY <1>5 DEF RunWriteRpc, RReturn, RGoto, RpcAt
    <2>2. rtask[t].rpc.bound /\ rtask[t].who \in Users => rec[i].owner = rtask[t].who
      BY <2>1, NamedRows
    <2>3. ~trespass'
      BY <2>1, <2>2, BodiesKeepOut
    <2> QED BY <2>1, <2>3, IdleTask, EndingStep
  <1>6. ASSUME NEW sc, RunQueryRpc(t, sc) PROVE RecInv'
    <2>1. /\ rtask' = [rtask EXCEPT ![t] = RIdle] /\ EnsureLoaded(sc) /\ rtask[t].pc = "rpc"
          /\ rtask[t].rpc.kind = "query"
          /\ UNCHANGED <<schema, change, changes, rpcs, save, raced, dvars, sub, leaked>>
      BY <1>6 DEF RunQueryRpc, RReturn, RGoto, RpcAt
    <2>2. /\ ConfigTypes' /\ CacheTrue' /\ GuardsMeet'
          /\ scache \subseteq {schema} => sc = schema /\ scache' \subseteq {schema}
      BY <2>1, LoadsKeep
    <2>3. /\ TaskShape(rtask[t]) /\ Standing(rtask[t])
      BY DEF RecInv, TasksTrue
    <2>4. rtask[t].rpc # NoRpc
      BY <2>1 DEF NoRpc
    <2>5. ~rtask[t].stale => sc = schema
      BY <2>1, <2>2, <2>3 DEF Standing
    <2>6. ~trespass'
      <3>1. CASE trespass' = trespass
        BY <3>1 DEF RecInv
      <3>2. CASE trespass' # trespass
        <4>1. PICK rs : /\ rs = {rec[i] : i \in {j \in Ids : Readable(sc, rtask[t].who, j)}}
                        /\ Touch(t, "select", rs) /\ ReadAuth(sc, rtask[t].who, TRUE)
          BY <1>6, <3>2 DEF RunQueryRpc
        <4>2. /\ rtask[t].who \in Users \cup {Anon, Service} /\ ~(rtask[t].who = Anon /\ sc.owner)
          BY <4>1, RecordAssumption DEF ReadAuth
        <4>3. \A r \in rs : MayTouch(sc, rtask[t].who, "select", r)
          BY <4>1, <4>2, ReadersMayTouch
        <4> QED BY <2>4, <2>5, <4>1, <4>3, TouchAllowed
      <3> QED BY <3>1, <3>2
    <2>7. Standing(RIdle)' /\ ~leaked'
      BY <2>1, IdleTask DEF Standing, RecInv
    <2> QED BY <2>1, <2>2, <2>6, <2>7, IdleTask, TaskStep
  <1> QED BY <1>1, <1>2, <1>3, <1>4, <1>5, <1>6 DEF RpcRequest

----------------------------------------------------------------------------
(* Subscribers. *)
LEMMA SubStep ==
    ASSUME RecInv, NEW s \in Subs, NEW l, sub' = [sub EXCEPT ![s] = l], LShape(l), ListensTrue(l)',
           ConfigTypes', CacheTrue', GuardsMeet', schema' = schema, change' = change,
           scache \subseteq {schema} => scache' \subseteq {schema},
           UNCHANGED <<rtask, trespass, leaked>>
    PROVE  RecInv'
  <1>1. TasksTrue /\ SubsTrue /\ ~trespass /\ ~leaked
    BY DEF RecInv
  <1>2. sub' = [u \in Subs |-> sub'[u]] /\ sub'[s] = l /\ \A u \in Subs : u # s => sub'[u] = sub[u]
    BY <1>1 DEF SubsTrue
  <1>3. \A u \in Subs : u # s => ListensTrue(sub[u])'
    BY <1>1, <1>2 DEF SubsTrue, ListensTrue, Closing
  <1>4. ListensTrue(sub[s])'
    BY <1>2 DEF ListensTrue
  <1>5. \A u \in Subs : LShape(sub'[u])
    BY <1>1, <1>2 DEF SubsTrue
  <1>6. SubsTrue'
    BY <1>2, <1>3, <1>4, <1>5 DEF SubsTrue, LShape
  <1>7. TasksTrue'
    BY <1>1 DEF TasksTrue, Standing
  <1> QED BY <1>1, <1>6, <1>7 DEF RecInv

LEMMA DeafRow == LShape(Deaf) /\ ~Hears(Deaf)
  <1>1. Deaf.pc = "off" /\ Deaf.late \in BOOLEAN
    BY DEF Deaf
  <1>2. Deaf = [pc |-> Deaf.pc, who |-> Deaf.who, sc |-> Deaf.sc, late |-> Deaf.late]
    BY DEF Deaf
  <1> QED BY <1>1, <1>2 DEF LShape, Hears

(* A connection with one of its fields set. *)
LEMMA LRows ==
    ASSUME NEW l, LShape(l)
    PROVE  /\ \E e : /\ e = [l EXCEPT !.pc = "on"] /\ LShape(e)
                     /\ e.pc = "on" /\ e.who = l.who /\ e.sc = l.sc /\ e.late = l.late
           /\ \E e : /\ e = [l EXCEPT !.late = TRUE] /\ LShape(e)
                     /\ e.pc = l.pc /\ e.who = l.who /\ e.sc = l.sc /\ e.late
  <1>1. l = [pc |-> l.pc, who |-> l.who, sc |-> l.sc, late |-> l.late] /\ l.late \in BOOLEAN
    BY DEF LShape
  <1>2. PICK p, w, c, b : p = l.pc /\ w = l.who /\ c = l.sc /\ b = l.late
    OBVIOUS
  <1>3. PICK e : e = [l EXCEPT !.pc = "on"]
    OBVIOUS
  <1>4. e = [pc |-> "on", who |-> w, sc |-> c, late |-> b]
    BY <1>1, <1>2, <1>3
  <1>5. e.pc = "on" /\ e.who = w /\ e.sc = c /\ e.late = b
    BY <1>4
  <1>6. LShape(e)
    BY <1>1, <1>2, <1>4, <1>5 DEF LShape
  <1>7. PICK y \in BOOLEAN : y = TRUE
    OBVIOUS
  <1>8. PICK f : f = [l EXCEPT !.late = y]
    OBVIOUS
  <1>9. f = [pc |-> p, who |-> w, sc |-> c, late |-> y]
    BY <1>1, <1>2, <1>8
  <1>10. f.pc = p /\ f.who = w /\ f.sc = c /\ f.late = y
    BY <1>9
  <1>11. LShape(f)
    BY <1>9, <1>10 DEF LShape
  <1>12. f = [l EXCEPT !.late = TRUE]
    BY <1>7, <1>8, Zenon
  <1> QED BY <1>2, <1>3, <1>5, <1>6, <1>7, <1>10, <1>11, <1>12

LEMMA ListenersKeep == ASSUME RecInv, RecordAssumption, NEW s \in Subs, Listener(s) PROVE RecInv'
  <1>0. LShape(sub[s]) /\ ListensTrue(sub[s])
    BY DEF RecInv, SubsTrue
  <1>1. ASSUME NEW who \in {Anon, Service}, NEW sc, SubscribeHandler(s, who, sc) PROVE RecInv'
    <2>1. /\ EnsureLoaded(sc) /\ sc.live /\ (who = Anon => "select" \in sc.anon /\ ~sc.owner)
          /\ sub' = [sub EXCEPT ![s] = [pc |-> "gated", who |-> who, sc |-> {sc}, late |-> FALSE]]
          /\ UNCHANGED <<schema, change, changes, rpcs, save, raced, dvars, rtask, trespass, leaked>>
      BY <1>1 DEF SubscribeHandler
    <2>2. PICK l : l = [pc |-> "gated", who |-> who, sc |-> {sc}, late |-> FALSE]
      OBVIOUS
    <2>3. l.pc = "gated" /\ l.who = who /\ l.sc = {sc} /\ l.late = FALSE
      BY <2>2
    <2>4. LShape(l)
      <3>1. l = [pc |-> l.pc, who |-> l.who, sc |-> l.sc, late |-> l.late]
        BY <2>2
      <3> QED BY <2>3, <3>1 DEF LShape
    <2>5. /\ ConfigTypes' /\ CacheTrue' /\ GuardsMeet'
          /\ scache \subseteq {schema} => sc = schema /\ scache' \subseteq {schema}
          /\ change.pc # "inval" => sc = schema
          /\ change.pc = "inval" /\ ~change.evict => Opens(sc, schema)
      BY <2>1, LoadsKeep
    <2>6. ~Closing => MayListen(l, sc, schema)
      <3>1. CASE change.pc # "inval"
        BY <2>1, <2>3, <2>5, <3>1 DEF MayListen
      <3>2. CASE change.pc = "inval" /\ ~change.evict
        BY <2>1, <2>3, <2>5, <3>2 DEF MayListen, Opens
      <3> QED BY <3>1, <3>2 DEF Closing
    <2>7. ListensTrue(l)'
      BY <2>1, <2>3, <2>6 DEF ListensTrue, Closing
    <2> QED BY <2>1, <2>2, <2>4, <2>5, <2>7, SubStep
  <1>2. CASE Subscribe(s) \/ Disconnect(s)
    <2>1. /\ UNCHANGED <<cvars, dvars, rtask, trespass, leaked>> /\ Hears(sub[s])
          /\ sub' \in {[sub EXCEPT ![s] = [sub[s] EXCEPT !.pc = "on"]], [sub EXCEPT ![s] = Deaf]}
      BY <1>2 DEF Subscribe, Disconnect, Hears
    <2>2. UNCHANGED <<schema, scache, change, changes, rpcs, save, raced>>
      BY <2>1 DEF cvars
    <2>3. ConfigTypes' /\ CacheTrue' /\ GuardsMeet'
      BY <2>2 DEF RecInv, ConfigTypes, CacheTrue, GuardsMeet
    <2>4. CASE sub' = [sub EXCEPT ![s] = Deaf]
      <3>1. ListensTrue(Deaf)'
        BY DeafRow DEF ListensTrue
      <3> QED BY <2>1, <2>2, <2>3, <2>4, <3>1, DeafRow, SubStep
    <2>5. CASE sub' = [sub EXCEPT ![s] = [sub[s] EXCEPT !.pc = "on"]]
      <3>1. PICK e : /\ e = [sub[s] EXCEPT !.pc = "on"] /\ LShape(e)
                     /\ e.pc = "on" /\ e.who = sub[s].who /\ e.sc = sub[s].sc /\ e.late = sub[s].late
        BY <1>0, LRows
      <3>2. e.who \in {Anon, Service} /\ \E sc : e.sc = {sc} /\ (~e.late /\ ~Closing => MayListen(e, sc, schema))
        BY <1>0, <2>1, <3>1 DEF ListensTrue, MayListen
      <3>3. ListensTrue(e)'
        BY <2>2, <3>2 DEF ListensTrue, Closing
      <3> QED BY <2>1, <2>2, <2>3, <2>5, <3>1, <3>3, SubStep
    <2> QED BY <2>1, <2>4, <2>5
  <1> QED BY <1>1, <1>2 DEF Listener

(* evict_collection ends a change: who was on is off, who passed the gate  *)
(* is known as late.                                                       *)
LEMMA EvictionKeeps == ASSUME RecInv, EvictCollection PROVE RecInv'
  <1>1. /\ change.pc = "evict" /\ change' = Quiet
        /\ sub' = [s \in Subs |-> CASE sub[s].pc = "on" -> Deaf
                                    [] sub[s].pc = "gated" -> [sub[s] EXCEPT !.late = TRUE]
                                    [] OTHER -> sub[s]]
        /\ UNCHANGED <<schema, scache, changes, rpcs, save, raced, dvars, rtask, trespass, leaked>>
    BY DEF EvictCollection
  <1>2. change' \in [pc : {"idle", "inval", "evict"}, evict : BOOLEAN] /\ change'.pc = "idle"
    BY <1>1 DEF Quiet
  <1>3. ConfigTypes' /\ CacheTrue' /\ GuardsMeet' /\ TasksTrue' /\ ~trespass' /\ ~leaked'
    BY <1>1, <1>2 DEF RecInv, ConfigTypes, CacheTrue, GuardsMeet, TasksTrue, Standing
  <1>4. ASSUME NEW s \in Subs PROVE LShape(sub'[s]) /\ ListensTrue(sub[s])'
    <2>0. LShape(sub[s]) /\ ListensTrue(sub[s])
      BY DEF RecInv, SubsTrue
    <2>1. CASE sub[s].pc = "on"
      <3>1. sub'[s] = Deaf
        BY <1>1, <2>1
      <3> QED BY <3>1, DeafRow DEF ListensTrue, Hears
    <2>2. CASE sub[s].pc = "gated"
      <3>1. PICK e : /\ e = [sub[s] EXCEPT !.late = TRUE] /\ LShape(e)
                     /\ e.pc = sub[s].pc /\ e.who = sub[s].who /\ e.sc = sub[s].sc /\ e.late
        BY <2>0, LRows
      <3>2. sub'[s] = e
        BY <1>1, <2>2, <3>1
      <3>3. e.who \in {Anon, Service} /\ \E sc : e.sc = {sc}
        BY <2>0, <2>2, <3>1 DEF ListensTrue, Hears
      <3> QED BY <3>1, <3>2, <3>3 DEF ListensTrue
    <2>3. CASE ~Hears(sub[s])
      <3>1. sub'[s] = sub[s]
        BY <1>1, <2>3 DEF Hears
      <3> QED BY <2>0, <2>3, <3>1 DEF ListensTrue, Hears
    <2> QED BY <2>1, <2>2, <2>3 DEF Hears
  <1>5. SubsTrue'
    BY <1>1, <1>4 DEF SubsTrue, LShape
  <1> QED BY <1>3, <1>5 DEF RecInv

LEMMA PublishKeeps == ASSUME RecInv, RecordAssumption, NEW t \in RTasks, Publish(t) \/ RDrop(t) PROVE RecInv'
  <1>1. /\ rtask' = [rtask EXCEPT ![t] = RIdle] /\ UNCHANGED <<cvars, dvars, sub, trespass>>
    BY DEF Publish, RDrop, RReturn, RGoto
  <1>2. UNCHANGED <<schema, scache, change, changes, rpcs, save, raced>>
    BY <1>1 DEF cvars
  <1>3. ConfigTypes' /\ CacheTrue' /\ GuardsMeet' /\ ~trespass'
    BY <1>1, <1>2 DEF RecInv, ConfigTypes, CacheTrue, GuardsMeet
  <1>4. ~leaked
    BY DEF RecInv
  <1>5. ASSUME change.pc = "idle", NEW s \in Subs, ~sub[s].late, NEW r, Heard(s, r)
        PROVE  MayHear(sub[s].who, r)
    <2>1. ListensTrue(sub[s]) /\ Hears(sub[s]) /\ ~Closing
      BY <1>5 DEF RecInv, SubsTrue, Heard, Hears, Closing
    <2>2. PICK sc : sub[s].sc = {sc} /\ MayListen(sub[s], sc, schema) /\ sub[s].who \in {Anon, Service}
      BY <1>5, <2>1 DEF ListensTrue
    <2>3. sub[s].who = Service \/ "select" \notin sc.pol \/ r.val \in LowVals
      BY <1>5, <2>2 DEF Heard
    <2> QED BY <2>2, <2>3 DEF MayListen, MayHear, RecordAssumption
  <1>6. ~leaked'
    <2>1. CASE RDrop(t)
      BY <1>4, <2>1 DEF RDrop
    <2>2. CASE Publish(t)
      <3>1. leaked' = (leaked \/ (change.pc = "idle" /\ \E s \in Subs :
                    ~sub[s].late /\ Heard(s, rtask[t].row) /\ ~MayHear(sub[s].who, rtask[t].row)))
        BY <2>2 DEF Publish
      <3> QED BY <1>4, <1>5, <3>1, Zenon
    <2> QED BY <2>1, <2>2
  <1>7. Standing(RIdle)'
    BY IdleTask DEF Standing
  <1> QED BY <1>1, <1>2, <1>3, <1>6, <1>7, IdleTask, TaskStep

----------------------------------------------------------------------------
LEMMA RecInitial == RInit => RecInv
  <1> SUFFICES ASSUME RInit PROVE RecInv
    OBVIOUS
  <1>1. /\ schema \in [owner : {FALSE}, own : {FALSE}, audit : BOOLEAN, live : {TRUE},
                       anon : CapSets, user : CapSets, pol : {{}}]
        /\ scache = {} /\ change = Quiet /\ rpcs = [r \in Rpcs |-> NoRpc] /\ save = NoSave /\ raced = {}
        /\ rtask = [t \in RTasks |-> RIdle] /\ sub = [s \in Subs |-> Deaf] /\ trespass = FALSE /\ leaked = FALSE
    BY DEF RInit, CInit
  <1>2. schema \in Schemas
    BY <1>1, ConfigAssumption DEF Schemas, Verbs
  <1>3. change \in [pc : {"idle", "inval", "evict"}, evict : BOOLEAN] /\ change.pc = "idle"
    BY <1>1 DEF Quiet
  <1>4. NoRpc \in RpcRows /\ \A sc : GuardAnonRpc(sc, NoRpc)
    BY DEF NoRpc, RpcRows, GuardAnonRpc
  <1>5. ConfigTypes /\ CacheTrue /\ GuardsMeet
    BY <1>1, <1>2, <1>3, <1>4 DEF ConfigTypes, CacheTrue, GuardsMeet
  <1>6. TasksTrue
    <2>1. Standing(RIdle)
      BY IdleTask DEF Standing
    <2> QED BY <1>1, <2>1, IdleTask DEF TasksTrue
  <1>7. SubsTrue
    <2>1. ListensTrue(Deaf)
      BY DeafRow DEF ListensTrue
    <2> QED BY <1>1, <2>1, DeafRow DEF SubsTrue
  <1> QED BY <1>1, <1>5, <1>6, <1>7 DEF RecInv

LEMMA RecSteps == RecInv /\ [RNext]_rvars => RecInv'
  <1> SUFFICES ASSUME RecInv, [RNext]_rvars PROVE RecInv'
    OBVIOUS
  <1>0. RecordAssumption
    BY RecordAssumption
  <1>1. CASE UNCHANGED rvars
    BY <1>1 DEF rvars, cvars, RecInv, ConfigTypes, CacheTrue, GuardsMeet, TasksTrue, Standing, SubsTrue, ListensTrue,
                Closing
  <1>2. CASE Reconfigure
    BY <1>2, ConfigureKeeps DEF Reconfigure
  <1>3. CASE EvictCollection
    BY <1>3, EvictionKeeps
  <1>4. CASE PruneTenant \/ \E u \in Users : McpDeleteUser(u) \/ DeleteUserHandler(u)
    <2>1. UNCHANGED <<cvars, rtask, sub, trespass, leaked>>
      BY <1>4 DEF PruneTenant, McpDeleteUser, DeleteUserHandler, DeleteUser
    <2> QED BY <2>1 DEF cvars, RecInv, ConfigTypes, CacheTrue, GuardsMeet, TasksTrue, Standing, SubsTrue,
                        ListensTrue, Closing
  <1>5. CASE EditRpcs /\ UNCHANGED <<dvars, rtask, sub, trespass, leaked>>
    BY <1>5, EditsKeep
  <1>6. ASSUME NEW t \in RTasks, Request(t) PROVE RecInv'
    <2>1. ASSUME NEW who \in Callers, NEW sc,
                 \/ \E r \in Rows : CreateHandler(t, who, r, sc) \/ (\E i \in Ids : UpdateHandler(t, who, i, r, sc))
                 \/ \E i \in Ids : \/ DeleteHandler(t, who, i, sc) \/ DeleteDryRun(t, who, i, sc)
                                   \/ GetHandler(t, who, i, sc)
                 \/ \E raw \in BOOLEAN : ListHandler(t, who, raw, sc)
                 \/ PostList(t, who, sc) \/ PostAggregate(t, who, sc) \/ PostListExplain(t, who, sc)
                 \/ SearchHandler(t, who, sc)
          PROVE  RecInv'
      <3>1. ASSUME NEW i \in Ids, DeleteDryRun(t, who, i, sc) PROVE RecInv'
        BY <1>0, <3>1, DryRunKeeps
      <3> QED BY <1>0, <2>1, <3>1, GatesKeep
    <2>2. ASSUME NEW sc, \/ McpListRecords(t, sc) \/ McpAggregate(t, sc) \/ McpQuery(t, sc)
                         \/ McpSearchCollection(t, sc)
          PROVE  RecInv'
      <3>1. Enter(t, "read", Service, 0, NoRow, sc)
        BY <2>2 DEF McpListRecords, McpAggregate, McpQuery, McpSearchCollection, ListRecords, Aggregate, Query,
                    SearchCollection
      <3>2. Admitted("read", Service, NoRow, sc)
        BY <1>0 DEF Admitted, HasDmlCap, RecordAssumption
      <3> QED BY <3>1, <3>2, EnterKeeps
    <2>3. CASE CreateTx(t) \/ UpdateTx(t) \/ DeleteTx(t)
      BY <1>0, <2>3, WritesKeep
    <2>4. CASE GetRow(t) \/ ReadRows(t)
      BY <1>0, <2>4, ReadsEnd
    <2>5. CASE Publish(t) \/ RDrop(t)
      BY <1>0, <2>5, PublishKeeps
    <2> QED BY <1>6, <2>1, <2>2, <2>3, <2>4, <2>5 DEF Request
  <1>7. ASSUME NEW t \in RTasks, FunctionRequest(t) PROVE RecInv'
    BY <1>0, <1>7, GatesKeep DEF FunctionRequest, EnforcedInsert, EnforcedUpdate, EnforcedDelete, EnforcedList
  <1>8. ASSUME NEW t \in RTasks, ServiceRequest(t) \/ RpcRequest(t) PROVE RecInv'
    BY <1>0, <1>8, ServiceKeeps, RpcsKeep
  <1>9. ASSUME NEW s \in Subs, Listener(s) PROVE RecInv'
    BY <1>0, <1>9, ListenersKeep
  <1> QED BY <1>1, <1>2, <1>3, <1>4, <1>5, <1>6, <1>7, <1>8, <1>9 DEF RNext

(* For any numbers of settings changes, RPCs and saves in flight: the      *)
(* guards on settings and on stored RPCs meet, so that no anon-callable    *)
(* SQL RPC stands over hidden rows but one whose save was overtaken        *)
(* (guard_anon_owner_scoped_rpc and the guards of the settings).           *)
THEOREM RpcGuardsMeet == RSpec => []RpcSafe
  <1>1. RecInv => RpcSafe
    BY DEF RecInv, GuardsMeet, RpcSafe, UnsafeAnonRpcs
  <1> QED BY <1>1, RecInitial, RecSteps, PTL DEF RSpec

(* For any numbers of callers, requests and settings changes: a request    *)
(* that no change overtook touches only rows the committed settings allow  *)
(* its caller, whatever the schema cache has (records.rs, ensure_loaded).  *)
THEOREM NobodyTrespasses == RSpec => []NoTrespass
  <1>1. RecInv => NoTrespass
    BY DEF RecInv, NoTrespass
  <1> QED BY <1>1, RecInitial, RecSteps, PTL DEF RSpec

(* For any numbers of subscribers, writers and settings changes: once a    *)
(* change is finished, evict_collection has closed every stream that it    *)
(* forbids, but for a subscriber between its gate and its channel.         *)
THEOREM StreamsDoNotLeak == RSpec => []SseNoLeak
  <1>1. RecInv => SseNoLeak
    BY DEF RecInv, SseNoLeak
  <1> QED BY <1>1, RecInitial, RecSteps, PTL DEF RSpec

----------------------------------------------------------------------------
(* Record history.  A record's entries are linked and end in its row; each *)
(* writer adds one entry to the chain of a record, or none.                *)

IsHistory(h) == Len(h) \in Nat /\ h = [k \in 1 .. Len(h) |-> h[k]]
Places(h, i) == {k \in DOMAIN h : h[k].id = i}
Linked(h, i) ==
    \A j, k \in Places(h, i) :
        j < k /\ (\A l \in Places(h, i) : l <= j \/ k <= l) /\ h[j].era = h[k].era => h[k].old = h[j].new
Ends(h, i, x, e) ==
    \A k \in Places(h, i) : (\A l \in Places(h, i) : l <= k) /\ h[k].era = e => x = h[k].new
Chained(h, i, x, on, e) == Linked(h, i) /\ (on => Ends(h, i, x, e))
Dated(h, e) == \A k \in DOMAIN h : h[k].era \in Nat /\ h[k].era <= e

Unspent == nextid \in Nat /\ nextid > 0 /\ \A i \in Ids : i >= nextid => rec[i] = NoRow
(* A history h beside a table tab, whose records lost excepts. *)
IsTable(tab) == tab = [i \in Ids |-> tab[i]]
Sound(h, tab, lost, on, e) ==
    /\ IsHistory(h) /\ Dated(h, e) /\ IsTable(tab)
    /\ \A i \in Ids \ lost : Chained(h, i, tab[i], on, e)
HistInv == era \in Nat /\ Unspent /\ Sound(hist, rec, lostdel, schema.audit, era)

LEMMA ChainsSuffice == HistInv => HistoryChain
  <1> SUFFICES ASSUME HistInv, NEW i \in Ids \ lostdel
               PROVE  /\ \A j, k \in HistoryRows(i) :
                           j < k /\ (\A l \in HistoryRows(i) : l <= j \/ k <= l) /\ hist[j].era = hist[k].era
                           => hist[k].old = hist[j].new
                      /\ \A k \in HistoryRows(i) :
                           (\A l \in HistoryRows(i) : l <= k) /\ schema.audit /\ hist[k].era = era => rec[i] = hist[k].new
    BY DEF HistoryChain
  <1>1. HistoryRows(i) = Places(hist, i)
    BY DEF HistoryRows, Places
  <1>2. Chained(hist, i, rec[i], schema.audit, era)
    BY DEF HistInv, Sound
  <1> QED BY <1>1, <1>2 DEF Chained, Linked, Ends

(* A history that grew by no entry of a record, and by one. *)
LEMMA ChainKept ==
    ASSUME NEW h, NEW g, NEW i, NEW x, NEW on, NEW e, Chained(h, i, x, on, e),
           Places(g, i) = Places(h, i), \A k \in Places(h, i) : g[k] = h[k]
    PROVE  Chained(g, i, x, on, e)
  BY DEF Chained, Linked, Ends

LEMMA ChainGrows ==
    ASSUME NEW h, IsHistory(h), NEW g, NEW i, NEW x, NEW e, Chained(h, i, x, TRUE, e),
           NEW p \in Nat, p > Len(h), Places(g, i) = Places(h, i) \cup {p}, \A k \in Places(h, i) : g[k] = h[k],
           g[p].old = x, g[p].era = e
    PROVE  Chained(g, i, g[p].new, TRUE, e)
  <1>1. \A k \in Places(h, i) : k \in Nat /\ k < p
    BY DEF Places, IsHistory
  <1>2. Linked(g, i)
    <2> SUFFICES ASSUME NEW j \in Places(g, i), NEW k \in Places(g, i), j < k,
                        \A l \in Places(g, i) : l <= j \/ k <= l, g[j].era = g[k].era
                 PROVE  g[k].old = g[j].new
      BY DEF Linked
    <2>1. j \in Places(h, i)
      BY <1>1
    <2>2. CASE k = p
      <3>1. \A l \in Places(h, i) : l <= j
        BY <1>1, <2>2
      <3>2. x = h[j].new
        BY <2>1, <2>2, <3>1 DEF Chained, Ends
      <3> QED BY <2>1, <2>2, <3>2
    <2>3. CASE k \in Places(h, i)
      BY <2>1, <2>3 DEF Chained, Linked
    <2> QED BY <2>2, <2>3
  <1>3. Ends(g, i, g[p].new, e)
    BY <1>1 DEF Ends
  <1> QED BY <1>2, <1>3 DEF Chained

LEMMA ChainOff ==
    ASSUME NEW h, NEW i, NEW x, NEW y, NEW on, NEW e, NEW f, Chained(h, i, x, on, e)
    PROVE  Chained(h, i, y, FALSE, f)
  BY DEF Chained

(* capture. *)
LEMMA HistoryAppend ==
    ASSUME NEW h, IsHistory(h), NEW m
    PROVE  /\ IsHistory(Append(h, m)) /\ DOMAIN Append(h, m) = DOMAIN h \cup {Len(h) + 1}
           /\ Len(h) + 1 \in Nat /\ Len(h) + 1 > Len(h) /\ Len(Append(h, m)) = Len(h) + 1
           /\ Append(h, m)[Len(h) + 1] = m /\ \A k \in DOMAIN h : Append(h, m)[k] = h[k]
  <1> DEFINE S == {h[k] : k \in 1 .. Len(h)} \cup {m}
  <1>1. h \in Seq(S)
    BY DEF IsHistory
  <1>2. m \in S
    OBVIOUS
  <1> HIDE DEF S
  <1>3. /\ Append(h, m) \in Seq(S) /\ Len(Append(h, m)) = Len(h) + 1 /\ Append(h, m)[Len(h) + 1] = m
        /\ \A k \in 1 .. Len(h) : Append(h, m)[k] = h[k]
    BY <1>1, <1>2
  <1>4. IsHistory(Append(h, m))
    <2>1. PICK g \in Seq(S) : g = Append(h, m)
      BY <1>3
    <2>2. IsHistory(g)
      BY DEF IsHistory
    <2> QED BY <2>1, <2>2
  <1>5. Len(h) \in Nat /\ DOMAIN h = 1 .. Len(h) /\ DOMAIN Append(h, m) = 1 .. (Len(h) + 1)
    BY <1>1, <1>3
  <1>6. DOMAIN Append(h, m) = DOMAIN h \cup {Len(h) + 1}
    BY <1>5
  <1> QED BY <1>3, <1>4, <1>5, <1>6

(* One writer's statement: record i gets the row new, recorded when on. *)
Put(tab, i, new) == [tab EXCEPT ![i] = new]

LEMMA CaptureChains ==
    ASSUME NEW h, NEW tab, NEW lost, NEW on \in BOOLEAN, era \in Nat, Sound(h, tab, lost, on, era), NEW i, NEW new,
           NEW flag, flag = on \/ i \in lost
    PROVE  Sound(Capture(h, flag, i, tab[i], new), Put(tab, i, new), lost, on, era)
  <1>g. PICK g : g = Capture(h, flag, i, tab[i], new)
    OBVIOUS
  <1>u. PICK u : u = Put(tab, i, new)
    OBVIOUS
  <1>h. IsHistory(h) /\ Dated(h, era) /\ \A k \in Ids \ lost : Chained(h, k, tab[k], on, era)
    BY DEF Sound
  <1> DEFINE m == HistoryRow(i, tab[i], new)
  <1>1. m.id = i /\ m.old = tab[i] /\ m.new = new /\ m.era = era
    BY DEF HistoryRow
  <1>2. IsTable(u) /\ \A k \in Ids : u[k] = IF k = i THEN new ELSE tab[k]
    BY <1>u DEF Sound, IsTable, Put
  <1>3. CASE flag
    <2>1. g = Append(h, m)
      BY <1>3, <1>g DEF Capture
    <2> HIDE DEF m
    <2>2. /\ IsHistory(g) /\ DOMAIN g = DOMAIN h \cup {Len(h) + 1} /\ Len(h) + 1 \in Nat /\ Len(h) + 1 > Len(h)
          /\ g[Len(h) + 1] = m /\ \A k \in DOMAIN h : g[k] = h[k]
      BY ONLY <1>h, <2>1, HistoryAppend
    <2>3. Dated(g, era)
      BY <1>1, <1>h, <2>2 DEF Dated
    <2>4. ASSUME NEW k \in Ids \ lost PROVE Chained(g, k, u[k], on, era)
      <3>0. Len(h) + 1 \notin DOMAIN h
        BY <1>h DEF IsHistory
      <3>1. CASE k = i
        <4>1. Places(g, i) = Places(h, i) \cup {Len(h) + 1}
          BY <1>1, <2>2 DEF Places
        <4>2. \A l \in Places(h, i) : g[l] = h[l]
          BY <2>2 DEF Places
        <4>3. on = TRUE
          BY <1>3, <3>1
        <4>4. Chained(h, i, tab[i], TRUE, era)
          BY <1>h, <3>1, <4>3
        <4>5. Chained(g, i, g[Len(h) + 1].new, TRUE, era)
          BY ONLY <1>h, <1>1, <2>2, <4>1, <4>2, <4>4, ChainGrows
        <4> QED BY <1>1, <1>2, <2>2, <3>1, <4>3, <4>5
      <3>2. CASE k # i
        <4>1. Places(g, k) = Places(h, k) /\ \A l \in Places(h, k) : g[l] = h[l]
          BY <1>1, <2>2, <3>0, <3>2 DEF Places
        <4>2. u[k] = tab[k]
          BY <1>2, <3>2
        <4> QED BY <1>h, <4>1, <4>2, ChainKept
      <3> QED BY <3>1, <3>2
    <2> QED BY <1>g, <1>u, <1>2, <2>2, <2>3, <2>4 DEF Sound
  <1>4. CASE ~flag
    <2>1. g = h
      BY <1>4, <1>g DEF Capture
    <2> HIDE DEF m
    <2>2. ASSUME NEW k \in Ids \ lost PROVE Chained(h, k, u[k], on, era)
      <3>1. CASE k = i
        <4>1. on = FALSE
          BY <1>4, <3>1
        <4> QED BY <1>h, <4>1, ChainOff
      <3>2. CASE k # i
        BY <1>h, <1>2, <3>2
      <3> QED BY <3>1, <3>2
    <2> QED BY <1>g, <1>u, <1>h, <1>2, <2>1, <2>2 DEF Sound
  <1> QED BY <1>3, <1>4

(* prune_tenant takes the oldest entry. *)
LEMMA PruneChains ==
    ASSUME NEW h, IsHistory(h), h # <<>>, NEW e, Dated(h, e)
    PROVE  /\ IsHistory(Tail(h)) /\ Dated(Tail(h), e)
           /\ \A i, x, on : Chained(h, i, x, on, e) => Chained(Tail(h), i, x, on, e)
  <1> DEFINE S == {h[k] : k \in 1 .. Len(h)}
  <1>1. h \in Seq(S)
    BY DEF IsHistory
  <1>2. /\ Tail(h) \in Seq(S)
        /\ \A k \in DOMAIN Tail(h) : k \in Nat /\ k + 1 \in DOMAIN h /\ Tail(h)[k] = h[k + 1]
        /\ \A k \in DOMAIN h : k = 1 \/ k - 1 \in DOMAIN Tail(h)
        /\ \A k \in DOMAIN h : k \in Nat /\ k >= 1
    <2> HIDE DEF S
    <2> QED BY <1>1
  <1>3. PICK g \in Seq(S) : g = Tail(h)
    BY <1>2
  <1> HIDE DEF S
  <1>4. IsHistory(g)
    BY DEF IsHistory
  <1>5. Dated(g, e)
    BY <1>2, <1>3 DEF Dated
  <1>6. ASSUME NEW i, NEW x, NEW on, Chained(h, i, x, on, e)
        PROVE  Chained(g, i, x, on, e)
    <2>1. \A k \in Places(g, i) : k \in Nat /\ k + 1 \in Places(h, i) /\ g[k] = h[k + 1]
      BY <1>2, <1>3 DEF Places
    <2>2. \A k \in Places(h, i) : k \in Nat /\ k >= 1 /\ (k = 1 \/ k - 1 \in Places(g, i))
      <3> SUFFICES ASSUME NEW k \in Places(h, i), k # 1 PROVE k - 1 \in Places(g, i)
        BY <1>2 DEF Places
      <3>1. k \in DOMAIN h /\ h[k].id = i /\ k - 1 \in DOMAIN g /\ k \in Nat
        BY <1>2, <1>3 DEF Places
      <3>2. g[k - 1] = h[(k - 1) + 1] /\ (k - 1) + 1 = k
        BY <1>2, <1>3, <3>1
      <3> QED BY <3>1, <3>2 DEF Places
    <2>3. Linked(g, i)
      <3> SUFFICES ASSUME NEW j \in Places(g, i), NEW k \in Places(g, i), j < k,
                          \A l \in Places(g, i) : l <= j \/ k <= l, g[j].era = g[k].era
                   PROVE  g[k].old = g[j].new
        BY DEF Linked
      <3>1. ASSUME NEW l \in Places(h, i) PROVE l <= j + 1 \/ k + 1 <= l
        <4>1. CASE l = 1
          BY <2>1, <4>1
        <4>2. CASE l - 1 \in Places(g, i)
          <5>1. l - 1 <= j \/ k <= l - 1
            BY <4>2
          <5> QED BY <2>1, <2>2, <5>1
        <4> QED BY <2>2, <4>1, <4>2
      <3>2. j + 1 \in Places(h, i) /\ k + 1 \in Places(h, i) /\ j + 1 < k + 1 /\ g[j] = h[j + 1] /\ g[k] = h[k + 1]
        BY <2>1
      <3> QED BY <1>6, <3>1, <3>2 DEF Chained, Linked
    <2>4. ASSUME on PROVE Ends(g, i, x, e)
      <3> SUFFICES ASSUME NEW k \in Places(g, i), \A l \in Places(g, i) : l <= k, g[k].era = e
                   PROVE  x = g[k].new
        BY DEF Ends
      <3>1. ASSUME NEW l \in Places(h, i) PROVE l <= k + 1
        <4>1. CASE l = 1
          BY <2>1, <4>1
        <4>2. CASE l - 1 \in Places(g, i)
          <5>1. l - 1 <= k
            BY <4>2
          <5> QED BY <2>1, <2>2, <5>1
        <4> QED BY <2>2, <4>1, <4>2
      <3>2. k + 1 \in Places(h, i) /\ g[k] = h[k + 1]
        BY <2>1
      <3> QED BY <1>6, <2>4, <3>1, <3>2 DEF Chained, Ends
    <2> QED BY <2>3, <2>4 DEF Chained
  <1> QED BY <1>3, <1>4, <1>5, <1>6

(* Several entries at once. *)
IsRows(s, n) == s = [k \in 1 .. n |-> s[k]]

LEMMA HistoryConcat ==
    ASSUME NEW h, IsHistory(h), NEW n \in Nat, NEW s, IsRows(s, n)
    PROVE  /\ IsHistory(h \o s) /\ Len(h \o s) = Len(h) + n /\ Len(h) \in Nat /\ DOMAIN h = 1 .. Len(h) /\ DOMAIN (h \o s) = 1 .. (Len(h) + n)
           /\ \A k \in 1 .. Len(h) : (h \o s)[k] = h[k]
           /\ \A k \in 1 .. n : (h \o s)[Len(h) + k] = s[k]
  <1> DEFINE S == {h[k] : k \in 1 .. Len(h)} \cup {s[k] : k \in 1 .. n}
  <1>1. h \in Seq(S)
    BY DEF IsHistory
  <1>2. s \in Seq(S) /\ Len(s) = n
    BY DEF IsRows
  <1> HIDE DEF S
  <1>3. /\ h \o s \in Seq(S) /\ Len(h \o s) = Len(h) + n
        /\ \A k \in 1 .. Len(h) : (h \o s)[k] = h[k]
        /\ \A k \in 1 .. n : (h \o s)[Len(h) + k] = s[k]
    BY <1>1, <1>2
  <1>4. PICK g \in Seq(S) : g = h \o s
    BY <1>3
  <1>5. IsHistory(g)
    BY DEF IsHistory
  <1>6. Len(h) \in Nat /\ DOMAIN h = 1 .. Len(h) /\ DOMAIN g = 1 .. (Len(h) + n)
    BY <1>1, <1>3, <1>4
  <1> QED BY <1>3, <1>4, <1>5, <1>6

(* capture_owner_cascade: one entry for each record of the user. *)
LEMMA OwnsCounted == ASSUME NEW u PROVE Cardinality(Owns(u)) \in Nat
  <1>1. MaxId \in Nat /\ Owns(u) \subseteq 1 .. MaxId
    BY RecordAssumption DEF Owns, Current, Ids
  <1>2. IsFiniteSet(1 .. MaxId)
    BY <1>1, FS_Interval
  <1>3. IsFiniteSet(Owns(u))
    BY <1>1, <1>2, FS_Subset
  <1> QED BY <1>3, FS_CardinalityType

LEMMA CascadeHistory ==
    ASSUME HistInv, NEW u, CaptureOwnerCascade(u)
    PROVE  IsHistory(hist') /\ Dated(hist', era)
  <1>1. PICK order \in Bijection(1 .. Cardinality(Owns(u)), Owns(u)) :
          hist' = IF schema.audit
                  THEN hist \o [k \in DOMAIN order |-> HistoryRow(order[k], rec[order[k]], NoRow)]
                  ELSE hist
    BY DEF CaptureOwnerCascade
  <1>2. CASE ~schema.audit
    BY <1>1, <1>2 DEF HistInv, Sound
  <1>3. CASE schema.audit
    <2> DEFINE n == Cardinality(Owns(u))
               s == [k \in 1 .. n |-> HistoryRow(order[k], rec[order[k]], NoRow)]
    <2>1. n \in Nat /\ DOMAIN order = 1 .. n
      BY OwnsCounted DEF Bijection, Injection
    <2>2. hist' = hist \o s /\ IsRows(s, n) /\ \A k \in 1 .. n : s[k].era = era
      BY <1>1, <1>3, <2>1 DEF HistoryRow, IsRows
    <2> HIDE DEF s, n
    <2>3. /\ IsHistory(hist \o s) /\ Len(hist) \in Nat /\ DOMAIN hist = 1 .. Len(hist)
          /\ DOMAIN (hist \o s) = 1 .. (Len(hist) + n)
          /\ \A k \in 1 .. Len(hist) : (hist \o s)[k] = hist[k]
          /\ \A k \in 1 .. n : (hist \o s)[Len(hist) + k] = s[k]
      BY <2>1, <2>2, HistoryConcat DEF HistInv, Sound
    <2>4. PICK g : g = hist'
      OBVIOUS
    <2>5. ASSUME NEW k \in DOMAIN g PROVE g[k].era \in Nat /\ g[k].era <= era
      <3>1. CASE k \in 1 .. Len(hist)
        BY <2>2, <2>3, <2>4, <3>1 DEF HistInv, Sound, Dated
      <3>2. CASE k \notin 1 .. Len(hist)
        <4>1. k - Len(hist) \in 1 .. n /\ Len(hist) + (k - Len(hist)) = k
          BY <2>1, <2>2, <2>3, <2>4, <3>2
        <4>2. g[k] = s[k - Len(hist)]
          BY <2>2, <2>3, <2>4, <4>1
        <4> QED BY <2>2, <4>1, <4>2 DEF HistInv
      <3> QED BY <3>1, <3>2
    <2> QED BY <2>2, <2>3, <2>4, <2>5 DEF Dated
  <1> QED BY <1>2, <1>3

LEMMA CascadeChains ==
    ASSUME HistInv, NEW u, CaptureOwnerCascade(u), schema.audit \in BOOLEAN,
           NEW i \in Ids \ lostdel, NEW y, y = IF i \in Owns(u) THEN NoRow ELSE rec[i]
    PROVE  Chained(hist', i, y, schema.audit, era)
  <1>1. PICK order \in Bijection(1 .. Cardinality(Owns(u)), Owns(u)) :
          hist' = IF schema.audit
                  THEN hist \o [k \in DOMAIN order |-> HistoryRow(order[k], rec[order[k]], NoRow)]
                  ELSE hist
    BY DEF CaptureOwnerCascade
  <1> DEFINE n == Cardinality(Owns(u))
  <1>2. Chained(hist, i, rec[i], schema.audit, era)
    BY DEF HistInv, Sound
  <1>3. CASE ~schema.audit
    <2>1. schema.audit = FALSE /\ hist' = hist
      BY <1>1, <1>3
    <2> QED BY <1>2, <2>1, ChainOff
  <1>4. CASE schema.audit
    <2>1. n \in Nat
      BY OwnsCounted
    <2>2. /\ order \in [1 .. n -> Owns(u)]
          /\ \A a, b \in 1 .. n : order[a] = order[b] => a = b
          /\ \A w \in Owns(u) : \E a \in 1 .. n : order[a] = w
      BY DEF Bijection, Injection, Surjection, IsInjective
    <2> DEFINE s == [k \in 1 .. n |-> HistoryRow(order[k], rec[order[k]], NoRow)]
    <2>3. hist' = hist \o s /\ IsRows(s, n)
      BY <1>1, <1>4, <2>2 DEF IsRows
    <2>4. \A k \in 1 .. n : /\ s[k].id = order[k] /\ s[k].old = rec[order[k]]
                            /\ s[k].new = NoRow /\ s[k].era = era
      BY DEF HistoryRow
    <2> HIDE DEF s, n
    <2>5. /\ Len(hist) \in Nat /\ DOMAIN hist = 1 .. Len(hist) /\ DOMAIN (hist \o s) = 1 .. (Len(hist) + n)
          /\ \A k \in 1 .. Len(hist) : (hist \o s)[k] = hist[k]
          /\ \A k \in 1 .. n : (hist \o s)[Len(hist) + k] = s[k]
      BY <2>1, <2>3, HistoryConcat DEF HistInv, Sound
    <2>6. PICK g : g = hist'
      OBVIOUS
    <2>7. /\ DOMAIN g = 1 .. (Len(hist) + n) /\ \A k \in 1 .. Len(hist) : g[k] = hist[k]
          /\ \A k \in 1 .. n : g[Len(hist) + k] = s[k]
      BY <2>3, <2>5, <2>6
    <2>8. \A k \in DOMAIN g : k \in 1 .. Len(hist) \/ (k - Len(hist) \in 1 .. n /\ g[k] = s[k - Len(hist)])
      <3> SUFFICES ASSUME NEW k \in DOMAIN g, k \notin 1 .. Len(hist)
                   PROVE  k - Len(hist) \in 1 .. n /\ g[k] = s[k - Len(hist)]
        OBVIOUS
      <3>1. k - Len(hist) \in 1 .. n /\ Len(hist) + (k - Len(hist)) = k
        BY <2>1, <2>5, <2>7
      <3> QED BY <2>7, <3>1
    <2>9. \A k \in Places(hist, i) : k \in 1 .. Len(hist) /\ g[k] = hist[k] /\ k \in Places(g, i)
      BY <2>1, <2>5, <2>7 DEF Places
    <2>10. CASE i \in Owns(u)
      <3>1. PICK a \in 1 .. n : order[a] = i
        BY <2>2, <2>10
      <3> DEFINE p == Len(hist) + a
      <3>2. p \in Nat /\ p > Len(hist) /\ p \in DOMAIN g /\ g[p] = s[a]
        BY <2>1, <2>5, <2>7
      <3>3. g[p].id = i /\ g[p].old = rec[i] /\ g[p].new = NoRow /\ g[p].era = era
        BY <2>4, <3>1, <3>2
      <3>4. ASSUME NEW k \in Places(g, i) PROVE k \in Places(hist, i) \/ k = p
        <4>1. k \in DOMAIN g /\ g[k].id = i
          BY DEF Places
        <4>2. CASE k \in 1 .. Len(hist)
          BY <2>5, <2>7, <4>1, <4>2 DEF Places
        <4>3. CASE k - Len(hist) \in 1 .. n /\ g[k] = s[k - Len(hist)]
          <5>1. order[k - Len(hist)] = i
            BY <2>4, <4>1, <4>3
          <5>2. k - Len(hist) = a
            BY <2>2, <3>1, <4>3, <5>1
          <5>3. k \in 1 .. (Len(hist) + n)
            BY <2>7, <4>1
          <5>4. k \in Int /\ Len(hist) \in Int
            BY <2>1, <2>5, <5>3
          <5> QED BY <5>2, <5>4
        <4> QED BY <2>8, <4>1, <4>2, <4>3
      <3>5. Places(g, i) = Places(hist, i) \cup {p}
        <4>1. p \in Places(g, i)
          BY <3>2, <3>3 DEF Places
        <4> QED BY <2>9, <3>4, <4>1
      <3>6. Chained(hist, i, rec[i], TRUE, era)
        BY <1>2, <1>4
      <3> HIDE DEF p
      <3>7. Chained(g, i, g[p].new, TRUE, era)
        BY <2>9, <3>2, <3>3, <3>5, <3>6, ChainGrows DEF HistInv, Sound
      <3> QED BY <1>4, <2>6, <2>10, <3>3, <3>7
    <2>11. CASE i \notin Owns(u)
      <3>1. ASSUME NEW k \in Places(g, i) PROVE k \in Places(hist, i)
        <4>1. k \in DOMAIN g /\ g[k].id = i
          BY DEF Places
        <4>2. CASE k \in 1 .. Len(hist)
          BY <2>5, <2>7, <4>1, <4>2 DEF Places
        <4>3. CASE k - Len(hist) \in 1 .. n /\ g[k] = s[k - Len(hist)]
          <5>1. order[k - Len(hist)] = i
            BY <2>4, <4>1, <4>3
          <5> QED BY <2>2, <2>11, <4>3, <5>1
        <4> QED BY <2>8, <4>1, <4>2, <4>3
      <3>2. Places(g, i) = Places(hist, i) /\ \A k \in Places(hist, i) : g[k] = hist[k]
        BY <2>9, <3>1
      <3>3. Chained(g, i, rec[i], schema.audit, era)
        BY <1>2, <3>2, ChainKept
      <3> QED BY <2>6, <2>11, <3>3
    <2> QED BY <2>10, <2>11
  <1> QED BY <1>3, <1>4

----------------------------------------------------------------------------
(* The writers. *)

LEMMA HistUntouched ==
    ASSUME HistInv, UNCHANGED <<rec, nextid, hist, era, lostdel, schema>>
    PROVE  HistInv'
  BY DEF HistInv, Unspent, Sound, IsTable

LEMMA WriteChains ==
    ASSUME HistInv, schema.audit \in BOOLEAN, NEW i, NEW new, NEW flag, Write(i, new, flag),
           flag = schema.audit \/ i \in lostdel', lostdel \subseteq lostdel', UNCHANGED <<era, schema>>, Unspent'
    PROVE  HistInv'
  <1>1. rec' = Put(rec, i, new) /\ hist' = Capture(hist, flag, i, rec[i], new) /\ era \in Nat
    BY DEF Write, Put, HistInv
  <1>2. Sound(hist, rec, lostdel', schema.audit, era)
    BY DEF HistInv, Sound
  <1>3. Sound(hist', rec', lostdel', schema.audit, era)
    BY <1>1, <1>2, CaptureChains
  <1> QED BY <1>1, <1>3 DEF HistInv

(* Two statements in one transaction. *)
LEMMA WriteTwice ==
    ASSUME HistInv, schema.audit \in BOOLEAN, NEW i, NEW r, NEW j, NEW q, NEW u, u = Put(rec, i, r),
           rec' = Put(u, j, q),
           hist' = Capture(Capture(hist, schema.audit, i, rec[i], r), schema.audit, j, u[j], q),
           UNCHANGED <<era, schema, lostdel>>, Unspent'
    PROVE  HistInv'
  <1>1. PICK g : g = Capture(hist, schema.audit, i, rec[i], r)
    OBVIOUS
  <1>2. Sound(g, u, lostdel, schema.audit, era) /\ era \in Nat
    BY <1>1, CaptureChains DEF HistInv
  <1>3. Sound(hist', rec', lostdel, schema.audit, era)
    BY <1>1, <1>2, CaptureChains
  <1> QED BY <1>2, <1>3 DEF HistInv

(* Ids that were not given out yet have no row. *)
LEMMA UnspentBelow ==
    ASSUME HistInv, NEW i, rec[i] # NoRow, NEW new, rec' = [rec EXCEPT ![i] = new], nextid' = nextid
    PROVE  Unspent'
  BY DEF HistInv, Unspent, Sound, IsTable

LEMMA UnspentNext ==
    ASSUME HistInv, NEW new, rec' = [rec EXCEPT ![nextid] = new], nextid' = nextid + 1
    PROVE  Unspent'
  <1>1. \A i \in Ids : i \in Int
    BY RecordAssumption DEF Ids
  <1> QED BY <1>1 DEF HistInv, Unspent, Sound, IsTable

LEMMA CreateChains ==
    ASSUME HistInv, schema.audit \in BOOLEAN, NEW t, CreateTx(t)
    PROVE  HistInv'
  <1>1. schema' = schema
    BY DEF CreateTx, ROthers, cvars
  <1>2. CASE TxFails(t)
    BY <1>1, <1>2, HistUntouched DEF TxFails, dvars
  <1>3. CASE /\ Write(nextid, rtask[t].row, schema.audit) /\ nextid' = nextid + 1
             /\ UNCHANGED <<people, era, lostdel>>
    <2>1. Unspent'
      BY <1>3, UnspentNext DEF Write
    <2> QED BY <1>1, <1>3, <2>1, WriteChains
  <1> QED BY <1>2, <1>3 DEF CreateTx

LEMMA UpdateChains ==
    ASSUME HistInv, schema.audit \in BOOLEAN, NEW t, UpdateTx(t)
    PROVE  HistInv'
  <1>1. schema' = schema
    BY DEF UpdateTx, ROthers, cvars
  <1>2. CASE TxFails(t)
    BY <1>1, <1>2, HistUntouched DEF TxFails, dvars
  <1>3. ASSUME NEW new, rec[rtask[t].id] # NoRow, Write(rtask[t].id, new, schema.audit),
               UNCHANGED <<nextid, people, era, lostdel>>
        PROVE  HistInv'
    <2>1. Unspent'
      BY <1>3, UnspentBelow DEF Write
    <2> QED BY <1>1, <1>3, <2>1, WriteChains
  <1> QED BY <1>2, <1>3 DEF UpdateTx

LEMMA DeleteChains ==
    ASSUME HistInv, RecInv, NEW t \in RTasks, DeleteTx(t)
    PROVE  HistInv'
  <1>1. schema' = schema /\ schema.audit \in BOOLEAN
    BY DEF DeleteTx, ROthers, cvars, RecInv, ConfigTypes, Schemas
  <1>2. CASE TxFails(t)
    BY <1>1, <1>2, HistUntouched DEF TxFails, dvars
  <1>3. ASSUME rec[rtask[t].id] # NoRow, Write(rtask[t].id, NoRow, Gated(t).audit),
               lostdel' = IF schema.audit # Gated(t).audit THEN lostdel \cup {rtask[t].id} ELSE lostdel,
               UNCHANGED <<nextid, people, era>>
        PROVE  HistInv'
    <2>1. Unspent'
      BY <1>3, UnspentBelow DEF Write
    <2>3. Gated(t).audit = schema.audit \/ rtask[t].id \in lostdel'
      BY <1>3
    <2>4. lostdel \subseteq lostdel'
      BY <1>3
    <2> QED BY <1>1, <1>3, <2>1, <2>3, <2>4, WriteChains
  <1> QED BY <1>2, <1>3 DEF DeleteTx

LEMMA UserChains ==
    ASSUME HistInv, schema.audit \in BOOLEAN, NEW u, DeleteUser(u)
    PROVE  HistInv'
  <1>1. /\ rec' = [i \in Ids |-> IF i \in Owns(u) THEN NoRow ELSE rec[i]] /\ CaptureOwnerCascade(u)
        /\ UNCHANGED <<schema, nextid, era, lostdel>>
    BY DEF DeleteUser, cvars
  <1>2. Unspent'
    BY <1>1 DEF HistInv, Unspent
  <1>3. ASSUME NEW i \in Ids \ lostdel PROVE Chained(hist', i, rec'[i], schema.audit, era)
    <2>1. rec'[i] = IF i \in Owns(u) THEN NoRow ELSE rec[i]
      BY <1>1
    <2> QED BY <1>1, <2>1, CascadeChains
  <1>4. IsTable(rec')
    BY <1>1 DEF IsTable
  <1>5. IsHistory(hist') /\ Dated(hist', era) /\ era \in Nat
    BY <1>1, CascadeHistory DEF HistInv
  <1> QED BY <1>1, <1>2, <1>3, <1>4, <1>5 DEF HistInv, Sound

LEMMA BatchChains ==
    ASSUME HistInv, schema.audit \in BOOLEAN, NEW t, NEW r1, NEW r2, BatchInsert(t, r1, r2)
    PROVE  HistInv'
  <1>1. /\ nextid < MaxId /\ rec' = [rec EXCEPT ![nextid] = r1, ![nextid + 1] = r2] /\ nextid' = nextid + 2
        /\ hist' = Capture(Capture(hist, schema.audit, nextid, NoRow, r1), schema.audit, nextid + 1, NoRow, r2)
        /\ UNCHANGED <<era, schema, lostdel>>
    BY DEF BatchInsert, ServiceTx, ROthers, cvars
  <1>2. /\ nextid \in Ids /\ nextid + 1 \in Ids /\ nextid \in Nat /\ rec = [i \in Ids |-> rec[i]]
        /\ \A i \in Ids : i \in Int /\ (i >= nextid => rec[i] = NoRow)
    BY <1>1, RecordAssumption DEF HistInv, Unspent, Ids, Sound, IsTable
  <1>3. PICK u : u = Put(rec, nextid, r1)
    OBVIOUS
  <1>4. rec[nextid] = NoRow /\ u[nextid + 1] = NoRow /\ rec' = Put(u, nextid + 1, r2)
    BY <1>1, <1>2, <1>3 DEF Put
  <1>5. Unspent'
    BY <1>1, <1>2 DEF Unspent
  <1>6. hist' = Capture(Capture(hist, schema.audit, nextid, rec[nextid], r1), schema.audit, nextid + 1, u[nextid + 1], r2)
    BY <1>1, <1>4
  <1> QED BY <1>1, <1>3, <1>4, <1>5, <1>6, WriteTwice

LEMMA UpsertChains ==
    ASSUME HistInv, schema.audit \in BOOLEAN, NEW t, NEW i, NEW r1, NEW r2, BatchUpsert(t, i, r1, r2)
    PROVE  HistInv'
  <1>1. PICK d : d = [rows |-> rec, hist |-> hist]
    OBVIOUS
  <1>2. PICK e : e = UpsertRowInTx(d, i, r1)
    OBVIOUS
  <1>3. PICK f : f = UpsertRowInTx(e, nextid, r2)
    OBVIOUS
  <1>4. /\ rec[i] # NoRow /\ nextid <= MaxId /\ rec' = f.rows /\ hist' = f.hist /\ nextid' = nextid + 1
        /\ UNCHANGED <<era, schema, lostdel>>
    BY <1>1, <1>2, <1>3 DEF BatchUpsert, ServiceTx, ROthers, cvars
  <1>5. e.rows = [rec EXCEPT ![i] = r1] /\ e.hist = Capture(hist, schema.audit, i, rec[i], r1)
    BY <1>1, <1>2 DEF UpsertRowInTx
  <1>6. f.rows = [e.rows EXCEPT ![nextid] = r2] /\ f.hist = Capture(e.hist, schema.audit, nextid, e.rows[nextid], r2)
    BY <1>3 DEF UpsertRowInTx
  <1>7. PICK u : u = e.rows
    OBVIOUS
  <1>8. u = Put(rec, i, r1) /\ rec' = Put(u, nextid, r2)
    BY <1>4, <1>5, <1>6, <1>7 DEF Put
  <1>9. hist' = Capture(Capture(hist, schema.audit, i, rec[i], r1), schema.audit, nextid, u[nextid], r2)
    BY <1>4, <1>5, <1>6, <1>7
  <1>10. Unspent'
    <2>1. nextid \in Nat /\ rec = [k \in Ids |-> rec[k]] /\ \A k \in Ids : k \in Int /\ (k >= nextid => rec[k] = NoRow)
      BY RecordAssumption DEF HistInv, Unspent, Ids, Sound, IsTable
    <2>2. ASSUME NEW k \in Ids, k >= nextid + 1 PROVE rec'[k] = NoRow
      <3>1. k # nextid /\ rec[k] = NoRow /\ k # i
        BY <1>4, <2>1, <2>2
      <3> QED BY <1>8, <2>1, <3>1 DEF Put
    <2> QED BY <1>4, <2>1, <2>2 DEF HistInv, Unspent
  <1> QED BY <1>4, <1>8, <1>9, <1>10, WriteTwice

LEMMA ServiceChains ==
    ASSUME HistInv, schema.audit \in BOOLEAN, NEW t, ServiceRequest(t)
    PROVE  HistInv'
  <1>1. ASSUME NEW r, McpInsertRecord(t, r) PROVE HistInv'
    <2>1. /\ Write(nextid, r, schema.audit) /\ nextid' = nextid + 1
          /\ UNCHANGED <<era, lostdel, schema>>
      BY <1>1 DEF McpInsertRecord, InsertRecord, ServiceTx, ROthers, cvars
    <2>2. Unspent'
      BY <2>1, UnspentNext DEF Write
    <2> QED BY <2>1, <2>2, WriteChains
  <1>2. ASSUME NEW i, NEW r, Write(i, r, schema.audit), rec[i] # NoRow, UNCHANGED <<nextid, era, lostdel, schema>>
        PROVE  HistInv'
    <2>1. Unspent'
      BY <1>2, UnspentBelow DEF Write
    <2> QED BY <1>2, <2>1, WriteChains
  <1>3. ASSUME NEW i, NEW r, McpUpdateRecord(t, i, r) PROVE HistInv'
    <2>1. /\ Write(i, r, schema.audit) /\ rec[i] # NoRow /\ UNCHANGED <<nextid, era, lostdel, schema>>
      BY <1>3 DEF McpUpdateRecord, UpdateRecord, ServiceTx, ROthers, cvars
    <2> QED BY <1>2, <2>1
  <1>4. ASSUME NEW i, NEW dry, McpDeleteRecord(t, i, dry) PROVE HistInv'
    <2>1. CASE UNCHANGED rvars
      BY <2>1, HistUntouched DEF rvars, dvars, cvars
    <2>2. CASE DeleteRecord(t, i)
      <3>1. /\ Write(i, NoRow, schema.audit) /\ rec[i] # NoRow /\ UNCHANGED <<nextid, era, lostdel, schema>>
        BY <2>2 DEF DeleteRecord, ServiceTx, ROthers, cvars
      <3> QED BY <1>2, <3>1
    <2> QED BY <1>4, <2>1, <2>2 DEF McpDeleteRecord
  <1>5. ASSUME NEW r1, NEW r2, McpInsertRecords(t, r1, r2) \/ PostBatch(t, r1, r2) PROVE HistInv'
    BY <1>5, BatchChains DEF McpInsertRecords, PostBatch
  <1>6. ASSUME NEW i, NEW r1, NEW r2, McpUpsertRecords(t, i, r1, r2) \/ PostUpsert(t, i, r1, r2) PROVE HistInv'
    BY <1>6, UpsertChains DEF McpUpsertRecords, PostUpsert
  <1> QED BY <1>1, <1>3, <1>4, <1>5, <1>6 DEF ServiceRequest

----------------------------------------------------------------------------
(* flush_captured writes what the statements of an RPC would each have     *)
(* written.                                                                *)
LEMMA SameHistory ==
    ASSUME NEW h, NEW g, IsHistory(h), IsHistory(g), Len(h) = Len(g), \A k \in 1 .. Len(h) : h[k] = g[k]
    PROVE  h = g
  BY DEF IsHistory

LEMMA FlushOne ==
    ASSUME NEW h, IsHistory(h), NEW m, NEW s, s = [k \in 1 .. 1 |-> m]
    PROVE  h \o s = Append(h, m)
  <1>1. PICK a : a = h \o s
    OBVIOUS
  <1>2. PICK b : b = Append(h, m)
    OBVIOUS
  <1>3. IsRows(s, 1) /\ s[1] = m
    BY DEF IsRows
  <1>4. /\ IsHistory(a) /\ Len(a) = Len(h) + 1 /\ Len(h) \in Nat /\ DOMAIN h = 1 .. Len(h)
        /\ \A k \in 1 .. Len(h) : a[k] = h[k]
        /\ \A k \in 1 .. 1 : a[Len(h) + k] = s[k]
    BY ONLY IsHistory(h), <1>1, <1>3, HistoryConcat
  <1>5. /\ IsHistory(b) /\ Len(b) = Len(h) + 1 /\ b[Len(h) + 1] = m /\ \A k \in DOMAIN h : b[k] = h[k]
    BY <1>2, HistoryAppend
  <1>6. a[Len(h) + 1] = m
    BY <1>3, <1>4
  <1>7. \A k \in 1 .. Len(a) : a[k] = b[k]
    BY <1>4, <1>5, <1>6
  <1>8. a = b
    BY <1>4, <1>5, <1>7, SameHistory
  <1> QED BY <1>1, <1>2, <1>8

LEMMA FlushTwo ==
    ASSUME NEW h, IsHistory(h), NEW m, NEW q, NEW s, IsRows(s, 2), s[1] = m, s[2] = q
    PROVE  h \o s = Append(Append(h, m), q)
  <1>1. PICK a : a = h \o s
    OBVIOUS
  <1>2. PICK c : c = Append(h, m)
    OBVIOUS
  <1>3. PICK b : b = Append(c, q)
    OBVIOUS
  <1>4. /\ IsHistory(a) /\ Len(a) = Len(h) + 2 /\ Len(h) \in Nat /\ DOMAIN h = 1 .. Len(h)
        /\ \A k \in 1 .. Len(h) : a[k] = h[k]
        /\ \A k \in 1 .. 2 : a[Len(h) + k] = s[k]
    BY ONLY IsHistory(h), IsRows(s, 2), <1>1, HistoryConcat
  <1>5. /\ IsHistory(c) /\ Len(c) = Len(h) + 1 /\ c[Len(h) + 1] = m /\ \A k \in DOMAIN h : c[k] = h[k]
        /\ DOMAIN c = DOMAIN h \cup {Len(h) + 1}
    BY <1>2, HistoryAppend
  <1>6. /\ IsHistory(b) /\ Len(b) = Len(c) + 1 /\ b[Len(c) + 1] = q /\ \A k \in DOMAIN c : b[k] = c[k]
    BY <1>3, <1>5, HistoryAppend
  <1>7. a[Len(h) + 1] = m /\ a[Len(h) + 2] = q
    BY <1>4
  <1>8. \A k \in 1 .. Len(h) : a[k] = b[k]
    BY <1>4, <1>5, <1>6
  <1>9. b[Len(h) + 1] = m /\ b[Len(h) + 2] = q /\ Len(b) = Len(h) + 2
    BY <1>4, <1>5, <1>6
  <1>10. \A k \in 1 .. Len(a) : a[k] = b[k]
    BY <1>4, <1>7, <1>8, <1>9
  <1>11. a = b
    BY <1>4, <1>6, <1>9, <1>10, SameHistory
  <1> QED BY <1>1, <1>2, <1>3, <1>11

LEMMA RpcChains ==
    ASSUME HistInv, schema.audit \in BOOLEAN, NEW t, NEW i \in Ids, NEW r, NEW final, RunWriteRpc(t, i, r, final)
    PROVE  HistInv'
  <1> DEFINE m1 == [id |-> i, old |-> rec[i], new |-> r]  m2 == [id |-> i, old |-> r, new |-> final]
  <1>1. PICK first : first = PreupdateCapture(<<>>, i, rec[i], r)
    OBVIOUS
  <1>2. PICK both : both = PreupdateCapture(first, i, r, final)
    OBVIOUS
  <1>3. /\ rec[i] \in Named(t) /\ rec' = [rec EXCEPT ![i] = final]
        /\ hist' = FlushCaptured(IF final = r THEN first ELSE both)
        /\ UNCHANGED <<nextid, era, lostdel, schema>>
    BY <1>1, <1>2 DEF RunWriteRpc, ROthers, cvars
  <1>4. rec[i] # NoRow
    BY <1>3 DEF Named, Current
  <1>5. IsHistory(<<>>) /\ Len(<<>>) = 0 /\ DOMAIN <<>> = {}
    BY DEF IsHistory
  <1>6. IsHistory(first) /\ Len(first) = 1 /\ DOMAIN first = 1 .. 1 /\ first[1] = m1
    <2>1. first = Append(<<>>, m1)
      BY <1>1 DEF PreupdateCapture
    <2> HIDE DEF m1
    <2>2. /\ IsHistory(first) /\ DOMAIN first = DOMAIN <<>> \cup {Len(<<>>) + 1} /\ first[Len(<<>>) + 1] = m1
          /\ Len(first) = Len(<<>>) + 1
      BY <1>5, <2>1, HistoryAppend
    <2> QED BY <1>5, <2>2
  <1>7. DOMAIN both = 1 .. 2 /\ both[1] = m1 /\ both[2] = m2
    <2>1. both = Append(first, m2)
      BY <1>2 DEF PreupdateCapture
    <2> HIDE DEF m1, m2
    <2>2. /\ DOMAIN both = DOMAIN first \cup {Len(first) + 1} /\ both[Len(first) + 1] = m2
          /\ \A k \in DOMAIN first : both[k] = first[k]
      BY <1>6, <2>1, HistoryAppend
    <2> QED BY <1>6, <2>2
  <1>8. m1.id = i /\ m1.old = rec[i] /\ m1.new = r /\ m2.id = i /\ m2.old = r /\ m2.new = final
    OBVIOUS
  <1> HIDE DEF m1, m2
  <1>9. Unspent'
    BY <1>3, <1>4, UnspentBelow
  <1>10. IsHistory(hist) /\ rec = [k \in Ids |-> rec[k]]
    BY DEF HistInv, Sound, IsTable
  <1>11. CASE ~schema.audit
    <2>1. hist' = Capture(hist, schema.audit, i, rec[i], final)
      BY <1>3, <1>11 DEF FlushCaptured, Capture
    <2> QED BY <1>3, <1>9, <2>1, WriteChains DEF Write
  <1>12. CASE schema.audit /\ final = r
    <2>1. hist' = hist \o [k \in DOMAIN first |-> HistoryRow(first[k].id, first[k].old, first[k].new)]
      BY <1>3, <1>12 DEF FlushCaptured
    <2>2. PICK s : s = [k \in DOMAIN first |-> HistoryRow(first[k].id, first[k].old, first[k].new)]
      OBVIOUS
    <2>3. s = [k \in 1 .. 1 |-> HistoryRow(i, rec[i], r)]
      BY <1>6, <1>8, <2>2
    <2>4. hist' = Append(hist, HistoryRow(i, rec[i], r))
      BY <1>10, <2>1, <2>2, <2>3, FlushOne
    <2>5. hist' = Capture(hist, schema.audit, i, rec[i], final)
      BY <1>12, <2>4 DEF Capture
    <2> QED BY <1>3, <1>9, <2>5, WriteChains DEF Write
  <1>13. CASE schema.audit /\ final # r
    <2>1. hist' = hist \o [k \in DOMAIN both |-> HistoryRow(both[k].id, both[k].old, both[k].new)]
      BY <1>3, <1>13 DEF FlushCaptured
    <2>2. PICK s : s = [k \in DOMAIN both |-> HistoryRow(both[k].id, both[k].old, both[k].new)]
      OBVIOUS
    <2>3. IsRows(s, 2) /\ s[1] = HistoryRow(i, rec[i], r) /\ s[2] = HistoryRow(i, r, final)
      BY <1>7, <1>8, <2>2 DEF IsRows
    <2>4. hist' = Append(Append(hist, HistoryRow(i, rec[i], r)), HistoryRow(i, r, final))
      BY <1>10, <2>1, <2>2, <2>3, FlushTwo
    <2>5. PICK u : u = Put(rec, i, r)
      OBVIOUS
    <2>6. u[i] = r /\ rec' = Put(u, i, final)
      BY <1>3, <1>10, <2>5 DEF Put
    <2>7. hist' = Capture(Capture(hist, schema.audit, i, rec[i], r), schema.audit, i, u[i], final)
      BY <1>13, <2>4, <2>6 DEF Capture
    <2> QED BY <1>3, <1>9, <2>5, <2>6, <2>7, WriteTwice
  <1> QED BY <1>11, <1>12, <1>13

(* Audit switched on begins a chain of its own. *)
LEMMA ReconfigureChains == ASSUME HistInv, Reconfigure PROVE HistInv'
  <1>1. /\ era' = IF schema'.audit /\ ~schema.audit THEN era + 1 ELSE era
        /\ UNCHANGED <<rec, nextid, hist, lostdel>>
    BY DEF Reconfigure
  <1>2. era \in Nat /\ Dated(hist, era) /\ IsHistory(hist) /\ IsTable(rec) /\ Unspent
    BY DEF HistInv, Sound
  <1>3. ASSUME NEW i \in Ids \ lostdel PROVE Chained(hist, i, rec[i], schema'.audit, era')
    <2>1. Chained(hist, i, rec[i], schema.audit, era)
      BY DEF HistInv, Sound
    <2>2. CASE schema'.audit /\ ~schema.audit
      <3>1. \A k \in Places(hist, i) : hist[k].era # era'
        BY <1>1, <1>2, <2>2 DEF Places, Dated
      <3> QED BY <2>1, <3>1 DEF Chained, Ends
    <2>3. CASE ~(schema'.audit /\ ~schema.audit)
      BY <1>1, <2>1, <2>3 DEF Chained
    <2> QED BY <2>2, <2>3
  <1>4. era' \in Nat /\ Dated(hist, era')
    BY <1>1, <1>2 DEF Dated
  <1> QED BY <1>1, <1>2, <1>3, <1>4 DEF HistInv, Sound, Unspent, IsTable

LEMMA HistInitial == RInit => HistInv
  <1> SUFFICES ASSUME RInit PROVE HistInv
    OBVIOUS
  <1>1. rec = [i \in Ids |-> NoRow] /\ nextid = 1 /\ hist = <<>> /\ era = 1
    BY DEF RInit
  <1>2. DOMAIN hist = {} /\ IsHistory(hist)
    BY <1>1 DEF IsHistory
  <1>3. ASSUME NEW i \in Ids \ lostdel PROVE Chained(hist, i, rec[i], schema.audit, era)
    BY <1>2 DEF Chained, Linked, Ends, Places
  <1>4. IsTable(rec) /\ Dated(hist, era) /\ era \in Nat /\ Unspent
    BY <1>1, <1>2 DEF IsTable, Dated, Unspent
  <1> QED BY <1>2, <1>3, <1>4 DEF HistInv, Sound

LEMMA HistSteps == RecInv /\ HistInv /\ [RNext]_rvars => HistInv'
  <1> SUFFICES ASSUME RecInv, HistInv, [RNext]_rvars PROVE HistInv'
    OBVIOUS
  <1>0. schema.audit \in BOOLEAN
    BY DEF RecInv, ConfigTypes, Schemas
  <1> DEFINE Same == UNCHANGED <<rec, nextid, hist, era, lostdel, schema>>
  <1>1. Same => HistInv'
    BY HistUntouched
  <1>2. CASE UNCHANGED rvars
    BY <1>1, <1>2 DEF rvars, dvars, cvars
  <1>3. CASE Reconfigure
    BY <1>3, ReconfigureChains
  <1>4. CASE EvictCollection
    BY <1>1, <1>4 DEF EvictCollection, dvars
  <1>5. CASE PruneTenant
    <2>1. hist # <<>> /\ hist' = Tail(hist) /\ UNCHANGED <<rec, nextid, era, lostdel, schema>>
      BY <1>5 DEF PruneTenant, cvars
    <2>2. /\ IsHistory(hist') /\ Dated(hist', era)
          /\ \A i, x, on : Chained(hist, i, x, on, era) => Chained(hist', i, x, on, era)
      BY <2>1, PruneChains DEF HistInv, Sound
    <2> QED BY <2>1, <2>2 DEF HistInv, Unspent, Sound, IsTable
  <1>6. ASSUME NEW u, McpDeleteUser(u) \/ DeleteUserHandler(u) PROVE HistInv'
    BY <1>0, <1>6, UserChains DEF McpDeleteUser, DeleteUserHandler
  <1>7. CASE EditRpcs /\ UNCHANGED <<dvars, rtask, sub, trespass, leaked>>
    <2>1. schema' = schema
      BY <1>7 DEF EditRpcs, CreateRpc, UpdateRpc, RpcSaveGuard, DeleteRpc, RpcSaveWrite
    <2> QED BY <1>1, <1>7, <2>1 DEF dvars
  <1>8. ASSUME NEW t \in RTasks, Request(t) \/ FunctionRequest(t) PROVE HistInv'
    <2>1. ASSUME NEW op, NEW who, NEW i, NEW r, NEW sc, Enter(t, op, who, i, r, sc) PROVE HistInv'
      BY <1>1, <2>1 DEF Enter, dvars
    <2>2. ASSUME NEW who, NEW i, NEW sc, DeleteDryRun(t, who, i, sc) PROVE HistInv'
      BY <1>1, <2>2 DEF DeleteDryRun, dvars
    <2>3. ASSUME NEW who, NEW r, NEW sc, CreateHandler(t, who, r, sc) PROVE HistInv'
      BY <2>1, <2>3 DEF CreateHandler
    <2>4. ASSUME NEW who, NEW i, NEW r, NEW sc, UpdateHandler(t, who, i, r, sc) PROVE HistInv'
      BY <2>1, <2>4 DEF UpdateHandler
    <2>5. ASSUME NEW who, NEW i, NEW sc, DeleteHandler(t, who, i, sc) \/ GetHandler(t, who, i, sc) PROVE HistInv'
      BY <2>1, <2>5 DEF DeleteHandler, GetHandler
    <2>6. ASSUME NEW who, NEW raw, NEW sc,
                 \/ ListHandler(t, who, raw, sc) \/ PostList(t, who, sc) \/ PostAggregate(t, who, sc)
                 \/ PostListExplain(t, who, sc) \/ SearchHandler(t, who, sc)
                 \/ McpListRecords(t, sc) \/ McpAggregate(t, sc) \/ McpQuery(t, sc) \/ McpSearchCollection(t, sc)
          PROVE  HistInv'
      BY <2>1, <2>6 DEF ListHandler, PostList, PostAggregate, PostListExplain, SearchHandler, McpListRecords,
                        McpAggregate, McpQuery, McpSearchCollection, ListRecords, Aggregate, Query, SearchCollection
    <2>7. CASE CreateTx(t) \/ UpdateTx(t) \/ DeleteTx(t)
      BY <1>0, <2>7, CreateChains, UpdateChains, DeleteChains
    <2>8. CASE GetRow(t) \/ ReadRows(t) \/ Publish(t) \/ RDrop(t)
      BY <1>1, <2>8 DEF GetRow, ReadRows, Publish, RDrop, ROthers, cvars, dvars
    <2>9. CASE Request(t)
      BY <2>2, <2>3, <2>4, <2>5, <2>6, <2>7, <2>8, <2>9 DEF Request
    <2>10. CASE FunctionRequest(t)
      BY <2>3, <2>4, <2>5, <2>6, <2>10
      DEF FunctionRequest, EnforcedInsert, EnforcedUpdate, EnforcedDelete, EnforcedList
    <2> QED BY <1>8, <2>9, <2>10
  <1>9. ASSUME NEW t \in RTasks, ServiceRequest(t) PROVE HistInv'
    BY <1>0, <1>9, ServiceChains
  <1>10. ASSUME NEW t \in RTasks, RpcRequest(t) PROVE HistInv'
    <2>1. ASSUME NEW who, NEW n, CallRpc(t, who, n) PROVE HistInv'
      BY <1>1, <2>1 DEF CallRpc, ROthers, cvars, dvars
    <2>2. ASSUME NEW sc, RunQueryRpc(t, sc) PROVE HistInv'
      BY <1>1, <2>2 DEF RunQueryRpc, dvars
    <2>3. CASE RunReadRpc(t) \/ RollBackWriteRpc(t)
      BY <1>1, <2>3 DEF RunReadRpc, RollBackWriteRpc, ROthers, cvars, dvars
    <2>4. ASSUME NEW i \in Ids, NEW r, NEW final, RunWriteRpc(t, i, r, final) PROVE HistInv'
      BY <1>0, <2>4, RpcChains
    <2> QED BY <1>10, <2>1, <2>2, <2>3, <2>4 DEF RpcRequest, McpCallRpc
  <1>11. ASSUME NEW s \in Subs, Listener(s) PROVE HistInv'
    <2>1. ASSUME NEW who, NEW sc, SubscribeHandler(s, who, sc) PROVE HistInv'
      BY <1>1, <2>1 DEF SubscribeHandler, dvars
    <2>2. CASE Subscribe(s) \/ Disconnect(s)
      BY <1>1, <2>2 DEF Subscribe, Disconnect, cvars, dvars
    <2> QED BY <1>11, <2>1, <2>2 DEF Listener
  <1> QED BY <1>2, <1>3, <1>4, <1>5, <1>6, <1>7, <1>8, <1>9, <1>10, <1>11 DEF RNext

(* For any numbers of writers, records, settings changes and prunings: the *)
(* entries of a record link up and, while audit is on, end in the row the  *)
(* table has, whichever door each write came through                       *)
(* (record_history.rs capture, flush_captured and capture_owner_cascade).  *)
THEOREM HistoriesAreChains == RSpec => []HistoryChain
  <1>1. RecInv /\ HistInv /\ [RNext]_rvars => (RecInv /\ HistInv)'
    BY RecSteps, HistSteps
  <1>2. RInit => RecInv /\ HistInv
    BY RecInitial, HistInitial
  <1>3. HistInv => HistoryChain
    BY ChainsSuffice
  <1> QED BY <1>1, <1>2, <1>3, PTL DEF RSpec
=============================================================================
