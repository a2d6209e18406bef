----------------------------- MODULE FileStore -----------------------------
(***************************************************************************)
(* Files: rows of _system_files (SQLite) and objects of the two host-wide  *)
(* buckets (Garage), written in separate steps by uploads, deletions,      *)
(* visibility changes and the admin's reconcile page (resumable uploads    *)
(* are ResumableUpload's).  A task is a handler in flight; every await     *)
(* that another task can get in at is the end of an action.  The tenant's  *)
(* quota is the tier read from meta.sqlite before the writer closure that  *)
(* adds the row.                                                           *)
(***************************************************************************)
EXTENDS Naturals, FiniteSets, FiniteSetsExt

CONSTANTS
    TKeys,      \* keys of one tenant's plain uploads
    AKeys,      \* keys of the admin's own files
    UKeys,      \* keys (and tokens) of the tenant's resumable uploads
    FTasks,     \* handlers in flight at the same time
    NoKey,      \* the key of an idle handler
    Total,      \* bytes of a file
    MaxTier,    \* bound: the quota tiers are 1..MaxTier
    TierBytes   \* QUOTA_TIER_BYTES

ASSUME FileAssumption ==
    /\ Total \in Nat \ {0} /\ MaxTier \in Nat \ {0} /\ TierBytes \in Nat
    /\ IsFiniteSet(TKeys) /\ IsFiniteSet(UKeys) /\ IsFiniteSet(AKeys)
    /\ NoKey \notin TKeys \cup AKeys \cup UKeys
    /\ TKeys \cap AKeys = {} /\ TKeys \cap UKeys = {} /\ AKeys \cap UKeys = {}

VARIABLES
    frow,       \* the row's visibility, "none" without a row
    fobj,       \* the buckets that hold the object of the key
    tier,       \* tenants.quota_tier
    page,       \* what the reconcile page last showed
    ftask,      \* the handlers in flight
    used,       \* history: keys (fresh UUIDs) already given to a file
    acked,      \* history: files whose upload was answered with success
    asked,      \* history: files somebody asked to delete
    crossed,    \* history: two visibility changes in flight, or a key taken again
    topTier     \* history: the largest tier the tenant had

fhist == <<used, acked, asked, crossed, topTier>>
fvars == <<frow, fobj, tier, page, ftask, fhist>>

Buckets == {"public", "private"}
FKeys == TKeys \cup AKeys \cup UKeys
TenantKeys == TKeys \cup UKeys
FPcs == {"idle", "insert", "put", "undo", "delobj", "delrow", "get", "copy",
         "update", "delold", "rows"}
FIdle == [pc |-> "idle", k |-> NoKey, vis |-> "private", from |-> "private",
          tier |-> 1, seen |-> {}]
FTaskRows == [pc : FPcs, k : FKeys \cup {NoKey}, vis : Buckets, from : Buckets,
              tier : 1 .. MaxTier, seen : SUBSET AKeys]

FInit ==
    /\ frow = [k \in FKeys |-> "none"] /\ fobj = [k \in FKeys |-> {}]
    /\ tier = 1 /\ topTier = 1
    /\ page = [orphans |-> {}, dangling |-> {}]
    /\ ftask = [t \in FTasks |-> FIdle]
    /\ used = {} /\ acked = {} /\ asked = {} /\ crossed = {}

FGoto(t, r) == ftask' = [ftask EXCEPT ![t] = r]
FReturn(t) == FGoto(t, FIdle)
FAt(t, pc) == ftask[t].pc = pc
UNHIST == UNCHANGED fhist

(* A key is a fresh UUID. *)
Fresh(k) == k \notin used /\ used' = used \cup {k}
UNCHECKS == UNCHANGED <<acked, asked, crossed, topTier>>

----------------------------------------------------------------------------
(* storage/garage.rs: what the store holds after a call. *)
PutObjectIn(k, b) == [fobj EXCEPT ![k] = @ \cup {b}]
DeleteObjectIn(k, b) == [fobj EXCEPT ![k] = @ \ {b}]
DeleteObjectDefault(k) == DeleteObjectIn(k, "public")
ListObjects == {k \in FKeys : "public" \in fobj[k]}

(* storage/quota.rs.  usage_on_conn counts the rows, whatever the store    *)
(* holds; database pages are not modelled.                                 *)
UsageOnConn == Total * Cardinality({k \in TenantKeys : frow[k] # "none"})
CheckTenantQuota(incoming, t) == UsageOnConn + incoming <= t * TierBytes

(* patch_tenant_quota / an approved quota request. *)
SetTier(n) ==
    /\ tier' = n /\ topTier' = IF n > topTier THEN n ELSE topTier
    /\ UNCHANGED <<frow, fobj, page, ftask, used, acked, asked, crossed>>

(* enforce_upload_visibility: service callers choose, others publish only  *)
(* with a grant of the governing file policy; the empty set is a refusal.  *)
UploadVisibility(caller, wanted, default, grant) ==
    IF caller = "service" THEN {IF wanted = "omitted" THEN default ELSE wanted}
    ELSE IF wanted # "public" THEN {"private"}
    ELSE IF grant THEN {"public"} ELSE {}

----------------------------------------------------------------------------
(* Plain uploads: row first, then the object, the row taken back when the  *)
(* store fails.                                                            *)

(* upload_inner up to resolve_quota_tier. *)
UploadStart(t, k, caller, wanted, grant) ==
    /\ FAt(t, "idle") /\ k \in TKeys /\ Fresh(k)
    /\ \E v \in UploadVisibility(caller, wanted, "public", grant) :
          FGoto(t, [FIdle EXCEPT !.pc = "insert", !.k = k, !.vis = v, !.tier = tier])
    /\ UNCHANGED <<frow, fobj, tier, page>> /\ UNCHECKS

(* put_file_as of an edge function, under a key the function chose: a key  *)
(* in use fails the INSERT, one of a deleted file is taken again.  Without *)
(* a caller (put_file_raw) the function's own visibility stands, else the  *)
(* caller's grant decides.                                                 *)
PutFileAs(t, k, v) ==
    /\ FAt(t, "idle") /\ k \in TKeys /\ used' = used \cup {k}
    /\ FGoto(t, [FIdle EXCEPT !.pc = "insert", !.k = k, !.vis = v, !.tier = tier])
    /\ crossed' = IF k \in used THEN crossed \cup {k} ELSE crossed
    /\ UNCHANGED <<frow, fobj, tier, page, acked, asked, topTier>>
PutFileRaw(t, k, wanted) == PutFileAs(t, k, wanted)
EnforcedPutFile(t, k, wanted, grant) ==
    \E v \in UploadVisibility("user", wanted, "private", grant) : PutFileAs(t, k, v)

(* The writer closure: quota and INSERT together. *)
FaultUploadInsert(t) ==
    /\ FAt(t, "insert")
    /\ frow' = [frow EXCEPT ![ftask[t].k] = ftask[t].vis]
    /\ FGoto(t, [ftask[t] EXCEPT !.pc = "put"])
    /\ UNCHANGED <<fobj, tier, page>> /\ UNHIST
UploadInsert(t) ==
    /\ FAt(t, "insert")
    /\ \/ /\ CheckTenantQuota(Total, ftask[t].tier) /\ frow[ftask[t].k] = "none"
          /\ frow' = [frow EXCEPT ![ftask[t].k] = ftask[t].vis]
          /\ FGoto(t, [ftask[t] EXCEPT !.pc = "put"])
       \/ /\ ~CheckTenantQuota(Total, ftask[t].tier) \/ frow[ftask[t].k] # "none"
          /\ FReturn(t) /\ UNCHANGED frow
    /\ UNCHANGED <<fobj, tier, page>> /\ UNHIST

(* upload_submit: the admin's own file, in meta.sqlite and without quota. *)
AdminUpload(t, k, v) ==
    /\ FAt(t, "idle") /\ k \in AKeys /\ Fresh(k)
    /\ frow' = [frow EXCEPT ![k] = v]
    /\ FGoto(t, [FIdle EXCEPT !.pc = "put", !.k = k, !.vis = v])
    /\ UNCHANGED <<fobj, tier, page>> /\ UNCHECKS

(* put_object_in; an error may come back after the object was stored. *)
UploadPut(t) ==
    /\ FAt(t, "put")
    /\ \/ /\ fobj' = PutObjectIn(ftask[t].k, ftask[t].vis)
          /\ acked' = acked \cup {ftask[t].k} /\ FReturn(t)
       \/ /\ fobj' \in {fobj, PutObjectIn(ftask[t].k, ftask[t].vis)}
          /\ FGoto(t, [ftask[t] EXCEPT !.pc = "undo"]) /\ UNCHANGED acked
    /\ UNCHANGED <<frow, tier, page, used, asked, crossed, topTier>>

(* The compensating DELETE. *)
UploadUndo(t) ==
    /\ FAt(t, "undo")
    /\ frow' = [frow EXCEPT ![ftask[t].k] = "none"] /\ FReturn(t)
    /\ UNCHANGED <<fobj, tier, page>> /\ UNHIST

----------------------------------------------------------------------------
(* Deletions: object first, then the row. *)

(* delete_one_inner reads the row for its bucket (who may delete is        *)
(* FileRules' FileAccessAllowed).                                          *)
DeleteStart(t, k) ==
    /\ FAt(t, "idle") /\ k \in TenantKeys /\ frow[k] # "none"
    /\ FGoto(t, [FIdle EXCEPT !.pc = "delobj", !.k = k, !.from = frow[k]])
    /\ asked' = asked \cup {k}
    /\ UNCHANGED <<frow, fobj, tier, page, used, acked, crossed, topTier>>

(* The MCP tool: the same steps without a policy. *)
DeleteFileTool(t, k) == DeleteStart(t, k)
McpDeleteFile(t, k) == DeleteFileTool(t, k)

(* delete_submit: delete_object of the default (public) bucket. *)
AdminDelete(t, k) ==
    /\ FAt(t, "idle") /\ k \in AKeys /\ frow[k] # "none"
    /\ FGoto(t, [FIdle EXCEPT !.pc = "delobj", !.k = k, !.from = "public"])
    /\ asked' = asked \cup {k}
    /\ UNCHANGED <<frow, fobj, tier, page, used, acked, crossed, topTier>>

DeleteObject(t) ==
    /\ FAt(t, "delobj")
    /\ \/ /\ fobj' = DeleteObjectIn(ftask[t].k, ftask[t].from)
          /\ FGoto(t, [ftask[t] EXCEPT !.pc = "delrow"])
       \/ FReturn(t) /\ UNCHANGED fobj      \* the store failed
    /\ UNCHANGED <<frow, tier, page>> /\ UNHIST

DeleteRow(t) ==
    /\ FAt(t, "delrow")
    /\ frow' = [frow EXCEPT ![ftask[t].k] = "none"] /\ FReturn(t)
    /\ UNCHANGED <<fobj, tier, page>> /\ UNHIST

----------------------------------------------------------------------------
(* storage/visibility.rs change_visibility *)

Moving(k) == \E t \in FTasks : /\ ftask[t].k = k
                               /\ ftask[t].pc \in {"get", "copy", "update", "delold"}

VisibilityRead(t, k, target) ==
    /\ FAt(t, "idle") /\ k \in TenantKeys
    /\ frow[k] \notin {"none", target}
    /\ FGoto(t, [FIdle EXCEPT !.pc = "get", !.k = k, !.from = frow[k], !.vis = target])
    /\ crossed' = IF Moving(k) THEN crossed \cup {k} ELSE crossed
    /\ UNCHANGED <<frow, fobj, tier, page, used, acked, asked, topTier>>

(* The three doors to it: the service route, the admin page, the MCP tool. *)
SetVisibility(t, k, target, door) ==
    /\ door \in {"service", "admin", "mcp"}
    /\ VisibilityRead(t, k, target)
McpSetFileVisibility(t, k, target) == SetVisibility(t, k, target, "mcp")

VisibilityGet(t) ==
    /\ FAt(t, "get")
    /\ IF ftask[t].from \in fobj[ftask[t].k]
       THEN FGoto(t, [ftask[t] EXCEPT !.pc = "copy"])
       ELSE FReturn(t)
    /\ UNCHANGED <<frow, fobj, tier, page>> /\ UNHIST

VisibilityCopy(t) ==
    /\ FAt(t, "copy")
    /\ \/ /\ fobj' = PutObjectIn(ftask[t].k, ftask[t].vis)
          /\ FGoto(t, [ftask[t] EXCEPT !.pc = "update"])
       \/ /\ fobj' \in {fobj, PutObjectIn(ftask[t].k, ftask[t].vis)}
          /\ FReturn(t)                    \* an error, stored or not
    /\ UNCHANGED <<frow, tier, page>> /\ UNHIST

(* Fault: the old object goes before the row points to the new one. *)
FaultVisibilityUpdate(t) ==
    /\ FAt(t, "update")
    /\ fobj' = DeleteObjectIn(ftask[t].k, ftask[t].from)
    /\ FGoto(t, [ftask[t] EXCEPT !.pc = "delold"])
    /\ UNCHANGED <<frow, tier, page>> /\ UNHIST
VisibilityUpdate(t) ==
    /\ FAt(t, "update")
    /\ frow' = [frow EXCEPT ![ftask[t].k] = IF @ = "none" THEN @ ELSE ftask[t].vis]
    /\ FGoto(t, [ftask[t] EXCEPT !.pc = "delold"])
    /\ UNCHANGED <<fobj, tier, page>> /\ UNHIST

VisibilityDeleteOld(t) ==
    /\ FAt(t, "delold")
    /\ \/ fobj' = DeleteObjectIn(ftask[t].k, ftask[t].from)
       \/ UNCHANGED fobj                    \* logged, left behind
    /\ FReturn(t)
    /\ UNCHANGED <<frow, tier, page>> /\ UNHIST

----------------------------------------------------------------------------
(* The reconcile page: the public bucket is listed, then the admin's rows  *)
(* are read; what it shows is acted on at any later time.                  *)

(* is_admin_level_key: a tenant's keys have its id as a folder. *)
IsAdminLevelKey(k) == k \in AKeys

ReconcileList(t) ==
    /\ FAt(t, "idle")
    /\ FGoto(t, [FIdle EXCEPT !.pc = "rows",
                              !.seen = {k \in ListObjects : IsAdminLevelKey(k)}])
    /\ UNCHANGED <<frow, fobj, tier, page>> /\ UNHIST

ReconcileRows(t) ==
    LET rows == {k \in AKeys : frow[k] # "none"} IN
    /\ FAt(t, "rows")
    /\ page' = [orphans |-> ftask[t].seen \ rows, dangling |-> rows \ ftask[t].seen]
    /\ FReturn(t)
    /\ UNCHANGED <<frow, fobj, tier>> /\ UNHIST

(* reconcile_apply *)
ReconcileDeleteObject(k) ==
    /\ k \in page.orphans /\ IsAdminLevelKey(k)
    /\ fobj' = DeleteObjectDefault(k)
    /\ page' = [page EXCEPT !.orphans = @ \ {k}]
    /\ UNCHANGED <<frow, tier, ftask>> /\ UNHIST
ReconcileDeleteRow(k) ==
    /\ k \in page.dangling
    /\ frow' = [frow EXCEPT ![k] = "none"]
    /\ page' = [page EXCEPT !.dangling = @ \ {k}]
    /\ UNCHANGED <<fobj, tier, ftask>> /\ UNHIST

----------------------------------------------------------------------------
(* The process dies: the handlers are gone, files and rows stay. *)
FCrash ==
    /\ ftask' = [t \in FTasks |-> FIdle]
    /\ UNCHANGED <<frow, fobj, tier, page>> /\ UNHIST

FStep(t) ==
    \/ \E k \in TKeys, c \in {"service", "user"}, w \in Buckets \cup {"omitted"},
          g \in BOOLEAN : UploadStart(t, k, c, w, g)
    \/ \E k \in TKeys, w \in Buckets, g \in BOOLEAN : PutFileRaw(t, k, w) \/ EnforcedPutFile(t, k, w, g)
    \/ \E k \in AKeys, v \in Buckets : AdminUpload(t, k, v)
    \/ UploadInsert(t) \/ UploadPut(t) \/ UploadUndo(t)
    \/ \E k \in FKeys : DeleteStart(t, k) \/ McpDeleteFile(t, k) \/ AdminDelete(t, k)
    \/ DeleteObject(t) \/ DeleteRow(t)
    \/ \E k \in FKeys, v \in Buckets :
          \/ McpSetFileVisibility(t, k, v)
          \/ \E c \in {"service", "admin"} : SetVisibility(t, k, v, c)
    \/ VisibilityGet(t) \/ VisibilityCopy(t) \/ VisibilityUpdate(t)
    \/ VisibilityDeleteOld(t)
    \/ ReconcileList(t) \/ ReconcileRows(t)

FNext ==
    \/ \E t \in FTasks : FStep(t)
    \/ \E k \in AKeys : ReconcileDeleteObject(k) \/ ReconcileDeleteRow(k)
    \/ \E n \in 1 .. MaxTier : SetTier(n)
    \/ FCrash

FSpec == FInit /\ [][FNext]_fvars

----------------------------------------------------------------------------
(* The shape of the state. *)
FTypeOK ==
    /\ frow \in [FKeys -> Buckets \cup {"none"}] /\ fobj \in [FKeys -> SUBSET Buckets]
    /\ tier \in 1 .. MaxTier /\ topTier \in 1 .. MaxTier
    /\ page \in [orphans : SUBSET AKeys, dangling : SUBSET AKeys]
    /\ ftask \in [FTasks -> FTaskRows]
    /\ used \subseteq FKeys /\ acked \subseteq FKeys /\ asked \subseteq FKeys /\ crossed \subseteq FKeys

(* However uploads, finalizations and changes of the tier interleave, the  *)
(* rows a tenant pays for stay within the largest tier it ever had: the    *)
(* quota check and the INSERT are one writer closure, though the tier      *)
(* checked against was read before it.                                     *)
QuotaHeld == UsageOnConn <= topTier * TierBytes

(* A file whose upload was answered with success, that nobody asked to     *)
(* delete, whose visibility was never changed by two handlers at once and  *)
(* whose key no function took again, is readable: as long as it has a row, *)
(* the bucket that the row names holds its object, at every await of a     *)
(* visibility change, across store failures, crashes, retried              *)
(* finalizations and the reconcile page.                                   *)
AckedReadable ==
    \A k \in acked \ (asked \cup crossed) : frow[k] = "none" \/ frow[k] \in fobj[k]
============================================================================
