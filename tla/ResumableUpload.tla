-------------------------- MODULE ResumableUpload --------------------------
(***************************************************************************)
(* Resumable (tus) uploads, tenant/uploads, over the file store: a session *)
(* row, a spool file that PATCH requests append to under a per-token lock, *)
(* and a finalization that inserts the file's row, streams the spool to    *)
(* the store and drops the session.  Termination and the janitor take no   *)
(* lock.  It implements UploadLog.                                         *)
(***************************************************************************)
EXTENDS FileStore, Sequences

CONSTANTS
    UTasks,     \* upload handlers in flight at the same time
    MaxSessions,\* large_upload_max_sessions_per_tenant
    MaxArc      \* bound: append locks created for one token between restarts

ASSUME UploadAssumption == MaxSessions \in Nat /\ MaxArc \in Nat \ {0}

VARIABLES
    sess,       \* the session row's visibility, "none" without a row
    lapsed,     \* sessions past their expires_at
    spool,      \* the spool file: for each byte the position its client meant
    spooled,    \* the spool file exists
    arc,        \* token_locks(): the lock of the token, 0 when absent
    arcs,       \* locks created for the token
    utask,      \* the upload handlers in flight
    stored      \* history: uploads whose object was stored

svars == <<sess, lapsed, spool, spooled>>
uvars == <<svars, arc, arcs, utask, stored>>
upvars == <<fvars, uvars>>

Sizes == 0 .. Total
UPcs == {"idle", "open", "arc", "lock", "check", "append", "finrow", "finput",
         "finclean", "drop"}
UIdle == [pc |-> "idle", k |-> NoKey, vis |-> "private", tier |-> 1, arc |-> 0,
          want |-> 0, len |-> 0]
UTaskRows == [pc : UPcs, k : UKeys \cup {NoKey}, vis : Buckets, tier : 1 .. MaxTier,
              arc : 0 .. MaxArc, want : Sizes, len : Sizes]

UInit ==
    /\ FInit
    /\ sess = [u \in UKeys |-> "none"] /\ lapsed = {}
    /\ spool = [u \in UKeys |-> <<>>] /\ spooled = [u \in UKeys |-> FALSE]
    /\ arc = [u \in UKeys |-> 0] /\ arcs = [u \in UKeys |-> 0]
    /\ utask = [t \in UTasks |-> UIdle] /\ stored = {}

UGoto(t, r) == utask' = [utask EXCEPT ![t] = r]
UReturn(t) == UGoto(t, UIdle)
UAt(t, pc) == utask[t].pc = pc
UNFILES == UNCHANGED fvars
UNLOCKS == UNCHANGED <<arc, arcs>>

(* count_in_flight *)
InFlight == Cardinality({u \in UKeys : sess[u] # "none"})

(* create: quota probe, session count, visibility.  Token and key are new. *)
TusCreate(t, u, caller, wanted, grant) ==
    /\ UAt(t, "idle") /\ Fresh(u)
    /\ CheckTenantQuota(Total, tier) /\ InFlight < MaxSessions
    /\ \E v \in UploadVisibility(caller, wanted, "private", grant) :
          UGoto(t, [UIdle EXCEPT !.pc = "open", !.k = u, !.vis = v])
    /\ UNCHANGED <<svars, stored, frow, fobj, tier, page, ftask>> /\ UNLOCKS /\ UNCHECKS

(* Its end: the spool file, then the row; the spool goes when that fails.  *)
TusOpen(t) ==
    LET u == utask[t].k IN
    /\ UAt(t, "open")
    /\ \/ /\ sess' = [sess EXCEPT ![u] = utask[t].vis]
          /\ spooled' = [spooled EXCEPT ![u] = TRUE]
       \/ UNCHANGED <<sess, spooled>>
    /\ UReturn(t)
    /\ UNCHANGED <<lapsed, spool, stored>> /\ UNLOCKS /\ UNFILES

(* patch: the session row is read. *)
TusPatch(t, u, want, len) ==
    /\ UAt(t, "idle") /\ sess[u] # "none"
    /\ UGoto(t, [UIdle EXCEPT !.pc = "arc", !.k = u, !.want = want, !.len = len,
                              !.vis = sess[u]])
    /\ UNCHANGED <<svars, stored>> /\ UNLOCKS /\ UNFILES

(* token_lock: the token's lock, created when the map has none.            *)
TokenLock(t) ==
    LET u == utask[t].k IN
    /\ UAt(t, "arc")
    /\ \/ /\ arc[u] # 0 /\ UNLOCKS
          /\ UGoto(t, [utask[t] EXCEPT !.pc = "lock", !.arc = arc[u]])
       \/ /\ arc[u] = 0 /\ arcs[u] < MaxArc
          /\ arcs' = [arcs EXCEPT ![u] = @ + 1] /\ arc' = [arc EXCEPT ![u] = arcs[u] + 1]
          /\ UGoto(t, [utask[t] EXCEPT !.pc = "lock", !.arc = arcs[u] + 1])
    /\ UNCHANGED <<svars, stored>> /\ UNFILES

Holding == {"check", "append", "finrow", "finput", "finclean"}
Holds(t) == utask[t].pc \in Holding

FaultTusLock(t) ==
    /\ UAt(t, "lock") /\ UGoto(t, [utask[t] EXCEPT !.pc = "check"])
    /\ UNCHANGED <<svars, stored>> /\ UNLOCKS /\ UNFILES
TusLock(t) ==
    /\ UAt(t, "lock")
    /\ \A s \in UTasks : ~(/\ Holds(s) /\ utask[s].k = utask[t].k
                           /\ utask[s].arc = utask[t].arc)
    /\ UGoto(t, [utask[t] EXCEPT !.pc = "check"])
    /\ UNCHANGED <<svars, stored>> /\ UNLOCKS /\ UNFILES

SpoolLen(u) == IF spooled[u] THEN Len(spool[u]) ELSE 0

(* Offset, completeness, overflow and the quota probe.  A complete spool   *)
(* goes straight to finalization, which reads the tier first.              *)
TusCheck(t) ==
    LET u == utask[t].k  cur == SpoolLen(u)  next == cur + utask[t].len IN
    /\ UAt(t, "check")
    /\ \/ /\ utask[t].want = cur /\ cur = Total
          /\ UGoto(t, [utask[t] EXCEPT !.pc = "finrow", !.tier = tier])
       \/ /\ utask[t].want = cur /\ cur < Total /\ next <= Total
          /\ CheckTenantQuota(next, tier)
          /\ UGoto(t, [utask[t] EXCEPT !.pc = "append"])
       \/ /\ \/ utask[t].want # cur
             \/ cur < Total /\ (next > Total \/ ~CheckTenantQuota(next, tier))
          /\ UReturn(t)
    /\ UNCHANGED <<svars, stored>> /\ UNLOCKS /\ UNFILES

(* open(append) and write_all: a spool that is gone is a 404, a failing    *)
(* write leaves a prefix of the chunk.  The last byte starts finalization. *)
TusAppend(t) ==
    LET u == utask[t].k
        Written(n) == spool' = [spool EXCEPT ![u] = @ \o [i \in 1 .. n |-> utask[t].want + i]]
        complete == utask[t].want + utask[t].len = Total
    IN
    /\ UAt(t, "append")
    /\ \/ ~spooled[u] /\ UReturn(t) /\ UNCHANGED spool
       \/ /\ spooled[u] /\ Written(utask[t].len) /\ ~complete /\ UReturn(t)
       \/ /\ spooled[u] /\ Written(utask[t].len) /\ complete
          /\ UGoto(t, [utask[t] EXCEPT !.pc = "finrow", !.tier = tier])
       \/ /\ spooled[u] /\ \E n \in 0 .. utask[t].len : Written(n)
          /\ UReturn(t)
    /\ UNCHANGED <<sess, lapsed, spooled, stored>> /\ UNLOCKS /\ UNFILES

(* finalize_and_respond: quota (nothing for a row that is there) and       *)
(* INSERT OR IGNORE in one writer closure.                                 *)
TusFinishRow(t) ==
    LET u == utask[t].k
        incoming == IF frow[u] # "none" THEN 0 ELSE Total
    IN
    /\ UAt(t, "finrow")
    /\ \/ /\ CheckTenantQuota(incoming, utask[t].tier)
          /\ frow' = [frow EXCEPT ![u] = IF @ = "none" THEN utask[t].vis ELSE @]
          /\ UGoto(t, [utask[t] EXCEPT !.pc = "finput"])
       \/ ~CheckTenantQuota(incoming, utask[t].tier) /\ UReturn(t) /\ UNCHANGED frow
    /\ UNCHANGED <<fobj, tier, page, ftask, fhist, svars, stored>> /\ UNLOCKS

(* put_file_in streams the spool; a failure keeps the session for a retry. *)
TusFinishPut(t) ==
    LET u == utask[t].k IN
    /\ UAt(t, "finput")
    /\ \/ /\ spooled[u] /\ fobj' = PutObjectIn(u, utask[t].vis)
          /\ stored' = stored \cup {u}
          /\ UGoto(t, [utask[t] EXCEPT !.pc = "finclean"])
       \/ UReturn(t) /\ UNCHANGED <<fobj, stored>>
    /\ UNCHANGED <<frow, tier, page, ftask, fhist, svars>> /\ UNLOCKS

(* remove_file, delete_session, token_locks().remove *)
DropSession(u) ==
    /\ sess' = [sess EXCEPT ![u] = "none"] /\ lapsed' = lapsed \ {u}
    /\ spool' = [spool EXCEPT ![u] = <<>>] /\ spooled' = [spooled EXCEPT ![u] = FALSE]
    /\ arc' = [arc EXCEPT ![u] = 0] /\ UNCHANGED <<arcs, stored>>

TusFinishClean(t) ==
    /\ UAt(t, "finclean")
    /\ DropSession(utask[t].k) /\ acked' = acked \cup {utask[t].k} /\ UReturn(t)
    /\ UNCHANGED <<frow, fobj, tier, page, ftask, used, asked, crossed, topTier>>

(* terminate: the session row is read, then everything goes, unlocked. *)
TusTerminate(t, u) ==
    /\ UAt(t, "idle") /\ sess[u] # "none"
    /\ UGoto(t, [UIdle EXCEPT !.pc = "drop", !.k = u])
    /\ UNCHANGED <<svars, stored>> /\ UNLOCKS /\ UNFILES
TusDrop(t) == UAt(t, "drop") /\ DropSession(utask[t].k) /\ UReturn(t) /\ UNFILES

(* The clock, and the janitor's sweep_tenant. *)
TusExpire(u) ==
    /\ sess[u] # "none" /\ lapsed' = lapsed \cup {u}
    /\ UNCHANGED <<sess, spool, spooled, utask, stored>> /\ UNLOCKS /\ UNFILES
SweepTenant(u) ==
    /\ u \in lapsed /\ DropSession(u) /\ UNCHANGED utask /\ UNFILES

(* The process dies: the lock map is empty again. *)
UCrash ==
    /\ FCrash /\ utask' = [t \in UTasks |-> UIdle]
    /\ arc' = [u \in UKeys |-> 0] /\ UNCHANGED <<arcs, svars, stored>>

TusStep(t) ==
    \/ \E u \in UKeys, c \in {"service", "user"}, w \in Buckets \cup {"omitted"},
          g \in BOOLEAN : TusCreate(t, u, c, w, g)
    \/ TusOpen(t)
    \/ \E u \in UKeys, o \in Sizes, n \in 1 .. Total : TusPatch(t, u, o, n)
    \/ TokenLock(t) \/ TusLock(t) \/ TusCheck(t) \/ TusAppend(t)
    \/ TusFinishRow(t) \/ TusFinishPut(t) \/ TusFinishClean(t)
    \/ \E u \in UKeys : TusTerminate(t, u)
    \/ TusDrop(t)

UNext ==
    \/ \E t \in UTasks : TusStep(t)
    \/ \E u \in UKeys : TusExpire(u) \/ SweepTenant(u)
    \/ \E t \in FTasks : FStep(t) /\ UNCHANGED uvars
    \/ \E k \in AKeys : (ReconcileDeleteObject(k) \/ ReconcileDeleteRow(k)) /\ UNCHANGED uvars
    \/ \E n \in 1 .. MaxTier : SetTier(n) /\ UNCHANGED uvars
    \/ UCrash

USpec == UInit /\ [][UNext]_upvars

----------------------------------------------------------------------------
(* The shape of the state. *)
UTypeOK ==
    /\ FTypeOK
    /\ sess \in [UKeys -> Buckets \cup {"none"}] /\ lapsed \subseteq UKeys
    /\ spool \in [UKeys -> Seq(1 .. Total)] /\ spooled \in [UKeys -> BOOLEAN]
    /\ arc \in [UKeys -> 0 .. MaxArc] /\ arcs \in [UKeys -> 0 .. MaxArc]
    /\ utask \in [UTasks -> UTaskRows] /\ stored \subseteq UKeys

Log == INSTANCE UploadLog WITH Uploads <- UKeys, Length <- Total, content <- spool,
                               opened <- spooled, stored <- stored

(* Repeated, raced and cut-off PATCH requests, terminations, the janitor   *)
(* and crashes implement UploadLog: bytes are accepted in order and once,  *)
(* and only the complete file is stored.                                   *)
LogRefined == Log!LSpec
============================================================================
