------------------------------ MODULE AuditLog ------------------------------
(***************************************************************************)
(* The audit log: handlers hand entries to a bounded channel and go on;    *)
(* one writer task batches them into audit.sqlite, and runs the daily      *)
(* retention pass and the monthly VACUUM without letting the channel fill  *)
(* up: what arrives meanwhile is stashed in the same buffer.  A reader     *)
(* pages through the rows by timestamp.                                    *)
(***************************************************************************)
EXTENDS Naturals, Sequences, FiniteSets, FiniteSetsExt, SequencesExt

CONSTANTS
    ChannelCapacity, FlushBatchSize, StashMaxEntries, DeleteChunk, PageSize,
    RetentionTicks,     \* the retention window in days, the ticks of the clock; 0: keep for ever
    MonthTicks,         \* days of a month
    MaxSent, MaxTick    \* bounds: entries handed over, ticks of the clock

ASSUME AuditAssumption ==
    /\ {ChannelCapacity, FlushBatchSize, StashMaxEntries, DeleteChunk, PageSize, MonthTicks} \subseteq Nat \ {0}
    /\ {RetentionTicks, MaxSent, MaxTick} \subseteq Nat

VARIABLES
    achan,      \* the mpsc channel
    abuf,       \* the writer's buffer
    arows,      \* rows of the audit table
    apc,        \* "loop", "retain", "absorb", "vacuum"
    apass,      \* the retention pass: cutoff, vacuum
    ameta,      \* _meta.last_vacuum_ts, 0 when there is none
    adefer,     \* SetMeta commands met during a pass
    aconn,      \* "db", or "memory" when the database could not be reopened
    atick,      \* the clock
    asched,     \* the retention task: "sleep" or "meta"
    adropped,   \* the drop counters
    apage,      \* a reader of the browse tab
    asent, adrops, agone    \* history: entries sent, dropped, and deleted, failed or lost

avars == <<achan, abuf, arows, apc, apass, ameta, adefer, aconn, atick, asched, adropped, apage,
           asent, adrops, agone>>
AEntry == [n : 1 .. MaxSent, ts : 0 .. MaxTick]
NoPass == [cut |-> 0, vacuum |-> FALSE]
NoPage == [open |-> FALSE, before |-> MaxTick + 1, seen |-> {}, start |-> {}, done |-> FALSE]

AInit ==
    /\ achan = <<>> /\ abuf = <<>> /\ arows = {} /\ apc = "loop" /\ apass = NoPass
    /\ ameta = 0 /\ adefer = <<>> /\ aconn = "db" /\ atick = 0 /\ asched = "sleep"
    /\ adropped = 0 /\ apage = NoPage /\ asent = 0 /\ adrops = {} /\ agone = {}

Ins(e) == [cmd |-> "insert", e |-> e]
Ret(cut, v) == [cmd |-> "retention", cut |-> cut, vacuum |-> v]
Meta(v) == [cmd |-> "meta", v |-> v]

(* Where an entry can be. *)
Inserts == {i \in DOMAIN achan : achan[i].cmd = "insert"}
InChannel == {achan[i].e.n : i \in Inserts}
InBuffer == {abuf[i].n : i \in DOMAIN abuf}
Stored == {e.n : e \in arows}

----------------------------------------------------------------------------
(* AuditWriter::try_send_inner.  The entry was stamped when its handler    *)
(* built it, up to a tick ago.                                             *)
TrySend(ts) ==
    LET e == [n |-> asent + 1, ts |-> ts] IN
    /\ asent < MaxSent /\ asent' = asent + 1 /\ ts \in 0 .. atick /\ ts + 1 >= atick
    /\ IF Len(achan) < ChannelCapacity
       THEN achan' = Append(achan, Ins(e)) /\ UNCHANGED <<adropped, adrops>>
       ELSE /\ adropped' = adropped + 1 /\ adrops' = adrops \cup {e.n}
            /\ UNCHANGED achan
    /\ UNCHANGED <<abuf, arows, apc, apass, ameta, adefer, aconn, atick, asched, agone, apage>>

(* main.rs, the retention task at 03:00: both sends wait for room. *)
Cutoff(now) == IF RetentionTicks > 0 /\ now > RetentionTicks THEN now - RetentionTicks ELSE 0
Month(day) == (day - 1) \div MonthTicks
ShouldVacuum(now, last) == (now - 1) % MonthTicks = 0 \/ last = 0 \/ Month(last) # Month(now)
Retention0300 ==
    /\ asched = "sleep" /\ atick < MaxTick /\ Len(achan) < ChannelCapacity
    /\ atick' = atick + 1
    /\ LET v == ShouldVacuum(atick', ameta) IN
        achan' = Append(achan, Ret(Cutoff(atick'), v)) /\ asched' = IF v THEN "meta" ELSE "sleep"
    /\ UNCHANGED <<abuf, arows, apc, apass, ameta, adefer, aconn, adropped, asent, adrops, agone, apage>>
SendSetMeta ==
    /\ asched = "meta" /\ Len(achan) < ChannelCapacity
    /\ achan' = Append(achan, Meta(atick)) /\ asched' = "sleep"
    /\ UNCHANGED <<abuf, arows, apc, apass, ameta, adefer, aconn, atick, adropped, asent, adrops, agone, apage>>

----------------------------------------------------------------------------
(* flush: one transaction.  An INSERT that fails is skipped; when the      *)
(* transaction cannot begin or commit, all that was in the buffer is gone. *)
Flush(buf) ==
    \E bad \in SUBSET ToSet(buf) :
        /\ aconn = "memory" => bad = ToSet(buf)
        /\ abuf' = <<>> /\ arows' = arows \cup (ToSet(buf) \ bad) /\ agone' = agone \cup {e.n : e \in bad}

(* set_meta: a failure is only logged. *)
SetMeta(vs, conn) == ameta' \in {ameta} \cup (IF conn = "db" THEN vs ELSE {})

(* writer_loop outside a pass: the next command, or the flush window. *)
Receive ==
    LET m == Head(achan) IN
    /\ apc = "loop" /\ achan # <<>> /\ achan' = Tail(achan)
    /\ CASE m.cmd = "insert" ->
              /\ IF Len(abuf) + 1 >= FlushBatchSize THEN Flush(Append(abuf, m.e))
                 ELSE abuf' = Append(abuf, m.e) /\ UNCHANGED <<arows, agone>>
              /\ UNCHANGED <<apc, apass, ameta>>
         [] m.cmd = "retention" ->
              /\ Flush(abuf) /\ apc' = "retain" /\ apass' = [cut |-> m.cut, vacuum |-> m.vacuum]
              /\ UNCHANGED ameta
         [] OTHER -> SetMeta({m.v}, aconn) /\ UNCHANGED <<abuf, arows, agone, apc, apass>>
    /\ UNCHANGED <<adefer, aconn, atick, asched, adropped, asent, adrops, apage>>
FlushWindow ==
    /\ apc = "loop" /\ abuf # <<>> /\ Flush(abuf)
    /\ UNCHANGED <<achan, apc, apass, ameta, adefer, aconn, atick, asched, adropped, asent, adrops, apage>>

(* stash_cmd: entries up to the cap of the buffer, metadata deferred, a    *)
(* second retention command ignored.                                       *)
FaultStash(m) ==
    \/ /\ m.cmd = "insert" /\ Len(abuf) < StashMaxEntries /\ abuf' = Append(abuf, m.e)
       /\ UNCHANGED <<adefer, adropped, adrops>>
    \/ m.cmd = "insert" /\ Len(abuf) >= StashMaxEntries /\ UNCHANGED <<abuf, adefer, adropped, adrops>>
    \/ m.cmd = "meta" /\ adefer' = Append(adefer, m.v) /\ UNCHANGED <<abuf, adropped, adrops>>
    \/ m.cmd = "retention" /\ UNCHANGED <<abuf, adefer, adropped, adrops>>
Stash(m) ==
    \/ /\ m.cmd = "insert" /\ Len(abuf) < StashMaxEntries /\ abuf' = Append(abuf, m.e)
       /\ UNCHANGED <<adefer, adropped, adrops>>
    \/ /\ m.cmd = "insert" /\ Len(abuf) >= StashMaxEntries
       /\ adropped' = adropped + 1 /\ adrops' = adrops \cup {m.e.n} /\ UNCHANGED <<abuf, adefer>>
    \/ m.cmd = "meta" /\ adefer' = Append(adefer, m.v) /\ UNCHANGED <<abuf, adropped, adrops>>
    \/ m.cmd = "retention" /\ UNCHANGED <<abuf, adefer, adropped, adrops>>
StashNext ==
    /\ achan # <<>> /\ achan' = Tail(achan) /\ Stash(Head(achan))
    /\ UNCHANGED <<arows, apc, apass, ameta, aconn, atick, asched, asent, agone, apage>>

(* run_retention_pass: chunks of expired rows; between two chunks whatever *)
(* has arrived, and still arrives, is stashed, then flushed.               *)
Expired == {e \in arows : e.ts < apass.cut}
DeleteExpiredChunk ==
    /\ apc = "retain" /\ Expired # {} /\ aconn = "db" /\ apc' = "absorb"
    /\ \E gone \in kSubset(IF Cardinality(Expired) < DeleteChunk THEN Cardinality(Expired) ELSE DeleteChunk, Expired) :
        arows' = arows \ gone /\ agone' = agone \cup {e.n : e \in gone}
    /\ UNCHANGED <<achan, abuf, apass, ameta, adefer, aconn, atick, asched, adropped, asent, adrops, apage>>
Absorb == apc = "absorb" /\ StashNext
AbsorbEnds ==
    /\ apc = "absorb" /\ achan = <<>> /\ Flush(abuf) /\ apc' = "retain"
    /\ UNCHANGED <<achan, apass, ameta, adefer, aconn, atick, asched, adropped, asent, adrops, apage>>
(* No row left to delete, or the DELETE failed. *)
FinishPass(conn) == SetMeta(ToSet(adefer), conn) /\ adefer' = <<>> /\ apass' = NoPass
DeleteEnds ==
    /\ apc = "retain"
    /\ IF apass.vacuum THEN apc' = "vacuum" /\ UNCHANGED <<ameta, adefer, apass, abuf, arows, agone>>
       ELSE apc' = "loop" /\ FinishPass(aconn) /\ Flush(abuf)
    /\ UNCHANGED <<achan, aconn, atick, asched, adropped, asent, adrops, apage>>
(* run_vacuum_offloaded: the connection is away on a blocking thread. *)
StashDuringVacuum == apc = "vacuum" /\ StashNext
FaultVacuumEnds ==
    /\ apc = "vacuum"
    /\ \/ aconn' = aconn /\ Flush(abuf) /\ apc' = "loop"
       \/ aconn' = "memory" /\ apc' = "dead" /\ UNCHANGED <<abuf, arows, agone>>
    /\ FinishPass(aconn')
    /\ UNCHANGED <<achan, atick, asched, adropped, asent, adrops, apage>>
(* It comes back, or its thread panicked and the file is opened again, or  *)
(* that failed and the buffer is flushed into the placeholder.             *)
VacuumEnds ==
    /\ apc = "vacuum" /\ apc' = "loop"
    /\ \/ aconn' = aconn /\ Flush(abuf)
       \/ aconn' = "memory" /\ abuf' = <<>> /\ agone' = agone \cup InBuffer /\ UNCHANGED arows
    /\ FinishPass(aconn')
    /\ UNCHANGED <<achan, atick, asched, adropped, asent, adrops, apage>>

(* The process dies and comes back: memory is lost, committed rows stay. *)
ARestart ==
    /\ achan' = <<>> /\ abuf' = <<>> /\ apc' = "loop" /\ apass' = NoPass /\ adefer' = <<>>
    /\ aconn' = "db" /\ asched' = "sleep" /\ adropped' = 0 /\ adrops' = {}
    /\ agone' = agone \cup adrops \cup InChannel \cup InBuffer
    /\ UNCHANGED <<arows, ameta, atick, asent, apage>>

----------------------------------------------------------------------------
(* mgmt/audit.rs, the browse tab: PageSize + 1 rows before the cursor, by  *)
(* timestamp and id, newest first; the cursor of the next page is the      *)
(* timestamp of the last row shown.                                        *)
Newer(x, y) == x.ts > y.ts \/ (x.ts = y.ts /\ x.n > y.n)
QueryBrowse(before, limit) ==
    LET m == {e \in arows : e.ts < before}
    IN {e \in m : Cardinality({x \in m : Newer(x, e)}) < limit}
PageRows(before) ==
    LET q == QueryBrowse(before, PageSize + 1)
    IN {e \in q : Cardinality({x \in q : Newer(x, e)}) < PageSize}
HasMore(before) == Cardinality(QueryBrowse(before, PageSize + 1)) > PageSize
NextBefore(before) == Min({e.ts : e \in PageRows(before)})
OpenBrowse ==
    /\ ~apage.open /\ arows # {}
    /\ apage' = [NoPage EXCEPT !.open = TRUE, !.start = arows]
    /\ UNCHANGED <<achan, abuf, arows, apc, apass, ameta, adefer, aconn, atick, asched, adropped, asent, adrops, agone>>
BrowsePage ==
    LET b == apage.before IN
    /\ apage.open /\ ~apage.done
    /\ apage' = [apage EXCEPT !.seen = @ \cup PageRows(b), !.done = ~HasMore(b),
                              !.before = IF HasMore(b) THEN NextBefore(b) ELSE @]
    /\ UNCHANGED <<achan, abuf, arows, apc, apass, ameta, adefer, aconn, atick, asched, adropped, asent, adrops, agone>>
CloseBrowse ==
    /\ apage.done /\ apage' = NoPage
    /\ UNCHANGED <<achan, abuf, arows, apc, apass, ameta, adefer, aconn, atick, asched, adropped, asent, adrops, agone>>

AWriter == Receive \/ FlushWindow \/ DeleteExpiredChunk \/ Absorb \/ AbsorbEnds \/ DeleteEnds \/ StashDuringVacuum \/ VacuumEnds
ASenders == (\E ts \in 0 .. MaxTick : TrySend(ts)) \/ Retention0300 \/ SendSetMeta
AReader == OpenBrowse \/ BrowsePage \/ CloseBrowse
ANext == AWriter \/ ASenders \/ ARestart \/ AReader
AFair == WF_avars(AWriter)
ASpec == AInit /\ [][ANext]_avars /\ AFair

----------------------------------------------------------------------------
(* No entry is lost without a trace or written twice: it is in the         *)
(* channel, in the buffer or in the table, or it expired, failed with its  *)
(* transaction, died with the process, or is counted by the drop counters, *)
(* through batches, retention passes and VACUUMs in any order.             *)
AuditAccounted ==
    LET places == <<InChannel, InBuffer, Stored, agone, adrops>>
    IN /\ UNION {places[i] : i \in 1 .. 5} = 1 .. asent
       /\ \A i, j \in 1 .. 5 : i # j => places[i] \cap places[j] = {}
       /\ \A i, j \in Inserts : achan[i].e.n = achan[j].e.n => i = j
       /\ \A i, j \in DOMAIN abuf : abuf[i].n = abuf[j].n => i = j
       /\ \A e, f \in arows : e.n = f.n => e = f
       /\ adropped = Cardinality(adrops)

(* Paging shows every row that was there when it began and still is,       *)
(* unless the row shares its timestamp with another one: the cursor is a   *)
(* timestamp, and a page that ends between two equal ones skips the rest.  *)
BrowseComplete ==
    apage.done => \A e \in apage.start \cap arows :
        e \in apage.seen \/ \E x \in (arows \cup apage.start \cup apage.seen) \ {e} : x.ts = e.ts

(* The writer always catches up: no pass and no VACUUM leaves entries in   *)
(* the channel or the buffer for good.                                     *)
AuditDrains == []<>(achan = <<>> /\ abuf = <<>>)
============================================================================
