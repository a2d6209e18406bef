------------------------- MODULE CollectionIndexes -------------------------
(***************************************************************************)
(* What hangs on the tables of a tenant database: secondary indexes and    *)
(* their descriptions, full-text indexes (a virtual table, three triggers  *)
(* and a registry entry), vector columns and their registry, and foreign   *)
(* keys between collections.  Each operation checks with readers and then  *)
(* writes with one or more calls of the writer; others run in between.     *)
(***************************************************************************)
EXTENDS Naturals, FiniteSets

CONSTANTS
    Colls,      \* collections
    Fields,     \* their user columns
    FtsNames,   \* names of full-text indexes
    RowIds,     \* rows of a table
    Threshold,  \* rows from which create_index wants force
    ITasks,     \* operations in flight
    MaxDdl      \* bound: operations in one behaviour

ASSUME IndexAssumption ==
    Threshold \in Nat /\ MaxDdl \in Nat /\ Colls \cap {"none", "text", "vec"} = {}

VARIABLES
    tbl,        \* the tables
    sidx,       \* secondary indexes; the name is derived from table and columns
    heads,      \* fts5 tables with their triggers, and the rows they hold
    imeta,      \* _system_collection_meta: what is registered per collection
    itask,      \* operations between two of their steps
    ddls,       \* operations begun
    crossed     \* history: columns and index descriptions of overlapping operations

ivars == <<tbl, sidx, heads, imeta, itask, ddls, crossed>>

\* A column is absent, TEXT, a vector, or a foreign key to a collection.
Kinds == {"none", "text", "vec"} \cup Colls
NoTable == [live |-> FALSE, col |-> [f \in Fields |-> "none"], rows |-> {}]
NoHead == [on |-> FALSE, fields |-> {}, docs |-> {}]
NoRegistry == [fts |-> {}, vec |-> {}, idesc |-> {}, fdesc |-> {}]
IndexNames == Colls \X ((SUBSET Fields) \ {{}})
IIdle == [pc |-> "idle"]

IInit ==
    /\ tbl = [c \in Colls |-> [NoTable EXCEPT !.live = TRUE, !.col = [f \in Fields |-> "text"]]]
    /\ sidx = {} /\ heads = [x \in Colls \X FtsNames |-> NoHead]
    /\ imeta = [c \in Colls |-> NoRegistry] /\ itask = [t \in ITasks |-> IIdle]
    /\ ddls = 0 /\ crossed = [cols |-> {}, ixs |-> {}]

Cols(c) == {f \in Fields : tbl[c].col[f] # "none"}
IGoto(t, r) == itask' = [itask EXCEPT ![t] = r]
IReturn(t) == IGoto(t, IIdle)
IAt(t, pc) == itask[t].pc = pc
Begin(t, r) == IAt(t, "idle") /\ ddls < MaxDdl /\ ddls' = ddls + 1 /\ IGoto(t, r)
OnlyReads == UNCHANGED <<tbl, sidx, heads, imeta, crossed>>
(* The statement failed, or the client hung up between two awaits.         *)
Abandon(t) == ~IAt(t, "idle") /\ IReturn(t) /\ OnlyReads /\ UNCHANGED ddls

----------------------------------------------------------------------------
(* Secondary indexes: create_index_with_threshold_and_desc.  CREATE INDEX  *)
(* decides again whether table and columns exist and the name is free.     *)
CreateIndexCheck(t, c, fs, force, desc) ==
    /\ fs # {} /\ tbl[c].live /\ fs \subseteq Cols(c)
    /\ Cardinality(tbl[c].rows) > Threshold => force
    /\ Begin(t, [pc |-> "index", c |-> c, ix |-> <<c, fs>>, desc |-> desc]) /\ OnlyReads
CreateIndexBuild(t) ==
    LET c == itask[t].c  ix == itask[t].ix IN
    /\ IAt(t, "index") /\ tbl[c].live /\ ix[2] \subseteq Cols(c) /\ ix \notin sidx
    /\ sidx' = sidx \cup {ix}
    /\ IGoto(t, IF itask[t].desc THEN [pc |-> "idesc", c |-> c, ix |-> ix] ELSE IIdle)
    /\ UNCHANGED <<tbl, heads, imeta, ddls, crossed>>
(* The tool, the REST route and the console; the latter two describe       *)
(* nothing.                                                                *)
McpCreateIndex(t, c, fs, force, desc) == CreateIndexCheck(t, c, fs, force, desc)
CreateIndexHandler(t, c, fs, force) == CreateIndexCheck(t, c, fs, force, FALSE)
CreateIndexAdmin(t, c, fs, force) == CreateIndexCheck(t, c, fs, force, FALSE)

(* drop_index looks the name up in the whole database; the description it  *)
(* clears is one of the collection it was called for.                      *)
DropIndexCheck(t, c, ix) ==
    ix \in sidx /\ Begin(t, [pc |-> "unindex", c |-> c, ix |-> ix]) /\ OnlyReads
DropIndexWrite(t) ==
    LET c == itask[t].c  ix == itask[t].ix IN
    /\ IAt(t, "unindex") /\ ix \in sidx /\ sidx' = sidx \ {ix}
    /\ imeta' = [imeta EXCEPT ![c].idesc = @ \ {ix}]
    /\ crossed' = IF c = ix[1] THEN crossed ELSE [crossed EXCEPT !.ixs = @ \cup {ix}]
    /\ IReturn(t) /\ UNCHANGED <<tbl, heads, ddls>>
\* drop_index_blast_radius: whether the name exists, and nothing more.
DropIndexBlastRadius(ix) == ix \in sidx
McpDropIndex(t, c, ix, dry) ==
    IF dry THEN DropIndexBlastRadius(ix) /\ UNCHANGED ivars ELSE DropIndexCheck(t, c, ix)
DropIndexHandler(t, c, ix, dry) ==
    IF dry THEN DropIndexBlastRadius(ix) /\ UNCHANGED ivars ELSE DropIndexCheck(t, c, ix)
DropIndexAdmin(t, c, ix) == DropIndexCheck(t, c, ix)

----------------------------------------------------------------------------
(* Descriptions.  The tool checks in the writer closure that writes; route *)
(* and console check with a reader first.                                  *)
WriteIndexDescription(c, ix) == imeta' = [imeta EXCEPT ![c].idesc = @ \cup {ix}]
WriteFieldDescription(c, f) == imeta' = [imeta EXCEPT ![c].fdesc = @ \cup {f}]
SetIndexDescription(t, c, ix) ==
    /\ IAt(t, "idle") /\ tbl[c].live /\ ix \in sidx /\ ix[1] = c
    /\ WriteIndexDescription(c, ix) /\ UNCHANGED <<tbl, sidx, heads, itask, ddls, crossed>>
SetFieldDescription(t, c, f) ==
    /\ IAt(t, "idle") /\ tbl[c].live /\ f \in Cols(c)
    /\ WriteFieldDescription(c, f) /\ UNCHANGED <<tbl, sidx, heads, itask, ddls, crossed>>
McpSetDescription(t, c, ix, f) == SetIndexDescription(t, c, ix) \/ SetFieldDescription(t, c, f)
PutIndexDescription(t, c, ix) ==
    /\ ix \in sidx /\ ix[1] = c
    /\ Begin(t, [pc |-> "idesc", c |-> c, ix |-> ix]) /\ OnlyReads
AdminUpdateIndexDescription(t, c, ix) == PutIndexDescription(t, c, ix)
PutFieldDescription(t, c, f) ==
    /\ tbl[c].live /\ f \in Cols(c)
    /\ Begin(t, [pc |-> "fdesc", c |-> c, f |-> f]) /\ OnlyReads
AdminUpdateFieldDescription(t, c, f) == PutFieldDescription(t, c, f)
DescribeIndex(t) ==
    LET ix == itask[t].ix IN
    /\ IAt(t, "idesc") /\ WriteIndexDescription(itask[t].c, ix) /\ IReturn(t)
    /\ crossed' = IF ix \in sidx THEN crossed ELSE [crossed EXCEPT !.ixs = @ \cup {ix}]
    /\ UNCHANGED <<tbl, sidx, heads, ddls>>
DescribeField(t) ==
    /\ IAt(t, "fdesc") /\ WriteFieldDescription(itask[t].c, itask[t].f) /\ IReturn(t)
    /\ UNCHANGED <<tbl, sidx, heads, ddls, crossed>>

----------------------------------------------------------------------------
(* Full-text indexes.  The table, its triggers, the backfill and the       *)
(* registry entry are one transaction; the backfill reads every column, so *)
(* it fails when one has gone.                                             *)
Registered(c) == {e.name : e \in imeta[c].fts}
CreateFtsCheck(t, c, n, fs) ==
    /\ tbl[c].live /\ n \notin Registered(c) /\ fs # {}
    /\ \A f \in fs : tbl[c].col[f] = "text"
    /\ Begin(t, [pc |-> "fts", c |-> c, n |-> n, fs |-> fs]) /\ OnlyReads
CreateFtsTx(t) ==
    LET c == itask[t].c  n == itask[t].n  fs == itask[t].fs IN
    /\ IAt(t, "fts") /\ tbl[c].live /\ ~heads[<<c, n>>].on /\ fs \subseteq Cols(c)
    /\ heads' = [heads EXCEPT ![<<c, n>>] = [on |-> TRUE, fields |-> fs, docs |-> tbl[c].rows]]
    /\ imeta' = [imeta EXCEPT ![c].fts = @ \cup {[name |-> n, fields |-> fs]}]
    /\ IReturn(t) /\ UNCHANGED <<tbl, sidx, ddls, crossed>>
DropFtsCheck(t, c, n) ==
    n \in Registered(c) /\ Begin(t, [pc |-> "unfts", c |-> c, n |-> n]) /\ OnlyReads
DropFtsTx(t) ==
    LET c == itask[t].c  n == itask[t].n IN
    /\ IAt(t, "unfts") /\ heads' = [heads EXCEPT ![<<c, n>>] = NoHead]
    /\ imeta' = [imeta EXCEPT ![c].fts = {e \in @ : e.name # n}]
    /\ IReturn(t) /\ UNCHANGED <<tbl, sidx, ddls, crossed>>
McpCreateFtsIndex(t, c, n, fs) == CreateFtsCheck(t, c, n, fs)
McpDropFtsIndex(t, c, n) == DropFtsCheck(t, c, n)
\* list_fts_indexes reads the registry, not the database.
McpListFtsIndexes(c) == IF tbl[c].live THEN imeta[c].fts ELSE {}

\* external: a write of a row fires the triggers in its transaction.
SetRows(c, rows) ==
    /\ tbl[c].live /\ tbl' = [tbl EXCEPT ![c].rows = rows]
    /\ heads' = [x \in DOMAIN heads |-> IF x[1] = c /\ heads[x].on THEN [heads[x] EXCEPT !.docs = rows]
                                        ELSE heads[x]]
    /\ UNCHANGED <<sidx, imeta, itask, ddls, crossed>>
InsertRow(c) == \E i \in RowIds \ tbl[c].rows : SetRows(c, tbl[c].rows \cup {i})
DeleteRow(c) == \E i \in tbl[c].rows : SetRows(c, tbl[c].rows \ {i})

----------------------------------------------------------------------------
(* Columns and tables.  add_field: ALTER TABLE, the vector registry, the   *)
(* description, each a writer call of its own.                             *)
AddFieldCheck(t, c, f, k, desc) ==
    /\ k \in Colls => tbl[k].live
    /\ Begin(t, [pc |-> "add", c |-> c, f |-> f, kind |-> k, desc |-> desc]) /\ OnlyReads
\* A foreign key to a collection that is gone, or about to go.
Crossing(k) == k \in Colls /\ (~tbl[k].live \/ \E u \in ITasks : IAt(u, "drop") /\ itask[u].c = k)
AddFieldThen(t) == IF itask[t].desc THEN [pc |-> "fdesc", c |-> itask[t].c, f |-> itask[t].f] ELSE IIdle
AddFieldAlter(t) ==
    LET c == itask[t].c  f == itask[t].f  k == itask[t].kind
        overlaps == \/ Crossing(k)
                    \/ \E u \in ITasks : IAt(u, "unvec") /\ itask[u].c = c /\ itask[u].f = f
    IN
    /\ IAt(t, "add") /\ tbl[c].live /\ f \notin Cols(c)
    /\ tbl' = [tbl EXCEPT ![c].col[f] = k]
    /\ crossed' = IF overlaps THEN [crossed EXCEPT !.cols = @ \cup {<<c, f>>}] ELSE crossed
    /\ IGoto(t, IF k = "vec" THEN [pc |-> "vec", c |-> c, f |-> f, desc |-> itask[t].desc] ELSE AddFieldThen(t))
    /\ UNCHANGED <<sidx, heads, imeta, ddls>>
AddFieldVector(t) ==
    LET c == itask[t].c  f == itask[t].f IN
    /\ IAt(t, "vec") /\ imeta' = [imeta EXCEPT ![c].vec = @ \cup {f}]
    /\ crossed' = IF tbl[c].col[f] = "vec" THEN crossed ELSE [crossed EXCEPT !.cols = @ \cup {<<c, f>>}]
    /\ IGoto(t, AddFieldThen(t)) /\ UNCHANGED <<tbl, sidx, heads, ddls>>

(* drop_field.  ALTER TABLE refuses a column that an index or a trigger    *)
(* uses (external); the registry follows in a second call.                 *)
DropFieldCheck(t, c, f) ==
    /\ tbl[c].live /\ f \in Cols(c) /\ ~\E e \in imeta[c].fts : f \in e.fields
    /\ Begin(t, [pc |-> "dropcol", c |-> c, f |-> f]) /\ OnlyReads
UsedBySchema(c, f) ==
    \/ \E ix \in sidx : ix[1] = c /\ f \in ix[2]
    \/ \E n \in FtsNames : heads[<<c, n>>].on /\ f \in heads[<<c, n>>].fields
DropFieldAlter(t) ==
    LET c == itask[t].c  f == itask[t].f IN
    /\ IAt(t, "dropcol") /\ tbl[c].live /\ f \in Cols(c) /\ ~UsedBySchema(c, f)
    /\ tbl' = [tbl EXCEPT ![c].col[f] = "none"]
    /\ crossed' = [crossed EXCEPT !.cols = @ \ {<<c, f>>}]
    /\ IGoto(t, [pc |-> "unvec", c |-> c, f |-> f]) /\ UNCHANGED <<sidx, heads, imeta, ddls>>
DropFieldVector(t) ==
    LET c == itask[t].c  f == itask[t].f IN
    /\ IAt(t, "unvec") /\ imeta' = [imeta EXCEPT ![c].vec = @ \ {f}]
    /\ IReturn(t) /\ UNCHANGED <<tbl, sidx, heads, ddls, crossed>>
(* A call that ends between the two leaves the entry behind. *)
DropFieldEnds(t) ==
    /\ IAt(t, "unvec") /\ IReturn(t) /\ crossed' = [crossed EXCEPT !.cols = @ \cup {<<itask[t].c, itask[t].f>>}]
    /\ UNCHANGED <<tbl, sidx, heads, imeta, ddls>>

(* find_fk_referrers, and the preview's own copy of it. *)
FindFkReferrers(c) == {x \in (Colls \ {c}) \X Fields : tbl[x[1]].live /\ tbl[x[1]].col[x[2]] = c}
DropCollectionBlastRadius(c) ==
    [rows |-> tbl[c].rows, indexes |-> {ix \in sidx : ix[1] = c},
     reverse |-> {x \in (Colls \ {c}) \X Fields : tbl[x[1]].col[x[2]] = c}]
FaultDropCollectionCheck(t, c) ==
    /\ tbl[c].live
    /\ Begin(t, [pc |-> "drop", c |-> c]) /\ OnlyReads
DropCollectionCheck(t, c) ==
    /\ tbl[c].live /\ FindFkReferrers(c) = {}
    /\ Begin(t, [pc |-> "drop", c |-> c]) /\ OnlyReads
McpDropCollection(t, c, dry) ==
    IF dry THEN tbl[c].live /\ UNCHANGED ivars ELSE DropCollectionCheck(t, c)
(* One transaction: the table with its indexes and triggers, the full-text *)
(* tables by their prefix, the meta row.                                   *)
Forget(c) == [cols |-> {x \in crossed.cols : x[1] # c}, ixs |-> {x \in crossed.ixs : x[1] # c}]
FaultDropCollectionTx(t) ==
    LET c == itask[t].c IN
    /\ IAt(t, "drop") /\ tbl[c].live
    /\ tbl' = [tbl EXCEPT ![c] = NoTable] /\ sidx' = {ix \in sidx : ix[1] # c}
    /\ imeta' = [imeta EXCEPT ![c] = NoRegistry]
    /\ crossed' = Forget(c) /\ IReturn(t) /\ UNCHANGED <<ddls, heads>>
DropCollectionTx(t) ==
    LET c == itask[t].c IN
    /\ IAt(t, "drop") /\ tbl[c].live
    /\ tbl' = [tbl EXCEPT ![c] = NoTable] /\ sidx' = {ix \in sidx : ix[1] # c}
    /\ heads' = [x \in DOMAIN heads |-> IF x[1] = c THEN NoHead ELSE heads[x]]
    /\ imeta' = [imeta EXCEPT ![c] = NoRegistry]
    /\ crossed' = Forget(c) /\ IReturn(t) /\ UNCHANGED ddls
(* create_collection_with_desc checks the targets of its foreign keys with *)
(* a reader; table and registries are one transaction.  A meta row that an *)
(* overtaken write left keeps what the new fields do not replace.          *)
CreateCollectionCheck(t, c, col) ==
    /\ \A f \in Fields : col[f] \in Colls \ {c} => tbl[col[f]].live
    /\ Begin(t, [pc |-> "create", c |-> c, col |-> col]) /\ OnlyReads
CreateCollectionTx(t) ==
    LET c == itask[t].c  col == itask[t].col  vec == {f \in Fields : col[f] = "vec"} IN
    /\ IAt(t, "create") /\ ~tbl[c].live
    /\ tbl' = [tbl EXCEPT ![c] = [live |-> TRUE, rows |-> {}, col |-> col]]
    /\ imeta' = IF vec = {} THEN imeta ELSE [imeta EXCEPT ![c].vec = vec]
    /\ crossed' = [crossed EXCEPT !.cols = @ \cup {<<c, f>> : f \in {g \in Fields : col[g] # c /\ Crossing(col[g])}}]
    /\ IReturn(t) /\ UNCHANGED <<sidx, heads, ddls>>

----------------------------------------------------------------------------
IndexOp(t) ==
    \/ \E c \in Colls, fs \in SUBSET Fields, b \in BOOLEAN :
          \/ McpCreateIndex(t, c, fs, b, TRUE) \/ CreateIndexHandler(t, c, fs, b) \/ CreateIndexAdmin(t, c, fs, b)
    \/ CreateIndexBuild(t)
    \/ \E c \in Colls, ix \in sidx :
          \/ DropIndexAdmin(t, c, ix) \/ \E dry \in BOOLEAN : McpDropIndex(t, c, ix, dry) \/ DropIndexHandler(t, c, ix, dry)
          \/ PutIndexDescription(t, c, ix) \/ AdminUpdateIndexDescription(t, c, ix)
          \/ \E f \in Fields : McpSetDescription(t, c, ix, f)
    \/ DropIndexWrite(t) \/ DescribeIndex(t) \/ DescribeField(t)
FtsOp(t) ==
    \/ \E c \in Colls, n \in FtsNames : McpDropFtsIndex(t, c, n) \/ \E fs \in SUBSET Fields : McpCreateFtsIndex(t, c, n, fs)
    \/ CreateFtsTx(t) \/ DropFtsTx(t)
TableOp(t) ==
    \/ \E c \in Colls, f \in Fields :
          \/ DropFieldCheck(t, c, f) \/ \E k \in Kinds \ {"none"}, b \in BOOLEAN : AddFieldCheck(t, c, f, k, b)
          \/ PutFieldDescription(t, c, f) \/ AdminUpdateFieldDescription(t, c, f)
    \/ AddFieldAlter(t) \/ AddFieldVector(t) \/ DropFieldAlter(t) \/ DropFieldVector(t) \/ DropFieldEnds(t)
    \/ \E c \in Colls : (\E dry \in BOOLEAN : McpDropCollection(t, c, dry)) \/ \E col \in [Fields -> Kinds] : CreateCollectionCheck(t, c, col)
    \/ DropCollectionTx(t) \/ CreateCollectionTx(t)
INext ==
    \/ \E t \in ITasks : IndexOp(t) \/ FtsOp(t) \/ TableOp(t) \/ (~IAt(t, "unvec") /\ Abandon(t))
    \/ \E c \in Colls : InsertRow(c) \/ DeleteRow(c)
ISpec == IInit /\ [][INext]_ivars

----------------------------------------------------------------------------
(* The registries tell the truth, whatever operations overlap: a full-text *)
(* index is registered exactly when its table exists, over columns that    *)
(* exist and with every row of the collection (drop_collection: the        *)
(* divergent state "can never exist"); a registered vector is a vector     *)
(* column, and a described index exists, except those that an overlapping  *)
(* operation or a drop_index under another collection's name left.         *)
RegistryTruth ==
    \A c \in Colls :
        /\ McpListFtsIndexes(c) = imeta[c].fts
        /\ imeta[c].fts = {[name |-> n, fields |-> heads[<<c, n>>].fields] : n \in {m \in FtsNames : heads[<<c, m>>].on}}
        /\ \A n \in FtsNames : heads[<<c, n>>].on => heads[<<c, n>>].docs = tbl[c].rows /\ heads[<<c, n>>].fields \subseteq Cols(c)
        /\ imeta[c].idesc \subseteq sidx \cup crossed.ixs
        /\ \A f \in imeta[c].vec : \/ tbl[c].col[f] = "vec" \/ <<c, f>> \in crossed.cols
                                   \/ \E t \in ITasks : IAt(t, "unvec") /\ itask[t].c = c /\ itask[t].f = f

(* A foreign key never points to a collection that is gone, except where   *)
(* the column was added while the collection was being dropped; and a      *)
(* preview that shows no referrer promises what drop_collection checks.    *)
NoDanglingFk ==
    /\ \A c, d \in Colls, f \in Fields : tbl[c].live /\ tbl[c].col[f] = d => tbl[d].live \/ <<c, f>> \in crossed.cols
    /\ \A c \in Colls : tbl[c].live => (DropCollectionBlastRadius(c).reverse = {} <=> FindFkReferrers(c) = {})
=============================================================================
