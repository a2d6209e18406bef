----------------------------- MODULE ListQuery -----------------------------
(***************************************************************************)
(* Structured reads of one collection: the caller's filter                 *)
(* (query/vector_filter.rs), the list and aggregate builders               *)
(* (query/list_builder.rs) and the query templates a stored RPC runs       *)
(* (rpc/query_template.rs, rpc/params.rs).                                 *)
(*                                                                         *)
(* A template is validated once, with one dummy value per parameter, and   *)
(* called many times with values of the caller; a list joins the caller's  *)
(* filter, the owner scope and the select policy in one WHERE.             *)
(***************************************************************************)
EXTENDS RowPolicy, FiniteSetsExt

CONSTANTS Schema,             \* column names to SQL types; "VECTOR" for a vector
          FtsIndexes,         \* names of the full-text indexes, each over column s
          Rows,               \* the stored rows: functions from columns to values
          OwnScope,           \* owner_field is "o" and read_scope is "own"
          MaxPerPage,         \* MAX_PER_PAGE (500)
          Callers,            \* Service, Anon and users, by their id
          Policies,           \* the select policies a request may set: [using, check]
          Templates,          \* the templates an RPC may be created with
          ParamSpecs,         \* parameter names to [ty, required, default]
          Arguments,          \* names to JSON values, as calls pass them
          ListRequests,       \* bodies of a list
          AggRequests         \* bodies of an aggregate

ASSUME SchemaAssumption == IsSchema(Schema)
ASSUME RowsAssumption == \A r \in Rows : IsRow(Schema, r)
ASSUME CallersAssumption == \A u \in Callers : u \in {Anon, Service} \/ u = Text(u.v)
ASSUME PoliciesAssumption ==
    \A p \in Policies : \A clause \in {p.using, p.check} : clause # NoClause => IsFilterAst(clause)

VARIABLES selPolicy,          \* the select policy of the collection, or NoClause
          query,              \* the stored query RPC [tpl, specs], or NoClause
          answer              \* the last answered read, or NoClause

qvars == <<selPolicy, query, answer>>

-----------------------------------------------------------------------------
(* The caller's filter                                                     *)

\* vector_filter's validate_field: a described column that is no vector.
FilterField(f) == f \in DOMAIN Schema /\ Schema[f] # "VECTOR"

\* A reference means nothing in a caller's filter: the operand is an object,
\* which json_to_value binds as NULL.
FilterOperand(o) == IF o.r = "lit" THEN JsonToValue(o.x) ELSE Null

\* resolve_fts: a known index and a text.
ResolveFts(n) ==
    /\ n.index \in FtsIndexes
    /\ n.args[1].r = "lit" /\ n.args[1].x.c = "text"

\* compile_node of vector_filter.rs, for one node.
FilterNode(n) ==
    \/ n.k \in {"and", "or", "not"}
    \/ n.k = "fts" /\ ResolveFts(n)
    \/ /\ n.k = "leaf"
       /\ FilterField(n.f)
       /\ n.op \in ScalarOps \cup ArrayOps \cup NullOps
       /\ n.op \in ScalarOps => Len(n.args) = 1

FilterCompiles(ast) == ~TooDeep(ast) /\ \A n \in Nodes(ast) : FilterNode(n)

\* fts_uses_match: the text 1 stands for a query too short for trigrams.
FtsUsesMatch(n) == n.args[1].x.v # 1

\* compile_fts: MATCH through the index leaves no NULL, while the LIKE it falls
\* back to is Unknown on a NULL column.
FtsSql(n, row) ==
    IF FtsUsesMatch(n) THEN FromBool(row["s"] = n.args[1].x)
    ELSE SqlLike(row["s"], n.args[1].x)

\* What SQLite makes of a compiled filter for a row.
FilterSql(ast, row) ==
    LET bound(n) == [n EXCEPT !.args = [i \in DOMAIN n.args |-> Lit(FilterOperand(n.args[i]))]]
        value[d \in 0..MaxFilterDepth] ==
            IF d = MaxFilterDepth THEN [n \in Levels(ast)[d] |-> F]
            ELSE [n \in Levels(ast)[d] |->
                     IF n.k = "fts" THEN FtsSql(n, row)
                     ELSE SqlNode(IF n.k = "leaf" THEN bound(n) ELSE n, row, Ctx(Anon, NoData),
                                  {value[d + 1][k] : k \in Kids(n)})]
    IN value[0][ast]

-----------------------------------------------------------------------------
(* The list and aggregate builders                                         *)

FieldExists(f) == f \in DOMAIN Schema \/ f \in SystemFields
Sortable(f) == FieldExists(f) /\ ~IsVector(Schema, f)
PageRange(req) == req.perPage \in 1..MaxPerPage /\ req.page >= 1

\* build_structured_list_sql accepts the request.
BuildStructuredListSql(req) ==
    /\ \A f \in req.select : FieldExists(f)
    /\ req.filter # NoClause => FilterCompiles(req.filter)
    /\ Sortable(req.sort)
    /\ PageRange(req)

\* The projection: vectors are left out, "id" stands for an empty choice.
Projection(req) ==
    LET wanted == IF req.select = {} THEN DOMAIN Schema ELSE req.select
        shown == {f \in wanted : ~IsVector(Schema, f)}
    IN IF shown = {} THEN {"id"} ELSE shown

MetricOps == {"count", "sum", "avg", "min", "max"}

\* The name of an output column: its alias, or op and field.
OutputName(m) == IF m.alias # "" THEN [alias |-> m.alias] ELSE [op |-> m.op, field |-> m.field]

\* build_aggregate_sql accepts the request: metrics over sortable fields (count
\* may have none), distinct output names, and an order by one of them.
BuildAggregateSql(req) ==
    LET groups == {[alias |-> f] : f \in req.group}
        names == {OutputName(req.metrics[i]) : i \in DOMAIN req.metrics} IN
    /\ req.metrics # <<>>
    /\ \A f \in req.group : Sortable(f)
    /\ \A i \in DOMAIN req.metrics :
          /\ req.metrics[i].op \in MetricOps
          /\ \/ Sortable(req.metrics[i].field)
             \/ req.metrics[i].op = "count" /\ req.metrics[i].field = ""
    /\ Cardinality(groups \cup names) = Cardinality(req.group) + Len(req.metrics)
    /\ req.sort # "" => [alias |-> req.sort] \in groups \cup names
    /\ req.filter # NoClause => FilterCompiles(req.filter)
    /\ PageRange(req)

\* The owner pair of authorize_read: a user on an owner-scoped collection.
OwnerClause(caller, row) == OwnScope /\ caller \notin {Service, Anon} => row["o"] = caller

FaultWhereClause(filter, caller, pol, row) ==
    /\ filter # NoClause => FilterSql(filter, row) = T
    /\ filter = NoClause => OwnerClause(caller, row) /\ SelectAdmits(Schema, pol, caller, row)

\* build_where_clause: the caller's filter AND the owner scope AND the policy.
WhereClause(filter, caller, pol, row) ==
    /\ filter # NoClause => FilterSql(filter, row) = T
    /\ OwnerClause(caller, row)
    /\ SelectAdmits(Schema, pol, caller, row)

\* LIMIT and OFFSET: a page of the matching rows, in an order ties leave open.
Page(matching, req, page) ==
    LET skipped == (req.page - 1) * req.perPage
        left == IF Cardinality(matching) > skipped THEN Cardinality(matching) - skipped ELSE 0
    IN /\ page \subseteq matching
       /\ Cardinality(page) = IF left < req.perPage THEN left ELSE req.perPage

-----------------------------------------------------------------------------
(* Query templates                                                         *)

NoDefault == [c |-> "no default", v |-> 0]
Failed == [k |-> "failed"]

\* The operands of a node.  A template may also have a parameter for a node.
Operands(n) == IF n.k \in {"leaf", "fts"} THEN {n.args[i] : i \in DOMAIN n.args} ELSE {}

\* What a stored template's JSON may hold.
IsTemplate(ast) ==
    \A n \in Nodes(ast) :
        /\ n.k \in {"and", "or", "not", "authenticated", "fts", "leaf", "param"}
        /\ n.k = "leaf" => IsList(n.args)
        /\ n.k = "fts" => DOMAIN n.args = {1}
        /\ \A o \in Operands(n) : o.r = "param" \/ IsOperand(o)

ASSUME TemplatesAssumption == \A tpl \in Templates : IsTemplate(tpl.filter)
ASSUME ParamSpecsAssumption ==
    \A specs \in ParamSpecs : \A p \in DOMAIN specs :
        /\ specs[p].ty \in {"num", "text", "bool"}
        /\ specs[p].default = NoDefault \/ IsJson(specs[p].default)
ASSUME ArgumentsAssumption == \A args \in Arguments : \A p \in DOMAIN args : IsJson(args[p])

\* referenced_params: the names a template mentions.
References(ast) ==
    UNION {IF n.k = "param" THEN {n.name} ELSE {o.name : o \in {x \in Operands(n) : x.r = "param"}} : n \in Nodes(ast)}

\* check_auth_keys: the only $auth key is "id".
CheckAuthKeys(ast) == \A n \in Nodes(ast) : \A o \in Operands(n) : o.r = "auth" => o.key = "id"

\* A parameter becomes its argument (NULL when it has none), $auth the caller.
SubstituteOperand(o, args, auth) ==
    IF o.r = "param" THEN Lit(IF o.name \in DOMAIN args THEN args[o.name] ELSE Null)
    ELSE IF o.r = "auth" THEN Lit(auth) ELSE o

\* substitute of one node, with what became of the nodes below it.
SubstituteNode(n, args, auth, became) ==
    IF n.k = "leaf" THEN Leaf(n.f, n.op, [i \in DOMAIN n.args |-> SubstituteOperand(n.args[i], args, auth)])
    ELSE IF n.k = "fts" THEN Fts(n.index, SubstituteOperand(n.args[1], args, auth))
    ELSE IF n.k \in {"and", "or", "not"} THEN [k |-> n.k, kids |-> [i \in DOMAIN n.kids |-> became[n.kids[i]]]]
    ELSE n

\* substitute and the parse that follows: a scalar where a node belongs makes no
\* filter, and neither does an $auth key other than "id".  What lies below the
\* last depth stays as it is; no compiler looks at it.
Substitute(ast, args, auth) ==
    LET became[d \in 0..MaxFilterDepth] ==
            IF d = MaxFilterDepth THEN [n \in Levels(ast)[d] |-> n]
            ELSE [n \in Levels(ast)[d] |-> SubstituteNode(n, args, auth, became[d + 1])]
    IN IF CheckAuthKeys(ast) /\ \A n \in Nodes(ast) : n.k # "param" THEN became[0][ast] ELSE Failed

\* coerce: NULL fits every type, anything else its own.
Coerces(ty, x) == x.c \in {"null", ty}

FaultResolveArgs(specs, args) ==
    /\ DOMAIN args \subseteq DOMAIN specs
    /\ \A p \in DOMAIN specs : p \in DOMAIN args \/ ~specs[p].required

\* resolve_args: declared names, scalars of the declared types, and every
\* required one.  (An array coerces to no type.)
ResolveArgs(specs, args) ==
    /\ DOMAIN args \subseteq DOMAIN specs
    /\ \A p \in DOMAIN specs :
          IF p \in DOMAIN args THEN Coerces(specs[p].ty, args[p]) ELSE ~specs[p].required

\* apply_defaults
ApplyDefaults(specs, args) ==
    [p \in DOMAIN args \cup {q \in DOMAIN specs : specs[q].default # NoDefault} |->
        IF p \in DOMAIN args THEN args[p] ELSE specs[p].default]

\* dummy_for: one value of the parameter's type.
DummyFor(specs) == [p \in DOMAIN specs |-> [c |-> specs[p].ty, v |-> 1]]

\* validate_template: parameters declared and used, defaults of their type, and
\* the template compiles and compares like with like once dummies stand for the
\* parameters and the caller.
ValidateTemplate(tpl, specs) ==
    LET filter == Substitute(tpl.filter, DummyFor(specs), ProbeUser)
        req == [filter |-> filter, select |-> tpl.select, sort |-> tpl.sort, page |-> 1, perPage |-> 1]
    IN /\ References(tpl.filter) = DOMAIN specs
       /\ \A p \in DOMAIN specs : specs[p].default # NoDefault => Coerces(specs[p].ty, specs[p].default)
       /\ CheckAuthKeys(tpl.filter)
       /\ filter # Failed
       /\ BuildStructuredListSql(req)
       /\ CheckOperandClasses(Schema, filter, TRUE)

-----------------------------------------------------------------------------
(* The operations                                                          *)

QInit == selPolicy = NoClause /\ query = NoClause /\ answer = NoClause

Answer(caller, rows) == answer' = [caller |-> caller, pol |-> selPolicy, rows |-> rows]

\* put_policies / set_policy for select.
SetSelectPolicy(p) ==
    /\ ValidatePolicy(Schema, "select", p)
    /\ selPolicy' = p
    /\ UNCHANGED <<query, answer>>

\* delete_policy / clear_policy.
ClearSelectPolicy ==
    /\ selPolicy # NoClause
    /\ selPolicy' = NoClause
    /\ UNCHANGED <<query, answer>>

\* Creation of an RPC of mode "query".
CreateQueryRpc(tpl, specs) ==
    /\ ValidateTemplate(tpl, specs)
    /\ query' = [tpl |-> tpl, specs |-> specs]
    /\ UNCHANGED <<selPolicy, answer>>

\* delete of an RPC (registry.rs delete_rpc).
DeleteQueryRpc ==
    /\ query # NoClause
    /\ query' = NoClause
    /\ UNCHANGED <<selPolicy, answer>>

\* POST /list and list_records.
ListRecords(caller, req) ==
    /\ BuildStructuredListSql(req)
    /\ \E page \in UNION {kSubset(k, Rows) : k \in 0..req.perPage} :
          /\ Page({r \in Rows : WhereClause(req.filter, caller, selPolicy, r)}, req, page)
          /\ Answer(caller, page)
    /\ UNCHANGED <<selPolicy, query>>

\* POST /aggregate and aggregate_records: every matching row enters its group.
AggregateRecords(caller, req) ==
    /\ BuildAggregateSql(req)
    /\ Answer(caller, {r \in Rows : WhereClause(req.filter, caller, selPolicy, r)})
    /\ UNCHANGED <<selPolicy, query>>

\* A call of the stored query: the substituted template runs as a list.
CallQuery(caller, args) ==
    /\ query # NoClause
    /\ ResolveArgs(query.specs, args)
    /\ LET filter == Substitute(query.tpl.filter, ApplyDefaults(query.specs, args),
                                IF caller = Service THEN Null ELSE caller)
       IN /\ filter # Failed /\ FilterCompiles(filter)
          /\ Answer(caller, {r \in Rows : WhereClause(filter, caller, selPolicy, r)})
    /\ UNCHANGED <<selPolicy, query>>

QNext ==
    \/ \E p \in Policies : SetSelectPolicy(p)
    \/ ClearSelectPolicy
    \/ \E tpl \in Templates, specs \in ParamSpecs : CreateQueryRpc(tpl, specs)
    \/ DeleteQueryRpc
    \/ \E caller \in Callers, req \in ListRequests : ListRecords(caller, req)
    \/ \E caller \in Callers, req \in AggRequests : AggregateRecords(caller, req)
    \/ \E caller \in Callers, args \in Arguments : CallQuery(caller, args)

QSpec == QInit /\ [][QNext]_qvars

-----------------------------------------------------------------------------
(* Correctness                                                             *)

\* A clause that passed validate_policy means the same to eval_policy, which
\* admits events and written rows, and to the WHERE that SQLite runs, for every
\* row and caller, NULLs, negations and empty lists included.  The one family
\* left out is LIKE on a number column: class checks accept it, like_match knows
\* only texts, SQLite compares renderings (see the README).
PolicyAgreement ==
    selPolicy # NoClause =>
        \A row \in Rows, caller \in Callers \ {Service} :
            /\ NumberLike(Schema, selPolicy.using) \/ Agree(selPolicy.using, Ctx(caller, NoData), row)
            /\ \/ selPolicy.check = NoClause
               \/ NumberLike(Schema, selPolicy.check)
               \/ Agree(selPolicy.check, Ctx(caller, row), row)

\* What a list, an aggregate or a stored query hands a caller, under any filter
\* of the caller's, is inside the caller's own rows and inside what eval_policy
\* admits for the select policy that held at the read (LIKE on a number column
\* aside).
ReadsGated ==
    answer # NoClause /\ answer.caller # Service =>
        \A r \in answer.rows :
            /\ OwnerClause(answer.caller, r)
            /\ answer.pol # NoClause =>
                  NumberLike(Schema, answer.pol.using) \/ EvalPolicy(answer.pol.using, r, Ctx(answer.caller, NoData))

Filled(args, caller) == Substitute(query.tpl.filter, ApplyDefaults(query.specs, args), caller)

Runs(filter) ==
    /\ BuildStructuredListSql([filter |-> filter, select |-> query.tpl.select, sort |-> query.tpl.sort, page |-> 1, perPage |-> 1])
    /\ CheckOperandClasses(Schema, filter, TRUE)

NullSearch(filter) == \E n \in Nodes(filter) : n.k = "fts" /\ n.args[1].x = Null

\* One dummy per parameter vouches for every call: a template that passed
\* validate_template, filled with any arguments resolve_args accepts and any
\* caller, holds no parameter and no $auth any more, compiles, and compares no
\* text with a number.  A search for NULL is the exception: it fails to build,
\* though the template is as it was saved (see the README).
TemplateSound ==
    query # NoClause =>
        \A args \in Arguments, caller \in Callers \ {Service} :
            ResolveArgs(query.specs, args) =>
                LET filter == Filled(args, caller) IN
                /\ filter # Failed
                /\ \A n \in Nodes(filter) : \A o \in Operands(n) : o.r \notin {"param", "auth"}
                /\ NullSearch(filter) \/ Runs(filter)
=============================================================================
