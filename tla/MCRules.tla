------------------------------ MODULE MCRules ------------------------------
(***************************************************************************)
(* TLC instance of the access rules: every accepted policy of a small      *)
(* grammar (scene "policy"), every accepted query template (scene          *)
(* "template"), lists under a policy (scene "list"), tables of file        *)
(* policies (scene "files") and caller-written SQL on pooled connections   *)
(* (scene "sql").                                                          *)
(***************************************************************************)
EXTENDS ListQuery, FileRules, SqlRunner

CONSTANT Scenes

VARIABLE scene

mcvars == <<qvars, fvars, sqlvars, scene>>

MCSchema == [n |-> "INTEGER", s |-> "TEXT", o |-> "TEXT", e |-> "VECTOR"]
Me == Text(1)
Other == Text(2)
MCCallers == {Anon, Me, Service}

Row(n, s, o) == [n |-> n, s |-> s, o |-> o, e |-> Null, id |-> Num(1), created_at |-> Text(1), updated_at |-> Text(2)]
MCRows == {Row(n, s, o) : n \in {Null, Num(1), Num(2)}, s \in {Null, Text(1), Text(2)}, o \in {Me}}
          \cup {Row(Num(1), Text(1), Other), Row(Num(2), Null, Null)}

-----------------------------------------------------------------------------
(* The grammar of policies                                                 *)

Auth(key) == [r |-> "auth", key |-> key]
Data(f) == [r |-> "data", f |-> f]
Param(name) == [r |-> "param", name |-> name]
True == [c |-> "bool", v |-> 1]
Array == [c |-> "array", v |-> 0]

Values == {Lit(Null), Lit(Num(1)), Lit(Text(1)), Lit(Text(AnyText)), Lit(True), Lit(Array), Auth("id")}
ScalarLeaves == {Leaf(f, op, <<x>>) : f \in {"n", "s"}, op \in {"eq", "ne", "lt", "gte", "like"}, x \in Values}
ArrayLeaves == {Leaf(f, op, xs) : f \in {"n", "s"}, op \in ArrayOps,
                   xs \in {<<>>} \cup {<<x>> : x \in Values} \cup {<<x, Lit(Null)>> : x \in Values}}
OddLeaves == {Leaf("s", "is_null", <<>>), Leaf("n", "is_not_null", <<>>), Leaf("e", "is_null", <<>>),
              Leaf("x", "eq", <<Lit(Num(1))>>), Leaf("id", "eq", <<Lit(Num(1))>>), Leaf("s", "eq", <<Auth("name")>>),
              Leaf("s", "eq", <<Data("o")>>), Leaf("n", "lt", <<Data("s")>>), Leaf("n", "between", <<Lit(Num(1))>>),
              Authenticated(TRUE), Authenticated(FALSE), Fts("ix", Lit(Text(2)))}
Leaves == ScalarLeaves \cup ArrayLeaves \cup OddLeaves
Kernel == {Leaf("n", "lt", <<Lit(Num(2))>>), Leaf("s", "eq", <<Auth("id")>>), Leaf("s", "nin", <<Lit(Null)>>),
           Leaf("s", "like", <<Lit(Text(AnyText))>>), Authenticated(TRUE), Leaf("s", "is_null", <<>>)}
Nested == {Not(l) : l \in Leaves}
          \cup UNION {{And(<<k, l>>), Or(<<k, l>>), Not(And(<<k, l>>)), Not(Or(<<k, Not(l)>>))} : k \in Kernel, l \in Leaves}
          \cup {And(<<>>), Or(<<>>), Not(Not(Not(Not(Leaf("s", "is_null", <<>>)))))}
Clauses == Leaves \cup Nested
PolicyScene == {[using |-> u, check |-> NoClause] : u \in Clauses} \cup {[using |-> NoClause, check |-> NoClause]}
               \cup {[using |-> Leaf("s", "is_null", <<>>), check |-> k] : k \in Leaves}
ListScene == {[using |-> u, check |-> NoClause] : u \in {Leaf("n", "lt", <<Lit(Num(2))>>), Leaf("s", "eq", <<Auth("id")>>)}}
MCPolicies == PolicyScene \cup ListScene

-----------------------------------------------------------------------------
(* Query templates                                                         *)

ParamLeaves == {Leaf(f, op, <<o>>) : f \in {"n", "s", "e"}, op \in {"eq", "lt", "in"},
                    o \in {Param("p"), Auth("id"), Auth("name"), Lit(Num(1))}}
               \cup {Leaf("n", "in", <<Param("p"), Lit(Null)>>), Fts("ix", Param("p")), Fts("ix", Lit(Text(1))),
                     Fts("iy", Lit(Text(2))), [k |-> "param", name |-> "p"], Authenticated(TRUE)}
TemplateFilters == ParamLeaves \cup {Not(l) : l \in ParamLeaves}
                   \cup {And(<<k, l>>) : k \in {Leaf("s", "eq", <<Param("q")>>), Leaf("s", "eq", <<Auth("id")>>)}, l \in ParamLeaves}
TemplateScene == {[filter |-> f, select |-> sel, sort |-> so] : f \in TemplateFilters, sel \in {{}, {"n"}, {"x"}}, so \in {"created_at", "e"}}
ListTemplate == [filter |-> Or(<<Leaf("n", "eq", <<Param("p")>>), Leaf("o", "eq", <<Auth("id")>>)>>), select |-> {}, sort |-> "n"]
MCTemplates == TemplateScene \cup {ListTemplate}
JsonValues == {Null, Num(2), Text(2), True, Array}
Specs(names) == [names -> [ty : {"num", "text", "bool"}, required : BOOLEAN, default : {NoDefault, Num(2), Text(2), Array}]]
MCParamSpecs == Specs({}) \cup Specs({"p"}) \cup {[p |-> a, q |-> [ty |-> "text", required |-> FALSE, default |-> d]] :
                a \in [ty : {"num"}, required : {FALSE}, default : {NoDefault}], d \in {NoDefault, Text(1)}}
MCArguments == UNION {[D -> JsonValues] : D \in {{}, {"p"}, {"p", "q"}, {"z"}}}

-----------------------------------------------------------------------------
(* Lists                                                                   *)

ListFilters == {NoClause, Leaf("n", "gte", <<Lit(Num(1))>>), Not(Fts("ix", Lit(Text(1)))), Not(Fts("ix", Lit(Text(2)))),
                Leaf("o", "eq", <<Auth("id")>>), Or(<<Leaf("n", "is_null", <<>>), Leaf("s", "in", <<Lit(Text(1))>>)>>)}
MCListRequests == [filter : ListFilters, select : {{}, {"n"}}, sort : {"created_at", "e"}, page : {0, 1, 2}, perPage : {1, 2, 3}]
Metrics == {<<>>, <<[op |-> "count", field |-> "", alias |-> ""]>>,
            <<[op |-> "sum", field |-> "n", alias |-> "s"], [op |-> "max", field |-> "n", alias |-> ""]>>}
MCAggRequests == [filter : ListFilters, metrics : Metrics, group : {{}, {"s"}}, sort : {"", "s"}, page : {1}, perPage : {1}]

-----------------------------------------------------------------------------
(* File policies                                                           *)

A == 4
MCPaths == {NoPath, <<A>>, <<A, Dot>>, <<A, Slash, A>>, <<A, Zero>>, <<A, Slash, A, Slash, A>>, <<A, Slash, A, Zero>>, <<A, A, Slash, A>>}
MCPrefixes == {<<>>, <<A, Slash>>, <<A, Slash, A, Slash>>, <<A, A, Slash>>, <<Slash>>, <<A>>, <<A, Slash, Slash>>, <<Dot, Slash>>, <<Control, Slash>>}
MCFileSchema == [uploader |-> "TEXT", kind |-> "TEXT", size |-> "INTEGER"]
Cols(u, k, size) == [uploader |-> u, kind |-> k, size |-> size, id |-> Num(1), created_at |-> Text(1), updated_at |-> Text(1)]
FileCols == {Cols(u, Text(1), Num(1)) : u \in {Null, Me, Other}} \cup {Cols(Me, Null, Num(2))}
FilesAt(p, cols) == {[key |-> <<p, c>>, path |-> p, vis |-> IF p = NoPath THEN "public" ELSE "private", cols |-> c] : c \in cols}
\* Paths just outside the ranges; one row each is enough.
Beside == {<<A>>, <<A, Dot>>, <<A, Zero>>, <<A, Slash, A, Zero>>}
MCFiles == UNION {FilesAt(p, IF p \in Beside THEN {c \in FileCols : c.uploader = Other} ELSE FileCols) : p \in MCPaths}
FileClauses == {NoClause, Leaf("kind", "eq", <<Lit(Text(1))>>), Not(Leaf("uploader", "eq", <<Auth("id")>>)), Leaf("size", "eq", <<Lit(Text(1))>>)}
PrefixRows == {p \in [ownerScoped : BOOLEAN, publicRead : BOOLEAN, select : FileClauses, delete : {NoClause}, roles : {NoRoles}] :
                     p.publicRead => Open(p)}
RootRows == PrefixRows
            \cup [ownerScoped : {FALSE}, publicRead : {TRUE}, select : {NoClause}, delete : {Leaf("kind", "is_null", <<>>)},
                  roles : {NoRoles, {"anon"}, {"root"}}]
MCFilePolicyRows == PrefixRows \cup RootRows
MCVerbs == [role \in {"anon", "user"} |-> IF role = "anon" THEN {"read"} ELSE {"read", "list"}]

-----------------------------------------------------------------------------
(* Stored SQL                                                              *)

Stmt(op, on, end) == [op |-> op, on |-> on, end |-> end]
SqlStmts == {Stmt("select", on, "ok") : on \in {"user", "search", "system"}} \cup {Stmt("dml", on, "ok") : on \in {"user", "search", "system"}}
            \cup {Stmt("select", "user", "long"), Stmt("dml", "user", "fails"), Stmt("dml", "user", "abandon"), Stmt("ddl", "user", "ok")}
Write == Stmt("dml", "user", "ok")
MCAsked == {Write, Stmt("select", "user", "long")}
MCBodies == {[mode |-> "read", whole |-> TRUE, stmts |-> <<s>>] : s \in SqlStmts}
            \cup {[mode |-> "write", whole |-> w, stmts |-> <<Write>>] : w \in BOOLEAN}
            \cup {[mode |-> "write", whole |-> TRUE, stmts |-> <<Write, s>>] : s \in SqlStmts}
            \cup {[mode |-> "write", whole |-> TRUE, stmts |-> <<Stmt("dml", "user", "abandon"), Write>>]}
\* Rows saved before validate_rpc_sql ran the authorizers, which no call checks again.
LegacyBodies == {b \in MCBodies : ~ValidateRpcSql(b)}

-----------------------------------------------------------------------------
MCInit == /\ scene \in Scenes
          /\ QInit /\ SqlInit(IF scene = "sql" THEN LegacyBodies ELSE {})
          /\ filePols \in {[p \in {} |-> LegacyRow]}
                          \cup IF scene = "files" THEN {[p \in {<<A, Slash>>} |-> LegacyRow]} ELSE {}
          /\ urls = {} /\ now = 0 /\ seen = NoClause

PolicyNext ==
    /\ scene = "policy"
    /\ ClearSelectPolicy \/ (selPolicy = NoClause /\ \E p \in PolicyScene : SetSelectPolicy(p))

TemplateNext ==
    /\ scene = "template"
    /\ \/ DeleteQueryRpc
       \/ query = NoClause /\ \E tpl \in TemplateScene, specs \in ParamSpecs : CreateQueryRpc(tpl, specs)

ListNext ==
    /\ scene = "list"
    /\ \/ \E p \in ListScene : SetSelectPolicy(p)
       \/ query = NoClause /\ CreateQueryRpc(ListTemplate, [p |-> [ty |-> "num", required |-> FALSE, default |-> NoDefault]])
       \/ answer = NoClause /\ \E caller \in Callers, req \in ListRequests : ListRecords(caller, req)
       \/ answer = NoClause /\ \E caller \in Callers, req \in AggRequests : AggregateRecords(caller, req)
       \/ answer = NoClause /\ \E caller \in Callers, args \in {[z \in {} |-> Null], [p |-> Num(2)], [p |-> Text(2)]} : CallQuery(caller, args)

\* Bounds: one URL at a time, and the three ways to write a policy, which are one
\* action, only for the root.
MaxUrls == 1
ReadFiles == {f \in Files : f.path \in {NoPath, <<A, Slash, A>>} /\ f.cols["uploader"] = Me}

FilesNext ==
    /\ scene = "files"
    /\ \/ /\ seen = NoClause /\ urls = {} /\ now = 0
          /\ \E prefix \in PrefixNames : \E p \in (IF prefix = <<>> THEN RootRows ELSE PrefixRows) :
                PutFilePolicy(prefix, p) \/ (prefix = <<>> /\ (McpSetFilePolicy(prefix, p) \/ FilePolicySave(prefix, p)))
       \/ \E prefix \in PrefixNames :
             DeleteFilePolicy(prefix) \/ (prefix = <<>> /\ (McpClearFilePolicy(prefix) \/ FilePolicyClear(prefix)))
       \/ SeedRootPolicy \/ GrantRootPublicUpload \/ (urls # {} /\ Tick)
       \/ Cardinality(DOMAIN filePols) <= 1 /\ \E caller \in FileCallers, f \in ReadFiles :
             \/ GetOne(caller, f) \/ StreamBytes(caller, f) \/ FunctionReadsFile(caller, f) \/ AdminStreamBytes(f)
             \/ \E exp \in {0, 1} : Cardinality(urls) < MaxUrls /\ (SignUrl(caller, f, exp) \/ McpGetFileUrl(f, exp) \/ AdminSignUrl(f, exp))
       \/ Cardinality(DOMAIN filePols) <= 1 /\ (McpListFiles \/ \E caller \in FileCallers : ListFiles(caller))
       \/ \E url \in urls : SignedBytes(url) \/ AdminSignedBytes(url)

\* A bound: one call at a time beside the previews; the writer serializes bodies.
Calling(j) == j.pc \notin {"idle", "preview", "target"}
OneCall == \A t, u \in SqlTasks : Calling(job[t]) /\ t # u => ~Calling(job'[u])

MCNext ==
    /\ \/ PolicyNext /\ UNCHANGED <<fvars, sqlvars>>
       \/ TemplateNext /\ UNCHANGED <<fvars, sqlvars>>
       \/ ListNext /\ UNCHANGED <<fvars, sqlvars>>
       \/ FilesNext /\ UNCHANGED <<qvars, sqlvars>>
       \/ scene = "sql" /\ SqlNext /\ OneCall /\ UNCHANGED <<qvars, fvars>>
    /\ UNCHANGED scene

MCSpec == MCInit /\ [][MCNext]_mcvars
=============================================================================
