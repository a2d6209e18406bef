----------------------------- MODULE RowPolicy -----------------------------
(***************************************************************************)
(* Row policies (query/policy.rs): one abstract syntax, two evaluators.    *)
(* compile_policy_using turns a clause into SQL that SQLite runs in a      *)
(* WHERE; eval_policy decides the same clause in memory, for the rows      *)
(* that reach a client without passing a WHERE (record events, checks of a *)
(* written row, single file reads).  validate_policy is what stands        *)
(* between a clause and the store.                                         *)
(*                                                                         *)
(* Values are records [c, v]: the storage class "null", "num" or "text"    *)
(* and a number.  The text v is the text that v renders as, so a number    *)
(* and its rendering have one v and two classes; AnyText is the pattern %  *)
(* of LIKE.  An operand is [r |-> "lit", x], [r |-> "auth", key],          *)
(* [r |-> "data", f] or (query templates only) [r |-> "param", name].      *)
(* A schema is a function from column names to SQL types.                  *)
(*                                                                         *)
(* The code walks a clause by recursion with a depth bound.  Here Levels   *)
(* lays the nodes of a clause out by depth; what a walk asks of every node *)
(* is a quantifier over them, what it computes from the nodes below is a   *)
(* function defined from the deepest level up.                             *)
(***************************************************************************)
EXTENDS Integers, Sequences, FiniteSets

CONSTANT MaxFilterDepth       \* MAX_FILTER_DEPTH (32 in the code)

ASSUME DepthAssumption == MaxFilterDepth \in Nat \ {0}

Null == [c |-> "null", v |-> 0]
Num(i) == [c |-> "num", v |-> i]
Text(i) == [c |-> "text", v |-> i]
AnyText == 0

Lit(x) == [r |-> "lit", x |-> x]
Leaf(f, op, args) == [k |-> "leaf", f |-> f, op |-> op, args |-> args]
And(kids) == [k |-> "and", kids |-> kids]
Or(kids) == [k |-> "or", kids |-> kids]
Not(kid) == [k |-> "not", kids |-> <<kid>>]
Authenticated(want) == [k |-> "authenticated", want |-> want]
Fts(index, query) == [k |-> "fts", index |-> index, args |-> <<query>>]

\* PolicyCtx: whether and as whom the caller is signed in, and the row that
\* $data reads (NoData outside a check).
NoData == <<>>
Anon == Null
Service == [c |-> "service", v |-> 0]
Ctx(auth, data) == [auth |-> auth, data |-> data]

SystemFields == {"id", "created_at", "updated_at"}
IsVector(S, f) == f \in DOMAIN S /\ S[f] = "VECTOR"

\* validate_field: a vector column is refused before an unknown one.
ValidateField(S, f) == ~IsVector(S, f) /\ (f \in SystemFields \/ f \in DOMAIN S)

-----------------------------------------------------------------------------
(* The nodes of a clause                                                   *)

\* The nodes directly below a node.
Kids(n) == IF n.k \in {"and", "or", "not"} THEN {n.kids[i] : i \in DOMAIN n.kids} ELSE {}

\* The nodes at each depth, down to the first one that every compiler refuses.
Levels(ast) ==
    LET at[d \in 0..MaxFilterDepth] == IF d = 0 THEN {ast} ELSE UNION {Kids(n) : n \in at[d - 1]}
    IN at

Nodes(ast) == UNION {Levels(ast)[d] : d \in 0..MaxFilterDepth}
TooDeep(ast) == Levels(ast)[MaxFilterDepth] # {}

\* What serde lets through as a FilterAst, with JSON values as literals.
IsJson(x) == x.c \in {"null", "bool", "num", "text", "array"} /\ (x.c = "null" => x = Null)
IsOperand(o) == o.r \in {"lit", "auth", "data"} /\ (o.r = "lit" => IsJson(o.x))
IsList(xs) == xs \in Seq({xs[i] : i \in DOMAIN xs})
IsFilterAst(ast) ==
    \A n \in Nodes(ast) :
        /\ n.k \in {"and", "or", "not", "authenticated", "fts", "leaf"}
        /\ n.k \in {"leaf", "fts"} => IsList(n.args) /\ \A i \in DOMAIN n.args : IsOperand(n.args[i])

ArrayOps == {"in", "nin"}
NullOps == {"is_null", "is_not_null"}
ScalarOps == {"eq", "ne", "gt", "gte", "lt", "lte", "like"}

-----------------------------------------------------------------------------
(* The compiled clause                                                     *)

Bad == [c |-> "bad", v |-> 0]

\* json_to_value: a boolean is stored as a number, an array or object as NULL.
JsonToValue(x) == IF x.c = "bool" THEN Num(x.v) ELSE IF x.c = "array" THEN Null ELSE x

\* resolve_operand: the value that is bound; Bad where it fails.
ResolveOperand(o, ctx) ==
    IF o.r = "auth" THEN (IF o.key = "id" THEN ctx.auth ELSE Bad)
    ELSE IF o.r = "lit" THEN JsonToValue(o.x)
    ELSE IF ctx.data = NoData THEN Bad
    ELSE IF o.f \in DOMAIN ctx.data THEN ctx.data[o.f] ELSE Null

\* compile_leaf succeeds: the column may be filtered, the operator is known and
\* every operand resolves.  A scalar operator has one operand.
CompileLeaf(S, n, ctx) ==
    /\ ValidateField(S, n.f)
    /\ n.op \in ScalarOps \cup ArrayOps \cup NullOps
    /\ n.op \in ScalarOps => Len(n.args) = 1
    /\ n.op \notin NullOps => \A i \in DOMAIN n.args : ResolveOperand(n.args[i], ctx) # Bad

\* compile_node of one node: $fts has no meaning in a policy.
CompileNode(S, n, ctx) == n.k # "fts" /\ (n.k = "leaf" => CompileLeaf(S, n, ctx))

\* compile_policy_using: nesting is bounded and every node compiles.
CompilePolicyUsing(S, ast, ctx) == ~TooDeep(ast) /\ \A n \in Nodes(ast) : CompileNode(S, n, ctx)

\* SQLite's three truth values.
T == "true"
F == "false"
U == "unknown"
FromBool(b) == IF b THEN T ELSE F
TriNot(x) == IF x = T THEN F ELSE IF x = F THEN T ELSE U
TriAnd(xs) == IF F \in xs THEN F ELSE IF U \in xs THEN U ELSE T
TriOr(xs) == IF T \in xs THEN T ELSE IF U \in xs THEN U ELSE F

Ordered(op, a, b) ==
    CASE op = "eq" -> a = b [] op = "ne" -> a # b [] op = "gt" -> a > b
      [] op = "gte" -> a >= b [] op = "lt" -> a < b [] OTHER -> a <= b

\* A bound parameter has no affinity, so SQLite converts it to the column's:
\* a number becomes its text beside a TEXT column, and a text that reads as a
\* number becomes that number beside an INTEGER or REAL one.  A text that does
\* not sorts after every number.
SqlCompare(op, a, b) ==
    IF a.c = "null" \/ b.c = "null" THEN U
    ELSE IF a.c = "num" /\ b.c = "text" /\ b.v = AnyText THEN FromBool(op \in {"ne", "lt", "lte"})
    ELSE FromBool(Ordered(op, a.v, b.v))

\* LIKE compares the texts both sides render as.
SqlLike(a, b) ==
    IF a.c = "null" \/ b.c = "null" THEN U
    ELSE FromBool((b.c = "text" /\ b.v = AnyText) \/ a.v = b.v)

\* What SQLite makes of the fragment compile_leaf emits for a row.
SqlLeaf(n, row, ctx) ==
    LET lhs == row[n.f]
        rhs(i) == ResolveOperand(n.args[i], ctx)
        hits == {SqlCompare("eq", lhs, rhs(i)) : i \in DOMAIN n.args}
    IN IF n.op = "is_null" THEN FromBool(lhs.c = "null")
       ELSE IF n.op = "is_not_null" THEN FromBool(lhs.c # "null")
       ELSE IF n.op = "in" THEN TriOr(hits)
       ELSE IF n.op = "nin" THEN TriNot(TriOr(hits))
       ELSE IF n.op = "like" THEN SqlLike(lhs, rhs(1))
       ELSE SqlCompare(n.op, lhs, rhs(1))

\* What SQLite makes of the SQL compile_node emits for one node.
SqlNode(n, row, ctx, kids) ==
    IF n.k = "and" THEN TriAnd(kids)
    ELSE IF n.k = "or" THEN TriOr(kids)
    ELSE IF n.k = "not" THEN TriNot(CHOOSE x \in kids : TRUE)
    ELSE IF n.k = "authenticated" THEN FromBool((ctx.auth # Anon) = n.want)
    ELSE SqlLeaf(n, row, ctx)

\* What it makes of a compiled clause.  Nothing is compiled at the last depth.
SqlPolicy(ast, row, ctx) ==
    LET value[d \in 0..MaxFilterDepth] ==
            IF d = MaxFilterDepth THEN [n \in Levels(ast)[d] |-> F]
            ELSE [n \in Levels(ast)[d] |-> SqlNode(n, row, ctx, {value[d + 1][k] : k \in Kids(n)})]
    IN value[0][ast]

-----------------------------------------------------------------------------
(* The evaluator in memory                                                 *)

\* resolve_eval_operand never fails: what does not resolve is NULL.
ResolveEvalOperand(o, ctx) ==
    LET x == ResolveOperand(o, ctx) IN IF x = Bad THEN Null ELSE x

\* value_cmp: no order between a number and a text.
Comparable(a, b) == a.c = b.c /\ a.c # "null"

\* like_match: only texts match.
LikeMatch(a, b) == a.c = "text" /\ b.c = "text" /\ (b.v = AnyText \/ a.v = b.v)

FaultEvalIn(op, lhs, xs) ==
    LET hit == \E x \in xs : Comparable(lhs, x) /\ lhs.v = x.v
    IN FromBool((op = "nin") = ~hit)

\* The in/nin arm of eval_leaf: an empty list decides by itself; after that a
\* NULL on either side makes a miss Unknown.
EvalIn(op, lhs, xs) ==
    LET hit == \E x \in xs : Comparable(lhs, x) /\ lhs.v = x.v
        anyNull == lhs.c = "null" \/ \E x \in xs : x.c = "null"
        found == IF hit THEN T ELSE IF anyNull /\ xs # {} THEN U ELSE F
    IN IF op = "nin" THEN TriNot(found) ELSE found

\* eval_leaf: a column the row does not have is NULL; a malformed leaf is False.
EvalLeaf(n, row, ctx) ==
    LET lhs == IF n.f \in DOMAIN row THEN row[n.f] ELSE Null
        rhs(i) == ResolveEvalOperand(n.args[i], ctx)
    IN IF n.op = "is_null" THEN FromBool(lhs.c = "null")
       ELSE IF n.op = "is_not_null" THEN FromBool(lhs.c # "null")
       ELSE IF n.op \in ArrayOps THEN EvalIn(n.op, lhs, {rhs(i) : i \in DOMAIN n.args})
       ELSE IF n.op = "like" THEN (IF lhs.c = "null" \/ rhs(1).c = "null" THEN U ELSE FromBool(LikeMatch(lhs, rhs(1))))
       ELSE IF ~Comparable(lhs, rhs(1)) THEN U
       ELSE FromBool(n.op \in ScalarOps /\ Ordered(n.op, lhs.v, rhs(1).v))

\* eval_node of one node: Kleene's connectives, False for $fts.
EvalNode(n, row, ctx, kids) ==
    IF n.k = "and" THEN TriAnd(kids)
    ELSE IF n.k = "or" THEN TriOr(kids)
    ELSE IF n.k = "not" THEN TriNot(CHOOSE x \in kids : TRUE)
    ELSE IF n.k = "authenticated" THEN FromBool((ctx.auth # Anon) = n.want)
    ELSE IF n.k = "fts" THEN F
    ELSE EvalLeaf(n, row, ctx)

\* eval_policy: a node beyond the depth bound is False.
EvalPolicy(ast, row, ctx) ==
    LET value[d \in 0..MaxFilterDepth] ==
            IF d = MaxFilterDepth THEN [n \in Levels(ast)[d] |-> F]
            ELSE [n \in Levels(ast)[d] |-> EvalNode(n, row, ctx, {value[d + 1][k] : k \in Kids(n)})]
    IN value[0][ast] = T

-----------------------------------------------------------------------------
(* What a stored policy has passed                                         *)

NoClass == "no class"

\* literal_class: NULL and arrays are compared with nothing.
LiteralClass(x) == IF x.c = "text" THEN "text" ELSE IF x.c \in {"num", "bool"} THEN "num" ELSE NoClass

\* column_class
ColumnClass(t) == IF t \in {"INTEGER", "REAL"} THEN "num" ELSE IF t = "TEXT" THEN "text" ELSE NoClass

\* field_class
FieldClass(S, f) ==
    IF f = "id" THEN "num"
    ELSE IF f \in {"created_at", "updated_at"} THEN "text"
    ELSE IF f \in DOMAIN S THEN ColumnClass(S[f]) ELSE NoClass

\* operand_class: the caller's id is a text, $data has its column's class.
OperandClass(S, o) ==
    IF o.r = "auth" THEN "text" ELSE IF o.r = "data" THEN FieldClass(S, o.f) ELSE LiteralClass(o.x)

\* check_operand_class
CheckOperandClass(S, f, o) ==
    \/ NoClass \in {OperandClass(S, o), FieldClass(S, f)}
    \/ OperandClass(S, o) = FieldClass(S, f)

\* check_operand_classes_inner: every operand of every leaf; a policy refuses
\* $fts where a query template allows it.  The clause has compiled, so it has no
\* deeper nodes.
CheckOperandClasses(S, ast, allowFts) ==
    \A n \in Nodes(ast) :
        /\ n.k = "fts" => allowFts
        /\ n.k = "leaf" /\ n.op \notin NullOps => \A i \in DOMAIN n.args : CheckOperandClass(S, n.f, n.args[i])

NoClause == [k |-> "no clause"]
ProbeUser == Text(1)

\* validate_policy: a select policy filters reads; both clauses must compile and
\* compare like with like.  Only a check may read $data.
ValidatePolicy(S, verb, p) ==
    /\ verb = "select" => p.using # NoClause
    /\ p.using # NoClause =>
          CompilePolicyUsing(S, p.using, Ctx(ProbeUser, NoData)) /\ CheckOperandClasses(S, p.using, FALSE)
    /\ p.check # NoClause =>
          /\ CompilePolicyUsing(S, p.check, Ctx(ProbeUser, [f \in DOMAIN S |-> Null]))
          /\ CheckOperandClasses(S, p.check, FALSE)

\* select_read_access and policy_using_sql for select, decided for one row: no
\* policy leaves reads open, a stored one without a using denies them, and the
\* service sees all.
SelectAdmits(S, p, caller, row) ==
    \/ caller = Service
    \/ p = NoClause
    \/ /\ p.using # NoClause
       /\ CompilePolicyUsing(S, p.using, Ctx(caller, NoData))
       /\ SqlPolicy(p.using, row, Ctx(caller, NoData)) = T

\* A stored row: every column, NULL or of its column's class (tables are STRICT).
\* json_to_value shows a vector, an array, as NULL.
IsStored(x, class) == x = Null \/ (class # NoClass /\ x = [c |-> class, v |-> x.v])
IsRow(S, row) ==
    /\ DOMAIN row = DOMAIN S \cup SystemFields
    /\ \A f \in DOMAIN row : IsStored(row[f], FieldClass(S, f))
IsSchema(S) == \A f \in DOMAIN S : S[f] \in {"INTEGER", "REAL", "TEXT", "VECTOR"}

\* A clause with LIKE on a number column.
NumberLike(S, ast) == \E n \in Nodes(ast) : n.k = "leaf" /\ n.op = "like" /\ FieldClass(S, n.f) = "num"

\* Both evaluators give one verdict.
Agree(clause, ctx, row) == EvalPolicy(clause, row, ctx) <=> SqlPolicy(clause, row, ctx) = T

\* effective_policy_using and effective_policy_check: the clause that binds a
\* caller for a verb.
EffectivePolicy(policies, caller, verb, clause) ==
    IF caller = Service \/ policies[verb] = NoClause THEN NoClause
    ELSE IF clause = "using" THEN policies[verb].using ELSE policies[verb].check
=============================================================================
