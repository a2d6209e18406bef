----------------------------- MODULE Migrations -----------------------------
(***************************************************************************)
(* A start of the server on data of an older version: main opens the meta  *)
(* database (storage/meta.rs), makes the first administrator and runs      *)
(* run_migrations (db/migrations.rs), statement by statement, before any   *)
(* request is served.  Statements of the meta level commit one by one, so  *)
(* the process may die between any two; it then starts again and passes    *)
(* over everything.  A failing meta statement ends the start, a failing    *)
(* statement for a tenant only that tenant's job.                          *)
(***************************************************************************)
EXTENDS Naturals, FiniteSets

CONSTANTS
    MAdmins,   \* administrators; the lowest is the first
    MTenants,  \* tenants
    MOrigins,  \* origins of webhooks
    NoAdmin,   \* owner_admin_id IS NULL
    MaxBoots,  \* bound: starts in one behaviour
    MaxOps     \* bound: changes by operators

ASSUME MigrationAssumption == MAdmins \subseteq Nat /\ MAdmins # {} /\ NoAdmin \notin MAdmins

VARIABLES
    at,        \* where the start is: a step, its tenant and the tenants left
    cols,      \* columns of the meta database whose absence is a marker
    adm,       \* rows of admins: role, active unlabelled token, tokens minted
    ten,       \* rows of tenants: owner, markers, egress allowlist
    tdb,       \* tenant databases
    removed,   \* history: what an operator took away
    cut,       \* history: what an ill-timed crash or failure left behind
    boots, ops \* bounds

mgvars == <<at, cols, adm, ten, tdb, removed, cut, boots, ops>>

Jobs == {"egress", "policy", "publish"}
NoRow == [row |-> FALSE]
Down == [pc |-> "down"]
(* An old database: no role, no tenant owner, no markers; tokens without   *)
(* plaintext; or a new installation, with neither admins nor tenants.      *)
OldAdmin(tok) == [row |-> TRUE, role |-> "member", tok |-> tok, minted |-> 0]
OldTenant == [row |-> TRUE, owner |-> NoAdmin, mark |-> {}, allow |-> {}]
OldDb(file, hooks) == [file |-> file, hooks |-> hooks, root |-> "none", rpc |-> "unsafe", new |-> FALSE, strict |-> FALSE]
MgInit ==
    /\ at = Down /\ removed = {} /\ cut = {} /\ boots = 0 /\ ops = 0
    /\ \/ /\ cols = {} /\ ten = [t \in MTenants |-> OldTenant]
          /\ adm \in [MAdmins -> {OldAdmin("none"), OldAdmin("legacy")}]
          /\ tdb \in [MTenants -> UNION {{OldDb(f, h) : f \in BOOLEAN} : h \in {{}, MOrigins}}]
       \/ /\ cols = {} /\ ten = [t \in MTenants |-> NoRow] /\ adm = [a \in MAdmins |-> NoRow]
          /\ tdb = [t \in MTenants |-> OldDb(FALSE, {})]

Rows(tab) == {x \in DOMAIN tab : tab[x].row}
Lowest(S) == CHOOSE a \in S : \A b \in S : a <= b
MAt(pc) == at.pc = pc
MGo(pc) == at' = [pc |-> pc]

----------------------------------------------------------------------------
(* The meta level.                                                         *)

(* open_meta: pragmas, the renamed table of an old version in one          *)
(* transaction, CREATE ... IF NOT EXISTS, added columns.                   *)
OpenMeta ==
    /\ MAt("down") /\ boots < MaxBoots /\ boots' = boots + 1
    /\ MGo("bootstrap") /\ UNCHANGED <<cols, adm, ten, tdb, removed, cut, ops>>
BootstrapAdmin ==
    /\ MAt("bootstrap") /\ MGo("columns")
    /\ adm' = IF Rows(adm) = {} THEN [adm EXCEPT ![Lowest(MAdmins)] = OldAdmin("none")] ELSE adm
    /\ UNCHANGED <<cols, ten, tdb, cut, removed, boots, ops>>
(* The columns with a constant default, the markers among them. *)
AddMetaColumns ==
    /\ MAt("columns") /\ MGo("role") /\ cols' = cols \cup {"markers"}
    /\ UNCHANGED <<adm, ten, tdb, cut, removed, boots, ops>>

(* The role: whoever is there when the column is added becomes owner.      *)
FaultRoleColumn ==
    /\ MAt("role") /\ MGo("revoke")
    /\ cols' = cols \cup {"role"} /\ UNCHANGED <<adm, ten, tdb, cut, removed, boots, ops>>
RoleColumn ==
    /\ MAt("role") /\ MGo(IF "role" \in cols THEN "revoke" ELSE "lift")
    /\ cols' = cols \cup {"role"} /\ UNCHANGED <<adm, ten, tdb, cut, removed, boots, ops>>
RoleBackfill ==
    /\ MAt("lift") /\ MGo("revoke")
    /\ adm' = [a \in MAdmins |-> IF adm[a].row THEN [adm[a] EXCEPT !.role = "owner"] ELSE adm[a]]
    /\ UNCHANGED <<cols, ten, tdb, cut, removed, boots, ops>>

(* Tokens: those without plaintext are revoked, and whoever has no active  *)
(* unlabelled one gets one, one INSERT after the other.                    *)
FaultRevokeLegacyTokens ==
    /\ MAt("revoke") /\ MGo("rebuild")
    /\ adm' = [a \in MAdmins |-> IF adm[a].row THEN [adm[a] EXCEPT !.tok = "none"] ELSE adm[a]]
    /\ UNCHANGED <<cols, ten, tdb, cut, removed, boots, ops>>
RevokeLegacyTokens ==
    /\ MAt("revoke") /\ MGo("rebuild")
    /\ adm' = [a \in MAdmins |-> IF adm[a].row /\ adm[a].tok = "legacy" THEN [adm[a] EXCEPT !.tok = "none"]
                                 ELSE adm[a]]
    /\ UNCHANGED <<cols, ten, tdb, cut, removed, boots, ops>>
(* The table without its old columns: rename, create, copy, drop, not in a *)
(* transaction.  By now every row of the old shape is revoked, so a copy   *)
(* that is cut off loses no active token.                                  *)
RebuildTokens ==
    /\ MAt("rebuild") /\ MGo("mint") /\ cols' = cols \cup {"newtokens"}
    /\ UNCHANGED <<adm, ten, tdb, cut, removed, boots, ops>>
Tokenless == {a \in Rows(adm) : adm[a].tok = "none"}
MintToken ==
    /\ MAt("mint")
    /\ IF Tokenless = {} THEN MGo("owner") /\ UNCHANGED adm
       ELSE /\ UNCHANGED at
            /\ adm' = [adm EXCEPT ![Lowest(Tokenless)].tok = "plain", ![Lowest(Tokenless)].minted = @ + 1]
    /\ UNCHANGED <<cols, ten, tdb, cut, removed, boots, ops>>

(* The owner of a tenant, once, where the column is added. *)
OwnerColumn ==
    /\ MAt("owner") /\ MGo(IF "owner" \in cols THEN "tenants" ELSE "assign")
    /\ cols' = cols \cup {"owner"} /\ UNCHANGED <<adm, ten, tdb, cut, removed, boots, ops>>
OwnerBackfill ==
    LET owners == {a \in Rows(adm) : adm[a].role = "owner"}
        first == IF owners = {} THEN NoAdmin ELSE Lowest(owners)
    IN
    /\ MAt("assign") /\ MGo("tenants")
    /\ ten' = [t \in MTenants |-> IF ten[t].row /\ tdb[t].file /\ ten[t].owner = NoAdmin
                                  THEN [ten[t] EXCEPT !.owner = first] ELSE ten[t]]
    /\ UNCHANGED <<cols, adm, tdb, cut, removed, boots, ops>>

----------------------------------------------------------------------------
(* The tenants, one after the other.                                       *)
On(t, pc) == at.pc = pc /\ at.t = t
Then(t, pc) == at' = [pc |-> pc, t |-> t, left |-> at.left]
StartTenants == MAt("tenants") /\ at' = [pc |-> "pick", left |-> Rows(ten)] /\ UNCHANGED <<cols, adm, ten, tdb, cut, removed, boots, ops>>
NextTenant(t) ==
    /\ MAt("pick") /\ t \in at.left
    /\ at' = [pc |-> "migrate", t |-> t, left |-> at.left \ {t}] /\ UNCHANGED <<cols, adm, ten, tdb, cut, removed, boots, ops>>
Serve == MAt("pick") /\ at.left = {} /\ MGo("serving") /\ UNCHANGED <<cols, adm, ten, tdb, cut, removed, boots, ops>>

(* migrate_tenant_db, one transaction: the system tables and columns, and  *)
(* stored functions that anonymous callers may call although they read     *)
(* rows of others are closed.  A tenant that fails keeps the rest undone.  *)
NeutralizeRpcs(db) == IF db.rpc = "unsafe" THEN [db EXCEPT !.rpc = "closed"] ELSE db
MigrateTenantDb(t) ==
    /\ On(t, "migrate")
    /\ \/ /\ Then(t, "egress")
          /\ tdb' = IF tdb[t].file THEN [tdb EXCEPT ![t] = [NeutralizeRpcs(@) EXCEPT !.new = TRUE]] ELSE tdb
       \/ tdb[t].file /\ at' = [pc |-> "pick", left |-> at.left] /\ UNCHANGED tdb
    /\ UNCHANGED <<cols, adm, ten, cut, removed, boots, ops>>

(* backfill_egress_allowlist: origins of the registered webhooks join the  *)
(* list in the statement that sets the marker; a tenant without a database *)
(* is marked as well.                                                      *)
BackfillEgress(t) ==
    /\ On(t, "egress") /\ Then(t, "policy")
    /\ ten' = IF "egress" \in ten[t].mark THEN ten
              ELSE [ten EXCEPT ![t].mark = @ \cup {"egress"},
                               ![t].allow = @ \cup (IF tdb[t].file THEN tdb[t].hooks ELSE {})]
    /\ UNCHANGED <<cols, adm, tdb, cut, removed, boots, ops>>

(* seed_file_policy_root: the rule in the tenant's database, then the      *)
(* marker in the meta database.                                            *)
SeedFilePolicyRoot(t) ==
    /\ On(t, "policy")
    /\ IF "policy" \in ten[t].mark \/ ~tdb[t].file THEN Then(t, "publish") /\ UNCHANGED tdb
       ELSE /\ Then(t, "stamp")
            /\ tdb' = [tdb EXCEPT ![t].root = IF @ = "none" THEN "read" ELSE @]
    /\ UNCHANGED <<cols, adm, ten, cut, removed, boots, ops>>
StampPolicy(t) ==
    /\ On(t, "stamp") /\ Then(t, "publish")
    /\ ten' = [ten EXCEPT ![t].mark = @ \cup {"policy"}] /\ cut' = cut \ ({<<"policy", t>>} \ removed)
    /\ UNCHANGED <<cols, adm, tdb, removed, boots, ops>>

(* seed_public_upload_grant: the marker first, then the grant; a grant     *)
(* that fails takes the marker back, as far as that succeeds.              *)
SeedPublicUpload(t) ==
    /\ On(t, "publish")
    /\ IF "publish" \in ten[t].mark \/ ~tdb[t].file THEN Then(t, "strict") /\ UNCHANGED ten
       ELSE Then(t, "grant") /\ ten' = [ten EXCEPT ![t].mark = @ \cup {"publish"}]
    /\ UNCHANGED <<cols, adm, tdb, cut, removed, boots, ops>>
GrantRootPublicUpload(t) ==
    /\ On(t, "grant")
    /\ \/ /\ Then(t, "strict") /\ UNCHANGED <<ten, cut>>
          /\ tdb' = [tdb EXCEPT ![t].root = IF @ = "read" THEN "both" ELSE @]
       \/ /\ Then(t, "strict") /\ UNCHANGED tdb
          /\ \/ ten' = [ten EXCEPT ![t].mark = @ \ {"publish"}] /\ UNCHANGED cut
             \/ cut' = cut \cup {<<"publish", t>>} /\ UNCHANGED ten
    /\ UNCHANGED <<cols, adm, removed, boots, ops>>

(* A job of a tenant that fails is reported and the next one runs.         *)
JobFails(t) ==
    /\ \/ On(t, "egress") /\ Then(t, "policy") /\ UNCHANGED cut
       \/ On(t, "policy") /\ Then(t, "publish") /\ UNCHANGED cut
       \/ On(t, "stamp") /\ Then(t, "publish") /\ cut' = cut \cup {<<"policy", t>>}
       \/ On(t, "publish") /\ Then(t, "strict") /\ UNCHANGED cut
    /\ UNCHANGED <<cols, adm, ten, tdb, removed, boots, ops>>

(* strict_rebuild_tenant: each table that is not STRICT is copied and      *)
(* swapped in one transaction; one whose rows do not fit stays.            *)
RebuildOneTableStrict(db) == {[db EXCEPT !.strict = TRUE], db}
StrictRebuildTenant(t) ==
    /\ On(t, "strict") /\ at' = [pc |-> "pick", left |-> at.left]
    /\ IF tdb[t].file /\ ~tdb[t].strict
       THEN \E db \in RebuildOneTableStrict(tdb[t]) : tdb' = [tdb EXCEPT ![t] = db]
       ELSE UNCHANGED tdb
    /\ UNCHANGED <<cols, adm, ten, cut, removed, boots, ops>>

----------------------------------------------------------------------------
(* The process dies, or a meta statement fails and ends it.  What the next *)
(* start will not make good is noted.                                      *)
Crash ==
    /\ at # Down /\ at' = Down
    /\ cut' = cut \cup {x \in {<<"role">>} : MAt("lift")} \cup {x \in {<<"owner">>} : MAt("assign")}
                  \cup {<<"publish", t>> : t \in {u \in MTenants : On(u, "grant")}}
                  \cup {<<"policy", t>> : t \in {u \in MTenants : On(u, "stamp")}}
    /\ UNCHANGED <<cols, adm, ten, tdb, removed, boots, ops>>

(* Operators, while the server runs.  A new tenant is born with every      *)
(* marker and, once its database is made, the root rule.                   *)
Operate == MAt("serving") /\ ops < MaxOps /\ ops' = ops + 1 /\ UNCHANGED <<at, cols, boots>>
NewTenant(t) ==
    /\ Operate /\ ~ten[t].row
    /\ \E a \in Rows(adm) : ten' = [ten EXCEPT ![t] = [OldTenant EXCEPT !.owner = a, !.mark = Jobs]]
    /\ \/ /\ UNCHANGED cut
          /\ tdb' = [tdb EXCEPT ![t] = [OldDb(TRUE, {}) EXCEPT !.root = "read", !.rpc = "none",
                                                               !.new = TRUE, !.strict = TRUE]]
       \/ cut' = cut \cup {<<"policy", t>>} /\ UNCHANGED tdb
    /\ UNCHANGED <<adm, removed>>
RemoveOrigin(t, o) ==
    /\ Operate /\ ten[t].row /\ o \in ten[t].allow /\ ten' = [ten EXCEPT ![t].allow = @ \ {o}]
    /\ removed' = removed \cup {<<"egress", t, o>>} /\ UNCHANGED <<adm, tdb, cut>>
ClearRootPolicy(t) ==
    /\ Operate /\ tdb[t].root # "none" /\ tdb' = [tdb EXCEPT ![t].root = "none"]
    /\ removed' = removed \cup {<<"policy", t>>, <<"publish", t>>} /\ UNCHANGED <<adm, ten, cut>>
RevokePublish(t) ==
    /\ Operate /\ tdb[t].root = "both" /\ tdb' = [tdb EXCEPT ![t].root = "read"]
    /\ removed' = removed \cup {<<"publish", t>>} /\ UNCHANGED <<adm, ten, cut>>
Disown(t) ==
    /\ Operate /\ ten[t].row /\ ten[t].owner # NoAdmin /\ ten' = [ten EXCEPT ![t].owner = NoAdmin]
    /\ removed' = removed \cup {<<"owner", t>>} /\ UNCHANGED <<adm, tdb, cut>>

MgBoot ==
    \/ OpenMeta \/ BootstrapAdmin \/ AddMetaColumns \/ RoleColumn \/ RoleBackfill \/ RevokeLegacyTokens
    \/ RebuildTokens \/ MintToken \/ OwnerColumn \/ OwnerBackfill \/ StartTenants \/ Serve
    \/ \E t \in MTenants : NextTenant(t) \/ MigrateTenantDb(t) \/ BackfillEgress(t) \/ SeedFilePolicyRoot(t) \/ StampPolicy(t)
                           \/ SeedPublicUpload(t) \/ GrantRootPublicUpload(t) \/ StrictRebuildTenant(t)
MgNext ==
    \/ MgBoot \/ Crash
    \/ \E t \in MTenants : \/ JobFails(t) \/ NewTenant(t) \/ ClearRootPolicy(t) \/ RevokePublish(t) \/ Disown(t)
                           \/ \E o \in MOrigins : RemoveOrigin(t, o)
MgSpec == MgInit /\ [][MgNext]_mgvars

----------------------------------------------------------------------------
(* run_migrations runs at every start, but what it did once it never does  *)
(* again: no start mints an administrator a second token, and nothing an   *)
(* operator took away comes back, wherever earlier starts were cut off.    *)
(* The one exception is the root rule of a tenant whose marker was not     *)
(* written after the rule was.                                             *)
BootIdempotent ==
    /\ \A a \in Rows(adm) : adm[a].minted <= 1
    /\ \A t \in MTenants :
        /\ \A o \in MOrigins : <<"egress", t, o>> \in removed => o \notin ten[t].allow
        /\ <<"policy", t>> \in removed => tdb[t].root = "none" \/ <<"policy", t>> \in cut
        /\ <<"publish", t>> \in removed => tdb[t].root # "both" \/ <<"policy", t>> \in cut
        /\ <<"owner", t>> \in removed => ten[t].owner = NoAdmin

(* Whoever could do something before an upgrade can do it after the first  *)
(* start that serves: administrators have a token and, unless a crash hit  *)
(* the two statements of the backfill, someone is owner and tenants are    *)
(* owned; the webhooks of a tenant whose jobs ran are still delivered, its *)
(* files still read and published, and none of its functions is open to    *)
(* anonymous callers that should not be.                                   *)
UpgradeKeepsAccess ==
    MAt("serving") =>
        /\ Tokenless = {}
        /\ <<"role">> \in cut \/ \E a \in Rows(adm) : adm[a].role = "owner"
        /\ \A t \in Rows(ten) :
            /\ tdb[t].file => ten[t].owner # NoAdmin \/ <<"owner", t>> \in removed \/ cut \cap {<<"owner">>, <<"role">>} # {}
            /\ tdb[t].file /\ "egress" \in ten[t].mark =>
                  \A o \in tdb[t].hooks : o \in ten[t].allow \/ <<"egress", t, o>> \in removed
            /\ "policy" \in ten[t].mark => tdb[t].root # "none" \/ <<"policy", t>> \in removed \cup cut
            /\ tdb[t].new => tdb[t].rpc # "unsafe"

(* db/migrations.rs: without the backfill of the role nobody could         *)
(* administer the installation; a start that serves has an owner.          *)
OwnerAfterBoot == MAt("serving") => \E a \in Rows(adm) : adm[a].role = "owner"
=============================================================================
