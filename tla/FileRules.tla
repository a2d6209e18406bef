----------------------------- MODULE FileRules -----------------------------
(***************************************************************************)
(* Who may see which file of a tenant (storage/file_policy.rs,             *)
(* storage/file_path.rs, tenant/file_caps.rs and the read handlers of      *)
(* mgmt/tenant_files.rs, mgmt/signed_bytes.rs, functions/enforce.rs and    *)
(* mcp/tools/files.rs).                                                    *)
(*                                                                         *)
(* The policy of a file is the one of the longest registered prefix of its *)
(* path.  A read of one file decides in memory; the list decides in SQL,   *)
(* with one arm per prefix over a range of paths.                          *)
(*                                                                         *)
(* A path is a sequence of bytes.  The bytes that matter are "." "/" and   *)
(* "0", neighbours in that order, and letters above them.                  *)
(***************************************************************************)
EXTENDS RowPolicy, SequencesExt

CONSTANTS PrefixNames,        \* the prefixes a request may name
          Files,              \* the stored rows: [key, path, vis, cols]
          FileSchema,         \* file_policy_schema
          Verbs,              \* the file verbs granted to anon and user callers
          FileCallers,        \* Service, Anon and users, by their id
          FilePolicyRows,     \* the rows a request may write
          MaxNow              \* a bound on the clock

VARIABLES filePols,           \* _system_file_policy: prefix to row, a partial function
          urls,               \* signed URLs handed out: [key, exp]
          now,                \* the clock of the signatures
          seen                \* the last read that was served, or NoClause

fvars == <<filePols, urls, now, seen>>

Dot == 1
Slash == 2
Zero == 3
Control == 9
NoPath == <<0>>               \* the row has no path
MaxPathBytes == 5
MaxSegmentBytes == 3

ASSUME FilesAssumption ==
    /\ IsSchema(FileSchema)
    /\ "uploader" \in DOMAIN FileSchema /\ FileSchema["uploader"] = "TEXT"
    /\ \A f \in Files : f.path \in Seq(Nat) /\ IsRow(FileSchema, f.cols)
ASSUME PrefixesAssumption == PrefixNames \subseteq Seq(Nat)
ASSUME FileCallersAssumption == \A u \in FileCallers : u \in {Anon, Service} \/ u = Text(u.v)
\* FilePolicyRow
FilePolicyRow(ownerScoped, publicRead, select, delete, roles) ==
    [ownerScoped |-> ownerScoped, publicRead |-> publicRead, select |-> select, delete |-> delete, roles |-> roles]

ASSUME FilePolicyRowsAssumption ==
    \A p \in FilePolicyRows :
        /\ p = FilePolicyRow(p.ownerScoped, p.publicRead, p.select, p.delete, p.roles)
        /\ \A clause \in {p.select, p.delete} : clause # NoClause => IsFilterAst(clause)

-----------------------------------------------------------------------------
(* Paths                                                                   *)

\* Where the segments of a path start and end.
Segments(p) ==
    {seg \in (1..Len(p)) \X (1..Len(p)) :
        /\ \A i \in seg[1]..seg[2] : p[i] # Slash
        /\ seg[1] = 1 \/ p[seg[1] - 1] = Slash
        /\ seg[2] = Len(p) \/ p[seg[2] + 1] = Slash
        /\ seg[1] <= seg[2]}

\* validate_file_path
ValidateFilePath(p) ==
    /\ p # <<>>
    /\ Len(p) <= MaxPathBytes
    /\ p[1] # Slash /\ p[Len(p)] # Slash
    /\ \A i \in 1..(Len(p) - 1) : ~(p[i] = Slash /\ p[i + 1] = Slash)
    /\ \A seg \in Segments(p) : LET s == SubSeq(p, seg[1], seg[2]) IN
          Len(s) <= MaxSegmentBytes /\ s \notin {<<Dot>>, <<Dot, Dot>>}
    /\ \A i \in DOMAIN p : p[i] # Control

\* validate_file_prefix: the root is empty, every other prefix ends in a slash.
ValidateFilePrefix(p) ==
    p # <<>> =>
       /\ Len(p) <= MaxPathBytes
       /\ p[Len(p)] = Slash
       /\ ValidateFilePath(SubSeq(p, 1, Len(p) - 1))

\* prefix_upper_bound: the last byte plus one.
PrefixUpperBound(p) == [p EXCEPT ![Len(p)] = @ + 1]

\* The order of SQLite's BINARY collation.
Before(p, q) ==
    \/ IsStrictPrefix(p, q)
    \/ \E i \in 1..(IF Len(p) < Len(q) THEN Len(p) ELSE Len(q)) :
          p[i] < q[i] /\ \A j \in 1..(i - 1) : p[j] = q[j]

-----------------------------------------------------------------------------
(* Policies                                                                *)

NoRoles == {}

\* canonical_public_upload_roles accepts: nobody, or some of anon and user.
UploadRolesValid(roles) == roles \subseteq {"anon", "user"}

Open(p) == ~p.ownerScoped /\ p.select = NoClause

\* validate_file_policy: an open prefix says so, and each clause is a policy.
ValidateFilePolicy(prefix, p) ==
    /\ ValidateFilePrefix(prefix)
    /\ UploadRolesValid(p.roles)
    /\ Open(p) => p.publicRead
    /\ \A clause \in {p.select, p.delete} : clause # NoClause =>
          ValidatePolicy(FileSchema, "select", [using |-> clause, check |-> NoClause])

\* load_file_policies: one row that cannot be read fails them all.
LoadFilePolicies == \A prefix \in DOMAIN filePols : ValidateFilePrefix(prefix) /\ UploadRolesValid(filePols[prefix].roles)

Matching(path) == {prefix \in DOMAIN filePols : IF path = NoPath THEN prefix = <<>> ELSE IsPrefix(prefix, path)}

\* longest_match
LongestMatch(path) == CHOOSE p \in Matching(path) : \A q \in Matching(path) : Len(q) <= Len(p)

\* caller_is_uploader
CallerIsUploader(f, caller) == caller # Anon /\ f.cols["uploader"] = caller

\* authorize_file: no policy leaves the file to its uploader; a stored row that
\* restricts nothing and does not say so admits nobody; a clause that does not
\* compile denies.  A delete without a clause of its own uses the read's.
AuthorizeFile(f, caller, access) ==
    IF Matching(f.path) = {} THEN CallerIsUploader(f, caller)
    ELSE LET p == filePols[LongestMatch(f.path)]
             clause == IF access = "delete" /\ p.delete # NoClause THEN p.delete ELSE p.select
             ctx == Ctx(caller, NoData)
         IN /\ Open(p) => p.publicRead
            /\ p.ownerScoped => CallerIsUploader(f, caller)
            /\ clause # NoClause => CompilePolicyUsing(FileSchema, clause, ctx) /\ EvalPolicy(clause, f.cols, ctx)

\* file_access_allowed: the admin plane and the service key pass.
FileAccessAllowed(f, caller, access) ==
    caller # Service => LoadFilePolicies /\ AuthorizeFile(f, caller, access)

-----------------------------------------------------------------------------
(* The list                                                                *)

\* prefix_range_sql: Unknown for a row without a path.
PrefixRangeSql(prefix, f) ==
    IF f.path = NoPath THEN U
    ELSE FromBool(~Before(f.path, prefix) /\ Before(f.path, PrefixUpperBound(prefix)))

\* owner_sql: an anonymous caller's id is NULL, which equals nothing.
OwnerSql(f, caller) == SqlCompare("eq", f.cols["uploader"], caller)

\* decision_sql
DecisionSql(p, f, caller) ==
    LET ctx == Ctx(caller, NoData)
        compiles == p.select # NoClause => CompilePolicyUsing(FileSchema, p.select, ctx)
    IN IF (Open(p) /\ ~p.publicRead) \/ ~compiles THEN F
       ELSE TriAnd((IF p.ownerScoped THEN {OwnerSql(f, caller)} ELSE {})
                   \cup (IF p.select # NoClause THEN {SqlPolicy(p.select, f.cols, ctx)} ELSE {}))

Filed == DOMAIN filePols \ {<<>>}

FaultArm(prefix, f, caller) ==
    TriAnd({PrefixRangeSql(prefix, f), DecisionSql(filePols[prefix], f, caller)})

\* The arm of a prefix: its range, less those of deeper prefixes.
Arm(prefix, f, caller) ==
    TriAnd({PrefixRangeSql(prefix, f), DecisionSql(filePols[prefix], f, caller)}
           \cup {TriNot(PrefixRangeSql(q, f)) : q \in {d \in Filed : IsStrictPrefix(prefix, d)}})

\* The last arm: what no prefix covers, by the root's policy or the uploader.
UnmatchedArm(f, caller) ==
    LET covered == TriOr({PrefixRangeSql(q, f) : q \in Filed})
        unmatched == IF Filed = {} THEN T ELSE TriOr({FromBool(f.path = NoPath), TriNot(covered)})
        decision == IF <<>> \in DOMAIN filePols THEN DecisionSql(filePols[<<>>], f, caller)
                    ELSE OwnerSql(f, caller)
    IN TriAnd({unmatched, decision})

\* build_file_list_filter
BuildFileListFilter(f, caller) ==
    TriOr({Arm(prefix, f, caller) : prefix \in Filed} \cup {UnmatchedArm(f, caller)}) = T

-----------------------------------------------------------------------------
(* The operations                                                          *)

\* A row written before validate_file_policy: it restricts nothing and does not
\* say so.
LegacyRow == FilePolicyRow(FALSE, FALSE, NoClause, NoClause, NoRoles)

FInit ==
    /\ filePols \in {[p \in D |-> LegacyRow] : D \in SUBSET PrefixNames}
    /\ urls = {} /\ now = 0 /\ seen = NoClause

Role(caller) == IF caller = Service THEN "service" ELSE IF caller = Anon THEN "anon" ELSE "user"

\* classify_file_route: the verb a route of the data plane asks for; routes that
\* ask for none are for the service key alone.
ClassifyFileRoute ==
    [upload |-> "upload", list |-> "list", get |-> "read", bytes |-> "read", delete |-> "delete",
     patch |-> "service", sign |-> "service", tusCreate |-> "upload", tusPatch |-> "upload",
     tusHead |-> "upload", tusDelete |-> "delete", tusList |-> "service"]

\* check_file_cap
CheckFileCap(caller, verb) == verb \in Verbs[Role(caller)]

\* file_caps_layer, in front of every file route.
FileCapsLayer(caller, route) == caller # Service => CheckFileCap(caller, ClassifyFileRoute[route])

\* upsert_file_policy behind put_file_policy, for the service key.
PutFilePolicy(prefix, p) ==
    /\ ValidateFilePolicy(prefix, p)
    /\ filePols' = [q \in DOMAIN filePols \cup {prefix} |-> IF q = prefix THEN p ELSE filePols[q]]
    /\ UNCHANGED <<urls, now, seen>>

\* The same through the set_file_policy tool and the files page.
SetFilePolicyTool(prefix, p) == PutFilePolicy(prefix, p)
FilePolicySave(prefix, p) == PutFilePolicy(prefix, p)
McpSetFilePolicy(prefix, p) == SetFilePolicyTool(prefix, p)

\* delete_file_policy behind clear_file_policy.
DeleteFilePolicy(prefix) ==
    /\ prefix \in DOMAIN filePols
    /\ filePols' = [q \in DOMAIN filePols \ {prefix} |-> filePols[q]]
    /\ UNCHANGED <<urls, now, seen>>

\* The same through the clear_file_policy tool and the files page.
ClearFilePolicyTool(prefix) == DeleteFilePolicy(prefix)
FilePolicyClear(prefix) == DeleteFilePolicy(prefix)
McpClearFilePolicy(prefix) == ClearFilePolicyTool(prefix)

RootPolicy(roles) == FilePolicyRow(FALSE, TRUE, NoClause, NoClause, roles)

\* seed_root_policy: INSERT OR IGNORE of the open root.
SeedRootPolicy ==
    /\ <<>> \notin DOMAIN filePols
    /\ filePols' = [q \in DOMAIN filePols \cup {<<>>} |-> IF q = <<>> THEN RootPolicy(NoRoles) ELSE filePols[q]]
    /\ UNCHANGED <<urls, now, seen>>

\* grant_root_public_upload: only where nothing was granted yet.
GrantRootPublicUpload ==
    /\ <<>> \in DOMAIN filePols
    /\ filePols[<<>>].roles = NoRoles
    /\ filePols' = [filePols EXCEPT ![<<>>].roles = {"anon", "user"}]
    /\ UNCHANGED <<urls, now, seen>>

Serve(caller, keys) == seen' = [caller |-> caller, keys |-> keys] /\ UNCHANGED <<filePols, urls, now>>

\* get_one: the row of one file.
GetOne(caller, f) ==
    /\ FileCapsLayer(caller, "get")
    /\ FileAccessAllowed(f, caller, "read")
    /\ Serve(caller, {f.key})

\* stream_bytes: the object of one file, in the bucket of its visibility.
StreamBytes(caller, f) ==
    /\ FileCapsLayer(caller, "bytes")
    /\ FileAccessAllowed(f, caller, "read")
    /\ Serve(caller, {f.key})

\* admin_tfiles_stream and admin_stream_bytes: an admin reads any file.
AdminStreamBytes(f) == Serve(Service, {f.key})

\* enforced_get_file_bytes: a function reads a file as its caller, behind the
\* read capability.
FunctionReadsFile(caller, f) ==
    /\ caller # Service => CheckFileCap(caller, "read") /\ FileAccessAllowed(f, caller, "read")
    /\ Serve(caller, {f.key})

\* list
ListFiles(caller) ==
    /\ FileCapsLayer(caller, "list")
    /\ caller # Service => LoadFilePolicies
    /\ Serve(caller, {f.key : f \in {g \in Files : caller = Service \/ BuildFileListFilter(g, caller)}})

\* The list_files tool shows all to the service key and personal tokens.
ListFilesTool == Serve(Service, {f.key : f \in Files})
McpListFiles == ListFilesTool

\* The folder a path lies in: everything through its last slash.
FolderOf(path) ==
    LET slashes == {i \in DOMAIN path : path[i] = Slash}
    IN IF slashes = {} THEN <<>> ELSE SubSeq(path, 1, CHOOSE i \in slashes : \A j \in slashes : j <= i)

\* group_into_folders: the prefix the page names for a file's folder.
GovernedBy(f) == Matching(IF f.path = NoPath THEN NoPath ELSE FolderOf(f.path))

\* sign_url: a public file has a URL of its own, a private one gets a bearer URL.
SignUrl(caller, f, exp) ==
    /\ FileCapsLayer(caller, "sign")
    /\ exp > 0
    /\ urls' = urls \cup (IF f.vis = "public" THEN {} ELSE {[key |-> f.key, exp |-> now + exp]})
    /\ UNCHANGED <<filePols, now, seen>>

\* The get_file_url tool and admin_sign_url.
GetFileUrlTool(f, exp) == SignUrl(Service, f, exp)
McpGetFileUrl(f, exp) == GetFileUrlTool(f, exp)
AdminSignUrl(f, exp) == SignUrl(Service, f, exp)

\* verify: the signature covers the key and the expiry.
Verify(url) == url \in urls /\ url.exp > now

\* tenant_signed_bytes: the signature decides, no policy is asked.
SignedBytes(url) ==
    /\ Verify(url)
    /\ \E f \in Files : f.key = url.key
    /\ Serve(Service, {url.key})

\* admin_signed_bytes
AdminSignedBytes(url) == SignedBytes(url)

\* external: time passes.
Tick == now < MaxNow /\ now' = now + 1 /\ UNCHANGED <<filePols, urls, seen>>

\* Writes of the table of policies.
PolicyWrite ==
    \/ \E prefix \in PrefixNames, p \in FilePolicyRows :
          PutFilePolicy(prefix, p) \/ McpSetFilePolicy(prefix, p) \/ FilePolicySave(prefix, p)
    \/ \E prefix \in PrefixNames : DeleteFilePolicy(prefix) \/ McpClearFilePolicy(prefix) \/ FilePolicyClear(prefix)
    \/ SeedRootPolicy \/ GrantRootPublicUpload

\* Reads, and URLs signed and used.
FileRead ==
    \/ \E caller \in FileCallers, f \in Files :
          \/ GetOne(caller, f) \/ StreamBytes(caller, f) \/ FunctionReadsFile(caller, f) \/ AdminStreamBytes(f)
          \/ \E exp \in 0..1 : SignUrl(caller, f, exp) \/ McpGetFileUrl(f, exp) \/ AdminSignUrl(f, exp)
    \/ McpListFiles \/ \E caller \in FileCallers : ListFiles(caller)
    \/ \E url \in urls : SignedBytes(url) \/ AdminSignedBytes(url)

FNext == PolicyWrite \/ FileRead \/ Tick

FSpec == FInit /\ [][FNext]_fvars

-----------------------------------------------------------------------------
(* Correctness                                                             *)

\* The list of files, decided in SQL over ranges of paths, shows a caller exactly
\* the files that a read of each would give it, whatever prefixes are registered
\* and however they nest; and the prefixes the admin page weighs for a folder are
\* those of every file in it.  A file whose policy has LIKE on a number column is
\* left out, as in PolicyAgreement.
FileListAgrees ==
    LoadFilePolicies =>
        \A f \in Files, caller \in FileCallers \ {Service} :
            /\ \/ BuildFileListFilter(f, caller) <=> FileAccessAllowed(f, caller, "read")
               \/ \E prefix \in Matching(f.path) : NumberLike(FileSchema, filePols[prefix].select)
            /\ GovernedBy(f) = Matching(f.path)
=============================================================================
