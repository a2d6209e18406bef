------------------------ MODULE AdminIdentityProofs ------------------------
(***************************************************************************)
(* Proofs about AdminIdentity and about PatRevocation, which puts the      *)
(* bearer layer and its cache in front of it, for any number of admins,    *)
(* tokens, device codes, tenants, handlers and requests in flight.         *)
(***************************************************************************)
EXTENDS PatRevocation, TLAPS

----------------------------------------------------------------------------
(* The inductive invariant.                                                *)

(* An approved code names a token row. *)
MintedOK == \A c \in Codes : code[c].st = "approved" => code[c].minted # 0

(* A live row is a row, and the admin of a row exists. *)
RowsOK == \A t \in TokIds :
             /\ tok[t].live \/ tok[t].astray => tok[t].used
             /\ tok[t].used => tok[t].admin \in Admins
             /\ tok[t].used => role[tok[t].admin] # "none"

(* A handler at its critical section has a caller. *)
ReadyOK == \A j \in Jobs : job[j].pc = "ready" => job[j].by # 0

(* A code that was not approved yet has no token. *)
Unborn ==
    \A c \in Codes : code[c].st \in {"none", "pending"} =>
        \A t \in TokIds : tok[t].chain # c

IInv ==
    /\ TypeOK /\ MintedOK /\ RowsOK /\ ReadyOK /\ AtLeastOneOwner
    /\ Unborn /\ OneTokenPerLogin

----------------------------------------------------------------------------
(* The rows and records the handlers build have the types of the tables. *)
LEMMA RowTypes ==
    /\ NoTok \in TokRows
    /\ \A a \in 0 .. MaxAdmin, s \in 0 .. MaxSecret : UiTok(a, s) \in TokRows
    /\ \A a \in 0 .. MaxAdmin, s \in 0 .. MaxSecret, c \in Codes \cup {"nocode"} :
          CliTok(a, s, c) \in TokRows
    /\ NoCode \in CodeRows
    /\ NoReach \in Reaches
    /\ Idle \in JobRows
    /\ \A a \in 0 .. MaxAdmin, t \in 0 .. MaxTok, r \in Roles \cup {"none", "ui", "cli"} :
          Called(a, t, r) \in JobRows
    /\ \A pc \in {"clear", "evict"}, w \in SUBSET Admins, r \in Reaches :
          Aftermath(pc, w, r) \in JobRows
BY IdentityAssumption DEF NoTok, TokRows, UiTok, CliTok, NoCode, CodeRows,
   NoReach, Reaches, Idle, JobRows, Called, Aftermath, Admins

(* read_pat_reach answers a reach. *)
LEMMA ReachType ==
    \A rl, ow, a : ReadPatReach(rl, ow, a) \in Reaches
BY DEF ReadPatReach, Reaches

(* The two outcomes of a handler keep the jobs well typed. *)
LEMMA JobSteps ==
    ASSUME job \in [Jobs -> JobRows], NEW j \in Jobs
    PROVE  /\ Return(j) => job' \in [Jobs -> JobRows]
           /\ \A w \in SUBSET Admins, r \in Reaches :
                 Revoked(j, w, r) => job' \in [Jobs -> JobRows]
  BY RowTypes DEF Return, Revoked

(* The fields of a row, and the rows that the UPDATE statements leave. *)
LEMMA TokEdits ==
    ASSUME NEW r \in TokRows
    PROVE  /\ r.admin \in 0 .. MaxAdmin /\ r.secret \in 0 .. MaxSecret
           /\ r.chain \in Codes \cup {"nocode"} /\ r.label \in {"ui", "cli"}
           /\ r.live \in BOOLEAN /\ r.used \in BOOLEAN
           /\ [r EXCEPT !.live = FALSE] \in TokRows
           /\ [r EXCEPT !.expired = TRUE] \in TokRows
           /\ \A a : Rotated(r, a) \in TokRows
BY DEF TokRows, Rotated

LEMMA CodeEdits ==
    ASSUME NEW r \in CodeRows
    PROVE  /\ r.minted \in 0 .. MaxTok
           /\ \A s \in {"pending", "approved", "denied", "redeemed", "swept"} :
                 [r EXCEPT !.st = s] \in CodeRows
           /\ [r EXCEPT !.expired = TRUE] \in CodeRows
           /\ \A t \in 0 .. MaxTok, s \in 0 .. MaxSecret :
                 [r EXCEPT !.st = "approved", !.minted = t, !.own = s]
                    \in CodeRows
BY DEF CodeRows

LEMMA JobFields ==
    ASSUME NEW r \in JobRows
    PROVE  /\ r.by \in 0 .. MaxAdmin /\ r.byTok \in 0 .. MaxTok
           /\ r.who \in SUBSET Admins /\ r.reach \in Reaches
           /\ r.seen \in Roles \cup {"none", "ui", "cli"}
BY DEF JobRows

----------------------------------------------------------------------------
(* The initial state satisfies the inductive invariant. *)
LEMMA InitIInv == Init => IInv
  <1> SUFFICES ASSUME Init PROVE IInv
    OBVIOUS
  <1>1. 1 \in Admins /\ 1 \in TokIds /\ 1 \in 0 .. MaxSecret
    BY IdentityAssumption DEF Admins, TokIds
  <1>2. TypeOK
    BY <1>1, RowTypes, IdentityAssumption DEF Init, TypeOK, Roles, Admins, TokIds
  <1>3. MintedOK
    BY DEF Init, MintedOK, NoCode
  <1>4. RowsOK
    BY <1>1 DEF Init, RowsOK, UiTok, NoTok
  <1>5. ReadyOK
    BY DEF Init, ReadyOK, Idle
  <1>6. AtLeastOneOwner
    BY <1>1 DEF Init, AtLeastOneOwner
  <1>7. Unborn /\ OneTokenPerLogin
    <2>1. \A t \in TokIds : tok[t].chain = "nocode"
      BY DEF Init, UiTok, NoTok
    <2> QED BY <2>1, IdentityAssumption DEF Unborn, OneTokenPerLogin
  <1> QED BY <1>2, <1>3, <1>4, <1>5, <1>6, <1>7 DEF IInv

----------------------------------------------------------------------------
(* Type correctness of every step. *)
LEMMA TypeStep == IInv /\ [Next]_idVars => TypeOK'
  <1> SUFFICES ASSUME IInv, [Next]_idVars PROVE TypeOK'
    OBVIOUS
  <1> USE DEF IInv
  <1>1. \A j \in Jobs : Refuse(j) => TypeOK'
    BY JobSteps DEF Refuse, TypeOK
  <1>2. ASSUME NEW j \in Jobs, Admit(j) PROVE TypeOK'
    <2>1. ASSUME NEW a \in Admins, AdmitAdmin(j, a) PROVE TypeOK'
      <3>1. Called(a, 0, role[a]) \in JobRows
        BY RowTypes, IdentityAssumption DEF TypeOK, Admins
      <3> QED BY <2>1, <3>1 DEF AdmitAdmin, TypeOK
    <2>2. ASSUME NEW t \in TokIds, ResolveCliCaller(j, t) PROVE TypeOK'
      <3>1. Called(tok[t].admin, t, tok[t].label) \in JobRows
        <4>1. tok[t] \in TokRows
          BY DEF TypeOK
        <4>2. tok[t].admin \in 0 .. MaxAdmin /\ t \in 0 .. MaxTok
              /\ tok[t].label \in {"ui", "cli"}
          BY <4>1, IdentityAssumption DEF TokIds, TokRows
        <4> QED BY <4>2, RowTypes
      <3> QED BY <2>2, <3>1 DEF ResolveCliCaller, TypeOK
    <2> QED BY <1>2, <2>1, <2>2 DEF Admit
  <1>3. ASSUME NEW j \in Jobs, Commit(j) PROVE TypeOK'
    <2>1. ASSUME NEW r \in Roles, InviteAdmin(j, r) PROVE TypeOK'
      <3>1. CASE Refuse(j) BY <1>1, <3>1
      <3>2. CASE ~Refuse(j)
        <4>1. PICK a \in Admins, t \in TokIds : InsertOneAdmin(a, t, r)
          BY <2>1, <3>2 DEF InviteAdmin
        <4>2. secrets + 1 \in 0 .. MaxSecret
          BY <4>1, IdentityAssumption DEF InsertOneAdmin, TypeOK
        <4>3. UiTok(a, secrets + 1) \in TokRows
          BY <4>2, RowTypes DEF Admins
        <4>4. role' \in [Admins -> Roles \cup {"none"}]
              /\ tok' \in [TokIds -> TokRows] /\ secrets' \in 0 .. MaxSecret
          BY <4>1, <4>2, <4>3 DEF InsertOneAdmin, TypeOK
        <4> QED BY <2>1, <3>2, <4>4, JobSteps DEF InviteAdmin, TypeOK
      <3> QED BY <3>1, <3>2
    <2>2. ASSUME NEW a \in Admins, NEW r \in Roles, ChangeRole(j, a, r)
          PROVE  TypeOK'
      <3>1. [wide |-> SeesAllTenants(role[a]) /\ ~SeesAllTenants(r),
             ids |-> {}] \in Reaches
        BY DEF Reaches, SeesAllTenants
      <3> QED BY <1>1, <2>2, <3>1, JobSteps DEF ChangeRole, TypeOK
    <2>3. ASSUME NEW a \in Admins, RemoveAdmin(j, a) PROVE TypeOK'
      BY <1>1, <2>3, RowTypes, ReachType, JobSteps, IdentityAssumption
      DEF RemoveAdmin, TypeOK
    <2>4. CASE Reroll(j)
      <3>1. CASE Refuse(j) BY <1>1, <3>1
      <3>2. CASE ~Refuse(j)
        <4> DEFINE a == job[j].by
        <4>1. a \in Admins
          BY <2>4 DEF Reroll, AdminReady, ReadyOK, TypeOK, JobRows, Admins
        <4>2. PICK t \in TokIds :
                 tok' = [[u \in TokIds |->
                            IF tok[u].admin = a /\ tok[u].label = "ui"
                            THEN [tok[u] EXCEPT !.live = FALSE]
                            ELSE tok[u]]
                         EXCEPT ![t] = UiTok(a, secrets + 1)]
          BY <2>4, <3>2 DEF Reroll
        <4>3. secrets + 1 \in 0 .. MaxSecret
          BY <2>4, <3>2, IdentityAssumption DEF Reroll, TypeOK
        <4>4. UiTok(a, secrets + 1) \in TokRows
          BY <4>1, <4>3, RowTypes DEF Admins
        <4>5. \A u \in TokIds : [tok[u] EXCEPT !.live = FALSE] \in TokRows
          BY DEF TypeOK, TokRows
        <4>6. tok' \in [TokIds -> TokRows]
          BY <4>2, <4>4, <4>5 DEF TypeOK
        <4>7. {a} \in SUBSET Admins
          BY <4>1
        <4>8. job' \in [Jobs -> JobRows]
          BY <2>4, <3>2, <4>7, JobSteps, ReachType DEF Reroll, TypeOK
        <4> QED BY <2>4, <3>2, <4>3, <4>6, <4>8 DEF Reroll, TypeOK
      <3> QED BY <3>1, <3>2
    <2>5. CASE CliTokenRefresh(j)
      <3>1. CASE Refuse(j) BY <1>1, <3>1
      <3>2. CASE ~Refuse(j)
        <4> DEFINE a == job[j].by
                   o == job[j].byTok
        <4>1. a \in Admins /\ o \in TokIds
          BY <2>5 DEF CliTokenRefresh, CliReady, ReadyOK, TypeOK, JobRows,
             Admins, TokIds
        <4>2. PICK t \in TokIds :
                 tok' = [tok EXCEPT
                           ![o] = Rotated(tok[o], a),
                           ![t] = CliTok(a, secrets + 1, tok[o].chain)]
          BY <2>5, <3>2 DEF CliTokenRefresh
        <4>3. secrets + 1 \in 0 .. MaxSecret
          BY <2>5, <3>2, IdentityAssumption DEF CliTokenRefresh, TypeOK
        <4>4. CliTok(a, secrets + 1, tok[o].chain) \in TokRows
          <5>1. tok[o] \in TokRows
            BY <4>1 DEF TypeOK
          <5>2. tok[o].chain \in Codes \cup {"nocode"} /\ a \in 0 .. MaxAdmin
            BY <4>1, <5>1 DEF Admins, TokRows
          <5> QED BY <4>3, <5>2, RowTypes
        <4>5. tok' \in [TokIds -> TokRows]
          BY <4>1, <4>2, <4>4, TokEdits DEF TypeOK
        <4>6. {a} \in SUBSET Admins
          BY <4>1
        <4>7. job' \in [Jobs -> JobRows]
          BY <2>5, <3>2, <4>6, JobSteps, ReachType DEF CliTokenRefresh, TypeOK
        <4> QED BY <2>5, <3>2, <4>3, <4>5, <4>7 DEF CliTokenRefresh, TypeOK
      <3> QED BY <3>1, <3>2
    <2>6. ASSUME NEW t \in TokIds, RevokeCli(j, t), job[j].by # 0
          PROVE  TypeOK'
      <3>1. job[j].by \in Admins
        BY <2>6 DEF TypeOK, JobRows, Admins
      <3>2. CASE Refuse(j) BY <1>1, <3>2
      <3>3. CASE ~Refuse(j)
        <4>1. tok' \in [TokIds -> TokRows]
          BY <2>6, <3>3, TokEdits DEF RevokeCli, TypeOK
        <4> QED BY <2>6, <3>1, <3>3, <4>1, JobSteps, ReachType
                DEF RevokeCli, TypeOK
      <3> QED BY <3>2, <3>3
    <2>7. CASE CliTokenLogout(j)
      BY <2>6, <2>7 DEF CliTokenLogout, CliReady, ReadyOK, TypeOK, JobRows,
         TokIds
    <2>8. ASSUME NEW t \in TokIds, CliTokenRevoke(j, t) PROVE TypeOK'
      BY <2>6, <2>8 DEF CliTokenRevoke, AdminReady, ReadyOK
    <2>9. ASSUME NEW t \in Tenants, NEW a \in 0 .. MaxAdmin,
                 PatchTenantOwner(j, t, a)
          PROVE  TypeOK'
      <3>1. {owner[t], a} \ {0} \in SUBSET Admins
        BY DEF TypeOK, Admins
      <3>2. [wide |-> FALSE, ids |-> IF owner[t] # a THEN {t} ELSE {}]
               \in Reaches
        BY DEF Reaches
      <3> QED BY <1>1, <2>9, <3>1, <3>2, JobSteps DEF PatchTenantOwner, TypeOK
    <2>10. ASSUME NEW c \in Codes, DeviceDeny(j, c) PROVE TypeOK'
      BY <2>10, JobSteps DEF DeviceDeny, TypeOK, CodeRows
    <2>11. ASSUME NEW c \in Codes, DeviceApprove(j, c) PROVE TypeOK'
      <3>1. CASE Refuse(j) BY <1>1, <3>1
      <3>2. CASE ~Refuse(j)
        <4> DEFINE a == job[j].by
        <4>1. a \in 0 .. MaxAdmin
          BY JobFields DEF TypeOK
        <4>2. PICK t \in TokIds :
                 /\ secrets < MaxSecret
                 /\ tok' = [tok EXCEPT ![t] = CliTok(a, secrets + 1, c)]
                 /\ code' = [code EXCEPT ![c].st = "approved",
                                         ![c].minted = t,
                                         ![c].own = secrets + 1]
          BY <2>11, <3>2 DEF DeviceApprove
        <4>3. secrets + 1 \in 0 .. MaxSecret
          BY <4>2, IdentityAssumption DEF TypeOK
        <4>4. CliTok(a, secrets + 1, c) \in TokRows
          BY <4>1, <4>3, RowTypes
        <4>5. code' \in [Codes -> CodeRows]
          <5>1. code[c] \in CodeRows /\ t \in 0 .. MaxTok
            BY IdentityAssumption DEF TypeOK, TokIds
          <5>2. [code[c] EXCEPT !.st = "approved", !.minted = t,
                                !.own = secrets + 1] \in CodeRows
            BY <4>3, <5>1, CodeEdits
          <5>3. code' = [code EXCEPT ![c] =
                           [code[c] EXCEPT !.st = "approved", !.minted = t,
                                           !.own = secrets + 1]]
            BY <4>2, <5>1 DEF TypeOK, CodeRows
          <5> QED BY <5>2, <5>3 DEF TypeOK
        <4>6. tok' \in [TokIds -> TokRows]
          BY <4>2, <4>4 DEF TypeOK
        <4> QED BY <2>11, <3>2, <4>3, <4>5, <4>6, JobSteps
                DEF DeviceApprove, TypeOK
      <3> QED BY <3>1, <3>2
    <2> QED BY <1>3, <2>1, <2>2, <2>3, <2>4, <2>5, <2>7, <2>8, <2>9, <2>10,
               <2>11 DEF Commit
  <1>4. ASSUME NEW j \in Jobs, ClearAdminPat(j) \/ EvictReach(j)
        PROVE  TypeOK'
    BY <1>4, JobSteps, JobFields, RowTypes DEF ClearAdminPat, EvictReach, TypeOK
  <1>5. ASSUME NEW c \in Codes, DeviceStep(c) PROVE TypeOK'
    <2>1. CASE DeviceStart(c)
      BY <2>1, CodeEdits DEF DeviceStart, TypeOK
    <2>2. CASE DevicePoll(c)
      <3>1. code[c].minted \in TokIds
        <4>1. code[c] \in CodeRows
          BY DEF TypeOK
        <4>2. code[c].minted \in 0 .. MaxTok /\ code[c].minted # 0
          BY <2>2, <4>1, CodeEdits DEF DevicePoll, MintedOK
        <4> QED BY <4>2 DEF TokIds
      <3>2. tok[code[c].minted].secret \in 0 .. MaxSecret
        BY <3>1, TokEdits DEF TypeOK
      <3>3. code' \in [Codes -> CodeRows]
        BY <2>2, CodeEdits DEF DevicePoll, TypeOK
      <3> QED BY <2>2, <3>2, <3>3 DEF DevicePoll, TypeOK
    <2>3. CASE CodeExpires(c)
      BY <2>3, CodeEdits DEF CodeExpires, TypeOK
    <2> QED BY <1>5, <2>1, <2>2, <2>3 DEF DeviceStep
  <1>6. CASE SweepExpiredDeviceCodes
    BY <1>6 DEF SweepExpiredDeviceCodes, TypeOK, CodeRows
  <1>7. ASSUME NEW t \in TokIds, TokenExpires(t) PROVE TypeOK'
    BY <1>7 DEF TokenExpires, TypeOK, TokRows
  <1>8. CASE UNCHANGED idVars
    BY <1>8 DEF idVars, TypeOK
  <1> QED BY <1>2, <1>3, <1>4, <1>5, <1>6, <1>7, <1>8 DEF Next

----------------------------------------------------------------------------
(* The last owner.  Only three handlers write the role column: an          *)
(* invitation fills an id that had no row, and the other two look for      *)
(* another owner in the transaction that takes this one away.              *)
LEMMA OwnerStep == IInv /\ [Next]_idVars => AtLeastOneOwner'
  <1> SUFFICES ASSUME IInv, [Next]_idVars PROVE AtLeastOneOwner'
    OBVIOUS
  <1> USE DEF IInv
  <1>1. CASE UNCHANGED role
    BY <1>1 DEF AtLeastOneOwner
  <1>2. ASSUME NEW j \in Jobs, NEW r \in Roles, InviteAdmin(j, r)
        PROVE  AtLeastOneOwner'
    <2>1. CASE Refuse(j) BY <1>1, <2>1 DEF Refuse
    <2>2. CASE ~Refuse(j)
      <3>1. PICK a \in Admins, t \in TokIds : InsertOneAdmin(a, t, r)
        BY <1>2, <2>2 DEF InviteAdmin
      <3>2. PICK b \in Admins : role[b] = "owner"
        BY DEF AtLeastOneOwner
      <3>3. b # a
        BY <3>1, <3>2 DEF InsertOneAdmin, IsNextAdmin, Admins
      <3>4. role'[b] = "owner"
        BY <3>1, <3>2, <3>3 DEF InsertOneAdmin, TypeOK
      <3> QED BY <3>4 DEF AtLeastOneOwner
    <2> QED BY <2>1, <2>2
  <1>3. ASSUME NEW j \in Jobs, NEW a \in Admins, NEW r \in Roles,
               ChangeRole(j, a, r)
        PROVE  AtLeastOneOwner'
    <2>1. CASE Refuse(j) BY <1>1, <2>1 DEF Refuse
    <2>2. CASE ~Refuse(j)
      <3>1. PICK b \in Admins : role[b] = "owner"
        BY DEF AtLeastOneOwner
      <3>2. CASE role[a] = "owner" /\ r # "owner"
        BY <1>3, <2>2, <3>2
        DEF ChangeRole, RoleChangeAllowed, OtherOwner, AtLeastOneOwner, TypeOK
      <3>3. CASE ~(role[a] = "owner" /\ r # "owner")
        BY <1>3, <2>2, <3>1, <3>3 DEF ChangeRole, AtLeastOneOwner, TypeOK
      <3> QED BY <3>2, <3>3
    <2> QED BY <2>1, <2>2
  <1>4. ASSUME NEW j \in Jobs, NEW a \in Admins, RemoveAdmin(j, a)
        PROVE  AtLeastOneOwner'
    <2>1. CASE Refuse(j) BY <1>1, <2>1 DEF Refuse
    <2>2. CASE ~Refuse(j)
      <3>1. PICK b \in Admins : role[b] = "owner"
        BY DEF AtLeastOneOwner
      <3>2. CASE role[a] = "owner"
        BY <1>4, <2>2, <3>2
        DEF RemoveAdmin, RemoveAllowed, OtherOwner, AtLeastOneOwner, TypeOK
      <3>3. CASE role[a] # "owner"
        BY <1>4, <2>2, <3>1, <3>3 DEF RemoveAdmin, AtLeastOneOwner, TypeOK
      <3> QED BY <3>2, <3>3
    <2> QED BY <2>1, <2>2
  <1>5. ASSUME NEW j \in Jobs, Commit(j) PROVE AtLeastOneOwner'
    <2>1. CASE Reroll(j) \/ CliTokenRefresh(j)
      BY <1>1, <2>1 DEF Reroll, CliTokenRefresh, Refuse
    <2>2. CASE CliTokenLogout(j) \/ \E t \in TokIds : CliTokenRevoke(j, t)
      BY <1>1, <2>2 DEF CliTokenLogout, CliTokenRevoke, RevokeCli, Refuse
    <2>3. CASE \E t \in Tenants, a \in 0 .. MaxAdmin : PatchTenantOwner(j, t, a)
      BY <1>1, <2>3 DEF PatchTenantOwner, Refuse
    <2>4. CASE \E c \in Codes : DeviceDeny(j, c) \/ DeviceApprove(j, c)
      BY <1>1, <2>4 DEF DeviceDeny, DeviceApprove, Refuse
    <2> QED BY <1>2, <1>3, <1>4, <1>5, <2>1, <2>2, <2>3, <2>4 DEF Commit
  <1>6. ASSUME NEW j \in Jobs, Admit(j) \/ ClearAdminPat(j) \/ EvictReach(j)
        PROVE  AtLeastOneOwner'
    BY <1>1, <1>6 DEF Admit, AdmitAdmin, ResolveCliCaller, ClearAdminPat,
       EvictReach
  <1>7. CASE \/ \E c \in Codes : DeviceStep(c)
             \/ SweepExpiredDeviceCodes
             \/ \E t \in TokIds : TokenExpires(t)
    BY <1>1, <1>7 DEF DeviceStep, DeviceStart, DevicePoll, CodeExpires,
       SweepExpiredDeviceCodes, TokenExpires
  <1>8. CASE UNCHANGED idVars
    BY <1>1, <1>8 DEF idVars
  <1> QED BY <1>5, <1>6, <1>7, <1>8 DEF Next

(* A handler only becomes ready with the caller that admitted it. *)
LEMMA ReadyStep == IInv /\ [Next]_idVars => ReadyOK'
  <1> SUFFICES ASSUME IInv, [Next]_idVars PROVE ReadyOK'
    OBVIOUS
  <1> USE DEF IInv
  <1>1. CASE UNCHANGED job
    BY <1>1 DEF ReadyOK
  <1>2. \A j \in Jobs : Return(j) => ReadyOK'
    BY DEF Return, ReadyOK, Idle, TypeOK
  <1>3. \A j \in Jobs : \A w, r : Revoked(j, w, r) => ReadyOK'
    BY DEF Revoked, Aftermath, ReadyOK, TypeOK
  <1>4. ASSUME NEW j \in Jobs, NEW a \in Admins, AdmitAdmin(j, a)
        PROVE  ReadyOK'
    BY <1>4 DEF AdmitAdmin, Called, ReadyOK, TypeOK, Admins
  <1>5. ASSUME NEW j \in Jobs, NEW t \in TokIds, ResolveCliCaller(j, t)
        PROVE  ReadyOK'
    <2>1. tok[t].admin # 0
      BY <1>5 DEF ResolveCliCaller, RowsOK, Admins
    <2> QED BY <1>5, <2>1 DEF ResolveCliCaller, Called, ReadyOK, TypeOK
  <1>6. ASSUME NEW j \in Jobs, Commit(j) PROVE ReadyOK'
    <2>1. CASE \E r \in Roles : InviteAdmin(j, r)
      BY <1>2, <2>1 DEF InviteAdmin, Refuse
    <2>2. CASE \E a \in Admins, r \in Roles : ChangeRole(j, a, r)
      BY <1>2, <1>3, <2>2 DEF ChangeRole, Refuse
    <2>3. CASE \E a \in Admins : RemoveAdmin(j, a)
      BY <1>2, <1>3, <2>3 DEF RemoveAdmin, Refuse
    <2>4. CASE Reroll(j) \/ CliTokenRefresh(j)
      BY <1>2, <1>3, <2>4 DEF Reroll, CliTokenRefresh, Refuse
    <2>5. CASE CliTokenLogout(j) \/ \E t \in TokIds : CliTokenRevoke(j, t)
      BY <1>2, <1>3, <2>5 DEF CliTokenLogout, CliTokenRevoke, RevokeCli, Refuse
    <2>6. CASE \E t \in Tenants, a \in 0 .. MaxAdmin : PatchTenantOwner(j, t, a)
      BY <1>2, <1>3, <2>6 DEF PatchTenantOwner, Refuse
    <2>7. CASE \E c \in Codes : DeviceDeny(j, c) \/ DeviceApprove(j, c)
      BY <1>2, <2>7 DEF DeviceDeny, DeviceApprove, Refuse
    <2> QED BY <1>6, <2>1, <2>2, <2>3, <2>4, <2>5, <2>6, <2>7 DEF Commit
  <1>7. ASSUME NEW j \in Jobs, ClearAdminPat(j) \/ EvictReach(j)
        PROVE  ReadyOK'
    BY <1>2, <1>7 DEF ClearAdminPat, EvictReach, Aftermath, ReadyOK, TypeOK
  <1>8. CASE \/ \E c \in Codes : DeviceStep(c)
             \/ SweepExpiredDeviceCodes
             \/ \E t \in TokIds : TokenExpires(t)
    BY <1>1, <1>8 DEF DeviceStep, DeviceStart, DevicePoll, CodeExpires,
       SweepExpiredDeviceCodes, TokenExpires
  <1>9. CASE UNCHANGED idVars
    BY <1>1, <1>9 DEF idVars
  <1> QED BY <1>4, <1>5, <1>6, <1>7, <1>8, <1>9 DEF Next, Admit

(* Only an approval makes a code approved, and it records the new row. *)
LEMMA MintedStep == IInv /\ [Next]_idVars => MintedOK'
  <1> SUFFICES ASSUME IInv, [Next]_idVars PROVE MintedOK'
    OBVIOUS
  <1> USE DEF IInv
  <1>1. CASE UNCHANGED code
    BY <1>1 DEF MintedOK
  <1>2. ASSUME NEW j \in Jobs, NEW c \in Codes, DeviceApprove(j, c)
        PROVE  MintedOK'
    <2>1. CASE Refuse(j) BY <1>1, <2>1 DEF Refuse
    <2>2. CASE ~Refuse(j)
      <3>1. PICK t \in TokIds :
               code' = [code EXCEPT ![c].st = "approved", ![c].minted = t,
                                    ![c].own = secrets + 1]
        BY <1>2, <2>2 DEF DeviceApprove
      <3>2. t # 0
        BY DEF TokIds
      <3> QED BY <3>1, <3>2 DEF MintedOK, TypeOK, CodeRows
    <2> QED BY <2>1, <2>2
  <1>3. ASSUME NEW j \in Jobs, NEW c \in Codes, DeviceDeny(j, c)
        PROVE  MintedOK'
    BY <1>3 DEF DeviceDeny, MintedOK, TypeOK, CodeRows
  <1>4. ASSUME NEW j \in Jobs, Commit(j) PROVE MintedOK'
    <2>1. CASE \E r \in Roles : InviteAdmin(j, r)
      BY <1>1, <2>1 DEF InviteAdmin, Refuse
    <2>2. CASE \E a \in Admins, r \in Roles : ChangeRole(j, a, r)
      BY <1>1, <2>2 DEF ChangeRole, Refuse
    <2>3. CASE \E a \in Admins : RemoveAdmin(j, a)
      BY <1>1, <2>3 DEF RemoveAdmin, Refuse
    <2>4. CASE Reroll(j) \/ CliTokenRefresh(j)
      BY <1>1, <2>4 DEF Reroll, CliTokenRefresh, Refuse
    <2>5. CASE CliTokenLogout(j) \/ \E t \in TokIds : CliTokenRevoke(j, t)
      BY <1>1, <2>5 DEF CliTokenLogout, CliTokenRevoke, RevokeCli, Refuse
    <2>6. CASE \E t \in Tenants, a \in 0 .. MaxAdmin : PatchTenantOwner(j, t, a)
      BY <1>1, <2>6 DEF PatchTenantOwner, Refuse
    <2> QED BY <1>2, <1>3, <1>4, <2>1, <2>2, <2>3, <2>4, <2>5, <2>6 DEF Commit
  <1>5. ASSUME NEW j \in Jobs, Admit(j) \/ ClearAdminPat(j) \/ EvictReach(j)
        PROVE  MintedOK'
    BY <1>1, <1>5 DEF Admit, AdmitAdmin, ResolveCliCaller, ClearAdminPat,
       EvictReach
  <1>6. ASSUME NEW c \in Codes, DeviceStep(c) PROVE MintedOK'
    BY <1>6 DEF DeviceStep, DeviceStart, DevicePoll, CodeExpires, MintedOK,
       TypeOK, CodeRows
  <1>7. CASE SweepExpiredDeviceCodes
    BY <1>7 DEF SweepExpiredDeviceCodes, MintedOK, TypeOK, CodeRows
  <1>8. CASE UNCHANGED idVars \/ \E t \in TokIds : TokenExpires(t)
    BY <1>1, <1>8 DEF idVars, TokenExpires
  <1> QED BY <1>4, <1>5, <1>6, <1>7, <1>8 DEF Next

(* The foreign keys: a removal drops the rows of the admin it removes, and *)
(* every insert names an admin that exists.                                *)
LEMMA RowsStep == IInv /\ [Next]_idVars => RowsOK'
  <1> SUFFICES ASSUME IInv, [Next]_idVars PROVE RowsOK'
    OBVIOUS
  <1> USE DEF IInv
  <1>1. CASE UNCHANGED <<role, tok>>
    BY <1>1 DEF RowsOK
  <1>2. \A j \in Jobs : Refuse(j) => RowsOK'
    BY <1>1 DEF Refuse
  <1>3. ASSUME NEW j \in Jobs, NEW r \in Roles, InviteAdmin(j, r)
        PROVE  RowsOK'
    <2>1. CASE ~Refuse(j)
      <3>1. PICK a \in Admins, t \in TokIds : InsertOneAdmin(a, t, r)
        BY <1>3, <2>1 DEF InviteAdmin
      <3>2. r # "none"
        BY DEF Roles
      <3>3. tok'[t] = UiTok(a, secrets + 1) /\ role'[a] = r
        BY <3>1 DEF InsertOneAdmin, TypeOK
      <3>4. \A u \in TokIds \ {t} : tok'[u] = tok[u]
        BY <3>1 DEF InsertOneAdmin, TypeOK
      <3>5. \A b \in Admins : role[b] # "none" => role'[b] # "none"
        BY <3>1, <3>2 DEF InsertOneAdmin, TypeOK
      <3> QED BY <3>2, <3>3, <3>4, <3>5 DEF RowsOK, UiTok
    <2> QED BY <1>2, <2>1
  <1>4. ASSUME NEW j \in Jobs, NEW a \in Admins, NEW r \in Roles,
               ChangeRole(j, a, r)
        PROVE  RowsOK'
    <2>1. CASE ~Refuse(j)
      <3>1. \A b \in Admins : role[b] # "none" => role'[b] # "none"
        BY <1>4, <2>1 DEF ChangeRole, TypeOK, Roles
      <3> QED BY <1>4, <2>1, <3>1 DEF ChangeRole, RowsOK
    <2> QED BY <1>2, <2>1
  <1>5. ASSUME NEW j \in Jobs, NEW a \in Admins, RemoveAdmin(j, a)
        PROVE  RowsOK'
    <2>1. CASE ~Refuse(j)
      <3>1. \A t \in TokIds : tok'[t] = IF tok[t].admin = a THEN NoTok ELSE tok[t]
        BY <1>5, <2>1 DEF RemoveAdmin
      <3>2. \A b \in Admins : b # a => role'[b] = role[b]
        BY <1>5, <2>1 DEF RemoveAdmin, TypeOK
      <3> QED BY <3>1, <3>2 DEF RowsOK, NoTok
    <2> QED BY <1>2, <2>1
  <1>6. ASSUME NEW j \in Jobs, Reroll(j) PROVE RowsOK'
    <2>1. CASE ~Refuse(j)
      <3> DEFINE a == job[j].by
      <3>1. PICK t \in TokIds :
               tok' = [[u \in TokIds |->
                          IF tok[u].admin = a /\ tok[u].label = "ui"
                          THEN [tok[u] EXCEPT !.live = FALSE]
                          ELSE tok[u]]
                       EXCEPT ![t] = UiTok(a, secrets + 1)]
        BY <1>6, <2>1 DEF Reroll
      <3>2. a \in Admins /\ role[a] # "none" /\ role' = role
        BY <1>6, <2>1, JobFields DEF Reroll, AdminReady, ReadyOK, TypeOK, Admins
      <3>3. tok'[t] = UiTok(a, secrets + 1)
        BY <3>1
      <3>4. \A u \in TokIds \ {t} :
               tok'[u] = IF tok[u].admin = a /\ tok[u].label = "ui"
                         THEN [tok[u] EXCEPT !.live = FALSE]
                         ELSE tok[u]
        BY <3>1
      <3>5. \A u \in TokIds \ {t} :
               /\ tok'[u].live \/ tok'[u].astray => tok[u].live \/ tok[u].astray
               /\ tok'[u].used = tok[u].used
               /\ tok'[u].admin = tok[u].admin
        BY <3>4 DEF TypeOK, TokRows
      <3> QED BY <3>2, <3>3, <3>5 DEF RowsOK, UiTok
    <2> QED BY <1>2, <2>1
  <1>7. ASSUME NEW j \in Jobs, CliTokenRefresh(j) PROVE RowsOK'
    <2>1. CASE ~Refuse(j)
      <3> DEFINE a == job[j].by
                 o == job[j].byTok
      <3>1. PICK t \in TokIds :
               tok' = [tok EXCEPT
                         ![o] = Rotated(tok[o], a),
                         ![t] = CliTok(a, secrets + 1, tok[o].chain)]
        BY <1>7, <2>1 DEF CliTokenRefresh
      <3>2. a \in Admins /\ role[a] # "none" /\ role' = role
        BY <1>7, <2>1, JobFields
        DEF CliTokenRefresh, CliReady, ReadyOK, TypeOK, Admins
      <3>3. tok'[t] = CliTok(a, secrets + 1, tok[o].chain)
        BY <3>1 DEF TypeOK
      <3>4. \A u \in TokIds \ {t} :
               /\ tok'[u].live \/ tok'[u].astray => tok[u].used
               /\ tok'[u].used = tok[u].used
               /\ tok'[u].admin = tok[u].admin
        <4>1. o \in TokIds /\ tok[o].used
          BY <1>7, <2>1, JobFields
          DEF CliTokenRefresh, RefreshRevokes, CliReady, TypeOK, TokIds
        <4>2. \A u \in TokIds \ {t} : tok'[u] = IF u = o THEN Rotated(tok[o], a) ELSE tok[u]
          BY <3>1, <4>1 DEF TypeOK
        <4>3. Rotated(tok[o], a).used = tok[o].used /\ Rotated(tok[o], a).admin = tok[o].admin
          BY <4>1 DEF Rotated, TypeOK, TokRows
        <4> QED BY <4>1, <4>2, <4>3 DEF RowsOK
      <3> QED BY <3>2, <3>3, <3>4 DEF RowsOK, CliTok
    <2> QED BY <1>2, <2>1
  <1>8. ASSUME NEW j \in Jobs, NEW t \in TokIds, RevokeCli(j, t)
        PROVE  RowsOK'
    <2>1. CASE ~Refuse(j)
      BY <1>8, <2>1 DEF RevokeCli, RowsOK, TypeOK, TokRows
    <2> QED BY <1>2, <2>1
  <1>9. ASSUME NEW j \in Jobs, NEW c \in Codes, DeviceApprove(j, c)
        PROVE  RowsOK'
    <2>1. CASE ~Refuse(j)
      <3> DEFINE a == job[j].by
      <3>1. PICK t \in TokIds : tok' = [tok EXCEPT ![t] = CliTok(a, secrets + 1, c)]
        BY <1>9, <2>1 DEF DeviceApprove
      <3>2. a \in Admins /\ role[a] # "none" /\ role' = role
        <4>1. /\ job[j].pc = "ready" /\ role[a] # "none" /\ role' = role
          BY <1>9, <2>1 DEF DeviceApprove, AdminReady
        <4>2. a \in 0 .. MaxAdmin /\ a # 0
          BY <4>1, JobFields DEF ReadyOK, TypeOK
        <4> QED BY <4>1, <4>2 DEF Admins
      <3>3. tok'[t] = CliTok(a, secrets + 1, c)
            /\ \A u \in TokIds \ {t} : tok'[u] = tok[u]
        BY <3>1 DEF TypeOK
      <3> QED BY <3>2, <3>3 DEF RowsOK, CliTok
    <2> QED BY <1>2, <2>1
  <1>10. ASSUME NEW j \in Jobs, Commit(j) PROVE RowsOK'
    <2>1. CASE CliTokenLogout(j)
      <3>1. job[j].byTok \in TokIds
        BY <2>1, JobFields DEF CliTokenLogout, CliReady, TypeOK, TokIds
      <3> QED BY <1>8, <2>1, <3>1 DEF CliTokenLogout
    <2>2. CASE \E t \in TokIds : CliTokenRevoke(j, t)
      BY <1>8, <2>2 DEF CliTokenRevoke
    <2>3. CASE \E t \in Tenants, a \in 0 .. MaxAdmin : PatchTenantOwner(j, t, a)
      BY <1>1, <2>3 DEF PatchTenantOwner, Refuse
    <2>4. CASE \E c \in Codes : DeviceDeny(j, c)
      BY <1>1, <2>4 DEF DeviceDeny
    <2> QED BY <1>3, <1>4, <1>5, <1>6, <1>7, <1>9, <1>10, <2>1, <2>2, <2>3,
               <2>4 DEF Commit
  <1>11. ASSUME NEW j \in Jobs, Admit(j) \/ ClearAdminPat(j) \/ EvictReach(j)
         PROVE  RowsOK'
    BY <1>1, <1>11 DEF Admit, AdmitAdmin, ResolveCliCaller, ClearAdminPat,
       EvictReach
  <1>12. CASE (\E c \in Codes : DeviceStep(c)) \/ SweepExpiredDeviceCodes
    BY <1>1, <1>12 DEF DeviceStep, DeviceStart, DevicePoll, CodeExpires,
       SweepExpiredDeviceCodes
  <1>13. ASSUME NEW t \in TokIds, TokenExpires(t) PROVE RowsOK'
    BY <1>13 DEF TokenExpires, RowsOK, TypeOK, TokRows
  <1>14. CASE UNCHANGED idVars
    BY <1>1, <1>14 DEF idVars
  <1> QED BY <1>10, <1>11, <1>12, <1>13, <1>14 DEF Next

----------------------------------------------------------------------------
(* The tokens of a login.                                                  *)

(* Tokens that only lose their chain or their life change no login. *)
LEMMA QuietLogin ==
    ASSUME IInv,
           \A u \in TokIds :
              \/ tok'[u].chain = "nocode"
              \/ tok'[u].chain = tok[u].chain /\ (tok'[u].live => tok[u].live),
           \A c \in Codes : code'[c].st \in {"none", "pending"} =>
                             code[c].st \in {"none", "pending"}
    PROVE  (Unborn /\ OneTokenPerLogin)'
  <1>1. Unborn'
    BY IdentityAssumption DEF IInv, Unborn
  <1>2. OneTokenPerLogin'
    BY DEF IInv, OneTokenPerLogin
  <1> QED BY <1>1, <1>2

(* What the UPDATE statements leave of a row. *)
LEMMA RowKeeps ==
    ASSUME NEW r \in TokRows
    PROVE  /\ LET x == [r EXCEPT !.live = FALSE]
              IN  /\ x.chain = r.chain /\ ~ x.live /\ x.astray = r.astray
                  /\ x.admin = r.admin /\ x.secret = r.secret /\ x.used = r.used
           /\ LET x == [r EXCEPT !.expired = TRUE]
              IN  /\ x.chain = r.chain /\ x.live = r.live /\ x.astray = r.astray
                  /\ x.admin = r.admin /\ x.secret = r.secret /\ x.used = r.used
           /\ \A a : LET x == Rotated(r, a)
                     IN  /\ x.chain = r.chain /\ ~ x.live /\ (r.admin # a => x.astray)
                         /\ x.admin = r.admin /\ x.secret = r.secret /\ x.used = r.used
  BY DEF TokRows, Rotated

LEMMA NewRows ==
    /\ NoTok.chain = "nocode" /\ ~ NoTok.live
    /\ \A a, x : UiTok(a, x).chain = "nocode"
    /\ \A a, x, c : CliTok(a, x, c).chain = c
  BY DEF NoTok, UiTok, CliTok

(* The id of a new row is one that no row has. *)
LEMMA NextTokFresh ==
    ASSUME NEW t \in TokIds, IsNextTok(t), TypeOK
    PROVE  ~ tok[t].used
  BY DEF IsNextTok, TypeOK, TokIds

LEMMA LoginStep == IInv /\ [Next]_idVars => (Unborn /\ OneTokenPerLogin)'
  <1> SUFFICES ASSUME IInv, [Next]_idVars PROVE (Unborn /\ OneTokenPerLogin)'
    OBVIOUS
  <1> DEFINE G == (Unborn /\ OneTokenPerLogin)'
  <1>0. /\ TypeOK /\ RowsOK /\ tok \in [TokIds -> TokRows] /\ code \in [Codes -> CodeRows]
        /\ \A u \in TokIds : tok[u] \in TokRows
    BY DEF IInv, TypeOK
  <1>1. ASSUME UNCHANGED <<tok, code>> PROVE G
    BY <1>1, QuietLogin
  <1>2. ASSUME NEW j \in Jobs, Refuse(j) PROVE G
    BY <1>1, <1>2 DEF Refuse
  <1>3. ASSUME NEW j \in Jobs, NEW r \in Roles, InviteAdmin(j, r) PROVE G
    <2>1. CASE Refuse(j)
      BY <1>2, <2>1
    <2>2. CASE ~ Refuse(j)
      <3>1. PICK t \in TokIds : \E a \in Admins : tok' = [tok EXCEPT ![t] = UiTok(a, secrets + 1)]
        BY <1>3, <2>2 DEF InviteAdmin, InsertOneAdmin
      <3>2. UNCHANGED code
        BY <1>3, <2>2 DEF InviteAdmin
      <3> QED BY <1>0, <3>1, <3>2, NewRows, QuietLogin
    <2> QED BY <2>1, <2>2
  <1>4. ASSUME NEW j \in Jobs, NEW a \in Admins, RemoveAdmin(j, a) PROVE G
    <2>1. CASE Refuse(j)
      BY <1>2, <2>1
    <2>2. CASE ~ Refuse(j)
      <3>1. \A t \in TokIds : tok'[t] = IF tok[t].admin = a THEN NoTok ELSE tok[t]
        BY <1>4, <2>2 DEF RemoveAdmin
      <3>2. UNCHANGED code
        BY <1>4, <2>2 DEF RemoveAdmin
      <3> QED BY <3>1, <3>2, NewRows, QuietLogin
    <2> QED BY <2>1, <2>2
  <1>5. ASSUME NEW j \in Jobs, Reroll(j) PROVE G
    <2>1. CASE Refuse(j)
      BY <1>2, <2>1
    <2>2. CASE ~ Refuse(j)
      <3>1. PICK t \in TokIds :
               tok' = [[u \in TokIds |->
                          IF tok[u].admin = job[j].by /\ tok[u].label = "ui"
                          THEN [tok[u] EXCEPT !.live = FALSE]
                          ELSE tok[u]]
                       EXCEPT ![t] = UiTok(job[j].by, secrets + 1)]
        BY <1>5, <2>2 DEF Reroll
      <3>2. tok'[t] = UiTok(job[j].by, secrets + 1)
            /\ \A u \in TokIds \ {t} : tok'[u] \in {tok[u], [tok[u] EXCEPT !.live = FALSE]}
        BY <3>1
      <3>3. UNCHANGED code
        BY <1>5, <2>2 DEF Reroll
      <3>4. tok'[t].chain = "nocode"
        BY <3>2, NewRows
      <3>5. \A u \in TokIds \ {t} : tok'[u].chain = tok[u].chain
                                   /\ (tok'[u].live => tok[u].live)
        <4> SUFFICES ASSUME NEW u \in TokIds \ {t}
                     PROVE  tok'[u].chain = tok[u].chain /\ (tok'[u].live => tok[u].live)
          OBVIOUS
        <4>1. tok[u] \in TokRows /\ tok'[u] \in {tok[u], [tok[u] EXCEPT !.live = FALSE]}
          BY <1>0, <3>2
        <4>2. /\ [tok[u] EXCEPT !.live = FALSE].chain = tok[u].chain
              /\ ~ [tok[u] EXCEPT !.live = FALSE].live
          BY <4>1, RowKeeps
        <4> QED BY <4>1, <4>2
      <3> QED BY <3>3, <3>4, <3>5, QuietLogin
    <2> QED BY <2>1, <2>2
  <1>6. ASSUME NEW j \in Jobs, CliTokenRefresh(j) PROVE G
    <2>1. CASE Refuse(j)
      BY <1>2, <2>1
    <2>2. CASE ~ Refuse(j)
      <3> DEFINE a == job[j].by
                 o == job[j].byTok
      <3>1. PICK t \in TokIds :
               /\ IsNextTok(t)
               /\ tok' = [tok EXCEPT ![o] = Rotated(tok[o], a),
                                     ![t] = CliTok(a, secrets + 1, tok[o].chain)]
        BY <1>6, <2>2 DEF CliTokenRefresh
      <3>2. o \in TokIds /\ tok[o].used /\ tok[o].live /\ UNCHANGED code
        BY <1>0, <1>6, <2>2, JobFields
        DEF CliTokenRefresh, RefreshRevokes, CliReady, TypeOK, TokIds
      <3>3. t # o
        BY <1>0, <3>1, <3>2, NextTokFresh
      <3> HIDE DEF a, o
      <3>4. /\ tok'[t] = CliTok(a, secrets + 1, tok[o].chain)
            /\ tok'[o] = Rotated(tok[o], a)
            /\ \A u \in TokIds \ {t, o} : tok'[u] = tok[u]
        BY <1>0, <3>1, <3>2, <3>3
      <3>5. /\ tok'[t].chain = tok[o].chain
            /\ tok'[o].chain = tok[o].chain /\ ~ tok'[o].live
        BY <1>0, <3>2, <3>4, NewRows, RowKeeps
      <3>6. Unborn'
        BY <3>2, <3>4, <3>5 DEF IInv, Unborn
      <3>7. \A u \in TokIds \ {t} : tok'[u].live => tok'[u] = tok[u] /\ u # o
        BY <3>4, <3>5
      <3>8. OneTokenPerLogin'
        BY <3>2, <3>5, <3>7 DEF IInv, OneTokenPerLogin
      <3> QED BY <3>6, <3>8
    <2> QED BY <2>1, <2>2
  <1>7. ASSUME NEW j \in Jobs, NEW t \in TokIds, RevokeCli(j, t) PROVE G
    <2>1. CASE Refuse(j)
      BY <1>2, <2>1
    <2>2. CASE ~ Refuse(j)
      <3>1. tok' = [tok EXCEPT ![t].live = FALSE] /\ UNCHANGED code
        BY <1>7, <2>2 DEF RevokeCli
      <3> QED BY <1>0, <3>1, RowKeeps, QuietLogin
    <2> QED BY <2>1, <2>2
  <1>8. ASSUME NEW j \in Jobs, NEW c \in Codes, DeviceApprove(j, c) PROVE G
    <2>1. CASE Refuse(j)
      BY <1>2, <2>1
    <2>2. CASE ~ Refuse(j)
      <3> DEFINE a == job[j].by
      <3>1. PICK t \in TokIds :
               /\ tok' = [tok EXCEPT ![t] = CliTok(a, secrets + 1, c)]
               /\ code' = [code EXCEPT ![c].st = "approved", ![c].minted = t,
                                       ![c].own = secrets + 1]
               /\ code[c].st = "pending"
        BY <1>8, <2>2 DEF DeviceApprove
      <3>2. tok'[t].chain = c /\ \A u \in TokIds \ {t} : tok'[u] = tok[u]
        BY <1>0, <3>1, NewRows
      <3>3. code'[c].st = "approved" /\ \A d \in Codes \ {c} : code'[d] = code[d]
        BY <1>0, <3>1 DEF CodeRows
      <3>4. \A u \in TokIds : tok[u].chain # c
        BY <3>1 DEF IInv, Unborn
      <3>5. Unborn'
        BY <3>2, <3>3 DEF IInv, Unborn
      <3>6. OneTokenPerLogin'
        BY <3>2, <3>4 DEF IInv, OneTokenPerLogin
      <3> QED BY <3>5, <3>6
    <2> QED BY <2>1, <2>2
  <1>9. ASSUME NEW j \in Jobs, Commit(j) PROVE G
    <2>1. CASE CliTokenLogout(j)
      <3>1. job[j].byTok \in TokIds
        BY <1>0, <2>1, JobFields DEF CliTokenLogout, CliReady, TypeOK, TokIds
      <3> QED BY <1>7, <2>1, <3>1 DEF CliTokenLogout
    <2>2. CASE \E t \in TokIds : CliTokenRevoke(j, t)
      BY <1>7, <2>2 DEF CliTokenRevoke
    <2>3. CASE \E t \in Tenants, a \in 0 .. MaxAdmin : PatchTenantOwner(j, t, a)
      BY <1>1, <2>3 DEF PatchTenantOwner, Refuse
    <2>4. CASE \E c \in Codes : DeviceDeny(j, c)
      <3>1. PICK c \in Codes : DeviceDeny(j, c)
        BY <2>4
      <3>2. tok' = tok /\ \A d \in Codes : code'[d].st \in {"none", "pending"} =>
                                           code[d].st \in {"none", "pending"}
        BY <1>0, <3>1 DEF DeviceDeny, CodeRows
      <3> QED BY <3>2, QuietLogin
    <2>5. CASE \E a \in Admins, r \in Roles : ChangeRole(j, a, r)
      BY <1>1, <2>5 DEF ChangeRole, Refuse
    <2> QED BY <1>3, <1>4, <1>5, <1>6, <1>8, <1>9, <2>1, <2>2, <2>3, <2>4, <2>5
            DEF Commit
  <1>10. ASSUME NEW j \in Jobs, Admit(j) \/ ClearAdminPat(j) \/ EvictReach(j) PROVE G
    BY <1>1, <1>10 DEF Admit, AdmitAdmin, ResolveCliCaller, ClearAdminPat, EvictReach
  <1>11. CASE (\E c \in Codes : DeviceStep(c)) \/ SweepExpiredDeviceCodes
    <2>1. tok' = tok
      BY <1>11 DEF DeviceStep, DeviceStart, DevicePoll, CodeExpires, SweepExpiredDeviceCodes
    <2>2. \A d \in Codes : code'[d].st \in {"none", "pending"} =>
                            code[d].st \in {"none", "pending"}
      BY <1>0, <1>11 DEF DeviceStep, DeviceStart, DevicePoll, CodeExpires,
         SweepExpiredDeviceCodes, CodeRows
    <2> QED BY <2>1, <2>2, QuietLogin
  <1>12. ASSUME NEW t \in TokIds, TokenExpires(t) PROVE G
    <2>1. tok' = [tok EXCEPT ![t].expired = TRUE] /\ UNCHANGED code
      BY <1>12 DEF TokenExpires
    <2> QED BY <1>0, <2>1, RowKeeps, QuietLogin
  <1>13. CASE UNCHANGED idVars
    BY <1>1, <1>13 DEF idVars
  <1> QED BY <1>9, <1>10, <1>11, <1>12, <1>13 DEF Next

----------------------------------------------------------------------------
(* The invariant holds in every state of every behaviour. *)
LEMMA Inductive == Spec => []IInv
  <1>1. IInv /\ [Next]_idVars => IInv'
    BY TypeStep, OwnerStep, ReadyStep, MintedStep, RowsStep, LoginStep DEF IInv
  <1> QED BY <1>1, InitIInv, PTL DEF Spec

(* The tables and the handlers in flight keep their types. *)
THEOREM TypeCorrect == Spec => []TypeOK
  <1>1. IInv => TypeOK
    BY DEF IInv
  <1> QED BY <1>1, Inductive, PTL

(* change_role and remove_admin never leave the host without an owner,     *)
(* whatever stale roles the requests in flight decide with.                *)
THEOREM OwnerRemains == Spec => []AtLeastOneOwner
  <1>1. IInv => AtLeastOneOwner
    BY DEF IInv
  <1> QED BY <1>1, Inductive, PTL

(* Every row of _admin_tokens belongs to an admin that exists, although    *)
(* ids are reused and handlers insert with an id they read earlier.        *)
THEOREM TokensHaveAdmins == Spec => []NoOrphanToken
  <1>1. IInv => NoOrphanToken
    BY DEF IInv, RowsOK, NoOrphanToken
  <1> QED BY <1>1, Inductive, PTL

(* A device login has at most one live token at a time, however refreshes, *)
(* logouts and approvals race: the UPDATE that revokes the old row decides *)
(* who mints the next one.                                                 *)
THEOREM LoginsHoldOneToken == Spec => []OneTokenPerLogin
  <1>1. IInv => OneTokenPerLogin
    BY DEF IInv
  <1> QED BY <1>1, Inductive, PTL

----------------------------------------------------------------------------
(* The door.                                                               *)

(* The rows with which a credential has, or had but for a stray refresh,   *)
(* its right.                                                              *)
Held(i) == tok[i].live \/ tok[i].astray

(* An admin whose tokens, role and tenants a step leaves has its rights.   *)
LEMMA RightsKept ==
    ASSUME IInv, NEW s, NEW a, NEW t \in Tenants, StillHas(s, a, t),
           \A i \in TokIds : Held(i) /\ tok[i].admin = a =>
              /\ tok'[i].live \/ tok'[i].astray
              /\ tok'[i].admin = tok[i].admin /\ tok'[i].secret = tok[i].secret,
           a \in Admins /\ SeesAllTenants(role[a]) => SeesAllTenants(role'[a]),
           owner[t] = a => owner'[t] = a
    PROVE  StillHas(s, a, t)'
  <1>1. PICK i \in TokIds : /\ Held(i) /\ tok[i].secret = s /\ tok[i].admin = a
                            /\ SeesAllTenants(role[a]) \/ owner[t] = a
    BY DEF StillHas, Held
  <1>2. a \in Admins
    BY <1>1 DEF IInv, RowsOK, Held
  <1> QED BY <1>1, <1>2 DEF StillHas

(* A revocation of admin a that has just committed. *)
LEMMA RevokedFacts ==
    ASSUME TypeOK, NEW j \in Jobs, NEW w, NEW r, Revoked(j, w, r)
    PROVE  /\ \A a \in w : Uncleared(a)'
           /\ \A t : r.wide \/ t \in r.ids => Unevicted(t)'
  <1>1. job'[j].pc = "clear" /\ job'[j].who = w /\ job'[j].reach = r
    BY DEF Revoked, Aftermath, TypeOK
  <1> QED BY <1>1 DEF Uncleared, Unevicted

(* What was on its way stays on its way while other handlers come and go.  *)
LEMMA StillComing ==
    ASSUME TypeOK, NEW j \in Jobs, job[j].pc \in {"idle", "ready"},
           \A i \in Jobs \ {j} : job'[i] = job[i]
    PROVE  /\ \A a : Uncleared(a) => Uncleared(a)'
           /\ \A t : Unevicted(t) => Unevicted(t)'
  BY DEF Uncleared, Unevicted

LEMMA CommitJob ==
    ASSUME TypeOK, NEW j \in Jobs, Commit(j)
    PROVE  job[j].pc = "ready" /\ \A i \in Jobs \ {j} : job'[i] = job[i]
  <1>1. job[j].pc = "ready"
    BY DEF Commit, InviteAdmin, ChangeRole, RemoveAdmin, Reroll, CliTokenRefresh,
       CliTokenLogout, CliTokenRevoke, PatchTenantOwner, DeviceDeny, DeviceApprove,
       AdminReady, CliReady
  <1>2. \/ Return(j)
        \/ \E w, r : Revoked(j, w, r)
    BY DEF Commit, InviteAdmin, ChangeRole, RemoveAdmin, Reroll, CliTokenRefresh,
       CliTokenLogout, CliTokenRevoke, PatchTenantOwner, DeviceDeny, DeviceApprove,
       RevokeCli, Refuse
  <1>3. \A i \in Jobs \ {j} : job'[i] = job[i]
    BY <1>2 DEF Return, Revoked, TypeOK
  <1> QED BY <1>1, <1>3

(* The reach of an admin covers every tenant it has a right to. *)
LEMMA ReachCovers ==
    ASSUME NEW a, NEW t \in Tenants, SeesAllTenants(role[a]) \/ owner[t] = a
    PROVE  ReadPatReach(role, owner, a).wide \/ t \in ReadPatReach(role, owner, a).ids
  BY DEF ReadPatReach

(* Whatever ends a right is followed by a clear and an eviction. *)
Pursued(a, t) == Uncleared(a) /\ Unevicted(t)

LEMMA RightsEnd ==
    ASSUME IInv, NEW j \in Jobs, Commit(j), NEW s, NEW a, NEW t \in Tenants,
           StillHas(s, a, t), ~ StillHas(s, a, t)'
    PROVE  Pursued(a, t)'
  <1>0. /\ TypeOK /\ RowsOK /\ tok \in [TokIds -> TokRows]
        /\ role \in [Admins -> Roles \cup {"none"}] /\ owner \in [Tenants -> 0 .. MaxAdmin]
        /\ \A u \in TokIds : tok[u] \in TokRows
        /\ \A u \in TokIds : Held(u) => tok[u].used
    BY DEF IInv, TypeOK, RowsOK, Held
  <1>1. a \in Admins /\ (SeesAllTenants(role[a]) \/ owner[t] = a)
    BY DEF StillHas, IInv, RowsOK
  <1>2. ASSUME UNCHANGED <<tok, role, owner>> PROVE FALSE
    BY <1>2 DEF StillHas
  <1>3. ~ Refuse(j)
    BY <1>2 DEF Refuse
  <1>4. ASSUME NEW w, NEW r, Revoked(j, w, r), a \in w, r.wide \/ t \in r.ids
        PROVE  Pursued(a, t)'
    BY <1>0, <1>4, RevokedFacts DEF Pursued
  <1>5. ASSUME Revoked(j, {a}, ReadPatReach(role, owner, a)) PROVE Pursued(a, t)'
    BY <1>1, <1>4, <1>5, ReachCovers
  <1>6. ASSUME NEW r \in Roles, InviteAdmin(j, r) PROVE FALSE
    <2>1. PICK b \in Admins, u \in TokIds : InsertOneAdmin(b, u, r) /\ UNCHANGED owner
      BY <1>3, <1>6 DEF InviteAdmin
    <2>2. ~ tok[u].used
      BY <1>0, <2>1, NextTokFresh DEF InsertOneAdmin
    <2>3. \A i \in TokIds : Held(i) => tok'[i] = tok[i]
      BY <1>0, <2>1, <2>2 DEF InsertOneAdmin
    <2>4. role[b] = "none"
      BY <2>1 DEF InsertOneAdmin, IsNextAdmin, Admins
    <2>5. SeesAllTenants(role[a]) => role'[a] = role[a]
      BY <1>0, <1>1, <2>1, <2>4 DEF InsertOneAdmin, SeesAllTenants
    <2> QED BY <2>1, <2>3, <2>5, RightsKept DEF Held
  <1>7. ASSUME NEW b \in Admins, NEW r \in Roles, ChangeRole(j, b, r)
        PROVE  Pursued(a, t)'
    <2> DEFINE re == [wide |-> SeesAllTenants(role[b]) /\ ~ SeesAllTenants(r), ids |-> {}]
    <2>1. /\ role' = [role EXCEPT ![b] = r] /\ UNCHANGED <<tok, owner>>
          /\ Revoked(j, {b}, re)
      BY <1>3, <1>7 DEF ChangeRole
    <2>2. a = b /\ SeesAllTenants(role[b]) /\ ~ SeesAllTenants(r)
      BY <1>0, <1>1, <2>1, RightsKept DEF Held
    <2>3. re.wide
      BY <2>2
    <2> HIDE DEF re
    <2> QED BY <1>4, <2>1, <2>2, <2>3
  <1>8. ASSUME NEW b \in Admins, RemoveAdmin(j, b) PROVE Pursued(a, t)'
    <2>1. /\ role' = [role EXCEPT ![b] = "none"]
          /\ tok' = [u \in TokIds |-> IF tok[u].admin = b THEN NoTok ELSE tok[u]]
          /\ owner' = [x \in Tenants |-> IF owner[x] = b THEN 0 ELSE owner[x]]
          /\ Revoked(j, {b}, ReadPatReach(role, owner, b))
      BY <1>3, <1>8 DEF RemoveAdmin
    <2>2. ASSUME a # b PROVE FALSE
      <3>1. \A i \in TokIds : tok[i].admin = a => tok'[i] = tok[i]
        BY <2>1, <2>2
      <3>2. role'[a] = role[a] /\ (owner[t] = a => owner'[t] = a)
        BY <1>0, <1>1, <2>1, <2>2
      <3> QED BY <3>1, <3>2, RightsKept DEF Held
    <2> QED BY <1>5, <2>1, <2>2
  <1>9. ASSUME Reroll(j) PROVE Pursued(a, t)'
    <2> DEFINE b == job[j].by
    <2>1. PICK u \in TokIds :
             /\ IsNextTok(u)
             /\ tok' = [[i \in TokIds |->
                          IF tok[i].admin = b /\ tok[i].label = "ui"
                          THEN [tok[i] EXCEPT !.live = FALSE]
                          ELSE tok[i]]
                       EXCEPT ![u] = UiTok(b, secrets + 1)]
      BY <1>3, <1>9 DEF Reroll
    <2>2. Revoked(j, {b}, ReadPatReach(role, owner, b)) /\ UNCHANGED <<role, owner>>
      BY <1>3, <1>9 DEF Reroll
    <2>3. ASSUME a # b PROVE FALSE
      <3>1. \A i \in TokIds : Held(i) /\ tok[i].admin = a => tok'[i] = tok[i]
        BY <1>0, <2>1, <2>3, NextTokFresh
      <3> QED BY <2>2, <3>1, RightsKept DEF Held
    <2> QED BY <1>5, <2>2, <2>3
  <1>10. ASSUME CliTokenRefresh(j) PROVE Pursued(a, t)'
    <2> DEFINE b == job[j].by
               o == job[j].byTok
    <2>1. PICK u \in TokIds :
             /\ IsNextTok(u)
             /\ tok' = [tok EXCEPT ![o] = Rotated(tok[o], b),
                                   ![u] = CliTok(b, secrets + 1, tok[o].chain)]
      BY <1>3, <1>10 DEF CliTokenRefresh
    <2>2. /\ Revoked(j, {b}, ReadPatReach(role, owner, b)) /\ UNCHANGED <<role, owner>>
          /\ o \in TokIds
      BY <1>0, <1>3, <1>10, JobFields DEF CliTokenRefresh, CliReady, TypeOK, TokIds
    <2> HIDE DEF b, o
    <2>3. ASSUME a # b PROVE FALSE
      <3>1. \A i \in TokIds : Held(i) => i # u
        BY <1>0, <2>1, NextTokFresh
      <3>2. \A i \in TokIds : Held(i) => tok'[i] = IF i = o THEN Rotated(tok[o], b) ELSE tok[i]
        BY <1>0, <2>1, <2>2, <3>1
      <3>3. /\ Rotated(tok[o], b).admin = tok[o].admin
            /\ Rotated(tok[o], b).secret = tok[o].secret
            /\ tok[o].admin = a => Rotated(tok[o], b).astray
        BY <1>0, <2>2, <2>3, RowKeeps
      <3> QED BY <2>2, <3>2, <3>3, RightsKept DEF Held
    <2> QED BY <1>5, <2>2, <2>3
  <1>11. ASSUME NEW u \in TokIds, RevokeCli(j, u) PROVE Pursued(a, t)'
    <2> DEFINE b == job[j].by
    <2>1. /\ tok' = [tok EXCEPT ![u].live = FALSE] /\ UNCHANGED <<role, owner>>
          /\ tok[u].admin = b
          /\ Revoked(j, {b}, ReadPatReach(role, owner, b))
      BY <1>3, <1>11 DEF RevokeCli
    <2>2. ASSUME a # b PROVE FALSE
      <3>1. \A i \in TokIds : tok[i].admin = a => tok'[i] = tok[i]
        BY <1>0, <2>1, <2>2
      <3> QED BY <2>1, <3>1, RightsKept DEF Held
    <2> QED BY <1>5, <2>1, <2>2
  <1>12. ASSUME NEW x \in Tenants, NEW b \in 0 .. MaxAdmin, PatchTenantOwner(j, x, b)
         PROVE  Pursued(a, t)'
    <2> DEFINE re == [wide |-> FALSE, ids |-> IF owner[x] # b THEN {x} ELSE {}]
    <2>1. /\ owner' = [owner EXCEPT ![x] = b] /\ UNCHANGED <<role, tok>>
          /\ Revoked(j, {owner[x], b} \ {0}, re)
      BY <1>3, <1>12 DEF PatchTenantOwner
    <2>2. t = x /\ owner[x] = a /\ b # a
      <3>1. ASSUME owner[t] = a => owner'[t] = a PROVE FALSE
        BY <2>1, <3>1, RightsKept DEF Held
      <3> QED BY <1>0, <2>1, <3>1
    <2>3. a \in {owner[x], b} \ {0} /\ t \in re.ids
      BY <1>1, <2>2 DEF Admins
    <2> HIDE DEF re
    <2> QED BY <1>4, <2>1, <2>3
  <1>13. ASSUME NEW c \in Codes, DeviceApprove(j, c) PROVE FALSE
    <2>1. PICK u \in TokIds :
             IsNextTok(u) /\ tok' = [tok EXCEPT ![u] = CliTok(job[j].by, secrets + 1, c)]
      BY <1>3, <1>13 DEF DeviceApprove
    <2>2. UNCHANGED <<role, owner>>
      BY <1>3, <1>13 DEF DeviceApprove
    <2>3. \A i \in TokIds : Held(i) => tok'[i] = tok[i]
      BY <1>0, <2>1, NextTokFresh
    <2> QED BY <2>2, <2>3, RightsKept DEF Held
  <1>14. CASE CliTokenLogout(j)
    <2>1. job[j].byTok \in TokIds
      BY <1>0, <1>14, JobFields DEF CliTokenLogout, CliReady, TypeOK, TokIds
    <2> QED BY <1>11, <1>14, <2>1 DEF CliTokenLogout
  <1>15. CASE \E u \in TokIds : CliTokenRevoke(j, u)
    BY <1>11, <1>15 DEF CliTokenRevoke
  <1>16. ASSUME NEW c \in Codes, DeviceDeny(j, c) PROVE FALSE
    BY <1>2, <1>16 DEF DeviceDeny
  <1> QED BY <1>6, <1>7, <1>8, <1>9, <1>10, <1>12, <1>13, <1>14, <1>15, <1>16 DEF Commit

(* The handlers' own steps pursue whatever right they end. *)
LEMMA IdentityPursues ==
    ASSUME IInv, IdentityStep
    PROVE  /\ \A a : Uncleared(a) => Uncleared(a)'
           /\ \A t : Unevicted(t) => Unevicted(t)'
           /\ \A s, a : \A t \in Tenants :
                 StillHas(s, a, t) => StillHas(s, a, t)' \/ Pursued(a, t)'
  <1>0. TypeOK
    BY DEF IInv
  <1>1. ASSUME NEW j \in Jobs, Commit(j)
        PROVE  /\ \A a : Uncleared(a) => Uncleared(a)'
               /\ \A t : Unevicted(t) => Unevicted(t)'
               /\ \A s, a : \A t \in Tenants :
                     StillHas(s, a, t) => StillHas(s, a, t)' \/ Pursued(a, t)'
    <2>1. /\ \A a : Uncleared(a) => Uncleared(a)'
          /\ \A t : Unevicted(t) => Unevicted(t)'
      BY <1>0, <1>1, CommitJob, StillComing
    <2> QED BY <1>1, <2>1, RightsEnd
  <1>2. ASSUME UNCHANGED <<tok, role, owner>>
        PROVE  \A s, a, t : StillHas(s, a, t) => StillHas(s, a, t)'
    BY <1>2 DEF StillHas
  <1>3. ASSUME NEW j \in Jobs, Admit(j)
        PROVE  /\ \A a : Uncleared(a) => Uncleared(a)'
               /\ \A t : Unevicted(t) => Unevicted(t)'
               /\ UNCHANGED <<tok, role, owner>>
    <2>1. job[j].pc = "idle" /\ \A i \in Jobs \ {j} : job'[i] = job[i]
      BY <1>0, <1>3 DEF Admit, AdmitAdmin, ResolveCliCaller, TypeOK
    <2>2. UNCHANGED <<tok, role, owner>>
      BY <1>3 DEF Admit, AdmitAdmin, ResolveCliCaller
    <2> QED BY <1>0, <2>1, <2>2, StillComing
  <1>4. ASSUME UNCHANGED job
        PROVE  /\ \A a : Uncleared(a) => Uncleared(a)'
               /\ \A t : Unevicted(t) => Unevicted(t)'
    BY <1>4 DEF Uncleared, Unevicted
  <1>5. CASE (\E c \in Codes : DeviceStep(c)) \/ SweepExpiredDeviceCodes
    <2>1. UNCHANGED <<tok, role, owner, job>>
      BY <1>5 DEF DeviceStep, DeviceStart, DevicePoll, CodeExpires, SweepExpiredDeviceCodes
    <2> QED BY <1>2, <1>4, <2>1
  <1>6. ASSUME NEW i \in TokIds, TokenExpires(i)
        PROVE  /\ UNCHANGED job
               /\ \A s, a : \A t \in Tenants : StillHas(s, a, t) => StillHas(s, a, t)'
    <2>1. tok' = [tok EXCEPT ![i].expired = TRUE] /\ UNCHANGED <<role, owner, job>>
      BY <1>6 DEF TokenExpires
    <2>2. tok \in [TokIds -> TokRows] /\ \A u \in TokIds : tok[u] \in TokRows
      BY <1>0 DEF TypeOK
    <2>3. \A u \in TokIds : /\ tok'[u].live = tok[u].live /\ tok'[u].astray = tok[u].astray
                             /\ tok'[u].admin = tok[u].admin
                             /\ tok'[u].secret = tok[u].secret
      BY <2>1, <2>2, RowKeeps
    <2> QED BY <2>1, <2>3, RightsKept DEF Held
  <1> QED BY <1>1, <1>2, <1>3, <1>4, <1>5, <1>6 DEF IdentityStep

(* A request past its probe has a tenant. *)
Addressed == \A r \in Reqs : req[r].pc # "idle" => req[r].t \in Tenants

DoorInv == IInv /\ DoorTypeOK /\ Addressed /\ EntriesInvalidated /\ ReachSuffices

EntryRows == [t : Tenants \cup {"none"}, admin : 0 .. MaxAdmin, valid : BOOLEAN]
ReqRows == [pc : {"idle", "miss", "read", "admitted", "open"},
            s : 0 .. MaxSecret, t : Tenants \cup {"none"},
            admin : 0 .. MaxAdmin, marked : BOOLEAN, valid : BOOLEAN]

LEMMA DoorRows ==
    /\ NoEntry \in EntryRows /\ NoEntry.t = "none"
    /\ NoReq \in ReqRows /\ NoReq.pc = "idle"
    /\ \A t \in Tenants, a \in 0 .. MaxAdmin, v \in BOOLEAN :
          LET x == [t |-> t, admin |-> a, valid |-> v]
          IN  x \in EntryRows /\ x.t = t /\ x.admin = a /\ x.valid = v
  BY IdentityAssumption DEF NoEntry, EntryRows, NoReq, ReqRows

(* The rows a request goes through. *)
HitReq(s, t, a) == [NoReq EXCEPT !.pc = "admitted", !.s = s, !.t = t, !.admin = a]
MissReq(s, t) == [NoReq EXCEPT !.pc = "miss", !.s = s, !.t = t]
OpenReq(q, v) == [q EXCEPT !.pc = "open", !.valid = v]
MarkedReq(q, v) == [q EXCEPT !.marked = @ \/ v]

LEMMA ProbedReqs ==
    ASSUME NEW s \in 0 .. MaxSecret, NEW t \in Tenants, NEW a \in 0 .. MaxAdmin
    PROVE  /\ HitReq(s, t, a) \in ReqRows /\ HitReq(s, t, a).pc = "admitted"
           /\ HitReq(s, t, a).t = t
           /\ MissReq(s, t) \in ReqRows /\ MissReq(s, t).pc = "miss" /\ MissReq(s, t).t = t
  <1>1. NoReq \in ReqRows
    BY DoorRows
  <1>2. ASSUME NEW q \in ReqRows
        PROVE  LET x == [q EXCEPT !.pc = "admitted", !.s = s, !.t = t, !.admin = a]
                   y == [q EXCEPT !.pc = "miss", !.s = s, !.t = t]
               IN  /\ x \in ReqRows /\ x.pc = "admitted" /\ x.t = t
                   /\ y \in ReqRows /\ y.pc = "miss" /\ y.t = t
    BY DEF ReqRows
  <1> QED BY <1>1, <1>2 DEF HitReq, MissReq

LEMMA OpenedReqs ==
    ASSUME NEW q \in ReqRows, NEW v \in BOOLEAN
    PROVE  /\ OpenReq(q, v) \in ReqRows /\ OpenReq(q, v).pc = "open"
           /\ OpenReq(q, v).t = q.t /\ OpenReq(q, v).s = q.s
           /\ OpenReq(q, v).admin = q.admin /\ OpenReq(q, v).valid = v
  BY DEF OpenReq, ReqRows

LEMMA ReqEdits ==
    ASSUME NEW q \in ReqRows
    PROVE  /\ q.admin \in 0 .. MaxAdmin /\ q.s \in 0 .. MaxSecret
           /\ \A a \in 0 .. MaxAdmin :
                 LET x == [q EXCEPT !.pc = "read", !.admin = a]
                 IN  x \in ReqRows /\ x.pc = "read" /\ x.t = q.t
           /\ LET x == [q EXCEPT !.pc = "admitted"]
              IN  x \in ReqRows /\ x.pc = "admitted" /\ x.t = q.t
  BY DEF ReqRows

LEMMA Marks ==
    ASSUME NEW q \in ReqRows, NEW v \in BOOLEAN
    PROVE  /\ MarkedReq(q, v) \in ReqRows /\ MarkedReq(q, v).pc = q.pc
           /\ MarkedReq(q, v).t = q.t /\ MarkedReq(q, v).s = q.s
           /\ MarkedReq(q, v).admin = q.admin /\ MarkedReq(q, v).valid = q.valid
           /\ q.marked => MarkedReq(q, v).marked
           /\ v => MarkedReq(q, v).marked
  BY DEF MarkedReq, ReqRows

(* A step at the door changes nothing that a right depends on. *)
LEMMA Frozen ==
    ASSUME UNCHANGED <<tok, role, owner, job>>
    PROVE  /\ \A s, a, t : StillHas(s, a, t)' <=> StillHas(s, a, t)
           /\ \A a : Uncleared(a)' <=> Uncleared(a)
           /\ \A t : Unevicted(t)' <=> Unevicted(t)
  BY DEF StillHas, Uncleared, Unevicted

LEMMA EnterIsRight ==
    ASSUME NEW s, NEW a, NEW t, MayEnter(s, a, t)
    PROVE  StillHas(s, a, t)
  BY DEF MayEnter, StillHas

(* The part of the invariant that is about requests, or about entries. *)
ReqsOK == req \in [Reqs -> ReqRows] /\ Addressed /\ ReachSuffices
EntriesOK == cache \in [Secrets -> EntryRows] /\ EntriesInvalidated

LEMMA DoorParts == DoorInv <=> IInv /\ ReqsOK /\ EntriesOK
  BY DEF DoorInv, IInv, DoorTypeOK, ReqsOK, EntriesOK, ReqRows, EntryRows

LEMMA ReqStep ==
    ASSUME ReqsOK, UNCHANGED <<tok, role, owner, job>>,
           NEW r \in Reqs, NEW x \in ReqRows, StepReq(r, x),
           x.pc # "idle" => x.t \in Tenants,
           x.pc = "open" /\ x.valid => StillHas(x.s, x.admin, x.t)
    PROVE  ReqsOK'
  <1>1. /\ req' \in [Reqs -> ReqRows] /\ req'[r] = x
        /\ \A y \in Reqs \ {r} : req'[y] = req[y]
    BY DEF ReqsOK, StepReq
  <1>2. Addressed'
    BY <1>1 DEF ReqsOK, Addressed
  <1>3. ReachSuffices'
    <2> SUFFICES ASSUME NEW y \in Reqs, req'[y].pc = "open", req'[y].valid,
                        ~ req'[y].marked, ~ Unevicted(req[y].t)'
                 PROVE  StillHas(req[y].s, req[y].admin, req[y].t)'
      BY DEF ReachSuffices
    <2>1. CASE y = r
      BY <1>1, <2>1, Frozen
    <2>2. CASE y # r
      BY <1>1, <2>2, Frozen DEF ReqsOK, ReachSuffices
    <2> QED BY <2>1, <2>2
  <1> QED BY <1>1, <1>2, <1>3 DEF ReqsOK

LEMMA EntryStep ==
    ASSUME EntriesOK, UNCHANGED <<tok, role, owner, job>>,
           cache' \in [Secrets -> EntryRows],
           \A s \in Secrets : \/ cache'[s] \in {cache[s], NoEntry}
                              \/ cache'[s].valid =>
                                    StillHas(s, cache'[s].admin, cache'[s].t)
    PROVE  EntriesOK'
  <1>1. EntriesInvalidated'
    <2> SUFFICES ASSUME NEW s \in Secrets, cache'[s].t # "none", cache'[s].valid,
                        ~ Uncleared(cache[s].admin)'
                 PROVE  StillHas(s, cache[s].admin, cache[s].t)'
      BY DEF EntriesInvalidated
    <2>1. CASE cache'[s] = cache[s]
      BY <2>1, Frozen DEF EntriesOK, EntriesInvalidated
    <2>2. CASE cache'[s] = NoEntry
      BY <2>2, DoorRows
    <2>3. CASE cache'[s].valid => StillHas(s, cache'[s].admin, cache'[s].t)
      BY <2>3, Frozen
    <2> QED BY <2>1, <2>2, <2>3
  <1> QED BY <1>1 DEF EntriesOK

(* The bearer layer's steps. *)
BearerStep ==
    \/ \E r \in Reqs :
          \/ \E s \in Secrets, t \in Tenants : Probe(r, s, t)
          \/ ReadMeta(r) \/ Fill(r) \/ Serve(r) \/ Capture(r) \/ CloseSocket(r)
    \/ \E s \in Secrets : CacheLapse(s)

LEMMA BearerKeeps ==
    ASSUME ReqsOK, EntriesOK, BearerStep
    PROVE  ReqsOK' /\ EntriesOK'
  <1>1. UNCHANGED <<role, tok, code, owner, job, secrets, handed>>
    BY DEF BearerStep, Probe, ReadMeta, Fill, Serve, Capture, CloseSocket, CacheLapse
  <1>2. ASSUME UNCHANGED cache PROVE EntriesOK'
    <2>1. cache' \in [Secrets -> EntryRows]
      BY <1>2 DEF EntriesOK
    <2> QED BY <1>1, <1>2, <2>1, EntryStep
  <1>3. ASSUME UNCHANGED req PROVE ReqsOK'
    BY <1>1, <1>3, Frozen DEF ReqsOK, Addressed, ReachSuffices
  <1>4. ASSUME NEW s, cache' = [cache EXCEPT ![s] = NoEntry] PROVE EntriesOK'
    <2>1. cache' \in [Secrets -> EntryRows]
          /\ \A x \in Secrets : cache'[x] \in {cache[x], NoEntry}
      BY <1>4, DoorRows DEF EntriesOK
    <2> QED BY <1>1, <2>1, EntryStep
  <1>5. \A r \in Reqs : req[r] \in ReqRows /\ (req[r].pc # "idle" => req[r].t \in Tenants)
    BY DEF ReqsOK, Addressed
  <1>6. ASSUME NEW r \in Reqs, StepReq(r, NoReq) PROVE ReqsOK'
    BY <1>1, <1>6, DoorRows, ReqStep
  <1>7. ASSUME NEW r \in Reqs, NEW s \in Secrets, NEW t \in Tenants, Probe(r, s, t)
        PROVE  ReqsOK' /\ EntriesOK'
    <2>1. s \in 0 .. MaxSecret /\ cache[s].admin \in 0 .. MaxAdmin
      BY DEF Secrets, EntriesOK, EntryRows
    <2>2. CASE cache' = [cache EXCEPT ![s] = NoEntry] /\ UNCHANGED req
      BY <1>3, <1>4, <2>2
    <2>3. ASSUME NEW x \in ReqRows, x.pc \in {"admitted", "miss"}, x.t = t,
                 StepReq(r, x), UNCHANGED cache
          PROVE  ReqsOK' /\ EntriesOK'
      BY <1>1, <1>2, <2>3, ReqStep
    <2>4. CASE StepReq(r, [NoReq EXCEPT !.pc = "admitted", !.s = s, !.t = t,
                                        !.admin = cache[s].admin]) /\ UNCHANGED cache
      <3>1. StepReq(r, HitReq(s, t, cache[s].admin)) /\ UNCHANGED cache
        BY <2>4 DEF HitReq
      <3> QED BY <2>1, <2>3, <3>1, ProbedReqs
    <2>5. CASE StepReq(r, [NoReq EXCEPT !.pc = "miss", !.s = s, !.t = t]) /\ UNCHANGED cache
      <3>1. StepReq(r, MissReq(s, t)) /\ UNCHANGED cache
        BY <2>5 DEF MissReq
      <3> QED BY <2>1, <2>3, <3>1, ProbedReqs
    <2> QED BY <1>7, <2>2, <2>4, <2>5 DEF Probe
  <1>8. ASSUME NEW r \in Reqs, ReadMeta(r) PROVE ReqsOK' /\ EntriesOK'
    <2>1. UNCHANGED cache /\ req[r].pc = "miss"
      BY <1>8 DEF ReadMeta
    <2>2. ASSUME NEW a \in Admins, StepReq(r, [req[r] EXCEPT !.pc = "read", !.admin = a])
          PROVE  ReqsOK'
      <3> DEFINE x == [req[r] EXCEPT !.pc = "read", !.admin = a]
      <3>1. a \in 0 .. MaxAdmin
        BY DEF Admins
      <3>2. x \in ReqRows /\ x.pc = "read" /\ x.t = req[r].t
        BY <1>5, <3>1, ReqEdits
      <3>3. StepReq(r, x)
        BY <2>2
      <3> HIDE DEF x
      <3> QED BY <1>1, <1>5, <2>1, <3>2, <3>3, ReqStep
    <2> QED BY <1>2, <1>6, <1>8, <2>1, <2>2 DEF ReadMeta
  <1>9. ASSUME NEW r \in Reqs, Fill(r) PROVE ReqsOK' /\ EntriesOK'
    <2> DEFINE q == req[r]
               v == MayEnter(q.s, q.admin, q.t)
               x == [q EXCEPT !.pc = "admitted"]
               y == [t |-> q.t, admin |-> q.admin, valid |-> v]
    <2>1. /\ q \in ReqRows /\ q.t \in Tenants /\ q.admin \in 0 .. MaxAdmin
          /\ q.pc = "read" /\ cache' = [cache EXCEPT ![q.s] = y] /\ StepReq(r, x)
      BY <1>5, <1>9, ReqEdits DEF Fill
    <2>2. x \in ReqRows /\ x.pc = "admitted" /\ x.t = q.t
      BY <2>1, ReqEdits
    <2>3. v \in BOOLEAN
      BY DEF MayEnter
    <2>4. v => StillHas(q.s, q.admin, q.t)
      BY EnterIsRight
    <2> HIDE DEF v
    <2>5. y \in EntryRows /\ y.t = q.t /\ y.admin = q.admin /\ y.valid = v
      BY <2>1, <2>3, DoorRows
    <2> HIDE DEF q, x, y
    <2>6. ReqsOK'
      BY <1>1, <2>1, <2>2, ReqStep
    <2>7. cache' \in [Secrets -> EntryRows]
          /\ \A s \in Secrets : cache'[s] = IF s = q.s THEN y ELSE cache[s]
      BY <2>1, <2>5 DEF EntriesOK
    <2>8. EntriesOK'
      BY <1>1, <2>4, <2>5, <2>7, EntryStep
    <2> QED BY <2>6, <2>8
  <1>10. ASSUME NEW r \in Reqs, Capture(r) PROVE ReqsOK' /\ EntriesOK'
    <2> DEFINE q == req[r]
               v == MayEnter(q.s, q.admin, q.t)
               x == OpenReq(q, v)
    <2>1. /\ q \in ReqRows /\ q.t \in Tenants /\ q.pc = "admitted"
          /\ StepReq(r, x) /\ UNCHANGED cache
      BY <1>5, <1>10 DEF Capture, OpenReq
    <2>2. v \in BOOLEAN
      BY DEF MayEnter
    <2>3. v => StillHas(q.s, q.admin, q.t)
      BY EnterIsRight
    <2> HIDE DEF v, q
    <2>4. /\ x \in ReqRows /\ x.pc = "open" /\ x.t = q.t /\ x.s = q.s
          /\ x.admin = q.admin /\ x.valid = v
      BY <2>1, <2>2, OpenedReqs
    <2> HIDE DEF x
    <2>5. ReqsOK'
      BY <1>1, <2>1, <2>3, <2>4, ReqStep
    <2> QED BY <1>2, <2>1, <2>5
  <1>11. ASSUME NEW r \in Reqs, Serve(r) \/ CloseSocket(r) PROVE ReqsOK' /\ EntriesOK'
    BY <1>2, <1>6, <1>11 DEF Serve, CloseSocket
  <1>12. ASSUME NEW s \in Secrets, CacheLapse(s) PROVE ReqsOK' /\ EntriesOK'
    BY <1>3, <1>4, <1>12 DEF CacheLapse
  <1> QED BY <1>7, <1>8, <1>9, <1>10, <1>11, <1>12 DEF BearerStep

(* clear_admin_pat: the entries that lose their pursuer are removed. *)
LEMMA ClearKeeps ==
    ASSUME IInv, ReqsOK, EntriesOK, NEW j \in Jobs, Clear(j)
    PROVE  ReqsOK' /\ EntriesOK'
  <1>1. /\ UNCHANGED <<role, tok, owner, req>> /\ job[j].pc = "clear"
        /\ job' = [job EXCEPT ![j] = Aftermath("evict", job[j].who, job[j].reach)]
        /\ cache' = [s \in Secrets |->
                       IF cache[s].admin \in job[j].who THEN NoEntry ELSE cache[s]]
    BY DEF Clear, ClearAdminPat, ClearEntries
  <1>2. /\ job'[j].pc = "evict" /\ job'[j].reach = job[j].reach
        /\ \A i \in Jobs \ {j} : job'[i] = job[i]
    BY <1>1 DEF Aftermath, IInv, TypeOK
  <1>3. \A s, a, t : StillHas(s, a, t)' <=> StillHas(s, a, t)
    BY <1>1 DEF StillHas
  <1>4. \A t : Unevicted(t) => Unevicted(t)'
    BY <1>1, <1>2 DEF Unevicted
  <1>5. \A a : Uncleared(a) => Uncleared(a)' \/ a \in job[j].who
    BY <1>2 DEF Uncleared
  <1>6. ReqsOK'
    BY <1>1, <1>3, <1>4 DEF ReqsOK, Addressed, ReachSuffices
  <1>7. cache' \in [Secrets -> EntryRows]
    BY <1>1, DoorRows DEF EntriesOK
  <1>8. EntriesInvalidated'
    <2> SUFFICES ASSUME NEW s \in Secrets, cache'[s].t # "none", cache'[s].valid,
                        ~ Uncleared(cache[s].admin)'
                 PROVE  StillHas(s, cache[s].admin, cache[s].t)'
      BY DEF EntriesInvalidated
    <2>1. cache'[s] = cache[s] /\ cache[s].admin \notin job[j].who
      BY <1>1, DoorRows
    <2>2. ~ Uncleared(cache[s].admin)
      BY <1>5, <2>1
    <2> QED BY <1>3, <2>1, <2>2 DEF EntriesOK, EntriesInvalidated
  <1> QED BY <1>6, <1>7, <1>8 DEF EntriesOK

(* evict_reach: the sockets that lose their pursuer are marked. *)
LEMMA EvictKeeps ==
    ASSUME IInv, ReqsOK, EntriesOK, NEW j \in Jobs, Evict(j)
    PROVE  ReqsOK' /\ EntriesOK'
  <1> DEFINE v(r) == req[r].pc = "open" /\ (job[j].reach.wide \/ req[r].t \in job[j].reach.ids)
  <1>1. /\ UNCHANGED <<role, tok, owner, cache>> /\ job[j].pc = "evict"
        /\ job' = [job EXCEPT ![j] = Idle]
        /\ req' = [r \in Reqs |-> [req[r] EXCEPT !.marked = @ \/ v(r)]]
    BY DEF Evict, EvictReach, Return, BumpReach
  <1>2. \A i \in Jobs \ {j} : job'[i] = job[i]
    BY <1>1 DEF IInv, TypeOK
  <1>3. \A s, a, t : StillHas(s, a, t)' <=> StillHas(s, a, t)
    BY <1>1 DEF StillHas
  <1>4. \A a : Uncleared(a) => Uncleared(a)'
    BY <1>1, <1>2 DEF Uncleared
  <1>5. \A t : Unevicted(t) => \/ Unevicted(t)'
                              \/ job[j].reach.wide \/ t \in job[j].reach.ids
    BY <1>2 DEF Unevicted
  <1>6. EntriesOK'
    BY <1>1, <1>3, <1>4 DEF EntriesOK, EntriesInvalidated
  <1>7. ASSUME NEW r \in Reqs
        PROVE  /\ req'[r] \in ReqRows /\ req'[r].pc = req[r].pc /\ req'[r].t = req[r].t
               /\ req'[r].s = req[r].s /\ req'[r].admin = req[r].admin
               /\ req'[r].valid = req[r].valid
               /\ req[r].marked => req'[r].marked
               /\ v(r) => req'[r].marked
    <2>1. req[r] \in ReqRows
      BY DEF ReqsOK
    <2>2. v(r) \in BOOLEAN
      OBVIOUS
    <2> DEFINE b == v(r)
    <2>3. req'[r] = MarkedReq(req[r], b) /\ b \in BOOLEAN
      BY <1>1, <2>2 DEF MarkedReq
    <2> HIDE DEF v, b
    <2> QED BY <2>1, <2>3, Marks DEF b
  <1>8. req' \in [Reqs -> ReqRows] /\ Addressed'
    BY <1>1, <1>7 DEF ReqsOK, Addressed
  <1>9. ReachSuffices'
    <2> SUFFICES ASSUME NEW r \in Reqs, req'[r].pc = "open", req'[r].valid,
                        ~ req'[r].marked, ~ Unevicted(req[r].t)'
                 PROVE  StillHas(req[r].s, req[r].admin, req[r].t)'
      BY DEF ReachSuffices
    <2>1. ~ req[r].marked /\ ~ v(r) /\ req'[r].t = req[r].t
      BY <1>7
    <2>2. ~ Unevicted(req[r].t)
      BY <1>5, <1>7, <2>1
    <2> QED BY <1>3, <1>7, <2>1, <2>2 DEF ReqsOK, ReachSuffices
  <1> QED BY <1>6, <1>8, <1>9 DEF ReqsOK

(* The handlers' commits. *)
LEMMA IdentityKeeps ==
    ASSUME IInv, ReqsOK, EntriesOK, IdentityStep
    PROVE  ReqsOK' /\ EntriesOK'
  <1>1. UNCHANGED <<cache, req>>
    BY DEF IdentityStep, doorVars
  <1>2. EntriesOK'
    <2>1. EntriesInvalidated'
      <3> SUFFICES ASSUME NEW s \in Secrets, cache[s].t # "none", cache[s].valid,
                          ~ Uncleared(cache[s].admin)'
                   PROVE  StillHas(s, cache[s].admin, cache[s].t)'
        BY <1>1 DEF EntriesInvalidated
      <3>1. cache[s].t \in Tenants
        BY DEF EntriesOK, EntryRows
      <3>2. ~ Uncleared(cache[s].admin)'
        BY <1>1
      <3>3. PICK a \in 0 .. MaxAdmin, t \in Tenants : a = cache[s].admin /\ t = cache[s].t
        BY <3>1 DEF EntriesOK, EntryRows
      <3>4. ~ Uncleared(a)' /\ ~ Pursued(a, t)' /\ ~ Uncleared(a)
        BY <1>1, <3>3, IdentityPursues DEF Pursued
      <3>5. StillHas(s, a, t)
        BY <3>3, <3>4 DEF EntriesOK, EntriesInvalidated
      <3>6. StillHas(s, a, t)'
        BY <3>4, <3>5, IdentityPursues
      <3> QED BY <1>1, <3>3, <3>6
    <2> QED BY <1>1, <2>1 DEF EntriesOK
  <1>3. ReachSuffices'
    <2> SUFFICES ASSUME NEW r \in Reqs, req[r].pc = "open", req[r].valid,
                        ~ req[r].marked, ~ Unevicted(req[r].t)'
                 PROVE  StillHas(req[r].s, req[r].admin, req[r].t)'
      BY <1>1 DEF ReachSuffices
    <2>1. PICK s \in 0 .. MaxSecret, a \in 0 .. MaxAdmin, t \in Tenants :
             s = req[r].s /\ a = req[r].admin /\ t = req[r].t
      BY DEF ReqsOK, ReqRows, Addressed
    <2>2. ~ Pursued(a, t)' /\ ~ Unevicted(t)
      BY <1>1, <2>1, IdentityPursues DEF Pursued
    <2>3. StillHas(s, a, t)
      BY <2>1, <2>2 DEF ReqsOK, ReachSuffices
    <2>4. StillHas(s, a, t)'
      BY <2>2, <2>3, IdentityPursues
    <2> QED BY <1>1, <2>1, <2>4
  <1>4. ReqsOK'
    BY <1>1, <1>3 DEF ReqsOK, Addressed
  <1> QED BY <1>2, <1>4

LEMMA DoorInitInv == DoorInit => DoorInv
  <1> SUFFICES ASSUME DoorInit PROVE IInv /\ ReqsOK /\ EntriesOK
    BY DoorParts
  <1>1. IInv
    BY InitIInv DEF DoorInit
  <1>2. ReqsOK
    BY DoorRows DEF DoorInit, InitDoor, ReqsOK, Addressed, ReachSuffices
  <1>3. EntriesOK
    BY DoorRows DEF DoorInit, InitDoor, EntriesOK, EntriesInvalidated
  <1> QED BY <1>1, <1>2, <1>3

LEMMA DoorInductive == DoorSpec => []DoorInv
  <1>1. DoorInv /\ [DoorNext]_allVars => DoorInv'
    <2> SUFFICES ASSUME DoorInv, [DoorNext]_allVars PROVE DoorInv'
      OBVIOUS
    <2>1. IInv /\ ReqsOK /\ EntriesOK
      BY DoorParts
    <2>2. CASE UNCHANGED allVars
      <3>1. UNCHANGED <<tok, role, owner, job, cache, req>> /\ UNCHANGED idVars
        BY <2>2 DEF allVars, idVars
      <3>2. IInv'
        BY <2>1, <3>1, TypeStep, OwnerStep, ReadyStep, MintedStep, RowsStep, LoginStep DEF IInv
      <3>3. ReqsOK'
        BY <2>1, <3>1, Frozen DEF ReqsOK, Addressed, ReachSuffices
      <3>4. EntriesOK'
        BY <2>1, <3>1, Frozen DEF EntriesOK, EntriesInvalidated
      <3> QED BY <3>2, <3>3, <3>4, DoorParts, PTL
    <2>3. CASE DoorNext
      <3>1. [Next]_idVars
        <4>1. CASE IdentityStep
          BY <4>1 DEF IdentityStep, Next
        <4>2. CASE \E j \in Jobs : Clear(j) \/ Evict(j)
          BY <4>2 DEF Clear, Evict, Next
        <4>3. CASE BearerStep
          BY <4>3 DEF BearerStep, Probe, ReadMeta, Fill, Serve, Capture, CloseSocket,
             CacheLapse, idVars
        <4> QED BY <2>3, <4>1, <4>2, <4>3 DEF DoorNext, BearerStep
      <3>2. IInv'
        BY <2>1, <3>1, TypeStep, OwnerStep, ReadyStep, MintedStep, RowsStep, LoginStep DEF IInv
      <3>3. ReqsOK' /\ EntriesOK'
        BY <2>1, <2>3, IdentityKeeps, ClearKeeps, EvictKeeps, BearerKeeps
        DEF DoorNext, BearerStep
      <3> QED BY <3>2, <3>3, DoorParts, PTL
    <2> QED BY <2>2, <2>3
  <1> QED BY <1>1, DoorInitInv, PTL DEF DoorSpec

(* Whatever ends a credential's right to a tenant is followed by a clear   *)
(* of its cache entry: an entry that was good when it was written is good, *)
(* or the hook of the handler that ended it is still to run, or the token  *)
(* was revoked by a refresh in another admin's name.                       *)
THEOREM EndedRightsLeaveTheCache == DoorSpec => []EntriesInvalidated
  <1>1. DoorInv => EntriesInvalidated
    BY DEF DoorInv
  <1> QED BY <1>1, DoorInductive, PTL

(* The reach read with the commit covers every socket of the credential:   *)
(* one that was opened with a good credential that has since lost its      *)
(* tenant is marked for closing, or will be when the handler goes on.      *)
THEOREM ReachCoversSockets == DoorSpec => []ReachSuffices
  <1>1. DoorInv => ReachSuffices
    BY DEF DoorInv
  <1> QED BY <1>1, DoorInductive, PTL

(* The cache and the requests in flight keep their types. *)
THEOREM DoorTypes == DoorSpec => []DoorTypeOK
  <1>1. DoorInv => DoorTypeOK
    BY DEF DoorInv
  <1> QED BY <1>1, DoorInductive, PTL

============================================================================
