--------------------------- MODULE TenancyProofs ---------------------------
(***************************************************************************)
(* Theorems about TenantRequests, TenantUsers, AuditLog and Backups, and   *)
(* about the access rules (RowPolicy, ListQuery, FileRules): parts that    *)
(* share no state.                                                         *)
(*                                                                         *)
(* Requests: ReviewTruth is inductive with the types.  A request goes with *)
(* its requester or with its tenant, so that an id is never given out      *)
(* again while a pending request still points at it.                       *)
(*                                                                         *)
(* Users: EntriesCurrent is not inductive by itself.  A handler that takes *)
(* sessions back clears the cache for one user id, so the proof needs that *)
(* a token names the same user in its session, in its cache entry and in a *)
(* bearer lookup that has not stored its entry yet (OneUser below), and    *)
(* that a role token is never left to a user's handler.                    *)
(*                                                                         *)
(* Audit: channel, buffer, table, losses and drops share out the numbers   *)
(* of the entries, and every step moves numbers from one to another.       *)
(*                                                                         *)
(* Backups: while archives are scanned, the days taken are the script's    *)
(* own and days not before any archive that is left, each with an archive  *)
(* that is kept, so that they number no more than the later days of the    *)
(* archive at hand.  A restore owns its directory until it has answered,   *)
(* unless two restores of the tenant fell into one second.                 *)
(*                                                                         *)
(* Rules: a walk of a clause is a function defined from the deepest level  *)
(* up.  That such a function exists is shown by induction over a set of    *)
(* depths; from there both evaluators, and a template under two sets of    *)
(* arguments, are compared node by node and level by level.  A list and a  *)
(* read of a file meet in the longest prefix that matches its path.        *)
(***************************************************************************)
EXTENDS TenantRequests, TenantUsers, AuditLog, Backups, ListQuery, FileRules, FiniteSetTheorems, NaturalsInduction,
        WellFoundedInduction, TLAPS

----------------------------------------------------------------------------
(* The request queues. *)

RqInv == RqTypeOK /\ ReviewTruth

(* A record of an admin is not the absence of one, and likewise a tenant's.*)
LEMMA RowsAreRows ==
    /\ \A role \in Roles, b \in Bonuses : [role |-> role, bonus |-> b] # NoAdmin
    /\ \A r \in AdmRows : r # NoAdmin => /\ r \in [role : Roles, bonus : Bonuses]
                                         /\ r.role \in Roles /\ r.bonus \in Bonuses
    /\ \A r \in TenRows : r # NoTenant =>
          /\ r \in [owner : AdminIds \cup {NoAdmin}, tier : 1 .. MaxQuotaTier, deleted : BOOLEAN]
          /\ r.owner \in AdminIds \cup {NoAdmin} /\ r.tier \in 1 .. MaxQuotaTier /\ r.deleted \in BOOLEAN
    /\ \A o \in AdminIds \cup {NoAdmin}, n \in 1 .. MaxQuotaTier, d \in BOOLEAN :
          [owner |-> o, tier |-> n, deleted |-> d] # NoTenant
  <1>1. ASSUME NEW role \in Roles, NEW b \in Bonuses
        PROVE  [role |-> role, bonus |-> b] # NoAdmin
    <2>1. b \in Int
      BY RequestsAssumption DEF Bonuses
    <2>2. [role |-> role, bonus |-> b] \in [role : Roles, bonus : Int]
      BY <2>1
    <2> QED  BY <2>2, RequestsAssumption DEF Roles
  <1>2. \A r \in AdmRows : r # NoAdmin => /\ r \in [role : Roles, bonus : Bonuses]
                                         /\ r.role \in Roles /\ r.bonus \in Bonuses
    BY DEF AdmRows
  <1>3. \A r \in TenRows : r # NoTenant =>
          /\ r \in [owner : AdminIds \cup {NoAdmin}, tier : 1 .. MaxQuotaTier, deleted : BOOLEAN]
          /\ r.owner \in AdminIds \cup {NoAdmin} /\ r.tier \in 1 .. MaxQuotaTier /\ r.deleted \in BOOLEAN
    BY DEF TenRows
  <1>4. ASSUME NEW o \in AdminIds \cup {NoAdmin}, NEW n \in 1 .. MaxQuotaTier, NEW d \in BOOLEAN
        PROVE  [owner |-> o, tier |-> n, deleted |-> d] # NoTenant
    <2>1. [owner |-> o, tier |-> n, deleted |-> d]
             \in [owner : AdminIds \cup {NoAdmin}, tier : Int, deleted : BOOLEAN]
      OBVIOUS
    <2> QED  BY <2>1, RequestsAssumption
  <1> QED  BY <1>1, <1>2, <1>3, <1>4

(* What the handlers make of a row. *)
LEMMA AdminRowChanges ==
    ASSUME NEW r \in AdmRows, r # NoAdmin, NEW role \in Roles, NEW b \in Bonuses
    PROVE  /\ [r EXCEPT !.role = role] \in AdmRows /\ [r EXCEPT !.role = role] # NoAdmin
           /\ [r EXCEPT !.bonus = b] \in AdmRows /\ [r EXCEPT !.bonus = b] # NoAdmin
           /\ [r EXCEPT !.bonus = b].bonus = b
  <1>1. r \in [role : Roles, bonus : Bonuses]
    BY RowsAreRows
  <1>2. /\ [r EXCEPT !.role = role] = [role |-> role, bonus |-> r.bonus]
        /\ [r EXCEPT !.bonus = b] = [role |-> r.role, bonus |-> b]
        /\ r.role \in Roles /\ r.bonus \in Bonuses
    BY <1>1
  <1> QED  BY <1>2, RowsAreRows DEF AdmRows

LEMMA TenantRowChanges ==
    ASSUME NEW r \in TenRows, r # NoTenant, NEW o \in AdminIds \cup {NoAdmin},
           NEW n \in 1 .. MaxQuotaTier
    PROVE  /\ [r EXCEPT !.owner = o] \in TenRows /\ [r EXCEPT !.owner = o] # NoTenant
           /\ [r EXCEPT !.tier = n] \in TenRows /\ [r EXCEPT !.tier = n] # NoTenant
           /\ [r EXCEPT !.tier = n].tier = n
           /\ [r EXCEPT !.deleted = TRUE] \in TenRows /\ [r EXCEPT !.deleted = TRUE] # NoTenant
  <1>1. r \in [owner : AdminIds \cup {NoAdmin}, tier : 1 .. MaxQuotaTier, deleted : BOOLEAN]
    BY RowsAreRows
  <1> DEFINE R == [owner : AdminIds \cup {NoAdmin}, tier : 1 .. MaxQuotaTier, deleted : BOOLEAN]
  <1>2. [r EXCEPT !.owner = o] \in R
    BY <1>1
  <1>3. [r EXCEPT !.tier = n] \in R /\ [r EXCEPT !.tier = n].tier = n
    BY <1>1
  <1>4. [r EXCEPT !.deleted = TRUE] \in R
    BY <1>1
  <1>5. \A x \in R : x # NoTenant /\ x \in TenRows
    BY RequestsAssumption DEF TenRows
  <1> QED  BY <1>2, <1>3, <1>4, <1>5

(* A request whose status or age changes is still the same request. *)
LEMMA RequestChanges ==
    /\ \A r \in CapReqs, s \in Statuses : r # NoReq =>
          /\ [r EXCEPT !.status = s] \in CapReqs /\ [r EXCEPT !.status = s].by = r.by
          /\ [r EXCEPT !.status = s].era = r.era /\ [r EXCEPT !.status = s].status = s
          /\ [r EXCEPT !.today = FALSE] \in CapReqs /\ [r EXCEPT !.today = FALSE].by = r.by
          /\ [r EXCEPT !.today = FALSE].era = r.era /\ [r EXCEPT !.today = FALSE].status = r.status
          /\ r.by \in AdminIds /\ r.want \in 1 .. MaxCap
    /\ \A r \in QuotaReqs, s \in Statuses : r # NoReq =>
          /\ [r EXCEPT !.status = s] \in QuotaReqs /\ [r EXCEPT !.status = s].by = r.by
          /\ [r EXCEPT !.status = s].of = r.of /\ [r EXCEPT !.status = s].tera = r.tera
          /\ [r EXCEPT !.status = s].era = r.era /\ [r EXCEPT !.status = s].status = s
          /\ [r EXCEPT !.today = FALSE] \in QuotaReqs /\ [r EXCEPT !.today = FALSE].by = r.by
          /\ [r EXCEPT !.today = FALSE].of = r.of /\ [r EXCEPT !.today = FALSE].tera = r.tera
          /\ [r EXCEPT !.today = FALSE].era = r.era /\ [r EXCEPT !.today = FALSE].status = r.status
          /\ r.by \in AdminIds /\ r.of \in TenantIds /\ r.want \in 1 .. MaxQuotaTier
  BY DEF CapReqs, QuotaReqs, Statuses

(* The last conjuncts of ReviewTruth for one request of each queue. *)
CapTrue(r) == adm[capq[r].by] # NoAdmin /\ capq[r].era = aera[capq[r].by]
QuotaTrue(r) ==
    /\ adm[quoq[r].by] # NoAdmin /\ quoq[r].era = aera[quoq[r].by]
    /\ ten[quoq[r].of] # NoTenant /\ quoq[r].tera = tera[quoq[r].of]

LEMMA ReviewParts ==
    ReviewTruth <=> /\ \A r \in Pending(capq) : CapTrue(r)
                    /\ \A r \in Pending(quoq) : QuotaTrue(r)
  BY DEF ReviewTruth, CapRequestsPage, QuotaRequestsPage, CapTrue, QuotaTrue

LEMMA RqInitial == RqInit => RqInv
  <1> SUFFICES ASSUME RqInit PROVE RqInv
    OBVIOUS
  <1>1. adm \in [AdminIds -> AdmRows]
    BY RequestsAssumption DEF RqInit, AdmRows, Roles, Bonuses
  <1>2. /\ ten \in [TenantIds -> TenRows] /\ capq \in [ReqIds -> CapReqs]
        /\ quoq \in [ReqIds -> QuotaReqs]
    BY DEF RqInit, TenRows, CapReqs, QuotaReqs
  <1>3. aera \in [AdminIds -> 0 .. MaxEra] /\ tera \in [TenantIds -> 0 .. MaxEra]
    BY RequestsAssumption DEF RqInit
  <1>4. ReviewTruth
    BY DEF RqInit, ReviewTruth, CapRequestsPage, QuotaRequestsPage, Pending
  <1> QED  BY <1>1, <1>2, <1>3, <1>4 DEF RqInv, RqTypeOK

(* Filing: the new request carries the eras of the rows it was read from. *)
LEMMA CapRequestFiled ==
    ASSUME RqInv, NEW a \in AdminIds, NEW q \in ReqIds, NEW cap \in 1 .. MaxCap,
           CreateCapRequest(a, q, cap)
    PROVE  RqInv'
  <1> DEFINE new == [by |-> a, want |-> cap, status |-> "pending", today |-> TRUE, era |-> aera[a]]
  <1>1. new \in CapReqs /\ new.by = a /\ new.era = aera[a]
    BY DEF RqInv, RqTypeOK, CapReqs, Statuses
  <1>2. capq' = [capq EXCEPT ![q] = new] /\ UNCHANGED <<adm, ten, quoq, aera, tera>> /\ adm[a] # NoAdmin
    BY DEF CreateCapRequest
  <1> HIDE DEF new
  <1>3. RqTypeOK'
    BY <1>1, <1>2 DEF RqInv, RqTypeOK
  <1>4. ReviewTruth'
    BY <1>1, <1>2 DEF RqInv, RqTypeOK, ReviewTruth, CapRequestsPage, QuotaRequestsPage, Pending
  <1> QED  BY <1>3, <1>4 DEF RqInv

LEMMA QuotaRequestFiled ==
    ASSUME RqInv, NEW a \in AdminIds, NEW t \in TenantIds, NEW q \in ReqIds,
           NEW tr \in 1 .. MaxQuotaTier, CreateQuotaRequest(a, t, q, tr)
    PROVE  RqInv'
  <1> DEFINE new == [of |-> t, by |-> a, want |-> tr, status |-> "pending", today |-> TRUE,
                     era |-> aera[a], tera |-> tera[t]]
  <1>1. new \in QuotaReqs /\ new.by = a /\ new.era = aera[a] /\ new.of = t /\ new.tera = tera[t]
    BY DEF RqInv, RqTypeOK, QuotaReqs, Statuses
  <1>2. /\ quoq' = [quoq EXCEPT ![q] = new] /\ UNCHANGED <<adm, ten, capq, aera, tera>>
        /\ adm[a] # NoAdmin /\ ten[t] # NoTenant
    BY DEF CreateQuotaRequest, LiveTenant
  <1> HIDE DEF new
  <1>3. RqTypeOK'
    BY <1>1, <1>2 DEF RqInv, RqTypeOK
  <1>4. ReviewTruth'
    BY <1>1, <1>2 DEF RqInv, RqTypeOK, ReviewTruth, CapRequestsPage, QuotaRequestsPage, Pending
  <1> QED  BY <1>3, <1>4 DEF RqInv

(* Steps that change rows of admins or tenants, and no request.  What the  *)
(* pending requests need of them: a row that was there stays there, and    *)
(* an id that is given out was free.                                       *)
LEMMA RowsMove ==
    ASSUME RqInv, UNCHANGED <<capq, quoq>>,
           adm' \in [AdminIds -> AdmRows], ten' \in [TenantIds -> TenRows],
           aera' \in [AdminIds -> 0 .. MaxEra], UNCHANGED tera,
           \A x \in AdminIds : adm[x] # NoAdmin => adm'[x] # NoAdmin /\ aera'[x] = aera[x],
           \A x \in TenantIds : ten[x] # NoTenant => ten'[x] # NoTenant
    PROVE  RqInv'
  <1>1. RqTypeOK'
    BY DEF RqInv, RqTypeOK
  <1>2. \A r \in Pending(capq) : capq[r].by \in AdminIds
    BY RequestChanges DEF RqInv, RqTypeOK, Pending, Statuses
  <1>3. \A r \in Pending(quoq) : quoq[r].by \in AdminIds /\ quoq[r].of \in TenantIds
    BY RequestChanges DEF RqInv, RqTypeOK, Pending, Statuses
  <1>4. ReviewTruth'
    BY <1>2, <1>3 DEF RqInv, ReviewTruth, CapRequestsPage, QuotaRequestsPage, Pending
  <1> QED  BY <1>1, <1>4 DEF RqInv

(* The request of a decision leaves the page; the others stay as they are. *)
LEMMA CapRequestDecided ==
    ASSUME RqInv, NEW o \in AdminIds, NEW q \in ReqIds, NEW ok \in BOOLEAN,
           DecideCapRequest(o, q, ok)
    PROVE  /\ RqInv'
           /\ ok => EffectiveCap(adm'[capq[q].by].bonus) > LookupAdminCap(capq[q].by)
  <1> DEFINE a == capq[q].by
             s == IF ok THEN "approved" ELSE "rejected"
             b == BonusForTarget(capq[q].want)
             nb == [adm[a] EXCEPT !.bonus = b]
  <1>1. /\ q \in Pending(capq) /\ capq[q] \in CapReqs /\ capq[q] # NoReq /\ s \in Statuses
        /\ a \in AdminIds /\ capq[q].want \in 1 .. MaxCap /\ s # "pending"
    BY RequestChanges DEF DecideCapRequest, CapDecidable, Pending, RqInv, RqTypeOK, Statuses
  <1>2. b \in Bonuses
    BY <1>1, RequestsAssumption DEF BonusForTarget, Bonuses
  <1>3. adm[a] # NoAdmin /\ adm[a] \in AdmRows
    BY <1>1 DEF RqInv, RqTypeOK, ReviewTruth, CapRequestsPage
  <1>4. capq' = [capq EXCEPT ![q] = [capq[q] EXCEPT !.status = s]]
    BY DEF DecideCapRequest
  <1>5. capq'[q] \in CapReqs /\ capq'[q].status # "pending"
    BY <1>1, <1>4, RequestChanges DEF RqInv, RqTypeOK
  <1>6. capq' \in [ReqIds -> CapReqs] /\ \A r \in ReqIds \ {q} : capq'[r] = capq[r]
    BY <1>4, <1>5 DEF RqInv, RqTypeOK
  <1>7. ok => adm' = [adm EXCEPT ![a] = nb]
    BY DEF DecideCapRequest
  <1>15. nb \in AdmRows /\ nb # NoAdmin /\ nb.bonus = b
    BY <1>2, <1>3, AdminRowChanges DEF Roles
  <1> HIDE DEF nb
  <1>8. /\ adm' \in [AdminIds -> AdmRows]
        /\ \A x \in AdminIds : adm[x] # NoAdmin => adm'[x] # NoAdmin
    <2>1. CASE ok
      BY <2>1, <1>1, <1>7, <1>15 DEF RqInv, RqTypeOK
    <2>2. CASE ~ok
      BY <2>2 DEF DecideCapRequest, RqInv, RqTypeOK
    <2> QED  BY <2>1, <2>2
  <1>9. UNCHANGED <<ten, quoq, aera, tera>>
    BY DEF DecideCapRequest
  <1> HIDE DEF a, b, s
  <1>10. \A r \in Pending(capq') : r \in Pending(capq) /\ capq'[r] = capq[r]
    BY <1>5, <1>6 DEF Pending
  <1>11. /\ \A r \in Pending(capq) : capq[r].by \in AdminIds
         /\ \A r \in Pending(quoq) : quoq[r].by \in AdminIds
    BY RequestChanges DEF RqInv, RqTypeOK, Pending, Statuses
  <1>12. ReviewTruth'
    BY <1>8, <1>9, <1>10, <1>11 DEF RqInv, ReviewTruth, CapRequestsPage, QuotaRequestsPage
  <1>13. RqTypeOK'
    BY <1>6, <1>8, <1>9 DEF RqInv, RqTypeOK
  <1>14. ASSUME ok PROVE EffectiveCap(adm'[a].bonus) > LookupAdminCap(a)
    <2>1. adm'[a].bonus = b
      BY <1>14, <1>1, <1>7, <1>15 DEF RqInv, RqTypeOK
    <2>2. capq[q].want > LookupAdminCap(a)
      BY <1>14 DEF DecideCapRequest, CapDecidable, a
    <2>3. EffectiveCap(b) = capq[q].want
      BY <1>1, RequestsAssumption DEF b, BonusForTarget, EffectiveCap
    <2> QED  BY <2>1, <2>2, <2>3
  <1> QED  BY <1>12, <1>13, <1>14 DEF RqInv, a

LEMMA QuotaRequestDecided ==
    ASSUME RqInv, NEW o \in AdminIds, NEW q \in ReqIds, NEW ok \in BOOLEAN,
           DecideQuotaRequest(o, q, ok)
    PROVE  /\ RqInv'
           /\ ok => ten'[quoq[q].of].tier > ten[quoq[q].of].tier
  <1> DEFINE t == quoq[q].of
             s == IF ok THEN "approved" ELSE "rejected"
             n == quoq[q].want
             nt == [ten[t] EXCEPT !.tier = n]
  <1>1. /\ q \in Pending(quoq) /\ quoq[q] \in QuotaReqs /\ quoq[q] # NoReq /\ s \in Statuses
        /\ t \in TenantIds /\ n \in 1 .. MaxQuotaTier /\ s # "pending"
    BY RequestChanges DEF DecideQuotaRequest, QuotaDecidable, Pending, RqInv, RqTypeOK, Statuses
  <1>3. ten[t] # NoTenant /\ ten[t] \in TenRows
    BY <1>1 DEF RqInv, RqTypeOK, ReviewTruth, QuotaRequestsPage
  <1>4. quoq' = [quoq EXCEPT ![q] = [quoq[q] EXCEPT !.status = s]]
    BY DEF DecideQuotaRequest
  <1>5. quoq'[q] \in QuotaReqs /\ quoq'[q].status # "pending"
    BY <1>1, <1>4, RequestChanges DEF RqInv, RqTypeOK
  <1>6. quoq' \in [ReqIds -> QuotaReqs] /\ \A r \in ReqIds \ {q} : quoq'[r] = quoq[r]
    BY <1>4, <1>5 DEF RqInv, RqTypeOK
  <1>7. ok => ten' = [ten EXCEPT ![t] = nt]
    BY DEF DecideQuotaRequest
  <1>15. nt \in TenRows /\ nt # NoTenant /\ nt.tier = n
    BY <1>1, <1>3, TenantRowChanges
  <1> HIDE DEF nt
  <1>8. /\ ten' \in [TenantIds -> TenRows]
        /\ \A x \in TenantIds : ten[x] # NoTenant => ten'[x] # NoTenant
    <2>1. CASE ok
      BY <2>1, <1>1, <1>7, <1>15 DEF RqInv, RqTypeOK
    <2>2. CASE ~ok
      BY <2>2 DEF DecideQuotaRequest, RqInv, RqTypeOK
    <2> QED  BY <2>1, <2>2
  <1>9. UNCHANGED <<adm, capq, aera, tera>>
    BY DEF DecideQuotaRequest
  <1> HIDE DEF t, n, s
  <1>10. \A r \in Pending(quoq') : r \in Pending(quoq) /\ quoq'[r] = quoq[r]
    BY <1>5, <1>6 DEF Pending
  <1>11. \A r \in Pending(quoq) : quoq[r].of \in TenantIds
    BY RequestChanges DEF RqInv, RqTypeOK, Pending, Statuses
  <1>12. ReviewTruth'
    BY <1>8, <1>9, <1>10, <1>11 DEF RqInv, ReviewTruth, CapRequestsPage, QuotaRequestsPage
  <1>13. RqTypeOK'
    BY <1>6, <1>8, <1>9 DEF RqInv, RqTypeOK
  <1>14. ASSUME ok PROVE ten'[t].tier > ten[t].tier
    <2>1. ten'[t].tier = n
      BY <1>14, <1>1, <1>7, <1>15 DEF RqInv, RqTypeOK
    <2>2. n > ten[t].tier
      BY <1>14 DEF DecideQuotaRequest, QuotaDecidable, t, n
    <2> QED  BY <2>1, <2>2
  <1> QED  BY <1>12, <1>13, <1>14 DEF RqInv, t

(* The janitor and the calendar. *)
LEMMA RequestsPruned == ASSUME RqInv, PruneOnce PROVE RqInv'
  <1>1. /\ capq' = [r \in ReqIds |-> IF Decided(capq, r) THEN NoReq ELSE capq[r]]
        /\ quoq' = [r \in ReqIds |-> IF Decided(quoq, r) THEN NoReq ELSE quoq[r]]
        /\ UNCHANGED <<adm, ten, aera, tera>>
    BY DEF PruneOnce
  <1>2. RqTypeOK'
    BY <1>1 DEF RqInv, RqTypeOK, CapReqs, QuotaReqs
  <1>3. ReviewTruth'
    BY <1>1 DEF RqInv, ReviewTruth, CapRequestsPage, QuotaRequestsPage, Pending, Decided
  <1> QED  BY <1>2, <1>3 DEF RqInv

LEMMA RequestsAge == ASSUME RqInv, Midnight PROVE RqInv'
  <1>1. /\ capq' = [r \in ReqIds |-> IF capq[r] = NoReq THEN NoReq ELSE [capq[r] EXCEPT !.today = FALSE]]
        /\ quoq' = [r \in ReqIds |-> IF quoq[r] = NoReq THEN NoReq ELSE [quoq[r] EXCEPT !.today = FALSE]]
        /\ UNCHANGED <<adm, ten, aera, tera>>
    BY DEF Midnight
  <1>2. ASSUME NEW r \in ReqIds
        PROVE  /\ capq'[r] \in CapReqs /\ quoq'[r] \in QuotaReqs
               /\ r \in Pending(capq') => /\ r \in Pending(capq) /\ capq'[r].by = capq[r].by
                                           /\ capq'[r].era = capq[r].era
               /\ r \in Pending(quoq') => /\ r \in Pending(quoq) /\ quoq'[r].by = quoq[r].by
                                           /\ quoq'[r].era = quoq[r].era /\ quoq'[r].of = quoq[r].of
                                           /\ quoq'[r].tera = quoq[r].tera
    <2>1. capq[r] = NoReq => capq'[r] = NoReq
      BY <1>1
    <2>2. quoq[r] = NoReq => quoq'[r] = NoReq
      BY <1>1
    <2>3. capq[r] # NoReq => /\ capq'[r] \in CapReqs /\ capq'[r].by = capq[r].by
                             /\ capq'[r].era = capq[r].era /\ capq'[r].status = capq[r].status
      BY <1>1, RequestChanges DEF RqInv, RqTypeOK, Statuses
    <2>4. quoq[r] # NoReq => /\ quoq'[r] \in QuotaReqs /\ quoq'[r].by = quoq[r].by
                             /\ quoq'[r].era = quoq[r].era /\ quoq'[r].status = quoq[r].status
                             /\ quoq'[r].of = quoq[r].of /\ quoq'[r].tera = quoq[r].tera
      BY <1>1, RequestChanges DEF RqInv, RqTypeOK, Statuses
    <2> QED  BY <2>1, <2>2, <2>3, <2>4 DEF Pending, CapReqs, QuotaReqs
  <1>3. RqTypeOK'
    <2>1. capq' \in [ReqIds -> CapReqs] /\ quoq' \in [ReqIds -> QuotaReqs]
      BY <1>1, <1>2
    <2> QED  BY <1>1, <2>1 DEF RqInv, RqTypeOK
  <1>4. Pending(capq') \subseteq ReqIds /\ Pending(quoq') \subseteq ReqIds
    BY DEF Pending
  <1>5. ASSUME NEW r \in Pending(capq')
        PROVE  adm'[capq'[r].by] # NoAdmin /\ capq'[r].era = aera'[capq'[r].by]
    <2>1. r \in Pending(capq) /\ capq'[r].by = capq[r].by /\ capq'[r].era = capq[r].era
      BY <1>2, <1>4
    <2> QED  BY <1>1, <2>1 DEF RqInv, ReviewTruth, CapRequestsPage
  <1>6. ASSUME NEW r \in Pending(quoq')
        PROVE  /\ adm'[quoq'[r].by] # NoAdmin /\ quoq'[r].era = aera'[quoq'[r].by]
               /\ ten'[quoq'[r].of] # NoTenant /\ quoq'[r].tera = tera'[quoq'[r].of]
    <2>1. /\ r \in Pending(quoq) /\ quoq'[r].by = quoq[r].by /\ quoq'[r].era = quoq[r].era
          /\ quoq'[r].of = quoq[r].of /\ quoq'[r].tera = quoq[r].tera
      BY <1>2, <1>4
    <2> QED  BY <1>1, <2>1 DEF RqInv, ReviewTruth, QuotaRequestsPage
  <1>7. ReviewTruth'
    BY <1>5, <1>6 DEF ReviewTruth, CapRequestsPage, QuotaRequestsPage
  <1> QED  BY <1>3, <1>7 DEF RqInv

(* Removing an admin takes the requests it filed along; creating a tenant  *)
(* over a deleted one takes the requests of the deleted one along.         *)
LEMMA AdminRemoved == ASSUME RqInv, NEW a \in AdminIds, RemoveAdmin(a) PROVE RqInv'
  <1>1. /\ adm' = [adm EXCEPT ![a] = NoAdmin]
        /\ capq' = [r \in ReqIds |-> IF capq[r] # NoReq /\ capq[r].by = a THEN NoReq ELSE capq[r]]
        /\ quoq' = [r \in ReqIds |-> IF quoq[r] # NoReq /\ quoq[r].by = a THEN NoReq ELSE quoq[r]]
        /\ UNCHANGED <<aera, tera>>
    BY DEF RemoveAdmin
  <1>2. ASSUME NEW t \in TenantIds
        PROVE  ten'[t] \in TenRows /\ (ten[t] # NoTenant => ten'[t] # NoTenant)
    <2>1. ten[t] \in TenRows
      BY DEF RqInv, RqTypeOK
    <2>2. CASE ten[t] # NoTenant /\ ten[t].owner = a
      <3> DEFINE orphan == [ten[t] EXCEPT !.owner = NoAdmin]
      <3>1. ten'[t] = orphan
        BY <2>2 DEF RemoveAdmin
      <3>2. orphan \in TenRows /\ orphan # NoTenant
        <4>1. NoAdmin \in AdminIds \cup {NoAdmin} /\ 1 \in 1 .. MaxQuotaTier
          BY RequestsAssumption
        <4> QED  BY <2>1, <2>2, <4>1, TenantRowChanges
      <3> QED  BY <3>1, <3>2
    <2>3. CASE ~(ten[t] # NoTenant /\ ten[t].owner = a)
      BY <2>1, <2>3 DEF RemoveAdmin
    <2> QED  BY <2>2, <2>3
  <1>3. ten' \in [TenantIds -> TenRows]
    BY <1>2 DEF RemoveAdmin
  <1>4. RqTypeOK'
    BY <1>1, <1>3 DEF RqInv, RqTypeOK, AdmRows, CapReqs, QuotaReqs
  <1>5. \A r \in Pending(quoq) : quoq[r].of \in TenantIds
    BY RequestChanges DEF RqInv, RqTypeOK, Pending, Statuses
  <1>6. ReviewTruth'
    BY <1>1, <1>2, <1>5 DEF RqInv, RqTypeOK, ReviewTruth, CapRequestsPage, QuotaRequestsPage, Pending
  <1> QED  BY <1>4, <1>6 DEF RqInv

LEMMA TenantMade == ASSUME RqInv, NEW a \in AdminIds, NEW t \in TenantIds, MakeTenant(a, t) PROVE RqInv'
  <1> DEFINE new == [owner |-> a, tier |-> 1, deleted |-> FALSE]
  <1>1. /\ ten' = [ten EXCEPT ![t] = new]
        /\ quoq' = [r \in ReqIds |-> IF quoq[r] # NoReq /\ quoq[r].of = t THEN NoReq ELSE quoq[r]]
        /\ tera' = [tera EXCEPT ![t] = @ + 1] /\ tera[t] < MaxEra
        /\ UNCHANGED <<adm, capq, aera>>
    BY DEF MakeTenant
  <1>2. new \in TenRows
    BY RequestsAssumption DEF TenRows
  <1> HIDE DEF new
  <1>3. tera' \in [TenantIds -> 0 .. MaxEra]
    BY <1>1, RequestsAssumption DEF RqInv, RqTypeOK
  <1>4. RqTypeOK'
    BY <1>1, <1>2, <1>3 DEF RqInv, RqTypeOK, QuotaReqs
  <1>5. ReviewTruth'
    BY <1>1 DEF RqInv, RqTypeOK, ReviewTruth, CapRequestsPage, QuotaRequestsPage, Pending
  <1> QED  BY <1>4, <1>5 DEF RqInv

(* One row of an admin, or of a tenant, is replaced by another row. *)
LEMMA AdminRowMoves ==
    ASSUME RqInv, NEW a \in AdminIds, NEW row \in AdmRows, row # NoAdmin,
           adm' = [adm EXCEPT ![a] = row], UNCHANGED <<ten, capq, quoq, aera, tera>>
    PROVE  RqInv'
  <1>1. adm' \in [AdminIds -> AdmRows] /\ \A x \in AdminIds : adm[x] # NoAdmin => adm'[x] # NoAdmin
    BY DEF RqInv, RqTypeOK
  <1>2. ten' \in [TenantIds -> TenRows] /\ aera' \in [AdminIds -> 0 .. MaxEra]
    BY DEF RqInv, RqTypeOK
  <1> QED  BY <1>1, <1>2, RowsMove

LEMMA TenantRowMoves ==
    ASSUME RqInv, NEW t \in TenantIds, NEW row \in TenRows, row # NoTenant,
           ten' = [ten EXCEPT ![t] = row], UNCHANGED <<adm, capq, quoq, aera, tera>>
    PROVE  RqInv'
  <1>1. ten' \in [TenantIds -> TenRows] /\ \A x \in TenantIds : ten[x] # NoTenant => ten'[x] # NoTenant
    BY DEF RqInv, RqTypeOK
  <1>2. adm' \in [AdminIds -> AdmRows] /\ aera' \in [AdminIds -> 0 .. MaxEra]
    BY DEF RqInv, RqTypeOK
  <1> QED  BY <1>1, <1>2, RowsMove

LEMMA AdminsChange ==
    ASSUME RqInv, NEW a \in AdminIds,
           \/ \E o \in AdminIds, cap \in -1 .. MaxCap : PatchAdminTenantCap(o, a, cap)
           \/ \E role \in Roles : SetRole(a, role)
           \/ InviteAdmin(a)
    PROVE  RqInv'
  <1>1. adm[a] \in AdmRows
    BY DEF RqInv, RqTypeOK
  <1>2. "owner" \in Roles /\ 0 \in Bonuses
    BY RequestsAssumption DEF Roles, Bonuses
  <1>3. ASSUME NEW o \in AdminIds, NEW cap \in -1 .. MaxCap, PatchAdminTenantCap(o, a, cap)
        PROVE  RqInv'
    <2> DEFINE b == IF cap = -1 THEN 0 ELSE BonusForTarget(cap)
               row == [adm[a] EXCEPT !.bonus = b]
    <2>1. b \in Bonuses
      BY <1>3, RequestsAssumption DEF Bonuses, BonusForTarget, PatchAdminTenantCap
    <2>2. adm' = [adm EXCEPT ![a] = row] /\ adm[a] # NoAdmin /\ UNCHANGED <<ten, capq, quoq, aera, tera>>
      BY <1>3 DEF PatchAdminTenantCap
    <2>3. row \in AdmRows /\ row # NoAdmin
      BY <1>1, <1>2, <2>1, <2>2, AdminRowChanges
    <2> HIDE DEF row
    <2> QED  BY <2>2, <2>3, AdminRowMoves
  <1>4. ASSUME NEW role \in Roles, SetRole(a, role) PROVE RqInv'
    <2> DEFINE row == [adm[a] EXCEPT !.role = role]
    <2>2. adm' = [adm EXCEPT ![a] = row] /\ adm[a] # NoAdmin /\ UNCHANGED <<ten, capq, quoq, aera, tera>>
      BY <1>4 DEF SetRole
    <2>3. row \in AdmRows /\ row # NoAdmin
      BY <1>1, <1>2, <2>2, AdminRowChanges
    <2> HIDE DEF row
    <2> QED  BY <2>2, <2>3, AdminRowMoves
  <1>5. ASSUME InviteAdmin(a) PROVE RqInv'
    <2> DEFINE row == [role |-> "member", bonus |-> 0]
    <2>1. /\ adm' = [adm EXCEPT ![a] = row] /\ aera' = [aera EXCEPT ![a] = @ + 1] /\ aera[a] < MaxEra
          /\ adm[a] = NoAdmin /\ UNCHANGED <<ten, capq, quoq, tera>>
      BY <1>5 DEF InviteAdmin
    <2>2. row \in AdmRows
      BY <1>2 DEF AdmRows, Roles
    <2> HIDE DEF row
    <2>3. adm' \in [AdminIds -> AdmRows] /\ ten' \in [TenantIds -> TenRows]
      BY <2>1, <2>2 DEF RqInv, RqTypeOK
    <2>4. aera' \in [AdminIds -> 0 .. MaxEra]
      BY <2>1, RequestsAssumption DEF RqInv, RqTypeOK
    <2>5. \A x \in AdminIds : adm[x] # NoAdmin => adm'[x] # NoAdmin /\ aera'[x] = aera[x]
      BY <2>1 DEF RqInv, RqTypeOK
    <2> QED  BY <2>1, <2>3, <2>4, <2>5, RowsMove
  <1> QED  BY <1>3, <1>4, <1>5

LEMMA TenantsChange ==
    ASSUME RqInv, NEW t \in TenantIds,
           \/ \E o \in AdminIds, tr \in 1 .. MaxQuotaTier : PatchTenantQuota(o, t, tr)
           \/ SoftDeleteTenant(t)
           \/ \E a \in AdminIds : TransferTenant(t, a)
    PROVE  RqInv'
  <1>1. ten[t] \in TenRows
    BY DEF RqInv, RqTypeOK
  <1>2. 1 \in 1 .. MaxQuotaTier /\ NoAdmin \in AdminIds \cup {NoAdmin}
    BY RequestsAssumption
  <1>6. ASSUME NEW o \in AdminIds, NEW tr \in 1 .. MaxQuotaTier, PatchTenantQuota(o, t, tr) PROVE RqInv'
    <2> DEFINE row == [ten[t] EXCEPT !.tier = tr]
    <2>1. ten' = [ten EXCEPT ![t] = row] /\ ten[t] # NoTenant /\ UNCHANGED <<adm, capq, quoq, aera, tera>>
      BY <1>6 DEF PatchTenantQuota, LiveTenant
    <2>2. row \in TenRows /\ row # NoTenant
      BY <1>1, <1>2, <2>1, TenantRowChanges
    <2> HIDE DEF row
    <2> QED  BY <2>1, <2>2, TenantRowMoves
  <1>7. ASSUME SoftDeleteTenant(t) PROVE RqInv'
    <2> DEFINE row == [ten[t] EXCEPT !.deleted = TRUE]
    <2>1. ten' = [ten EXCEPT ![t] = row] /\ ten[t] # NoTenant /\ UNCHANGED <<adm, capq, quoq, aera, tera>>
      BY <1>7 DEF SoftDeleteTenant, LiveTenant
    <2>2. row \in TenRows /\ row # NoTenant
      BY <1>1, <1>2, <2>1, TenantRowChanges
    <2> HIDE DEF row
    <2> QED  BY <2>1, <2>2, TenantRowMoves
  <1>8. ASSUME NEW a \in AdminIds, TransferTenant(t, a) PROVE RqInv'
    <2> DEFINE row == [ten[t] EXCEPT !.owner = a]
    <2>1. ten' = [ten EXCEPT ![t] = row] /\ ten[t] # NoTenant /\ UNCHANGED <<adm, capq, quoq, aera, tera>>
      BY <1>8 DEF TransferTenant, LiveTenant
    <2>2. row \in TenRows /\ row # NoTenant
      BY <1>1, <1>2, <2>1, TenantRowChanges
    <2> HIDE DEF row
    <2> QED  BY <2>1, <2>2, TenantRowMoves
  <1> QED  BY <1>6, <1>7, <1>8

LEMMA RqStep == RqInv /\ [RqNext]_rqvars => RqInv'
  <1> SUFFICES ASSUME RqInv, [RqNext]_rqvars PROVE RqInv'
    OBVIOUS
  <1>1. CASE UNCHANGED rqvars
    BY <1>1 DEF RqInv, RqTypeOK, ReviewTruth, CapRequestsPage, QuotaRequestsPage, Pending, rqvars
  <1>2. CASE Asking
    BY <1>2, CapRequestFiled, QuotaRequestFiled DEF Asking
  <1>3. CASE Deciding
    BY <1>3, CapRequestDecided, QuotaRequestDecided, AdminsChange, TenantsChange DEF Deciding
  <1>4. CASE Housekeeping
    BY <1>4, AdminsChange, TenantsChange, AdminRemoved, TenantMade, RequestsPruned, RequestsAge
       DEF Housekeeping
  <1> QED  BY <1>1, <1>2, <1>3, <1>4 DEF RqNext

(* The queues, the admins' caps and the tenants' tiers keep their types.   *)
THEOREM RequestTypes == RqSpec => []RqTypeOK
  <1>1. RqSpec => []RqInv
    BY RqInitial, RqStep, PTL DEF RqSpec
  <1>2. RqInv => RqTypeOK
    BY DEF RqInv
  <1> QED  BY <1>1, <1>2, PTL

(* The review pages of tenant_cap.rs and quota_admin.rs never show a       *)
(* request under the name of an admin, or for a tenant, that merely got    *)
(* the id of the one it was filed by or for.                               *)
THEOREM ReviewsAreTrue == RqSpec => []ReviewTruth
  <1>1. RqSpec => []RqInv
    BY RqInitial, RqStep, PTL DEF RqSpec
  <1>2. RqInv => ReviewTruth
    BY DEF RqInv
  <1> QED  BY <1>1, <1>2, PTL

(* A request that was pending is approved only by a decision, and so for a *)
(* cap or a tier above the one in force.                                   *)
Raises ==
    /\ \A r \in Pending(capq) : capq'[r] # NoReq /\ capq'[r].status = "approved"
          => EffectiveCap(adm'[capq[r].by].bonus) > LookupAdminCap(capq[r].by)
    /\ \A r \in Pending(quoq) : quoq'[r] # NoReq /\ quoq'[r].status = "approved"
          => ten'[quoq[r].of].tier > ten[quoq[r].of].tier

(* Every other step leaves a pending request pending, or removes it. *)
Waits == /\ \A r \in Pending(capq) : capq'[r] = NoReq \/ capq'[r].status = "pending"
         /\ \A r \in Pending(quoq) : quoq'[r] = NoReq \/ quoq'[r].status = "pending"

LEMMA WaitingRaises == ASSUME Waits PROVE Raises
  BY DEF Waits, Raises

LEMMA RaisingStep == RqInv /\ [RqNext]_rqvars => Raises
  <1> SUFFICES ASSUME RqInv, [RqNext]_rqvars PROVE Raises
    OBVIOUS
  <1>1. ASSUME UNCHANGED <<capq, quoq>> PROVE Waits
    BY <1>1 DEF Waits, Pending
  <1>2. CASE UNCHANGED rqvars
    BY <1>1, <1>2, WaitingRaises DEF rqvars
  <1>3. CASE Asking
    <2>1. ASSUME NEW a \in AdminIds, NEW q \in ReqIds, NEW cap \in 1 .. MaxCap, CreateCapRequest(a, q, cap)
          PROVE  Waits
      BY <2>1 DEF CreateCapRequest, Waits, Pending, RqInv, RqTypeOK
    <2>2. ASSUME NEW a \in AdminIds, NEW t \in TenantIds, NEW q \in ReqIds,
                 NEW tr \in 1 .. MaxQuotaTier, CreateQuotaRequest(a, t, q, tr)
          PROVE  Waits
      BY <2>2 DEF CreateQuotaRequest, Waits, Pending, RqInv, RqTypeOK
    <2> QED  BY <1>3, <2>1, <2>2, WaitingRaises DEF Asking
  <1>4. ASSUME NEW o \in AdminIds, NEW q \in ReqIds, NEW ok \in BOOLEAN, DecideCapRequest(o, q, ok)
        PROVE  Raises
    <2>1. /\ capq' = [capq EXCEPT ![q].status = IF ok THEN "approved" ELSE "rejected"] /\ quoq' = quoq
          /\ q \in Pending(capq)
      BY <1>4 DEF DecideCapRequest, CapDecidable
    <2>2. capq'[q].status = IF ok THEN "approved" ELSE "rejected"
      BY <2>1, RequestChanges DEF RqInv, RqTypeOK, Pending, Statuses
    <2>3. \A r \in ReqIds \ {q} : capq'[r] = capq[r]
      BY <2>1 DEF RqInv, RqTypeOK
    <2>4. ok => EffectiveCap(adm'[capq[q].by].bonus) > LookupAdminCap(capq[q].by)
      BY <1>4, CapRequestDecided
    <2> QED  BY <2>1, <2>2, <2>3, <2>4 DEF Raises, Pending
  <1>5. ASSUME NEW o \in AdminIds, NEW q \in ReqIds, NEW ok \in BOOLEAN, DecideQuotaRequest(o, q, ok)
        PROVE  Raises
    <2>1. /\ quoq' = [quoq EXCEPT ![q].status = IF ok THEN "approved" ELSE "rejected"] /\ capq' = capq
          /\ q \in Pending(quoq)
      BY <1>5 DEF DecideQuotaRequest, QuotaDecidable
    <2>2. quoq'[q].status = IF ok THEN "approved" ELSE "rejected"
      BY <2>1, RequestChanges DEF RqInv, RqTypeOK, Pending, Statuses
    <2>3. \A r \in ReqIds \ {q} : quoq'[r] = quoq[r]
      BY <2>1 DEF RqInv, RqTypeOK
    <2>4. ok => ten'[quoq[q].of].tier > ten[quoq[q].of].tier
      BY <1>5, QuotaRequestDecided
    <2> QED  BY <2>1, <2>2, <2>3, <2>4 DEF Raises, Pending
  <1>6. CASE Deciding
    <2>1. ASSUME NEW o \in AdminIds, NEW a \in AdminIds, NEW cap \in -1 .. MaxCap,
                 PatchAdminTenantCap(o, a, cap)
          PROVE  UNCHANGED <<capq, quoq>>
      BY <2>1 DEF PatchAdminTenantCap
    <2>2. ASSUME NEW o \in AdminIds, NEW t \in TenantIds, NEW tr \in 1 .. MaxQuotaTier,
                 PatchTenantQuota(o, t, tr)
          PROVE  UNCHANGED <<capq, quoq>>
      BY <2>2 DEF PatchTenantQuota
    <2> QED  BY <1>1, <1>4, <1>5, <1>6, <2>1, <2>2, WaitingRaises DEF Deciding
  <1>7. CASE Housekeeping
    <2>1. ASSUME NEW a \in AdminIds, InviteAdmin(a) \/ \E role \in Roles : SetRole(a, role)
          PROVE  UNCHANGED <<capq, quoq>>
      BY <2>1 DEF InviteAdmin, SetRole
    <2>2. ASSUME NEW t \in TenantIds, SoftDeleteTenant(t) \/ \E a \in AdminIds : TransferTenant(t, a)
          PROVE  UNCHANGED <<capq, quoq>>
      BY <2>2 DEF SoftDeleteTenant, TransferTenant
    <2>3. ASSUME NEW a \in AdminIds, RemoveAdmin(a) PROVE Waits
      BY <2>3 DEF RemoveAdmin, Waits, Pending
    <2>4. ASSUME NEW a \in AdminIds, NEW t \in TenantIds, MakeTenant(a, t) PROVE Waits
      BY <2>4 DEF MakeTenant, Waits, Pending
    <2>5. ASSUME PruneOnce PROVE Waits
      BY <2>5 DEF PruneOnce, Decided, Waits, Pending
    <2>6. ASSUME Midnight PROVE Waits
      <3>1. ASSUME NEW r \in Pending(capq) PROVE capq'[r] = NoReq \/ capq'[r].status = "pending"
        BY <2>6, RequestChanges DEF Midnight, Pending, RqInv, RqTypeOK, Statuses
      <3>2. ASSUME NEW r \in Pending(quoq) PROVE quoq'[r] = NoReq \/ quoq'[r].status = "pending"
        BY <2>6, RequestChanges DEF Midnight, Pending, RqInv, RqTypeOK, Statuses
      <3> QED  BY <3>1, <3>2 DEF Waits
    <2> QED  BY <1>1, <1>7, <2>1, <2>2, <2>3, <2>4, <2>5, <2>6, WaitingRaises DEF Housekeeping
  <1> QED  BY <1>2, <1>3, <1>6, <1>7 DEF RqNext

(* An approval never lowers what its subject has by now: decide_cap_request*)
(* and decide_quota_request compare again, for any order of requests,      *)
(* decisions and direct changes of caps and tiers.                         *)
THEOREM ApprovalsRaise == RqSpec => ApprovalRaises
  <1>1. RqSpec => []RqInv
    BY RqInitial, RqStep, PTL DEF RqSpec
  <1>2. RqInv /\ [RqNext]_rqvars => [Raises]_rqvars
    BY RaisingStep
  <1>3. ApprovalRaises <=> [][Raises]_rqvars
    BY PTL DEF ApprovalRaises, Raises
  <1> QED  BY <1>1, <1>2, <1>3, PTL DEF RqSpec

----------------------------------------------------------------------------
(* Users, sessions and the bearer cache. *)

AllToks == Toks \cup RoleToks
TaskShape == [pc : UPcs, uid : Uids \cup {AnyUid}, tok : AllToks \cup {NoTok}, email : Emails \cup {AnyEmail},
              pw : Pws \cup {OauthOnly}, gates : 0 .. MaxGates, ok : BOOLEAN]
SessShape == [uid : Uids \cup {AnyUid}, live : BOOLEAN, by : {"password", "oauth"}] \cup {NoSess}

(* Functions and rows have their shapes; tokens are known once they exist. *)
UShape ==
    /\ usess \in [Toks -> SessShape] /\ DOMAIN ucache = AllToks
    /\ utask \in [UTasks -> TaskShape] /\ gates \in 0 .. MaxGates /\ selfreg \in BOOLEAN
    /\ \A k \in AllToks : ucache[k] # NoEntry => ucache[k].uid \in Uids \cup {AnyUid}
    /\ minted \subseteq AllToks /\ revoked \subseteq minted /\ rkey \in minted \cap RoleToks

(* A session is of a token given out and not taken back, a cache entry of  *)
(* a token given out, and both name the same user.                         *)
OneUser ==
    /\ \A k \in Toks : usess[k] # NoSess => k \in minted /\ k \notin revoked
    /\ \A k \in AllToks : ucache[k] # NoEntry => k \in minted
    /\ \A k \in Toks : usess[k] # NoSess /\ ucache[k] # NoEntry => ucache[k].uid = usess[k].uid

(* What a bearer lookup in flight has found out. *)
TaskTrue(r) ==
    /\ r.pc \in {"lookup", "insert"} => r.tok \in minted
    /\ r.pc = "lookup" => r.tok \in Toks
    /\ r.pc = "insert" /\ r.tok \in Toks /\ usess[r.tok] # NoSess => r.uid = usess[r.tok].uid
AllTrue == \A t \in UTasks : TaskTrue(utask[t])

(* EntriesCurrent, where a role token has no handler to wait for. *)
Clearing(u) == \E t \in UTasks : utask[t].pc = "clear" /\ utask[t].uid = u
Current ==
    /\ \A k \in AllToks : ucache[k] # NoEntry => ucache[k].gates = gates \/ ucache[k].stale
    /\ \A k \in RoleToks : ucache[k] # NoEntry /\ k \in revoked => ucache[k].straddled
    /\ \A k \in Toks : ucache[k] # NoEntry /\ k \in revoked
                        => ucache[k].straddled \/ Clearing(ucache[k].uid)

UInv == UShape /\ OneUser /\ AllTrue /\ Current

LEMMA CurrentSuffices == UInv => EntriesCurrent
  BY DEF UInv, UShape, Current, EntriesCurrent, AllToks, Clearing, UAt

(* The rows a task moves to. *)
LEMMA IdleRow == UIdle \in TaskShape /\ UIdle.pc = "idle"
  BY UsersAssumption DEF UIdle, TaskShape, UPcs

ClearRow(u) == [UIdle EXCEPT !.pc = "clear", !.uid = u]
LEMMA ClearRowFields ==
    ASSUME NEW u \in Uids \cup {AnyUid}
    PROVE  ClearRow(u) \in TaskShape /\ ClearRow(u).pc = "clear" /\ ClearRow(u).uid = u
  BY IdleRow DEF ClearRow, TaskShape, UPcs

LEMMA UInitial == UInit => UInv
  <1> SUFFICES ASSUME UInit PROVE UInv
    OBVIOUS
  <1>1. UShape
    BY IdleRow, UsersAssumption DEF UInit, UShape, SessShape, AllToks
  <1>2. OneUser /\ Current
    BY DEF UInit, OneUser, Current, AllToks
  <1>3. AllTrue
    BY IdleRow DEF UInit, AllTrue, TaskTrue
  <1> QED  BY <1>1, <1>2, <1>3 DEF UInv

(* A step that leaves the cache alone.  ks are the tokens it takes back:   *)
(* their users' handlers are about to clear the cache.                     *)
LEMMA CacheRests ==
    ASSUME UInv, UNCHANGED <<ucache, gates, rkey, selfreg>>, NEW ks \in SUBSET Toks,
           usess' \in [Toks -> SessShape], utask' \in [UTasks -> TaskShape],
           minted' \subseteq AllToks, minted \subseteq minted', revoked' = revoked \cup ks,
           \A k \in Toks : usess'[k] # NoSess =>
              /\ k \in minted' /\ k \notin revoked'
              /\ k \in minted => usess[k] # NoSess /\ usess'[k].uid = usess[k].uid,
           \A k \in ks : /\ usess[k] # NoSess
                          /\ \E t \in UTasks : utask'[t].pc = "clear" /\ utask'[t].uid = usess[k].uid,
           \A t \in UTasks : utask'[t] # utask[t] => utask[t].pc # "clear" /\ TaskTrue(utask[t])'
    PROVE  UInv'
  <1>1. ks \subseteq minted
    BY DEF UInv, OneUser
  <1>2. UShape'
    BY <1>1 DEF UInv, UShape
  <1>3. OneUser'
    BY DEF UInv, OneUser
  <1>4. ASSUME NEW t \in UTasks PROVE TaskTrue(utask[t])'
    <2>1. CASE utask'[t] # utask[t]
      BY <2>1
    <2>2. CASE utask'[t] = utask[t]
      <3>1. TaskTrue(utask[t])
        BY DEF UInv, AllTrue
      <3> QED  BY <2>2, <3>1 DEF TaskTrue
    <2> QED  BY <2>1, <2>2
  <1>5. \A u : Clearing(u) => Clearing(u)'
    BY DEF Clearing
  <1>6. ASSUME NEW k \in Toks, ucache[k] # NoEntry, k \in revoked'
        PROVE  ucache[k].straddled \/ Clearing(ucache[k].uid)'
    <2>1. CASE k \in revoked
      BY <1>5, <1>6, <2>1 DEF UInv, Current
    <2>2. CASE k \in ks
      BY <1>6, <2>2 DEF UInv, OneUser, Clearing
    <2> QED  BY <1>6, <2>1, <2>2
  <1>7. ASSUME NEW k \in RoleToks, ucache[k] # NoEntry, k \in revoked' PROVE ucache[k].straddled
    BY <1>7, UsersAssumption DEF UInv, Current
  <1>8. Current'
    <2>1. \A k \in AllToks : ucache'[k] # NoEntry => ucache'[k].gates = gates' \/ ucache'[k].stale
      BY DEF UInv, Current
    <2>2. \A k \in RoleToks : ucache'[k] # NoEntry /\ k \in revoked' => ucache'[k].straddled
      BY <1>7
    <2>3. \A k \in Toks : ucache'[k] # NoEntry /\ k \in revoked'
                          => ucache'[k].straddled \/ Clearing(ucache[k].uid)'
      BY <1>6
    <2> QED  BY <2>1, <2>2, <2>3 DEF Current
  <1> QED  BY <1>2, <1>3, <1>4, <1>8 DEF UInv, AllTrue

LEMMA UsersRest ==
    ASSUME UInv, UNCHANGED <<usess, ucache, gates, rkey, selfreg, minted, revoked, utask>>
    PROVE  UInv'
  BY DEF UInv, UShape, OneUser, AllTrue, TaskTrue, Current, Clearing

(* One task goes to row r, and nothing else the invariant is about moves. *)
LEMMA TaskMoves ==
    ASSUME UInv, NEW t \in UTasks, NEW r \in TaskShape, utask' = [utask EXCEPT ![t] = r],
           UNCHANGED <<usess, ucache, gates, rkey, selfreg, minted, revoked>>,
           utask[t].pc # "clear", TaskTrue(r)
    PROVE  UInv'
  <1>1. utask' \in [UTasks -> TaskShape] /\ usess' \in [Toks -> SessShape]
    BY DEF UInv, UShape
  <1>2. \A s \in UTasks : utask'[s] # utask[s] => utask[s].pc # "clear" /\ TaskTrue(utask[s])'
    BY DEF UInv, UShape, TaskTrue
  <1>3. /\ minted' \subseteq AllToks /\ minted \subseteq minted'
        /\ revoked' = revoked \cup {}
        /\ \A k \in Toks : usess'[k] # NoSess =>
              /\ k \in minted' /\ k \notin revoked'
              /\ k \in minted => usess[k] # NoSess /\ usess'[k].uid = usess[k].uid
    BY DEF UInv, UShape, OneUser
  <1>4. {} \in SUBSET Toks /\ UNCHANGED <<ucache, gates, rkey, selfreg>>
    OBVIOUS
  <1>5. \A k \in {} : /\ usess[k] # NoSess
                      /\ \E s \in UTasks : utask'[s].pc = "clear" /\ utask'[s].uid = usess[k].uid
    OBVIOUS
  <1> QED  BY <1>1, <1>2, <1>3, <1>4, <1>5, CacheRests

(* A row that is past the bearer layer or never was in it. *)
LEMMA PlainRow == ASSUME NEW r, r.pc \notin {"lookup", "insert"} PROVE TaskTrue(r)
  BY DEF TaskTrue

LEMMA PlainMoves ==
    ASSUME UInv, NEW t \in UTasks, NEW r \in TaskShape, utask' = [utask EXCEPT ![t] = r],
           UNCHANGED <<usess, ucache, gates, rkey, selfreg, minted, revoked>>,
           utask[t].pc # "clear", r.pc \notin {"lookup", "insert"}
    PROVE  UInv'
  BY PlainRow, TaskMoves

LEMMA Reading ==
    ASSUME UInv, NEW t \in UTasks, NEW e \in Emails, NEW p \in Pws,
           RegisterRead(t, e, p) \/ LoginRead(t, e, p)
    PROVE  UInv'
  <1>1. ASSUME RegisterRead(t, e, p) PROVE UInv'
    <2> DEFINE r == [UIdle EXCEPT !.pc = "register", !.email = e, !.pw = p]
    <2>1. r \in TaskShape /\ r.pc = "register"
      BY IdleRow DEF TaskShape, UPcs
    <2>2. /\ utask' = [utask EXCEPT ![t] = r] /\ utask[t].pc = "idle"
          /\ UNCHANGED <<usess, ucache, gates, rkey, selfreg, minted, revoked>>
      BY <1>1 DEF RegisterRead, UGoto, UIdleAt, UAt, ustate, uhist
    <2> HIDE DEF r
    <2> QED  BY <2>1, <2>2, PlainMoves
  <1>2. ASSUME LoginRead(t, e, p) PROVE UInv'
    <2>1. PICK u \in Uids : utask' = [utask EXCEPT ![t] = [UIdle EXCEPT !.pc = "session", !.uid = u, !.pw = p]]
      BY <1>2 DEF LoginRead, HasEmail, UGoto
    <2> DEFINE r == [UIdle EXCEPT !.pc = "session", !.uid = u, !.pw = p]
    <2>2. r \in TaskShape /\ r.pc = "session"
      BY IdleRow DEF TaskShape, UPcs
    <2>3. /\ utask' = [utask EXCEPT ![t] = r] /\ utask[t].pc = "idle"
          /\ UNCHANGED <<usess, ucache, gates, rkey, selfreg, minted, revoked>>
      BY <1>2, <2>1 DEF LoginRead, UIdleAt, UAt, ustate, uhist
    <2> HIDE DEF r
    <2> QED  BY <2>2, <2>3, PlainMoves
  <1> QED  BY <1>1, <1>2

(* Steps after which the task is idle, or did not move. *)
LEMMA Returning ==
    ASSUME UInv, NEW t \in UTasks, UReturn(t), utask[t].pc # "clear",
           UNCHANGED <<usess, ucache, gates, rkey, selfreg, minted, revoked>>
    PROVE  UInv'
  BY IdleRow, PlainMoves DEF UReturn, UGoto

LEMMA RegisterMoves == ASSUME UInv, NEW t \in UTasks, NEW u \in Uids, RegisterInsert(t, u) PROVE UInv'
  BY Returning DEF RegisterInsert, UAt, uhist

LEMMA MeGetMoves == ASSUME UInv, NEW t \in UTasks, MeGet(t) PROVE UInv'
  BY Returning DEF MeGet, UAt, uhist, ustate

LEMMA PasswordReads == ASSUME UInv, NEW t \in UTasks, NEW p \in Pws, MePasswordRead(t, p) PROVE UInv'
  <1> DEFINE r == [utask[t] EXCEPT !.pc = "password", !.pw = p, !.tok = NoTok]
  <1>1. utask[t] \in TaskShape
    BY DEF UInv, UShape
  <1>2. r \in TaskShape /\ r.pc = "password"
    BY <1>1 DEF TaskShape, UPcs
  <1>3. /\ utask' = [utask EXCEPT ![t] = r] /\ utask[t].pc = "in"
        /\ UNCHANGED <<usess, ucache, gates, rkey, selfreg, minted, revoked>>
    BY DEF MePasswordRead, UGoto, UAt, ustate, uhist
  <1> HIDE DEF r
  <1> QED  BY <1>2, <1>3, PlainMoves

LEMMA OauthMoves ==
    ASSUME UInv, NEW t \in UTasks,
           \/ \E uri \in Uris : OauthStart(t, uri) \/ OauthCallback(t, uri)
           \/ \E e \in Emails : Exchange(t, e)
    PROVE  UInv'
  <1>1. ASSUME NEW uri \in Uris, OauthStart(t, uri) PROVE UInv'
    BY <1>1, UsersRest DEF OauthStart, uhist
  <1>2. ASSUME NEW uri \in Uris, OauthCallback(t, uri) PROVE UInv'
    <2> DEFINE r == [UIdle EXCEPT !.pc = "exchange"]
    <2>1. r \in TaskShape /\ r.pc = "exchange"
      BY IdleRow DEF TaskShape, UPcs
    <2>2. /\ utask' = [utask EXCEPT ![t] = r] /\ utask[t].pc = "idle"
          /\ UNCHANGED <<usess, ucache, gates, rkey, selfreg, minted, revoked>>
      BY <1>2 DEF OauthCallback, UGoto, UIdleAt, UAt, ustate, uhist
    <2> HIDE DEF r
    <2> QED  BY <2>1, <2>2, PlainMoves
  <1>3. ASSUME NEW e \in Emails, Exchange(t, e), ~UReturn(t) PROVE UInv'
    <2> DEFINE r == [UIdle EXCEPT !.pc = "link", !.email = e, !.ok = selfreg]
    <2>1. utask' = [utask EXCEPT ![t] = r] /\ utask[t].pc = "exchange"
      BY <1>3 DEF Exchange, UGoto, UAt
    <2>2. UNCHANGED <<usess, ucache, gates, rkey, selfreg, minted, revoked>>
      BY <1>3 DEF Exchange, ustate, uhist
    <2>3. r \in TaskShape /\ r.pc = "link"
      BY IdleRow DEF TaskShape, UPcs, UInv, UShape
    <2> HIDE DEF r
    <2> QED  BY <2>1, <2>2, <2>3, PlainMoves
  <1>4. ASSUME NEW e \in Emails, Exchange(t, e), UReturn(t) PROVE UInv'
    BY <1>4, Returning DEF Exchange, UAt, uhist, ustate
  <1> QED  BY <1>1, <1>2, <1>3, <1>4

(* The bearer layer up to the insert. *)
LEMMA DoorReads ==
    ASSUME UInv, NEW t \in UTasks,
           \/ \E k \in Toks \cup RoleToks : DoorHit(t, k) \/ DoorRow(t, k)
           \/ DoorLookup(t)
    PROVE  UInv'
  <1>1. ASSUME NEW k \in AllToks, DoorHit(t, k) PROVE UInv'
    <2>1. CASE k \in Toks
      <3> DEFINE r == [UIdle EXCEPT !.pc = "in", !.uid = ucache[k].uid, !.tok = k]
      <3>1. ucache[k].uid \in Uids \cup {AnyUid}
        BY <1>1 DEF DoorHit, UInv, UShape
      <3>2. r \in TaskShape /\ r.pc = "in"
        BY <3>1, IdleRow DEF TaskShape, UPcs
      <3>3. /\ utask' = [utask EXCEPT ![t] = r] /\ utask[t].pc = "idle"
            /\ UNCHANGED <<usess, ucache, gates, rkey, selfreg, minted, revoked>>
        BY <1>1, <2>1 DEF DoorHit, UGoto, UIdleAt, UAt, ustate, uhist
      <3> HIDE DEF r
      <3> QED  BY <3>2, <3>3, PlainMoves
    <2>2. CASE k \notin Toks
      BY <1>1, <2>2, UsersRest DEF DoorHit, ustate, uhist
    <2> QED  BY <2>1, <2>2
  <1>2. ASSUME NEW k \in AllToks, DoorRow(t, k) PROVE UInv'
    <2> DEFINE p == IF k \in Toks THEN "lookup" ELSE "insert"
               r == [UIdle EXCEPT !.pc = p, !.tok = k, !.gates = gates]
    <2>1. p \in UPcs /\ gates \in 0 .. MaxGates
      BY DEF UPcs, UInv, UShape
    <2>2. r \in TaskShape /\ r.pc = p /\ r.tok = k
      BY <2>1, IdleRow DEF TaskShape
    <2>3. /\ utask' = [utask EXCEPT ![t] = r] /\ utask[t].pc = "idle" /\ k \in minted
          /\ UNCHANGED <<usess, ucache, gates, rkey, selfreg, minted, revoked>>
      BY <1>2 DEF DoorRow, UGoto, UIdleAt, UAt, ustate, uhist
    <2> HIDE DEF r
    <2>4. TaskTrue(r)
      BY <2>2, <2>3 DEF TaskTrue
    <2> QED  BY <2>2, <2>3, <2>4, TaskMoves
  <1>3. ASSUME DoorLookup(t) PROVE UInv'
    <2> DEFINE k == utask[t].tok
               r == [utask[t] EXCEPT !.pc = "insert", !.uid = usess[k].uid]
    <2>1. /\ utask[t] \in TaskShape /\ TaskTrue(utask[t]) /\ utask[t].pc = "lookup"
          /\ UNCHANGED <<usess, ucache, gates, rkey, selfreg, minted, revoked>>
      BY <1>3 DEF DoorLookup, UInv, UShape, AllTrue, UAt, uhist
    <2>2. k \in Toks /\ k \in minted /\ usess[k] \in SessShape
      BY <2>1 DEF TaskTrue, UInv, UShape
    <2>3. CASE LookupSession(k)
      <3>1. usess[k].uid \in Uids \cup {AnyUid}
        BY <2>2, <2>3 DEF SessShape, LookupSession
      <3>2. r \in TaskShape /\ r.pc = "insert" /\ r.tok = k /\ r.uid = usess[k].uid
        BY <2>1, <3>1 DEF TaskShape, UPcs
      <3>3. utask' = [utask EXCEPT ![t] = r]
        BY <1>3, <2>3 DEF DoorLookup, UGoto
      <3> HIDE DEF r
      <3>4. TaskTrue(r)
        BY <2>2, <3>2 DEF TaskTrue
      <3> QED  BY <2>1, <3>2, <3>3, <3>4, TaskMoves
    <2>4. CASE ~LookupSession(k)
      <3>1. UReturn(t)
        BY <1>3, <2>4 DEF DoorLookup
      <3> QED  BY <2>1, <3>1, Returning
    <2> QED  BY <2>3, <2>4
  <1> QED  BY <1>1, <1>2, <1>3 DEF AllToks

(* The insert: an entry for a token taken back since the lookup is marked  *)
(* as straddling, one with older settings as stale.                        *)
Entry(u, g, a, b) == [uid |-> u, gates |-> g, straddled |-> a, stale |-> b]
LEMMA EntryFields ==
    ASSUME NEW u, NEW g, NEW a \in BOOLEAN, NEW b \in BOOLEAN
    PROVE  /\ Entry(u, g, a, b).uid = u /\ Entry(u, g, a, b).gates = g
           /\ Entry(u, g, a, b).straddled = a /\ Entry(u, g, a, b).stale = b
  BY DEF Entry

LEMMA DoorInserts == ASSUME UInv, NEW t \in UTasks, DoorInsert(t) PROVE UInv'
  <1> DEFINE k == utask[t].tok
             old == k \in revoked
             lag == utask[t].gates # gates
             e == Entry(utask[t].uid, utask[t].gates, old, lag)
  <1>1. /\ utask[t] \in TaskShape /\ TaskTrue(utask[t]) /\ utask[t].pc = "insert"
        /\ UNCHANGED <<usess, rkey, selfreg, gates, minted, revoked>>
    BY DEF DoorInsert, UInv, UShape, AllTrue, UAt, uhist
  <1>2. k \in minted /\ k \in AllToks /\ utask[t].uid \in Uids \cup {AnyUid}
    BY <1>1 DEF TaskTrue, UInv, UShape, TaskShape
  <1>3. ucache' = [ucache EXCEPT ![k] = e]
    BY DEF DoorInsert, Entry
  <1>4. e.uid = utask[t].uid /\ e.gates = utask[t].gates /\ e.straddled = old /\ e.stale = lag
    <2>1. old \in BOOLEAN /\ lag \in BOOLEAN
      OBVIOUS
    <2> HIDE DEF old, lag
    <2> QED  BY <2>1, EntryFields
  <1>5. PICK r \in TaskShape : utask' = [utask EXCEPT ![t] = r] /\ r.pc \in {"in", "idle"}
    <2> DEFINE in == [utask[t] EXCEPT !.pc = "in", !.gates = 0]
    <2>3. 0 \in 0 .. MaxGates
      BY UsersAssumption
    <2>1. in \in TaskShape /\ in.pc = "in"
      BY <1>1, <2>3 DEF TaskShape, UPcs
    <2>2. \/ utask' = [utask EXCEPT ![t] = in]
          \/ utask' = [utask EXCEPT ![t] = UIdle]
      BY DEF DoorInsert, UGoto, UReturn
    <2> HIDE DEF in
    <2> QED  BY <2>1, <2>2, IdleRow
  <1> HIDE DEF e
  <1>6. /\ DOMAIN ucache' = AllToks /\ ucache'[k] = e
        /\ \A x \in AllToks \ {k} : ucache'[x] = ucache[x]
    BY <1>2, <1>3 DEF UInv, UShape
  <1>7. utask' \in [UTasks -> TaskShape] /\ utask'[t] = r /\ \A s \in UTasks \ {t} : utask'[s] = utask[s]
    BY <1>5 DEF UInv, UShape
  <1>8. UShape'
    BY <1>1, <1>2, <1>4, <1>6, <1>7 DEF UInv, UShape
  <1>9. OneUser'
    BY <1>1, <1>2, <1>4, <1>6 DEF UInv, OneUser, TaskTrue, AllToks
  <1>10. AllTrue'
    BY <1>1, <1>5, <1>7 DEF UInv, AllTrue, TaskTrue
  <1>11. \A u : Clearing(u) => Clearing(u)'
    BY <1>1, <1>7 DEF Clearing
  <1>12. Current'
    <2>1. \A x \in AllToks : ucache'[x] # NoEntry => ucache'[x].gates = gates' \/ ucache'[x].stale
      BY <1>1, <1>4, <1>6 DEF UInv, Current
    <2>2. \A x \in RoleToks : ucache'[x] # NoEntry /\ x \in revoked' => ucache'[x].straddled
      BY <1>1, <1>4, <1>6 DEF UInv, Current, AllToks
    <2>3. \A x \in Toks : ucache'[x] # NoEntry /\ x \in revoked'
                          => ucache'[x].straddled \/ Clearing(ucache[x].uid)'
      BY <1>1, <1>4, <1>6, <1>11 DEF UInv, Current, AllToks
    <2> QED  BY <2>1, <2>2, <2>3 DEF Current
  <1> QED  BY <1>8, <1>9, <1>10, <1>12 DEF UInv

(* Entries go: one that is ten seconds old, or those of the user whose     *)
(* handler is done.                                                        *)
LEMMA EntryGoes ==
    ASSUME UInv, NEW k \in AllToks, EntryExpires(k)
    PROVE  UInv'
  <1>1. /\ UNCHANGED <<usess, rkey, selfreg, gates, minted, revoked, utask>>
        /\ ucache' = [ucache EXCEPT ![k] = NoEntry]
    BY DEF EntryExpires, uhist
  <1>2. DOMAIN ucache' = AllToks /\ \A x \in AllToks : ucache'[x] # NoEntry => ucache'[x] = ucache[x]
    BY <1>1 DEF UInv, UShape
  <1>3. UShape' /\ OneUser'
    BY <1>1, <1>2 DEF UInv, UShape, OneUser, AllToks
  <1>4. AllTrue'
    BY <1>1 DEF UInv, AllTrue, TaskTrue
  <1>5. \A u : Clearing(u) => Clearing(u)'
    BY <1>1 DEF Clearing
  <1>6. Current'
    BY <1>1, <1>2, <1>5 DEF UInv, Current, AllToks
  <1> QED  BY <1>3, <1>4, <1>6 DEF UInv

LEMMA UserCleared == ASSUME UInv, NEW t \in UTasks, RevokeUserRealtime(t) PROVE UInv'
  <1> DEFINE u == utask[t].uid
  <1>1. /\ UNCHANGED <<usess, rkey, selfreg, gates, minted, revoked>>
        /\ utask' = [utask EXCEPT ![t] = UIdle] /\ utask[t].pc = "clear"
        /\ ucache' = ClearedUser(u)
    BY DEF RevokeUserRealtime, uhist, UReturn, UGoto, UAt
  <1>2. /\ DOMAIN ucache' = AllToks
        /\ \A x \in AllToks : ucache'[x] # NoEntry => /\ ucache'[x] = ucache[x]
                                                      /\ x \in Toks => ucache[x].uid # u
    BY <1>1 DEF UInv, UShape, ClearedUser
  <1>3. /\ utask' \in [UTasks -> TaskShape] /\ utask'[t] = UIdle
        /\ \A s \in UTasks \ {t} : utask'[s] = utask[s]
    BY <1>1, IdleRow DEF UInv, UShape
  <1>4. UShape' /\ OneUser'
    BY <1>1, <1>2, <1>3 DEF UInv, UShape, OneUser, AllToks
  <1>5. AllTrue'
    BY <1>1, <1>3, IdleRow DEF UInv, AllTrue, TaskTrue
  <1>6. \A v : v # u /\ Clearing(v) => Clearing(v)'
    BY <1>3 DEF Clearing
  <1> HIDE DEF u
  <1>7. Current'
    <2>1. \A x \in AllToks : ucache'[x] # NoEntry => ucache'[x].gates = gates' \/ ucache'[x].stale
      BY <1>1, <1>2 DEF UInv, Current
    <2>2. \A x \in RoleToks : ucache'[x] # NoEntry /\ x \in revoked' => ucache'[x].straddled
      BY <1>1, <1>2 DEF UInv, Current, AllToks
    <2>3. ASSUME NEW x \in Toks, ucache'[x] # NoEntry, x \in revoked'
          PROVE  ucache'[x].straddled \/ Clearing(ucache[x].uid)'
      <3>1. ucache'[x] = ucache[x] /\ ucache[x].uid # u /\ x \in revoked
        BY <1>1, <1>2, <2>3 DEF AllToks
      <3>2. ucache[x].straddled \/ Clearing(ucache[x].uid)
        BY <2>3, <3>1 DEF UInv, Current
      <3> QED  BY <1>6, <3>1, <3>2 DEF Clearing
    <2> QED  BY <2>1, <2>2, <2>3 DEF Current
  <1> QED  BY <1>4, <1>5, <1>7 DEF UInv

(* set_publish_policy, set_file_caps: the tenant's entries go with the     *)
(* change.  reroll_token: the role entries go.                             *)
LEMMA GatesMove == ASSUME UInv, ChangeGates PROVE UInv'
  <1>1. /\ UNCHANGED <<usess, utask, rkey, selfreg, minted, revoked>> /\ ucache' = ClearedTenant
        /\ gates' = gates + 1 /\ gates < MaxGates
    BY DEF ChangeGates, UNCONFIG
  <1>2. DOMAIN ucache' = AllToks /\ \A k \in AllToks : ucache'[k] = NoEntry
    BY <1>1 DEF UInv, UShape, ClearedTenant
  <1>3. gates' \in 0 .. MaxGates
    BY <1>1, UsersAssumption DEF UInv, UShape
  <1>4. UShape' /\ OneUser'
    BY <1>1, <1>2, <1>3 DEF UInv, UShape, OneUser, AllToks
  <1>5. AllTrue' /\ Current'
    BY <1>1, <1>2 DEF UInv, AllTrue, TaskTrue, Current, AllToks
  <1> QED  BY <1>4, <1>5 DEF UInv

LEMMA RoleRerolled == ASSUME UInv, NEW k \in RoleToks, RerollToken(k) PROVE UInv'
  <1>1. /\ UNCHANGED <<usess, utask, selfreg, gates>> /\ ucache' = ClearedRole
        /\ minted' = minted \cup {k} /\ revoked' = revoked \cup {rkey} /\ rkey' = k /\ k \notin minted
    BY DEF RerollToken, UNCONFIG
  <1>2. /\ DOMAIN ucache' = AllToks
        /\ \A x \in AllToks : ucache'[x] # NoEntry => ucache'[x] = ucache[x] /\ x \in Toks
    BY <1>1 DEF UInv, UShape, ClearedRole, AllToks
  <1>3. rkey \in RoleToks /\ rkey \notin Toks /\ rkey \in minted
    BY UsersAssumption DEF UInv, UShape
  <1>4. UShape'
    BY <1>1, <1>2, <1>3 DEF UInv, UShape, AllToks
  <1>5. OneUser' /\ AllTrue'
    BY <1>1, <1>2, <1>3 DEF UInv, OneUser, AllTrue, TaskTrue, AllToks
  <1>6. \A u : Clearing(u) <=> Clearing(u)'
    BY <1>1 DEF Clearing
  <1>7. Current'
    <2>1. \A x \in AllToks : ucache'[x] # NoEntry => ucache'[x].gates = gates' \/ ucache'[x].stale
      BY <1>1, <1>2 DEF UInv, Current
    <2>2. \A x \in RoleToks : ucache'[x] # NoEntry /\ x \in revoked' => ucache'[x].straddled
      BY <1>2, UsersAssumption DEF AllToks
    <2>3. ASSUME NEW x \in Toks, ucache'[x] # NoEntry, x \in revoked'
          PROVE  ucache'[x].straddled \/ Clearing(ucache[x].uid)'
      <3>1. ucache'[x] = ucache[x] /\ x \in revoked
        BY <1>1, <1>2, <1>3, <2>3 DEF AllToks
      <3>2. ucache[x].straddled \/ Clearing(ucache[x].uid)
        BY <2>3, <3>1 DEF UInv, Current
      <3> QED  BY <1>1, <3>1, <3>2 DEF Clearing
    <2> QED  BY <2>1, <2>2, <2>3 DEF Current
  <1> QED  BY <1>4, <1>5, <1>7 DEF UInv

----------------------------------------------------------------------------
(* Sessions.  Sess(k, u, by) is a new one, ks the ones a step takes back.  *)
Sess(u, by) == [uid |-> u, live |-> TRUE, by |-> by]
LEMMA SessFields ==
    ASSUME NEW u \in Uids \cup {AnyUid}, NEW by \in {"password", "oauth"}
    PROVE  Sess(u, by) \in SessShape /\ Sess(u, by).uid = u
  BY DEF Sess, SessShape

(* ks are the sessions of user u that go; new the token of one that comes. *)
LEMMA SessionsMove ==
    ASSUME UInv, NEW t \in UTasks, NEW r \in TaskShape, NEW u, NEW new \in SUBSET Toks,
           NEW ks \in SUBSET SessionsOf(u),
           utask' = [utask EXCEPT ![t] = r], utask[t].pc # "clear",
           r.pc \notin {"lookup", "insert"}, ks # {} => r.pc = "clear" /\ r.uid = u,
           UNCHANGED <<ucache, gates, rkey, selfreg>>,
           new \cap minted = {}, minted' = minted \cup new, revoked' = revoked \cup ks,
           usess' \in [Toks -> SessShape],
           \A k \in Toks : usess'[k] = usess[k] \/ usess'[k] = NoSess \/ k \in new,
           \A k \in ks : usess'[k] = NoSess
    PROVE  UInv'
  <1>1. ks \in SUBSET Toks /\ minted' \subseteq AllToks /\ minted \subseteq minted'
    BY DEF SessionsOf, UInv, UShape, AllToks
  <1>2. /\ utask' \in [UTasks -> TaskShape] /\ utask'[t] = r
        /\ \A s \in UTasks \ {t} : utask'[s] = utask[s]
    BY DEF UInv, UShape
  <1>3. \A k \in ks : /\ usess[k] # NoSess
                      /\ \E s \in UTasks : utask'[s].pc = "clear" /\ utask'[s].uid = usess[k].uid
    BY <1>2 DEF SessionsOf
  <1>4. \A s \in UTasks : utask'[s] # utask[s] => utask[s].pc # "clear" /\ TaskTrue(utask[s])'
    BY <1>2 DEF TaskTrue
  <1>5. \A k \in new : k \notin revoked /\ k \notin ks
    BY DEF UInv, UShape, OneUser, SessionsOf
  <1>6. ASSUME NEW k \in Toks, usess'[k] # NoSess
        PROVE  /\ k \in minted' /\ k \notin revoked'
               /\ k \in minted => usess[k] # NoSess /\ usess'[k].uid = usess[k].uid
    BY <1>5, <1>6 DEF UInv, OneUser
  <1> QED  BY <1>1, <1>2, <1>3, <1>4, <1>6, CacheRests

LEMMA WithoutRows ==
    ASSUME UInv, NEW ks
    PROVE  /\ Without(ks) \in [Toks -> SessShape]
           /\ \A k \in Toks : Without(ks)[k] = usess[k] \/ Without(ks)[k] = NoSess
           /\ \A k \in Toks : k \in ks => Without(ks)[k] = NoSess
  BY DEF Without, UInv, UShape, SessShape

LEMMA Revokes ==
    ASSUME UInv, NEW t \in UTasks, NEW u \in Uids \cup {AnyUid}, NEW ks \in SUBSET SessionsOf(u),
           Revoke(t, u, ks), UNCHANGED <<ucache, gates, rkey, selfreg, minted>>, utask[t].pc # "clear"
    PROVE  UInv'
  <1>1. usess' = Without(ks) /\ revoked' = revoked \cup ks /\ utask' = [utask EXCEPT ![t] = ClearRow(u)]
    BY DEF Revoke, UGoto, ClearRow
  <1>2. ClearRow(u) \in TaskShape /\ ClearRow(u).pc = "clear" /\ ClearRow(u).uid = u
    BY ClearRowFields
  <1>3. /\ usess' \in [Toks -> SessShape]
        /\ \A k \in Toks : usess'[k] = usess[k] \/ usess'[k] = NoSess
        /\ \A k \in ks : usess'[k] = NoSess
    BY <1>1, WithoutRows DEF SessionsOf
  <1>4. {} \in SUBSET Toks /\ {} \cap minted = {} /\ minted' = minted \cup {}
    OBVIOUS
  <1> QED  BY <1>1, <1>2, <1>3, <1>4, SessionsMove

LEMMA RevokingRequests ==
    ASSUME UInv, NEW t \in UTasks,
           \/ Logout(t) \/ LogoutAll(t)
           \/ \E u \in Uids : DeleteUser(t, u) \/ RevokeSessions(t, u) \/ RevokeUserSessionsTool(t, u)
    PROVE  UInv'
  <1>1. utask[t].uid \in Uids \cup {AnyUid}
    BY DEF UInv, UShape, TaskShape
  <1>2. ASSUME Logout(t) PROVE UInv'
    <2> DEFINE ks == {utask[t].tok} \cap SessionsOf(utask[t].uid)
    <2>1. /\ Revoke(t, utask[t].uid, ks) /\ utask[t].pc = "in" /\ ks \in SUBSET SessionsOf(utask[t].uid)
          /\ UNCHANGED <<ucache, gates, rkey, selfreg, minted>>
      BY <1>2 DEF Logout, UAt, UNREVOKED
    <2> QED  BY <1>1, <2>1, Revokes
  <1>3. ASSUME LogoutAll(t) PROVE UInv'
    <2>1. /\ Revoke(t, utask[t].uid, SessionsOf(utask[t].uid)) /\ utask[t].pc = "in"
          /\ UNCHANGED <<ucache, gates, rkey, selfreg, minted>>
      BY <1>3 DEF LogoutAll, UAt, UNREVOKED
    <2> QED  BY <1>1, <2>1, Revokes
  <1>4. ASSUME NEW u \in Uids, DeleteUser(t, u) \/ RevokeSessions(t, u) \/ RevokeUserSessionsTool(t, u)
        PROVE  UInv'
    <2>1. /\ Revoke(t, u, SessionsOf(u)) /\ utask[t].pc = "idle"
          /\ UNCHANGED <<ucache, gates, rkey, selfreg, minted>>
      BY <1>4 DEF DeleteUser, RevokeSessions, RevokeUserSessionsTool, UIdleAt, UAt, UNREVOKED
    <2> QED  BY <2>1, Revokes
  <1> QED  BY <1>2, <1>3, <1>4

(* The sessions that are left when those of ks go. *)
Kept(base, ks) ==
    /\ base \in [Toks -> SessShape]
    /\ \A x \in Toks : base[x] = usess[x] \/ base[x] = NoSess
    /\ \A x \in ks : base[x] = NoSess

(* A new session beside, or instead of, the user's others. *)
LEMMA Opens ==
    ASSUME UInv, NEW t \in UTasks, NEW r \in TaskShape, NEW u \in Uids \cup {AnyUid}, NEW k \in Toks,
           NEW by \in {"password", "oauth"}, NEW ks \in SUBSET SessionsOf(u),
           NEW base, Kept(base, ks), CreateSession(k, u, by, base),
           revoked' = revoked \cup ks, UNCHANGED <<ucache, gates, rkey, selfreg>>,
           utask' = [utask EXCEPT ![t] = r], utask[t].pc # "clear",
           r.pc \notin {"lookup", "insert"}, ks # {} => r.pc = "clear" /\ r.uid = u
    PROVE  UInv'
  <1>1. k \notin minted /\ minted' = minted \cup {k} /\ usess' = [base EXCEPT ![k] = Sess(u, by)]
    BY DEF CreateSession, WithSession, Sess
  <1>2. k \notin ks
    BY <1>1 DEF SessionsOf, UInv, OneUser
  <1>3. Sess(u, by) \in SessShape
    BY SessFields
  <1>4. /\ usess' \in [Toks -> SessShape]
        /\ \A x \in Toks : usess'[x] = usess[x] \/ usess'[x] = NoSess \/ x \in {k}
        /\ \A x \in ks : usess'[x] = NoSess
    BY <1>1, <1>2, <1>3 DEF SessionsOf, Kept
  <1>5. {k} \in SUBSET Toks /\ {k} \cap minted = {}
    BY <1>1
  <1> QED  BY <1>1, <1>4, <1>5, SessionsMove

(* The same with nothing taken back, and with all of the user's sessions. *)
LEMMA OpensBeside ==
    ASSUME UInv, NEW t \in UTasks, NEW u \in Uids \cup {AnyUid}, NEW k \in Toks,
           NEW by \in {"password", "oauth"}, CreateSession(k, u, by, usess), UReturn(t),
           utask[t].pc # "clear", UNCHANGED <<revoked, ucache, gates, rkey, selfreg>>
    PROVE  UInv'
  <1>1. Kept(usess, {}) /\ {} \in SUBSET SessionsOf(u) /\ revoked' = revoked \cup {}
    BY DEF UInv, UShape, Kept
  <1>2. utask' = [utask EXCEPT ![t] = UIdle]
    BY DEF UReturn, UGoto
  <1> QED  BY <1>1, <1>2, IdleRow, Opens

LEMMA OpensInstead ==
    ASSUME UInv, NEW t \in UTasks, NEW u \in Uids \cup {AnyUid}, NEW k \in Toks,
           NEW by \in {"password", "oauth"}, CreateSession(k, u, by, Without(SessionsOf(u))),
           revoked' = revoked \cup SessionsOf(u), UGoto(t, [UIdle EXCEPT !.pc = "clear", !.uid = u]),
           utask[t].pc # "clear", UNCHANGED <<ucache, gates, rkey, selfreg>>
    PROVE  UInv'
  <1>1. Kept(Without(SessionsOf(u)), SessionsOf(u))
    BY WithoutRows DEF SessionsOf, Kept
  <1>2. utask' = [utask EXCEPT ![t] = ClearRow(u)]
    BY DEF UGoto, ClearRow
  <1>3. /\ ClearRow(u) \in TaskShape /\ ClearRow(u).pc \notin {"lookup", "insert"}
        /\ SessionsOf(u) # {} => ClearRow(u).pc = "clear" /\ ClearRow(u).uid = u
        /\ SessionsOf(u) \in SUBSET SessionsOf(u)
    BY ClearRowFields
  <1> QED  BY <1>1, <1>2, <1>3, Opens

LEMMA OpeningRequests ==
    ASSUME UInv, NEW t \in UTasks, NEW k \in Toks,
           \/ LoginCreate(t, k) \/ \E p \in Pws : MePasswordTx(t, p, k)
           \/ \E u \in Uids : OauthTx(t, u, k)
    PROVE  UInv'
  <1>1. utask[t].uid \in Uids \cup {AnyUid}
    BY DEF UInv, UShape, TaskShape
  <1>2. ASSUME LoginCreate(t, k) PROVE UInv'
    <2>1. CASE urow[utask[t].uid] = NoUser
      BY <1>2, <2>1, Returning DEF LoginCreate, UAt
    <2>2. CASE urow[utask[t].uid] # NoUser
      BY <1>1, <1>2, <2>2, OpensBeside DEF LoginCreate, UAt
    <2> QED  BY <2>1, <2>2
  <1>3. ASSUME NEW p \in Pws, MePasswordTx(t, p, k) PROVE UInv'
    <2>1. CASE urow[utask[t].uid] = NoUser
      BY <1>3, <2>1, Returning DEF MePasswordTx, UAt, uhist
    <2>2. CASE urow[utask[t].uid] # NoUser
      BY <1>1, <1>3, <2>2, OpensInstead DEF MePasswordTx, UAt
    <2> QED  BY <2>1, <2>2
  <1>4. ASSUME NEW u \in Uids, OauthTx(t, u, k) PROVE UInv'
    <2>1. utask[t].pc = "link" /\ UNCHANGED <<ucache, gates, rkey, selfreg>>
      BY <1>4 DEF OauthTx, UAt
    <2>2. CASE OauthFind(t, u, k) /\ Claims(u)
      BY <2>1, <2>2, OpensInstead DEF OauthFind
    <2>3. CASE OauthFind(t, u, k) /\ ~Claims(u)
      BY <2>1, <2>3, OpensBeside DEF OauthFind
    <2>4. CASE OauthCreate(t, u, k)
      BY <2>1, <2>4, OpensBeside DEF OauthCreate
    <2>5. CASE UReturn(t) /\ UNCHANGED <<urow, usess, minted, revoked>>
      BY <2>1, <2>5, Returning
    <2> QED  BY <1>4, <2>2, <2>3, <2>4, <2>5 DEF OauthTx
  <1> QED  BY <1>2, <1>3, <1>4

(* slide_expiry revives no session that is gone; expiry and sweep. *)
LEMMA SessionsAge ==
    ASSUME UInv, (\E k \in Toks : SlideExpiry(k) \/ SessionExpires(k)) \/ SweepExpiredSessions
    PROVE  UInv'
  <1>1. UNCHANGED <<ucache, gates, rkey, selfreg, minted, revoked, utask>>
    BY DEF SlideExpiry, SessionExpires, SweepExpiredSessions, uhist
  <1>2. ASSUME NEW k \in Toks, NEW b \in BOOLEAN, usess[k] # NoSess
        PROVE  [usess[k] EXCEPT !.live = b] \in SessShape /\ [usess[k] EXCEPT !.live = b].uid = usess[k].uid
    <2>1. usess[k] \in [uid : Uids \cup {AnyUid}, live : BOOLEAN, by : {"password", "oauth"}]
      BY <1>2 DEF UInv, UShape, SessShape
    <2> QED  BY <2>1 DEF SessShape
  <1>3. /\ usess' \in [Toks -> SessShape]
        /\ \A k \in Toks : usess'[k] # NoSess => usess[k] # NoSess /\ usess'[k].uid = usess[k].uid
    <2>1. usess \in [Toks -> SessShape]
      BY DEF UInv, UShape
    <2>2. ASSUME NEW k \in Toks, NEW b \in BOOLEAN, usess[k] # NoSess, usess' = [usess EXCEPT ![k].live = b]
          PROVE  <1>3!1 /\ <1>3!2
      <3> DEFINE row == [usess[k] EXCEPT !.live = b]
      <3>1. row \in SessShape /\ row.uid = usess[k].uid
        BY <1>2, <2>2
      <3>2. usess' = [usess EXCEPT ![k] = row]
        BY <2>2
      <3> HIDE DEF row
      <3> QED  BY <2>1, <2>2, <3>1, <3>2
    <2>3. ASSUME NEW k \in Toks, SlideExpiry(k) PROVE <1>3!1 /\ <1>3!2
      BY <2>1, <2>2, <2>3 DEF SlideExpiry, SlidExpiry
    <2>4. ASSUME NEW k \in Toks, SessionExpires(k) PROVE <1>3!1 /\ <1>3!2
      BY <2>2, <2>4 DEF SessionExpires, LookupSession
    <2>5. ASSUME SweepExpiredSessions PROVE <1>3!1 /\ <1>3!2
      BY <2>5, WithoutRows DEF SweepExpiredSessions
    <2> QED  BY <2>3, <2>4, <2>5
  <1>4. UShape' /\ OneUser'
    BY <1>1, <1>3 DEF UInv, UShape, OneUser
  <1>5. AllTrue'
    BY <1>1, <1>3 DEF UInv, AllTrue, TaskTrue
  <1>6. Current'
    BY <1>1 DEF UInv, Current, Clearing
  <1> QED  BY <1>4, <1>5, <1>6 DEF UInv

(* Steps that touch neither tokens nor cache: accounts, providers and the  *)
(* self-register flag.                                                     *)
LEMMA AccountsMove ==
    ASSUME UInv, NEW t \in UTasks, NEW u \in Uids, NEW e, NEW p, NEW v,
           CreateUser(t, u, e, p, v) \/ UpdateUser(t, u, e, p, v)
    PROVE  UInv'
  BY UsersRest DEF CreateUser, UpdateUser, uhist

LEMMA ProviderMoves ==
    ASSUME UInv, (\E s : Upserted(s)) \/ \E uri \in Uris : StateExpires(uri)
    PROVE  UInv'
  BY UsersRest DEF Upserted, UNCONFIG, StateExpires, uhist

LEMMA FlagMoves == ASSUME UInv, SetSelfRegister PROVE UInv'
  <1>1. UNCHANGED <<usess, ucache, gates, rkey, minted, revoked, utask>> /\ selfreg' \in BOOLEAN
    BY DEF SetSelfRegister, UNCONFIG
  <1> QED  BY <1>1 DEF UInv, UShape, OneUser, AllTrue, TaskTrue, Current, Clearing

LEMMA UStep == UInv /\ [UNext]_uvars => UInv'
  <1> SUFFICES ASSUME UInv, [UNext]_uvars PROVE UInv'
    OBVIOUS
  <1>1. CASE UNCHANGED uvars
    BY <1>1, UsersRest DEF uvars, ustate, uhist
  <1>2. ASSUME NEW t \in UTasks, UserRequest(t) PROVE UInv'
    BY <1>2, Reading, RegisterMoves, OpeningRequests, MeGetMoves, RevokingRequests, UserCleared,
       PasswordReads DEF UserRequest
  <1>3. ASSUME NEW t \in UTasks, Door(t) PROVE UInv'
    BY <1>3, DoorReads, DoorInserts DEF Door
  <1>4. ASSUME NEW t \in UTasks, ServiceRequest(t) PROVE UInv'
    BY <1>4, AccountsMove, RevokingRequests
       DEF ServiceRequest, McpCreateUser, CreateUserTool, McpUpdateUser, UpdateUserTool, McpDeleteUser,
           McpRevokeUserSessions
  <1>5. ASSUME NEW t \in UTasks, OauthRequest(t) PROVE UInv'
    BY <1>5, OauthMoves, OpeningRequests DEF OauthRequest
  <1>6. CASE UTime
    BY <1>6, SessionsAge, EntryGoes, ProviderMoves DEF UTime, AllToks
  <1>7. CASE UConfig
    BY <1>7, ProviderMoves, FlagMoves, GatesMove, RoleRerolled
       DEF UConfig, PutOauthProvider, McpSetOauthProvider, SetOauthProviderTool, TenantOauthProviderUpsert,
           PutOauthRedirectUris, McpSetRedirectUris, SetRedirectUrisTool, TenantOauthRedirectUrisUpdate,
           UpdatedRedirectUris, DeleteOauthProvider, McpDeleteOauthProvider, DeleteOauthProviderTool,
           TenantOauthProviderDelete, DeleteProvider, McpSetSelfRegister, McpSetPublishPolicy,
           SetPublishPolicy, McpSetFileCaps, SetFileCaps
  <1> QED  BY <1>1, <1>2, <1>3, <1>4, <1>5, <1>6, <1>7 DEF UNext

(* What the bearer cache answers is current for any number of users,       *)
(* tokens and handlers in flight: after a handler has cleared the cache,   *)
(* no entry of a token it took back is left but one whose lookup came      *)
(* before and whose insert came after.                                     *)
THEOREM CachedBearersCurrent == USpec => []EntriesCurrent
  <1>1. USpec => []UInv
    BY UInitial, UStep, PTL DEF USpec
  <1> QED  BY <1>1, CurrentSuffices, PTL

(* What was taken back stays on record. *)
LEMMA RevokedGrows == [UNext]_uvars => revoked \subseteq revoked'
  <1> SUFFICES ASSUME [UNext]_uvars PROVE revoked \subseteq revoked'
    OBVIOUS
  <1> USE DEF uhist, UNREVOKED
  <1>1. CASE UNCHANGED uvars
    BY <1>1 DEF uvars
  <1>2. ASSUME NEW t \in UTasks, UserRequest(t) PROVE revoked \subseteq revoked'
    BY <1>2 DEF UserRequest, RegisterRead, LoginRead, RegisterInsert, LoginCreate, MeGet, Logout, LogoutAll,
                Revoke, RevokeUserRealtime, MePasswordRead, MePasswordTx
  <1>3. ASSUME NEW t \in UTasks, Door(t) PROVE revoked \subseteq revoked'
    BY <1>3 DEF Door, DoorHit, DoorRow, DoorLookup, DoorInsert
  <1>4. ASSUME NEW t \in UTasks, ServiceRequest(t) PROVE revoked \subseteq revoked'
    BY <1>4 DEF ServiceRequest, McpCreateUser, CreateUserTool, McpUpdateUser, UpdateUserTool, McpDeleteUser,
                McpRevokeUserSessions, CreateUser, UpdateUser, DeleteUser, RevokeSessions,
                RevokeUserSessionsTool, Revoke
  <1>5. ASSUME NEW t \in UTasks, OauthRequest(t) PROVE revoked \subseteq revoked'
    BY <1>5 DEF OauthRequest, OauthStart, OauthCallback, Exchange, OauthTx, OauthFind, OauthCreate
  <1>6. CASE UTime
    BY <1>6 DEF UTime, SlideExpiry, SessionExpires, EntryExpires, SweepExpiredSessions, StateExpires
  <1>7. CASE UConfig
    BY <1>7 DEF UConfig, PutOauthProvider, McpSetOauthProvider, SetOauthProviderTool,
           TenantOauthProviderUpsert, PutOauthRedirectUris, McpSetRedirectUris, SetRedirectUrisTool,
           TenantOauthRedirectUrisUpdate, UpdatedRedirectUris, DeleteOauthProvider, McpDeleteOauthProvider,
           DeleteOauthProviderTool, TenantOauthProviderDelete, DeleteProvider, Upserted, McpSetSelfRegister,
           SetSelfRegister, McpSetPublishPolicy, SetPublishPolicy, McpSetFileCaps, SetFileCaps, ChangeGates,
           RerollToken
  <1> QED  BY <1>1, <1>2, <1>3, <1>4, <1>5, <1>6, <1>7 DEF UNext

(* No slide_expiry, login or OAuth callback gives a session to a token     *)
(* that was taken back.                                                    *)
THEOREM RevokedStaysRevoked == USpec => NoResurrection
  <1> DEFINE Gone == \A k \in Toks \cap revoked : usess'[k] = NoSess
  <1>1. USpec => []UInv
    BY UInitial, UStep, PTL DEF USpec
  <1>2. [UNext]_uvars => revoked \subseteq revoked'
    BY RevokedGrows
  <1>3. UInv /\ [UNext]_uvars => [Gone]_uvars
    <2> SUFFICES ASSUME UInv, [UNext]_uvars PROVE Gone
      OBVIOUS
    <2> QED  BY <1>2, UStep DEF UInv, OneUser
  <1>4. NoResurrection <=> [][Gone]_uvars
    BY PTL DEF NoResurrection
  <1> QED  BY <1>1, <1>3, <1>4, PTL DEF USpec


----------------------------------------------------------------------------
(* AuditLog.  The places of an entry, as functions of channel, buffer and  *)
(* table, and what a receive, a send, a stash and a flush do to them.      *)

Commands == [cmd : {"insert"}, e : AEntry] \cup [cmd : {"retention"}, cut : Nat, vacuum : BOOLEAN]
            \cup [cmd : {"meta"}, v : Nat]
AuditTypes ==
    /\ achan \in Seq(Commands) /\ abuf \in Seq(AEntry) /\ arows \subseteq AEntry
    /\ asent \in 0 .. MaxSent /\ atick \in 0 .. MaxTick /\ adropped \in Nat

InsertsOf(s) == {i \in DOMAIN s : s[i].cmd = "insert"}
ChanNums(s) == {s[i].e.n : i \in InsertsOf(s)}
ChanApart(s) == \A i, j \in InsertsOf(s) : s[i].e.n = s[j].e.n => i = j
BufNums(s) == {s[i].n : i \in DOMAIN s}
BufApart(s) == \A i, j \in DOMAIN s : s[i].n = s[j].n => i = j
RowNums(S) == {e.n : e \in S}
RowApart(S) == \A e, f \in S : e.n = f.n => e = f

(* Five sets that share out the numbers up to m. *)
Shares(c, b, s, g, d, m) ==
    /\ c \cup b \cup s \cup g \cup d = 1 .. m
    /\ c \cap b = {} /\ c \cap s = {} /\ c \cap g = {} /\ c \cap d = {} /\ b \cap s = {}
    /\ b \cap g = {} /\ b \cap d = {} /\ s \cap g = {} /\ s \cap d = {} /\ g \cap d = {}

AuditInv ==
    /\ AuditTypes /\ ChanApart(achan) /\ BufApart(abuf) /\ RowApart(arows)
    /\ Shares(ChanNums(achan), BufNums(abuf), RowNums(arows), agone, adrops, asent)
    /\ adropped = Cardinality(adrops)

LEMMA AccountedByShares == AuditInv => AuditAccounted
  <1> SUFFICES ASSUME AuditInv PROVE AuditAccounted
    OBVIOUS
  <1> DEFINE places == <<InChannel, InBuffer, Stored, agone, adrops>>
  <1>1. Inserts = InsertsOf(achan) /\ InChannel = ChanNums(achan) /\ InBuffer = BufNums(abuf) /\ Stored = RowNums(arows)
    BY DEF Inserts, InsertsOf, InChannel, ChanNums, InBuffer, BufNums, Stored, RowNums
  <1>2. Shares(InChannel, InBuffer, Stored, agone, adrops, asent)
    BY <1>1 DEF AuditInv
  <1>3. places[1] = InChannel /\ places[2] = InBuffer /\ places[3] = Stored /\ places[4] = agone /\ places[5] = adrops
    OBVIOUS
  <1>4. 1 .. 5 = {1, 2, 3, 4, 5}
    OBVIOUS
  <1> HIDE DEF places
  <1>5. UNION {places[i] : i \in 1 .. 5} = 1 .. asent
    <2>1. {places[i] : i \in 1 .. 5} = {InChannel, InBuffer, Stored, agone, adrops}
      BY <1>3, <1>4
    <2> QED BY <2>1, <1>2 DEF Shares
  <1>6. \A i, j \in 1 .. 5 : i # j => places[i] \cap places[j] = {}
    BY <1>2, <1>3, <1>4 DEF Shares
  <1>7. /\ \A i, j \in Inserts : achan[i].e.n = achan[j].e.n => i = j
        /\ \A i, j \in DOMAIN abuf : abuf[i].n = abuf[j].n => i = j
        /\ \A e, f \in arows : e.n = f.n => e = f
        /\ adropped = Cardinality(adrops)
    BY <1>1 DEF AuditInv, ChanApart, BufApart, RowApart
  <1> QED BY <1>5, <1>6, <1>7 DEF AuditAccounted, places

(* The channel. *)
LEMMA SendInsert ==
    ASSUME NEW s \in Seq(Commands), NEW e \in AEntry, ChanApart(s), e.n \notin ChanNums(s)
    PROVE  /\ Append(s, Ins(e)) \in Seq(Commands)
           /\ ChanNums(Append(s, Ins(e))) = ChanNums(s) \cup {e.n}
           /\ ChanApart(Append(s, Ins(e)))
  <1> DEFINE m == Ins(e)  t == Append(s, m)
  <1>1. m \in Commands /\ m.cmd = "insert" /\ m.e = e
    BY DEF Ins, Commands
  <1> HIDE DEF m
  <1>2. /\ t \in Seq(Commands) /\ DOMAIN t = DOMAIN s \cup {Len(s) + 1} /\ Len(s) + 1 \notin DOMAIN s
        /\ t[Len(s) + 1] = m /\ \A i \in DOMAIN s : t[i] = s[i]
    BY <1>1
  <1>3. InsertsOf(t) = InsertsOf(s) \cup {Len(s) + 1}
    BY <1>1, <1>2 DEF InsertsOf
  <1>4. \A i \in InsertsOf(s) : t[i] = s[i] /\ s[i].e.n \in ChanNums(s)
    BY <1>2 DEF InsertsOf, ChanNums
  <1>5. ChanNums(t) = ChanNums(s) \cup {e.n}
    <2>1. ASSUME NEW i \in InsertsOf(t) PROVE t[i].e.n \in ChanNums(s) \cup {e.n}
      BY <1>1, <1>2, <1>3, <1>4
    <2>2. Len(s) + 1 \in InsertsOf(t) /\ t[Len(s) + 1].e.n = e.n
      BY <1>1, <1>2, <1>3
    <2>3. ASSUME NEW i \in InsertsOf(s) PROVE i \in InsertsOf(t) /\ t[i].e.n = s[i].e.n
      BY <1>3, <1>4
    <2>4. ChanNums(t) \subseteq ChanNums(s) \cup {e.n}
      BY <2>1 DEF ChanNums
    <2>5. e.n \in ChanNums(t)
      BY <2>2 DEF ChanNums
    <2>6. ChanNums(s) \subseteq ChanNums(t)
      BY <2>3 DEF ChanNums
    <2> QED BY <2>4, <2>5, <2>6
  <1>6. ChanApart(t)
    BY <1>1, <1>2, <1>3, <1>4 DEF ChanApart
  <1> QED BY <1>2, <1>5, <1>6 DEF m

LEMMA SendOther ==
    ASSUME NEW s \in Seq(Commands), NEW m \in Commands, m.cmd # "insert", ChanApart(s)
    PROVE  /\ Append(s, m) \in Seq(Commands)
           /\ ChanNums(Append(s, m)) = ChanNums(s) /\ ChanApart(Append(s, m))
  <1> DEFINE t == Append(s, m)
  <1>2. /\ t \in Seq(Commands) /\ DOMAIN t = DOMAIN s \cup {Len(s) + 1} /\ Len(s) + 1 \notin DOMAIN s
        /\ t[Len(s) + 1] = m /\ \A i \in DOMAIN s : t[i] = s[i]
    OBVIOUS
  <1> HIDE DEF t
  <1>3. InsertsOf(t) = InsertsOf(s) /\ \A i \in InsertsOf(s) : t[i] = s[i]
    BY <1>2 DEF InsertsOf
  <1>4. ChanNums(t) = ChanNums(s) /\ ChanApart(t)
    BY <1>3 DEF ChanNums, ChanApart
  <1> QED BY <1>2, <1>4 DEF t

LEMMA ReceiveNext ==
    ASSUME NEW s \in Seq(Commands), s # <<>>, ChanApart(s)
    PROVE  /\ Head(s) \in Commands /\ Tail(s) \in Seq(Commands) /\ ChanApart(Tail(s))
           /\ Head(s).cmd # "insert" => ChanNums(Tail(s)) = ChanNums(s)
           /\ Head(s).cmd = "insert" => /\ Head(s).e \in AEntry /\ Head(s).e.n \in ChanNums(s)
                                        /\ ChanNums(Tail(s)) = ChanNums(s) \ {Head(s).e.n}
  <1> DEFINE t == Tail(s)
  <1>1. /\ Head(s) \in Commands /\ Head(s) = s[1] /\ 1 \in DOMAIN s /\ t \in Seq(Commands)
        /\ \A i \in DOMAIN t : i + 1 \in DOMAIN s /\ i + 1 # 1 /\ t[i] = s[i + 1]
        /\ \A i \in DOMAIN s : i # 1 => i - 1 \in DOMAIN t /\ t[i - 1] = s[i]
    OBVIOUS
  <1>2. \A i \in DOMAIN s : i \in Int
    OBVIOUS
  <1>3. \A i \in DOMAIN t : i \in Int
    BY <1>1
  <1> HIDE DEF t
  <1>4. \A i \in InsertsOf(t) : i + 1 \in InsertsOf(s) /\ i + 1 # 1 /\ t[i] = s[i + 1] /\ i \in Int
    BY <1>1, <1>3 DEF InsertsOf
  <1>5. \A i \in InsertsOf(s) : i # 1 => i - 1 \in InsertsOf(t) /\ t[i - 1] = s[i]
    BY <1>1 DEF InsertsOf
  <1>6. ChanApart(t)
    <2> SUFFICES ASSUME NEW i \in InsertsOf(t), NEW j \in InsertsOf(t), t[i].e.n = t[j].e.n PROVE i = j
      BY DEF ChanApart
    <2>1. i + 1 = j + 1
      BY <1>4 DEF ChanApart
    <2> QED BY <2>1, <1>4
  <1>7. ChanNums(t) = {s[i].e.n : i \in InsertsOf(s) \ {1}}
    <2>1. ASSUME NEW i \in InsertsOf(t) PROVE t[i].e.n \in {s[k].e.n : k \in InsertsOf(s) \ {1}}
      <3>1. i + 1 \in InsertsOf(s) \ {1} /\ t[i].e.n = s[i + 1].e.n
        BY <1>4
      <3> QED BY <3>1
    <2>2. ASSUME NEW i \in InsertsOf(s) \ {1} PROVE s[i].e.n \in ChanNums(t)
      <3>1. i - 1 \in InsertsOf(t) /\ t[i - 1].e.n = s[i].e.n
        BY <1>5
      <3> QED BY <3>1 DEF ChanNums
    <2> QED BY <2>1, <2>2 DEF ChanNums
  <1>8. CASE Head(s).cmd # "insert"
    <2>1. InsertsOf(s) \ {1} = InsertsOf(s)
      BY <1>1, <1>8 DEF InsertsOf
    <2> QED BY <1>1, <1>6, <1>7, <1>8, <2>1 DEF ChanNums, t
  <1>9. CASE Head(s).cmd = "insert"
    <2>1. 1 \in InsertsOf(s)
      BY <1>1, <1>9 DEF InsertsOf
    <2>2. Head(s).e \in AEntry
      BY <1>1, <1>9 DEF Commands
    <2>3. Head(s).e.n \in ChanNums(s)
      BY <1>1, <2>1 DEF ChanNums
    <2>4. \A i \in InsertsOf(s) \ {1} : s[i].e.n # s[1].e.n
      BY <2>1 DEF ChanApart
    <2>5. ChanNums(t) = ChanNums(s) \ {s[1].e.n}
      BY <1>7, <2>1, <2>4 DEF ChanNums
    <2> QED BY <1>1, <1>6, <1>9, <2>2, <2>3, <2>5 DEF t
  <1> QED BY <1>8, <1>9

(* The buffer. *)
LEMMA BufferOne ==
    ASSUME NEW s \in Seq(AEntry), NEW e \in AEntry, BufApart(s), e.n \notin BufNums(s)
    PROVE  /\ Append(s, e) \in Seq(AEntry) /\ BufApart(Append(s, e))
           /\ BufNums(Append(s, e)) = BufNums(s) \cup {e.n}
  <1> DEFINE t == Append(s, e)
  <1>2. /\ t \in Seq(AEntry) /\ DOMAIN t = DOMAIN s \cup {Len(s) + 1} /\ Len(s) + 1 \notin DOMAIN s
        /\ t[Len(s) + 1] = e /\ \A i \in DOMAIN s : t[i] = s[i]
    OBVIOUS
  <1> HIDE DEF t
  <1>3. \A i \in DOMAIN s : s[i].n \in BufNums(s)
    BY DEF BufNums
  <1>4. BufNums(t) = BufNums(s) \cup {e.n} /\ BufApart(t)
    BY <1>2, <1>3 DEF BufNums, BufApart
  <1> QED BY <1>2, <1>4 DEF t

LEMMA EmptyBuffer == <<>> \in Seq(AEntry) /\ BufNums(<<>>) = {} /\ BufApart(<<>>)
  BY DEF BufNums, BufApart

LEMMA EmptyChannel == <<>> \in Seq(Commands) /\ ChanNums(<<>>) = {} /\ ChanApart(<<>>)
  BY DEF ChanNums, InsertsOf, ChanApart

(* Entries move from one place to the next. *)
LEMMA FlushMoves ==
    ASSUME AuditInv, NEW buf \in Seq(AEntry), BufApart(buf), Flush(buf),
           NEW c, Shares(c, BufNums(buf), RowNums(arows), agone, adrops, asent)
    PROVE  /\ abuf' \in Seq(AEntry) /\ BufApart(abuf') /\ arows' \subseteq AEntry /\ RowApart(arows')
           /\ Shares(c, BufNums(abuf'), RowNums(arows'), agone', adrops, asent)
  <1>1. PICK bad \in SUBSET ToSet(buf) :
          abuf' = <<>> /\ arows' = arows \cup (ToSet(buf) \ bad) /\ agone' = agone \cup {e.n : e \in bad}
    BY DEF Flush
  <1>2. \A i \in DOMAIN buf : buf[i] \in AEntry
    OBVIOUS
  <1>3. ToSet(buf) \subseteq AEntry /\ RowNums(ToSet(buf)) = BufNums(buf)
    BY <1>2 DEF ToSet, RowNums, BufNums
  <1>4. RowApart(ToSet(buf))
    BY DEF ToSet, RowApart, BufApart
  <1>5. arows \subseteq AEntry /\ RowApart(arows) /\ RowNums(arows) \cap BufNums(buf) = {}
    BY DEF AuditInv, AuditTypes, Shares
  <1> DEFINE good == ToSet(buf) \ bad
  <1>6. /\ RowNums(good) \cup RowNums(bad) = BufNums(buf) /\ RowNums(good) \cap RowNums(bad) = {}
    BY <1>3, <1>4 DEF RowNums, RowApart
  <1>7. RowNums(arows') = RowNums(arows) \cup RowNums(good) /\ agone' = agone \cup RowNums(bad)
    BY <1>1 DEF RowNums
  <1>8. arows' \subseteq AEntry
    BY <1>1, <1>3, <1>5
  <1>9. RowApart(arows')
    <2> SUFFICES ASSUME NEW e \in arows', NEW f \in arows', e.n = f.n PROVE e = f
      BY DEF RowApart
    <2>1. \A x \in arows : x.n \in RowNums(arows)
      BY DEF RowNums
    <2>2. \A x \in ToSet(buf) : x.n \in BufNums(buf)
      BY <1>3 DEF RowNums
    <2>3. e \in arows \/ e \in ToSet(buf)
      BY <1>1
    <2>4. f \in arows \/ f \in ToSet(buf)
      BY <1>1
    <2> QED BY <1>4, <1>5, <2>1, <2>2, <2>3, <2>4 DEF RowApart
  <1>10. Shares(c, {}, RowNums(arows'), agone', adrops, asent)
    <2> HIDE DEF good
    <2> QED BY <1>6, <1>7 DEF Shares
  <1> QED BY <1>1, <1>8, <1>9, <1>10, EmptyBuffer

LEMMA DropCounts ==
    ASSUME AuditInv, NEW n, n \notin adrops
    PROVE  Cardinality(adrops \cup {n}) = adropped + 1
  <1>1. adrops \subseteq 1 .. asent /\ asent \in Nat
    BY DEF AuditInv, AuditTypes, Shares
  <1>2. IsFiniteSet(adrops)
    <2>1. IsFiniteSet(1 .. asent)
      BY <1>1, FS_Interval
    <2> QED BY <1>1, <2>1, FS_Subset
  <1> QED BY <1>2, FS_AddElement DEF AuditInv

LEMMA StashMoves ==
    ASSUME AuditInv, StashNext
    PROVE  AuditInv'
  <1> DEFINE m == Head(achan)
  <1>1. /\ achan \in Seq(Commands) /\ achan # <<>> /\ ChanApart(achan) /\ achan' = Tail(achan) /\ Stash(m)
        /\ abuf \in Seq(AEntry) /\ BufApart(abuf)
    BY DEF AuditInv, AuditTypes, StashNext
  <1>2. /\ m \in Commands /\ achan' \in Seq(Commands) /\ ChanApart(achan')
        /\ m.cmd # "insert" => ChanNums(achan') = ChanNums(achan)
        /\ m.cmd = "insert" => /\ m.e \in AEntry /\ m.e.n \in ChanNums(achan)
                               /\ ChanNums(achan') = ChanNums(achan) \ {m.e.n}
    BY <1>1, ReceiveNext
  <1> HIDE DEF m
  <1>3. /\ arows' = arows /\ agone' = agone /\ asent' = asent /\ atick' = atick
    BY DEF StashNext
  <1>4. Shares(ChanNums(achan), BufNums(abuf), RowNums(arows), agone, adrops, asent)
    BY DEF AuditInv
  <1>5. CASE m.cmd = "insert" /\ abuf' = Append(abuf, m.e) /\ adropped' = adropped /\ adrops' = adrops
    <2>1. m.e.n \notin BufNums(abuf)
      BY <1>2, <1>4, <1>5 DEF Shares
    <2>2. abuf' \in Seq(AEntry) /\ BufApart(abuf') /\ BufNums(abuf') = BufNums(abuf) \cup {m.e.n}
      BY <1>1, <1>2, <1>5, <2>1, BufferOne
    <2>3. Shares(ChanNums(achan'), BufNums(abuf'), RowNums(arows), agone, adrops, asent)
      BY <1>2, <1>4, <1>5, <2>2 DEF Shares
    <2> QED BY <1>2, <1>3, <1>5, <2>2, <2>3 DEF AuditInv, AuditTypes
  <1>6. CASE m.cmd = "insert" /\ abuf' = abuf /\ adropped' = adropped + 1 /\ adrops' = adrops \cup {m.e.n}
    <2>1. m.e.n \notin adrops
      BY <1>2, <1>4, <1>6 DEF Shares
    <2>2. adropped' = Cardinality(adrops') /\ adropped' \in Nat
      BY <1>6, <2>1, DropCounts DEF AuditInv, AuditTypes
    <2>3. Shares(ChanNums(achan'), BufNums(abuf), RowNums(arows), agone, adrops', asent)
      BY <1>2, <1>4, <1>6 DEF Shares
    <2> QED BY <1>1, <1>2, <1>3, <1>6, <2>2, <2>3 DEF AuditInv, AuditTypes
  <1>7. CASE m.cmd # "insert" /\ abuf' = abuf /\ adropped' = adropped /\ adrops' = adrops
    BY <1>1, <1>2, <1>3, <1>4, <1>7 DEF AuditInv, AuditTypes
  <1> QED BY <1>1, <1>5, <1>6, <1>7 DEF Stash

(* What ends in a flush of the buffer as it is. *)
LEMMA FlushKeeps ==
    ASSUME AuditInv, Flush(abuf), UNCHANGED <<achan, atick, adropped, asent, adrops>>
    PROVE  AuditInv'
  <1>1. abuf \in Seq(AEntry) /\ BufApart(abuf)
        /\ Shares(ChanNums(achan), BufNums(abuf), RowNums(arows), agone, adrops, asent)
    BY DEF AuditInv, AuditTypes
  <1>2. /\ abuf' \in Seq(AEntry) /\ BufApart(abuf') /\ arows' \subseteq AEntry /\ RowApart(arows')
        /\ Shares(ChanNums(achan), BufNums(abuf'), RowNums(arows'), agone', adrops, asent)
    BY <1>1, FlushMoves
  <1> QED BY <1>2 DEF AuditInv, AuditTypes

LEMMA ReceiveKeeps ==
    ASSUME AuditInv, Receive
    PROVE  AuditInv'
  <1> DEFINE m == Head(achan)
  <1>1. /\ achan \in Seq(Commands) /\ achan # <<>> /\ ChanApart(achan) /\ achan' = Tail(achan)
        /\ abuf \in Seq(AEntry) /\ BufApart(abuf)
        /\ UNCHANGED <<atick, adropped, asent, adrops>>
    BY DEF AuditInv, AuditTypes, Receive
  <1>2. /\ m \in Commands /\ achan' \in Seq(Commands) /\ ChanApart(achan')
        /\ m.cmd # "insert" => ChanNums(achan') = ChanNums(achan)
        /\ m.cmd = "insert" => /\ m.e \in AEntry /\ m.e.n \in ChanNums(achan)
                               /\ ChanNums(achan') = ChanNums(achan) \ {m.e.n}
    BY <1>1, ReceiveNext
  <1>4. Shares(ChanNums(achan), BufNums(abuf), RowNums(arows), agone, adrops, asent)
    BY DEF AuditInv
  <1>5. \/ m.cmd = "insert" /\ Flush(Append(abuf, m.e))
        \/ m.cmd = "insert" /\ abuf' = Append(abuf, m.e) /\ arows' = arows /\ agone' = agone
        \/ m.cmd # "insert" /\ Flush(abuf)
        \/ m.cmd # "insert" /\ abuf' = abuf /\ arows' = arows /\ agone' = agone
    BY DEF Receive
  <1> HIDE DEF m
  <1>6. ASSUME m.cmd = "insert"
        PROVE  /\ Append(abuf, m.e) \in Seq(AEntry) /\ BufApart(Append(abuf, m.e))
               /\ Shares(ChanNums(achan'), BufNums(Append(abuf, m.e)), RowNums(arows), agone, adrops, asent)
    <2>1. m.e.n \notin BufNums(abuf)
      BY <1>2, <1>4, <1>6 DEF Shares
    <2>2. /\ Append(abuf, m.e) \in Seq(AEntry) /\ BufApart(Append(abuf, m.e))
          /\ BufNums(Append(abuf, m.e)) = BufNums(abuf) \cup {m.e.n}
      BY <1>1, <1>2, <1>6, <2>1, BufferOne
    <2>3. Shares(ChanNums(achan'), BufNums(Append(abuf, m.e)), RowNums(arows), agone, adrops, asent)
      BY <1>2, <1>4, <1>6, <2>2 DEF Shares
    <2> QED BY <2>2, <2>3
  <1>7. CASE m.cmd = "insert" /\ Flush(Append(abuf, m.e))
    <2>1. /\ abuf' \in Seq(AEntry) /\ BufApart(abuf') /\ arows' \subseteq AEntry /\ RowApart(arows')
          /\ Shares(ChanNums(achan'), BufNums(abuf'), RowNums(arows'), agone', adrops, asent)
      BY <1>6, <1>7, FlushMoves
    <2> QED BY <1>1, <1>2, <2>1 DEF AuditInv, AuditTypes
  <1>8. CASE m.cmd = "insert" /\ abuf' = Append(abuf, m.e) /\ arows' = arows /\ agone' = agone
    BY <1>1, <1>2, <1>6, <1>8 DEF AuditInv, AuditTypes
  <1>9. CASE m.cmd # "insert" /\ Flush(abuf)
    <2>1. /\ abuf' \in Seq(AEntry) /\ BufApart(abuf') /\ arows' \subseteq AEntry /\ RowApart(arows')
          /\ Shares(ChanNums(achan), BufNums(abuf'), RowNums(arows'), agone', adrops, asent)
      BY <1>1, <1>4, <1>9, FlushMoves
    <2> QED BY <1>1, <1>2, <1>9, <2>1 DEF AuditInv, AuditTypes
  <1>10. CASE m.cmd # "insert" /\ abuf' = abuf /\ arows' = arows /\ agone' = agone
    BY <1>1, <1>2, <1>10 DEF AuditInv, AuditTypes
  <1> QED BY <1>5, <1>7, <1>8, <1>9, <1>10

LEMMA ChunkKeeps ==
    ASSUME AuditInv, DeleteExpiredChunk
    PROVE  AuditInv'
  <1>1. PICK gone \in SUBSET arows : arows' = arows \ gone /\ agone' = agone \cup {e.n : e \in gone}
    BY DEF DeleteExpiredChunk, kSubset, Expired
  <1>2. UNCHANGED <<achan, abuf, atick, adropped, asent, adrops>>
    BY DEF DeleteExpiredChunk
  <1>3. RowApart(arows) /\ arows \subseteq AEntry
        /\ Shares(ChanNums(achan), BufNums(abuf), RowNums(arows), agone, adrops, asent)
    BY DEF AuditInv, AuditTypes
  <1>4. /\ RowNums(arows') \cup RowNums(gone) = RowNums(arows) /\ RowNums(arows') \cap RowNums(gone) = {}
        /\ agone' = agone \cup RowNums(gone) /\ RowApart(arows')
    BY <1>1, <1>3 DEF RowNums, RowApart
  <1>5. Shares(ChanNums(achan), BufNums(abuf), RowNums(arows'), agone', adrops, asent)
    BY <1>3, <1>4 DEF Shares
  <1> QED BY <1>1, <1>2, <1>3, <1>4, <1>5 DEF AuditInv, AuditTypes

LEMMA VacuumKeeps ==
    ASSUME AuditInv, VacuumEnds
    PROVE  AuditInv'
  <1>1. UNCHANGED <<achan, atick, adropped, asent, adrops>>
    BY DEF VacuumEnds
  <1>2. CASE Flush(abuf)
    BY <1>1, <1>2, FlushKeeps
  <1>3. CASE abuf' = <<>> /\ agone' = agone \cup InBuffer /\ arows' = arows
    <2>1. InBuffer = BufNums(abuf)
      BY DEF InBuffer, BufNums
    <2>2. Shares(ChanNums(achan), BufNums(abuf), RowNums(arows), agone, adrops, asent)
      BY DEF AuditInv
    <2>3. Shares(ChanNums(achan), {}, RowNums(arows), agone', adrops, asent)
      BY <1>3, <2>1, <2>2 DEF Shares
    <2> QED BY <1>1, <1>3, <2>3, EmptyBuffer DEF AuditInv, AuditTypes
  <1> QED BY <1>2, <1>3 DEF VacuumEnds

LEMMA SendKeeps ==
    ASSUME AuditInv, NEW ts \in 0 .. MaxTick, TrySend(ts)
    PROVE  AuditInv'
  <1> DEFINE e == [n |-> asent + 1, ts |-> ts]
  <1>a. asent' = asent + 1 /\ asent < MaxSent /\ UNCHANGED <<abuf, arows, atick, agone>>
    BY Zenon DEF TrySend
  <1>b. asent \in 0 .. MaxSent
    BY Zenon DEF AuditInv, AuditTypes
  <1>c. MaxSent \in Nat
    BY AuditAssumption
  <1>1. asent' = asent + 1 /\ asent \in 0 .. MaxSent /\ asent + 1 \in 1 .. MaxSent /\ MaxSent \in Nat
        /\ UNCHANGED <<abuf, arows, atick, agone>>
    BY ONLY <1>a, <1>b, <1>c, SMT
  <1>2. e \in AEntry /\ e.n = asent + 1
    BY <1>1 DEF AEntry
  <1>3. \/ achan' = Append(achan, Ins(e)) /\ adropped' = adropped /\ adrops' = adrops
        \/ achan' = achan /\ adropped' = adropped + 1 /\ adrops' = adrops \cup {e.n}
    BY DEF TrySend
  <1> HIDE DEF e
  <1>4. Shares(ChanNums(achan), BufNums(abuf), RowNums(arows), agone, adrops, asent)
        /\ achan \in Seq(Commands) /\ ChanApart(achan) /\ adropped \in Nat
    BY DEF AuditInv, AuditTypes
  <1>5. 1 .. asent' = (1 .. asent) \cup {e.n} /\ e.n \notin 1 .. asent
    BY <1>1, <1>2
  <1>6. e.n \notin ChanNums(achan) \cup BufNums(abuf) \cup RowNums(arows) \cup agone \cup adrops
    BY <1>4, <1>5 DEF Shares
  <1>7. CASE achan' = Append(achan, Ins(e)) /\ adropped' = adropped /\ adrops' = adrops
    <2>1. achan' \in Seq(Commands) /\ ChanNums(achan') = ChanNums(achan) \cup {e.n} /\ ChanApart(achan')
      BY <1>2, <1>4, <1>6, <1>7, SendInsert
    <2>2. Shares(ChanNums(achan'), BufNums(abuf), RowNums(arows), agone, adrops, asent')
      BY <1>4, <1>5, <1>6, <2>1 DEF Shares
    <2> QED BY <1>1, <1>7, <2>1, <2>2 DEF AuditInv, AuditTypes
  <1>8. CASE achan' = achan /\ adropped' = adropped + 1 /\ adrops' = adrops \cup {e.n}
    <2>1. adropped' = Cardinality(adrops')
      BY <1>6, <1>8, DropCounts
    <2>2. Shares(ChanNums(achan), BufNums(abuf), RowNums(arows), agone, adrops', asent')
      BY <1>4, <1>5, <1>6, <1>8 DEF Shares
    <2> QED BY <1>1, <1>4, <1>8, <2>1, <2>2 DEF AuditInv, AuditTypes
  <1> QED BY <1>3, <1>7, <1>8

LEMMA CommandKeeps ==
    ASSUME AuditInv, NEW m \in Commands, m.cmd # "insert", achan' = Append(achan, m),
           UNCHANGED <<abuf, arows, agone, adropped, asent, adrops>>, atick' \in 0 .. MaxTick
    PROVE  AuditInv'
  <1>1. achan \in Seq(Commands) /\ ChanApart(achan)
    BY DEF AuditInv, AuditTypes
  <1>2. achan' \in Seq(Commands) /\ ChanNums(achan') = ChanNums(achan) /\ ChanApart(achan')
    BY <1>1, SendOther
  <1> QED BY <1>2 DEF AuditInv, AuditTypes

LEMMA RetentionKeeps ==
    ASSUME AuditInv, Retention0300 \/ SendSetMeta
    PROVE  AuditInv'
  <1>1. MaxTick \in Nat /\ RetentionTicks \in Nat /\ atick \in 0 .. MaxTick
    BY AuditAssumption DEF AuditInv, AuditTypes
  <1>2. CASE Retention0300
    <2>1. atick' = atick + 1 /\ atick' \in 0 .. MaxTick /\ UNCHANGED <<abuf, arows, agone, adropped, asent, adrops>>
          /\ achan' = Append(achan, Ret(Cutoff(atick'), ShouldVacuum(atick', ameta)))
      BY <1>1, <1>2 DEF Retention0300
    <2>2. Cutoff(atick') \in Nat
      BY <1>1, <2>1 DEF Cutoff
    <2>3. ShouldVacuum(atick', ameta) \in BOOLEAN
      BY DEF ShouldVacuum
    <2>4. \A c \in Nat, b \in BOOLEAN : Ret(c, b) \in Commands /\ Ret(c, b).cmd # "insert"
      BY DEF Ret, Commands
    <2> QED BY <2>1, <2>2, <2>3, <2>4, CommandKeeps
  <1>3. CASE SendSetMeta
    <2>1. atick' = atick /\ UNCHANGED <<abuf, arows, agone, adropped, asent, adrops>> /\ achan' = Append(achan, Meta(atick))
      BY <1>3 DEF SendSetMeta
    <2>2. Meta(atick) \in Commands /\ Meta(atick).cmd # "insert"
      BY <1>1 DEF Meta, Commands
    <2> QED BY <1>1, <2>1, <2>2, CommandKeeps
  <1> QED BY <1>2, <1>3

LEMMA RestartKeeps ==
    ASSUME AuditInv, ARestart
    PROVE  AuditInv'
  <1>1. /\ achan' = <<>> /\ abuf' = <<>> /\ adropped' = 0 /\ adrops' = {} /\ UNCHANGED <<arows, atick, asent>>
        /\ agone' = agone \cup adrops \cup InChannel \cup InBuffer
    BY DEF ARestart
  <1>2. InChannel = ChanNums(achan) /\ InBuffer = BufNums(abuf)
    BY DEF InChannel, Inserts, InsertsOf, ChanNums, InBuffer, BufNums
  <1>3. Shares(ChanNums(achan), BufNums(abuf), RowNums(arows), agone, adrops, asent)
    BY DEF AuditInv
  <1>4. Shares({}, {}, RowNums(arows), agone', {}, asent)
    BY <1>1, <1>2, <1>3 DEF Shares
  <1>5. Cardinality({}) = 0
    BY FS_EmptySet
  <1> QED BY <1>1, <1>4, <1>5, EmptyBuffer, EmptyChannel DEF AuditInv, AuditTypes

LEMMA AuditInitial == AInit => AuditInv
  <1> SUFFICES ASSUME AInit PROVE AuditInv
    OBVIOUS
  <1>1. AuditTypes
    BY AuditAssumption DEF AInit, AuditTypes
  <1>2. RowNums({}) = {} /\ RowApart({}) /\ Cardinality({}) = 0 /\ 1 .. 0 = {}
    BY FS_EmptySet DEF RowNums, RowApart
  <1>3. Shares({}, {}, {}, {}, {}, 0)
    BY <1>2 DEF Shares
  <1> QED BY <1>1, <1>2, <1>3, EmptyBuffer, EmptyChannel DEF AInit, AuditInv

LEMMA AuditSteps == AuditInv /\ [ANext]_avars => AuditInv'
  <1> SUFFICES ASSUME AuditInv, [ANext]_avars PROVE AuditInv'
    OBVIOUS
  <1>1. ASSUME UNCHANGED <<achan, abuf, arows, asent, atick, adropped, agone, adrops>> PROVE AuditInv'
    BY <1>1 DEF AuditInv, AuditTypes
  <1>2. CASE UNCHANGED avars \/ AReader
    BY <1>1, <1>2 DEF avars, AReader, OpenBrowse, BrowsePage, CloseBrowse
  <1>3. CASE Absorb \/ StashDuringVacuum
    BY <1>3, StashMoves DEF Absorb, StashDuringVacuum
  <1>4. CASE FlushWindow \/ AbsorbEnds
    BY <1>4, FlushKeeps DEF FlushWindow, AbsorbEnds
  <1>5. CASE DeleteEnds
    <2>1. CASE Flush(abuf)
      BY <1>5, <2>1, FlushKeeps DEF DeleteEnds
    <2>2. CASE UNCHANGED <<abuf, arows, agone>>
      BY <1>1, <1>5, <2>2 DEF DeleteEnds
    <2> QED BY <1>5, <2>1, <2>2 DEF DeleteEnds
  <1> QED
    BY <1>2, <1>3, <1>4, <1>5, ReceiveKeeps, ChunkKeeps, VacuumKeeps, SendKeeps, RetentionKeeps, RestartKeeps
    DEF ANext, AWriter, ASenders

(* For any number of entries, any capacities of channel, batch, stash and  *)
(* delete chunk, and any order of batches, failed flushes, retention       *)
(* passes, VACUUMs and restarts: every entry handed to try_send is in one  *)
(* place, and the drop counters count exactly the dropped ones             *)
(* (writer_loop, stash_cmd, flush).                                        *)
THEOREM EntriesAreAccounted == ASpec => []AuditAccounted
  BY AuditInitial, AuditSteps, AccountedByShares, PTL DEF ASpec

----------------------------------------------------------------------------
(* The nightly pruning. *)

Archives == [day : Nat, n : Nat, whole : BOOLEAN, dbs : SUBSET BTenants]
Scripts == [pc : {"idle", "list", "dbs", "tar", "prune", "scan"}, dbs : SUBSET BTenants, todo : SUBSET BTenants,
            out : Nat \X Nat]
Prunings == [all : SUBSET Archives, left : SUBSET Archives, keep : SUBSET Archives, days : SUBSET Nat,
             weeks : SUBSET {Week(d) : d \in Nat}, daily : Nat, weekly : Nat, today : Nat]
BackupTypeOK ==
    /\ bday \in Nat /\ bdirs \subseteq BTenants /\ barch \subseteq Archives
    /\ bscript \in Scripts /\ bprune \in Prunings

(* The days a pruning may have to keep, and those of them it must. *)
PastDays(st) == {a.day : a \in {x \in st.all : x.day \in 1 .. st.today}}
LaterDays(st, own, d) == {own} \cup {e \in PastDays(st) : e > d}
IsPoint(st, own, d) == d \in PastDays(st) /\ (d = own \/ Cardinality(LaterDays(st, own, d)) < KeepDaily)
HasKept(st, d) == \E k \in st.keep : k.day = d

(* What holds while archives are classified and removed. *)
PruneListed(st, arch) == st.left \subseteq st.all /\ st.keep \subseteq st.all /\ st.left \cup st.keep \subseteq arch
PruneCounts(st) == IsFiniteSet(st.days) /\ st.daily = Cardinality(st.days)
PruneDays(st, own) ==
    /\ own \in st.days
    /\ \A e \in st.days : HasKept(st, e) /\ (e = own \/ (e \in PastDays(st) /\ \A c \in st.left : e >= c.day))
PruneKept(st, own) == \A b \in st.all \ st.left : IsPoint(st, own, b.day) => HasKept(st, b.day)
PruneSound(st, own, arch) == PruneListed(st, arch) /\ PruneCounts(st) /\ PruneDays(st, own) /\ PruneKept(st, own)

IsOwn(a, out) == <<a.day, a.n>> = out
HasOwn(out, arch) == \E a \in arch : IsOwn(a, out)
BackupInv ==
    /\ BackupTypeOK
    /\ bscript.pc \in {"tar", "prune"} => HasOwn(bscript.out, barch)
    /\ bscript.pc = "scan" => PruneSound(bprune, bscript.out[1], barch)

LEMMA BackupInitHolds ==
    ASSUME BInit
    PROVE  BackupInv
  BY BackupsAssumption DEF BInit, Idle, NoPrune, BackupInv, BackupTypeOK, Scripts, Prunings

(* Scanning an archive, field by field. *)
Scanned(st, a) == [KeepStep(st, a) EXCEPT !.left = @ \ {a}]
TakenDaily(st, a) == ~KeepAlways(st, a) /\ KeepDay(st, a)
TakenWeekly(st, a) == ~KeepAlways(st, a) /\ ~KeepDay(st, a) /\ KeepWeek(st, a)
Taken(st, a) == KeepAlways(st, a) \/ TakenDaily(st, a) \/ TakenWeekly(st, a)
LEMMA ScanFields ==
    ASSUME NEW st \in Prunings, NEW a \in Archives
    PROVE  /\ Scanned(st, a) \in Prunings
           /\ Scanned(st, a).all = st.all /\ Scanned(st, a).today = st.today
           /\ Scanned(st, a).left = st.left \ {a}
           /\ Scanned(st, a).keep = IF Taken(st, a) THEN st.keep \cup {a} ELSE st.keep
           /\ Scanned(st, a).days = IF TakenDaily(st, a) THEN st.days \cup {a.day} ELSE st.days
           /\ Scanned(st, a).daily = IF TakenDaily(st, a) THEN st.daily + 1 ELSE st.daily
  <1> DEFINE kept == st.keep \cup {a}
             wks == st.weeks \cup {Week(a.day)}
             dys == st.days \cup {a.day}
             left == st.left \ {a}
  <1>1. kept \in SUBSET Archives /\ wks \in SUBSET {Week(d) : d \in Nat} /\ dys \in SUBSET Nat
        /\ left \in SUBSET Archives /\ st.daily + 1 \in Nat /\ st.weekly + 1 \in Nat
    <2>1. a.day \in Nat /\ st.daily \in Nat /\ st.weekly \in Nat /\ st.weeks \in SUBSET {Week(d) : d \in Nat}
          /\ st.keep \in SUBSET Archives /\ st.days \in SUBSET Nat /\ st.left \in SUBSET Archives
      BY DEF Archives, Prunings
    <2> QED BY <2>1
  <1>2. CASE KeepAlways(st, a)
    <2>1. KeepStep(st, a) = [st EXCEPT !.keep = kept]
      BY <1>2 DEF KeepStep
    <2> HIDE DEF kept, wks, dys
    <2>2. Scanned(st, a) = [st EXCEPT !.keep = kept, !.left = left]
      BY <2>1 DEF Scanned, Prunings
    <2>3. Taken(st, a) /\ ~TakenDaily(st, a)
      BY <1>2 DEF Taken, TakenDaily
    <2> HIDE DEF left
    <2>4. Scanned(st, a).left = left /\ Scanned(st, a).keep = kept /\ Scanned(st, a).days = st.days
          /\ Scanned(st, a).daily = st.daily /\ Scanned(st, a) \in Prunings
          /\ Scanned(st, a).all = st.all /\ Scanned(st, a).today = st.today
      BY <2>2, <1>1 DEF Prunings
    <2> QED BY <2>3, <2>4 DEF left, kept
  <1>3. CASE TakenDaily(st, a)
    <2>1. KeepStep(st, a) = [st EXCEPT !.keep = kept, !.days = dys, !.weeks = wks, !.daily = st.daily + 1]
      BY <1>3 DEF KeepStep, TakenDaily
    <2> HIDE DEF kept, wks, dys
    <2>2. Scanned(st, a) = [st EXCEPT !.keep = kept, !.days = dys, !.weeks = wks, !.daily = st.daily + 1, !.left = left]
      BY <2>1 DEF Scanned, Prunings
    <2>3. Taken(st, a)
      BY <1>3 DEF Taken
    <2> HIDE DEF left
    <2>4. Scanned(st, a).left = left /\ Scanned(st, a).keep = kept /\ Scanned(st, a).days = dys
          /\ Scanned(st, a).daily = st.daily + 1 /\ Scanned(st, a) \in Prunings
          /\ Scanned(st, a).all = st.all /\ Scanned(st, a).today = st.today
      BY <2>2, <1>1 DEF Prunings
    <2> QED BY <1>3, <2>3, <2>4 DEF left, kept, dys
  <1>4. CASE TakenWeekly(st, a)
    <2>1. KeepStep(st, a) = [st EXCEPT !.keep = kept, !.weeks = wks, !.weekly = st.weekly + 1]
      BY <1>4 DEF KeepStep, TakenWeekly
    <2> HIDE DEF kept, wks, dys
    <2>2. Scanned(st, a) = [st EXCEPT !.keep = kept, !.weeks = wks, !.weekly = st.weekly + 1, !.left = left]
      BY <2>1 DEF Scanned, Prunings
    <2>3. Taken(st, a) /\ ~TakenDaily(st, a)
      BY <1>4 DEF Taken, TakenDaily, TakenWeekly
    <2> HIDE DEF left
    <2>4. Scanned(st, a).left = left /\ Scanned(st, a).keep = kept /\ Scanned(st, a).days = st.days
          /\ Scanned(st, a).daily = st.daily /\ Scanned(st, a) \in Prunings
          /\ Scanned(st, a).all = st.all /\ Scanned(st, a).today = st.today
      BY <2>2, <1>1 DEF Prunings
    <2> QED BY <2>3, <2>4 DEF left, kept
  <1>5. CASE ~Taken(st, a)
    <2>1. KeepStep(st, a) = st /\ ~TakenDaily(st, a)
      BY <1>5 DEF KeepStep, Taken, TakenDaily, TakenWeekly
    <2> HIDE DEF left
    <2>2. Scanned(st, a) = [st EXCEPT !.left = left]
      BY <2>1 DEF Scanned, left
    <2>3. Scanned(st, a).left = left /\ Scanned(st, a).keep = st.keep /\ Scanned(st, a).days = st.days
          /\ Scanned(st, a).daily = st.daily /\ Scanned(st, a) \in Prunings
          /\ Scanned(st, a).all = st.all /\ Scanned(st, a).today = st.today
      BY <2>2, <1>1 DEF Prunings
    <2> QED BY <1>5, <2>1, <2>3 DEF left
  <1> QED BY <1>2, <1>3, <1>4, <1>5 DEF Taken

(* The days to come are never more than the bound, and those taken are     *)
(* among them: an archive of a point's day finds room, or a day taken.     *)
LEMMA RoomForAPoint ==
    ASSUME NEW st \in Prunings, NEW own \in Nat, NEW a \in st.left,
           PruneCounts(st), PruneDays(st, own), IsPoint(st, own, a.day), a.day \notin st.days
    PROVE  st.daily < KeepDaily
  <1>1. PastDays(st) \subseteq 1 .. st.today /\ st.today \in Nat
    BY DEF PastDays, Prunings
  <1>2. IsFiniteSet(LaterDays(st, own, a.day))
    <2>1. IsFiniteSet((1 .. st.today) \cup {own})
      <3>1. IsFiniteSet(1 .. st.today)
        <4>1. PICK n \in Nat : n = st.today
          BY <1>1
        <4>2. IsFiniteSet(1 .. n)
          BY FS_Interval
        <4> QED BY <4>1, <4>2
      <3> QED BY <3>1, FS_AddElement
    <2>2. LaterDays(st, own, a.day) \subseteq (1 .. st.today) \cup {own}
      BY <1>1 DEF LaterDays
    <2> QED BY <2>1, <2>2, FS_Subset
  <1>3. st.days \subseteq LaterDays(st, own, a.day)
    <2> SUFFICES ASSUME NEW e \in st.days
                 PROVE  e \in LaterDays(st, own, a.day)
      OBVIOUS
    <2>1. CASE e = own
      BY <2>1 DEF LaterDays
    <2>2. CASE e # own
      <3>1. e \in PastDays(st) /\ e >= a.day
        BY <2>2 DEF PruneDays
      <3>2. e # a.day /\ a.day \in Nat /\ e \in Nat
        BY <1>1 DEF Prunings, Archives
      <3> QED BY <3>1, <3>2 DEF LaterDays
    <2> QED BY <2>1, <2>2
  <1>4. Cardinality(st.days) <= Cardinality(LaterDays(st, own, a.day))
    BY <1>2, <1>3, FS_Subset
  <1>5. Cardinality(LaterDays(st, own, a.day)) < KeepDaily
    BY DEF IsPoint, PruneDays
  <1>6. Cardinality(LaterDays(st, own, a.day)) \in Nat /\ st.daily \in Nat /\ KeepDaily \in Nat
    BY <1>2, FS_CardinalityType, BackupsAssumption DEF Prunings
  <1> QED BY <1>4, <1>5, <1>6 DEF PruneCounts

LEMMA ScanIsSound ==
    ASSUME NEW st \in Prunings, NEW own \in Nat, NEW arch, NEW a \in Archives,
           PruneSound(st, own, arch), First(a, st.left)
    PROVE  PruneSound(Scanned(st, a), own, arch)
  <1> DEFINE new == Scanned(st, a)
  <1>1. a \in st.left /\ a \in st.all /\ a \in arch /\ \A c \in st.left : a.day >= c.day
    <2>1. a \in st.left /\ \A c \in st.left : c = a \/ ByName(a, c)
      BY DEF First
    <2>2. \A c \in st.left : c.day \in Nat
      BY DEF Prunings, Archives
    <2> QED BY <2>1, <2>2 DEF ByName, PruneSound, PruneListed
  <1>2. /\ new.all = st.all /\ new.today = st.today /\ new.left = st.left \ {a}
        /\ new.keep = IF Taken(st, a) THEN st.keep \cup {a} ELSE st.keep
        /\ new.days = IF TakenDaily(st, a) THEN st.days \cup {a.day} ELSE st.days
        /\ new.daily = IF TakenDaily(st, a) THEN st.daily + 1 ELSE st.daily
    BY ScanFields
  <1>3. PastDays(new) = PastDays(st) /\ \A d : IsPoint(new, own, d) <=> IsPoint(st, own, d)
    BY <1>2 DEF PastDays, IsPoint, LaterDays
  <1>4. \A d : HasKept(st, d) => HasKept(new, d)
    BY <1>2 DEF HasKept
  <1>5. TakenDaily(st, a) => a.day \notin st.days /\ a.day \in PastDays(st) /\ HasKept(new, a.day)
    <2> SUFFICES ASSUME TakenDaily(st, a)
                 PROVE  a.day \notin st.days /\ a.day \in PastDays(st) /\ HasKept(new, a.day)
      OBVIOUS
    <2>1. a.day \in Nat /\ st.today \in Nat
      BY DEF Archives, Prunings
    <2>2. a.day # 0 /\ ~(a.day > st.today) /\ a.day \notin st.days
      BY DEF TakenDaily, KeepAlways, KeepDay
    <2>3. a.day \in PastDays(st)
      BY <1>1, <2>1, <2>2 DEF PastDays
    <2>4. a \in new.keep
      BY <1>2 DEF Taken
    <2> QED BY <2>2, <2>3, <2>4 DEF HasKept
  <1> HIDE DEF new
  <1>6. PruneListed(new, arch)
    BY <1>1, <1>2 DEF PruneSound, PruneListed
  <1>7. PruneCounts(new)
    <2>1. IsFiniteSet(st.days) /\ st.daily = Cardinality(st.days)
      BY DEF PruneSound, PruneCounts
    <2>2. CASE TakenDaily(st, a)
      <3>1. /\ IsFiniteSet(st.days \cup {a.day})
            /\ Cardinality(st.days \cup {a.day}) = IF a.day \in st.days THEN Cardinality(st.days) ELSE Cardinality(st.days) + 1
        BY <2>1, FS_AddElement
      <3> QED BY <2>1, <2>2, <1>2, <1>5, <3>1 DEF PruneCounts
    <2> QED BY <2>1, <2>2, <1>2 DEF PruneCounts
  <1>8. PruneDays(new, own)
    <2> SUFFICES ASSUME NEW e \in new.days
                 PROVE  HasKept(new, e) /\ (e = own \/ (e \in PastDays(new) /\ \A c \in new.left : e >= c.day))
      BY <1>2 DEF PruneDays, PruneSound
    <2>1. CASE e \in st.days
      BY <2>1, <1>2, <1>3, <1>4 DEF PruneSound, PruneDays
    <2>2. CASE e \notin st.days
      <3>1. TakenDaily(st, a) /\ e = a.day
        BY <2>2, <1>2
      <3> QED BY <3>1, <1>1, <1>2, <1>3, <1>5
    <2> QED BY <2>1, <2>2
  <1>9. PruneKept(new, own)
    <2> SUFFICES ASSUME NEW b \in new.all \ new.left, IsPoint(st, own, b.day)
                 PROVE  HasKept(new, b.day)
      BY <1>3 DEF PruneKept
    <2>1. CASE b \in st.all \ st.left
      BY <2>1, <1>4 DEF PruneSound, PruneKept
    <2>2. CASE b \notin st.all \ st.left
      <3>1. b = a
        BY <2>2, <1>2
      <3>2. CASE a.day \in st.days
        BY <3>1, <3>2, <1>4 DEF PruneSound, PruneDays
      <3>3. CASE a.day \notin st.days
        <4>1. st.daily < KeepDaily
          BY <3>1, <3>3, <1>1, RoomForAPoint DEF PruneSound
        <4>2. Taken(st, a)
          BY <4>1, <3>3 DEF Taken, TakenDaily, KeepDay
        <4> QED BY <4>2, <3>1, <1>2 DEF HasKept
      <3> QED BY <3>2, <3>3
    <2> QED BY <2>1, <2>2
  <1> QED BY <1>6, <1>7, <1>8, <1>9 DEF PruneSound, new

(* More archives on disk, or fewer that are not to be kept: still sound. *)
LEMMA SoundWithOthers ==
    ASSUME NEW st, NEW own, NEW arch, NEW arch2, PruneSound(st, own, arch), st.left \cup st.keep \subseteq arch2
    PROVE  PruneSound(st, own, arch2)
  BY DEF PruneSound, PruneListed

LEMMA BackupArchiveMoves ==
    ASSUME BackupInv,
           \/ \E d \in 0 .. MaxDay : OperatorCopy(d)
           \/ TarBegin \/ TarEnd \/ \E a \in barch : PruneRm(a)
    PROVE  BackupInv'
  <1>0. /\ bday \in Nat /\ bdirs \subseteq BTenants /\ barch \subseteq Archives /\ bscript \in Scripts
        /\ bprune \in Prunings
    BY DEF BackupInv, BackupTypeOK
  <1>1. ASSUME NEW d \in 0 .. MaxDay, OperatorCopy(d)
        PROVE  BackupInv'
    <2>1. PICK a \in barch : barch' = barch \cup {[a EXCEPT !.day = d, !.n = MaxArchive + 1]}
      BY <1>1 DEF OperatorCopy
    <2>2. d \in Nat /\ MaxArchive + 1 \in Nat
      BY BackupsAssumption
    <2>3. [a EXCEPT !.day = d, !.n = MaxArchive + 1] \in Archives
      BY <1>0, <2>2 DEF Archives
    <2>4. barch' \subseteq Archives /\ barch \subseteq barch'
      BY <2>1, <2>3, <1>0
    <2>5. bday' = bday /\ bdirs' = bdirs /\ bscript' = bscript /\ bprune' = bprune
      BY <1>1 DEF OperatorCopy
    <2>6. HasOwn(bscript.out, barch) => HasOwn(bscript.out, barch')
      BY <2>4 DEF HasOwn
    <2>7. PruneSound(bprune, bscript.out[1], barch) => PruneSound(bprune, bscript.out[1], barch')
      BY <2>4, SoundWithOthers DEF PruneSound, PruneListed
    <2> QED BY <1>0, <2>4, <2>5, <2>6, <2>7 DEF BackupInv, BackupTypeOK
  <1>2. ASSUME TarBegin
        PROVE  BackupInv'
    <2> DEFINE own == [day |-> bscript.out[1], n |-> bscript.out[2], whole |-> FALSE, dbs |-> bscript.dbs]
    <2>1. own \in Archives /\ IsOwn(own, bscript.out)
      BY <1>0 DEF Archives, Scripts, IsOwn
    <2>2. barch' = barch \cup {own} /\ bday' = bday /\ bdirs' = bdirs /\ bprune' = bprune
          /\ bscript' = [bscript EXCEPT !.pc = "tar"]
      BY <1>2 DEF TarBegin
    <2>3. bscript' \in Scripts /\ bscript'.pc = "tar" /\ bscript'.out = bscript.out
      BY <1>0, <2>2 DEF Scripts
    <2> HIDE DEF own
    <2>4. HasOwn(bscript'.out, barch')
      BY <2>1, <2>2, <2>3 DEF HasOwn
    <2> QED BY <1>0, <2>1, <2>2, <2>3, <2>4 DEF BackupInv, BackupTypeOK
  <1>3. ASSUME TarEnd
        PROVE  BackupInv'
    <2>1. bday' = bday /\ bdirs' = bdirs /\ bprune' = bprune /\ bscript.pc = "tar"
          /\ bscript' = [bscript EXCEPT !.pc = "prune"]
          /\ barch' = {IF Mine(a) THEN [a EXCEPT !.whole = TRUE] ELSE a : a \in barch}
      BY <1>3 DEF TarEnd
    <2>2. bscript' \in Scripts /\ bscript'.pc = "prune" /\ bscript'.out = bscript.out
      BY <1>0, <2>1 DEF Scripts
    <2>3. \A a \in barch : LET b == IF Mine(a) THEN [a EXCEPT !.whole = TRUE] ELSE a
                           IN b \in Archives /\ b.day = a.day /\ b.n = a.n
      BY <1>0 DEF Archives
    <2>4. barch' \subseteq Archives
      BY <2>1, <2>3
    <2>5. HasOwn(bscript'.out, barch')
      <3>1. PICK a \in barch : IsOwn(a, bscript.out)
        BY <2>1 DEF BackupInv, HasOwn
      <3>2. PICK b : b = IF Mine(a) THEN [a EXCEPT !.whole = TRUE] ELSE a
        OBVIOUS
      <3>3. b \in barch' /\ b.day = a.day /\ b.n = a.n
        BY <2>1, <2>3, <3>2
      <3> QED BY <3>1, <3>3, <2>2 DEF HasOwn, IsOwn
    <2> QED BY <1>0, <2>1, <2>2, <2>4, <2>5 DEF BackupInv, BackupTypeOK
  <1>4. ASSUME NEW a \in barch, PruneRm(a)
        PROVE  BackupInv'
    <2>1. bday' = bday /\ bdirs' = bdirs /\ bprune' = bprune /\ bscript' = bscript /\ barch' = barch \ {a}
          /\ bscript.pc = "scan" /\ bprune.left = {} /\ a \notin bprune.keep
      BY <1>4 DEF PruneRm, First, Surplus
    <2>2. PruneSound(bprune, bscript.out[1], barch)
      BY <2>1 DEF BackupInv
    <2>3. PruneSound(bprune, bscript.out[1], barch')
      BY <2>1, <2>2, SoundWithOthers DEF PruneSound, PruneListed
    <2> QED BY <1>0, <2>1, <2>3 DEF BackupInv, BackupTypeOK
  <1> QED BY <1>1, <1>2, <1>3, <1>4

(* The highest of a day's ranks exists, as ranks are bounded. *)
LEMMA BoundedMax ==
    ASSUME NEW S \in SUBSET Nat, S # {}, NEW b \in Nat, \A x \in S : x <= b
    PROVE  Max(S) \in S
  <1> DEFINE co == {b - x : x \in S}
  <1>1. co \subseteq Nat /\ co # {}
    <2>1. \A x \in S : b - x \in Nat
      OBVIOUS
    <2>2. PICK x \in S : TRUE
      OBVIOUS
    <2>3. b - x \in co
      OBVIOUS
    <2> QED BY <2>1, <2>3
  <1>2. PICK m \in co : \A y \in co : ~(<<y, m>> \in OpToRel(<, Nat))
    BY <1>1, NatLessThanWellFounded, WFMin
  <1>3. PICK x \in S : m = b - x
    OBVIOUS
  <1>4. \A y \in S : x >= y
    <2> SUFFICES ASSUME NEW y \in S
                 PROVE  x >= y
      OBVIOUS
    <2>1. b - y \in co /\ b - y \in Nat /\ m \in Nat
      BY <1>1
    <2>2. ~(b - y < m)
      BY <1>2, <2>1 DEF OpToRel
    <2> QED BY <1>3, <2>1, <2>2
  <1> QED BY <1>4 DEF Max

LEMMA RankIsNatural ==
    ASSUME barch \subseteq Archives
    PROVE  NextRank \in Nat
  <1>1. CASE Ranks = {}
    BY <1>1 DEF NextRank
  <1>2. CASE Ranks # {}
    <2>1. Ranks \in SUBSET Nat /\ \A x \in Ranks : x <= MaxArchive
      BY DEF Ranks, Archives
    <2>2. Max(Ranks) \in Nat
      BY <1>2, <2>1, BoundedMax, BackupsAssumption
    <2> QED BY <1>2, <2>2 DEF NextRank
  <1> QED BY <1>1, <1>2

LEMMA BackupScriptMoves ==
    ASSUME BackupInv,
           \/ StageMeta \/ ListDirs \/ ScriptDies \/ PruneBegin \/ PruneEnd
           \/ \E a \in barch : PruneScan(a)
           \/ \E t \in BTenants : StageDb(t)
    PROVE  BackupInv'
  <1>0. /\ bday \in Nat /\ bdirs \subseteq BTenants /\ barch \subseteq Archives /\ bscript \in Scripts
        /\ bprune \in Prunings
    BY DEF BackupInv, BackupTypeOK
  <1>1. ASSUME StageMeta
        PROVE  BackupInv'
    <2>1. /\ bday' = bday /\ bdirs' = bdirs /\ bprune' = bprune /\ barch' = barch /\ NextRank <= MaxArchive
          /\ bscript' = [pc |-> "list", dbs |-> {}, todo |-> {}, out |-> <<bday, NextRank>>]
      BY <1>1 DEF StageMeta
    <2>2. NextRank \in Nat
      BY <1>0, RankIsNatural
    <2>3. bscript' \in Scripts /\ bscript'.pc = "list"
      BY <1>0, <2>1, <2>2 DEF Scripts
    <2> QED BY <1>0, <2>1, <2>3 DEF BackupInv, BackupTypeOK
  <1>2. ASSUME ListDirs
        PROVE  BackupInv'
    <2>1. /\ bday' = bday /\ bdirs' = bdirs /\ bprune' = bprune /\ barch' = barch
          /\ bscript' = [bscript EXCEPT !.pc = "dbs", !.todo = bdirs]
      BY <1>2 DEF ListDirs
    <2>3. bscript' \in Scripts /\ bscript'.pc = "dbs"
      BY <1>0, <2>1 DEF Scripts
    <2> QED BY <1>0, <2>1, <2>3 DEF BackupInv, BackupTypeOK
  <1>3. ASSUME NEW t \in BTenants, StageDb(t)
        PROVE  BackupInv'
    <2>1. /\ bday' = bday /\ bdirs' = bdirs /\ bprune' = bprune /\ barch' = barch /\ bscript.pc = "dbs"
          /\ bscript' = [bscript EXCEPT !.dbs = @ \cup ({t} \cap bdirs), !.todo = @ \ {t}]
      BY <1>3 DEF StageDb
    <2>2. bscript.dbs \cup ({t} \cap bdirs) \in SUBSET BTenants /\ bscript.todo \ {t} \in SUBSET BTenants
      BY <1>0 DEF Scripts
    <2>3. bscript' \in Scripts /\ bscript'.pc = "dbs"
      BY <1>0, <2>1, <2>2 DEF Scripts
    <2> QED BY <1>0, <2>1, <2>3 DEF BackupInv, BackupTypeOK
  <1>4. ASSUME ScriptDies \/ PruneEnd
        PROVE  BackupInv'
    <2>1. bday' = bday /\ bdirs' = bdirs /\ bprune' = NoPrune /\ barch' = barch /\ bscript' = Idle
      BY <1>4 DEF ScriptDies, PruneEnd
    <2>2. NoPrune \in Prunings /\ Idle \in Scripts /\ Idle.pc = "idle"
      BY DEF NoPrune, Idle, Prunings, Scripts
    <2> QED BY <1>0, <2>1, <2>2 DEF BackupInv, BackupTypeOK
  <1>5. ASSUME PruneBegin
        PROVE  BackupInv'
    <2> DEFINE own == bscript.out[1]
               mine == {a \in barch : Mine(a)}
               st == [all |-> barch, left |-> barch, keep |-> mine, days |-> {own}, weeks |-> {Week(own)},
                      daily |-> 1, weekly |-> 0, today |-> bday]
    <2>1. /\ bday' = bday /\ bdirs' = bdirs /\ barch' = barch /\ bscript.pc = "prune"
          /\ bscript' = [bscript EXCEPT !.pc = "scan"] /\ bprune' = st
      BY <1>5 DEF PruneBegin
    <2>2. bscript' \in Scripts /\ bscript'.pc = "scan" /\ bscript'.out = bscript.out /\ own \in Nat
      BY <1>0, <2>1 DEF Scripts
    <2>3. {own} \in SUBSET Nat /\ {Week(own)} \in SUBSET {Week(d) : d \in Nat} /\ mine \in SUBSET Archives
      BY <1>0, <2>2
    <2> HIDE DEF mine, own
    <2>4. st \in Prunings
      BY <1>0, <2>3 DEF Prunings
    <2>5. PruneListed(st, barch)
      BY DEF PruneListed, mine
    <2>6. PruneCounts(st)
      BY FS_Singleton DEF PruneCounts
    <2>7. HasKept(st, own)
      <3>1. PICK a \in barch : IsOwn(a, bscript.out)
        BY <2>1 DEF BackupInv, HasOwn
      <3>2. a \in mine
        BY <3>1 DEF mine, Mine, IsOwn
      <3>3. a.day = own
        BY <3>1 DEF IsOwn, own
      <3> QED BY <3>2, <3>3 DEF HasKept
    <2>8. PruneDays(st, own)
      BY <2>7 DEF PruneDays
    <2>9. PruneKept(st, own)
      BY DEF PruneKept
    <2>10. PruneSound(st, own, barch)
      BY <2>5, <2>6, <2>8, <2>9 DEF PruneSound
    <2> HIDE DEF st
    <2>11. PruneSound(bprune', bscript'.out[1], barch')
      BY <2>1, <2>2, <2>10 DEF own
    <2> QED BY <1>0, <2>1, <2>2, <2>4, <2>11 DEF BackupInv, BackupTypeOK
  <1>6. ASSUME NEW a \in barch, PruneScan(a)
        PROVE  BackupInv'
    <2>1. /\ bday' = bday /\ bdirs' = bdirs /\ barch' = barch /\ bscript' = bscript /\ bscript.pc = "scan"
          /\ First(a, bprune.left) /\ bprune' = Scanned(bprune, a)
      BY <1>6 DEF PruneScan, Scanned
    <2>2. a \in Archives /\ bscript.out[1] \in Nat
      BY <1>0 DEF Scripts
    <2>3. bprune' \in Prunings
      BY <1>0, <2>1, <2>2, ScanFields
    <2>4. PruneSound(bprune', bscript.out[1], barch)
      BY <1>0, <2>1, <2>2, ScanIsSound DEF BackupInv
    <2> QED BY <1>0, <2>1, <2>3, <2>4 DEF BackupInv, BackupTypeOK
  <1> QED BY <1>1, <1>2, <1>3, <1>4, <1>5, <1>6

LEMMA BackupStep ==
    ASSUME BackupInv, [BNext]_bvars
    PROVE  BackupInv'
  <1>1. CASE UNCHANGED bvars
    BY <1>1 DEF bvars, BackupInv, BackupTypeOK
  <1>2. ASSUME \/ \E d \in 0 .. MaxDay : d > 0 /\ ClockDay(d)
               \/ \E t \in BTenants : DirAppears(t)
        PROVE  BackupInv'
    <2>1. bday' \in Nat /\ bdirs' \subseteq BTenants /\ UNCHANGED <<barch, bscript, bprune>>
      BY <1>2, BackupsAssumption DEF ClockDay, DirAppears, BackupInv, BackupTypeOK
    <2> QED BY <2>1 DEF BackupInv, BackupTypeOK
  <1>3. ASSUME \/ ClockSecond
               \/ \E r \in BTasks : RestoreOpen(r) \/ RestoreCopy(r) \/ RestoreAck(r) \/ RestoreFail(r)
                                    \/ \E a \in barch, t \in BTenants : Restore(r, a, t)
        PROVE  BackupInv'
    <2>1. UNCHANGED <<bday, bdirs, barch, bscript, bprune>>
      BY <1>3 DEF ClockSecond, RestoreOpen, RestoreCopy, RestoreAck, RestoreFail, Restore
    <2> QED BY <2>1 DEF BackupInv, BackupTypeOK
  <1> QED BY <1>1, <1>2, <1>3, BackupArchiveMoves, BackupScriptMoves DEF BNext

LEMMA BackupInvGivesPoints == BackupInv => RecoveryPoints
  <1> SUFFICES ASSUME BackupInv, bscript.pc = "scan"
               PROVE  RecoveryPoints
    BY DEF RecoveryPoints
  <1> DEFINE own == bscript.out[1]
             past == {a \in bprune.all : a.day \in 1 .. bprune.today}
             days == {a.day : a \in past}
  <1>1. PruneSound(bprune, own, barch)
    BY DEF BackupInv
  <1>2. days = PastDays(bprune)
    BY DEF PastDays
  <1> SUFFICES ASSUME NEW d \in days, d = own \/ Cardinality({own} \cup {e \in days : e > d}) < KeepDaily
               PROVE  \/ \E a \in past : a.day = d /\ ~a.whole
                      \/ \E a \in barch : a.day = d /\ a.whole
    BY DEF RecoveryPoints
  <1>3. IsPoint(bprune, own, d)
    BY <1>2 DEF IsPoint, LaterDays
  <1>4. PICK a \in past : a.day = d
    OBVIOUS
  <1>5. PICK k \in bprune.all \cap barch : k.day = d
    <2>1. CASE a \in bprune.left
      BY <2>1, <1>1, <1>4 DEF PruneSound, PruneListed
    <2>2. CASE a \notin bprune.left
      <3>1. HasKept(bprune, d)
        BY <2>2, <1>1, <1>3, <1>4 DEF PruneSound, PruneKept
      <3> QED BY <3>1, <1>1 DEF HasKept, PruneSound, PruneListed
    <2> QED BY <2>1, <2>2
  <1>6. k \in past
    BY <1>4, <1>5
  <1> QED BY <1>5, <1>6

(* Pruning keeps the recovery points of the daily rule, for every set of   *)
(* archives, every clock and every bound, at each step of prune_backups:   *)
(* also when the script is cut short and when archives appear meanwhile.   *)
THEOREM PruningKeepsPoints == BSpec => []RecoveryPoints
  <1>1. BSpec => []BackupInv
    BY BackupInitHolds, BackupStep, PTL DEF BSpec
  <1> QED BY <1>1, BackupInvGivesPoints, PTL

----------------------------------------------------------------------------
(* Restores. *)

Restores == [pc : {"mkdir", "copy", "ack", "fail"}, a : Archives, t : BTenants, at : Nat \X Nat,
             dest : BTenants \X Nat \X Nat]
Second(q) == <<q.t, q.at[1], q.at[2]>>
Holds(trash, dir, a) == \E y \in trash : y.dir = dir /\ y.of = {a}

RestoreTypeOK ==
    /\ bday \in Nat /\ bsec \in Nat /\ barch \subseteq Archives /\ DOMAIN btask = BTasks
    /\ btask = [r \in BTasks |-> btask[r]]
    /\ \A r \in BTasks : btask[r] # NoRestore => btask[r] \in Restores
(* A request's directory is its tenant and its second, and is on record;   *)
(* two requests share one only when the record says so.                    *)
DestsNamed ==
    \A r \in BTasks : btask[r] # NoRestore =>
        btask[r].dest = Second(btask[r]) /\ btask[r].dest \in bonce
DestsApart ==
    \A r \in BTasks, s \in BTasks : btask[r] # NoRestore /\ btask[s] # NoRestore /\ r # s =>
        btask[r].dest # btask[s].dest \/ btask[r].dest \in btwice
CopiesThere ==
    \A r \in BTasks : btask[r] # NoRestore /\ btask[r].pc = "ack" =>
        btask[r].dest \in btwice \/ Holds(btrash, btask[r].dest, btask[r].a)
AcksSettled ==
    \A x \in brestored :
        /\ x.at = x.dest /\ x.dest \in bonce
        /\ \/ x.dest \in btwice
           \/ Holds(btrash, x.dest, x.a) /\ \A r \in BTasks : btask[r] # NoRestore => btask[r].dest # x.dest
RestoreInv == RestoreTypeOK /\ DestsNamed /\ DestsApart /\ CopiesThere /\ AcksSettled

LEMMA RestoreInitHolds ==
    ASSUME BInit
    PROVE  RestoreInv
  <1>1. bday = 1 /\ bsec = 0 /\ barch = {} /\ btask = [r \in BTasks |-> NoRestore] /\ brestored = {}
    BY DEF BInit
  <1>2. \A r \in BTasks : btask[r] = NoRestore
    BY <1>1
  <1> QED BY <1>1, <1>2 DEF RestoreInv, RestoreTypeOK, DestsNamed, DestsApart, CopiesThere, AcksSettled

LEMMA RestoreRequested ==
    ASSUME RestoreInv, NEW r \in BTasks, NEW a \in barch, NEW t \in BTenants, Restore(r, a, t)
    PROVE  RestoreInv'
  <1> DEFINE new == [pc |-> "mkdir", a |-> a, t |-> t, at |-> <<bday, bsec>>, dest |-> DestDir(t)]
  <1>0. /\ bday \in Nat /\ bsec \in Nat /\ barch \subseteq Archives
        /\ \A s \in BTasks : btask[s] # NoRestore => btask[s] \in Restores
    BY DEF RestoreInv, RestoreTypeOK
  <1>1. /\ btask[r] = NoRestore /\ btask' = [btask EXCEPT ![r] = new]
        /\ btwice' = btwice \cup ({<<t, bday, bsec>>} \cap bonce) /\ bonce' = bonce \cup {<<t, bday, bsec>>}
        /\ UNCHANGED <<bday, bsec, barch, btrash, brestored>>
    BY DEF Restore
  <1>2. /\ new \in Restores /\ new.dest = <<t, bday, bsec>> /\ new.pc = "mkdir"
        /\ new.dest = Second(new)
    BY <1>0 DEF Restores, DestDir, Second
  <1> HIDE DEF new
  <1>3. btask'[r] = new /\ \A s \in BTasks : s # r => btask'[s] = btask[s]
    BY <1>1 DEF RestoreInv, RestoreTypeOK
  <1>4. DOMAIN btask' = BTasks /\ btask' = [s \in BTasks |-> btask'[s]]
    BY <1>1 DEF RestoreInv, RestoreTypeOK
  <1>5. RestoreTypeOK'
    BY <1>0, <1>1, <1>2, <1>3, <1>4 DEF RestoreTypeOK
  <1>6. PICK k : k = <<t, bday, bsec>>
    OBVIOUS
  <1>7. new.dest = k /\ btwice' = btwice \cup ({k} \cap bonce) /\ bonce' = bonce \cup {k} /\ k = Second(new)
    BY <1>1, <1>2, <1>6
  <1>8. DestsNamed'
    <2> SUFFICES ASSUME NEW s \in BTasks, btask'[s] # NoRestore
                 PROVE  btask'[s].dest = Second(btask'[s]) /\ btask'[s].dest \in bonce'
      BY DEF DestsNamed, Second
    <2>1. CASE s = r
      BY <2>1, <1>3, <1>7
    <2>2. CASE s # r
      BY <2>2, <1>3, <1>7 DEF DestsNamed, RestoreInv
    <2> QED BY <2>1, <2>2
  <1>9. DestsApart'
    <2>1. \A s \in BTasks : s # r /\ btask[s] # NoRestore => btask[s].dest # k \/ k \in btwice'
      BY <1>7 DEF DestsNamed, RestoreInv
    <2>2. \A s \in BTasks : s # r /\ btask'[s] # NoRestore => btask'[s].dest # btask'[r].dest \/ k \in btwice'
      BY <2>1, <1>3, <1>7
    <2>3. \A s \in BTasks, u \in BTasks : s # r /\ u # r /\ s # u /\ btask'[s] # NoRestore /\ btask'[u] # NoRestore =>
              btask'[s].dest # btask'[u].dest \/ btask'[s].dest \in btwice'
      BY <1>3, <1>7 DEF DestsApart, RestoreInv
    <2> QED BY <2>2, <2>3, <1>3, <1>7 DEF DestsApart
  <1>10. CopiesThere'
    BY <1>1, <1>2, <1>3 DEF CopiesThere, RestoreInv, Holds
  <1>11. AcksSettled'
    BY <1>1, <1>2, <1>3 DEF AcksSettled, RestoreInv, Holds
  <1> QED BY <1>5, <1>8, <1>9, <1>10, <1>11 DEF RestoreInv

(* A request that goes on, and touches its own directory only. *)
Elsewhere(dir) == \A y : y.dir # dir => (y \in btrash <=> y \in btrash')
GoesOn(r, q) ==
    /\ btask' = [btask EXCEPT ![r] = q] /\ q \in Restores
    /\ q.dest = btask[r].dest /\ q.t = btask[r].t /\ q.at = btask[r].at
LEMMA RestoreGoesOn ==
    ASSUME RestoreInv, NEW r \in BTasks, btask[r] # NoRestore, NEW q, GoesOn(r, q),
           Elsewhere(btask[r].dest), q.pc = "ack" => Holds(btrash', q.dest, q.a),
           UNCHANGED <<bday, bsec, barch, brestored, bonce, btwice>>
    PROVE  RestoreInv'
  <1>1. btask'[r] = q /\ \A s \in BTasks : s # r => btask'[s] = btask[s]
    BY DEF RestoreInv, RestoreTypeOK, GoesOn
  <1>2. DOMAIN btask' = BTasks /\ btask' = [s \in BTasks |-> btask'[s]]
    BY DEF RestoreInv, RestoreTypeOK, GoesOn
  <1>3. q \in Restores /\ q.dest = btask[r].dest /\ q.t = btask[r].t /\ q.at = btask[r].at
    BY DEF GoesOn
  <1>4. \A dir, a : dir # btask[r].dest /\ Holds(btrash, dir, a) => Holds(btrash', dir, a)
    BY DEF Holds, Elsewhere
  <1>5. RestoreTypeOK'
    BY <1>1, <1>2, <1>3 DEF RestoreTypeOK, RestoreInv
  <1>6. DestsNamed'
    BY <1>1, <1>3 DEF DestsNamed, RestoreInv, Second
  <1>7. DestsApart'
    BY <1>1, <1>3 DEF DestsApart, RestoreInv
  <1>8. CopiesThere'
    <2> SUFFICES ASSUME NEW s \in BTasks, btask'[s] # NoRestore, btask'[s].pc = "ack",
                        btask'[s].dest \notin btwice
                 PROVE  Holds(btrash', btask'[s].dest, btask'[s].a)
      BY DEF CopiesThere
    <2>1. CASE s = r
      BY <2>1, <1>1
    <2>2. CASE s # r
      <3>1. btask'[s] = btask[s]
        BY <2>2, <1>1
      <3>2. Holds(btrash, btask[s].dest, btask[s].a)
        BY <3>1 DEF CopiesThere, RestoreInv
      <3>3. btask[s].dest # btask[r].dest
        BY <3>1, <2>2 DEF DestsApart, RestoreInv
      <3> QED BY <3>1, <3>2, <3>3, <1>4
    <2> QED BY <2>1, <2>2
  <1>9. AcksSettled'
    <2> SUFFICES ASSUME NEW x \in brestored
                 PROVE  /\ x.at = x.dest /\ x.dest \in bonce
                        /\ \/ x.dest \in btwice
                           \/ Holds(btrash', x.dest, x.a) /\ \A s \in BTasks : btask'[s] # NoRestore => btask'[s].dest # x.dest
      BY DEF AcksSettled, Holds
    <2>1. x.at = x.dest /\ x.dest \in bonce
      BY DEF AcksSettled, RestoreInv
    <2>2. CASE x.dest \notin btwice
      <3>1. Holds(btrash, x.dest, x.a) /\ \A s \in BTasks : btask[s] # NoRestore => btask[s].dest # x.dest
        BY <2>2 DEF AcksSettled, RestoreInv
      <3>2. \A s \in BTasks : btask'[s] # NoRestore => btask'[s].dest # x.dest
        BY <3>1, <1>1, <1>3
      <3> QED BY <3>1, <3>2, <2>1, <1>4
    <2> QED BY <2>1, <2>2
  <1> QED BY <1>5, <1>6, <1>7, <1>8, <1>9 DEF RestoreInv

LEMMA RestoreWorks ==
    ASSUME RestoreInv, NEW r \in BTasks, RestoreOpen(r) \/ RestoreCopy(r)
    PROVE  RestoreInv'
  <1> DEFINE dir == btask[r].dest
  <1>1. /\ btask[r] # NoRestore /\ btask[r] \in Restores /\ barch \subseteq Archives
        /\ btask = [s \in BTasks |-> btask[s]]
    BY DEF RestoreOpen, RestoreCopy, RestoreInv, RestoreTypeOK
  <1>2. UNCHANGED <<bday, bsec, barch, brestored, bonce, btwice>>
    BY DEF RestoreOpen, RestoreCopy
  <1>3. ASSUME RestoreOpen(r)
        PROVE  RestoreInv'
    <2> DEFINE found == {a \in barch : ByName(a, btask[r].a) = FALSE /\ ByName(btask[r].a, a) = FALSE}
    <2>1. PICK pc, a : /\ pc = (IF found = {} THEN "fail" ELSE "copy")
                       /\ a = (IF found = {} THEN btask[r].a ELSE CHOOSE x \in found : TRUE)
      OBVIOUS
    <2>2. pc \in {"fail", "copy"} /\ a \in Archives
      BY <1>1, <2>1 DEF Restores
    <2>3. PICK q : q = [btask[r] EXCEPT !.pc = pc, !.a = a]
      OBVIOUS
    <2>4. GoesOn(r, q) /\ q.pc # "ack"
      <3>1. btask' = [btask EXCEPT ![r].pc = pc, ![r].a = a]
        BY <1>3, <2>1 DEF RestoreOpen
      <3>2. btask' = [btask EXCEPT ![r] = q]
        BY <1>1, <2>3, <3>1
      <3>3. q \in Restores /\ q.dest = btask[r].dest /\ q.t = btask[r].t /\ q.at = btask[r].at /\ q.pc = pc
        BY <1>1, <2>2, <2>3 DEF Restores
      <3> QED BY <3>2, <3>3, <2>2 DEF GoesOn
    <2>5. Elsewhere(btask[r].dest)
      BY <1>3 DEF RestoreOpen, Elsewhere, Dest
    <2> QED BY <1>1, <1>2, <2>4, <2>5, RestoreGoesOn
  <1>4. ASSUME RestoreCopy(r)
        PROVE  RestoreInv'
    <2> DEFINE made == [dir |-> Dest(r), of |-> {btask[r].a}]
    <2>1. PICK wrote : /\ IF wrote /\ In(Dest(r)) # {}
                          THEN btrash' = (btrash \ In(Dest(r))) \cup {made}
                          ELSE UNCHANGED btrash
                       /\ btask' = [btask EXCEPT ![r].pc = IF wrote /\ btask[r].a.whole /\ In(Dest(r)) # {}
                                                           THEN "ack" ELSE "fail"]
      BY <1>4 DEF RestoreCopy
    <2>2. PICK pc : pc = IF wrote /\ btask[r].a.whole /\ In(Dest(r)) # {} THEN "ack" ELSE "fail"
      OBVIOUS
    <2>3. PICK q : q = [btask[r] EXCEPT !.pc = pc]
      OBVIOUS
    <2>4. /\ GoesOn(r, q) /\ q.pc = pc /\ q.a = btask[r].a /\ q.dest = Dest(r)
      <3>1. btask' = [btask EXCEPT ![r] = q]
        BY <1>1, <2>1, <2>2, <2>3
      <3>2. q \in Restores /\ q.dest = btask[r].dest /\ q.t = btask[r].t /\ q.at = btask[r].at /\ q.pc = pc
            /\ q.a = btask[r].a
        BY <1>1, <2>2, <2>3 DEF Restores
      <3> QED BY <3>1, <3>2 DEF GoesOn, Dest
    <2>5. made.dir = Dest(r) /\ made.of = {btask[r].a}
      OBVIOUS
    <2> HIDE DEF made
    <2>6. Elsewhere(btask[r].dest)
      BY <2>1, <2>5 DEF Elsewhere, Dest, In
    <2>7. q.pc = "ack" => Holds(btrash', q.dest, q.a)
      BY <2>1, <2>2, <2>4, <2>5 DEF Holds
    <2> QED BY <1>1, <1>2, <2>4, <2>6, <2>7, RestoreGoesOn
  <1> QED BY <1>3, <1>4

LEMMA RestoreEnds ==
    ASSUME RestoreInv, NEW r \in BTasks, RestoreAck(r) \/ RestoreFail(r)
    PROVE  RestoreInv'
  <1>1. /\ btask[r] # NoRestore /\ btask' = [btask EXCEPT ![r] = NoRestore]
        /\ UNCHANGED <<bday, bsec, barch, bonce, btwice>>
    BY DEF RestoreAck, RestoreFail
  <1>2. btask'[r] = NoRestore /\ \A s \in BTasks : s # r => btask'[s] = btask[s]
    BY <1>1 DEF RestoreInv, RestoreTypeOK
  <1>3. DOMAIN btask' = BTasks /\ btask' = [s \in BTasks |-> btask'[s]]
    BY <1>1 DEF RestoreInv, RestoreTypeOK
  <1>4. RestoreTypeOK' /\ DestsNamed' /\ DestsApart'
    <2>1. RestoreTypeOK'
      BY <1>1, <1>2, <1>3 DEF RestoreInv, RestoreTypeOK
    <2>2. DestsNamed'
      BY <1>1, <1>2 DEF RestoreInv, DestsNamed, Second
    <2>3. DestsApart'
      BY <1>1, <1>2 DEF RestoreInv, DestsApart
    <2> QED BY <2>1, <2>2, <2>3
  <1>5. ASSUME RestoreAck(r)
        PROVE  CopiesThere' /\ AcksSettled'
    <2>1. PICK x : x = [dest |-> btask[r].dest, at |-> Second(btask[r]), a |-> btask[r].a]
      OBVIOUS
    <2>2. btrash' = btrash /\ brestored' = brestored \cup {x} /\ btask[r].pc = "ack"
      BY <1>5, <2>1 DEF RestoreAck, Second
    <2>3. x.dest = btask[r].dest /\ x.at = x.dest /\ x.a = btask[r].a /\ x.dest \in bonce
      BY <2>1, <1>1 DEF RestoreInv, DestsNamed
    <2>4. CopiesThere'
      BY <1>1, <1>2, <2>2 DEF RestoreInv, CopiesThere
    <2>5. x.dest \in btwice \/ (Holds(btrash, x.dest, x.a) /\ \A s \in BTasks : btask'[s] # NoRestore => btask'[s].dest # x.dest)
      BY <1>1, <1>2, <2>2, <2>3 DEF RestoreInv, CopiesThere, DestsApart
    <2>6. AcksSettled'
      <3> SUFFICES ASSUME NEW z \in brestored'
                   PROVE  /\ z.at = z.dest /\ z.dest \in bonce
                          /\ \/ z.dest \in btwice
                             \/ Holds(btrash, z.dest, z.a) /\ \A s \in BTasks : btask'[s] # NoRestore => btask'[s].dest # z.dest
        BY <1>1, <2>2 DEF AcksSettled
      <3>1. CASE z = x
        BY <3>1, <2>3, <2>5
      <3>2. CASE z # x
        BY <3>2, <2>2, <1>2 DEF AcksSettled, RestoreInv
      <3> QED BY <3>1, <3>2
    <2> QED BY <2>4, <2>6
  <1>6. ASSUME RestoreFail(r)
        PROVE  CopiesThere' /\ AcksSettled'
    <2>1. btrash' = btrash \ In(btask[r].dest) /\ brestored' = brestored
      BY <1>6 DEF RestoreFail, Dest
    <2>2. \A dir, a : dir # btask[r].dest /\ Holds(btrash, dir, a) => Holds(btrash', dir, a)
      BY <2>1 DEF Holds, In
    <2>3. CopiesThere'
      <3> SUFFICES ASSUME NEW s \in BTasks, btask'[s] # NoRestore, btask'[s].pc = "ack",
                          btask'[s].dest \notin btwice
                   PROVE  Holds(btrash', btask'[s].dest, btask'[s].a)
        BY <1>1 DEF CopiesThere
      <3>1. s # r /\ btask'[s] = btask[s]
        BY <1>2
      <3>2. Holds(btrash, btask[s].dest, btask[s].a)
        BY <3>1 DEF CopiesThere, RestoreInv
      <3>3. btask[s].dest # btask[r].dest
        BY <3>1, <1>1 DEF DestsApart, RestoreInv
      <3> QED BY <3>1, <3>2, <3>3, <2>2
    <2>4. AcksSettled'
      <3> SUFFICES ASSUME NEW z \in brestored
                   PROVE  /\ z.at = z.dest /\ z.dest \in bonce
                          /\ \/ z.dest \in btwice
                             \/ Holds(btrash', z.dest, z.a) /\ \A s \in BTasks : btask'[s] # NoRestore => btask'[s].dest # z.dest
        BY <1>1, <2>1 DEF AcksSettled
      <3>1. z.at = z.dest /\ z.dest \in bonce
        BY DEF AcksSettled, RestoreInv
      <3>2. CASE z.dest \notin btwice
        <4>1. Holds(btrash, z.dest, z.a) /\ \A s \in BTasks : btask[s] # NoRestore => btask[s].dest # z.dest
          BY <3>2 DEF AcksSettled, RestoreInv
        <4>2. Holds(btrash', z.dest, z.a)
          BY <4>1, <1>1, <2>2
        <4> QED BY <4>1, <4>2, <3>1, <1>2
      <3> QED BY <3>1, <3>2
    <2> QED BY <2>3, <2>4
  <1> QED BY <1>4, <1>5, <1>6 DEF RestoreInv

LEMMA RestoreStep ==
    ASSUME BackupInv', RestoreInv, [BNext]_bvars
    PROVE  RestoreInv'
  <1>1. ASSUME UNCHANGED <<btrash, btask, brestored, bonce, btwice>>, bday' \in Nat, bsec' \in Nat
        PROVE  RestoreInv'
    <2>1. barch' \subseteq Archives
      BY DEF BackupInv, BackupTypeOK
    <2>2. RestoreTypeOK'
      BY <1>1, <2>1 DEF RestoreInv, RestoreTypeOK
    <2> QED BY <1>1, <2>2 DEF RestoreInv, DestsNamed, DestsApart, CopiesThere, AcksSettled, Second, Holds
  <1>2. bday \in Nat /\ bsec \in Nat
    BY DEF RestoreInv, RestoreTypeOK
  <1>3. CASE UNCHANGED bvars
    BY <1>1, <1>2, <1>3 DEF bvars
  <1>4. CASE \E d \in 0 .. MaxDay : OperatorCopy(d) \/ (d > 0 /\ ClockDay(d))
    <2>1. UNCHANGED <<btrash, btask, brestored, bonce, btwice>>
      BY <1>4 DEF OperatorCopy, ClockDay
    <2>2. ASSUME NEW d \in 0 .. MaxDay, OperatorCopy(d) \/ ClockDay(d)
          PROVE  bday' \in Nat /\ bsec' \in Nat
      <3>1. d \in Nat
        BY BackupsAssumption
      <3>2. CASE OperatorCopy(d)
        BY <1>2, <3>2 DEF OperatorCopy
      <3>3. CASE ClockDay(d)
        BY <3>1, <3>3 DEF ClockDay
      <3> QED BY <2>2, <3>2, <3>3
    <2> QED BY <1>1, <1>4, <2>1, <2>2
  <1>5. CASE ClockSecond \/ StageMeta \/ ListDirs \/ TarBegin \/ TarEnd \/ ScriptDies \/ PruneBegin \/ PruneEnd
    BY <1>1, <1>2, <1>5 DEF ClockSecond, StageMeta, ListDirs, TarBegin, TarEnd, ScriptDies, PruneBegin, PruneEnd
  <1>6. CASE \/ \E a \in barch : PruneScan(a) \/ PruneRm(a)
             \/ \E t \in BTenants : DirAppears(t) \/ StageDb(t)
    BY <1>1, <1>2, <1>6 DEF PruneScan, PruneRm, DirAppears, StageDb
  <1>7. CASE \E r \in BTasks : RestoreOpen(r) \/ RestoreCopy(r) \/ RestoreAck(r) \/ RestoreFail(r)
                               \/ \E a \in barch, t \in BTenants : Restore(r, a, t)
    BY <1>7, RestoreRequested, RestoreWorks, RestoreEnds
  <1> QED BY <1>3, <1>4, <1>5, <1>6, <1>7 DEF BNext

(* What restore_tenant acknowledged is under _trash, copied from the       *)
(* archive it was asked of, whatever requests, prunings and clocks do,     *)
(* except where two restores of one tenant fell into one second.           *)
THEOREM RestoresAreKept == BSpec => []RestoredKept
  <1>1. RestoreInv => RestoredKept
    BY DEF RestoreInv, AcksSettled, RestoredKept, Holds
  <1>2. BInit => BackupInv /\ RestoreInv
    BY BackupInitHolds, RestoreInitHolds
  <1>3. BackupInv /\ RestoreInv /\ [BNext]_bvars => (BackupInv /\ RestoreInv)'
    BY BackupStep, RestoreStep
  <1> QED BY <1>1, <1>2, <1>3, PTL DEF BSpec

-----------------------------------------------------------------------------
(* Induction over the naturals, by sets.                                   *)

\* A set of naturals that holds 0 and every successor is all of them.
LEMMA AllNaturals ==
    ASSUME NEW X, 0 \in X, \A i \in Nat : i \in X => i + 1 \in X
    PROVE  \A i \in Nat : i \in X
  <1> DEFINE Y == Nat \ X
  <1> SUFFICES ASSUME Y # {} PROVE FALSE
    OBVIOUS
  <1>1. PICK m \in Y : \A y \in Y : ~(y < m)
    <2>1. IsWellFoundedOn(OpToRel(<, Nat), Nat)
      BY NatLessThanWellFounded
    <2>2. \E m \in Y : \A y \in Y : ~(<<y, m>> \in OpToRel(<, Nat))
      BY <2>1, WFMin
    <2> QED BY <2>2 DEF OpToRel
  <1>2. m # 0 /\ m - 1 \in Nat /\ m - 1 < m
    OBVIOUS
  <1>3. m - 1 \in X
    BY <1>1, <1>2
  <1> QED BY <1>2, <1>3

\* Levels satisfies its equations.
LevelsOf(ast, at) ==
    at = [d \in 0 .. MaxFilterDepth |-> IF d = 0 THEN {ast} ELSE UNION {Kids(n) : n \in at[d - 1]}]

\* Levels satisfies its equation: the recursive function exists.
LEMMA LevelsExists ==
    ASSUME NEW ast
    PROVE  LevelsOf(ast, Levels(ast))
  <1> DEFINE Sol(j, g) == \A d \in 0 .. j : g[d] = IF d = 0 THEN {ast} ELSE UNION {Kids(n) : n \in g[d - 1]}
             X == {j \in Nat : \E g : Sol(j, g)}
  <1>1. 0 \in X
    <2> DEFINE g == [d \in 0 .. 0 |-> {ast}]
    <2>1. Sol(0, g)
      OBVIOUS
    <2> QED BY <2>1
  <1>2. ASSUME NEW j \in Nat, j \in X PROVE j + 1 \in X
    <2>1. PICK g : Sol(j, g)
      BY <1>2
    <2> DEFINE h == [d \in 0 .. (j + 1) |-> IF d = j + 1 THEN UNION {Kids(n) : n \in g[j]} ELSE g[d]]
    <2>2. ASSUME NEW d \in 0 .. (j + 1) PROVE h[d] = IF d = 0 THEN {ast} ELSE UNION {Kids(n) : n \in h[d - 1]}
      <3>1. CASE d = j + 1
        <4>1. h[d - 1] = g[j] /\ h[d] = UNION {Kids(n) : n \in g[j]}
          BY <3>1
        <4> QED BY <3>1, <4>1
      <3>2. CASE d # j + 1 /\ d # 0
        <4>1. h[d - 1] = g[d - 1] /\ h[d] = g[d] /\ d \in 0 .. j
          BY <3>2
        <4> QED BY <2>1, <3>2, <4>1
      <3>3. CASE d = 0
        <4>1. h[d] = g[d] /\ d \in 0 .. j
          BY <3>3
        <4> QED BY <2>1, <3>3, <4>1
      <3> QED BY <3>1, <3>2, <3>3
    <2>3. Sol(j + 1, h)
      BY <2>2
    <2> HIDE DEF Sol
    <2> QED BY <2>3
  <1>3. MaxFilterDepth \in Nat
    BY DepthAssumption
  <1>4. MaxFilterDepth \in X
    <2> HIDE DEF X
    <2> QED BY <1>1, <1>2, <1>3, AllNaturals
  <1>5. PICK g : Sol(MaxFilterDepth, g)
    BY <1>4
  <1> DEFINE at == [d \in 0 .. MaxFilterDepth |-> g[d]]
  <1>6. ASSUME NEW d \in 0 .. MaxFilterDepth
        PROVE  at[d] = IF d = 0 THEN {ast} ELSE UNION {Kids(n) : n \in at[d - 1]}
    <2>1. d # 0 => at[d - 1] = g[d - 1]
      BY <1>3
    <2> QED BY <1>5, <2>1
  <1>7. LevelsOf(ast, at)
    BY <1>6 DEF LevelsOf
  <1> QED BY <1>7 DEF Levels, LevelsOf

-----------------------------------------------------------------------------
(* The values of eval_policy satisfy their equations.                      *)

EvalBase(ast) == [n \in Levels(ast)[MaxFilterDepth] |-> F]
EvalLevel(ast, row, ctx, d, below) == [n \in Levels(ast)[d] |-> EvalNode(n, row, ctx, {below[k] : k \in Kids(n)})]
EvalOf(ast, row, ctx, value) ==
    value = [d \in 0 .. MaxFilterDepth |->
                IF d = MaxFilterDepth THEN EvalBase(ast) ELSE EvalLevel(ast, row, ctx, d, value[d + 1])]
EvalValue(ast, row, ctx) == CHOOSE value : EvalOf(ast, row, ctx, value)

\* What eval_node gives the nodes of a clause, level by level, exists.
LEMMA EvalExists ==
    ASSUME NEW ast, NEW row, NEW ctx
    PROVE  EvalOf(ast, row, ctx, EvalValue(ast, row, ctx))
  <1> DEFINE Q(g, d) == g[d] = IF d = MaxFilterDepth THEN EvalBase(ast) ELSE EvalLevel(ast, row, ctx, d, g[d + 1])
             Sol(j, g) == \A d \in 0 .. MaxFilterDepth : d + j >= MaxFilterDepth => Q(g, d)
             X == {j \in Nat : \E g : Sol(j, g)}
  <1>0. MaxFilterDepth \in Nat
    BY DepthAssumption
  <1>1. 0 \in X
    <2> DEFINE g == [d \in 0 .. MaxFilterDepth |-> EvalBase(ast)]
    <2>1. Sol(0, g)
      BY <1>0
    <2> QED BY <2>1
  <1>2. ASSUME NEW j \in Nat, j \in X PROVE j + 1 \in X
    <2>1. PICK g : Sol(j, g)
      BY <1>2
    <2> DEFINE h == [d \in 0 .. MaxFilterDepth |->
                        IF d + j >= MaxFilterDepth THEN g[d] ELSE EvalLevel(ast, row, ctx, d, g[d + 1])]
    <2>2. ASSUME NEW d \in 0 .. MaxFilterDepth, d + j + 1 >= MaxFilterDepth PROVE Q(h, d)
      <3>1. CASE d = MaxFilterDepth
        <4>1. h[d] = g[d] /\ Q(g, d)
          BY <1>0, <2>1, <3>1
        <4> QED BY <3>1, <4>1
      <3>2. CASE d # MaxFilterDepth /\ d + j >= MaxFilterDepth
        <4>1. h[d] = g[d] /\ h[d + 1] = g[d + 1] /\ Q(g, d)
          BY <1>0, <2>1, <3>2
        <4> QED BY <3>2, <4>1
      <3>3. CASE d + j < MaxFilterDepth
        <4>1. h[d + 1] = g[d + 1] /\ d # MaxFilterDepth
          BY <1>0, <2>2, <3>3
        <4>2. h[d] = EvalLevel(ast, row, ctx, d, g[d + 1])
          BY <1>0, <3>3
        <4> QED BY <4>1, <4>2
      <3> QED BY <1>0, <3>1, <3>2, <3>3
    <2>3. Sol(j + 1, h)
      <3> HIDE DEF Q, h
      <3> QED BY <2>2
    <2> HIDE DEF Sol
    <2> QED BY <2>3
  <1>4. MaxFilterDepth \in X
    <2> HIDE DEF X
    <2> QED BY <1>0, <1>1, <1>2, AllNaturals
  <1>5. PICK g : Sol(MaxFilterDepth, g)
    BY <1>4
  <1> DEFINE f == [d \in 0 .. MaxFilterDepth |-> g[d]]
  <1>6. ASSUME NEW d \in 0 .. MaxFilterDepth PROVE Q(f, d)
    <2>1. f[d] = g[d] /\ (d # MaxFilterDepth => f[d + 1] = g[d + 1]) /\ Q(g, d)
      BY <1>0, <1>5
    <2> QED BY <2>1
  <1>7. EvalOf(ast, row, ctx, f)
    BY <1>6 DEF EvalOf
  <1> QED BY <1>7 DEF EvalValue

-----------------------------------------------------------------------------
(* So do the values of the compiled clause.                                 *)

SqlBase(ast) == [n \in Levels(ast)[MaxFilterDepth] |-> F]
SqlLevel(ast, row, ctx, d, below) == [n \in Levels(ast)[d] |-> SqlNode(n, row, ctx, {below[k] : k \in Kids(n)})]
SqlOf(ast, row, ctx, value) ==
    value = [d \in 0 .. MaxFilterDepth |->
                IF d = MaxFilterDepth THEN SqlBase(ast) ELSE SqlLevel(ast, row, ctx, d, value[d + 1])]
SqlValue(ast, row, ctx) == CHOOSE value : SqlOf(ast, row, ctx, value)

\* So does what SQLite makes of them.
LEMMA SqlExists ==
    ASSUME NEW ast, NEW row, NEW ctx
    PROVE  SqlOf(ast, row, ctx, SqlValue(ast, row, ctx))
  <1> DEFINE Q(g, d) == g[d] = IF d = MaxFilterDepth THEN SqlBase(ast) ELSE SqlLevel(ast, row, ctx, d, g[d + 1])
             Sol(j, g) == \A d \in 0 .. MaxFilterDepth : d + j >= MaxFilterDepth => Q(g, d)
             X == {j \in Nat : \E g : Sol(j, g)}
  <1>0. MaxFilterDepth \in Nat
    BY DepthAssumption
  <1>1. 0 \in X
    <2> DEFINE g == [d \in 0 .. MaxFilterDepth |-> SqlBase(ast)]
    <2>1. Sol(0, g)
      BY <1>0
    <2> QED BY <2>1
  <1>2. ASSUME NEW j \in Nat, j \in X PROVE j + 1 \in X
    <2>1. PICK g : Sol(j, g)
      BY <1>2
    <2> DEFINE h == [d \in 0 .. MaxFilterDepth |->
                        IF d + j >= MaxFilterDepth THEN g[d] ELSE SqlLevel(ast, row, ctx, d, g[d + 1])]
    <2>2. ASSUME NEW d \in 0 .. MaxFilterDepth, d + j + 1 >= MaxFilterDepth PROVE Q(h, d)
      <3>1. CASE d = MaxFilterDepth
        <4>1. h[d] = g[d] /\ Q(g, d)
          BY <1>0, <2>1, <3>1
        <4> QED BY <3>1, <4>1
      <3>2. CASE d # MaxFilterDepth /\ d + j >= MaxFilterDepth
        <4>1. h[d] = g[d] /\ h[d + 1] = g[d + 1] /\ Q(g, d)
          BY <1>0, <2>1, <3>2
        <4> QED BY <3>2, <4>1
      <3>3. CASE d + j < MaxFilterDepth
        <4>1. h[d + 1] = g[d + 1] /\ d # MaxFilterDepth
          BY <1>0, <2>2, <3>3
        <4>2. h[d] = SqlLevel(ast, row, ctx, d, g[d + 1])
          BY <1>0, <3>3
        <4> QED BY <4>1, <4>2
      <3> QED BY <1>0, <3>1, <3>2, <3>3
    <2>3. Sol(j + 1, h)
      <3> HIDE DEF Q, h
      <3> QED BY <2>2
    <2> HIDE DEF Sol
    <2> QED BY <2>3
  <1>4. MaxFilterDepth \in X
    <2> HIDE DEF X
    <2> QED BY <1>0, <1>1, <1>2, AllNaturals
  <1>5. PICK g : Sol(MaxFilterDepth, g)
    BY <1>4
  <1> DEFINE f == [d \in 0 .. MaxFilterDepth |-> g[d]]
  <1>6. ASSUME NEW d \in 0 .. MaxFilterDepth PROVE Q(f, d)
    <2>1. f[d] = g[d] /\ (d # MaxFilterDepth => f[d + 1] = g[d + 1]) /\ Q(g, d)
      BY <1>0, <1>5
    <2> QED BY <2>1
  <1>7. SqlOf(ast, row, ctx, f)
    BY <1>6 DEF SqlOf
  <1> QED BY <1>7 DEF SqlValue

-----------------------------------------------------------------------------
(* So does what substitute makes of the nodes of a template.                *)

BecameBase(ast) == [n \in Levels(ast)[MaxFilterDepth] |-> n]
BecameLevel(ast, args, auth, d, below) == [n \in Levels(ast)[d] |-> SubstituteNode(n, args, auth, below)]
BecameOf(ast, args, auth, value) ==
    value = [d \in 0 .. MaxFilterDepth |->
                IF d = MaxFilterDepth THEN BecameBase(ast) ELSE BecameLevel(ast, args, auth, d, value[d + 1])]
BecameValue(ast, args, auth) == CHOOSE value : BecameOf(ast, args, auth, value)

\* So does what substitute makes of them.
LEMMA BecameExists ==
    ASSUME NEW ast, NEW args, NEW auth
    PROVE  BecameOf(ast, args, auth, BecameValue(ast, args, auth))
  <1> DEFINE Q(g, d) == g[d] = IF d = MaxFilterDepth THEN BecameBase(ast) ELSE BecameLevel(ast, args, auth, d, g[d + 1])
             Sol(j, g) == \A d \in 0 .. MaxFilterDepth : d + j >= MaxFilterDepth => Q(g, d)
             X == {j \in Nat : \E g : Sol(j, g)}
  <1>0. MaxFilterDepth \in Nat
    BY DepthAssumption
  <1>1. 0 \in X
    <2> DEFINE g == [d \in 0 .. MaxFilterDepth |-> BecameBase(ast)]
    <2>1. Sol(0, g)
      BY <1>0
    <2> QED BY <2>1
  <1>2. ASSUME NEW j \in Nat, j \in X PROVE j + 1 \in X
    <2>1. PICK g : Sol(j, g)
      BY <1>2
    <2> DEFINE h == [d \in 0 .. MaxFilterDepth |->
                        IF d + j >= MaxFilterDepth THEN g[d] ELSE BecameLevel(ast, args, auth, d, g[d + 1])]
    <2>2. ASSUME NEW d \in 0 .. MaxFilterDepth, d + j + 1 >= MaxFilterDepth PROVE Q(h, d)
      <3>1. CASE d = MaxFilterDepth
        <4>1. h[d] = g[d] /\ Q(g, d)
          BY <1>0, <2>1, <3>1
        <4> QED BY <3>1, <4>1
      <3>2. CASE d # MaxFilterDepth /\ d + j >= MaxFilterDepth
        <4>1. h[d] = g[d] /\ h[d + 1] = g[d + 1] /\ Q(g, d)
          BY <1>0, <2>1, <3>2
        <4> QED BY <3>2, <4>1
      <3>3. CASE d + j < MaxFilterDepth
        <4>1. h[d + 1] = g[d + 1] /\ d # MaxFilterDepth
          BY <1>0, <2>2, <3>3
        <4>2. h[d] = BecameLevel(ast, args, auth, d, g[d + 1])
          BY <1>0, <3>3
        <4> QED BY <4>1, <4>2
      <3> QED BY <1>0, <3>1, <3>2, <3>3
    <2>3. Sol(j + 1, h)
      <3> HIDE DEF Q, h
      <3> QED BY <2>2
    <2> HIDE DEF Sol
    <2> QED BY <2>3
  <1>4. MaxFilterDepth \in X
    <2> HIDE DEF X
    <2> QED BY <1>0, <1>1, <1>2, AllNaturals
  <1>5. PICK g : Sol(MaxFilterDepth, g)
    BY <1>4
  <1> DEFINE f == [d \in 0 .. MaxFilterDepth |-> g[d]]
  <1>6. ASSUME NEW d \in 0 .. MaxFilterDepth PROVE Q(f, d)
    <2>1. f[d] = g[d] /\ (d # MaxFilterDepth => f[d + 1] = g[d + 1]) /\ Q(g, d)
      BY <1>0, <1>5
    <2> QED BY <2>1
  <1>7. BecameOf(ast, args, auth, f)
    BY <1>6 DEF BecameOf
  <1> QED BY <1>7 DEF BecameValue

\* eval_policy is the value of the root.
LEMMA EvalPolicyValue ==
    ASSUME NEW ast, NEW row, NEW ctx
    PROVE  EvalPolicy(ast, row, ctx) <=> EvalValue(ast, row, ctx)[0][ast] = T
  BY DEF EvalPolicy, EvalValue, EvalOf, EvalBase, EvalLevel

\* The compiled clause is the value of the root.
LEMMA SqlPolicyValue ==
    ASSUME NEW ast, NEW row, NEW ctx
    PROVE  SqlPolicy(ast, row, ctx) = SqlValue(ast, row, ctx)[0][ast]
  BY DEF SqlPolicy, SqlValue, SqlOf, SqlBase, SqlLevel

-----------------------------------------------------------------------------
(* Levels and values, equation by equation.                                *)

\* The levels of a clause, equation by equation.
LEMMA LevelFacts ==
    ASSUME NEW ast
    PROVE  /\ Levels(ast)[0] = {ast}
           /\ \A d \in 1 .. MaxFilterDepth : Levels(ast)[d] = UNION {Kids(n) : n \in Levels(ast)[d - 1]}
           /\ \A d \in 0 .. MaxFilterDepth : Levels(ast)[d] \subseteq Nodes(ast)
  <1>0. MaxFilterDepth \in Nat
    BY DepthAssumption
  <1> DEFINE at == Levels(ast)
  <1>1. at = [d \in 0 .. MaxFilterDepth |-> IF d = 0 THEN {ast} ELSE UNION {Kids(n) : n \in at[d - 1]}]
    BY LevelsExists DEF LevelsOf
  <1>2. \A d \in 0 .. MaxFilterDepth : at[d] \subseteq Nodes(ast)
    BY DEF Nodes
  <1> HIDE DEF at
  <1>3. at[0] = {ast}
    BY <1>0, <1>1
  <1>4. \A d \in 1 .. MaxFilterDepth : at[d] = UNION {Kids(n) : n \in at[d - 1]}
    BY <1>0, <1>1
  <1> QED BY <1>2, <1>3, <1>4 DEF at

\* A node's children lie one level below it.
LEMMA KidBelow ==
    ASSUME NEW ast, NEW d \in 0 .. MaxFilterDepth, d # MaxFilterDepth, NEW n \in Levels(ast)[d], NEW k \in Kids(n)
    PROVE  d + 1 \in 0 .. MaxFilterDepth /\ k \in Levels(ast)[d + 1]
  <1>1. d + 1 \in 1 .. MaxFilterDepth /\ (d + 1) - 1 = d
    BY DepthAssumption
  <1>2. Levels(ast)[d + 1] = UNION {Kids(m) : m \in Levels(ast)[d]}
    BY <1>1, LevelFacts
  <1> QED BY <1>1, <1>2

\* At the last depth eval_policy answers False.
LEMMA EvalCut ==
    ASSUME NEW ast, NEW row, NEW ctx, NEW n \in Levels(ast)[MaxFilterDepth]
    PROVE  EvalValue(ast, row, ctx)[MaxFilterDepth][n] = F
  <1> DEFINE v == EvalValue(ast, row, ctx)
  <1>0. EvalOf(ast, row, ctx, v)
    BY EvalExists
  <1> HIDE DEF v
  <1>1. v[MaxFilterDepth] = EvalBase(ast)
    BY <1>0, DepthAssumption DEF EvalOf
  <1>2. v[MaxFilterDepth][n] = F
    BY <1>1 DEF EvalBase
  <1> QED BY <1>2 DEF v

\* Above it, a node's value comes from its children's.
LEMMA EvalStep ==
    ASSUME NEW ast, NEW row, NEW ctx, NEW d \in 0 .. MaxFilterDepth, d # MaxFilterDepth, NEW n \in Levels(ast)[d]
    PROVE  EvalValue(ast, row, ctx)[d][n] = EvalNode(n, row, ctx, {EvalValue(ast, row, ctx)[d + 1][k] : k \in Kids(n)})
  <1> DEFINE v == EvalValue(ast, row, ctx)
  <1>0. EvalOf(ast, row, ctx, v)
    BY EvalExists
  <1> HIDE DEF v
  <1>1. v[d] = EvalLevel(ast, row, ctx, d, v[d + 1])
    BY <1>0 DEF EvalOf
  <1>2. v[d][n] = EvalNode(n, row, ctx, {v[d + 1][k] : k \in Kids(n)})
    BY <1>1 DEF EvalLevel
  <1> QED BY <1>2 DEF v

\* Nothing is compiled at the last depth.
LEMMA SqlCut ==
    ASSUME NEW ast, NEW row, NEW ctx, NEW n \in Levels(ast)[MaxFilterDepth]
    PROVE  SqlValue(ast, row, ctx)[MaxFilterDepth][n] = F
  <1> DEFINE v == SqlValue(ast, row, ctx)
  <1>0. SqlOf(ast, row, ctx, v)
    BY SqlExists
  <1> HIDE DEF v
  <1>1. v[MaxFilterDepth] = SqlBase(ast)
    BY <1>0, DepthAssumption DEF SqlOf
  <1>2. v[MaxFilterDepth][n] = F
    BY <1>1 DEF SqlBase
  <1> QED BY <1>2 DEF v

\* Above it, SQLite combines the children's values.
LEMMA SqlStep ==
    ASSUME NEW ast, NEW row, NEW ctx, NEW d \in 0 .. MaxFilterDepth, d # MaxFilterDepth, NEW n \in Levels(ast)[d]
    PROVE  SqlValue(ast, row, ctx)[d][n] = SqlNode(n, row, ctx, {SqlValue(ast, row, ctx)[d + 1][k] : k \in Kids(n)})
  <1> DEFINE v == SqlValue(ast, row, ctx)
  <1>0. SqlOf(ast, row, ctx, v)
    BY SqlExists
  <1> HIDE DEF v
  <1>1. v[d] = SqlLevel(ast, row, ctx, d, v[d + 1])
    BY <1>0 DEF SqlOf
  <1>2. v[d][n] = SqlNode(n, row, ctx, {v[d + 1][k] : k \in Kids(n)})
    BY <1>1 DEF SqlLevel
  <1> QED BY <1>2 DEF v

\* At the last depth substitute changes nothing.
LEMMA BecameCut ==
    ASSUME NEW ast, NEW args, NEW auth, NEW n \in Levels(ast)[MaxFilterDepth]
    PROVE  BecameValue(ast, args, auth)[MaxFilterDepth][n] = n
  <1> DEFINE v == BecameValue(ast, args, auth)
  <1>0. BecameOf(ast, args, auth, v)
    BY BecameExists
  <1> HIDE DEF v
  <1>1. v[MaxFilterDepth] = BecameBase(ast)
    BY <1>0, DepthAssumption DEF BecameOf
  <1>2. v[MaxFilterDepth][n] = n
    BY <1>1 DEF BecameBase
  <1> QED BY <1>2 DEF v

\* Above it, a node is filled with what became of its children.
LEMMA BecameStep ==
    ASSUME NEW ast, NEW args, NEW auth, NEW d \in 0 .. MaxFilterDepth, d # MaxFilterDepth, NEW n \in Levels(ast)[d]
    PROVE  BecameValue(ast, args, auth)[d][n] = SubstituteNode(n, args, auth, BecameValue(ast, args, auth)[d + 1])
  <1> DEFINE v == BecameValue(ast, args, auth)
  <1>0. BecameOf(ast, args, auth, v)
    BY BecameExists
  <1> HIDE DEF v
  <1>1. v[d] = BecameLevel(ast, args, auth, d, v[d + 1])
    BY <1>0 DEF BecameOf
  <1>2. v[d][n] = SubstituteNode(n, args, auth, v[d + 1])
    BY <1>1 DEF BecameLevel
  <1> QED BY <1>2 DEF v

-----------------------------------------------------------------------------
(* One leaf, two evaluators.                                               *)

\* Who asks, and what $data reads.
IsCtx(S, ctx) ==
    /\ ctx.auth = Null \/ ctx.auth = Text(ctx.auth.v)
    /\ ctx.data = NoData \/ IsRow(S, ctx.data)

\* A column that may be filtered holds numbers or texts.
LEMMA ClassOfField ==
    ASSUME NEW S, NEW f, IsSchema(S), ValidateField(S, f)
    PROVE  FieldClass(S, f) \in {"num", "text"}
  BY DEF IsSchema, ValidateField, FieldClass, ColumnClass, IsVector, SystemFields

\* A stored value is NULL or of its column's class.
LEMMA StoredClass ==
    ASSUME NEW x, NEW class, IsStored(x, class)
    PROVE  x.c \in {"null", class} /\ (class = NoClass => x.c = "null")
  <1>1. CASE x = Null
    BY <1>1 DEF Null
  <1>2. CASE class # NoClass /\ x = [c |-> class, v |-> x.v]
    <2>1. PICK w : w = x.v
      OBVIOUS
    <2>2. x = [c |-> class, v |-> w]
      BY <1>2, <2>1
    <2>3. x.c = class
      BY <2>2
    <2> QED BY <1>2, <2>3
  <1> QED BY <1>1, <1>2 DEF IsStored

\* An operand that passed the class check resolves to NULL or a value of its column's class.
LEMMA ResolvedClass ==
    ASSUME NEW S, NEW f, NEW o, NEW ctx, IsCtx(S, ctx), IsOperand(o), CheckOperandClass(S, f, o),
           FieldClass(S, f) \in {"num", "text"}, ResolveOperand(o, ctx) # Bad
    PROVE  ResolveOperand(o, ctx).c \in {"null", FieldClass(S, f)}
  <1> DEFINE x == ResolveOperand(o, ctx)
             cl == FieldClass(S, f)
  <1>0. OperandClass(S, o) = NoClass \/ OperandClass(S, o) = cl
    BY DEF CheckOperandClass, NoClass
  <1>1. CASE o.r = "auth"
    <2>1. cl = "text"
      BY <1>0, <1>1 DEF OperandClass, NoClass
    <2>2. x = ctx.auth
      BY <1>1 DEF ResolveOperand
    <2> QED BY <2>1, <2>2 DEF IsCtx, Text, Null
  <1>2. CASE o.r = "lit"
    <2>1. x = JsonToValue(o.x) /\ IsJson(o.x) /\ OperandClass(S, o) = LiteralClass(o.x)
      BY <1>2 DEF ResolveOperand, IsOperand, OperandClass
    <2>2. CASE o.x.c \in {"bool", "num"}
      <3>1. LiteralClass(o.x) = "num" /\ JsonToValue(o.x).c = "num"
        BY <2>2 DEF LiteralClass, JsonToValue, Num
      <3> QED BY <1>0, <2>1, <3>1 DEF NoClass
    <2>3. CASE o.x.c = "text"
      <3>1. LiteralClass(o.x) = "text" /\ JsonToValue(o.x).c = "text"
        BY <2>3 DEF LiteralClass, JsonToValue
      <3> QED BY <1>0, <2>1, <3>1 DEF NoClass
    <2>4. CASE o.x.c \in {"null", "array"}
      <3>1. JsonToValue(o.x).c = "null"
        BY <2>4 DEF JsonToValue, Null
      <3> QED BY <2>1, <3>1
    <2> QED BY <2>1, <2>2, <2>3, <2>4 DEF IsJson
  <1>3. CASE o.r = "data"
    <2>1. OperandClass(S, o) = FieldClass(S, o.f)
      BY <1>3 DEF OperandClass
    <2>2. ctx.data # NoData /\ IsRow(S, ctx.data)
      BY <1>3 DEF ResolveOperand, IsCtx
    <2>3. CASE o.f \in DOMAIN ctx.data
      <3>1. x = ctx.data[o.f] /\ IsStored(x, FieldClass(S, o.f))
        BY <1>3, <2>2, <2>3 DEF ResolveOperand, IsRow
      <3>2. x.c \in {"null", FieldClass(S, o.f)} /\ (FieldClass(S, o.f) = NoClass => x.c = "null")
        BY <3>1, StoredClass
      <3> QED BY <1>0, <2>1, <3>2
    <2>4. CASE o.f \notin DOMAIN ctx.data
      <3>1. x = Null
        BY <1>3, <2>2, <2>4 DEF ResolveOperand
      <3> QED BY <3>1 DEF Null
    <2> QED BY <2>3, <2>4
  <1> QED BY <1>1, <1>2, <1>3 DEF IsOperand

\* Values of one class compare alike in memory and in SQL.
LEMMA CompareAgrees ==
    ASSUME NEW a, NEW b, NEW op, NEW cl \in {"num", "text"}, a.c \in {"null", cl}, b.c \in {"null", cl}
    PROVE  SqlCompare(op, a, b) = IF Comparable(a, b) THEN FromBool(Ordered(op, a.v, b.v)) ELSE U
  BY DEF SqlCompare, Comparable

\* LIKE on texts is like_match.
LEMMA LikeAgrees ==
    ASSUME NEW a, NEW b, a.c \in {"null", "text"}, b.c \in {"null", "text"}
    PROVE  SqlLike(a, b) = IF a.c = "null" \/ b.c = "null" THEN U ELSE FromBool(LikeMatch(a, b))
  BY DEF SqlLike, LikeMatch, FromBool

\* IN and NOT IN agree, NULLs and the empty list included.
LEMMA InAgrees ==
    ASSUME NEW lhs, NEW D, NEW rhs, NEW cl \in {"num", "text"}, lhs.c \in {"null", cl}, DOMAIN rhs = D,
           \A i \in D : rhs[i].c \in {"null", cl}
    PROVE  /\ EvalIn("in", lhs, {rhs[i] : i \in D}) = TriOr({SqlCompare("eq", lhs, rhs[i]) : i \in D})
           /\ EvalIn("nin", lhs, {rhs[i] : i \in D}) = TriNot(TriOr({SqlCompare("eq", lhs, rhs[i]) : i \in D}))
  <1> DEFINE hits == {SqlCompare("eq", lhs, rhs[i]) : i \in D}
             xs == {rhs[i] : i \in D}
             hit == \E x \in xs : Comparable(lhs, x) /\ lhs.v = x.v
             anyNull == lhs.c = "null" \/ \E x \in xs : x.c = "null"
             found == IF hit THEN T ELSE IF anyNull /\ xs # {} THEN U ELSE F
  <1>1. \A i \in D : SqlCompare("eq", lhs, rhs[i]) = IF Comparable(lhs, rhs[i]) THEN FromBool(lhs.v = rhs[i].v) ELSE U
    BY CompareAgrees DEF Ordered
  <1>2. T \in hits <=> hit
    BY <1>1 DEF FromBool, T, F, U
  <1>3. U \in hits <=> anyNull /\ xs # {}
    <2>1. \A i \in D : SqlCompare("eq", lhs, rhs[i]) = U <=> ~Comparable(lhs, rhs[i])
      BY <1>1 DEF FromBool, T, F, U
    <2>2. \A i \in D : ~Comparable(lhs, rhs[i]) <=> (lhs.c = "null" \/ rhs[i].c = "null")
      BY DEF Comparable
    <2> QED BY <2>1, <2>2
  <1>4. TriOr(hits) = found
    BY <1>2, <1>3 DEF TriOr
  <1>5. EvalIn("in", lhs, xs) = found /\ EvalIn("nin", lhs, xs) = TriNot(found)
    BY DEF EvalIn
  <1> QED BY <1>4, <1>5

\* What a leaf of an accepted clause meets, LIKE on numbers aside.
SoundLeaf(S, n, ctx) ==
    /\ CompileLeaf(S, n, ctx)
    /\ IsList(n.args)
    /\ \A i \in DOMAIN n.args : IsOperand(n.args[i])
    /\ n.op \notin NullOps => \A i \in DOMAIN n.args : CheckOperandClass(S, n.f, n.args[i])
    /\ ~(n.op = "like" /\ FieldClass(S, n.f) = "num")

\* A list has a length and that many positions.
LEMMA ListFacts ==
    ASSUME NEW xs, IsList(xs)
    PROVE  Len(xs) \in Nat /\ DOMAIN xs = 1 .. Len(xs)
  BY DEF IsList

\* A leaf that was accepted has one value in memory and in SQL.
LEMMA LeafAgrees ==
    ASSUME NEW S, NEW row, NEW ctx, NEW n, IsSchema(S), IsRow(S, row), IsCtx(S, ctx), SoundLeaf(S, n, ctx)
    PROVE  EvalLeaf(n, row, ctx) = SqlLeaf(n, row, ctx)
  <1> DEFINE cl == FieldClass(S, n.f)
             lhs == row[n.f]
             rhs == [i \in DOMAIN n.args |-> ResolveOperand(n.args[i], ctx)]
  <1>1. cl \in {"num", "text"} /\ n.f \in DOMAIN row
    <2>1. ValidateField(S, n.f)
      BY DEF SoundLeaf, CompileLeaf
    <2> QED BY <2>1, ClassOfField DEF ValidateField, IsRow
  <1>2. lhs.c \in {"null", cl}
    BY <1>1, StoredClass DEF IsRow
  <1>3. CASE n.op \in NullOps
    BY <1>1, <1>3 DEF EvalLeaf, SqlLeaf, NullOps
  <1>4. CASE n.op \notin NullOps
    <2>0. \A i \in DOMAIN n.args : ResolveOperand(n.args[i], ctx) # Bad
      BY <1>4 DEF SoundLeaf, CompileLeaf
    <2>1. \A i \in DOMAIN n.args : rhs[i].c \in {"null", cl}
      <3> SUFFICES ASSUME NEW i \in DOMAIN n.args PROVE ResolveOperand(n.args[i], ctx).c \in {"null", cl}
        OBVIOUS
      <3> QED BY <1>1, <1>4, <2>0, ResolvedClass DEF SoundLeaf
    <2>2. \A i \in DOMAIN n.args : ResolveEvalOperand(n.args[i], ctx) = rhs[i]
      BY <2>0 DEF ResolveEvalOperand
    <2>3. n.op \in ScalarOps \cup ArrayOps
      BY <1>4 DEF SoundLeaf, CompileLeaf
    <2>4. CASE n.op \in ArrayOps
      <3> DEFINE hits == {SqlCompare("eq", lhs, ResolveOperand(n.args[i], ctx)) : i \in DOMAIN n.args}
                 xs == {ResolveEvalOperand(n.args[i], ctx) : i \in DOMAIN n.args}
      <3>1. hits = {SqlCompare("eq", lhs, rhs[i]) : i \in DOMAIN n.args}
        OBVIOUS
      <3>2. xs = {rhs[i] : i \in DOMAIN n.args}
        BY <2>2
      <3>3. EvalLeaf(n, row, ctx) = EvalIn(n.op, lhs, xs)
        BY <1>1, <2>4 DEF EvalLeaf, ArrayOps
      <3>4. SqlLeaf(n, row, ctx) = IF n.op = "in" THEN TriOr(hits) ELSE TriNot(TriOr(hits))
        BY <2>4 DEF SqlLeaf, ArrayOps
      <3>5. EvalIn("in", lhs, xs) = TriOr(hits) /\ EvalIn("nin", lhs, xs) = TriNot(TriOr(hits))
        <4> HIDE DEF rhs, lhs, cl
        <4>1. DOMAIN rhs = DOMAIN n.args
          BY DEF rhs
        <4>2. PICK D : D = DOMAIN n.args
          OBVIOUS
        <4>3. /\ EvalIn("in", lhs, {rhs[i] : i \in D}) = TriOr({SqlCompare("eq", lhs, rhs[i]) : i \in D})
              /\ EvalIn("nin", lhs, {rhs[i] : i \in D}) = TriNot(TriOr({SqlCompare("eq", lhs, rhs[i]) : i \in D}))
          BY <1>1, <1>2, <2>1, <4>1, <4>2, InAgrees
        <4> HIDE DEF hits, xs
        <4> QED BY <3>1, <3>2, <4>2, <4>3
      <3> QED BY <2>4, <3>3, <3>4, <3>5 DEF ArrayOps
    <2>5. CASE n.op \in ScalarOps
      <3>1. 1 \in DOMAIN n.args
        BY <2>5, ListFacts DEF SoundLeaf, CompileLeaf
      <3> DEFINE b == ResolveOperand(n.args[1], ctx)
      <3>2. b.c \in {"null", cl} /\ ResolveEvalOperand(n.args[1], ctx) = b
        BY <2>1, <2>2, <3>1
      <3>3. CASE n.op = "like"
        <4>1. cl = "text"
          BY <1>1, <3>3 DEF SoundLeaf
        <4>2. SqlLeaf(n, row, ctx) = SqlLike(lhs, b)
          BY <3>3 DEF SqlLeaf
        <4>3. EvalLeaf(n, row, ctx) = IF lhs.c = "null" \/ b.c = "null" THEN U ELSE FromBool(LikeMatch(lhs, b))
          BY <1>1, <3>2, <3>3 DEF EvalLeaf, ArrayOps
        <4> QED BY <1>2, <3>2, <4>1, <4>2, <4>3, LikeAgrees
      <3>4. CASE n.op # "like"
        <4>1. SqlLeaf(n, row, ctx) = SqlCompare(n.op, lhs, b)
          BY <2>5, <3>4 DEF SqlLeaf, ScalarOps
        <4>2. EvalLeaf(n, row, ctx) = IF Comparable(lhs, b) THEN FromBool(Ordered(n.op, lhs.v, b.v)) ELSE U
          BY <1>1, <2>5, <3>2, <3>4 DEF EvalLeaf, ScalarOps, ArrayOps, FromBool
        <4>3. SqlCompare(n.op, lhs, b) = IF Comparable(lhs, b) THEN FromBool(Ordered(n.op, lhs.v, b.v)) ELSE U
          BY <1>1, <1>2, <3>2, CompareAgrees
        <4> QED BY <4>1, <4>2, <4>3
      <3> QED BY <3>3, <3>4
    <2> QED BY <2>3, <2>4, <2>5
  <1> QED BY <1>3, <1>4

-----------------------------------------------------------------------------
(* A whole clause, from the deepest level up.                              *)

\* Every leaf of the clause is sound, and there is no $fts.
SoundClause(S, ast, ctx) ==
    \A n \in Nodes(ast) :
        /\ n.k \in {"and", "or", "not", "authenticated", "leaf"}
        /\ n.k = "leaf" => SoundLeaf(S, n, ctx)

\* So has a node whose children agree.
LEMMA NodeAgrees ==
    ASSUME NEW S, NEW row, NEW ctx, NEW n, NEW kids, IsSchema(S), IsRow(S, row), IsCtx(S, ctx),
           n.k \in {"and", "or", "not", "authenticated", "leaf"}, n.k = "leaf" => SoundLeaf(S, n, ctx)
    PROVE  EvalNode(n, row, ctx, kids) = SqlNode(n, row, ctx, kids)
  <1>1. CASE n.k = "leaf"
    BY <1>1, LeafAgrees DEF EvalNode, SqlNode
  <1>2. CASE n.k \in {"and", "or", "not", "authenticated"}
    BY <1>2 DEF EvalNode, SqlNode
  <1> QED BY <1>1, <1>2

\* So has a clause all of whose nodes were accepted, by induction from the deepest level.
LEMMA ClauseAgrees ==
    ASSUME NEW S, NEW ast, NEW row, NEW ctx, IsSchema(S), IsRow(S, row), IsCtx(S, ctx), SoundClause(S, ast, ctx)
    PROVE  Agree(ast, ctx, row)
  <1> DEFINE ev == EvalValue(ast, row, ctx)
             sq == SqlValue(ast, row, ctx)
             X == {j \in Nat : \A d \in 0 .. MaxFilterDepth :
                                  d + j >= MaxFilterDepth => \A n \in Levels(ast)[d] : ev[d][n] = sq[d][n]}
  <1>0. MaxFilterDepth \in Nat
    BY DepthAssumption
  <1>1. 0 \in X
    <2> SUFFICES ASSUME NEW d \in 0 .. MaxFilterDepth, d + 0 >= MaxFilterDepth, NEW n \in Levels(ast)[d]
                 PROVE  ev[d][n] = sq[d][n]
      OBVIOUS
    <2>1. d = MaxFilterDepth
      BY <1>0
    <2>2. ev[d][n] = F
      BY <2>1, EvalCut
    <2>3. sq[d][n] = F
      BY <2>1, SqlCut
    <2> QED BY <2>2, <2>3
  <1>2. ASSUME NEW j \in Nat, j \in X PROVE j + 1 \in X
    <2> SUFFICES ASSUME NEW d \in 0 .. MaxFilterDepth, d + (j + 1) >= MaxFilterDepth, NEW n \in Levels(ast)[d]
                 PROVE  ev[d][n] = sq[d][n]
      BY <1>2
    <2>1. CASE d = MaxFilterDepth
      <3>1. ev[d][n] = F
        BY <2>1, EvalCut
      <3>2. sq[d][n] = F
        BY <2>1, SqlCut
      <3> QED BY <3>1, <3>2
    <2>2. CASE d # MaxFilterDepth
      <3>1. \A k \in Kids(n) : ev[d + 1][k] = sq[d + 1][k]
        <4> SUFFICES ASSUME NEW k \in Kids(n) PROVE ev[d + 1][k] = sq[d + 1][k]
          OBVIOUS
        <4>1. d + 1 \in 0 .. MaxFilterDepth /\ k \in Levels(ast)[d + 1]
          BY <2>2, KidBelow
        <4>2. (d + 1) + j >= MaxFilterDepth
          BY <1>0
        <4> HIDE DEF ev, sq
        <4> QED BY <1>2, <4>1, <4>2
      <3>2. {ev[d + 1][k] : k \in Kids(n)} = {sq[d + 1][k] : k \in Kids(n)}
        <4> HIDE DEF ev, sq
        <4> QED BY <3>1
      <3>3. n \in Nodes(ast)
        BY LevelFacts
      <3>4. EvalNode(n, row, ctx, {ev[d + 1][k] : k \in Kids(n)}) = SqlNode(n, row, ctx, {ev[d + 1][k] : k \in Kids(n)})
        <4> HIDE DEF ev
        <4> QED BY <3>3, NodeAgrees DEF SoundClause
      <3>5. ev[d][n] = EvalNode(n, row, ctx, {ev[d + 1][k] : k \in Kids(n)})
        BY <2>2, EvalStep
      <3>6. sq[d][n] = SqlNode(n, row, ctx, {sq[d + 1][k] : k \in Kids(n)})
        BY <2>2, SqlStep
      <3> HIDE DEF ev, sq
      <3> QED BY <3>2, <3>4, <3>5, <3>6
    <2> QED BY <2>1, <2>2
  <1>3. MaxFilterDepth \in X
    <2> HIDE DEF X
    <2> QED BY <1>0, <1>1, <1>2, AllNaturals
  <1>4. ev[0][ast] = sq[0][ast]
    <2>1. ast \in Levels(ast)[0]
      BY LevelFacts
    <2> HIDE DEF ev, sq
    <2> QED BY <1>0, <1>3, <2>1
  <1> QED BY <1>4, EvalPolicyValue, SqlPolicyValue DEF Agree

-----------------------------------------------------------------------------
(* What validate_policy vouches for.                                       *)

\* A stored row is never the missing $data.
LEMMA RowIsData ==
    ASSUME NEW S, NEW row, IsRow(S, row)
    PROVE  row # NoData
  <1>1. "id" \in DOMAIN row
    BY DEF IsRow, SystemFields
  <1> QED BY <1>1 DEF NoData

\* An operand that resolved for the probe resolves for every caller and row.
LEMMA StillResolves ==
    ASSUME NEW S, NEW o, NEW probe, NEW ctx, IsOperand(o), ResolveOperand(o, probe) # Bad, IsCtx(S, ctx),
           probe.data # NoData => ctx.data # NoData
    PROVE  ResolveOperand(o, ctx) # Bad
  <1>1. CASE o.r = "auth"
    <2>1. ResolveOperand(o, ctx) = ctx.auth
      BY <1>1 DEF ResolveOperand
    <2> QED BY <2>1 DEF IsCtx, Null, Text, Bad
  <1>2. CASE o.r = "lit"
    <2>1. ResolveOperand(o, ctx) = JsonToValue(o.x) /\ IsJson(o.x)
      BY <1>2 DEF ResolveOperand, IsOperand
    <2>2. JsonToValue(o.x).c # "bad"
      BY <2>1 DEF JsonToValue, IsJson, Num, Null
    <2>3. Bad.c = "bad"
      BY DEF Bad
    <2> QED BY <2>1, <2>2, <2>3
  <1>3. CASE o.r = "data"
    <2>1. ctx.data # NoData /\ IsRow(S, ctx.data)
      BY <1>3 DEF ResolveOperand, IsCtx
    <2>2. CASE o.f \in DOMAIN ctx.data
      <3>1. ResolveOperand(o, ctx) = ctx.data[o.f] /\ IsStored(ctx.data[o.f], FieldClass(S, o.f))
        BY <1>3, <2>1, <2>2 DEF ResolveOperand, IsRow
      <3>2. ctx.data[o.f].c \in {"null", FieldClass(S, o.f)}
        BY <3>1, StoredClass
      <3>3. FieldClass(S, o.f) # "bad"
        BY DEF FieldClass, ColumnClass, NoClass
      <3>4. Bad.c = "bad"
        BY DEF Bad
      <3> QED BY <3>1, <3>2, <3>3, <3>4
    <2>3. CASE o.f \notin DOMAIN ctx.data
      BY <1>3, <2>1, <2>3 DEF ResolveOperand, Null, Bad
    <2> QED BY <2>2, <2>3
  <1> QED BY <1>1, <1>2, <1>3 DEF IsOperand

\* A clause that compiled and passed the class check.
Accepted(S, ast, probe) ==
    /\ IsFilterAst(ast)
    /\ CompilePolicyUsing(S, ast, probe)
    /\ CheckOperandClasses(S, ast, FALSE)

\* The checks of validate_policy make every leaf sound.
LEMMA AcceptedIsSound ==
    ASSUME NEW S, NEW ast, NEW probe, NEW ctx, Accepted(S, ast, probe), IsCtx(S, ctx),
           probe.data # NoData => ctx.data # NoData, ~NumberLike(S, ast)
    PROVE  SoundClause(S, ast, ctx)
  <1> SUFFICES ASSUME NEW n \in Nodes(ast)
               PROVE  /\ n.k \in {"and", "or", "not", "authenticated", "leaf"}
                      /\ n.k = "leaf" => SoundLeaf(S, n, ctx)
    BY DEF SoundClause
  <1>1. n.k \in {"and", "or", "not", "authenticated", "leaf"}
    BY DEF Accepted, IsFilterAst, CompilePolicyUsing, CompileNode
  <1>2. ASSUME n.k = "leaf" PROVE SoundLeaf(S, n, ctx)
    <2>1. CompileLeaf(S, n, probe)
      BY <1>2 DEF Accepted, CompilePolicyUsing, CompileNode
    <2>2. IsList(n.args) /\ \A i \in DOMAIN n.args : IsOperand(n.args[i])
      BY <1>2 DEF Accepted, IsFilterAst
    <2>3. n.op \notin NullOps => \A i \in DOMAIN n.args : CheckOperandClass(S, n.f, n.args[i])
      BY <1>2 DEF Accepted, CheckOperandClasses
    <2>4. ~(n.op = "like" /\ FieldClass(S, n.f) = "num")
      BY <1>2 DEF NumberLike
    <2>5. n.op \notin NullOps => \A i \in DOMAIN n.args : ResolveOperand(n.args[i], ctx) # Bad
      <3> SUFFICES ASSUME n.op \notin NullOps, NEW i \in DOMAIN n.args PROVE ResolveOperand(n.args[i], ctx) # Bad
        OBVIOUS
      <3>1. ResolveOperand(n.args[i], probe) # Bad
        BY <2>1 DEF CompileLeaf
      <3> QED BY <2>2, <3>1, StillResolves
    <2>6. CompileLeaf(S, n, ctx)
      BY <2>1, <2>5 DEF CompileLeaf
    <2> QED BY <2>2, <2>3, <2>4, <2>6 DEF SoundLeaf
  <1> QED BY <1>1, <1>2

\* An accepted clause without LIKE on numbers has one verdict.
LEMMA AcceptedAgrees ==
    ASSUME NEW S, NEW ast, NEW probe, NEW ctx, NEW row, IsSchema(S), IsRow(S, row), Accepted(S, ast, probe),
           IsCtx(S, ctx), probe.data # NoData => ctx.data # NoData
    PROVE  NumberLike(S, ast) \/ Agree(ast, ctx, row)
  BY AcceptedIsSound, ClauseAgrees

\* The context of a caller is well formed.
LEMMA CtxOf ==
    ASSUME NEW S, NEW u, u = Anon \/ u = Text(u.v), NEW data, data = NoData \/ IsRow(S, data)
    PROVE  IsCtx(S, Ctx(u, data)) /\ Ctx(u, data).data = data
  BY DEF IsCtx, Ctx, Anon

\* Both clauses of an accepted policy have one verdict each.
LEMMA PolicyAgrees ==
    ASSUME NEW S, NEW p, NEW verb, NEW u, NEW row, IsSchema(S), IsRow(S, row), ValidatePolicy(S, verb, p),
           \A clause \in {p.using, p.check} : clause # NoClause => IsFilterAst(clause),
           u = Anon \/ u = Text(u.v)
    PROVE  /\ p.using # NoClause => NumberLike(S, p.using) \/ Agree(p.using, Ctx(u, NoData), row)
           /\ p.check # NoClause => NumberLike(S, p.check) \/ Agree(p.check, Ctx(u, row), row)
  <1>1. ASSUME p.using # NoClause PROVE NumberLike(S, p.using) \/ Agree(p.using, Ctx(u, NoData), row)
    <2> DEFINE probe == Ctx(ProbeUser, NoData)
    <2>1. Accepted(S, p.using, probe)
      BY <1>1 DEF ValidatePolicy, Accepted
    <2>2. probe.data = NoData
      BY DEF Ctx
    <2>3. IsCtx(S, Ctx(u, NoData))
      BY CtxOf
    <2> HIDE DEF probe
    <2> QED BY <2>1, <2>2, <2>3, AcceptedAgrees
  <1>2. ASSUME p.check # NoClause PROVE NumberLike(S, p.check) \/ Agree(p.check, Ctx(u, row), row)
    <2> DEFINE probe == Ctx(ProbeUser, [f \in DOMAIN S |-> Null])
    <2>1. Accepted(S, p.check, probe)
      BY <1>2 DEF ValidatePolicy, Accepted
    <2>2. IsCtx(S, Ctx(u, row)) /\ Ctx(u, row).data # NoData
      BY CtxOf, RowIsData
    <2> HIDE DEF probe
    <2> QED BY <2>1, <2>2, AcceptedAgrees
  <1> QED BY <1>1, <1>2

-----------------------------------------------------------------------------
(* The collection's policy, the stored query and the last answer.          *)

StoredPolicy(p) == p = NoClause \/ (p \in Policies /\ ValidatePolicy(Schema, "select", p))
StoredQuery(q) == q = NoClause \/ (q.tpl \in Templates /\ q.specs \in ParamSpecs /\ ValidateTemplate(q.tpl, q.specs))
GatedAnswer(a) ==
    a # NoClause =>
        /\ a.caller \in Callers
        /\ StoredPolicy(a.pol)
        /\ a.rows \subseteq Rows
        /\ \A r \in a.rows : OwnerClause(a.caller, r) /\ SelectAdmits(Schema, a.pol, a.caller, r)

QInv == StoredPolicy(selPolicy) /\ StoredQuery(query) /\ GatedAnswer(answer)

\* An answer built by build_where_clause is gated.
LEMMA AnswerGated ==
    ASSUME NEW caller \in Callers, NEW rows, NEW filter, StoredPolicy(selPolicy), Answer(caller, rows),
           \A r \in rows : r \in Rows /\ WhereClause(filter, caller, selPolicy, r)
    PROVE  GatedAnswer(answer')
  <1>1. answer'.caller = caller /\ answer'.pol = selPolicy /\ answer'.rows = rows
    BY DEF Answer
  <1> QED BY <1>1 DEF GatedAnswer, WhereClause

\* Every operation keeps the policy and the query validated and the answer gated.
LEMMA QStep ==
    ASSUME QInv, [QNext]_qvars
    PROVE  QInv'
  <1>0. StoredPolicy(selPolicy) /\ StoredQuery(query) /\ GatedAnswer(answer)
    BY DEF QInv
  <1>a. SUFFICES StoredPolicy(selPolicy') /\ StoredQuery(query') /\ GatedAnswer(answer')
    BY DEF QInv, StoredPolicy, StoredQuery, GatedAnswer, OwnerClause, SelectAdmits
  <1>1. ASSUME NEW p \in Policies, SetSelectPolicy(p)
        PROVE  StoredPolicy(selPolicy') /\ StoredQuery(query') /\ GatedAnswer(answer')
    BY <1>0, <1>1 DEF SetSelectPolicy, StoredPolicy
  <1>2. CASE ClearSelectPolicy
    BY <1>0, <1>2 DEF ClearSelectPolicy, StoredPolicy
  <1>3. ASSUME NEW tpl \in Templates, NEW specs \in ParamSpecs, CreateQueryRpc(tpl, specs)
        PROVE  StoredPolicy(selPolicy') /\ StoredQuery(query') /\ GatedAnswer(answer')
    <2>1. query'.tpl = tpl /\ query'.specs = specs /\ ValidateTemplate(tpl, specs)
      BY <1>3 DEF CreateQueryRpc
    <2>2. UNCHANGED <<selPolicy, answer>>
      BY <1>3 DEF CreateQueryRpc
    <2> QED BY <1>0, <2>1, <2>2 DEF StoredQuery
  <1>4. CASE DeleteQueryRpc
    BY <1>0, <1>4 DEF DeleteQueryRpc, StoredQuery
  <1>5. ASSUME NEW caller \in Callers, NEW req \in ListRequests, ListRecords(caller, req)
        PROVE  StoredPolicy(selPolicy') /\ StoredQuery(query') /\ GatedAnswer(answer')
    <2> DEFINE matching == {r \in Rows : WhereClause(req.filter, caller, selPolicy, r)}
    <2>1. PICK page : Page(matching, req, page) /\ Answer(caller, page)
      BY <1>5 DEF ListRecords
    <2>2. page \subseteq matching
      BY <2>1 DEF Page
    <2>3. \A r \in page : r \in Rows /\ WhereClause(req.filter, caller, selPolicy, r)
      BY <2>2
    <2>4. UNCHANGED <<selPolicy, query>>
      BY <1>5 DEF ListRecords
    <2> QED BY <1>0, <2>1, <2>3, <2>4, AnswerGated
  <1>6. ASSUME NEW caller \in Callers, NEW req \in AggRequests, AggregateRecords(caller, req)
        PROVE  StoredPolicy(selPolicy') /\ StoredQuery(query') /\ GatedAnswer(answer')
    <2> DEFINE matching == {r \in Rows : WhereClause(req.filter, caller, selPolicy, r)}
    <2>1. Answer(caller, matching) /\ UNCHANGED <<selPolicy, query>>
      BY <1>6 DEF AggregateRecords
    <2>3. \A r \in matching : r \in Rows /\ WhereClause(req.filter, caller, selPolicy, r)
      OBVIOUS
    <2> HIDE DEF matching
    <2> QED BY <1>0, <2>1, <2>3, AnswerGated
  <1>7. ASSUME NEW caller \in Callers, NEW args \in Arguments, CallQuery(caller, args)
        PROVE  StoredPolicy(selPolicy') /\ StoredQuery(query') /\ GatedAnswer(answer')
    <2> DEFINE filter == Substitute(query.tpl.filter, ApplyDefaults(query.specs, args),
                                    IF caller = Service THEN Null ELSE caller)
               matching == {r \in Rows : WhereClause(filter, caller, selPolicy, r)}
    <2>1. Answer(caller, matching) /\ UNCHANGED <<selPolicy, query>>
      BY <1>7 DEF CallQuery
    <2>3. \A r \in matching : r \in Rows /\ WhereClause(filter, caller, selPolicy, r)
      OBVIOUS
    <2> HIDE DEF matching, filter
    <2> QED BY <1>0, <2>1, <2>3, AnswerGated
  <1>8. CASE UNCHANGED qvars
    BY <1>0, <1>8 DEF qvars
  <1> QED BY <1>1, <1>2, <1>3, <1>4, <1>5, <1>6, <1>7, <1>8 DEF QNext

\* So they are in every state.
LEMMA QInvariant == QSpec => []QInv
  <1>1. QInit => QInv
    BY DEF QInit, QInv, StoredPolicy, StoredQuery, GatedAnswer
  <1>2. QInv /\ [QNext]_qvars => QInv'
    BY QStep
  <1> QED BY <1>1, <1>2, PTL DEF QSpec

\* A caller other than the service is anonymous or has a text for an id.
LEMMA CallerClass ==
    ASSUME NEW u \in Callers, u # Service
    PROVE  u = Anon \/ u = Text(u.v)
  BY CallersAssumption

\* A select policy that put_policies stored means the same to eval_policy and to
\* the WHERE of every list, for every row and caller (LIKE on numbers aside).
THEOREM PoliciesAgree == QSpec => []PolicyAgreement
  <1>1. QInv => PolicyAgreement
    <2> SUFFICES ASSUME StoredPolicy(selPolicy), selPolicy # NoClause, NEW row \in Rows, NEW caller \in Callers \ {Service}
                 PROVE  /\ NumberLike(Schema, selPolicy.using) \/ Agree(selPolicy.using, Ctx(caller, NoData), row)
                        /\ \/ selPolicy.check = NoClause
                           \/ NumberLike(Schema, selPolicy.check)
                           \/ Agree(selPolicy.check, Ctx(caller, row), row)
      BY DEF QInv, PolicyAgreement
    <2>1. selPolicy \in Policies /\ ValidatePolicy(Schema, "select", selPolicy)
      BY DEF StoredPolicy
    <2>2. selPolicy.using # NoClause
      BY <2>1 DEF ValidatePolicy
    <2>3. \A clause \in {selPolicy.using, selPolicy.check} : clause # NoClause => IsFilterAst(clause)
      BY <2>1, PoliciesAssumption
    <2>4. IsRow(Schema, row) /\ IsSchema(Schema) /\ (caller = Anon \/ caller = Text(caller.v))
      BY RowsAssumption, SchemaAssumption, CallerClass
    <2> QED BY <2>1, <2>2, <2>3, <2>4, PolicyAgrees
  <1> QED BY <1>1, QInvariant, PTL

\* What a list, an aggregate or a stored query hands to a caller stays inside the
\* caller's own rows and inside what eval_policy admits for the policy that held.
THEOREM ReadsAreGated == QSpec => []ReadsGated
  <1>1. QInv => ReadsGated
    <2> SUFFICES ASSUME GatedAnswer(answer), answer # NoClause, answer.caller # Service, NEW r \in answer.rows
                 PROVE  /\ OwnerClause(answer.caller, r)
                        /\ answer.pol # NoClause =>
                              \/ NumberLike(Schema, answer.pol.using)
                              \/ EvalPolicy(answer.pol.using, r, Ctx(answer.caller, NoData))
      BY DEF QInv, ReadsGated
    <2>1. answer.caller \in Callers /\ StoredPolicy(answer.pol) /\ r \in Rows
          /\ OwnerClause(answer.caller, r) /\ SelectAdmits(Schema, answer.pol, answer.caller, r)
      BY DEF GatedAnswer
    <2>2. ASSUME answer.pol # NoClause, ~NumberLike(Schema, answer.pol.using)
          PROVE  EvalPolicy(answer.pol.using, r, Ctx(answer.caller, NoData))
      <3>1. answer.pol \in Policies /\ ValidatePolicy(Schema, "select", answer.pol)
        BY <2>1, <2>2 DEF StoredPolicy
      <3>2. answer.pol.using # NoClause /\ SqlPolicy(answer.pol.using, r, Ctx(answer.caller, NoData)) = T
        BY <2>1, <2>2 DEF SelectAdmits
      <3>3. \A clause \in {answer.pol.using, answer.pol.check} : clause # NoClause => IsFilterAst(clause)
        BY <3>1, PoliciesAssumption
      <3>4. IsRow(Schema, r) /\ IsSchema(Schema) /\ (answer.caller = Anon \/ answer.caller = Text(answer.caller.v))
        BY <2>1, RowsAssumption, SchemaAssumption, CallerClass
      <3>5. Agree(answer.pol.using, Ctx(answer.caller, NoData), r)
        BY <2>2, <3>1, <3>2, <3>3, <3>4, PolicyAgrees
      <3> QED BY <3>2, <3>5 DEF Agree
    <2> QED BY <2>1, <2>2
  <1> QED BY <1>1, QInvariant, PTL

-----------------------------------------------------------------------------
(* Paths, prefixes and ranges.                                             *)

\* A prefix, position by position.
LEMMA PrefixIs ==
    ASSUME NEW s \in Seq(Nat), NEW t \in Seq(Nat)
    PROVE  IsPrefix(s, t) <=> Len(s) <= Len(t) /\ \A i \in 1 .. Len(s) : s[i] = t[i]
  <1>1. ASSUME IsPrefix(s, t) PROVE Len(s) <= Len(t) /\ \A i \in 1 .. Len(s) : s[i] = t[i]
    <2>1. Len(s) <= Len(t) /\ SubSeq(s, 1, Len(s)) = SubSeq(t, 1, Len(s))
      BY <1>1 DEF IsPrefix
    <2>2. ASSUME NEW i \in 1 .. Len(s) PROVE s[i] = t[i]
      <3>1. SubSeq(s, 1, Len(s))[i] = s[i]
        OBVIOUS
      <3>2. SubSeq(t, 1, Len(s))[i] = t[i]
        BY <2>1
      <3> QED BY <2>1, <3>1, <3>2
    <2> QED BY <2>1, <2>2
  <1>2. ASSUME Len(s) <= Len(t), \A i \in 1 .. Len(s) : s[i] = t[i] PROVE IsPrefix(s, t)
    <2>1. SubSeq(s, 1, Len(s)) = SubSeq(t, 1, Len(s))
      BY <1>2
    <2> QED BY <1>2, <2>1 DEF IsPrefix
  <1> QED BY <1>1, <1>2

\* Sequences with the same entries are equal.
LEMMA SameSequence ==
    ASSUME NEW s \in Seq(Nat), NEW t \in Seq(Nat), Len(s) = Len(t), \A i \in 1 .. Len(s) : s[i] = t[i]
    PROVE  s = t
  OBVIOUS

\* The empty sequence is a prefix of all, and has no prefix but itself.
LEMMA EmptyPrefix ==
    ASSUME NEW t \in Seq(Nat)
    PROVE  IsPrefix(<<>>, t) /\ (IsPrefix(t, <<>>) => t = <<>>)
  <1>a. <<>> \in Seq(Nat)
    OBVIOUS
  <1>b. Len(<<>>) = 0
    OBVIOUS
  <1>1. PICK e \in Seq(Nat) : e = <<>> /\ Len(e) = 0
    BY <1>a, <1>b, Zenon
  <1>2. Len(t) \in Nat /\ (Len(t) = 0 => t = <<>>)
    <2>1. Len(t) \in Nat
      OBVIOUS
    <2>2. ASSUME Len(t) = 0 PROVE t = e
      BY <1>1, <2>2, SameSequence
    <2> QED BY <1>1, <2>1, <2>2
  <1>3. IsPrefix(e, t) <=> Len(e) <= Len(t) /\ \A i \in 1 .. Len(e) : e[i] = t[i]
    BY PrefixIs
  <1>4. IsPrefix(t, e) <=> Len(t) <= Len(e) /\ \A i \in 1 .. Len(t) : t[i] = e[i]
    BY PrefixIs
  <1> QED BY <1>1, <1>2, <1>3, <1>4

\* A strict prefix is a shorter one.
LEMMA StrictPrefixIs ==
    ASSUME NEW s \in Seq(Nat), NEW t \in Seq(Nat)
    PROVE  IsStrictPrefix(s, t) <=> Len(s) < Len(t) /\ \A i \in 1 .. Len(s) : s[i] = t[i]
  <1>1. ASSUME IsStrictPrefix(s, t) PROVE Len(s) < Len(t) /\ \A i \in 1 .. Len(s) : s[i] = t[i]
    <2>1. Len(s) <= Len(t) /\ (\A i \in 1 .. Len(s) : s[i] = t[i]) /\ s # t
      BY <1>1, PrefixIs DEF IsStrictPrefix
    <2>2. Len(s) # Len(t)
      BY <2>1, SameSequence
    <2> QED BY <2>1, <2>2
  <1>2. ASSUME Len(s) < Len(t), \A i \in 1 .. Len(s) : s[i] = t[i] PROVE IsStrictPrefix(s, t)
    <2>1. IsPrefix(s, t)
      BY <1>2, PrefixIs
    <2> QED BY <1>2, <2>1 DEF IsStrictPrefix
  <1> QED BY <1>1, <1>2

\* The upper bound differs from the prefix in its last byte alone.
LEMMA UpperBoundIs ==
    ASSUME NEW q \in Seq(Nat), q # <<>>
    PROVE  /\ Len(q) \in Nat \ {0}
           /\ PrefixUpperBound(q) \in Seq(Nat) /\ Len(PrefixUpperBound(q)) = Len(q)
           /\ PrefixUpperBound(q)[Len(q)] = q[Len(q)] + 1
           /\ \A i \in 1 .. Len(q) : i # Len(q) => PrefixUpperBound(q)[i] = q[i]
  <1>1. Len(q) \in Nat \ {0}
    OBVIOUS
  <1>2. q[Len(q)] + 1 \in Nat
    BY <1>1
  <1> QED BY <1>1, <1>2 DEF PrefixUpperBound

\* The range of paths from a prefix up to its upper bound is the set of paths
\* that start with the prefix.
LEMMA RangeIsPrefix ==
    ASSUME NEW p \in Seq(Nat), NEW q \in Seq(Nat), q # <<>>
    PROVE  ~Before(p, q) /\ Before(p, PrefixUpperBound(q)) <=> IsPrefix(q, p)
  <1>0. PICK u \in Seq(Nat) : u = PrefixUpperBound(q)
    BY UpperBoundIs
  <1>u. Len(q) \in Nat \ {0} /\ Len(u) = Len(q) /\ u[Len(q)] = q[Len(q)] + 1
        /\ \A i \in 1 .. Len(q) : i # Len(q) => u[i] = q[i]
    BY <1>0, UpperBoundIs
  <1>p. Len(p) \in Nat /\ (\A i \in 1 .. Len(p) : p[i] \in Nat) /\ (\A i \in 1 .. Len(q) : q[i] \in Nat)
    OBVIOUS
  <1> DEFINE Min2(a, b) == IF a < b THEN a ELSE b
  <1>1. ASSUME IsPrefix(q, p) PROVE ~Before(p, q) /\ Before(p, u)
    <2>1. Len(q) <= Len(p) /\ \A i \in 1 .. Len(q) : q[i] = p[i]
      BY <1>1, PrefixIs
    <2>2. ~Before(p, q)
      <3>1. ~IsStrictPrefix(p, q)
        BY <2>1, <1>p, <1>u, StrictPrefixIs
      <3>2. ASSUME NEW i \in 1 .. Min2(Len(p), Len(q)) PROVE ~(p[i] < q[i])
        BY <2>1, <1>p, <1>u
      <3> QED BY <3>1, <3>2 DEF Before
    <2>3. Before(p, u)
      <3>1. Len(q) \in 1 .. Min2(Len(p), Len(u))
        BY <2>1, <1>p, <1>u
      <3>2. Len(q) \in 1 .. Len(q) /\ Len(q) \in 1 .. Len(p)
        BY <2>1, <1>p, <1>u
      <3>3. q[Len(q)] = p[Len(q)] /\ q[Len(q)] \in Nat
        BY <2>1, <3>2, <1>p
      <3>4. p[Len(q)] < u[Len(q)]
        BY ONLY <3>3, <1>u, SMT
      <3>5. ASSUME NEW j \in 1 .. (Len(q) - 1) PROVE p[j] = u[j]
        <4>1. j \in 1 .. Len(q) /\ j # Len(q)
          BY <1>u
        <4> QED BY <2>1, <4>1, <1>u
      <3> QED BY <3>1, <3>4, <3>5 DEF Before
    <2> QED BY <2>2, <2>3
  <1>2. ASSUME ~Before(p, q), Before(p, u) PROVE IsPrefix(q, p)
    <2>1. CASE IsStrictPrefix(p, u)
      <3>1. Len(p) < Len(q) /\ \A i \in 1 .. Len(p) : p[i] = q[i]
        BY <2>1, <1>p, <1>u, StrictPrefixIs
      <3>2. IsStrictPrefix(p, q)
        BY <3>1, StrictPrefixIs
      <3> QED BY <1>2, <3>2 DEF Before
    <2>2. CASE ~IsStrictPrefix(p, u)
      <3>1. PICK i \in 1 .. Min2(Len(p), Len(u)) : p[i] < u[i] /\ \A j \in 1 .. (i - 1) : p[j] = u[j]
        BY <1>2, <2>2 DEF Before
      <3>2. i \in 1 .. Len(p) /\ i \in 1 .. Len(q) /\ i \in 1 .. Min2(Len(p), Len(q))
        BY <1>p, <1>u
      <3>3. \A j \in 1 .. (i - 1) : p[j] = q[j]
        BY <3>1, <3>2, <1>p, <1>u
      <3>4. ~(p[i] < q[i])
        BY <1>2, <3>2, <3>3 DEF Before
      <3>5. i = Len(q) /\ p[i] = q[i]
        BY <3>1, <3>2, <3>4, <1>p, <1>u
      <3>6. \A j \in 1 .. Len(q) : q[j] = p[j]
        BY <3>3, <3>5, <1>u
      <3> QED BY <3>2, <3>5, <3>6, <1>p, <1>u, PrefixIs
    <2> QED BY <2>1, <2>2
  <1> QED BY <1>0, <1>1, <1>2

-----------------------------------------------------------------------------
(* Truth values.                                                           *)

Tri == {T, F, U}

\* SQLite's truth values and its connectives.
LEMMA TriFacts ==
    /\ T # F /\ T # U /\ F # U
    /\ \A b \in BOOLEAN : FromBool(b) \in Tri
    /\ \A x : TriNot(x) \in Tri
    /\ \A xs : TriAnd(xs) \in Tri /\ TriOr(xs) \in Tri
  BY DEF T, F, U, Tri, FromBool, TriNot, TriAnd, TriOr

\* A conjunction holds when every part does.
LEMMA AndHolds ==
    ASSUME NEW xs, xs \subseteq Tri
    PROVE  TriAnd(xs) = T <=> \A x \in xs : x = T
  BY TriFacts DEF TriAnd, Tri

\* A disjunction holds when some part does.
LEMMA OrHolds ==
    ASSUME NEW xs
    PROVE  TriOr(xs) = T <=> T \in xs
  BY TriFacts DEF TriOr

\* A comparison that is not Unknown is true or false.
LEMMA FromBoolHolds ==
    ASSUME NEW b
    PROVE  (FromBool(b) = T <=> b) /\ (TriNot(FromBool(b)) = T <=> ~b) /\ FromBool(b) \in Tri
  BY DEF FromBool, TriNot, T, F, U, Tri

\* A compiled clause has one of the three truth values.
LEMMA SqlPolicyTri ==
    ASSUME NEW ast, NEW row, NEW ctx
    PROVE  SqlPolicy(ast, row, ctx) \in Tri
  <1>1. ast \in Levels(ast)[0] /\ 0 \in 0 .. MaxFilterDepth /\ 0 # MaxFilterDepth
    BY LevelFacts, DepthAssumption
  <1>a. SqlValue(ast, row, ctx)[0][ast] = SqlNode(ast, row, ctx, {SqlValue(ast, row, ctx)[0 + 1][k] : k \in Kids(ast)})
    BY <1>1, SqlStep
  <1>2. PICK kids : SqlValue(ast, row, ctx)[0][ast] = SqlNode(ast, row, ctx, kids)
    BY <1>a
  <1>3. \A a, b, op : SqlCompare(op, a, b) \in Tri
    BY FromBoolHolds DEF SqlCompare, Tri
  <1>4. \A a, b : SqlLike(a, b) \in Tri
    BY FromBoolHolds DEF SqlLike, Tri
  <1>5. SqlLeaf(ast, row, ctx) \in Tri
    BY <1>3, <1>4, FromBoolHolds, TriFacts DEF SqlLeaf
  <1>6. SqlNode(ast, row, ctx, kids) \in Tri
    BY <1>5, TriFacts, FromBoolHolds DEF SqlNode
  <1> QED BY <1>2, <1>6, SqlPolicyValue

-----------------------------------------------------------------------------
(* The decision of one policy of files, in memory and in SQL.              *)

\* A stored row: what ValidateFilePolicy asks of its select clause.
SoundRow(p) ==
    /\ p = FilePolicyRow(p.ownerScoped, p.publicRead, p.select, p.delete, p.roles)
    /\ p.select # NoClause =>
          /\ IsFilterAst(p.select)
          /\ CompilePolicyUsing(FileSchema, p.select, Ctx(ProbeUser, NoData))
          /\ CheckOperandClasses(FileSchema, p.select, FALSE)

\* authorize_file for a read, under the policy it found.
Admits(p, f, caller) ==
    /\ Open(p) => p.publicRead
    /\ p.ownerScoped => CallerIsUploader(f, caller)
    /\ p.select # NoClause =>
          CompilePolicyUsing(FileSchema, p.select, Ctx(caller, NoData)) /\ EvalPolicy(p.select, f.cols, Ctx(caller, NoData))

\* owner_sql is caller_is_uploader, NULL uploaders and anonymous callers included.
LEMMA OwnerAgrees ==
    ASSUME NEW f \in Files, NEW caller, caller = Anon \/ caller = Text(caller.v)
    PROVE  (OwnerSql(f, caller) = T <=> CallerIsUploader(f, caller)) /\ OwnerSql(f, caller) \in Tri
  <1> DEFINE x == f.cols["uploader"]
  <1>1. x = Null \/ x = Text(x.v)
    <2>1. "uploader" \in DOMAIN f.cols
      BY FilesAssumption DEF IsRow
    <2>2. FieldClass(FileSchema, "uploader") = "text"
      BY FilesAssumption DEF FieldClass, ColumnClass
    <2>3. IsStored(x, "text")
      BY <2>1, <2>2, FilesAssumption DEF IsRow
    <2> QED BY <2>3 DEF IsStored, Text
  <1> HIDE DEF x
  <1>2. OwnerSql(f, caller) = SqlCompare("eq", x, caller) /\ (CallerIsUploader(f, caller) <=> caller # Anon /\ x = caller)
    BY DEF OwnerSql, CallerIsUploader, x
  <1>3. CASE caller = Anon \/ x = Null
    <2>1. SqlCompare("eq", x, caller) = U
      BY <1>3 DEF SqlCompare, Anon, Null
    <2>2. ~(caller # Anon /\ x = caller)
      BY <1>3 DEF Anon
    <2> QED BY <1>2, <2>1, <2>2, TriFacts DEF Tri
  <1>4. CASE caller # Anon /\ x # Null
    <2>1. x = Text(x.v) /\ caller = Text(caller.v)
      BY <1>1, <1>4
    <2>2. x.c = "text" /\ caller.c = "text"
      <3>1. PICK a, b : x = Text(a) /\ caller = Text(b)
        BY <2>1
      <3> QED BY <3>1 DEF Text
    <2>3. SqlCompare("eq", x, caller) = FromBool(x.v = caller.v)
      BY <2>2 DEF SqlCompare, Ordered
    <2>4. x.v = caller.v <=> x = caller
      BY <2>1
    <2> QED BY <1>2, <1>4, <2>3, <2>4, FromBoolHolds
  <1> QED BY <1>3, <1>4

\* decision_sql has one of the three truth values.
LEMMA DecisionTri ==
    ASSUME NEW f \in Files, NEW caller, NEW p
    PROVE  DecisionSql(p, f, caller) \in Tri
  BY TriFacts DEF DecisionSql, Tri

\* decision_sql decides as authorize_file does under the same policy.
LEMMA DecisionAgrees ==
    ASSUME NEW f \in Files, NEW caller, caller = Anon \/ caller = Text(caller.v), NEW p, SoundRow(p),
           ~NumberLike(FileSchema, p.select)
    PROVE  (DecisionSql(p, f, caller) = T <=> Admits(p, f, caller)) /\ DecisionSql(p, f, caller) \in Tri
  <1> DEFINE ctx == Ctx(caller, NoData)
             compiles == p.select # NoClause => CompilePolicyUsing(FileSchema, p.select, ctx)
             owner == IF p.ownerScoped THEN {OwnerSql(f, caller)} ELSE {}
             clause == IF p.select # NoClause THEN {SqlPolicy(p.select, f.cols, ctx)} ELSE {}
  <1>1. DecisionSql(p, f, caller) = IF (Open(p) /\ ~p.publicRead) \/ ~compiles THEN F ELSE TriAnd(owner \cup clause)
    BY DEF DecisionSql
  <1>2. p.select # NoClause => (SqlPolicy(p.select, f.cols, ctx) = T <=> EvalPolicy(p.select, f.cols, ctx))
    <2> SUFFICES ASSUME p.select # NoClause PROVE Agree(p.select, ctx, f.cols)
      BY DEF Agree
    <2> DEFINE probe == Ctx(ProbeUser, NoData)
    <2>1. Accepted(FileSchema, p.select, probe)
      BY DEF SoundRow, Accepted
    <2>2. probe.data = NoData
      BY DEF Ctx
    <2>3. IsCtx(FileSchema, ctx) /\ IsSchema(FileSchema) /\ IsRow(FileSchema, f.cols)
      BY CtxOf, FilesAssumption
    <2> HIDE DEF probe, ctx
    <2> QED BY <2>1, <2>2, <2>3, AcceptedAgrees
  <1>3. owner \cup clause \subseteq Tri
    BY OwnerAgrees, SqlPolicyTri
  <1>4. TriAnd(owner \cup clause) = T <=> \A x \in owner \cup clause : x = T
    <2> HIDE DEF owner, clause
    <2> QED BY <1>3, AndHolds
  <1>5. (\A x \in owner \cup clause : x = T) <=>
           /\ p.ownerScoped => CallerIsUploader(f, caller)
           /\ p.select # NoClause => EvalPolicy(p.select, f.cols, ctx)
    BY <1>2, OwnerAgrees
  <1>6. Admits(p, f, caller) <=>
           /\ ~((Open(p) /\ ~p.publicRead) \/ ~compiles)
           /\ p.ownerScoped => CallerIsUploader(f, caller)
           /\ p.select # NoClause => EvalPolicy(p.select, f.cols, ctx)
    BY DEF Admits
  <1> HIDE DEF owner, clause, compiles, ctx
  <1>7. DecisionSql(p, f, caller) \in Tri
    BY <1>1, TriFacts DEF Tri
  <1> QED BY <1>1, <1>4, <1>5, <1>6, <1>7, TriFacts

-----------------------------------------------------------------------------
(* The longest match.                                                      *)

\* A bounded set of positions has a greatest one.
LEMMA GreatestExists ==
    ASSUME NEW X, X # {}, NEW m \in Nat, \A x \in X : x \in Nat /\ x <= m
    PROVE  \E x \in X : \A y \in X : y <= x
  <1> DEFINE Y == {m - x : x \in X}
  <1>1. Y # {} /\ Y \subseteq Nat
    OBVIOUS
  <1>2. PICK a \in Y : \A y \in Y : ~(y < a)
    <2> HIDE DEF Y
    <2>1. IsWellFoundedOn(OpToRel(<, Nat), Nat)
      BY NatLessThanWellFounded
    <2>2. \E a \in Y : \A y \in Y : ~(<<y, a>> \in OpToRel(<, Nat))
      BY <1>1, <2>1, WFMin
    <2> QED BY <1>1, <2>2 DEF OpToRel
  <1>3. PICK x \in X : a = m - x
    OBVIOUS
  <1>4. ASSUME NEW y \in X PROVE y <= x
    <2>1. m - y \in Y /\ x \in Nat /\ y \in Nat
      OBVIOUS
    <2>2. ~(m - y < m - x)
      BY <1>2, <1>3, <2>1
    <2> HIDE DEF Y
    <2> QED BY <2>1, <2>2
  <1> QED BY <1>4

PrefixTable == DOMAIN filePols \subseteq Seq(Nat)

\* A path's matches, without the case of a row that has no path.
LEMMA MatchingIs ==
    ASSUME NEW path, path # NoPath
    PROVE  \A q : q \in Matching(path) <=> q \in DOMAIN filePols /\ IsPrefix(q, path)
  BY DEF Matching

\* longest_match finds a longest prefix whenever one matches.
LEMMA LongestIs ==
    ASSUME PrefixTable, NEW path \in Seq(Nat), Matching(path) # {}
    PROVE  LongestMatch(path) \in Matching(path) /\ \A q \in Matching(path) : Len(q) <= Len(LongestMatch(path))
  <1>0. Len(path) \in Nat /\ \A q \in Matching(path) : q \in Seq(Nat) /\ Len(q) \in Nat
    BY DEF Matching, PrefixTable
  <1>1. \E p \in Matching(path) : \A q \in Matching(path) : Len(q) <= Len(p)
    <2>1. CASE path = NoPath
      <3>1. \A q \in Matching(path) : q = <<>>
        BY <2>1 DEF Matching
      <3>2. PICK p \in Matching(path) : TRUE
        OBVIOUS
      <3> QED BY <3>1, <3>2, <1>0
    <2>2. CASE path # NoPath
      <3> DEFINE X == {Len(q) : q \in Matching(path)}
      <3>1. X # {} /\ \A x \in X : x \in Nat /\ x <= Len(path)
        BY <1>0, <2>2, MatchingIs, PrefixIs
      <3>2. PICK x \in X : \A y \in X : y <= x
        <4> HIDE DEF X
        <4> QED BY <1>0, <3>1, GreatestExists
      <3>3. PICK p \in Matching(path) : x = Len(p)
        OBVIOUS
      <3> QED BY <3>2, <3>3
    <2> QED BY <2>1, <2>2
  <1> QED BY <1>1 DEF LongestMatch

\* Of two prefixes of one path the shorter is a prefix of the longer.
LEMMA Nested ==
    ASSUME NEW path \in Seq(Nat), NEW p \in Seq(Nat), NEW q \in Seq(Nat),
           IsPrefix(p, path), IsPrefix(q, path), Len(q) <= Len(p)
    PROVE  q = p \/ IsStrictPrefix(q, p)
  <1>0. Len(p) \in Nat /\ Len(q) \in Nat
    OBVIOUS
  <1>1. \A i \in 1 .. Len(q) : q[i] = p[i]
    BY PrefixIs, <1>0
  <1>2. CASE Len(q) = Len(p)
    BY <1>1, <1>2, SameSequence
  <1>3. CASE Len(q) < Len(p)
    BY <1>1, <1>3, StrictPrefixIs
  <1> QED BY <1>0, <1>2, <1>3

-----------------------------------------------------------------------------
(* The arms of the list.                                                   *)

\* The range of a prefix is true exactly for the paths below it.
LEMMA RangeSql ==
    ASSUME PrefixTable, NEW f \in Files, NEW q \in Filed
    PROVE  /\ PrefixRangeSql(q, f) \in Tri
           /\ PrefixRangeSql(q, f) = T <=> f.path # NoPath /\ IsPrefix(q, f.path)
           /\ TriNot(PrefixRangeSql(q, f)) = T <=> f.path # NoPath /\ ~IsPrefix(q, f.path)
           /\ f.path # NoPath => PrefixRangeSql(q, f) # U
  <1>1. q \in Seq(Nat) /\ q # <<>> /\ f.path \in Seq(Nat)
    BY FilesAssumption DEF Filed, PrefixTable
  <1>2. CASE f.path = NoPath
    <2>1. PrefixRangeSql(q, f) = U
      BY <1>2 DEF PrefixRangeSql
    <2> QED BY <1>2, <2>1, TriFacts DEF Tri, TriNot, T, F, U
  <1>3. CASE f.path # NoPath
    <2>1. PrefixRangeSql(q, f) = FromBool(IsPrefix(q, f.path))
      <3>1. (~Before(f.path, q) /\ Before(f.path, PrefixUpperBound(q))) <=> IsPrefix(q, f.path)
        BY <1>1, RangeIsPrefix
      <3> QED BY <1>3, <3>1 DEF PrefixRangeSql, FromBool
    <2>2. \A b : FromBool(b) # U
      BY DEF FromBool, T, F, U
    <2> QED BY <1>3, <2>1, <2>2, FromBoolHolds
  <1> QED BY <1>2, <1>3

\* An arm admits what its prefix covers, no deeper one covers and its policy admits.
LEMMA ArmHolds ==
    ASSUME PrefixTable, NEW f \in Files, NEW caller, NEW q \in Filed
    PROVE  Arm(q, f, caller) = T <=>
              /\ f.path # NoPath /\ IsPrefix(q, f.path)
              /\ DecisionSql(filePols[q], f, caller) = T
              /\ \A d \in Filed : IsStrictPrefix(q, d) => ~IsPrefix(d, f.path)
  <1> DEFINE deeper == {d \in Filed : IsStrictPrefix(q, d)}
             xs == {PrefixRangeSql(q, f), DecisionSql(filePols[q], f, caller)} \cup {TriNot(PrefixRangeSql(d, f)) : d \in deeper}
  <1>1. Arm(q, f, caller) = TriAnd(xs)
    BY DEF Arm
  <1>2. xs \subseteq Tri
    BY RangeSql, DecisionTri, TriFacts
  <1>3. TriAnd(xs) = T <=> \A x \in xs : x = T
    <2> HIDE DEF xs
    <2> QED BY <1>2, AndHolds
  <1>4. (\A x \in xs : x = T) <=>
          /\ PrefixRangeSql(q, f) = T
          /\ DecisionSql(filePols[q], f, caller) = T
          /\ \A d \in deeper : TriNot(PrefixRangeSql(d, f)) = T
    OBVIOUS
  <1>5. \A d \in deeper : TriNot(PrefixRangeSql(d, f)) = T <=> f.path # NoPath /\ ~IsPrefix(d, f.path)
    BY RangeSql
  <1>6. PrefixRangeSql(q, f) = T <=> f.path # NoPath /\ IsPrefix(q, f.path)
    BY RangeSql
  <1> HIDE DEF xs
  <1> QED BY <1>1, <1>3, <1>4, <1>5, <1>6

\* What the last arm asks of a row that no prefix covers.
RootSql(f, caller) ==
    IF <<>> \in DOMAIN filePols THEN DecisionSql(filePols[<<>>], f, caller) ELSE OwnerSql(f, caller)

\* The last arm admits what no prefix covers and the root or the uploader admits.
LEMMA UnmatchedHolds ==
    ASSUME PrefixTable, NEW f \in Files, NEW caller, caller = Anon \/ caller = Text(caller.v)
    PROVE  UnmatchedArm(f, caller) = T <=>
              /\ f.path = NoPath \/ \A q \in Filed : ~IsPrefix(q, f.path)
              /\ RootSql(f, caller) = T
  <1> DEFINE ranges == {PrefixRangeSql(q, f) : q \in Filed}
             unmatched == IF Filed = {} THEN T ELSE TriOr({FromBool(f.path = NoPath), TriNot(TriOr(ranges))})
             xs == {unmatched, RootSql(f, caller)}
  <1>1. UnmatchedArm(f, caller) = TriAnd(xs)
    BY DEF UnmatchedArm, RootSql
  <1>2. unmatched \in Tri /\ RootSql(f, caller) \in Tri
    BY TriFacts, DecisionTri, OwnerAgrees DEF RootSql, Tri
  <1>3. TriAnd(xs) = T <=> unmatched = T /\ RootSql(f, caller) = T
    <2> HIDE DEF unmatched
    <2>1. xs \subseteq Tri
      BY <1>2
    <2> QED BY <2>1, AndHolds
  <1>4. unmatched = T <=> (f.path = NoPath \/ \A q \in Filed : ~IsPrefix(q, f.path))
    <2>1. CASE Filed = {}
      BY <2>1
    <2>2. CASE Filed # {} /\ f.path = NoPath
      <3>1. FromBool(f.path = NoPath) = T
        BY <2>2 DEF FromBool
      <3> QED BY <2>2, <3>1, OrHolds
    <2>3. CASE Filed # {} /\ f.path # NoPath
      <3>1. \A q \in Filed : PrefixRangeSql(q, f) # U /\ (PrefixRangeSql(q, f) = T <=> IsPrefix(q, f.path))
        BY <2>3, RangeSql
      <3>2. U \notin ranges /\ (T \in ranges <=> \E q \in Filed : IsPrefix(q, f.path))
        BY <3>1
      <3>3. TriNot(TriOr(ranges)) = T <=> T \notin ranges
        <4> HIDE DEF ranges
        <4> QED BY <3>2 DEF TriNot, TriOr, T, F, U
      <3>4. FromBool(f.path = NoPath) # T
        BY <2>3 DEF FromBool, T, F
      <3>5. unmatched = T <=> TriNot(TriOr(ranges)) = T
        <4> HIDE DEF ranges
        <4> QED BY <2>3, <3>4, OrHolds
      <3> HIDE DEF ranges, unmatched
      <3> QED BY <2>3, <3>2, <3>3, <3>5
    <2> QED BY <2>1, <2>2, <2>3
  <1> HIDE DEF unmatched, xs
  <1> QED BY <1>1, <1>3, <1>4

-----------------------------------------------------------------------------
(* The list and the reads of single files.                                 *)

\* What authorize_file decides for a read.
ReadAllowed(f, caller) ==
    IF Matching(f.path) = {} THEN CallerIsUploader(f, caller)
    ELSE Admits(filePols[LongestMatch(f.path)], f, caller)

\* authorize_file for a read decides by the longest match.
LEMMA ReadIs ==
    ASSUME NEW f \in Files, NEW caller
    PROVE  AuthorizeFile(f, caller, "read") <=> ReadAllowed(f, caller)
  <1>1. CASE Matching(f.path) = {}
    BY <1>1 DEF AuthorizeFile, ReadAllowed
  <1>2. CASE Matching(f.path) # {}
    <2>1. PICK p : p = filePols[LongestMatch(f.path)]
      OBVIOUS
    <2>2. AuthorizeFile(f, caller, "read") <=> Admits(p, f, caller)
      BY <1>2, <2>1 DEF AuthorizeFile, Admits
    <2> QED BY <1>2, <2>1, <2>2 DEF ReadAllowed
  <1> QED BY <1>1, <1>2

\* The list admits what one of its arms admits.
LEMMA ListHolds ==
    ASSUME PrefixTable, NEW f \in Files, NEW caller, caller = Anon \/ caller = Text(caller.v)
    PROVE  BuildFileListFilter(f, caller) <=>
              \/ \E q \in Filed :
                    /\ f.path # NoPath /\ IsPrefix(q, f.path)
                    /\ DecisionSql(filePols[q], f, caller) = T
                    /\ \A d \in Filed : IsStrictPrefix(q, d) => ~IsPrefix(d, f.path)
              \/ /\ f.path = NoPath \/ \A q \in Filed : ~IsPrefix(q, f.path)
                 /\ RootSql(f, caller) = T
  <1> DEFINE xs == {Arm(q, f, caller) : q \in Filed} \cup {UnmatchedArm(f, caller)}
  <1>1. BuildFileListFilter(f, caller) <=> T \in xs
    <2>1. BuildFileListFilter(f, caller) <=> TriOr(xs) = T
      BY DEF BuildFileListFilter
    <2> HIDE DEF xs
    <2> QED BY <2>1, OrHolds
  <1>2. T \in xs <=> (\E q \in Filed : Arm(q, f, caller) = T) \/ UnmatchedArm(f, caller) = T
    OBVIOUS
  <1>3. \A q \in Filed : Arm(q, f, caller) = T <=>
              /\ f.path # NoPath /\ IsPrefix(q, f.path)
              /\ DecisionSql(filePols[q], f, caller) = T
              /\ \A d \in Filed : IsStrictPrefix(q, d) => ~IsPrefix(d, f.path)
    BY ArmHolds
  <1>4. UnmatchedArm(f, caller) = T <=>
              /\ f.path = NoPath \/ \A q \in Filed : ~IsPrefix(q, f.path)
              /\ RootSql(f, caller) = T
    BY UnmatchedHolds
  <1> HIDE DEF xs
  <1> QED BY <1>1, <1>2, <1>3, <1>4

\* Every stored policy is one the code accepts or a legacy row.
SoundRows == \A q \in DOMAIN filePols : SoundRow(filePols[q])

\* The root alone governs a file that no other prefix matches.
LEMMA RootGoverns ==
    ASSUME PrefixTable, SoundRows, NEW f \in Files, NEW caller, caller = Anon \/ caller = Text(caller.v),
           ~\E prefix \in Matching(f.path) : NumberLike(FileSchema, filePols[prefix].select),
           f.path = NoPath \/ \A q \in Filed : ~IsPrefix(q, f.path)
    PROVE  RootSql(f, caller) = T <=> ReadAllowed(f, caller)
  <1>0. f.path \in Seq(Nat)
    BY FilesAssumption
  <1>1. IsPrefix(<<>>, f.path)
    BY <1>0, EmptyPrefix
  <1>2. Matching(f.path) = IF <<>> \in DOMAIN filePols THEN {<<>>} ELSE {}
    BY <1>1 DEF Matching, Filed
  <1>3. CASE <<>> \in DOMAIN filePols
    <2>1. Matching(f.path) = {<<>>} /\ LongestMatch(f.path) = <<>>
      <3>1. Matching(f.path) = {<<>>}
        BY <1>2, <1>3
      <3> QED BY <1>0, <3>1, LongestIs
    <2>2. SoundRow(filePols[<<>>]) /\ ~NumberLike(FileSchema, filePols[<<>>].select)
      BY <1>3, <2>1 DEF SoundRows
    <2>3. DecisionSql(filePols[<<>>], f, caller) = T <=> Admits(filePols[<<>>], f, caller)
      BY <2>2, DecisionAgrees
    <2> QED BY <1>3, <2>1, <2>3 DEF RootSql, ReadAllowed
  <1>4. CASE <<>> \notin DOMAIN filePols
    <2>1. Matching(f.path) = {}
      BY <1>2, <1>4
    <2> QED BY <1>4, <2>1, OwnerAgrees DEF RootSql, ReadAllowed
  <1> QED BY <1>3, <1>4

\* The deepest prefix that matches governs every other file.
LEMMA DeepestGoverns ==
    ASSUME PrefixTable, SoundRows, NEW f \in Files, NEW caller, caller = Anon \/ caller = Text(caller.v),
           ~\E prefix \in Matching(f.path) : NumberLike(FileSchema, filePols[prefix].select),
           f.path # NoPath, NEW p \in Filed, IsPrefix(p, f.path)
    PROVE  (\E q \in Filed :
                /\ f.path # NoPath /\ IsPrefix(q, f.path)
                /\ DecisionSql(filePols[q], f, caller) = T
                /\ \A d \in Filed : IsStrictPrefix(q, d) => ~IsPrefix(d, f.path)) <=> ReadAllowed(f, caller)
  <1>0. f.path \in Seq(Nat) /\ \A q \in DOMAIN filePols : q \in Seq(Nat) /\ Len(q) \in Nat
    BY FilesAssumption DEF PrefixTable
  <1>1. \A q : q \in Matching(f.path) <=> q \in DOMAIN filePols /\ IsPrefix(q, f.path)
    BY MatchingIs
  <1>2. p \in Matching(f.path) /\ Len(p) # 0
    BY <1>0, <1>1 DEF Filed
  <1>3. PICK m : m = LongestMatch(f.path)
    OBVIOUS
  <1>4. m \in Matching(f.path) /\ \A q \in Matching(f.path) : Len(q) <= Len(m)
    BY <1>0, <1>2, <1>3, LongestIs
  <1>5. m \in Filed /\ IsPrefix(m, f.path) /\ m \in DOMAIN filePols
    <2>1. Len(m) # 0
      BY <1>0, <1>1, <1>2, <1>4
    <2> QED BY <1>1, <1>4, <2>1 DEF Filed
  <1>6. DecisionSql(filePols[m], f, caller) = T <=> Admits(filePols[m], f, caller)
    <2>1. SoundRow(filePols[m]) /\ ~NumberLike(FileSchema, filePols[m].select)
      BY <1>4, <1>5 DEF SoundRows
    <2> QED BY <2>1, DecisionAgrees
  <1>7. ReadAllowed(f, caller) <=> Admits(filePols[m], f, caller)
    BY <1>2, <1>3 DEF ReadAllowed
  <1>8. \A d \in Filed : IsStrictPrefix(m, d) => ~IsPrefix(d, f.path)
    <2> SUFFICES ASSUME NEW d \in Filed, IsStrictPrefix(m, d), IsPrefix(d, f.path) PROVE FALSE
      OBVIOUS
    <2>1. d \in DOMAIN filePols /\ d \in Matching(f.path)
      BY <1>1 DEF Filed
    <2>2. Len(m) < Len(d)
      BY <1>0, <1>5, <2>1, StrictPrefixIs
    <2> QED BY <1>0, <1>4, <1>5, <2>1, <2>2
  <1>9. ASSUME NEW q \in Filed, IsPrefix(q, f.path), \A d \in Filed : IsStrictPrefix(q, d) => ~IsPrefix(d, f.path)
        PROVE  q = m
    <2>1. q \in DOMAIN filePols /\ q \in Matching(f.path)
      BY <1>1, <1>9 DEF Filed
    <2>2. Len(q) <= Len(m) /\ ~IsStrictPrefix(q, m)
      BY <1>4, <1>5, <1>9, <2>1
    <2> QED BY <1>0, <1>5, <1>9, <2>1, <2>2, Nested
  <1> QED BY <1>5, <1>6, <1>7, <1>8, <1>9

\* The list admits what a read of the file admits.
LEMMA ListAgreesWithReads ==
    ASSUME PrefixTable, SoundRows, NEW f \in Files, NEW caller, caller = Anon \/ caller = Text(caller.v),
           ~\E prefix \in Matching(f.path) : NumberLike(FileSchema, filePols[prefix].select)
    PROVE  BuildFileListFilter(f, caller) <=> AuthorizeFile(f, caller, "read")
  <1>1. CASE f.path = NoPath \/ \A q \in Filed : ~IsPrefix(q, f.path)
    <2>1. RootSql(f, caller) = T <=> ReadAllowed(f, caller)
      BY <1>1, RootGoverns
    <2> QED BY <1>1, <2>1, ListHolds, ReadIs
  <1>2. CASE f.path # NoPath /\ \E q \in Filed : IsPrefix(q, f.path)
    <2>1. PICK p \in Filed : IsPrefix(p, f.path)
      BY <1>2
    <2>2. (\E q \in Filed :
                /\ f.path # NoPath /\ IsPrefix(q, f.path)
                /\ DecisionSql(filePols[q], f, caller) = T
                /\ \A d \in Filed : IsStrictPrefix(q, d) => ~IsPrefix(d, f.path)) <=> ReadAllowed(f, caller)
      BY <1>2, <2>1, DeepestGoverns
    <2> QED BY <1>2, <2>2, ListHolds, ReadIs
  <1> QED BY <1>1, <1>2

-----------------------------------------------------------------------------
(* The folder of a file.                                                   *)

\* A prefix that ends in a slash covers a path when it covers its folder.
LEMMA FolderIs ==
    ASSUME NEW path \in Seq(Nat), NEW q \in Seq(Nat), q = <<>> \/ q[Len(q)] = Slash
    PROVE  /\ FolderOf(path) \in Seq(Nat)
           /\ IsPrefix(q, FolderOf(path)) <=> IsPrefix(q, path)
           /\ FolderOf(path) # NoPath
  <1> DEFINE slashes == {i \in DOMAIN path : path[i] = Slash}
             last == CHOOSE i \in slashes : \A j \in slashes : j <= i
  <1>0. Len(path) \in Nat /\ DOMAIN path = 1 .. Len(path) /\ Len(q) \in Nat
    OBVIOUS
  <1>1. CASE slashes = {}
    <2>1. FolderOf(path) = <<>>
      BY <1>1 DEF FolderOf
    <2>2. q # <<>> => ~IsPrefix(q, path)
      <3> SUFFICES ASSUME q # <<>>, IsPrefix(q, path) PROVE FALSE
        OBVIOUS
      <3>1. Len(q) \in 1 .. Len(path) /\ path[Len(q)] = Slash
        BY <1>0, PrefixIs
      <3> QED BY <1>0, <1>1, <3>1
    <2>3. IsPrefix(<<>>, path) /\ IsPrefix(<<>>, <<>>) /\ (q # <<>> => ~IsPrefix(q, <<>>))
      <3>1. <<>> \in Seq(Nat)
        OBVIOUS
      <3> QED BY <3>1, EmptyPrefix
    <2> QED BY <2>1, <2>2, <2>3 DEF NoPath
  <1>2. CASE slashes # {}
    <2>1. \E i \in slashes : \A j \in slashes : j <= i
      <3>1. \A x \in slashes : x \in Nat /\ x <= Len(path)
        BY <1>0
      <3> HIDE DEF slashes
      <3> QED BY <1>0, <1>2, <3>1, GreatestExists
    <2>2. PICK m \in slashes : m = last /\ \A j \in slashes : j <= m
      BY <2>1
    <2>3. FolderOf(path) = SubSeq(path, 1, m)
      BY <1>2, <2>2 DEF FolderOf
    <2>4. m \in 1 .. Len(path) /\ path[m] = Slash
      BY <1>0
    <2>5. PICK g \in Seq(Nat) : g = FolderOf(path) /\ Len(g) = m /\ \A i \in 1 .. m : g[i] = path[i]
      <3>1. PICK h : h = SubSeq(path, 1, m)
        OBVIOUS
      <3>2. m \in Nat /\ 1 <= m /\ m <= Len(path)
        BY <1>0, <2>4
      <3> HIDE DEF slashes, last
      <3>3. h \in Seq(Nat) /\ Len(h) = m /\ \A i \in 1 .. m : h[i] = path[i]
        BY ONLY <3>1, <3>2, path \in Seq(Nat)
      <3> QED BY <2>3, <3>1, <3>3
    <2>6. IsPrefix(q, g) <=> IsPrefix(q, path)
      <3>1. ASSUME IsPrefix(q, g) PROVE IsPrefix(q, path)
        <4>1. Len(q) <= m /\ \A i \in 1 .. Len(q) : q[i] = g[i]
          BY <3>1, <2>5, PrefixIs
        <4>2. Len(q) <= Len(path) /\ \A i \in 1 .. Len(q) : q[i] = path[i]
          BY <1>0, <2>4, <2>5, <4>1
        <4> QED BY <4>2, PrefixIs
      <3>2. ASSUME IsPrefix(q, path) PROVE IsPrefix(q, g)
        <4>1. Len(q) <= Len(path) /\ \A i \in 1 .. Len(q) : q[i] = path[i]
          BY <3>2, PrefixIs
        <4>2. Len(q) <= m
          <5>1. CASE q = <<>>
            BY <5>1, <2>4, <1>0
          <5>2. CASE q # <<>>
            <6>1. Len(q) \in DOMAIN path /\ path[Len(q)] = Slash
              BY <1>0, <4>1, <5>2
            <6> QED BY <2>2, <6>1
          <5> QED BY <5>1, <5>2
        <4>3. Len(q) <= Len(g) /\ \A i \in 1 .. Len(q) : q[i] = g[i]
          BY <1>0, <2>4, <2>5, <4>1, <4>2
        <4> QED BY <4>3, PrefixIs
      <3> QED BY <3>1, <3>2
    <2>7. g # NoPath
      <3>1. m \in Nat /\ m # 0 /\ g[m] = 2
        BY <1>0, <2>4, <2>5 DEF Slash
      <3> SUFFICES ASSUME g = NoPath PROVE FALSE
        OBVIOUS
      <3>2. Len(g) = 1 /\ g[1] = 0
        BY DEF NoPath
      <3> QED BY <2>5, <3>1, <3>2
    <2> QED BY <2>5, <2>6, <2>7
  <1> QED BY <1>1, <1>2

\* The page names the prefixes that cover the files of a folder.
LEMMA FolderGoverned ==
    ASSUME PrefixTable, LoadFilePolicies, NEW f \in Files
    PROVE  GovernedBy(f) = Matching(f.path)
  <1>0. f.path \in Seq(Nat) /\ \A q \in DOMAIN filePols : q \in Seq(Nat) /\ (q = <<>> \/ q[Len(q)] = Slash)
    BY FilesAssumption DEF PrefixTable, LoadFilePolicies, ValidateFilePrefix
  <1>1. CASE f.path = NoPath
    BY <1>1 DEF GovernedBy
  <1>2. CASE f.path # NoPath
    <2>1. \A q \in DOMAIN filePols : IsPrefix(q, FolderOf(f.path)) <=> IsPrefix(q, f.path)
      BY <1>0, FolderIs
    <2>2. FolderOf(f.path) # NoPath
      <3>1. <<>> \in Seq(Nat)
        OBVIOUS
      <3> QED BY <1>0, <3>1, FolderIs
    <2>3. GovernedBy(f) = {q \in DOMAIN filePols : IsPrefix(q, FolderOf(f.path))}
      BY <1>2, <2>2 DEF GovernedBy, Matching
    <2>4. Matching(f.path) = {q \in DOMAIN filePols : IsPrefix(q, f.path)}
      BY <1>2 DEF Matching
    <2> QED BY <2>1, <2>3, <2>4
  <1> QED BY <1>1, <1>2

-----------------------------------------------------------------------------
(* The table of policies holds sound rows.                                 *)

FInv == PrefixTable /\ SoundRows

\* Rows that restrict by no clause are sound.
LEMMA NoClauseSound ==
    ASSUME NEW a, NEW b, NEW c, NEW d
    PROVE  SoundRow(FilePolicyRow(a, b, NoClause, c, d))
  BY DEF SoundRow, FilePolicyRow

\* A row that passed validate_file_policy is sound.
LEMMA AcceptedRowSound ==
    ASSUME NEW p \in FilePolicyRows, NEW prefix, ValidateFilePolicy(prefix, p)
    PROVE  SoundRow(p)
  <1>1. p = FilePolicyRow(p.ownerScoped, p.publicRead, p.select, p.delete, p.roles)
        /\ (p.select # NoClause => IsFilterAst(p.select))
    BY FilePolicyRowsAssumption
  <1>2. ASSUME p.select # NoClause
        PROVE  CompilePolicyUsing(FileSchema, p.select, Ctx(ProbeUser, NoData)) /\ CheckOperandClasses(FileSchema, p.select, FALSE)
    <2>1. ValidatePolicy(FileSchema, "select", [using |-> p.select, check |-> NoClause])
      BY <1>2 DEF ValidateFilePolicy
    <2> QED BY <1>2, <2>1 DEF ValidatePolicy
  <1> QED BY <1>1, <1>2 DEF SoundRow

\* The roles of a row say nothing about its reads.
LEMMA RolesKeepSound ==
    ASSUME NEW p, SoundRow(p), NEW roles
    PROVE  SoundRow([p EXCEPT !.roles = roles])
  <1>1. PICK a, b, s, d, r : p = FilePolicyRow(a, b, s, d, r)
    BY DEF SoundRow
  <1>2. [p EXCEPT !.roles = roles] = FilePolicyRow(a, b, s, d, roles)
    BY <1>1 DEF FilePolicyRow
  <1>3. p.select = s
    BY <1>1 DEF FilePolicyRow
  <1>4. PICK w : w = FilePolicyRow(a, b, s, d, roles)
    OBVIOUS
  <1>5. w = FilePolicyRow(w.ownerScoped, w.publicRead, w.select, w.delete, w.roles) /\ w.select = s
    BY <1>4 DEF FilePolicyRow
  <1> QED BY <1>2, <1>3, <1>4, <1>5 DEF SoundRow

\* Legacy tables hold sound rows.
LEMMA FInitSound == FInit => FInv
  <1> SUFFICES ASSUME FInit PROVE FInv
    OBVIOUS
  <1>1. PICK D \in SUBSET PrefixNames : filePols = [p \in D |-> LegacyRow]
    BY DEF FInit
  <1>2. SoundRow(LegacyRow)
    BY NoClauseSound DEF LegacyRow
  <1> QED BY <1>1, <1>2, PrefixesAssumption DEF FInv, PrefixTable, SoundRows

\* Every operation on files keeps the table sound.
LEMMA FStep == FInv /\ [FNext]_fvars => FInv'
  <1> SUFFICES ASSUME FInv, [FNext]_fvars PROVE FInv'
    OBVIOUS
  <1>1. ASSUME UNCHANGED filePols PROVE FInv'
    BY <1>1 DEF FInv, PrefixTable, SoundRows
  <1>2. ASSUME NEW prefix \in PrefixNames, NEW p \in FilePolicyRows, PutFilePolicy(prefix, p) PROVE FInv'
    <2>1. SoundRow(p) /\ prefix \in Seq(Nat)
      BY <1>2, AcceptedRowSound, PrefixesAssumption DEF PutFilePolicy
    <2>2. DOMAIN filePols' = DOMAIN filePols \cup {prefix}
          /\ \A q \in DOMAIN filePols' : filePols'[q] = p \/ (q \in DOMAIN filePols /\ filePols'[q] = filePols[q])
      BY <1>2 DEF PutFilePolicy
    <2> QED BY <2>1, <2>2 DEF FInv, PrefixTable, SoundRows
  <1>3. ASSUME NEW prefix \in PrefixNames, DeleteFilePolicy(prefix) PROVE FInv'
    <2>1. DOMAIN filePols' = DOMAIN filePols \ {prefix}
          /\ \A q \in DOMAIN filePols' : filePols'[q] = filePols[q]
      BY <1>3 DEF DeleteFilePolicy
    <2> QED BY <2>1 DEF FInv, PrefixTable, SoundRows
  <1>4. ASSUME SeedRootPolicy PROVE FInv'
    <2>a. SoundRow(RootPolicy(NoRoles))
      BY NoClauseSound DEF RootPolicy
    <2>b. <<>> \in Seq(Nat)
      OBVIOUS
    <2>1. SoundRow(RootPolicy(NoRoles)) /\ <<>> \in Seq(Nat)
      BY <2>a, <2>b
    <2>2. DOMAIN filePols' = DOMAIN filePols \cup {<<>>}
          /\ \A q \in DOMAIN filePols' : filePols'[q] = RootPolicy(NoRoles) \/ (q \in DOMAIN filePols /\ filePols'[q] = filePols[q])
      BY <1>4 DEF SeedRootPolicy
    <2> QED BY <2>1, <2>2 DEF FInv, PrefixTable, SoundRows
  <1>5. ASSUME GrantRootPublicUpload PROVE FInv'
    <2>1. PICK row : row = [filePols[<<>>] EXCEPT !.roles = {"anon", "user"}]
      OBVIOUS
    <2>2. SoundRow(row)
      BY <1>5, <2>1, RolesKeepSound DEF GrantRootPublicUpload, FInv, SoundRows
    <2>3. filePols' = [filePols EXCEPT ![<<>>] = row]
      BY <1>5, <2>1 DEF GrantRootPublicUpload
    <2>4. DOMAIN filePols' = DOMAIN filePols
          /\ \A q \in DOMAIN filePols : filePols'[q] = row \/ filePols'[q] = filePols[q]
      BY <2>3
    <2> QED BY <2>2, <2>4 DEF FInv, PrefixTable, SoundRows
  <1>6. CASE PolicyWrite
    BY <1>2, <1>3, <1>4, <1>5, <1>6
    DEF PolicyWrite, McpSetFilePolicy, SetFilePolicyTool, FilePolicySave, McpClearFilePolicy, ClearFilePolicyTool, FilePolicyClear
  <1>7. CASE FileRead
    <2>1. UNCHANGED filePols
      BY <1>7
      DEF FileRead, GetOne, StreamBytes, FunctionReadsFile, AdminStreamBytes, SignUrl, McpGetFileUrl, GetFileUrlTool, AdminSignUrl,
          McpListFiles, ListFilesTool, ListFiles, SignedBytes, AdminSignedBytes, Serve
    <2> QED BY <1>1, <2>1
  <1>8. CASE Tick
    BY <1>1, <1>8 DEF Tick
  <1>9. CASE UNCHANGED fvars
    BY <1>1, <1>9 DEF fvars
  <1> QED BY <1>6, <1>7, <1>8, <1>9 DEF FNext

\* So it is in every state.
LEMMA FInvariant == FSpec => []FInv
  <1>1. FInit => FInv
    BY FInitSound
  <1>2. FInv /\ [FNext]_fvars => FInv'
    BY FStep
  <1> QED BY <1>1, <1>2, PTL DEF FSpec

\* For every table of policies the operations reach, over any prefixes, files,
\* callers and clauses: the list of files built in SQL from ranges of paths and
\* the read of each file decided in memory admit the same files, except under a
\* policy with LIKE on a number column, and the folder a page shows is governed
\* by the prefixes of the files in it.
THEOREM FileListsAgree == FSpec => []FileListAgrees
  <1>1. ASSUME FInv PROVE FileListAgrees
    <2> SUFFICES ASSUME LoadFilePolicies, NEW f \in Files, NEW caller \in FileCallers \ {Service}
                 PROVE  /\ \/ BuildFileListFilter(f, caller) <=> FileAccessAllowed(f, caller, "read")
                           \/ \E prefix \in Matching(f.path) : NumberLike(FileSchema, filePols[prefix].select)
                        /\ GovernedBy(f) = Matching(f.path)
      BY DEF FileListAgrees
    <2>1. caller = Anon \/ caller = Text(caller.v)
      BY FileCallersAssumption
    <2>2. FileAccessAllowed(f, caller, "read") <=> AuthorizeFile(f, caller, "read")
      BY DEF FileAccessAllowed
    <2>3. ASSUME ~\E prefix \in Matching(f.path) : NumberLike(FileSchema, filePols[prefix].select)
          PROVE  BuildFileListFilter(f, caller) <=> AuthorizeFile(f, caller, "read")
      BY <1>1, <2>1, <2>3, ListAgreesWithReads DEF FInv
    <2>4. GovernedBy(f) = Matching(f.path)
      BY <1>1, FolderGoverned DEF FInv
    <2> QED BY <2>2, <2>3, <2>4
  <1> QED BY <1>1, FInvariant, PTL

-----------------------------------------------------------------------------
(* What substitute makes of a template.                                    *)

\* Parameters have arguments or none, and no node is a parameter.
Fillable(ast) == CheckAuthKeys(ast) /\ \A n \in Nodes(ast) : n.k # "param"

\* substitute gives what became of the root, or fails.
LEMMA SubstituteValue ==
    ASSUME NEW ast, NEW args, NEW auth
    PROVE  /\ Fillable(ast) => Substitute(ast, args, auth) = BecameValue(ast, args, auth)[0][ast]
           /\ ~Fillable(ast) => Substitute(ast, args, auth) = Failed
  <1>1. ASSUME Fillable(ast) PROVE Substitute(ast, args, auth) = BecameValue(ast, args, auth)[0][ast]
    BY <1>1 DEF Substitute, Fillable, BecameValue, BecameOf, BecameBase, BecameLevel
  <1>2. ASSUME ~Fillable(ast) PROVE Substitute(ast, args, auth) = Failed
    BY <1>2 DEF Substitute, Fillable
  <1> QED BY <1>1, <1>2

\* Substitution keeps a node's kind and acts on the nodes below it one by one.
LEMMA SubstitutedKids ==
    ASSUME NEW n, NEW args, NEW auth, NEW became
    PROVE  /\ Kids(SubstituteNode(n, args, auth, became)) = {became[k] : k \in Kids(n)}
           /\ SubstituteNode(n, args, auth, became).k = n.k
  <1>1. CASE n.k = "leaf"
    <2>1. SubstituteNode(n, args, auth, became).k = "leaf"
      BY <1>1 DEF SubstituteNode, Leaf
    <2> QED BY <1>1, <2>1 DEF Kids
  <1>2. CASE n.k = "fts"
    <2>1. SubstituteNode(n, args, auth, became).k = "fts"
      BY <1>2 DEF SubstituteNode, Fts
    <2> QED BY <1>2, <2>1 DEF Kids
  <1>3. CASE n.k \in {"and", "or", "not"}
    <2>1. PICK m : m = SubstituteNode(n, args, auth, became)
      OBVIOUS
    <2> DEFINE kids == [i \in DOMAIN n.kids |-> became[n.kids[i]]]
    <2>2. m.k = n.k /\ m.kids = kids
      BY <1>3, <2>1 DEF SubstituteNode
    <2>3. Kids(m) = {kids[i] : i \in DOMAIN kids}
      BY <1>3, <2>2 DEF Kids
    <2>4. {kids[i] : i \in DOMAIN kids} = {became[n.kids[i]] : i \in DOMAIN n.kids}
      OBVIOUS
    <2>5. {became[k] : k \in Kids(n)} = {became[n.kids[i]] : i \in DOMAIN n.kids}
      <3>1. Kids(n) = {n.kids[i] : i \in DOMAIN n.kids}
        BY <1>3 DEF Kids
      <3> QED BY <3>1
    <2> QED BY <2>1, <2>2, <2>3, <2>4, <2>5
  <1>4. CASE n.k \notin {"leaf", "fts", "and", "or", "not"}
    BY <1>4 DEF SubstituteNode, Kids
  <1> QED BY <1>1, <1>2, <1>3, <1>4

\* The nodes of the filled template are the template's nodes, filled.
LEMMA SubstitutedLevels ==
    ASSUME NEW ast, NEW args, NEW auth, NEW sub, sub = BecameValue(ast, args, auth)[0][ast]
    PROVE  \A d \in 0 .. MaxFilterDepth : Levels(sub)[d] = {BecameValue(ast, args, auth)[d][n] : n \in Levels(ast)[d]}
  <1>0. PICK b : b = BecameValue(ast, args, auth)
    OBVIOUS
  <1>d. MaxFilterDepth \in Nat
    BY DepthAssumption
  <1> DEFINE X == {d \in Nat : d <= MaxFilterDepth => Levels(sub)[d] = {b[d][n] : n \in Levels(ast)[d]}}
  <1>1. 0 \in X
    <2>1. Levels(sub)[0] = {sub} /\ Levels(ast)[0] = {ast}
      BY LevelFacts
    <2> QED BY <1>0, <2>1
  <1>2. ASSUME NEW d \in Nat, d \in X PROVE d + 1 \in X
    <2> SUFFICES ASSUME d + 1 <= MaxFilterDepth PROVE Levels(sub)[d + 1] = {b[d + 1][k] : k \in Levels(ast)[d + 1]}
      OBVIOUS
    <2>0. d \in 0 .. MaxFilterDepth /\ d # MaxFilterDepth /\ d + 1 \in 1 .. MaxFilterDepth /\ (d + 1) - 1 = d
      BY <1>d
    <2>1. Levels(sub)[d] = {b[d][n] : n \in Levels(ast)[d]}
      BY <1>2, <1>d, <2>0
    <2>2. Levels(sub)[d + 1] = UNION {Kids(m) : m \in Levels(sub)[d]}
      BY <2>0, LevelFacts
    <2>3. Levels(ast)[d + 1] = UNION {Kids(n) : n \in Levels(ast)[d]}
      BY <2>0, LevelFacts
    <2>4. \A n \in Levels(ast)[d] : Kids(b[d][n]) = {b[d + 1][k] : k \in Kids(n)}
      <3> TAKE n \in Levels(ast)[d]
      <3>1. b[d][n] = SubstituteNode(n, args, auth, b[d + 1])
        BY <1>0, <2>0, BecameStep
      <3> QED BY <3>1, SubstitutedKids
    <2>5. PICK below : below = b[d + 1]
      OBVIOUS
    <2>6. \A n \in Levels(ast)[d] : Kids(b[d][n]) = {below[k] : k \in Kids(n)}
      BY <2>4, <2>5
    <2>7. PICK here : here = b[d]
      OBVIOUS
    <2>8. \A n \in Levels(ast)[d] : Kids(here[n]) = {below[k] : k \in Kids(n)}
      BY <2>6, <2>7
    <2>9. UNION {Kids(m) : m \in {here[n] : n \in Levels(ast)[d]}} = {below[k] : k \in UNION {Kids(n) : n \in Levels(ast)[d]}}
      <3>1. PICK L : L = Levels(ast)[d]
        OBVIOUS
      <3>2. \A n \in L : Kids(here[n]) = {below[k] : k \in Kids(n)}
        BY <2>8, <3>1
      <3>3. UNION {Kids(m) : m \in {here[n] : n \in L}} \subseteq {below[k] : k \in UNION {Kids(n) : n \in L}}
        BY ONLY <3>2
      <3>4. {below[k] : k \in UNION {Kids(n) : n \in L}} \subseteq UNION {Kids(m) : m \in {here[n] : n \in L}}
        BY ONLY <3>2
      <3> QED BY <3>1, <3>3, <3>4
    <2>10. Levels(sub)[d] = {here[n] : n \in Levels(ast)[d]}
      BY <2>1, <2>7
    <2>11. Levels(sub)[d + 1] = {below[k] : k \in Levels(ast)[d + 1]}
      BY <2>2, <2>3, <2>9, <2>10
    <2> QED BY <2>5, <2>11
  <1>3. \A d \in Nat : d \in X
    <2> HIDE DEF X
    <2> QED BY <1>1, <1>2, AllNaturals
  <1> QED BY <1>0, <1>d, <1>3

\* Each node of the filled template is the filling of a node of the template.
LEMMA SubstitutedNodes ==
    ASSUME NEW ast, NEW args, NEW auth, NEW sub, sub = BecameValue(ast, args, auth)[0][ast]
    PROVE  /\ TooDeep(sub) <=> TooDeep(ast)
           /\ ~TooDeep(ast) => \A m \in Nodes(sub) : \E n \in Nodes(ast) : \E became : m = SubstituteNode(n, args, auth, became)
           /\ ~TooDeep(ast) => \A n \in Nodes(ast) : \E became : SubstituteNode(n, args, auth, became) \in Nodes(sub)
  <1> DEFINE b == BecameValue(ast, args, auth)
  <1>d. MaxFilterDepth \in Nat
    BY DepthAssumption
  <1>1. \A d \in 0 .. MaxFilterDepth : Levels(sub)[d] = {b[d][n] : n \in Levels(ast)[d]}
    BY SubstitutedLevels
  <1> HIDE DEF b
  <1>2. TooDeep(sub) <=> TooDeep(ast)
    <2>1. Levels(sub)[MaxFilterDepth] = {b[MaxFilterDepth][n] : n \in Levels(ast)[MaxFilterDepth]}
      BY <1>1, <1>d
    <2> QED BY <2>1 DEF TooDeep
  <1>3. ASSUME ~TooDeep(ast), NEW d \in 0 .. MaxFilterDepth, NEW n \in Levels(ast)[d]
        PROVE  b[d][n] = SubstituteNode(n, args, auth, b[d + 1])
    <2>1. d # MaxFilterDepth
      BY <1>3 DEF TooDeep
    <2> QED BY <2>1, BecameStep DEF b
  <1>4. ASSUME ~TooDeep(ast), NEW m \in Nodes(sub)
        PROVE  \E n \in Nodes(ast) : \E became : m = SubstituteNode(n, args, auth, became)
    <2>1. PICK d \in 0 .. MaxFilterDepth : m \in Levels(sub)[d]
      BY <1>4 DEF Nodes
    <2>2. PICK n \in Levels(ast)[d] : m = b[d][n]
      BY <1>1, <2>1
    <2>3. n \in Nodes(ast)
      BY LevelFacts
    <2> QED BY <1>3, <1>4, <2>2, <2>3
  <1>5. ASSUME ~TooDeep(ast), NEW n \in Nodes(ast)
        PROVE  \E became : SubstituteNode(n, args, auth, became) \in Nodes(sub)
    <2>1. PICK d \in 0 .. MaxFilterDepth : n \in Levels(ast)[d]
      BY <1>5 DEF Nodes
    <2>2. b[d][n] \in Levels(sub)[d]
      BY <1>1, <2>1
    <2>3. b[d][n] \in Nodes(sub)
      BY <2>2, LevelFacts
    <2> QED BY <1>3, <1>5, <2>1, <2>3
  <1> QED BY <1>2, <1>4, <1>5

-----------------------------------------------------------------------------
(* One dummy per parameter vouches for every argument.                     *)

\* The value a call gives a parameter.
Given(args, p) == IF p \in DOMAIN args THEN args[p] ELSE Null

\* A call gives a parameter NULL or a value of its type.
Fits(specs, args) == \A p \in DOMAIN specs : Given(args, p) = Null \/ Given(args, p).c = specs[p].ty

\* What resolve_args accepts and apply_defaults fills in fits the declared types.
LEMMA AcceptedFit ==
    ASSUME NEW specs \in ParamSpecs, NEW args \in Arguments, ResolveArgs(specs, args),
           \A p \in DOMAIN specs : specs[p].default # NoDefault => Coerces(specs[p].ty, specs[p].default)
    PROVE  Fits(specs, ApplyDefaults(specs, args))
  <1>1. PICK filled : filled = ApplyDefaults(specs, args)
    OBVIOUS
  <1>2. DOMAIN filled = DOMAIN args \cup {q \in DOMAIN specs : specs[q].default # NoDefault}
        /\ \A p \in DOMAIN filled : filled[p] = IF p \in DOMAIN args THEN args[p] ELSE specs[p].default
    BY <1>1 DEF ApplyDefaults
  <1>3. ASSUME NEW p \in DOMAIN specs PROVE Given(filled, p) = Null \/ Given(filled, p).c = specs[p].ty
    <2>1. CASE p \in DOMAIN args
      <3>1. Given(filled, p) = args[p] /\ IsJson(args[p]) /\ Coerces(specs[p].ty, args[p])
        BY <1>2, <2>1, ArgumentsAssumption DEF Given, ResolveArgs
      <3> QED BY <3>1 DEF Coerces, IsJson
    <2>2. CASE p \notin DOMAIN args /\ specs[p].default # NoDefault
      <3>1. Given(filled, p) = specs[p].default /\ IsJson(specs[p].default) /\ Coerces(specs[p].ty, specs[p].default)
        BY <1>2, <2>2, ParamSpecsAssumption DEF Given
      <3> QED BY <3>1 DEF Coerces, IsJson
    <2>3. CASE p \notin DOMAIN args /\ specs[p].default = NoDefault
      BY <1>2, <2>3 DEF Given
    <2> QED BY <2>1, <2>2, <2>3
  <1> QED BY <1>1, <1>3 DEF Fits

\* What an operand of a template becomes at a call, against what it became when
\* the template was validated: the same, or a literal that is NULL or of the
\* class of the dummy.
Alike(a, b) ==
    /\ b.r \notin {"param", "auth"}
    /\ \/ b = a
       \/ a.r = "lit" /\ b.r = "lit" /\ (b.x = Null \/ b.x.c = a.x.c)

\* A call fills an operand with NULL or with what the dummy vouched for.
LEMMA OperandFilled ==
    ASSUME NEW specs, NEW args, Fits(specs, args), NEW caller, caller = Anon \/ caller = Text(caller.v),
           NEW o, o.r = "param" \/ IsOperand(o), o.r = "param" => o.name \in DOMAIN specs
    PROVE  Alike(SubstituteOperand(o, DummyFor(specs), ProbeUser), SubstituteOperand(o, args, caller))
  <1>1. CASE o.r = "param"
    <2>1. PICK p \in DOMAIN specs : p = o.name
      BY <1>1
    <2>2. PICK x : x = Given(args, p)
      OBVIOUS
    <2>3. x = Null \/ x.c = specs[p].ty
      BY <2>2 DEF Fits
    <2>4. SubstituteOperand(o, args, caller) = Lit(x)
      BY <1>1, <2>1, <2>2 DEF SubstituteOperand, Given
    <2>5. PICK y : y = [c |-> specs[p].ty, v |-> 1]
      OBVIOUS
    <2>6. SubstituteOperand(o, DummyFor(specs), ProbeUser) = Lit(y) /\ y.c = specs[p].ty
      BY <1>1, <2>1, <2>5 DEF SubstituteOperand, DummyFor
    <2>7. Lit(x).r = "lit" /\ Lit(y).r = "lit" /\ Lit(x).x = x /\ Lit(y).x = y
      BY DEF Lit
    <2> QED BY <2>3, <2>4, <2>6, <2>7 DEF Alike
  <1>2. CASE o.r = "auth"
    <2>1. SubstituteOperand(o, args, caller) = Lit(caller) /\ SubstituteOperand(o, DummyFor(specs), ProbeUser) = Lit(ProbeUser)
      BY <1>2 DEF SubstituteOperand
    <2>2. caller = Null \/ caller.c = ProbeUser.c
      <3>1. CASE caller = Anon
        BY <3>1 DEF Anon
      <3>2. CASE caller = Text(caller.v)
        <4>1. PICK v : caller = Text(v)
          BY <3>2
        <4> QED BY <4>1 DEF Text, ProbeUser
      <3> QED BY <3>1, <3>2
    <2>3. \A x : Lit(x).r = "lit" /\ Lit(x).x = x
      BY DEF Lit
    <2> QED BY <2>1, <2>2, <2>3 DEF Alike
  <1>3. CASE o.r \notin {"param", "auth"}
    <2>1. SubstituteOperand(o, args, caller) = o /\ SubstituteOperand(o, DummyFor(specs), ProbeUser) = o
      BY <1>3 DEF SubstituteOperand
    <2> QED BY <1>3, <2>1 DEF Alike
  <1> QED BY <1>1, <1>2, <1>3

\* The class check carries over from the dummy.
LEMMA AlikeChecks ==
    ASSUME NEW S, NEW f, NEW a, NEW b, Alike(a, b), CheckOperandClass(S, f, a)
    PROVE  CheckOperandClass(S, f, b)
  <1>1. CASE b = a
    BY <1>1
  <1>2. CASE a.r = "lit" /\ b.r = "lit" /\ b.x = Null
    <2>1. OperandClass(S, b) = NoClass
      BY <1>2 DEF OperandClass, LiteralClass, Null
    <2> QED BY <2>1 DEF CheckOperandClass
  <1>3. CASE a.r = "lit" /\ b.r = "lit" /\ b.x.c = a.x.c
    <2>1. OperandClass(S, b) = OperandClass(S, a)
      BY <1>3 DEF OperandClass, LiteralClass
    <2> QED BY <2>1 DEF CheckOperandClass
  <1> QED BY <1>1, <1>2, <1>3 DEF Alike

\* A node of a template, filled by a call.
NodeClasses(n) == n.k = "leaf" /\ n.op \notin NullOps => \A i \in DOMAIN n.args : CheckOperandClass(Schema, n.f, n.args[i])
NodeBare(n) == \A o \in Operands(n) : o.r \notin {"param", "auth"}
NodeSearchesNull(n) == n.k = "fts" /\ n.args[1].x = Null

\* Filling keeps the number of operands.
LEMMA LengthKept ==
    ASSUME NEW xs, IsList(xs), NEW ys, DOMAIN ys = DOMAIN xs
    PROVE  Len(ys) = Len(xs)
  <1>1. Len(xs) \in Nat /\ DOMAIN ys = 1 .. Len(xs)
    BY ListFacts
  <1> QED BY <1>1

\* A node that was accepted with dummies is accepted with the arguments of a call, a search for NULL aside.
LEMMA NodeFilled ==
    ASSUME NEW specs, NEW args, Fits(specs, args), NEW caller, caller = Anon \/ caller = Text(caller.v),
           NEW n, NEW became, NEW became2,
           n.k \in {"and", "or", "not", "authenticated", "fts", "leaf"},
           n.k = "leaf" => IsList(n.args), n.k = "fts" => DOMAIN n.args = {1},
           \A o \in Operands(n) : (o.r = "param" \/ IsOperand(o)) /\ (o.r = "param" => o.name \in DOMAIN specs),
           FilterNode(SubstituteNode(n, DummyFor(specs), ProbeUser, became)),
           NodeClasses(SubstituteNode(n, DummyFor(specs), ProbeUser, became))
    PROVE  LET m == SubstituteNode(n, args, caller, became2) IN
           NodeBare(m) /\ NodeClasses(m) /\ (FilterNode(m) \/ NodeSearchesNull(m))
  <1>1. PICK m : m = SubstituteNode(n, args, caller, became2)
    OBVIOUS
  <1>2. PICK e : e = SubstituteNode(n, DummyFor(specs), ProbeUser, became)
    OBVIOUS
  <1>3. \A o \in Operands(n) : Alike(SubstituteOperand(o, DummyFor(specs), ProbeUser), SubstituteOperand(o, args, caller))
    BY OperandFilled
  <1>4. FilterNode(e) /\ NodeClasses(e)
    BY <1>2
  <1>5. m.k = n.k /\ e.k = n.k
    BY <1>1, <1>2, SubstitutedKids
  <1>6. CASE n.k = "leaf"
    <2>1. PICK xs : xs = [i \in DOMAIN n.args |-> SubstituteOperand(n.args[i], args, caller)]
      OBVIOUS
    <2>2. PICK ys : ys = [i \in DOMAIN n.args |-> SubstituteOperand(n.args[i], DummyFor(specs), ProbeUser)]
      OBVIOUS
    <2>3. m = Leaf(n.f, n.op, xs) /\ e = Leaf(n.f, n.op, ys)
      BY <1>1, <1>2, <1>6, <2>1, <2>2 DEF SubstituteNode
    <2>4. m.f = n.f /\ m.op = n.op /\ m.args = xs /\ e.f = n.f /\ e.op = n.op /\ e.args = ys
      BY <2>3 DEF Leaf
    <2>5. DOMAIN xs = DOMAIN n.args /\ DOMAIN ys = DOMAIN n.args /\ \A i \in DOMAIN n.args : Alike(ys[i], xs[i])
      <3>1. \A i \in DOMAIN n.args : n.args[i] \in Operands(n)
        BY <1>6 DEF Operands
      <3> QED BY <1>3, <2>1, <2>2, <3>1
    <2>6. NodeBare(m)
      BY <1>5, <1>6, <2>4, <2>5 DEF NodeBare, Operands, Alike
    <2>7. NodeClasses(m)
      BY <1>4, <1>5, <1>6, <2>4, <2>5, AlikeChecks DEF NodeClasses
    <2>8. Len(xs) = Len(n.args) /\ Len(ys) = Len(n.args)
      BY <1>6, <2>5, LengthKept
    <2>9. FilterNode(m)
      BY <1>4, <1>5, <1>6, <2>4, <2>8 DEF FilterNode
    <2> QED BY <1>1, <2>6, <2>7, <2>9
  <1>7. CASE n.k = "fts"
    <2>1. PICK x, y : x = SubstituteOperand(n.args[1], args, caller) /\ y = SubstituteOperand(n.args[1], DummyFor(specs), ProbeUser)
      OBVIOUS
    <2>2. m = Fts(n.index, x) /\ e = Fts(n.index, y)
      BY <1>1, <1>2, <1>7, <2>1 DEF SubstituteNode
    <2>3. m.index = n.index /\ e.index = n.index /\ m.args = <<x>> /\ e.args = <<y>>
      BY <2>2 DEF Fts
    <2>4. m.args[1] = x /\ e.args[1] = y /\ DOMAIN m.args = {1}
      BY <2>3
    <2>5. Alike(y, x)
      BY <1>3, <1>7, <2>1 DEF Operands
    <2>6. NodeBare(m)
      BY <1>5, <1>7, <2>4, <2>5 DEF NodeBare, Operands, Alike
    <2>7. NodeClasses(m)
      BY <1>5, <1>7 DEF NodeClasses
    <2>8. n.index \in FtsIndexes /\ y.r = "lit" /\ y.x.c = "text"
      BY <1>4, <1>5, <1>7, <2>3, <2>4 DEF FilterNode, ResolveFts
    <2>9. FilterNode(m) \/ NodeSearchesNull(m)
      BY <1>5, <1>7, <2>3, <2>4, <2>5, <2>8 DEF FilterNode, ResolveFts, NodeSearchesNull, Alike
    <2> QED BY <1>1, <2>6, <2>7, <2>9
  <1>8. CASE n.k \notin {"leaf", "fts"}
    <2>1. NodeBare(m) /\ NodeClasses(m)
      BY <1>5, <1>8 DEF NodeBare, NodeClasses, Operands
    <2>2. FilterNode(m)
      BY <1>4, <1>5, <1>8 DEF FilterNode
    <2> QED BY <1>1, <2>1, <2>2
  <1> QED BY <1>6, <1>7, <1>8

\* Every parameter a template mentions is in the references.
LEMMA ReferencesHold ==
    ASSUME NEW ast, NEW n \in Nodes(ast), NEW o \in Operands(n), o.r = "param"
    PROVE  o.name \in References(ast)
  <1>1. n.k \in {"leaf", "fts"}
    BY DEF Operands
  <1> DEFINE here(m) == IF m.k = "param" THEN {m.name} ELSE {x.name : x \in {y \in Operands(m) : y.r = "param"}}
  <1>2. o.name \in here(n)
    BY <1>1
  <1>3. References(ast) = UNION {here(m) : m \in Nodes(ast)}
    BY DEF References
  <1> HIDE DEF here
  <1> QED BY <1>2, <1>3

\* A template that passed validate_template, filled by any call.
LEMMA TemplateFilled ==
    ASSUME NEW tpl \in Templates, NEW specs \in ParamSpecs, ValidateTemplate(tpl, specs), NEW args, Fits(specs, args),
           NEW caller, caller = Anon \/ caller = Text(caller.v), NEW filter, filter = Substitute(tpl.filter, args, caller)
    PROVE  /\ filter # Failed
           /\ \A m \in Nodes(filter) : NodeBare(m) /\ NodeClasses(m) /\ (FilterNode(m) \/ NodeSearchesNull(m))
           /\ ~TooDeep(filter)
  <1>1. PICK ast : ast = tpl.filter
    OBVIOUS
  <1>2. PICK probe : probe = Substitute(ast, DummyFor(specs), ProbeUser)
    OBVIOUS
  <1>3. References(ast) = DOMAIN specs /\ probe # Failed /\ CheckOperandClasses(Schema, probe, TRUE)
        /\ (probe # NoClause => FilterCompiles(probe))
    BY <1>1, <1>2 DEF ValidateTemplate, BuildStructuredListSql
  <1>4. Fillable(ast)
    BY <1>2, <1>3, SubstituteValue
  <1>5. probe = BecameValue(ast, DummyFor(specs), ProbeUser)[0][ast] /\ filter = BecameValue(ast, args, caller)[0][ast]
    BY <1>1, <1>2, <1>4, SubstituteValue
  <1>6. ast \in Nodes(ast) /\ ast \in Levels(ast)[0] /\ 0 \in 0 .. MaxFilterDepth /\ 0 # MaxFilterDepth
    BY LevelFacts, DepthAssumption
  <1>7. \A n \in Nodes(ast) :
           /\ n.k \in {"and", "or", "not", "authenticated", "fts", "leaf"}
           /\ n.k = "leaf" => IsList(n.args)
           /\ n.k = "fts" => DOMAIN n.args = {1}
           /\ \A o \in Operands(n) : (o.r = "param" \/ IsOperand(o)) /\ (o.r = "param" => o.name \in DOMAIN specs)
    <2>1. IsTemplate(ast)
      BY <1>1, TemplatesAssumption
    <2>2. \A n \in Nodes(ast) : n.k # "param"
      BY <1>4 DEF Fillable
    <2>3. \A n \in Nodes(ast) : \A o \in Operands(n) : o.r = "param" => o.name \in DOMAIN specs
      BY <1>3, ReferencesHold
    <2> QED BY <2>1, <2>2, <2>3 DEF IsTemplate
  <1>8. probe.k = ast.k /\ filter.k = ast.k
    <2>1. BecameValue(ast, DummyFor(specs), ProbeUser)[0][ast]
              = SubstituteNode(ast, DummyFor(specs), ProbeUser, BecameValue(ast, DummyFor(specs), ProbeUser)[0 + 1])
      BY <1>6, BecameStep
    <2>2. BecameValue(ast, args, caller)[0][ast] = SubstituteNode(ast, args, caller, BecameValue(ast, args, caller)[0 + 1])
      BY <1>6, BecameStep
    <2> QED BY <1>5, <2>1, <2>2, SubstitutedKids
  <1>9. filter # Failed /\ probe # NoClause
    <2>1. Failed.k = "failed" /\ NoClause.k = "no clause"
      BY DEF Failed, NoClause
    <2> QED BY <1>6, <1>7, <1>8, <2>1
  <1>10. ~TooDeep(probe) /\ \A e \in Nodes(probe) : FilterNode(e) /\ NodeClasses(e)
    <2>1. FilterCompiles(probe)
      BY <1>3, <1>9
    <2> QED BY <1>3, <2>1 DEF FilterCompiles, CheckOperandClasses, NodeClasses
  <1>11. ~TooDeep(ast) /\ \A n \in Nodes(ast) : \E became : SubstituteNode(n, DummyFor(specs), ProbeUser, became) \in Nodes(probe)
    BY <1>5, <1>10, SubstitutedNodes
  <1>12. ~TooDeep(filter) /\ \A m \in Nodes(filter) : \E n \in Nodes(ast) : \E became : m = SubstituteNode(n, args, caller, became)
    BY <1>5, <1>11, SubstitutedNodes
  <1>13. ASSUME NEW m \in Nodes(filter) PROVE NodeBare(m) /\ NodeClasses(m) /\ (FilterNode(m) \/ NodeSearchesNull(m))
    <2>1. PICK n \in Nodes(ast) : \E became : m = SubstituteNode(n, args, caller, became)
      BY <1>12
    <2>2. PICK became2 : m = SubstituteNode(n, args, caller, became2)
      BY <2>1
    <2>3. PICK became : SubstituteNode(n, DummyFor(specs), ProbeUser, became) \in Nodes(probe)
      BY <1>11
    <2>4. FilterNode(SubstituteNode(n, DummyFor(specs), ProbeUser, became))
          /\ NodeClasses(SubstituteNode(n, DummyFor(specs), ProbeUser, became))
      BY <1>10, <2>3
    <2> QED BY <1>7, <2>2, <2>4, NodeFilled
  <1> QED BY <1>9, <1>12, <1>13

\* A template that validate_template accepted with one dummy per parameter runs
\* with every argument resolve_args accepts, for every caller: nothing is left to
\* substitute, the list builds and compares like with like, unless it searches for
\* NULL.
THEOREM TemplatesAreSound == QSpec => []TemplateSound
  <1>1. QInv => TemplateSound
    <2> SUFFICES ASSUME StoredQuery(query), query # NoClause, NEW args \in Arguments, NEW caller \in Callers \ {Service},
                        ResolveArgs(query.specs, args), NEW filter, filter = Filled(args, caller)
                 PROVE  /\ filter # Failed
                        /\ \A n \in Nodes(filter) : \A o \in Operands(n) : o.r \notin {"param", "auth"}
                        /\ NullSearch(filter) \/ Runs(filter)
      BY DEF QInv, TemplateSound
    <2>1. query.tpl \in Templates /\ query.specs \in ParamSpecs /\ ValidateTemplate(query.tpl, query.specs)
      BY DEF StoredQuery
    <2>2. caller = Anon \/ caller = Text(caller.v)
      BY CallerClass
    <2>3. \A p \in DOMAIN query.specs : query.specs[p].default # NoDefault => Coerces(query.specs[p].ty, query.specs[p].default)
      BY <2>1 DEF ValidateTemplate
    <2>4. Fits(query.specs, ApplyDefaults(query.specs, args))
      BY <2>1, <2>3, AcceptedFit
    <2>5. filter = Substitute(query.tpl.filter, ApplyDefaults(query.specs, args), caller)
      BY DEF Filled
    <2>6. /\ filter # Failed
          /\ \A m \in Nodes(filter) : NodeBare(m) /\ NodeClasses(m) /\ (FilterNode(m) \/ NodeSearchesNull(m))
          /\ ~TooDeep(filter)
      BY <2>1, <2>2, <2>4, <2>5, TemplateFilled
    <2>7. ASSUME ~NullSearch(filter) PROVE Runs(filter)
      <3>1. FilterCompiles(filter)
        BY <2>6, <2>7 DEF FilterCompiles, NullSearch, NodeSearchesNull
      <3>2. CheckOperandClasses(Schema, filter, TRUE)
        BY <2>6 DEF CheckOperandClasses, NodeClasses
      <3>3. PICK req : req = [filter |-> filter, select |-> query.tpl.select, sort |-> query.tpl.sort, page |-> 1, perPage |-> 1]
        OBVIOUS
      <3>4. req.filter = filter /\ req.select = query.tpl.select /\ req.sort = query.tpl.sort /\ req.page = 1 /\ req.perPage = 1
        BY <3>3
      <3>5. (\A f \in query.tpl.select : FieldExists(f)) /\ Sortable(query.tpl.sort) /\ 1 \in 1 .. MaxPerPage /\ 1 >= 1
        BY <2>1 DEF ValidateTemplate, BuildStructuredListSql, PageRange
      <3>6. BuildStructuredListSql(req)
        BY <3>1, <3>4, <3>5 DEF BuildStructuredListSql, PageRange
      <3> QED BY <3>2, <3>3, <3>6 DEF Runs
    <2> QED BY <2>6, <2>7 DEF NodeBare
  <1> QED BY <1>1, QInvariant, PTL
=============================================================================
