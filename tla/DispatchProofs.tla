--------------------------- MODULE DispatchProofs ---------------------------
(***************************************************************************)
(* Theorems about WebhookDispatcher and FunctionExecutor, which share no   *)
(* state.                                                                  *)
(*                                                                         *)
(* Webhooks: that no attempt is cleared for a revoked origin follows from  *)
(* Cleared below, which every fan-out and every first attempt carries: the *)
(* version it read is not newer than the tenant's, and as long as it is    *)
(* the tenant's, the allowlist is the one its origins were compared with.  *)
(***************************************************************************)
EXTENDS FunctionExecutor, WebhookDispatcher, FiniteSetTheorems, TLAPS

----------------------------------------------------------------------------
(* Shapes of the rows of WebhookDispatcher. *)

SubPairs == HookIds \X Origins
VersionRows == [pc : {"version"}, tenant : WTenants, subs : SUBSET SubPairs]
ListRows == [pc : {"list"}, tenant : WTenants, subs : SUBSET SubPairs, ver : Nat]
SpawnRows == [pc : {"spawn"}, tenant : WTenants, ver : Nat, subs : SUBSET SubPairs, denied : SUBSET HookIds]
FanRows == {FanIdle} \cup VersionRows \cup ListRows \cup SpawnRows
Permissions == {{}, {"tenant"}, {"tenant", "global"}}
DelivRows == [pc : {"wait", "resolve", "check", "post", "fail"}, has : Permissions, tenant : WTenants,
              hook : HookIds, url : Origins, ver : Nat, try : Nat]

WShape ==
    /\ hook \in [HookIds -> HookRows \cup {NoHook, Unset}]
    /\ wver \in [WTenants -> Nat] /\ DOMAIN allow = WTenants
    /\ fan \in [Fans -> FanRows] /\ deliv \in [Deliveries -> DelivRows \cup {DIdle}]
    /\ reg = FanIdle \/ (reg.pc = "insert" /\ reg.tenant \in WTenants /\ reg.url \in Origins)

(* What was compared with the allowlist at version ver still holds. *)
Cleared(t, ver, o) ==
    /\ ver <= wver[t]
    /\ ver = wver[t] /\ t \notin unbumped => CheckEgress(LiveAllow(t), "webhook", o)
FanTrue(r) ==
    /\ r.pc = "list" => r.ver <= wver[r.tenant]
    /\ r.pc = "spawn" => \A s \in r.subs : Cleared(r.tenant, r.ver, s[2])
DelivTrue(r) == r # DIdle /\ r.try = 0 => Cleared(r.tenant, r.ver, r.url)

WInv ==
    /\ WShape /\ ~badpost
    /\ \A x \in Fans : FanTrue(fan[x])
    /\ \A d \in Deliveries : DelivTrue(deliv[d])

LEMMA WInitial == WInit => WInv
  <1> SUFFICES ASSUME WInit PROVE WInv
    OBVIOUS
  <1>1. WShape
    BY DEF WInit, WShape, FanRows
  <1>2. \A x \in Fans : FanTrue(fan[x])
    BY DEF WInit, FanTrue, FanIdle
  <1>3. \A d \in Deliveries : DelivTrue(deliv[d])
    BY DEF WInit, DelivTrue
  <1> QED  BY <1>1, <1>2, <1>3 DEF WInv, WInit

(* A row at a point has the fields of that point. *)
LEMMA FanFields ==
    ASSUME NEW r \in FanRows
    PROVE  /\ r.pc = "version" => r \in VersionRows /\ r.tenant \in WTenants /\ r.subs \in SUBSET SubPairs
           /\ r.pc = "list" => /\ r \in ListRows /\ r.tenant \in WTenants /\ r.ver \in Nat
                               /\ r.subs \in SUBSET SubPairs
           /\ r.pc = "spawn" => /\ r \in SpawnRows /\ r.tenant \in WTenants /\ r.ver \in Nat
                                /\ r.subs \in SUBSET SubPairs /\ r.denied \in SUBSET HookIds
  <1>1. CASE r = FanIdle
    BY <1>1 DEF FanIdle
  <1>2. CASE r \in VersionRows
    BY <1>2 DEF VersionRows
  <1>3. CASE r \in ListRows
    BY <1>3 DEF ListRows
  <1>4. CASE r \in SpawnRows
    BY <1>4 DEF SpawnRows
  <1> QED  BY <1>1, <1>2, <1>3, <1>4 DEF FanRows

LEMMA DelivFields ==
    ASSUME NEW r \in DelivRows
    PROVE  /\ r.tenant \in WTenants /\ r.url \in Origins /\ r.ver \in Nat /\ r.try \in Nat
           /\ r.has \in Permissions /\ r.hook \in HookIds /\ r # DIdle
  BY DEF DelivRows, DIdle

----------------------------------------------------------------------------
(* A change of an allowlist, a soft delete, and the version that counts    *)
(* them: what was cleared at an older version needs to be compared again.  *)
AllowMoves(t) ==
    (\E list : SetAllowlist(t, list)) \/ WSoftDelete(t) \/ BumpVersion(t)

LEMMA ClearedStays ==
    ASSUME WShape, NEW t \in WTenants, AllowMoves(t),
           NEW s \in WTenants, NEW v \in Nat, NEW o, Cleared(s, v, o)
    PROVE  Cleared(s, v, o)'
  <1>1. wver[s] \in Nat /\ wver[t] \in Nat
    BY DEF WShape
  <1>2. ASSUME NEW list, SetAllowlist(t, list) PROVE Cleared(s, v, o)'
    BY <1>1, <1>2 DEF SetAllowlist, Cleared, LiveAllow, WShape
  <1>3. ASSUME WSoftDelete(t) PROVE Cleared(s, v, o)'
    BY <1>1, <1>3 DEF WSoftDelete, Cleared, LiveAllow, WShape
  <1>4. ASSUME BumpVersion(t) PROVE Cleared(s, v, o)'
    <2>1. CASE s = t
      BY <1>1, <1>4, <2>1 DEF BumpVersion, Cleared, WShape
    <2>2. CASE s # t
      BY <1>1, <1>4, <2>2 DEF BumpVersion, Cleared, LiveAllow, WShape
    <2> QED  BY <2>1, <2>2
  <1> QED  BY <1>2, <1>3, <1>4 DEF AllowMoves

LEMMA AllowMovesKeep == ASSUME WInv, NEW t \in WTenants, AllowMoves(t) PROVE WInv'
  <1>1. UNCHANGED <<hook, reg, fan, deliv, badpost>>
    BY DEF AllowMoves, SetAllowlist, WSoftDelete, BumpVersion
  <1>2. wver' \in [WTenants -> Nat] /\ DOMAIN allow' = WTenants
    BY DEF WInv, WShape, AllowMoves, SetAllowlist, WSoftDelete, BumpVersion
  <1>3. WShape'
    BY <1>1, <1>2 DEF WInv, WShape
  <1>4. \A s \in WTenants : wver[s] \in Nat /\ wver'[s] \in Nat /\ wver[s] <= wver'[s]
    BY DEF WInv, WShape, AllowMoves, SetAllowlist, WSoftDelete, BumpVersion
  <1>5. ASSUME NEW x \in Fans PROVE FanTrue(fan[x])'
    <2>1. fan[x] \in FanRows /\ FanTrue(fan[x]) /\ fan'[x] = fan[x]
      BY <1>1 DEF WInv, WShape
    <2>2. fan[x].pc = "list" => fan[x].ver <= wver'[fan[x].tenant]
      BY <1>4, <2>1, FanFields DEF FanTrue
    <2>3. ASSUME fan[x].pc = "spawn", NEW s \in fan[x].subs
          PROVE  fan[x].tenant \in WTenants /\ fan[x].ver \in Nat /\ Cleared(fan[x].tenant, fan[x].ver, s[2])
      BY <2>1, <2>3, FanFields DEF FanTrue
    <2>4. ASSUME fan[x].pc = "spawn", NEW s \in fan[x].subs, NEW u \in WTenants, u = fan[x].tenant,
                 NEW v \in Nat, v = fan[x].ver, NEW o, o = s[2]
          PROVE  Cleared(u, v, o)'
      BY <2>3, <2>4, ClearedStays DEF WInv
    <2>5. fan[x].pc = "spawn" => \A s \in fan[x].subs : Cleared(fan[x].tenant, fan[x].ver, s[2])'
      BY <2>1, <2>3, <2>4
    <2> QED  BY <2>1, <2>2, <2>5 DEF FanTrue
  <1>6. ASSUME NEW d \in Deliveries PROVE DelivTrue(deliv[d])'
    <2>1. /\ deliv[d] \in DelivRows \cup {DIdle} /\ DelivTrue(deliv[d]) /\ deliv'[d] = deliv[d]
      BY <1>1 DEF WInv, WShape
    <2>2. ASSUME deliv[d] # DIdle, deliv[d].try = 0, NEW u \in WTenants, u = deliv[d].tenant,
                 NEW v \in Nat, v = deliv[d].ver, NEW o, o = deliv[d].url
          PROVE  Cleared(u, v, o)'
      BY <2>1, <2>2, ClearedStays DEF WInv, DelivTrue
    <2>3. deliv[d] # DIdle => deliv[d].tenant \in WTenants /\ deliv[d].ver \in Nat
      BY <2>1, DelivFields
    <2> QED  BY <2>1, <2>2, <2>3 DEF DelivTrue
  <1> QED  BY <1>1, <1>3, <1>5, <1>6 DEF WInv

(* Every other step leaves the allowlists and their versions alone. *)
LEMMA ListsRest ==
    ASSUME WInv, UNCHANGED <<allow, wver, wlive, unbumped>>, ~badpost',
           hook' \in [HookIds -> HookRows \cup {NoHook, Unset}],
           reg' = FanIdle \/ (reg'.pc = "insert" /\ reg'.tenant \in WTenants /\ reg'.url \in Origins),
           fan' \in [Fans -> FanRows], deliv' \in [Deliveries -> DelivRows \cup {DIdle}],
           \A x \in Fans : fan'[x] # fan[x] => FanTrue(fan'[x]),
           \A d \in Deliveries : deliv'[d] # deliv[d] => DelivTrue(deliv'[d])
    PROVE  WInv'
  <1>1. WShape'
    BY DEF WInv, WShape
  <1>2. ASSUME NEW x \in Fans PROVE FanTrue(fan[x])'
    <2>1. FanTrue(fan'[x])
      BY DEF WInv
    <2> QED  BY <2>1 DEF FanTrue, Cleared, LiveAllow
  <1>3. ASSUME NEW d \in Deliveries PROVE DelivTrue(deliv[d])'
    <2>1. DelivTrue(deliv'[d])
      BY DEF WInv
    <2> QED  BY <2>1 DEF DelivTrue, Cleared, LiveAllow
  <1> QED  BY <1>1, <1>2, <1>3 DEF WInv

(* Subscriptions. *)
LEMMA HookChanges ==
    ASSUME WShape, NEW h \in HookIds, hook[h] \notin {NoHook, Unset}
    PROVE  /\ \A on \in BOOLEAN : [hook[h] EXCEPT !.active = on] \in HookRows
           /\ \A on \in BOOLEAN : [hook[h] EXCEPT !.failed = on] \in HookRows
           /\ \A o \in Origins : [hook[h] EXCEPT !.url = o] \in HookRows
           /\ hook[h].tenant \in WTenants /\ hook[h].url \in Origins
  <1>1. hook[h] \in HookRows
    BY DEF WShape
  <1> QED  BY <1>1 DEF HookRows

LEMMA HooksMove ==
    ASSUME WInv, UNCHANGED <<allow, wver, wlive, unbumped, fan, deliv, badpost>>,
           hook' \in [HookIds -> HookRows \cup {NoHook, Unset}],
           reg' = FanIdle \/ (reg'.pc = "insert" /\ reg'.tenant \in WTenants /\ reg'.url \in Origins)
    PROVE  WInv'
  <1>1. fan' \in [Fans -> FanRows] /\ deliv' \in [Deliveries -> DelivRows \cup {DIdle}] /\ ~badpost'
    BY DEF WInv, WShape
  <1> QED  BY <1>1, ListsRest

LEMMA FailuresTyped ==
    ASSUME WShape, NEW hs, RecordFailure(hs)
    PROVE  hook' \in [HookIds -> HookRows \cup {NoHook, Unset}]
  <1>1. ASSUME NEW h \in HookIds PROVE hook'[h] \in HookRows \cup {NoHook, Unset}
    <2>1. CASE h \in hs /\ hook[h] \notin {NoHook, Unset}
      <3>1. hook'[h] = [hook[h] EXCEPT !.failed = TRUE]
        BY <2>1 DEF RecordFailure
      <3> QED  BY <2>1, <3>1, HookChanges
    <2>2. CASE ~(h \in hs /\ hook[h] \notin {NoHook, Unset})
      BY <2>2 DEF RecordFailure, WShape
    <2> QED  BY <2>1, <2>2
  <1> QED  BY <1>1 DEF RecordFailure

(* One row of the table is replaced. *)
LEMMA HookRowMoves ==
    ASSUME WInv, UNCHANGED <<allow, wver, wlive, unbumped, reg, fan, deliv, badpost>>,
           NEW h \in HookIds, NEW row \in HookRows \cup {NoHook, Unset}, hook' = [hook EXCEPT ![h] = row]
    PROVE  WInv'
  <1>1. /\ hook' \in [HookIds -> HookRows \cup {NoHook, Unset}]
        /\ reg' = FanIdle \/ (reg'.pc = "insert" /\ reg'.tenant \in WTenants /\ reg'.url \in Origins)
    BY DEF WInv, WShape
  <1> QED  BY <1>1, HooksMove

LEMMA SubscriptionsMove ==
    ASSUME WInv,
           \/ \E t \in WTenants, o \in Origins : Register(t, o)
           \/ InsertHook
           \/ \E h \in HookIds : \/ DeleteHook(h) \/ PatchHook(h, TRUE) \/ PatchHook(h, FALSE)
                                 \/ \E o \in Origins : UpdateWebhook(h, o)
    PROVE  WInv'
  <1>1. ASSUME NEW t \in WTenants, NEW o \in Origins, Register(t, o) PROVE WInv'
    <2> DEFINE r == [pc |-> "insert", tenant |-> t, url |-> o]
    <2>1. r.pc = "insert" /\ r.tenant \in WTenants /\ r.url \in Origins
      OBVIOUS
    <2>2. reg' = r /\ UNCHANGED <<hook, allow, wver, wlive, unbumped, fan, deliv, badpost>>
      BY <1>1 DEF Register
    <2>3. hook' \in [HookIds -> HookRows \cup {NoHook, Unset}]
      BY <2>2 DEF WInv, WShape
    <2> HIDE DEF r
    <2> QED  BY <2>1, <2>2, <2>3, HooksMove
  <1>2. ASSUME InsertHook PROVE WInv'
    <2>1. /\ reg.pc = "insert" /\ reg' = FanIdle
          /\ UNCHANGED <<allow, wver, wlive, unbumped, fan, deliv, badpost>>
      BY <1>2 DEF InsertHook
    <2>2. reg.tenant \in WTenants /\ reg.url \in Origins
      BY <2>1 DEF WInv, WShape, FanIdle
    <2>3. [tenant |-> reg.tenant, url |-> reg.url, active |-> TRUE, failed |-> FALSE] \in HookRows
      BY <2>2 DEF HookRows
    <2>4. hook' \in [HookIds -> HookRows \cup {NoHook, Unset}]
      BY <1>2, <2>3 DEF InsertHook, WInv, WShape
    <2> QED  BY <2>1, <2>4, HooksMove
  <1>3. ASSUME NEW h \in HookIds, DeleteHook(h) PROVE WInv'
    BY <1>3, HookRowMoves DEF DeleteHook
  <1>4. ASSUME NEW h \in HookIds, NEW on \in BOOLEAN, PatchHook(h, on) PROVE WInv'
    <2> DEFINE row == [hook[h] EXCEPT !.active = on]
    <2>1. row \in HookRows
      BY <1>4, HookChanges DEF PatchHook, WInv
    <2>2. /\ hook' = [hook EXCEPT ![h] = row]
          /\ UNCHANGED <<allow, wver, wlive, unbumped, reg, fan, deliv, badpost>>
      BY <1>4 DEF PatchHook
    <2> HIDE DEF row
    <2> QED  BY <2>1, <2>2, HookRowMoves
  <1>5. ASSUME NEW h \in HookIds, NEW o \in Origins, UpdateWebhook(h, o) PROVE WInv'
    <2> DEFINE row == [hook[h] EXCEPT !.url = o]
    <2>1. row \in HookRows
      BY <1>5, HookChanges DEF UpdateWebhook, WInv
    <2>2. /\ hook' = [hook EXCEPT ![h] = row]
          /\ UNCHANGED <<allow, wver, wlive, unbumped, reg, fan, deliv, badpost>>
      BY <1>5 DEF UpdateWebhook
    <2> HIDE DEF row
    <2> QED  BY <2>1, <2>2, HookRowMoves
  <1> QED  BY <1>1, <1>2, <1>3, <1>4, <1>5

----------------------------------------------------------------------------
(* Fan-outs. *)
LEMMA FanMoves ==
    ASSUME WInv, NEW x \in Fans, NEW r \in FanRows, FanTrue(r), FanGoto(x, r),
           UNCHANGED <<wcfg, deliv, badpost>>
    PROVE  WInv'
  <1>1. /\ UNCHANGED <<hook, reg, allow, wver, wlive, unbumped>>
        /\ fan' = [fan EXCEPT ![x] = r]
    BY DEF wcfg, FanGoto
  <1>2. /\ fan' \in [Fans -> FanRows] /\ deliv' \in [Deliveries -> DelivRows \cup {DIdle}] /\ ~badpost'
        /\ hook' \in [HookIds -> HookRows \cup {NoHook, Unset}]
        /\ reg' = FanIdle \/ (reg'.pc = "insert" /\ reg'.tenant \in WTenants /\ reg'.url \in Origins)
    BY <1>1 DEF WInv, WShape
  <1>3. \A y \in Fans : fan'[y] # fan[y] => FanTrue(fan'[y])
    BY <1>1 DEF WInv, WShape
  <1> QED  BY <1>1, <1>2, <1>3, ListsRest

LEMMA FanStarts == ASSUME WInv, NEW x \in Fans, NEW t \in WTenants, DispatchMany(x, t) PROVE WInv'
  <1> DEFINE subs == {<<h, hook[h].url>> : h \in {g \in Hooks(t) : hook[g].active}}
             r == [pc |-> "version", tenant |-> t, subs |-> subs]
  <1>1. subs \in SUBSET SubPairs
    <2>1. \A h \in Hooks(t) : h \in HookIds /\ hook[h].url \in Origins
      BY HookChanges DEF Hooks, WInv
    <2> QED  BY <2>1 DEF SubPairs
  <1> HIDE DEF subs
  <1>2. r \in VersionRows /\ r.pc = "version"
    BY <1>1 DEF VersionRows
  <1>3. FanGoto(x, r) /\ UNCHANGED <<wcfg, deliv, badpost>>
    BY DEF DispatchMany, subs
  <1> HIDE DEF r
  <1>4. FanTrue(r) /\ r \in FanRows
    BY <1>2 DEF FanTrue, FanRows
  <1> QED  BY <1>3, <1>4, FanMoves

LEMMA FanReadsVersion == ASSUME WInv, NEW x \in Fans, FanVersion(x) PROVE WInv'
  <1> DEFINE t == fan[x].tenant
             r == [pc |-> "list", tenant |-> t, subs |-> fan[x].subs, ver |-> wver[t]]
  <1>1. fan[x] \in FanRows /\ fan[x].pc = "version"
    BY DEF WInv, WShape, FanVersion
  <1>2. t \in WTenants /\ fan[x].subs \in SUBSET SubPairs /\ wver[t] \in Nat
    BY <1>1, FanFields DEF WInv, WShape
  <1>3. FanGoto(x, r) /\ UNCHANGED <<wcfg, deliv, badpost>>
    BY DEF FanVersion
  <1> HIDE DEF t
  <1>4. r \in ListRows /\ r.pc = "list" /\ r.ver = wver[t] /\ r.tenant = t
    BY <1>2 DEF ListRows
  <1> HIDE DEF r
  <1>5. FanTrue(r) /\ r \in FanRows
    BY <1>2, <1>4 DEF FanTrue, FanRows
  <1> QED  BY <1>3, <1>5, FanMoves

(* The list is read after the version: a change between the two is counted *)
(* later than the version that the fan-out carries.                        *)
LEMMA FanReadsList == ASSUME WInv, NEW x \in Fans, FanList(x) PROVE WInv'
  <1> DEFINE t == fan[x].tenant
             v == fan[x].ver
  <1>1. PICK list \in {LiveAllow(t), {}} :
            LET ok == {s \in fan[x].subs : CheckEgress(list, "webhook", s[2])} IN
            FanGoto(x, [pc |-> "spawn", tenant |-> t, ver |-> v, subs |-> ok,
                        denied |-> {s[1] : s \in fan[x].subs \ ok}])
    BY DEF FanList
  <1> DEFINE ok == {s \in fan[x].subs : CheckEgress(list, "webhook", s[2])}
             denied == {s[1] : s \in fan[x].subs \ ok}
             r == [pc |-> "spawn", tenant |-> t, ver |-> v, subs |-> ok, denied |-> denied]
  <1>2. fan[x] \in FanRows /\ fan[x].pc = "list" /\ FanTrue(fan[x])
    BY DEF WInv, WShape, FanList
  <1>3. t \in WTenants /\ v \in Nat /\ v <= wver[t] /\ fan[x].subs \in SUBSET SubPairs
    BY <1>2, FanFields DEF FanTrue
  <1>4. ok \in SUBSET SubPairs /\ denied \in SUBSET HookIds
    BY <1>3 DEF SubPairs
  <1>5. \A s \in ok : Cleared(t, v, s[2])
    BY <1>3 DEF Cleared, CheckEgress
  <1>6. FanGoto(x, r) /\ UNCHANGED <<wcfg, deliv, badpost>>
    BY <1>1 DEF FanList
  <1> HIDE DEF t, v, ok, denied
  <1>7. r \in SpawnRows /\ r.pc = "spawn" /\ r.subs = ok /\ r.tenant = t /\ r.ver = v
    BY <1>3, <1>4 DEF SpawnRows
  <1> HIDE DEF r
  <1>8. FanTrue(r) /\ r \in FanRows
    BY <1>5, <1>7 DEF FanTrue, FanRows
  <1> QED  BY <1>6, <1>8, FanMoves

NewDelivery(t, h, o, v) ==
    [pc |-> "wait", has |-> {}, tenant |-> t, hook |-> h, url |-> o, ver |-> v, try |-> 0]
LEMMA NewDeliveryFields ==
    ASSUME NEW t \in WTenants, NEW h \in HookIds, NEW o \in Origins, NEW v \in Nat
    PROVE  /\ NewDelivery(t, h, o, v) \in DelivRows /\ NewDelivery(t, h, o, v).tenant = t
           /\ NewDelivery(t, h, o, v).url = o /\ NewDelivery(t, h, o, v).ver = v
           /\ NewDelivery(t, h, o, v).has = {}
  BY DEF NewDelivery, DelivRows, Permissions

LEMMA FanSpawns == ASSUME WInv, NEW x \in Fans, FanSpawn(x) PROVE WInv'
  <1> DEFINE t == fan[x].tenant
             v == fan[x].ver
             d == CHOOSE y \in Deliveries : deliv[y] = DIdle
  <1>1. PICK s \in fan[x].subs :
            /\ deliv' = [deliv EXCEPT ![d] = NewDelivery(t, s[1], s[2], v)]
            /\ fan' = [fan EXCEPT ![x] = [fan[x] EXCEPT !.subs = @ \ {s}]]
    BY DEF FanSpawn, FanGoto, NewDelivery
  <1> DEFINE r == [fan[x] EXCEPT !.subs = fan[x].subs \ {s}]
             n == NewDelivery(t, s[1], s[2], v)
  <1>2. fan[x] \in FanRows /\ fan[x].pc = "spawn" /\ FanTrue(fan[x]) /\ d \in Deliveries
    BY DEF WInv, WShape, FanSpawn
  <1>3. /\ fan[x] \in SpawnRows /\ t \in WTenants /\ v \in Nat /\ s[1] \in HookIds /\ s[2] \in Origins
        /\ \A y \in fan[x].subs : Cleared(t, v, y[2])
    BY <1>2, FanFields DEF FanTrue, SubPairs
  <1>4. r \in SpawnRows /\ r.pc = "spawn" /\ r.tenant = t /\ r.ver = v /\ r.subs = fan[x].subs \ {s}
    BY <1>3 DEF SpawnRows
  <1>5. n \in DelivRows /\ n.tenant = t /\ n.url = s[2] /\ n.ver = v
    BY <1>3, NewDeliveryFields
  <1>6. deliv' = [deliv EXCEPT ![d] = n] /\ fan' = [fan EXCEPT ![x] = r]
    BY <1>1
  <1>7. UNCHANGED <<hook, reg, allow, wver, wlive, unbumped, badpost>>
    BY DEF FanSpawn, wcfg
  <1> HIDE DEF r, n, t, v, d
  <1>8. r \in FanRows /\ FanTrue(r) /\ DelivTrue(n)
    BY <1>3, <1>4, <1>5 DEF FanRows, FanTrue, DelivTrue
  <1>9. /\ fan' \in [Fans -> FanRows] /\ deliv' \in [Deliveries -> DelivRows \cup {DIdle}] /\ ~badpost'
        /\ hook' \in [HookIds -> HookRows \cup {NoHook, Unset}]
        /\ reg' = FanIdle \/ (reg'.pc = "insert" /\ reg'.tenant \in WTenants /\ reg'.url \in Origins)
    BY <1>5, <1>6, <1>7, <1>8 DEF WInv, WShape
  <1>10. /\ \A y \in Fans : fan'[y] # fan[y] => FanTrue(fan'[y])
         /\ \A e \in Deliveries : deliv'[e] # deliv[e] => DelivTrue(deliv'[e])
    BY <1>2, <1>6, <1>8 DEF WInv, WShape
  <1> QED  BY <1>7, <1>9, <1>10, ListsRest

LEMMA FanEnds == ASSUME WInv, NEW x \in Fans, FanDenied(x) PROVE WInv'
  <1>1. /\ UNCHANGED <<allow, wver, wlive, unbumped, reg, deliv, badpost>>
        /\ fan' = [fan EXCEPT ![x] = FanIdle] /\ RecordFailure(fan[x].denied)
    BY DEF FanDenied, FanGoto
  <1>2. hook' \in [HookIds -> HookRows \cup {NoHook, Unset}]
    BY <1>1, FailuresTyped DEF WInv
  <1>3. FanIdle \in FanRows /\ FanTrue(FanIdle)
    BY DEF FanRows, FanTrue, FanIdle
  <1>4. /\ fan' \in [Fans -> FanRows] /\ deliv' \in [Deliveries -> DelivRows \cup {DIdle}] /\ ~badpost'
        /\ reg' = FanIdle \/ (reg'.pc = "insert" /\ reg'.tenant \in WTenants /\ reg'.url \in Origins)
        /\ \A y \in Fans : fan'[y] # fan[y] => FanTrue(fan'[y])
    BY <1>1, <1>3 DEF WInv, WShape
  <1> QED  BY <1>1, <1>2, <1>4, ListsRest

----------------------------------------------------------------------------
(* Deliveries. *)
LEMMA DelivMoves ==
    ASSUME WInv, NEW d \in Deliveries, NEW r \in DelivRows \cup {DIdle}, DelivTrue(r), DGoto(d, r),
           UNCHANGED <<wcfg, fan>>, ~badpost'
    PROVE  WInv'
  <1>1. /\ UNCHANGED <<hook, reg, allow, wver, wlive, unbumped, fan>>
        /\ deliv' = [deliv EXCEPT ![d] = r]
    BY DEF wcfg, DGoto
  <1>2. /\ fan' \in [Fans -> FanRows] /\ deliv' \in [Deliveries -> DelivRows \cup {DIdle}]
        /\ hook' \in [HookIds -> HookRows \cup {NoHook, Unset}]
        /\ reg' = FanIdle \/ (reg'.pc = "insert" /\ reg'.tenant \in WTenants /\ reg'.url \in Origins)
    BY <1>1 DEF WInv, WShape
  <1>3. \A e \in Deliveries : deliv'[e] # deliv[e] => DelivTrue(deliv'[e])
    BY <1>1 DEF WInv, WShape
  <1> QED  BY <1>1, <1>2, <1>3, ListsRest

(* The same delivery at another point of its chain. *)
Point(r, pc) == [r EXCEPT !.pc = pc]
LEMMA PointFields ==
    ASSUME NEW r \in DelivRows, NEW pc \in {"wait", "resolve", "check", "post", "fail"}
    PROVE  /\ Point(r, pc) \in DelivRows /\ Point(r, pc).tenant = r.tenant /\ Point(r, pc).url = r.url
           /\ Point(r, pc).ver = r.ver /\ Point(r, pc).try = r.try /\ Point(r, pc).has = r.has
           /\ Point(r, pc).pc = pc
           /\ DelivTrue(r) => DelivTrue(Point(r, pc))
  <1>1. /\ Point(r, pc) \in DelivRows /\ Point(r, pc).tenant = r.tenant /\ Point(r, pc).url = r.url
        /\ Point(r, pc).ver = r.ver /\ Point(r, pc).try = r.try /\ Point(r, pc).has = r.has
        /\ Point(r, pc).pc = pc
    BY DEF Point, DelivRows
  <1>2. r # DIdle /\ Point(r, pc) # DIdle
    BY <1>1, DelivFields
  <1> QED  BY <1>1, <1>2 DEF DelivTrue

Retry(r) == [r EXCEPT !.pc = "check", !.try = @ + 1]
LEMMA RetryFields ==
    ASSUME NEW r \in DelivRows
    PROVE  /\ Retry(r) \in DelivRows /\ Retry(r).try = r.try + 1 /\ Retry(r).has = r.has
           /\ Retry(r).tenant = r.tenant /\ DelivTrue(Retry(r))
  <1>1. r.try \in Nat /\ r.try + 1 \in Nat /\ r.try + 1 # 0
    BY DelivFields
  <1> DEFINE n == r.try + 1
             c == "check"
  <1>2. n \in Nat /\ n # 0 /\ c \in {"wait", "resolve", "check", "post", "fail"}
    BY <1>1
  <1>3. Retry(r) = [r EXCEPT !.pc = c, !.try = n]
    BY DEF Retry
  <1> HIDE DEF n, c
  <1>4. Retry(r) \in DelivRows /\ Retry(r).try = n /\ Retry(r).has = r.has /\ Retry(r).tenant = r.tenant
    BY <1>2, <1>3 DEF DelivRows
  <1> QED  BY <1>2, <1>4 DEF DelivTrue, n

LEMMA AdvanceFields ==
    ASSUME NEW d \in Deliveries, deliv[d] \in DelivRows, DelivTrue(deliv[d])
    PROVE  /\ Advance(d) \in DelivRows /\ Advance(d).has = deliv[d].has
           /\ Advance(d).tenant = deliv[d].tenant /\ DelivTrue(Advance(d))
  <1>1. Advance(d) = IF deliv[d].try + 1 < Attempts THEN Retry(deliv[d]) ELSE Point(deliv[d], "fail")
    BY DEF Advance, Retry, Point
  <1> QED  BY <1>1, RetryFields, PointFields

(* A delivery and the permits it holds. *)
Holds(r, ps, pc) == [r EXCEPT !.has = ps, !.pc = pc]
LEMMA HoldsFields ==
    ASSUME NEW r \in DelivRows, NEW ps \in Permissions,
           NEW pc \in {"wait", "resolve", "check", "post", "fail"}
    PROVE  /\ Holds(r, ps, pc) \in DelivRows /\ Holds(r, ps, pc).has = ps
           /\ Holds(r, ps, pc).tenant = r.tenant
           /\ DelivTrue(r) => DelivTrue(Holds(r, ps, pc))
  <1>1. /\ Holds(r, ps, pc) \in DelivRows /\ Holds(r, ps, pc).tenant = r.tenant
        /\ Holds(r, ps, pc).url = r.url /\ Holds(r, ps, pc).ver = r.ver
        /\ Holds(r, ps, pc).try = r.try /\ Holds(r, ps, pc).has = ps
    BY DEF Holds, DelivRows
  <1>2. r # DIdle /\ Holds(r, ps, pc) # DIdle
    BY <1>1, DelivFields
  <1> QED  BY <1>1, <1>2 DEF DelivTrue

(* A delivery that is past its start. *)
LEMMA Delivered ==
    ASSUME WInv, NEW d \in Deliveries, deliv[d].pc # "idle"
    PROVE  deliv[d] \in DelivRows /\ DelivTrue(deliv[d])
  BY DEF WInv, WShape, DIdle

LEMMA PermitTaken ==
    ASSUME WInv, NEW d \in Deliveries, AcquirePermit(d)
    PROVE  \E ps \in Permissions, pc \in {"wait", "resolve"} :
              /\ DGoto(d, Holds(deliv[d], ps, pc)) /\ ps = deliv[d].has \cup {NextPermit(deliv[d].has)}
  <1> DEFINE p == NextPermit(deliv[d].has)
             ps == deliv[d].has \cup {p}
             pc == IF deliv[d].has = {} THEN "wait" ELSE "resolve"
  <1>1. deliv[d].has \in Permissions
    BY Delivered, DelivFields DEF AcquirePermit
  <1>2. ps \in Permissions
    BY <1>1 DEF Permissions, NextPermit
  <1>3. pc \in {"wait", "resolve"}
    OBVIOUS
  <1>4. DGoto(d, Holds(deliv[d], ps, pc))
    BY DEF AcquirePermit, Holds
  <1> QED  BY <1>2, <1>3, <1>4

LEMMA DelivActs ==
    ASSUME WInv, NEW d \in Deliveries, AcquirePermit(d) \/ PreCheck(d) \/ Post(d)
    PROVE  WInv'
  <1>1. UNCHANGED <<wcfg, fan, badpost>> /\ ~badpost' /\ deliv[d].pc # "idle"
    BY DEF AcquirePermit, PreCheck, Post, WInv
  <1>2. deliv[d] \in DelivRows /\ DelivTrue(deliv[d])
    BY <1>1, Delivered
  <1>3. DIdle \in DelivRows \cup {DIdle} /\ DelivTrue(DIdle)
    BY DEF DelivTrue
  <1>4. ASSUME NEW pc \in {"wait", "resolve", "check", "post", "fail"}, DGoto(d, Point(deliv[d], pc))
        PROVE  WInv'
    BY <1>1, <1>2, <1>4, PointFields, DelivMoves
  <1>5. CASE AcquirePermit(d)
    <2>1. PICK ps \in Permissions, pc \in {"wait", "resolve"} : DGoto(d, Holds(deliv[d], ps, pc))
      BY <1>5, PermitTaken
    <2> QED  BY <1>1, <1>2, <2>1, HoldsFields, DelivMoves
  <1>6. CASE PreCheck(d)
    <2>1. \E pc \in {"check", "fail"} : DGoto(d, Point(deliv[d], pc))
      BY <1>6 DEF PreCheck, Point
    <2> QED  BY <1>4, <2>1
  <1>7. CASE Post(d)
    <2>1. DGoto(d, DIdle) \/ DGoto(d, Point(deliv[d], "fail")) \/ DGoto(d, Advance(d))
      BY <1>7 DEF Post, Point
    <2>2. CASE DGoto(d, DIdle)
      BY <1>1, <1>3, <2>2, DelivMoves
    <2>3. CASE DGoto(d, Advance(d))
      BY <1>1, <1>2, <2>3, AdvanceFields, DelivMoves
    <2> QED  BY <1>4, <2>1, <2>2, <2>3
  <1> QED  BY <1>5, <1>6, <1>7

(* The gate of an attempt: a first attempt that carries the tenant's       *)
(* version was compared with the list that is still the tenant's.          *)
LEMMA GateHolds == ASSUME WInv, NEW d \in Deliveries, EgressRecheck(d) PROVE WInv'
  <1> DEFINE t == deliv[d].tenant
             ok == CheckEgress(LiveAllow(t), "webhook", deliv[d].url)
  <1>1. UNCHANGED <<wcfg, fan>> /\ deliv[d].pc # "idle"
    BY DEF EgressRecheck
  <1>2. deliv[d] \in DelivRows /\ DelivTrue(deliv[d]) /\ deliv[d] # DIdle
    BY <1>1, Delivered, DelivFields
  <1>3. deliv[d].try \in Nat
    BY <1>2, DelivFields
  <1>4. \/ \E pc \in {"post", "fail"} : DGoto(d, Point(deliv[d], pc))
        \/ DGoto(d, Advance(d))
    BY DEF EgressRecheck, Point, Skip
  <1>5. ~badpost'
    <2>1. CASE deliv[d].try > 0 \/ Moved(d)
      BY <2>1 DEF EgressRecheck, WInv
    <2>2. CASE ~(deliv[d].try > 0 \/ Moved(d))
      <3>1. deliv[d].try = 0 /\ deliv[d].ver = wver[t]
        BY <1>3, <2>2 DEF Moved
      <3>2. t \notin unbumped => ok
        BY <1>2, <3>1 DEF DelivTrue, Cleared
      <3>3. badpost' = (badpost \/ (~ok /\ t \notin unbumped))
        BY <2>2 DEF EgressRecheck
      <3> QED  BY <3>2, <3>3 DEF WInv
    <2> QED  BY <2>1, <2>2
  <1>6. ASSUME NEW pc \in {"post", "fail"}, DGoto(d, Point(deliv[d], pc)) PROVE WInv'
    BY <1>1, <1>2, <1>5, <1>6, PointFields, DelivMoves
  <1>7. CASE DGoto(d, Advance(d))
    BY <1>1, <1>2, <1>5, <1>7, AdvanceFields, DelivMoves
  <1> QED  BY <1>4, <1>6, <1>7

LEMMA DelivEnds == ASSUME WInv, NEW d \in Deliveries, DeliveryFails(d) PROVE WInv'
  <1>1. /\ UNCHANGED <<allow, wver, wlive, unbumped, reg, fan, badpost>>
        /\ deliv' = [deliv EXCEPT ![d] = DIdle]
        /\ RecordFailure(IF deliv[d].tenant \in wlive THEN {deliv[d].hook} ELSE {})
    BY DEF DeliveryFails, DGoto
  <1>2. hook' \in [HookIds -> HookRows \cup {NoHook, Unset}]
    BY <1>1, FailuresTyped DEF WInv
  <1>3. DelivTrue(DIdle)
    BY DEF DelivTrue
  <1>4. /\ fan' \in [Fans -> FanRows] /\ deliv' \in [Deliveries -> DelivRows \cup {DIdle}] /\ ~badpost'
        /\ reg' = FanIdle \/ (reg'.pc = "insert" /\ reg'.tenant \in WTenants /\ reg'.url \in Origins)
        /\ \A e \in Deliveries : deliv'[e] # deliv[e] => DelivTrue(deliv'[e])
    BY <1>1, <1>3 DEF WInv, WShape
  <1> QED  BY <1>1, <1>2, <1>4, ListsRest

----------------------------------------------------------------------------
LEMMA WConfigKeeps == ASSUME WInv, WConfig PROVE WInv'
  <1>1. \/ \E t \in WTenants : AllowMoves(t)
        \/ \E t \in WTenants, o \in Origins : Register(t, o)
        \/ InsertHook
        \/ \E h \in HookIds : \/ DeleteHook(h) \/ PatchHook(h, TRUE) \/ PatchHook(h, FALSE)
                              \/ \E o \in Origins : UpdateWebhook(h, o)
    BY DEF WConfig, AllowMoves, McpSetEgressAllowlist, McpCreateWebhook, CreateWebhook, CreateForm,
           McpDeleteWebhook, DeleteWebhook, DeleteForm, McpUpdateWebhook
  <1> QED  BY <1>1, AllowMovesKeep, SubscriptionsMove

LEMMA WRests ==
    ASSUME WInv, UNCHANGED <<wcfg, fan, deliv, badpost>>
    PROVE  WInv'
  BY DEF WInv, WShape, wcfg, FanTrue, DelivTrue, Cleared, LiveAllow

LEMMA WStep == ASSUME WInv, WNext PROVE WInv'
  <1>1. CASE WConfig
    BY <1>1, WConfigKeeps
  <1>2. ASSUME NEW x \in Fans, FanOut(x) PROVE WInv'
    BY <1>2, FanReadsVersion, FanReadsList, FanSpawns, FanEnds DEF FanOut
  <1>3. ASSUME NEW x \in Fans, NEW t \in WTenants, DispatchMany(x, t) PROVE WInv'
    BY <1>3, FanStarts
  <1>4. ASSUME NEW d \in Deliveries, Delivering(d) PROVE WInv'
    BY <1>4, DelivActs, GateHolds, DelivEnds DEF Delivering
  <1>5. ASSUME NEW x \in Fetches, WFetching(x) PROVE WInv'
    <2>1. UNCHANGED <<wcfg, fan, deliv, badpost>>
      BY <1>5 DEF WFetching, FetchAllowlist, FetchEnd, FetchStart, HttpFetch
    <2> QED  BY <2>1, WRests
  <1> QED  BY <1>1, <1>2, <1>3, <1>4, <1>5 DEF WNext

LEMMA WInvariant == WSpec => []WInv
  <1>1. WInv /\ [WNext]_wvars => WInv'
    <2> SUFFICES ASSUME WInv, [WNext]_wvars PROVE WInv'
      OBVIOUS
    <2>1. CASE WNext
      BY <2>1, WStep
    <2>2. CASE UNCHANGED wvars
      BY <2>2, WRests DEF wvars
    <2> QED  BY <2>1, <2>2
  <1> QED  BY <1>1, WInitial, PTL DEF WSpec

(* No attempt is cleared for an origin that a counted change of the        *)
(* allowlist or a soft delete removed, for any number of tenants, fan-outs *)
(* and deliveries (EgressRecheck of the dispatcher).                       *)
THEOREM RevocationIsHonoured == WSpec => []RevocationHonoured
  <1>1. WInv => RevocationHonoured
    BY DEF WInv, RevocationHonoured
  <1> QED  BY <1>1, WInvariant, PTL

----------------------------------------------------------------------------
(***************************************************************************)
(* Edge functions.  The cached bindings and the depth counters are         *)
(* inductive together with the shape of the rows of tasks: a change of a   *)
(* function never happens without a task that has the invalidation still   *)
(* to do, and a task counts towards the depth of its function's tenant     *)
(* exactly while it is at "full" or "send".                                *)
(***************************************************************************)

TaskOK(r) ==
    /\ r.pc \in {"inval", "load"} => r.tenant \in FTenants
    /\ r.pc \in {"prev", "insert", "meta", "acl", "toggle", "delete", "full", "send"} => r.fn \in Fns
    /\ r.pc = "load" => r.got \in SUBSET Fns
    /\ r.pc \in {"enqueue", "full", "send"} => r.todo \in SUBSET Fns
PendingRow(r, t) ==
    \/ r.pc = "inval" /\ r.tenant = t
    \/ r.pc \in {"meta", "acl"} /\ Home(r.fn) = t
CountRow(r, t) == r.pc \in {"full", "send"} /\ Home(r.fn) = t

FEShape ==
    /\ DOMAIN fnrow = Fns /\ DOMAIN binds = FTenants
    /\ \A t \in FTenants : binds[t] = <<>> \/ \E g \in SUBSET Fns : binds[t] = <<g>>
    /\ DOMAIN ftask = FTasks /\ \A a \in FTasks : TaskOK(ftask[a])
    /\ depth \in [FTenants -> Nat] /\ chan \in Seq(Invs) /\ lane \in [FTenants -> Seq(Invs)]
    /\ DOMAIN job = Workers

FreshAt(t) == binds[t] = <<>> \/ binds[t] = <<BoundNow(t)>> \/ t \in bindlate \/ Pending(t)
Queued(t) == Of(t, chan) + Len(lane[t]) + Serving(t)
ExactAt(t) == depth[t] = Cardinality(Counting(t)) + Queued(t)
BoundedAt(t) == Cardinality(Sending(t)) + Queued(t) <= QueueDepth

FEInv ==
    /\ FEShape
    /\ \A t \in FTenants : FreshAt(t) /\ ExactAt(t) /\ BoundedAt(t)

LEMMA HomeIn == ASSUME NEW f \in Fns PROVE Home(f) \in FTenants
  BY DEF Fns, Home

LEMMA PendingIs == ASSUME NEW t PROVE Pending(t) <=> \E a \in FTasks : PendingRow(ftask[a], t)
  BY DEF Pending, PendingRow, FAt

----------------------------------------------------------------------------
(* Counting: the sets of tasks are finite, and a queue holds as many       *)
(* invocations of a tenant as it has places with one.                      *)
LEMMA CountingFinite ==
    ASSUME NEW t
    PROVE  /\ IsFiniteSet(Counting(t)) /\ IsFiniteSet(Sending(t))
           /\ Cardinality(Counting(t)) \in Nat /\ Cardinality(Sending(t)) \in Nat
           /\ Cardinality(Sending(t)) <= Cardinality(Counting(t))
  <1>1. IsFiniteSet(FTasks)
    BY FunctionExecutorAssumption
  <1>2. Counting(t) \in SUBSET FTasks /\ Sending(t) \in SUBSET Counting(t)
    BY DEF Counting, Sending
  <1>3. IsFiniteSet(Counting(t))
    BY <1>1, <1>2, FS_Subset
  <1>4. IsFiniteSet(Sending(t)) /\ Cardinality(Sending(t)) <= Cardinality(Counting(t))
    BY <1>2, <1>3, FS_Subset
  <1> QED  BY <1>3, <1>4, FS_CardinalityType

Places(t, q) == {i \in DOMAIN q : Home(q[i].fn) = t}
LEMMA PlacesFinite ==
    ASSUME NEW t, NEW q \in Seq(Invs)
    PROVE  IsFiniteSet(Places(t, q)) /\ Of(t, q) = Cardinality(Places(t, q)) /\ Of(t, q) \in Nat
  <1>1. Places(t, q) \in SUBSET (1 .. Len(q)) /\ Len(q) \in Nat
    BY DEF Places
  <1>2. IsFiniteSet(1 .. Len(q))
    BY <1>1, FS_Interval
  <1>3. IsFiniteSet(Places(t, q))
    BY <1>1, <1>2, FS_Subset
  <1> QED  BY <1>3, FS_CardinalityType DEF Of, Places

LEMMA OfAppend ==
    ASSUME NEW t, NEW q \in Seq(Invs), NEW e \in Invs
    PROVE  Of(t, Append(q, e)) = IF Home(e.fn) = t THEN Of(t, q) + 1 ELSE Of(t, q)
  <1> DEFINE n == Len(q) + 1
  <1>1. Len(q) \in Nat /\ Append(q, e) \in Seq(Invs) /\ DOMAIN Append(q, e) = 1 .. n /\ DOMAIN q = 1 .. Len(q)
    OBVIOUS
  <1>2. Append(q, e)[n] = e /\ \A i \in DOMAIN q : Append(q, e)[i] = q[i]
    OBVIOUS
  <1>3. n \notin Places(t, q)
    BY <1>1 DEF Places
  <1>4. CASE Home(e.fn) = t
    <2>1. Places(t, Append(q, e)) = Places(t, q) \cup {n}
      BY <1>1, <1>2, <1>4 DEF Places
    <2>2. Cardinality(Places(t, q) \cup {n}) = Cardinality(Places(t, q)) + 1
      BY <1>3, PlacesFinite, FS_AddElement
    <2> QED  BY <1>1, <1>4, <2>1, <2>2, PlacesFinite
  <1>5. CASE Home(e.fn) # t
    <2>1. Places(t, Append(q, e)) = Places(t, q)
      BY <1>1, <1>2, <1>5 DEF Places
    <2> QED  BY <1>1, <1>5, <2>1, PlacesFinite
  <1> QED  BY <1>4, <1>5

LEMMA OfTail ==
    ASSUME NEW t, NEW q \in Seq(Invs), q # <<>>
    PROVE  Of(t, q) = IF Home(Head(q).fn) = t THEN Of(t, Tail(q)) + 1 ELSE Of(t, Tail(q))
  <1> DEFINE S == Places(t, Tail(q))
             T == Places(t, q) \ {1}
             g == [i \in S |-> i + 1]
  <1>1. /\ Tail(q) \in Seq(Invs) /\ Len(q) \in Nat /\ Len(q) >= 1 /\ DOMAIN q = 1 .. Len(q)
        /\ DOMAIN Tail(q) = 1 .. (Len(q) - 1) /\ Head(q) = q[1]
        /\ \A i \in 1 .. (Len(q) - 1) : Tail(q)[i] = q[i + 1]
    OBVIOUS
  <1>2. \A i \in S : i \in Nat /\ i + 1 \in T
    BY <1>1 DEF Places
  <1>3. \A j \in T : j \in Nat /\ j - 1 \in S /\ (j - 1) + 1 = j
    BY <1>1 DEF Places
  <1> HIDE DEF S, T
  <1>4. g \in Injection(S, T)
    BY <1>2 DEF Injection, IsInjective
  <1>5. g \in Surjection(S, T)
    BY <1>2, <1>3 DEF Surjection
  <1>6. ExistsBijection(S, T)
    BY <1>4, <1>5 DEF ExistsBijection, Bijection
  <1>7. IsFiniteSet(S)
    BY <1>1, PlacesFinite DEF S
  <1>8. Cardinality(T) = Cardinality(S)
    BY <1>6, <1>7, FS_Bijection
  <1>9. Cardinality(T) = IF 1 \in Places(t, q) THEN Cardinality(Places(t, q)) - 1 ELSE Cardinality(Places(t, q))
    BY PlacesFinite, FS_RemoveElement DEF T
  <1>10. 1 \in Places(t, q) <=> Home(Head(q).fn) = t
    BY <1>1 DEF Places
  <1>11. Of(t, Tail(q)) = Cardinality(S) /\ Of(t, q) = Cardinality(Places(t, q)) /\ Of(t, q) \in Nat /\ Of(t, Tail(q)) \in Nat
    BY <1>1, PlacesFinite DEF S
  <1> QED  BY <1>8, <1>9, <1>10, <1>11

LEMMA QueuedType ==
    ASSUME FEShape, NEW t \in FTenants
    PROVE  Of(t, chan) \in Nat /\ Len(lane[t]) \in Nat /\ Serving(t) \in {0, 1} /\ Queued(t) \in Nat
  <1>1. Of(t, chan) \in Nat
    BY PlacesFinite DEF FEShape
  <1>2. Len(lane[t]) \in Nat
    BY DEF FEShape
  <1>3. Serving(t) \in {0, 1}
    BY DEF Serving
  <1> QED  BY <1>1, <1>2, <1>3 DEF Queued

----------------------------------------------------------------------------
LEMMA FEInitial == FEInit => FEInv
  <1> SUFFICES ASSUME FEInit PROVE FEInv
    OBVIOUS
  <1>1. FEShape
    <2>1. TaskOK(FIdle)
      BY DEF TaskOK, FIdle
    <2> QED  BY <2>1 DEF FEInit, FSInit, FEShape
  <1>2. ASSUME NEW t \in FTenants PROVE FreshAt(t) /\ ExactAt(t) /\ BoundedAt(t)
    <2>1. Counting(t) = {} /\ Sending(t) = {}
      BY DEF FEInit, FSInit, Counting, Sending, FIdle
    <2>2. Of(t, chan) = 0 /\ Len(lane[t]) = 0 /\ Serving(t) = 0
      <3>1. {i \in DOMAIN chan : Home(chan[i].fn) = t} = {}
        BY DEF FEInit
      <3>2. Of(t, chan) = 0
        BY <3>1, FS_EmptySet DEF Of
      <3>3. t \in Workers
        BY DEF Workers
      <3> QED  BY <3>2, <3>3 DEF FEInit, Serving
    <2>3. depth[t] = 0 /\ binds[t] = <<>>
      BY DEF FEInit, FSInit
    <2>4. QueueDepth \in Nat
      BY FunctionExecutorAssumption
    <2> QED  BY <2>1, <2>2, <2>3, <2>4, FS_EmptySet DEF FreshAt, ExactAt, BoundedAt, Queued
  <1> QED  BY <1>1, <1>2 DEF FEInv

(* A task that is replaced by row r. *)
LEMMA TasksTyped ==
    ASSUME FEShape, NEW a \in FTasks, NEW r, TaskOK(r), FGoto(a, r)
    PROVE  DOMAIN ftask' = FTasks /\ \A b \in FTasks : TaskOK(ftask'[b])
  BY DEF FEShape, FGoto

LEMMA Uncounted ==
    ASSUME FEShape, NEW a \in FTasks, NEW r, FGoto(a, r), NEW t,
           ~CountRow(ftask[a], t), ~CountRow(r, t)
    PROVE  Counting(t)' = Counting(t) /\ Sending(t)' = Sending(t)
  <1>1. ftask' = [ftask EXCEPT ![a] = r] /\ DOMAIN ftask = FTasks
    BY DEF FGoto, FEShape
  <1>2. \A b \in FTasks : ftask'[b] = IF b = a THEN r ELSE ftask[b]
    BY <1>1
  <1>3. Counting(t)' = Counting(t)
    BY <1>2 DEF Counting, CountRow
  <1>4. \A b \in Counting(t) : b # a /\ b \in FTasks
    BY DEF Counting, CountRow
  <1> QED  BY <1>2, <1>3, <1>4 DEF Sending, FAt

LEMMA FreshStays ==
    ASSUME FEShape, NEW a \in FTasks, NEW r, FGoto(a, r), NEW t, FreshAt(t),
           binds'[t] = binds[t], t \in bindlate => t \in bindlate',
           PendingRow(ftask[a], t) => PendingRow(r, t) \/ t \in bindlate' \/ binds[t] = <<>>,
           BoundNow(t)' = BoundNow(t) \/ PendingRow(r, t)
    PROVE  FreshAt(t)'
  <1>1. \A b \in FTasks : ftask'[b] = IF b = a THEN r ELSE ftask[b]
    BY DEF FGoto, FEShape
  <1>2. PendingRow(r, t) => Pending(t)'
    BY <1>1 DEF Pending, PendingRow, FAt
  <1>3. Pending(t) => Pending(t)' \/ t \in bindlate' \/ binds[t] = <<>>
    <2> SUFFICES ASSUME Pending(t), ~PendingRow(r, t) PROVE Pending(t)' \/ t \in bindlate' \/ binds[t] = <<>>
      BY <1>2
    <2>1. PICK b \in FTasks : PendingRow(ftask[b], t)
      BY PendingIs
    <2>2. CASE b = a
      BY <2>1, <2>2
    <2>3. CASE b # a
      <3>1. PendingRow(ftask'[b], t)
        BY <1>1, <2>1, <2>3
      <3> QED  BY <3>1 DEF Pending, PendingRow, FAt
    <2> QED  BY <2>2, <2>3
  <1> QED  BY <1>2, <1>3 DEF FreshAt

LEMMA RowsElsewhere ==
    ASSUME FEShape, NEW f \in Fns, NEW row, SetRow(f, row)
    PROVE  /\ DOMAIN fnrow' = Fns
           /\ \A t : t # Home(f) => BoundNow(t)' = BoundNow(t)
  <1>1. DOMAIN fnrow' = Fns /\ \A g \in Fns : g # f => fnrow'[g] = fnrow[g]
    BY DEF SetRow, FEShape
  <1> QED  BY <1>1 DEF BoundNow, Exists

(* What every handler of the store does to a task. *)
Changes(a, r) ==
    /\ FGoto(a, r) /\ TaskOK(r) /\ r.pc \notin {"full", "send"} /\ ftask[a].pc \notin {"full", "send"}
    /\ UNCHANGED binds
    /\ UNCHANGED fnrow \/ \E f \in Fns : \E row : SetRow(f, row) /\ PendingRow(r, Home(f))
    /\ \A t \in FTenants : t \in bindlate => t \in bindlate'
    /\ \A t \in FTenants :
        PendingRow(ftask[a], t) => PendingRow(r, t) \/ t \in bindlate' \/ binds[t] = <<>>

(* The queue is the same, and so are the tasks that count. *)
LEMMA QueueRests ==
    ASSUME NEW t \in FTenants, ExactAt(t), BoundedAt(t), UNCHANGED <<depth, chan, lane, job>>,
           Counting(t)' = Counting(t), Sending(t)' = Sending(t)
    PROVE  ExactAt(t)' /\ BoundedAt(t)'
  BY DEF ExactAt, BoundedAt, Queued, Of, Serving

LEMMA ChangesKeep ==
    ASSUME FEInv, NEW a \in FTasks, NEW r, Changes(a, r), UNCHANGED <<depth, chan, lane, job>>
    PROVE  FEInv'
  <1>1. FEShape /\ FGoto(a, r)
    BY DEF FEInv, Changes
  <1>2. DOMAIN fnrow' = Fns
    BY <1>1, RowsElsewhere DEF Changes, FEShape
  <1>3. DOMAIN ftask' = FTasks /\ \A b \in FTasks : TaskOK(ftask'[b])
    BY <1>1, TasksTyped DEF Changes
  <1>4. FEShape'
    BY <1>1, <1>2, <1>3 DEF FEShape, Changes, TaskOK
  <1>5. ASSUME NEW t \in FTenants PROVE FreshAt(t)' /\ ExactAt(t)' /\ BoundedAt(t)'
    <2>1. FreshAt(t) /\ ExactAt(t) /\ BoundedAt(t)
      BY DEF FEInv
    <2>2. ~CountRow(ftask[a], t) /\ ~CountRow(r, t)
      BY DEF Changes, CountRow
    <2>3. Counting(t)' = Counting(t) /\ Sending(t)' = Sending(t)
      BY <1>1, <2>2, Uncounted
    <2>4. ExactAt(t)' /\ BoundedAt(t)'
      BY <2>1, <2>3, QueueRests
    <2>5. BoundNow(t)' = BoundNow(t) \/ PendingRow(r, t)
      <3>1. CASE UNCHANGED fnrow
        BY <3>1 DEF BoundNow, Exists
      <3>2. ASSUME NEW f \in Fns, NEW row, SetRow(f, row), PendingRow(r, Home(f))
            PROVE  BoundNow(t)' = BoundNow(t) \/ PendingRow(r, t)
        BY <1>1, <3>2, RowsElsewhere
      <3> QED  BY <3>1, <3>2 DEF Changes
    <2>6. /\ binds'[t] = binds[t]
          /\ t \in bindlate => t \in bindlate'
          /\ PendingRow(ftask[a], t) => PendingRow(r, t) \/ t \in bindlate' \/ binds[t] = <<>>
      BY DEF Changes
    <2> QED  BY <1>1, <2>1, <2>4, <2>5, <2>6, FreshStays
  <1> QED  BY <1>4, <1>5 DEF FEInv

----------------------------------------------------------------------------
(* Rows of tasks, by what they are at. *)
InvalRow(t, gc) == [pc |-> "inval", tenant |-> t, gc |-> gc]
GcRow(pc, t, s) == [pc |-> pc, tenant |-> t, sha |-> s]
PatchRow(pc, f) == [pc |-> pc, fn |-> f]

(* Rows without an invalidation to do and without a depth slot. *)
Quiet(r) == TaskOK(r) /\ r.pc \notin {"full", "send", "inval", "meta", "acl"}
LEMMA QuietRows ==
    /\ Quiet(FIdle)
    /\ \A pc \in {"gc", "unlink"} : \A t, s : Quiet(GcRow(pc, t, s))
    /\ \A f \in Fns : \A s, b : Quiet([pc |-> "prev", fn |-> f, sha |-> s, bound |-> b])
    /\ \A f \in Fns : \A s, b, p : Quiet([pc |-> "insert", fn |-> f, sha |-> s, bound |-> b, prev |-> p])
    /\ \A f \in Fns : \A x : Quiet([pc |-> "toggle", fn |-> f, to |-> x])
    /\ \A f \in Fns : \A s : Quiet([pc |-> "delete", fn |-> f, sha |-> s])
    /\ \A t \in FTenants, g \in SUBSET Fns : \A ev : Quiet([pc |-> "load", tenant |-> t, got |-> g, ev |-> ev])
    /\ \A g \in SUBSET Fns : Quiet([pc |-> "enqueue", todo |-> g])
  BY DEF Quiet, TaskOK, FIdle, GcRow
LEMMA InvalRows ==
    ASSUME NEW t \in FTenants, NEW gc
    PROVE  TaskOK(InvalRow(t, gc)) /\ PendingRow(InvalRow(t, gc), t) /\ InvalRow(t, gc).pc = "inval"
  BY DEF TaskOK, PendingRow, InvalRow
LEMMA PatchRows ==
    ASSUME NEW f \in Fns, NEW pc \in {"meta", "acl"}
    PROVE  TaskOK(PatchRow(pc, f)) /\ PendingRow(PatchRow(pc, f), Home(f)) /\ PatchRow(pc, f).pc = pc
  BY DEF TaskOK, PendingRow, PatchRow

(* A step of a task that changes no row. *)
LEMMA QuietKeeps ==
    ASSUME FEInv, NEW a \in FTasks, NEW r, Quiet(ftask[a]), Quiet(r), FGoto(a, r),
           UNCHANGED <<binds, bindlate, fnrow, depth, chan, lane, job>>
    PROVE  FEInv'
  <1>1. Changes(a, r)
    BY DEF Changes, Quiet, PendingRow
  <1> QED  BY <1>1, ChangesKeep
(* A step that changes the row of a function, or may have. *)
LEMMA EditKeeps ==
    ASSUME FEInv, NEW a \in FTasks, NEW f \in Fns, NEW r, TaskOK(r), PendingRow(r, Home(f)),
           r.pc \in {"inval", "meta", "acl"}, FGoto(a, r),
           Quiet(ftask[a]) \/ (ftask[a].pc \in {"meta", "acl"} /\ ftask[a].fn = f),
           UNCHANGED fnrow \/ (\E row : SetRow(f, row)),
           UNCHANGED <<binds, bindlate, depth, chan, lane, job>>
    PROVE  FEInv'
  <1>1. \A t : PendingRow(ftask[a], t) => t = Home(f)
    BY DEF PendingRow, Quiet
  <1>2. ftask[a].pc \notin {"full", "send"}
    BY DEF Quiet
  <1>3. Changes(a, r)
    BY <1>1, <1>2 DEF Changes
  <1> QED  BY <1>3, ChangesKeep

LEMMA TaskAt ==
    ASSUME FEInv, NEW a \in FTasks
    PROVE  /\ TaskOK(ftask[a])
           /\ ftask[a] = FIdle => Quiet(ftask[a])
           /\ ftask[a].pc \in {"prev", "insert", "toggle", "delete", "gc", "unlink", "load", "enqueue"} => Quiet(ftask[a])
           /\ ftask[a].pc \in {"prev", "insert", "meta", "acl", "toggle", "delete"} => ftask[a].fn \in Fns
  BY DEF FEInv, FEShape, TaskOK, Quiet, FIdle

LEMMA CreateKeeps ==
    ASSUME FEInv, NEW a \in FTasks, UNCHANGED <<depth, chan, lane, job>>,
           \/ \E f \in Fns : \E s, b : CreateWrite(a, f, s, b)
           \/ CreatePrev(a) \/ CreateRow(a)
    PROVE  FEInv'
  <1>1. ASSUME NEW f \in Fns, NEW s, NEW b, CreateWrite(a, f, s, b) PROVE FEInv'
    <2>1. Quiet(ftask[a])
      BY <1>1, TaskAt DEF CreateWrite, Edit
    <2>2. FGoto(a, [pc |-> "prev", fn |-> f, sha |-> s, bound |-> b]) /\ UNCHANGED <<fnrow, binds, bindlate>>
      BY <1>1 DEF CreateWrite
    <2> QED  BY <2>1, <2>2, QuietRows, QuietKeeps
  <1>2. ASSUME CreatePrev(a) PROVE FEInv'
    <2> DEFINE f == ftask[a].fn
               p == IF Exists(f) THEN {fnrow[f].sha} ELSE {}
    <2>1. Quiet(ftask[a]) /\ f \in Fns
      BY <1>2, TaskAt DEF CreatePrev, FAt
    <2>2. /\ FGoto(a, [pc |-> "insert", fn |-> f, sha |-> ftask[a].sha, bound |-> ftask[a].bound, prev |-> p])
          /\ UNCHANGED <<fnrow, binds, bindlate>>
      BY <1>2 DEF CreatePrev, fsvars
    <2> HIDE DEF p, f
    <2> QED  BY <2>1, <2>2, QuietRows, QuietKeeps
  <1>3. ASSUME CreateRow(a) PROVE FEInv'
    <2> DEFINE f == ftask[a].fn
               s == ftask[a].sha
               u == Upserted(f, s, ftask[a].bound)
               gc == ftask[a].prev \ {s}
    <2>1. Quiet(ftask[a]) /\ f \in Fns
      BY <1>3, TaskAt DEF CreateRow, FAt
    <2>2. /\ \/ SetRow(f, u) /\ FGoto(a, InvalRow(Home(f), gc))
             \/ FGoto(a, GcRow("gc", Home(f), s)) /\ UNCHANGED fnrow
          /\ UNCHANGED <<binds, bindlate>>
      BY <1>3 DEF CreateRow, FRows, InvalRow, GcRow
    <2> HIDE DEF f, s, u, gc
    <2>3. CASE SetRow(f, u) /\ FGoto(a, InvalRow(Home(f), gc))
      <3>1. /\ TaskOK(InvalRow(Home(f), gc)) /\ PendingRow(InvalRow(Home(f), gc), Home(f))
            /\ InvalRow(Home(f), gc).pc = "inval"
        BY <2>1, HomeIn, InvalRows
      <3> QED  BY <2>1, <2>2, <2>3, <3>1, EditKeeps
    <2>4. CASE FGoto(a, GcRow("gc", Home(f), s)) /\ UNCHANGED fnrow
      BY <2>1, <2>2, <2>4, QuietRows, QuietKeeps
    <2> QED  BY <2>2, <2>3, <2>4
  <1> QED  BY <1>1, <1>2, <1>3

LEMMA GcKeeps ==
    ASSUME FEInv, NEW a \in FTasks, UNCHANGED <<depth, chan, lane, job>>, GcCheck(a) \/ GcUnlink(a)
    PROVE  FEInv'
  <1>1. Quiet(ftask[a])
    BY TaskAt DEF GcCheck, GcUnlink, FAt
  <1>2. /\ FGoto(a, FIdle) \/ FGoto(a, GcRow("unlink", ftask[a].tenant, ftask[a].sha))
        /\ UNCHANGED <<fnrow, binds, bindlate>>
    BY DEF GcCheck, GcUnlink, FReturn, GcRow
  <1> QED  BY <1>1, <1>2, QuietRows, QuietKeeps

(* The writes of a change, each with the invalidation ahead. *)
LEMMA EditsKeep ==
    ASSUME FEInv, NEW a \in FTasks, UNCHANGED <<depth, chan, lane, job>>, NEW f \in Fns,
           \/ \E on : PatchActive(a, f, on) \/ SetFunctionActive(a, f, on)
           \/ \E x, y : SetFunctionInvokeAcl(a, f, x, y) \/ ConsoleInvokeAcl(a, f, x, y)
    PROVE  FEInv'
  <1>1. Quiet(ftask[a])
    BY TaskAt DEF PatchActive, SetFunctionActive, SetFunctionInvokeAcl, ConsoleInvokeAcl, Edit
  <1>2. /\ \E row : SetRow(f, row)
        /\ UNCHANGED <<binds, bindlate>>
    BY DEF PatchActive, SetFunctionActive, SetFunctionInvokeAcl, ConsoleInvokeAcl, SetActive, SetInvokeAcl, FRows
  <1>3. FGoto(a, PatchRow("meta", f)) \/ FGoto(a, InvalRow(Home(f), {}))
    BY DEF PatchActive, SetFunctionActive, SetFunctionInvokeAcl, ConsoleInvokeAcl, PatchRow, InvalRow
  <1>4. CASE FGoto(a, PatchRow("meta", f))
    BY <1>1, <1>2, <1>4, PatchRows, EditKeeps
  <1>5. CASE FGoto(a, InvalRow(Home(f), {}))
    BY <1>1, <1>2, <1>5, HomeIn, InvalRows, EditKeeps
  <1> QED  BY <1>3, <1>4, <1>5

LEMMA PatchKeeps ==
    ASSUME FEInv, NEW a \in FTasks, UNCHANGED <<depth, chan, lane, job>>,
           PatchMeta(a) \/ PatchAcl(a) \/ PatchSkip(a)
    PROVE  FEInv'
  <1> DEFINE f == ftask[a].fn
  <1>1. ftask[a].pc \in {"meta", "acl"} /\ f \in Fns
    BY TaskAt DEF PatchMeta, PatchAcl, PatchSkip, FAt
  <1>2. /\ UNCHANGED fnrow \/ \E row : SetRow(f, row)
        /\ UNCHANGED <<binds, bindlate>>
    BY DEF PatchMeta, PatchAcl, PatchSkip, UpdateMeta, SetInvokeAclPartial, FRows, fsvars
  <1>3. FGoto(a, PatchRow("acl", f)) \/ FGoto(a, InvalRow(Home(f), {}))
    BY DEF PatchMeta, PatchAcl, PatchSkip, PatchRow, InvalRow
  <1>4. CASE FGoto(a, PatchRow("acl", f))
    BY <1>1, <1>2, <1>4, PatchRows, EditKeeps
  <1>5. CASE FGoto(a, InvalRow(Home(f), {}))
    BY <1>1, <1>2, <1>5, HomeIn, InvalRows, EditKeeps
  <1> QED  BY <1>3, <1>4, <1>5

LEMMA ToggleKeeps ==
    ASSUME FEInv, NEW a \in FTasks, UNCHANGED <<depth, chan, lane, job>>,
           (\E f \in Fns : ToggleRead(a, f) \/ DeleteRead(a, f)) \/ ToggleWrite(a) \/ DeleteFunction(a)
    PROVE  FEInv'
  <1>1. Quiet(ftask[a])
    BY TaskAt DEF ToggleRead, ToggleWrite, DeleteRead, DeleteFunction, Edit, FAt
  <1>2. ASSUME NEW f \in Fns, ToggleRead(a, f) PROVE FEInv'
    <2>1. /\ FGoto(a, [pc |-> "toggle", fn |-> f, to |-> ~fnrow[f].active])
          /\ UNCHANGED <<fnrow, binds, bindlate>>
      BY <1>2 DEF ToggleRead, FRows
    <2> QED  BY <1>1, <2>1, QuietRows, QuietKeeps
  <1>3. ASSUME NEW f \in Fns, DeleteRead(a, f) PROVE FEInv'
    <2>1. /\ FGoto(a, [pc |-> "delete", fn |-> f, sha |-> fnrow[f].sha])
          /\ UNCHANGED <<fnrow, binds, bindlate>>
      BY <1>3 DEF DeleteRead, FRows
    <2> QED  BY <1>1, <2>1, QuietRows, QuietKeeps
  <1>4. ASSUME ToggleWrite(a) PROVE FEInv'
    <2> DEFINE f == ftask[a].fn
    <2>1. f \in Fns
      BY <1>4, TaskAt DEF ToggleWrite, FAt
    <2>2. /\ UNCHANGED fnrow \/ \E row : SetRow(f, row)
          /\ UNCHANGED <<binds, bindlate>> /\ FGoto(a, InvalRow(Home(f), {}))
      BY <1>4 DEF ToggleWrite, SetActive, FRows, InvalRow
    <2> HIDE DEF f
    <2> QED  BY <1>1, <2>1, <2>2, HomeIn, InvalRows, EditKeeps
  <1>5. ASSUME DeleteFunction(a) PROVE FEInv'
    <2> DEFINE f == ftask[a].fn
    <2>1. f \in Fns
      BY <1>5, TaskAt DEF DeleteFunction, FAt
    <2>2. /\ UNCHANGED <<binds, bindlate>>
          /\ \/ SetRow(f, NoFn) /\ FGoto(a, InvalRow(Home(f), {ftask[a].sha}))
             \/ FGoto(a, FIdle) /\ UNCHANGED fnrow
      BY <1>5 DEF DeleteFunction, FReturn, InvalRow
    <2>3. CASE SetRow(f, NoFn) /\ FGoto(a, InvalRow(Home(f), {ftask[a].sha}))
      <3> HIDE DEF f
      <3> QED  BY <1>1, <2>1, <2>2, <2>3, HomeIn, InvalRows, EditKeeps
    <2>4. CASE FGoto(a, FIdle) /\ UNCHANGED fnrow
      BY <1>1, <2>2, <2>4, QuietRows, QuietKeeps
    <2> QED  BY <2>2, <2>3, <2>4
  <1> QED  BY <1>2, <1>3, <1>4, <1>5

(* A handler that goes away before its invalidation leaves a history mark. *)
LEMMA StopsKeep ==
    ASSUME FEInv, NEW a \in FTasks, UNCHANGED <<depth, chan, lane, job>>, PatchStops(a) \/ FDrop(a)
    PROVE  FEInv'
  <1>1. /\ FGoto(a, FIdle) /\ UNCHANGED <<fnrow, binds>>
        /\ ftask[a].pc \in {"prev", "insert", "inval", "meta", "acl", "toggle", "delete", "gc"}
    BY DEF PatchStops, FDrop, FReturn
  <1>2. TaskOK(FIdle) /\ FIdle.pc \notin {"full", "send"} /\ ftask[a].pc \notin {"full", "send"}
    BY <1>1, QuietRows DEF Quiet
  <1>3. \A t : t \in bindlate => t \in bindlate'
    BY DEF PatchStops, FDrop, Lags
  <1>4. ASSUME NEW t, PendingRow(ftask[a], t), binds[t] # <<>> PROVE t \in bindlate'
    <2>1. CASE ftask[a].pc = "inval"
      BY <1>4, <2>1 DEF PendingRow, PatchStops, FDrop, Lags
    <2>2. CASE ftask[a].pc \in {"meta", "acl"}
      BY <1>4, <2>2 DEF PendingRow, PatchStops, FDrop, Lags
    <2> QED  BY <1>4, <2>1, <2>2 DEF PendingRow
  <1>5. Changes(a, FIdle)
    BY <1>1, <1>2, <1>3, <1>4 DEF Changes
  <1> QED  BY <1>5, ChangesKeep

----------------------------------------------------------------------------
(* A step that writes the entry of one tenant: it is dropped, or what was  *)
(* read is stored and marked when it is not what the rows say now.         *)
LEMMA EntryKeeps ==
    ASSUME FEInv, NEW a \in FTasks, NEW r, NEW s \in FTenants, NEW e, FGoto(a, r), TaskOK(r),
           r.pc \notin {"full", "send"}, ftask[a].pc \notin {"full", "send"},
           \A t : PendingRow(ftask[a], t) => t = s,
           e = <<>> \/ (\E g \in SUBSET Fns : e = <<g>> /\ (g = BoundNow(s) \/ s \in bindlate')),
           binds' = [binds EXCEPT ![s] = e], \A t : t # s /\ t \in bindlate => t \in bindlate',
           UNCHANGED <<fnrow, depth, chan, lane, job>>
    PROVE  FEInv'
  <1>1. FEShape
    BY DEF FEInv
  <1>2. DOMAIN binds' = FTenants /\ \A t \in FTenants : binds'[t] = IF t = s THEN e ELSE binds[t]
    BY <1>1 DEF FEShape
  <1>3. DOMAIN ftask' = FTasks /\ \A b \in FTasks : TaskOK(ftask'[b])
    BY <1>1, TasksTyped
  <1>4. FEShape'
    BY <1>1, <1>2, <1>3 DEF FEShape, TaskOK
  <1>5. \A t : BoundNow(t)' = BoundNow(t)
    BY DEF BoundNow, Exists
  <1>6. ASSUME NEW t \in FTenants PROVE FreshAt(t)' /\ ExactAt(t)' /\ BoundedAt(t)'
    <2>1. FreshAt(t) /\ ExactAt(t) /\ BoundedAt(t)
      BY DEF FEInv
    <2>2. ~CountRow(ftask[a], t) /\ ~CountRow(r, t)
      BY DEF CountRow
    <2>3. Counting(t)' = Counting(t) /\ Sending(t)' = Sending(t)
      BY <1>1, <2>2, Uncounted
    <2>4. ExactAt(t)' /\ BoundedAt(t)'
      BY <2>1, <2>3, QueueRests
    <2>5. BoundNow(t)' = BoundNow(t)
      BY <1>5
    <2>6. CASE t = s
      <3>1. binds'[t] = e
        BY <1>2, <2>6
      <3>2. e = <<>> \/ e = <<BoundNow(t)>> \/ t \in bindlate'
        BY <2>6
      <3> QED  BY <2>4, <2>5, <3>1, <3>2 DEF FreshAt
    <2>7. CASE t # s
      <3>1. binds'[t] = binds[t] /\ ~PendingRow(ftask[a], t)
        BY <1>2, <2>7
      <3>2. t \in bindlate => t \in bindlate'
        BY <2>7
      <3> QED  BY <1>1, <2>1, <2>4, <2>5, <3>1, <3>2, FreshStays
    <2> QED  BY <2>6, <2>7
  <1> QED  BY <1>4, <1>6 DEF FEInv

LEMMA InvalKeeps ==
    ASSUME FEInv, NEW a \in FTasks, UNCHANGED <<depth, chan, lane, job>>, Inval(a)
    PROVE  FEInv'
  <1> DEFINE t == ftask[a].tenant
  <1>1. ftask[a].pc = "inval" /\ t \in FTenants
    BY TaskAt DEF Inval, FAt, TaskOK
  <1>2. \A u : PendingRow(ftask[a], u) => u = t
    BY <1>1 DEF PendingRow
  <1>3. /\ binds' = [binds EXCEPT ![t] = <<>>] /\ bindlate' = bindlate \ {t} /\ UNCHANGED fnrow
        /\ FGoto(a, FIdle) \/ \E s : FGoto(a, GcRow("gc", t, s))
    BY DEF Inval, BindInvalidate, FReturn, GcRow
  <1> HIDE DEF t
  <1>4. ASSUME NEW r, Quiet(r), FGoto(a, r) PROVE FEInv'
    BY <1>1, <1>2, <1>3, <1>4, EntryKeeps DEF Quiet
  <1> QED  BY <1>3, <1>4, QuietRows

(* The steps of the store that are no task's. *)
LEMMA ExpiryKeeps ==
    ASSUME FEInv, NEW t \in FTenants, BindExpire(t) \/ FTenantGone(t), UNCHANGED <<depth, chan, lane, job>>
    PROVE  FEInv'
  <1>1. UNCHANGED <<fnrow, ftask>>
    BY DEF BindExpire, FTenantGone
  <1>2. \/ UNCHANGED <<binds, bindlate>>
        \/ binds' = [binds EXCEPT ![t] = <<>>] /\ bindlate' = bindlate \ {t}
    BY DEF BindExpire, FTenantGone, BindInvalidate
  <1>3. FEShape'
    BY <1>1, <1>2 DEF FEInv, FEShape, TaskOK
  <1>4. ASSUME NEW u \in FTenants PROVE FreshAt(u)' /\ ExactAt(u)' /\ BoundedAt(u)'
    <2>1. FreshAt(u) /\ ExactAt(u) /\ BoundedAt(u)
      BY DEF FEInv
    <2>2. Counting(u)' = Counting(u) /\ Sending(u)' = Sending(u)
      BY <1>1 DEF Counting, Sending, FAt
    <2>3. BoundNow(u)' = BoundNow(u) /\ Pending(u)' = Pending(u)
      BY <1>1 DEF BoundNow, Exists, Pending, FAt
    <2>4. binds'[u] = <<>> \/ (binds'[u] = binds[u] /\ (u \in bindlate => u \in bindlate'))
      BY <1>2 DEF FEInv, FEShape
    <2>5. FreshAt(u)'
      BY <2>1, <2>3, <2>4 DEF FreshAt
    <2> QED  BY <2>1, <2>2, <2>5, QueueRests
  <1> QED  BY <1>3, <1>4 DEF FEInv

LEMMA StoreKeeps == ASSUME FEInv, Store, UNCHANGED <<fqvars, events>> PROVE FEInv'
  <1>1. UNCHANGED <<depth, chan, lane, job>>
    BY DEF fqvars
  <1>2. ASSUME NEW a \in FTasks, FStep(a) PROVE FEInv'
    BY <1>1, <1>2, CreateKeeps, InvalKeeps, GcKeeps, PatchKeeps, StopsKeep, ToggleKeeps DEF FStep
  <1>3. ASSUME NEW a \in FTasks, NEW f \in Fns, FEdit(a, f) PROVE FEInv'
    BY <1>1, <1>3, CreateKeeps, EditsKeep, ToggleKeeps
       DEF FEdit, McpSetFunctionActive, McpSetFunctionInvokeAcl, McpDeleteFunction, DeleteFunctionTool
  <1> QED  BY <1>1, <1>2, <1>3, StopsKeep, ExpiryKeeps DEF Store

----------------------------------------------------------------------------
(* The queue. *)

BindingRow(todo) == IF todo = {} THEN FIdle ELSE [pc |-> "enqueue", todo |-> todo]
LEMMA BindingRows == ASSUME NEW todo \in SUBSET Fns PROVE Quiet(BindingRow(todo))
  BY QuietRows DEF BindingRow

LEMMA DispatchKeeps ==
    ASSUME FEInv, NEW a \in FTasks,
           \/ \E t \in FTenants : Dispatch(a, t) \/ DispatchFile(a, t)
           \/ \E f \in Fns : EnqueueManual(a, f)
    PROVE  FEInv'
  <1>1. Quiet(ftask[a]) /\ UNCHANGED <<binds, bindlate, fnrow, depth, chan, lane, job>>
    BY TaskAt DEF Dispatch, DispatchFile, EnqueueManual, fsvars, fqvars
  <1>2. ASSUME NEW r, Quiet(r), FGoto(a, r) PROVE FEInv'
    BY <1>1, <1>2, QuietKeeps
  <1>3. ASSUME NEW t \in FTenants, binds[t] # <<>>, NextBinding(a, binds[t][1]) PROVE FEInv'
    <2>1. binds[t][1] \in SUBSET Fns
      BY <1>3 DEF FEInv, FEShape
    <2> QED  BY <1>2, <1>3, <2>1, BindingRows DEF NextBinding, BindingRow
  <1>4. ASSUME NEW t \in FTenants, NEW ev, BindRead(a, t, ev) PROVE FEInv'
    <2>1. BoundNow(t) \in SUBSET Fns
      BY DEF BoundNow
    <2>2. FGoto(a, [pc |-> "load", tenant |-> t, got |-> BoundNow(t), ev |-> ev])
      BY <1>4 DEF BindRead
    <2>3. Quiet([pc |-> "load", tenant |-> t, got |-> BoundNow(t), ev |-> ev])
      BY <2>1, QuietRows
    <2> QED  BY <1>2, <2>2, <2>3
  <1>5. ASSUME NEW f \in Fns, EnqueueManual(a, f) PROVE FEInv'
    <2>1. {f} \in SUBSET Fns
      OBVIOUS
    <2> QED  BY <1>2, <1>5, <2>1, BindingRows DEF EnqueueManual, NextBinding, BindingRow
  <1> QED  BY <1>3, <1>4, <1>5 DEF Dispatch, DispatchFile

LEMMA LoadedKeeps == ASSUME FEInv, NEW a \in FTasks, DispatchLoaded(a) PROVE FEInv'
  <1> DEFINE t == ftask[a].tenant
             g == ftask[a].got
  <1>1. ftask[a].pc = "load" /\ t \in FTenants /\ g \in SUBSET Fns
    BY TaskAt DEF DispatchLoaded, BindStore, FAt, TaskOK
  <1>2. /\ FGoto(a, BindingRow(g)) /\ binds' = [binds EXCEPT ![t] = <<g>>]
        /\ bindlate' = IF g = BoundNow(t) THEN bindlate \ {t} ELSE bindlate \cup {t}
        /\ UNCHANGED <<fnrow, depth, chan, lane, job>>
    BY DEF DispatchLoaded, BindStore, NextBinding, BindingRow, fqvars
  <1>3. \A u : PendingRow(ftask[a], u) => u = t
    BY <1>1 DEF PendingRow
  <1> HIDE DEF t, g
  <1> DEFINE e == <<g>>
  <1>4. e = <<>> \/ (\E x \in SUBSET Fns : e = <<x>> /\ (x = BoundNow(t) \/ t \in bindlate'))
    BY <1>1, <1>2
  <1>5. binds' = [binds EXCEPT ![t] = e]
    BY <1>2
  <1> HIDE DEF e
  <1>6. TaskOK(BindingRow(g)) /\ BindingRow(g).pc \notin {"full", "send"}
    BY <1>1, BindingRows DEF Quiet
  <1> QED  BY <1>1, <1>2, <1>3, <1>4, <1>5, <1>6, EntryKeeps

(* A tenant whose part of the queue a step leaves alone. *)
LEMMA OthersRest ==
    ASSUME NEW t \in FTenants, ExactAt(t), BoundedAt(t), depth'[t] = depth[t], Of(t, chan') = Of(t, chan),
           lane'[t] = lane[t], job'[t] = job[t], Counting(t)' = Counting(t), Sending(t)' = Sending(t)
    PROVE  ExactAt(t)' /\ BoundedAt(t)'
  <1>1. Of(t, chan)' = Of(t, chan')
    BY DEF Of
  <1> QED  BY <1>1 DEF ExactAt, BoundedAt, Queued, Serving

(* The steps of the queue change neither bindings nor rows. *)
LEMMA FreshRests ==
    ASSUME FEShape, NEW a \in FTasks, NEW r, FGoto(a, r), NEW t, FreshAt(t),
           ftask[a].pc \notin {"inval", "meta", "acl"}, UNCHANGED <<fnrow, binds, bindlate>>
    PROVE  FreshAt(t)'
  <1>1. ~PendingRow(ftask[a], t)
    BY DEF PendingRow
  <1>2. BoundNow(t)' = BoundNow(t)
    BY DEF BoundNow, Exists
  <1> QED  BY <1>1, <1>2, FreshStays

SlotRow(pc, f, todo) == [pc |-> pc, fn |-> f, todo |-> todo]
LEMMA SlotRows ==
    ASSUME NEW pc \in {"full", "send"}, NEW f \in Fns, NEW todo \in SUBSET Fns
    PROVE  /\ TaskOK(SlotRow(pc, f, todo)) /\ SlotRow(pc, f, todo).pc = pc /\ SlotRow(pc, f, todo).fn = f
           /\ \A t : CountRow(SlotRow(pc, f, todo), t) <=> t = Home(f)
  BY DEF TaskOK, CountRow, SlotRow

(* A task takes a slot, or gives one back. *)
LEMMA SlotTaken ==
    ASSUME FEShape, NEW a \in FTasks, NEW r, FGoto(a, r), NEW t, ~CountRow(ftask[a], t), CountRow(r, t)
    PROVE  /\ Cardinality(Counting(t)') = Cardinality(Counting(t)) + 1
           /\ Cardinality(Sending(t)') = Cardinality(Sending(t)) + (IF r.pc = "send" THEN 1 ELSE 0)
  <1>1. \A b \in FTasks : ftask'[b] = IF b = a THEN r ELSE ftask[b]
    BY DEF FGoto, FEShape
  <1>2. Counting(t)' = Counting(t) \cup {a} /\ a \notin Counting(t)
    BY <1>1 DEF Counting, CountRow
  <1>3. a \notin Sending(t) /\ Sending(t) \subseteq Counting(t)
    BY <1>2 DEF Sending
  <1>4. CASE r.pc = "send"
    <2>1. Sending(t)' = Sending(t) \cup {a}
      BY <1>1, <1>2, <1>4 DEF Sending, FAt, Counting
    <2> QED  BY <1>2, <1>3, <1>4, <2>1, CountingFinite, FS_AddElement
  <1>5. CASE r.pc # "send"
    <2>1. Sending(t)' = Sending(t)
      BY <1>1, <1>2, <1>5 DEF Sending, FAt, Counting
    <2>2. Cardinality(Counting(t)') = Cardinality(Counting(t)) + 1
      BY <1>2, CountingFinite, FS_AddElement
    <2>3. Cardinality(Sending(t)) \in Nat
      BY CountingFinite
    <2> QED  BY <1>5, <2>1, <2>2, <2>3
  <1> QED  BY <1>4, <1>5

LEMMA SlotGiven ==
    ASSUME FEShape, NEW a \in FTasks, NEW r, FGoto(a, r), NEW t, CountRow(ftask[a], t), ~CountRow(r, t)
    PROVE  /\ Cardinality(Counting(t)') = Cardinality(Counting(t)) - 1
           /\ Cardinality(Sending(t)') = Cardinality(Sending(t)) - (IF ftask[a].pc = "send" THEN 1 ELSE 0)
  <1>1. \A b \in FTasks : ftask'[b] = IF b = a THEN r ELSE ftask[b]
    BY DEF FGoto, FEShape
  <1>2. Counting(t)' = Counting(t) \ {a} /\ a \in Counting(t)
    BY <1>1 DEF Counting, CountRow
  <1>3. CASE ftask[a].pc = "send"
    <2>1. Sending(t)' = Sending(t) \ {a} /\ a \in Sending(t)
      BY <1>1, <1>2, <1>3 DEF Sending, FAt, Counting
    <2> QED  BY <1>2, <1>3, <2>1, CountingFinite, FS_RemoveElement
  <1>4. CASE ftask[a].pc # "send"
    <2>1. Sending(t)' = Sending(t)
      BY <1>1, <1>2, <1>4 DEF Sending, FAt, Counting
    <2>2. Cardinality(Counting(t)') = Cardinality(Counting(t)) - 1
      BY <1>2, CountingFinite, FS_RemoveElement
    <2>3. Cardinality(Sending(t)) \in Nat
      BY CountingFinite
    <2> QED  BY <1>4, <2>1, <2>2, <2>3
  <1> QED  BY <1>3, <1>4

(* enqueue raises the count and looks at what it was: below QueueDepth     *)
(* there is room for one more, since all that is admitted is counted.      *)
LEMMA AddKeeps == ASSUME FEInv, NEW a \in FTasks, EnqueueAdd(a) PROVE FEInv'
  <1>1. ftask[a].pc = "enqueue" /\ ftask[a].todo \in SUBSET Fns
    BY TaskAt DEF EnqueueAdd, FAt, TaskOK
  <1>2. PICK f \in ftask[a].todo :
            /\ depth' = [depth EXCEPT ![Home(f)] = @ + 1]
            /\ FGoto(a, SlotRow(IF depth[Home(f)] >= QueueDepth THEN "full" ELSE "send", f, ftask[a].todo \ {f}))
    BY DEF EnqueueAdd, SlotRow
  <1> DEFINE h == Home(f)
             pc == IF depth[h] >= QueueDepth THEN "full" ELSE "send"
             r == SlotRow(pc, f, ftask[a].todo \ {f})
  <1>3. f \in Fns /\ h \in FTenants /\ ftask[a].todo \ {f} \in SUBSET Fns /\ pc \in {"full", "send"}
    BY <1>1, HomeIn
  <1>4. UNCHANGED <<fnrow, binds, bindlate, chan, lane, job>> /\ FGoto(a, r)
    BY <1>2 DEF EnqueueAdd, fsvars
  <1>5. TaskOK(r) /\ r.pc = pc /\ \A t : CountRow(r, t) <=> t = h
    BY <1>3, SlotRows
  <1>6. FEShape /\ \A t : ~CountRow(ftask[a], t)
    BY <1>1 DEF FEInv, CountRow
  <1>7. depth' \in [FTenants -> Nat] /\ depth'[h] = depth[h] + 1 /\ \A t \in FTenants : t # h => depth'[t] = depth[t]
    BY <1>2, <1>3, <1>6 DEF FEShape
  <1>8. QueueDepth \in Nat
    BY FunctionExecutorAssumption
  <1> HIDE DEF r, h
  <1>9. FEShape'
    <2>1. DOMAIN ftask' = FTasks /\ \A b \in FTasks : TaskOK(ftask'[b])
      BY <1>4, <1>5, <1>6, TasksTyped
    <2> QED  BY <1>4, <1>6, <1>7, <2>1 DEF FEShape, TaskOK
  <1>10. ASSUME NEW t \in FTenants PROVE FreshAt(t)' /\ ExactAt(t)' /\ BoundedAt(t)'
    <2>1. FreshAt(t) /\ ExactAt(t) /\ BoundedAt(t)
      BY DEF FEInv
    <2>2. FreshAt(t)'
      BY <1>1, <1>4, <1>6, <2>1, FreshRests
    <2>3. CASE t = h
      <3>1. /\ Cardinality(Counting(t)') = Cardinality(Counting(t)) + 1
            /\ Cardinality(Sending(t)') = Cardinality(Sending(t)) + (IF pc = "send" THEN 1 ELSE 0)
        BY <1>4, <1>5, <1>6, <2>3, SlotTaken
      <3>2. Queued(t)' = Queued(t) /\ Queued(t) \in Nat /\ depth[t] \in Nat
        BY <1>4, <1>6, QueuedType DEF Queued, Of, Serving, FEShape
      <3>3. Cardinality(Counting(t)) \in Nat /\ Cardinality(Sending(t)) \in Nat
            /\ Cardinality(Sending(t)) <= Cardinality(Counting(t))
        BY CountingFinite
      <3>4. ExactAt(t)'
        BY <1>7, <2>1, <2>3, <3>1, <3>2, <3>3 DEF ExactAt
      <3>5. BoundedAt(t)'
        BY <1>7, <1>8, <2>1, <2>3, <3>1, <3>2, <3>3 DEF BoundedAt, ExactAt
      <3> QED  BY <2>2, <3>4, <3>5
    <2>4. CASE t # h
      <3>1. Counting(t)' = Counting(t) /\ Sending(t)' = Sending(t)
        BY <1>4, <1>5, <1>6, <2>4, Uncounted
      <3> QED  BY <1>4, <1>7, <2>1, <2>2, <2>4, <3>1, OthersRest
    <2> QED  BY <2>3, <2>4
  <1> QED  BY <1>9, <1>10 DEF FEInv

LEMMA FullKeeps == ASSUME FEInv, NEW a \in FTasks, EnqueueFull(a) PROVE FEInv'
  <1> DEFINE r == BindingRow(ftask[a].todo)
  <1>0. ftask[a].pc = "full" /\ ftask[a].todo \in SUBSET Fns /\ Home(ftask[a].fn) \in FTenants
    BY TaskAt, HomeIn DEF EnqueueFull, FAt, TaskOK
  <1>1. PICK h \in FTenants : h = Home(ftask[a].fn) /\ ftask[a].pc = "full" /\ ftask[a].todo \in SUBSET Fns
    BY <1>0
  <1>2. /\ depth' = [depth EXCEPT ![h] = @ - 1] /\ FGoto(a, r)
        /\ UNCHANGED <<fnrow, binds, bindlate, chan, lane, job>>
    BY <1>1 DEF EnqueueFull, NextBinding, BindingRow
  <1>3. FEShape /\ \A t : CountRow(ftask[a], t) <=> t = h
    BY <1>1 DEF FEInv, CountRow
  <1>4. Quiet(r) /\ TaskOK(r) /\ \A t : ~CountRow(r, t)
    BY <1>1, BindingRows DEF Quiet, CountRow
  <1> HIDE DEF r
  <1>5. /\ Cardinality(Counting(h)') = Cardinality(Counting(h)) - 1
        /\ Cardinality(Sending(h)') = Cardinality(Sending(h)) - 0
    BY <1>1, <1>2, <1>3, <1>4, SlotGiven
  <1>6. Cardinality(Counting(h)) \in Nat /\ Cardinality(Sending(h)) \in Nat /\ Cardinality(Counting(h)') \in Nat
    <2>1. \A t : Cardinality(Counting(t)) \in Nat /\ Cardinality(Sending(t)) \in Nat
      BY CountingFinite
    <2>2. Counting(h)' \in SUBSET FTasks /\ IsFiniteSet(FTasks)
      BY FunctionExecutorAssumption DEF Counting
    <2>3. IsFiniteSet(Counting(h)')
      BY <2>2, FS_Subset
    <2> QED  BY <2>1, <2>3, FS_CardinalityType
  <1>7. Queued(h)' = Queued(h) /\ Queued(h) \in Nat /\ depth[h] \in Nat
    BY <1>1, <1>2, <1>3, QueuedType DEF Queued, Of, Serving, FEShape
  <1>8. ExactAt(h) /\ BoundedAt(h)
    BY <1>1 DEF FEInv
  <1>9. depth[h] - 1 \in Nat
    BY <1>5, <1>6, <1>7, <1>8 DEF ExactAt
  <1>10. depth' \in [FTenants -> Nat] /\ depth'[h] = depth[h] - 1 /\ \A t \in FTenants : t # h => depth'[t] = depth[t]
    BY <1>1, <1>2, <1>3, <1>9 DEF FEShape
  <1>11. FEShape'
    <2>1. DOMAIN ftask' = FTasks /\ \A b \in FTasks : TaskOK(ftask'[b])
      BY <1>2, <1>3, <1>4, TasksTyped
    <2> QED  BY <1>2, <1>3, <1>10, <2>1 DEF FEShape, TaskOK
  <1>12. ASSUME NEW t \in FTenants PROVE FreshAt(t)' /\ ExactAt(t)' /\ BoundedAt(t)'
    <2>1. FreshAt(t) /\ ExactAt(t) /\ BoundedAt(t)
      BY DEF FEInv
    <2>2. FreshAt(t)'
      BY <1>1, <1>2, <1>3, <2>1, FreshRests
    <2>3. CASE t = h
      <3>1. ExactAt(t)'
        BY <1>5, <1>6, <1>7, <1>8, <1>10, <2>3 DEF ExactAt
      <3>2. BoundedAt(t)'
        BY <1>5, <1>6, <1>7, <1>8, <2>3 DEF BoundedAt
      <3> QED  BY <2>2, <3>1, <3>2
    <2>4. CASE t # h
      <3>1. Counting(t)' = Counting(t) /\ Sending(t)' = Sending(t)
        BY <1>2, <1>3, <1>4, <2>4, Uncounted
      <3> QED  BY <1>2, <1>10, <2>1, <2>2, <2>4, <3>1, OthersRest
    <2> QED  BY <2>3, <2>4
  <1> QED  BY <1>11, <1>12 DEF FEInv

LEMMA SendKeeps == ASSUME FEInv, NEW a \in FTasks, EnqueueSend(a) PROVE FEInv'
  <1> DEFINE f == ftask[a].fn
             h == Home(f)
             r == BindingRow(ftask[a].todo)
             e == [fn |-> f, who |-> "privileged"]
  <1>1. ftask[a].pc = "send" /\ ftask[a].todo \in SUBSET Fns /\ f \in Fns /\ h \in FTenants
    BY TaskAt, HomeIn DEF EnqueueSend, FAt, TaskOK
  <1>2. e \in Invs /\ e.fn = f
    BY <1>1 DEF Invs, Whos
  <1>3. /\ chan' = Append(chan, e) /\ FGoto(a, r)
        /\ UNCHANGED <<fnrow, binds, bindlate, depth, lane, job>>
    BY DEF EnqueueSend, NextBinding, BindingRow, fsvars
  <1>4. FEShape /\ chan \in Seq(Invs) /\ \A t : CountRow(ftask[a], t) <=> t = h
    BY <1>1 DEF FEInv, FEShape, CountRow
  <1>5. Quiet(r) /\ TaskOK(r) /\ \A t : ~CountRow(r, t)
    BY <1>1, BindingRows DEF Quiet, CountRow
  <1>6. \A t : Of(t, chan') = IF h = t THEN Of(t, chan) + 1 ELSE Of(t, chan)
    BY <1>2, <1>3, <1>4, OfAppend
  <1>7. chan' \in Seq(Invs)
    BY <1>2, <1>3, <1>4
  <1> HIDE DEF f, h, r, e
  <1>8. FEShape'
    <2>1. DOMAIN ftask' = FTasks /\ \A b \in FTasks : TaskOK(ftask'[b])
      BY <1>3, <1>4, <1>5, TasksTyped
    <2> QED  BY <1>3, <1>4, <1>7, <2>1 DEF FEShape, TaskOK
  <1>9. ASSUME NEW t \in FTenants PROVE FreshAt(t)' /\ ExactAt(t)' /\ BoundedAt(t)'
    <2>1. FreshAt(t) /\ ExactAt(t) /\ BoundedAt(t)
      BY DEF FEInv
    <2>2. FreshAt(t)'
      BY <1>1, <1>3, <1>4, <2>1, FreshRests
    <2>3. CASE t = h
      <3>1. /\ Cardinality(Counting(t)') = Cardinality(Counting(t)) - 1
            /\ Cardinality(Sending(t)') = Cardinality(Sending(t)) - 1
        BY <1>1, <1>3, <1>4, <1>5, <2>3, SlotGiven
      <3>2. Cardinality(Counting(t)) \in Nat /\ Cardinality(Sending(t)) \in Nat
        BY CountingFinite
      <3>3. Of(t, chan)' = Of(t, chan) + 1
        BY <1>6, <2>3 DEF Of
      <3>4. Serving(t)' = Serving(t) /\ lane'[t] = lane[t]
        BY <1>3 DEF Serving
      <3>5. Of(t, chan) \in Nat /\ Len(lane[t]) \in Nat /\ Serving(t) \in {0, 1}
        BY <1>4, QueuedType
      <3>6. Queued(t)' = Queued(t) + 1 /\ Queued(t) \in Nat
        BY <3>3, <3>4, <3>5 DEF Queued
      <3>7. QueueDepth \in Nat /\ depth[t] \in Nat /\ depth'[t] = depth[t]
        BY <1>3, <1>4, FunctionExecutorAssumption DEF FEShape
      <3>8. ExactAt(t)'
        BY <2>1, <3>1, <3>2, <3>6, <3>7 DEF ExactAt
      <3>9. BoundedAt(t)'
        BY <2>1, <3>1, <3>2, <3>6, <3>7 DEF BoundedAt
      <3> QED  BY <2>2, <3>8, <3>9
    <2>4. CASE t # h
      <3>1. Counting(t)' = Counting(t) /\ Sending(t)' = Sending(t)
        BY <1>3, <1>4, <1>5, <2>4, Uncounted
      <3>2. Of(t, chan') = Of(t, chan)
        BY <1>6, <2>4
      <3> QED  BY <1>3, <2>1, <2>2, <2>4, <3>1, <3>2, OthersRest
    <2> QED  BY <2>3, <2>4
  <1> QED  BY <1>8, <1>9 DEF FEInv

----------------------------------------------------------------------------
(* Lanes and runs: no task moves. *)
LEMMA LanesMove ==
    ASSUME FEInv, UNCHANGED <<fnrow, binds, bindlate, ftask>>, depth' \in [FTenants -> Nat],
           chan' \in Seq(Invs), lane' \in [FTenants -> Seq(Invs)], DOMAIN job' = Workers,
           \A t \in FTenants : /\ depth'[t] - Queued(t)' = depth[t] - Queued(t)
                               /\ Queued(t)' <= Queued(t) /\ Queued(t)' \in Nat
    PROVE  FEInv'
  <1>1. FEShape'
    BY DEF FEInv, FEShape, TaskOK
  <1>2. ASSUME NEW t \in FTenants PROVE FreshAt(t)' /\ ExactAt(t)' /\ BoundedAt(t)'
    <2>1. FreshAt(t) /\ ExactAt(t) /\ BoundedAt(t) /\ FEShape
      BY DEF FEInv
    <2>2. Counting(t)' = Counting(t) /\ Sending(t)' = Sending(t)
      BY DEF Counting, Sending, FAt
    <2>3. FreshAt(t)'
      BY <2>1 DEF FreshAt, BoundNow, Exists, Pending, FAt
    <2>4. /\ Cardinality(Counting(t)) \in Nat /\ Cardinality(Sending(t)) \in Nat /\ Queued(t) \in Nat
          /\ depth[t] \in Nat /\ depth'[t] \in Nat
      BY <2>1, CountingFinite, QueuedType DEF FEShape
    <2>5. QueueDepth \in Nat
      BY FunctionExecutorAssumption
    <2>6. /\ depth'[t] - Queued(t)' = depth[t] - Queued(t)
          /\ Queued(t)' <= Queued(t) /\ Queued(t)' \in Nat
      OBVIOUS
    <2>7. ExactAt(t)'
      BY <2>1, <2>2, <2>4, <2>6 DEF ExactAt
    <2>8. BoundedAt(t)'
      BY <2>1, <2>2, <2>4, <2>5, <2>6 DEF BoundedAt
    <2> QED  BY <2>3, <2>7, <2>8
  <1> QED  BY <1>1, <1>2 DEF FEInv

LEMMA RouteKeeps == ASSUME FEInv, RouteToLane PROVE FEInv'
  <1> DEFINE h == Home(Head(chan).fn)
  <1>1. FEShape /\ chan \in Seq(Invs) /\ chan # <<>> /\ lane \in [FTenants -> Seq(Invs)]
    BY DEF FEInv, FEShape, RouteToLane
  <1>2. Head(chan) \in Invs /\ Tail(chan) \in Seq(Invs)
    BY <1>1
  <1>3. h \in FTenants
    BY <1>2, HomeIn DEF Invs
  <1>4. /\ chan' = Tail(chan) /\ lane' = [lane EXCEPT ![h] = Append(@, Head(chan))]
        /\ UNCHANGED <<fnrow, binds, bindlate, ftask, depth, job>>
    BY DEF RouteToLane, fsvars
  <1>5. \A t : Of(t, chan) = IF h = t THEN Of(t, chan') + 1 ELSE Of(t, chan')
    BY <1>1, <1>4, OfTail
  <1> HIDE DEF h
  <1>6. lane[h] \in Seq(Invs) /\ Append(lane[h], Head(chan)) \in Seq(Invs)
        /\ Len(Append(lane[h], Head(chan))) = Len(lane[h]) + 1
    BY <1>1, <1>2, <1>3
  <1>7. /\ lane' \in [FTenants -> Seq(Invs)] /\ Len(lane'[h]) = Len(lane[h]) + 1
        /\ \A t \in FTenants : t # h => lane'[t] = lane[t]
    BY <1>1, <1>3, <1>4, <1>6
  <1>8. ASSUME NEW t \in FTenants PROVE Queued(t)' = Queued(t)
    <2>1. Of(t, chan)' = Of(t, chan') /\ Serving(t)' = Serving(t)
      BY <1>4 DEF Of, Serving
    <2>2. Of(t, chan) \in Nat /\ Len(lane[t]) \in Nat /\ Serving(t) \in {0, 1} /\ Of(t, chan') \in Nat
      BY <1>1, <1>2, <1>4, QueuedType, PlacesFinite
    <2>3. CASE t = h
      BY <1>5, <1>7, <2>1, <2>2, <2>3 DEF Queued
    <2>4. CASE t # h
      BY <1>5, <1>7, <2>1, <2>2, <2>4 DEF Queued
    <2> QED  BY <2>3, <2>4
  <1>9. \A t \in FTenants : depth'[t] = depth[t] /\ depth[t] \in Nat /\ Queued(t) \in Nat
    BY <1>1, <1>4, QueuedType DEF FEShape
  <1>10. depth' \in [FTenants -> Nat] /\ chan' \in Seq(Invs) /\ DOMAIN job' = Workers
    BY <1>1, <1>2, <1>4 DEF FEShape
  <1> QED  BY <1>4, <1>7, <1>8, <1>9, <1>10, LanesMove

(* The worker of lane h, or a call, changes what it does. *)
LEMMA JobsMove ==
    ASSUME FEInv, UNCHANGED <<fnrow, binds, bindlate, ftask, depth, chan, lane>>,
           NEW w \in Workers, NEW r, job' = [job EXCEPT ![w] = r],
           w \in Calls \/ (r # JIdle /\ job[w] # JIdle)
    PROVE  FEInv'
  <1>1. FEShape
    BY DEF FEInv
  <1>2. DOMAIN job' = Workers /\ \A v \in Workers : job'[v] = IF v = w THEN r ELSE job[v]
    BY <1>1 DEF FEShape
  <1>3. ASSUME NEW t \in FTenants PROVE Serving(t)' = Serving(t)
    <2>1. t \in Workers /\ t \notin Calls
      BY FunctionExecutorAssumption DEF Workers
    <2> QED  BY <1>2, <2>1 DEF Serving
  <1>4. \A t \in FTenants : Queued(t)' = Queued(t)
    BY <1>3 DEF Queued, Of
  <1>5. \A t \in FTenants : depth'[t] = depth[t] /\ depth[t] \in Nat /\ Queued(t) \in Nat
    BY <1>1, QueuedType DEF FEShape
  <1>6. depth' \in [FTenants -> Nat] /\ chan' \in Seq(Invs) /\ lane' \in [FTenants -> Seq(Invs)]
    BY <1>1 DEF FEShape
  <1> QED  BY <1>2, <1>4, <1>5, <1>6, LanesMove

LEMMA RunKeeps ==
    ASSUME FEInv, NEW w \in Workers,
           RunLock(w) \/ RunPermit(w) \/ ResolveAndRun(w) \/ RunnerRun(w) \/ RecordInvocation(w)
    PROVE  FEInv'
  <1>1. UNCHANGED <<fnrow, binds, bindlate, ftask, depth, chan, lane>>
    BY DEF RunLock, RunPermit, ResolveAndRun, RunnerRun, RecordInvocation, fsvars
  <1>2. job[w].pc \in {"lock", "permit", "resolve", "run", "record"}
    BY DEF RunLock, RunPermit, ResolveAndRun, RunnerRun, RecordInvocation
  <1>3. job[w] # JIdle
    BY <1>2 DEF JIdle
  <1>4. \E r : job' = [job EXCEPT ![w] = r] /\ (w \in Calls \/ r # JIdle)
    <2>1. \A pc \in {"permit", "resolve", "record"} : \A i : [pc |-> pc, inv |-> i] # JIdle
      BY DEF JIdle
    <2>2. \A i, s : [pc |-> "run", inv |-> i, sha |-> s] # JIdle
      BY DEF JIdle
    <2>3. [pc |-> "done"] # JIdle
      BY DEF JIdle
    <2>4. CASE RunLock(w) \/ RunPermit(w)
      BY <2>1, <2>4 DEF RunLock, RunPermit, JGoto
    <2>5. CASE RunnerRun(w)
      <3> DEFINE r == [pc |-> "record", inv |-> job[w].inv]
      <3>1. job' = [job EXCEPT ![w] = r] /\ r # JIdle
        BY <2>1, <2>5 DEF RunnerRun
      <3> HIDE DEF r
      <3> QED  BY <3>1
    <2>6. CASE RecordInvocation(w)
      BY <2>3, <2>6 DEF RecordInvocation
    <2>7. CASE ResolveAndRun(w)
      <3> DEFINE f == job[w].inv.fn
                 r == IF Home(f) \in flive /\ Exists(f) /\ fnrow[f].active /\ Allowed(fnrow[f], job[w].inv.who)
                      THEN [pc |-> "run", inv |-> job[w].inv, sha |-> fnrow[f].sha]
                      ELSE [pc |-> "record", inv |-> job[w].inv]
      <3>1. job' = [job EXCEPT ![w] = r]
        BY <2>7 DEF ResolveAndRun
      <3>2. r # JIdle
        BY <2>1, <2>2
      <3> HIDE DEF r
      <3> QED  BY <3>1, <3>2
    <2> QED  BY <2>4, <2>5, <2>6, <2>7
  <1> QED  BY <1>1, <1>3, <1>4, JobsMove

LEMMA CallsKeep ==
    ASSUME FEInv, NEW c \in Calls,
           CallDrop(c) \/ (\E f, who : Call(c, f, who))
    PROVE  FEInv'
  <1>1. UNCHANGED <<fnrow, binds, bindlate, ftask, depth, chan, lane>>
    BY DEF CallDrop, Call, fsvars
  <1>2. c \in Workers /\ \E r : job' = [job EXCEPT ![c] = r]
    BY DEF CallDrop, Call, Workers
  <1> QED  BY <1>1, <1>2, JobsMove

(* A lane takes an invocation, or returns its slot: the one place where    *)
(* the depth goes down by a run.                                           *)
LEMMA LaneKeeps == ASSUME FEInv, NEW h \in FTenants, LaneStep(h) PROVE FEInv'
  <1>1. FEShape /\ h \in Workers /\ lane \in [FTenants -> Seq(Invs)] /\ depth \in [FTenants -> Nat]
    BY DEF FEInv, FEShape, Workers
  <1>2. UNCHANGED <<fnrow, binds, bindlate, ftask, chan>> /\ chan' \in Seq(Invs)
    BY <1>1 DEF LaneStep, LaneTake, LaneDone, fsvars, FEShape
  <1>3. \A t \in FTenants : /\ Of(t, chan) \in Nat /\ Len(lane[t]) \in Nat /\ Serving(t) \in {0, 1}
                            /\ Queued(t) \in Nat /\ depth[t] \in Nat
    BY <1>1, QueuedType DEF FEShape
  <1>4. \A t : Of(t, chan)' = Of(t, chan)
    BY <1>2 DEF Of
  <1>5. ASSUME LaneTake(h) PROVE FEInv'
    <2> DEFINE r == [pc |-> "lock", inv |-> Head(lane[h])]
    <2>1. r # JIdle /\ job[h] = JIdle
      BY <1>5 DEF LaneTake, JIdle
    <2>2. job' = [job EXCEPT ![h] = r] /\ lane' = [lane EXCEPT ![h] = Tail(@)] /\ UNCHANGED depth
      BY <1>5 DEF LaneTake
    <2> HIDE DEF r
    <2>3. lane[h] \in Seq(Invs) /\ lane[h] # <<>>
      BY <1>1, <1>5 DEF LaneTake
    <2>4. Tail(lane[h]) \in Seq(Invs) /\ Len(Tail(lane[h])) = Len(lane[h]) - 1
      BY <2>3
    <2>5. /\ lane' \in [FTenants -> Seq(Invs)] /\ Len(lane'[h]) = Len(lane[h]) - 1
          /\ \A t \in FTenants : t # h => lane'[t] = lane[t]
      BY <1>1, <2>2, <2>4
    <2>6. DOMAIN job' = Workers /\ job'[h] = r /\ \A t \in FTenants : t # h => job'[t] = job[t]
      BY <1>1, <2>2 DEF FEShape, Workers
    <2>7. Serving(h) = 0 /\ Serving(h)' = 1 /\ \A t \in FTenants : t # h => Serving(t)' = Serving(t)
      BY <2>1, <2>6 DEF Serving
    <2>8. ASSUME NEW t \in FTenants PROVE Queued(t)' = Queued(t)
      <3>1. CASE t = h
        BY <1>3, <1>4, <2>5, <2>7, <3>1 DEF Queued
      <3>2. CASE t # h
        BY <1>3, <1>4, <2>5, <2>7, <3>2 DEF Queued
      <3> QED  BY <3>1, <3>2
    <2>9. depth' \in [FTenants -> Nat] /\ \A t \in FTenants : depth'[t] = depth[t]
      BY <1>1, <2>2
    <2> QED  BY <1>2, <1>3, <2>5, <2>6, <2>8, <2>9, LanesMove
  <1>6. ASSUME LaneDone(h) PROVE FEInv'
    <2>1. job[h] # JIdle
      BY <1>6 DEF LaneDone, JIdle
    <2>2. /\ job' = [job EXCEPT ![h] = JIdle] /\ UNCHANGED lane
          /\ depth' = [depth EXCEPT ![h] = IF @ > 0 THEN @ - 1 ELSE 0]
      BY <1>6 DEF LaneDone
    <2>3. DOMAIN job' = Workers /\ job'[h] = JIdle /\ \A t \in FTenants : t # h => job'[t] = job[t]
      BY <1>1, <2>2 DEF FEShape, Workers
    <2>4. Serving(h) = 1 /\ Serving(h)' = 0 /\ \A t \in FTenants : t # h => Serving(t)' = Serving(t)
      BY <2>1, <2>3 DEF Serving
    <2>5. Queued(h)' = Queued(h) - 1 /\ Queued(h)' \in Nat /\ \A t \in FTenants : t # h => Queued(t)' = Queued(t)
      BY <1>3, <1>4, <2>2, <2>4 DEF Queued
    <2>6. depth[h] > 0
      <3>1. ExactAt(h) /\ Cardinality(Counting(h)) \in Nat
        BY CountingFinite DEF FEInv
      <3> QED  BY <1>3, <2>5, <3>1 DEF ExactAt
    <2>7. /\ depth' \in [FTenants -> Nat] /\ depth'[h] = depth[h] - 1
          /\ \A t \in FTenants : t # h => depth'[t] = depth[t]
      BY <1>1, <1>3, <2>2, <2>6
    <2>8. \A t \in FTenants : /\ depth'[t] - Queued(t)' = depth[t] - Queued(t)
                              /\ Queued(t)' <= Queued(t) /\ Queued(t)' \in Nat
      BY <1>3, <2>5, <2>7
    <2>9. lane' \in [FTenants -> Seq(Invs)]
      BY <1>1, <2>2
    <2> QED  BY <1>2, <2>3, <2>7, <2>8, <2>9, LanesMove
  <1> QED  BY <1>5, <1>6 DEF LaneStep

----------------------------------------------------------------------------
LEMMA FEStep == ASSUME FEInv, FENext PROVE FEInv'
  <1>1. CASE Store /\ UNCHANGED <<fqvars, events>>
    BY <1>1, StoreKeeps
  <1>2. CASE Runtime
    BY <1>2, RouteKeeps, LoadedKeeps, AddKeeps, FullKeeps, SendKeeps, RunKeeps, LaneKeeps
       DEF Runtime, Enqueueing, RunInvocation
  <1>3. CASE Events
    BY <1>3, DispatchKeeps, CallsKeep DEF Events, ConsoleInvoke, McpInvokeFunction, Invoke
  <1> QED  BY <1>1, <1>2, <1>3 DEF FENext

LEMMA FERests == ASSUME FEInv, UNCHANGED fevars PROVE FEInv'
  <1>1. UNCHANGED <<fnrow, binds, bindlate, ftask, depth, chan, lane, job>>
    BY DEF fevars, fsvars
  <1>2. FEShape'
    BY <1>1 DEF FEInv, FEShape, TaskOK
  <1>3. ASSUME NEW t \in FTenants PROVE FreshAt(t)' /\ ExactAt(t)' /\ BoundedAt(t)'
    <2>1. FreshAt(t) /\ ExactAt(t) /\ BoundedAt(t)
      BY DEF FEInv
    <2>2. Counting(t)' = Counting(t) /\ Sending(t)' = Sending(t)
      BY <1>1 DEF Counting, Sending, FAt
    <2>3. FreshAt(t)'
      BY <1>1, <2>1 DEF FreshAt, BoundNow, Exists, Pending, FAt
    <2> QED  BY <1>1, <2>1, <2>2, <2>3, QueueRests
  <1> QED  BY <1>2, <1>3 DEF FEInv

LEMMA FEInvariant == FESpec => []FEInv
  <1>1. FEInv /\ [FENext]_fevars => FEInv'
    BY FEStep, FERests
  <1> QED  BY <1>1, FEInitial, PTL DEF FESpec

(* The cached bindings of a tenant are its active bound functions, unless  *)
(* an invalidation is still to come or a load or a dropped handler left an *)
(* entry to the safety TTL (BindingCache and the routes of functions).     *)
THEOREM BindingsFresh == FESpec => []BindFresh
  <1>1. FEInv => BindFresh
    BY DEF FEInv, FreshAt, BindFresh
  <1> QED  BY <1>1, FEInvariant, PTL

(* The depth counter of a tenant is exactly what it admitted and has not   *)
(* finished: no path through dispatcher, channel, lane and run leaks a     *)
(* slot or returns one twice.                                              *)
THEOREM DepthIsExact == FESpec => []DepthExact
  <1>1. FEInv => DepthExact
    <2> SUFFICES ASSUME FEInv, NEW t \in FTenants
                 PROVE  depth[t] = Cardinality(Counting(t)) + Of(t, chan) + Len(lane[t]) + Serving(t)
      BY DEF DepthExact
    <2>1. ExactAt(t) /\ FEShape /\ Cardinality(Counting(t)) \in Nat
      BY CountingFinite DEF FEInv
    <2> QED  BY <2>1, QueuedType DEF ExactAt, Queued
  <1> QED  BY <1>1, FEInvariant, PTL

(* However many events race, a tenant never has more than QueueDepth       *)
(* invocations admitted, in the channel, in its lane and running there.    *)
THEOREM QueueIsBounded == FESpec => []QueueBounded
  <1>1. FEInv => QueueBounded
    <2> SUFFICES ASSUME FEInv, NEW t \in FTenants
                 PROVE  Cardinality(Sending(t)) + Of(t, chan) + Len(lane[t]) + Serving(t) <= QueueDepth
      BY DEF QueueBounded
    <2>1. BoundedAt(t) /\ FEShape /\ Cardinality(Sending(t)) \in Nat
      BY CountingFinite DEF FEInv
    <2> QED  BY <2>1, QueuedType DEF BoundedAt, Queued
  <1> QED  BY <1>1, FEInvariant, PTL
=============================================================================
