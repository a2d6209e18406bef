---------------------------- MODULE TenantUsers ----------------------------
(***************************************************************************)
(* End users of one tenant: rows of _system_users, their sessions, the     *)
(* bearer cache in front of them, OAuth logins, the settings every cached  *)
(* bearer carries along, and the tenant's role tokens.  A task is a        *)
(* handler in flight: a password is verified on a reader, the session is   *)
(* opened later on the writer; rows are deleted by one call, the cache is  *)
(* cleared by the next; the bearer layer looks a token up and caches it    *)
(* afterwards.  Who may call the service's handlers is AdminIdentity's and *)
(* PatRevocation's subject, deleting a user's records RecordStore's.       *)
(***************************************************************************)
EXTENDS Naturals, FiniteSets

CONSTANTS
    Uids, Emails, Pws,  \* user ids, e-mail addresses up to case, passwords
    Toks,               \* session tokens, each minted at most once
    RoleToks,           \* values of the tenant's service (or anon) token
    Uris,               \* redirect URIs
    UTasks,             \* handlers in flight at the same time
    MaxGates,           \* bound: changes of the cached settings
    OauthOnly,          \* the password hash of an account without password
    NoUser, NoSess, NoEntry, NoTok

ASSUME UsersAssumption ==
    /\ MaxGates \in Nat
    /\ OauthOnly \notin Pws /\ NoTok \notin Toks \cup RoleToks
    /\ Toks \cap RoleToks = {} /\ RoleToks # {}

VARIABLES
    urow,       \* _system_users
    usess,      \* _system_sessions
    ucache,     \* AuthCache: what is cached for a bearer
    rkey,       \* the tenant's live role token
    selfreg,    \* tenants.allow_self_register
    provider,   \* allowed_redirect_uris of the provider, {} when unset
    gates,      \* version of the settings a cached bearer carries
    flows,      \* redirect URIs of OAuth logins started and not expired
    slides,     \* spawned slide_expiry calls
    utask,      \* the handlers in flight
    minted,     \* history: tokens given out
    revoked,    \* history: tokens a handler has taken back
    late        \* history: sessions opened on a password replaced meanwhile

uhist == <<minted, revoked, late>>
ustate == <<urow, usess, ucache, rkey, selfreg, provider, gates, flows, slides>>
uvars == <<ustate, utask, uhist>>

UPcs == {"idle", "register", "session", "lookup", "insert", "in", "password",
         "clear", "exchange", "link"}
AnyUid == CHOOSE u \in Uids : TRUE
AnyEmail == CHOOSE e \in Emails : TRUE
UIdle == [pc |-> "idle", uid |-> AnyUid, tok |-> NoTok, email |-> AnyEmail,
          pw |-> OauthOnly, gates |-> 0, ok |-> FALSE]
UTaskRows == [pc : UPcs, uid : Uids, tok : Toks \cup RoleToks \cup {NoTok}, email : Emails,
              pw : Pws \cup {OauthOnly}, gates : 0 .. MaxGates, ok : BOOLEAN]
URows == [email : Emails, pw : Pws \cup {OauthOnly}, verified : BOOLEAN] \cup {NoUser}
USessRows == [uid : Uids, live : BOOLEAN, by : {"password", "oauth"}] \cup {NoSess}
UEntries == [uid : Uids, gates : 0 .. MaxGates, straddled : BOOLEAN, stale : BOOLEAN]
            \cup {NoEntry}

UInit ==
    /\ urow = [u \in Uids |-> NoUser] /\ usess = [k \in Toks |-> NoSess]
    /\ ucache = [k \in Toks \cup RoleToks |-> NoEntry]
    /\ rkey \in RoleToks /\ minted = {rkey}
    /\ selfreg \in BOOLEAN /\ provider \in SUBSET Uris /\ gates = 0
    /\ flows = {} /\ slides = {} /\ utask = [t \in UTasks |-> UIdle]
    /\ revoked = {} /\ late = {}

UGoto(t, r) == utask' = [utask EXCEPT ![t] = r]
UReturn(t) == UGoto(t, UIdle)
UAt(t, pc) == utask[t].pc = pc
UIdleAt(t) == UAt(t, "idle")

----------------------------------------------------------------------------
(* auth/user_session.rs and tenant/auth_cache.rs: the tables after a call. *)
SessionsOf(u) == {k \in Toks : usess[k] # NoSess /\ usess[k].uid = u}
LookupSession(k) == usess[k] # NoSess /\ usess[k].live
WithSession(sess, k, u, by) == [sess EXCEPT ![k] = [uid |-> u, live |-> TRUE, by |-> by]]
SlidExpiry(k) == IF usess[k] = NoSess THEN usess ELSE [usess EXCEPT ![k].live = TRUE]
Without(ks) == [k \in Toks |-> IF k \in ks THEN NoSess ELSE usess[k]]
ClearedUser(u) == [k \in DOMAIN ucache |->
    IF k \in Toks /\ ucache[k] # NoEntry /\ ucache[k].uid = u THEN NoEntry ELSE ucache[k]]
ClearedTenant == [k \in DOMAIN ucache |-> NoEntry]
ClearedRole == [k \in DOMAIN ucache |-> IF k \in RoleToks THEN NoEntry ELSE ucache[k]]

(* A fresh token for a user who still exists: user_id is a foreign key. *)
CreateSession(k, u, by, base) ==
    /\ k \in Toks \ minted /\ minted' = minted \cup {k}
    /\ usess' = WithSession(base, k, u, by)

(* email is UNIQUE, up to case. *)
HasEmail(e) == {u \in Uids : urow[u] # NoUser /\ urow[u].email = e}
NewUser(u, e, p, v) ==
    urow[u] = NoUser /\ urow' = [urow EXCEPT ![u] = [email |-> e, pw |-> p, verified |-> v]]
(* Ids are fresh UUIDs: one that had sessions is not given again. *)
FreshUid(u) ==
    /\ \A t \in UTasks : utask[t].pc \in {"session", "insert", "in", "password", "clear"}
                       => utask[t].uid # u
    /\ \A k \in Toks : ucache[k] # NoEntry => ucache[k].uid # u

----------------------------------------------------------------------------
(* tenant/auth_routes.rs: registering and logging in.  The flag is read    *)
(* before the password is hashed and the row inserted.                     *)
RegisterRead(t, e, p) ==
    /\ UIdleAt(t) /\ selfreg
    /\ UGoto(t, [UIdle EXCEPT !.pc = "register", !.email = e, !.pw = p])
    /\ UNCHANGED <<ustate, uhist>>
RegisterInsert(t, u) ==
    /\ UAt(t, "register") /\ UReturn(t)
    /\ IF HasEmail(utask[t].email) = {}
       THEN FreshUid(u) /\ NewUser(u, utask[t].email, utask[t].pw, FALSE)
       ELSE UNCHANGED urow
    /\ UNCHANGED <<usess, ucache, rkey, selfreg, provider, gates, flows, slides, uhist>>

LoginRead(t, e, p) ==
    /\ UIdleAt(t)
    /\ \E u \in HasEmail(e) : urow[u].pw = p
        /\ UGoto(t, [UIdle EXCEPT !.pc = "session", !.uid = u, !.pw = p])
    /\ UNCHANGED <<ustate, uhist>>
LoginCreate(t, k) ==
    LET u == utask[t].uid IN
    /\ UAt(t, "session") /\ UReturn(t)
    /\ IF urow[u] = NoUser THEN UNCHANGED <<usess, minted, late>>
       ELSE /\ CreateSession(k, u, "password", usess)
            /\ late' = IF urow[u].pw = utask[t].pw THEN late ELSE late \cup {k}
    /\ UNCHANGED <<urow, ucache, rkey, selfreg, provider, gates, flows, slides, revoked>>

----------------------------------------------------------------------------
(* tenant/router.rs, the bearer layer.  On a miss the settings are read    *)
(* from meta.sqlite with the role token, a session then from the tenant's  *)
(* database; the entry is inserted after both.                             *)
DoorHit(t, k) ==
    /\ UIdleAt(t) /\ ucache[k] # NoEntry
    /\ IF k \in Toks THEN UGoto(t, [UIdle EXCEPT !.pc = "in", !.uid = ucache[k].uid, !.tok = k])
       ELSE UNCHANGED utask
    /\ UNCHANGED <<ustate, uhist>>
DoorRow(t, k) ==
    /\ UIdleAt(t) /\ ucache[k] = NoEntry /\ k \in minted /\ (k \in RoleToks => k = rkey)
    /\ UGoto(t, [UIdle EXCEPT !.pc = IF k \in Toks THEN "lookup" ELSE "insert", !.tok = k,
                              !.gates = gates])
    /\ UNCHANGED <<ustate, uhist>>
DoorLookup(t) ==
    LET k == utask[t].tok IN
    /\ UAt(t, "lookup")
    /\ IF LookupSession(k)
       THEN /\ UGoto(t, [utask[t] EXCEPT !.pc = "insert", !.uid = usess[k].uid])
            /\ slides' = slides \cup {k}
       ELSE UReturn(t) /\ UNCHANGED slides
    /\ UNCHANGED <<urow, usess, ucache, rkey, selfreg, provider, gates, flows, uhist>>
DoorInsert(t) ==
    LET k == utask[t].tok IN
    /\ UAt(t, "insert")
    /\ ucache' = [ucache EXCEPT ![k] = [uid |-> utask[t].uid, gates |-> utask[t].gates,
                    straddled |-> k \in revoked, stale |-> utask[t].gates # gates]]
    /\ IF k \in Toks THEN UGoto(t, [utask[t] EXCEPT !.pc = "in", !.gates = 0]) ELSE UReturn(t)
    /\ UNCHANGED <<urow, usess, rkey, selfreg, provider, gates, flows, slides, uhist>>
SlideExpiry(k) ==
    /\ k \in slides /\ slides' = slides \ {k} /\ usess' = SlidExpiry(k)
    /\ UNCHANGED <<urow, ucache, rkey, selfreg, provider, gates, flows, utask, uhist>>
(* An entry is ten seconds old. *)
EntryExpires(k) ==
    /\ ucache[k] # NoEntry /\ ucache' = [ucache EXCEPT ![k] = NoEntry]
    /\ UNCHANGED <<urow, usess, rkey, selfreg, provider, gates, flows, slides, utask, uhist>>
(* Thirty days without a request, and the janitor's daily sweep. *)
SessionExpires(k) ==
    /\ LookupSession(k) /\ usess' = [usess EXCEPT ![k].live = FALSE]
    /\ UNCHANGED <<urow, ucache, rkey, selfreg, provider, gates, flows, slides, utask, uhist>>
SweepExpiredSessions ==
    /\ \E k \in Toks : usess[k] # NoSess /\ ~usess[k].live
    /\ usess' = Without({k \in Toks : usess[k] # NoSess /\ ~usess[k].live})
    /\ UNCHANGED <<urow, ucache, rkey, selfreg, provider, gates, flows, slides, utask, uhist>>

----------------------------------------------------------------------------
(* tenant/auth_routes.rs: what a user does with a session.  The handlers   *)
(* act on the AuthCtx the layer left, valid or not by now.                 *)
MeGet(t) == UAt(t, "in") /\ UReturn(t) /\ UNCHANGED <<ustate, uhist>>
(* Rows first, then revoke_user_realtime (the rooms are RoomBus's). *)
Revoke(t, u, ks) ==
    /\ usess' = Without(ks) /\ revoked' = revoked \cup ks
    /\ UGoto(t, [UIdle EXCEPT !.pc = "clear", !.uid = u])
UNREVOKED == UNCHANGED <<urow, ucache, rkey, selfreg, provider, gates, flows, slides, minted, late>>
Logout(t) == UAt(t, "in") /\ Revoke(t, utask[t].uid, {utask[t].tok} \cap SessionsOf(utask[t].uid)) /\ UNREVOKED
FaultLogoutAll(t) ==
    /\ UAt(t, "in") /\ usess' = Without(SessionsOf(utask[t].uid))
    /\ revoked' = revoked \cup SessionsOf(utask[t].uid) /\ UReturn(t) /\ UNREVOKED
LogoutAll(t) == UAt(t, "in") /\ Revoke(t, utask[t].uid, SessionsOf(utask[t].uid)) /\ UNREVOKED
RevokeUserRealtime(t) ==
    /\ UAt(t, "clear") /\ ucache' = ClearedUser(utask[t].uid) /\ UReturn(t)
    /\ UNCHANGED <<urow, usess, rkey, selfreg, provider, gates, flows, slides, uhist>>

(* The current password is verified on a reader; hash, sessions and the    *)
(* new session are one transaction later, which does not compare again.    *)
MePasswordRead(t, p) ==
    LET u == utask[t].uid IN
    /\ UAt(t, "in") /\ urow[u] # NoUser /\ urow[u].pw = p
    /\ UGoto(t, [utask[t] EXCEPT !.pc = "password", !.pw = p, !.tok = NoTok])
    /\ UNCHANGED <<ustate, uhist>>
MePasswordTx(t, p, k) ==
    LET u == utask[t].uid IN
    /\ UAt(t, "password")
    /\ IF urow[u] = NoUser THEN UReturn(t) /\ UNCHANGED <<urow, usess, uhist>>
       ELSE /\ urow' = [urow EXCEPT ![u].pw = p]
            /\ CreateSession(k, u, "password", Without(SessionsOf(u)))
            /\ revoked' = revoked \cup SessionsOf(u)
            /\ late' = IF urow[u].pw = utask[t].pw THEN late ELSE late \cup {k}
            /\ UGoto(t, [UIdle EXCEPT !.pc = "clear", !.uid = u])
    /\ UNCHANGED <<ucache, rkey, selfreg, provider, gates, flows, slides>>

----------------------------------------------------------------------------
(* tenant/admin_user_routes.rs and mcp/tools/user.rs: the service's view.  *)
(* A password it sets leaves the sessions alone.                           *)
CreateUser(t, u, e, p, v) ==
    /\ UIdleAt(t) /\ HasEmail(e) = {} /\ FreshUid(u) /\ NewUser(u, e, p, v)
    /\ UNCHANGED <<usess, ucache, rkey, selfreg, provider, gates, flows, slides, utask, uhist>>
UpdateUser(t, u, e, p, v) ==
    /\ UIdleAt(t) /\ urow[u] # NoUser /\ HasEmail(e) \subseteq {u}
    /\ urow' = [urow EXCEPT ![u] = [email |-> e, pw |-> p, verified |-> v]]
    /\ UNCHANGED <<usess, ucache, rkey, selfreg, provider, gates, flows, slides, utask, uhist>>
DeleteUser(t, u) ==
    /\ UIdleAt(t) /\ urow[u] # NoUser /\ urow' = [urow EXCEPT ![u] = NoUser]
    /\ Revoke(t, u, SessionsOf(u))
    /\ UNCHANGED <<ucache, rkey, selfreg, provider, gates, flows, slides, minted, late>>
RevokeSessions(t, u) == UIdleAt(t) /\ urow[u] # NoUser /\ Revoke(t, u, SessionsOf(u)) /\ UNREVOKED
CreateUserTool(t, u, e, p, v) == CreateUser(t, u, e, p, v)
UpdateUserTool(t, u, e, p, v) == UpdateUser(t, u, e, p, v)
RevokeUserSessionsTool(t, u) == UIdleAt(t) /\ Revoke(t, u, SessionsOf(u)) /\ UNREVOKED
(* The handlers of the MCP tools; the last two then close the tenant's     *)
(* room connections (see RevokeUserRealtime).                              *)
McpCreateUser(t, u, e, p, v) == CreateUserTool(t, u, e, p, v)
McpUpdateUser(t, u, e, p, v) == UpdateUserTool(t, u, e, p, v)
McpDeleteUser(t, u) == DeleteUser(t, u)
McpRevokeUserSessions(t, u) == RevokeUserSessionsTool(t, u)

----------------------------------------------------------------------------
(* tenant/oauth_routes.rs.  The redirect URI is checked when the login     *)
(* starts and, from the signed state token, again when it returns; the     *)
(* exchange with the provider and the read of the flag come before the     *)
(* transaction.                                                            *)
OauthStart(t, uri) ==
    /\ UIdleAt(t) /\ uri \in provider /\ flows' = flows \cup {uri}
    /\ UNCHANGED <<urow, usess, ucache, rkey, selfreg, provider, gates, slides, utask, uhist>>
StateExpires(uri) ==
    /\ uri \in flows /\ flows' = flows \ {uri}
    /\ UNCHANGED <<urow, usess, ucache, rkey, selfreg, provider, gates, slides, utask, uhist>>
OauthCallback(t, uri) ==
    /\ UIdleAt(t) /\ uri \in flows /\ uri \in provider
    /\ UGoto(t, [UIdle EXCEPT !.pc = "exchange"]) /\ UNCHANGED <<ustate, uhist>>
(* adapter.exchange: an error, an unverified address, or an address. *)
Exchange(t, e) ==
    /\ UAt(t, "exchange")
    /\ \/ UReturn(t)
       \/ UGoto(t, [UIdle EXCEPT !.pc = "link", !.email = e, !.ok = selfreg])
    /\ UNCHANGED <<ustate, uhist>>

(* find_or_create_user and create_session, one transaction.  An account    *)
(* whose address nobody verified is claimed: its password is wiped and its *)
(* sessions revoked.                                                       *)
Claims(u) == urow[u].pw # OauthOnly /\ ~urow[u].verified
OauthFind(t, u, k) ==
    IF Claims(u)
    THEN /\ urow' = [urow EXCEPT ![u].pw = OauthOnly, ![u].verified = TRUE]
         /\ CreateSession(k, u, "oauth", Without(SessionsOf(u)))
         /\ revoked' = revoked \cup SessionsOf(u)
         /\ UGoto(t, [UIdle EXCEPT !.pc = "clear", !.uid = u])
    ELSE CreateSession(k, u, "oauth", usess) /\ UReturn(t) /\ UNCHANGED <<urow, revoked>>
OauthCreate(t, u, k) ==
    /\ FreshUid(u) /\ NewUser(u, utask[t].email, OauthOnly, TRUE)
    /\ CreateSession(k, u, "oauth", usess) /\ UReturn(t) /\ UNCHANGED revoked
OauthTx(t, u, k) ==
    LET mine == HasEmail(utask[t].email) IN
    /\ UAt(t, "link")
    /\ CASE mine # {} -> u \in mine /\ OauthFind(t, u, k)
         [] mine = {} /\ utask[t].ok -> OauthCreate(t, u, k)
         [] OTHER -> UReturn(t) /\ UNCHANGED <<urow, usess, minted, revoked>>
    /\ UNCHANGED <<ucache, rkey, selfreg, provider, gates, flows, slides, late>>

----------------------------------------------------------------------------
(* Configuration: providers and redirect URIs, the self-register flag, the *)
(* settings cached with a bearer (publish policy, file capabilities; the   *)
(* handler holds the meta lock over its UPDATEs and the clear), and the    *)
(* role token (mgmt/tokens.rs, likewise).                                  *)
UNCONFIG == UNCHANGED <<urow, usess, flows, slides, utask, late>>
(* validate_upsert and validate_redirect_uri: at least one URI, each of a  *)
(* form no state tells apart here.                                         *)
ValidUris(s) == s # {}
Upserted(s) ==
    /\ provider' = s
    /\ UNCONFIG /\ UNCHANGED <<ucache, rkey, selfreg, gates, minted, revoked>>
UpdatedRedirectUris(s) == provider # {} /\ Upserted(s)
DeleteProvider == provider # {} /\ Upserted({})
(* Each through the service's REST route, the MCP tool and the console. *)
PutOauthProvider(s) == ValidUris(s) /\ Upserted(s)
SetOauthProviderTool(s) == ValidUris(s) /\ Upserted(s)
TenantOauthProviderUpsert(s) == ValidUris(s) /\ Upserted(s)
PutOauthRedirectUris(s) == ValidUris(s) /\ UpdatedRedirectUris(s)
SetRedirectUrisTool(s) == ValidUris(s) /\ UpdatedRedirectUris(s)
TenantOauthRedirectUrisUpdate(s) == ValidUris(s) /\ UpdatedRedirectUris(s)
DeleteOauthProvider == DeleteProvider
DeleteOauthProviderTool == DeleteProvider
TenantOauthProviderDelete == DeleteProvider
McpSetOauthProvider(s) == SetOauthProviderTool(s)
McpSetRedirectUris(s) == SetRedirectUrisTool(s)
McpDeleteOauthProvider == DeleteOauthProviderTool
SetSelfRegister ==
    /\ selfreg' = ~selfreg
    /\ UNCONFIG /\ UNCHANGED <<ucache, rkey, provider, gates, minted, revoked>>
ChangeGates ==
    /\ gates < MaxGates /\ gates' = gates + 1 /\ ucache' = ClearedTenant
    /\ UNCONFIG /\ UNCHANGED <<rkey, selfreg, provider, minted, revoked>>
SetPublishPolicy == ChangeGates
SetFileCaps == ChangeGates
(* The tools reach the meta database through the handle that the server    *)
(* gives every tenant's instance.                                          *)
McpSetSelfRegister == SetSelfRegister
McpSetPublishPolicy == SetPublishPolicy
McpSetFileCaps == SetFileCaps
RerollToken(k) ==
    /\ k \in RoleToks \ minted /\ minted' = minted \cup {k} /\ revoked' = revoked \cup {rkey}
    /\ rkey' = k /\ ucache' = ClearedRole
    /\ UNCONFIG /\ UNCHANGED <<selfreg, provider, gates>>

----------------------------------------------------------------------------
UserRequest(t) ==
    \/ \E e \in Emails, p \in Pws : RegisterRead(t, e, p) \/ LoginRead(t, e, p)
    \/ \E u \in Uids : RegisterInsert(t, u)
    \/ \E k \in Toks : LoginCreate(t, k)
    \/ MeGet(t) \/ Logout(t) \/ LogoutAll(t) \/ RevokeUserRealtime(t)
    \/ \E p \in Pws : MePasswordRead(t, p) \/ \E k \in Toks : MePasswordTx(t, p, k)
Door(t) ==
    \/ \E k \in Toks \cup RoleToks : DoorHit(t, k) \/ DoorRow(t, k)
    \/ DoorLookup(t) \/ DoorInsert(t)
ServiceRequest(t) ==
    \E u \in Uids :
        \/ \E e \in Emails, p \in Pws, v \in BOOLEAN : CreateUser(t, u, e, p, v) \/ McpCreateUser(t, u, e, p, v)
        \/ urow[u] # NoUser /\ \E e \in Emails, p \in Pws \cup {urow[u].pw}, v \in BOOLEAN :
              UpdateUser(t, u, e, p, v) \/ McpUpdateUser(t, u, e, p, v)
        \/ DeleteUser(t, u) \/ McpDeleteUser(t, u) \/ RevokeSessions(t, u) \/ McpRevokeUserSessions(t, u)
OauthRequest(t) ==
    \/ \E uri \in Uris : OauthStart(t, uri) \/ OauthCallback(t, uri)
    \/ \E e \in Emails : Exchange(t, e)
    \/ \E u \in Uids, k \in Toks : OauthTx(t, u, k)
UTime ==
    \/ \E k \in Toks : SlideExpiry(k) \/ SessionExpires(k)
    \/ \E k \in Toks \cup RoleToks : EntryExpires(k)
    \/ SweepExpiredSessions \/ \E uri \in Uris : StateExpires(uri)
UConfig ==
    \/ \E s \in SUBSET Uris :
        \/ PutOauthProvider(s) \/ McpSetOauthProvider(s) \/ TenantOauthProviderUpsert(s)
        \/ PutOauthRedirectUris(s) \/ McpSetRedirectUris(s) \/ TenantOauthRedirectUrisUpdate(s)
    \/ DeleteOauthProvider \/ McpDeleteOauthProvider \/ TenantOauthProviderDelete
    \/ McpSetSelfRegister \/ McpSetPublishPolicy \/ McpSetFileCaps \/ \E k \in RoleToks : RerollToken(k)
UNext == (\E t \in UTasks : UserRequest(t) \/ Door(t) \/ ServiceRequest(t) \/ OauthRequest(t))
         \/ UTime \/ UConfig
USpec == UInit /\ [][UNext]_uvars

----------------------------------------------------------------------------
(* What the bearer cache answers is current: no entry for a token that a   *)
(* logout, a password change, a claim, a deletion of the user, a revoke or *)
(* a reroll took back, and no settings older than the tenant's, once the   *)
(* handler has cleared the cache.  The exception is an entry whose lookup  *)
(* came before and whose insert came after; it lives ten seconds.          *)
EntriesCurrent ==
    \A k \in DOMAIN ucache : ucache[k] # NoEntry =>
        /\ k \in revoked => \/ ucache[k].straddled
                            \/ \E t \in UTasks : UAt(t, "clear") /\ utask[t].uid = ucache[k].uid
        /\ ucache[k].gates = gates \/ ucache[k].stale

(* A token taken back never opens a session again: the slide_expiry of a   *)
(* request that was admitted before the revocation may run after it.       *)
NoResurrection == [][\A k \in Toks \cap revoked : usess'[k] = NoSess]_uvars

(* An account without password has no session that was opened by one: the  *)
(* claim of an unverified account evicts them.  The exception is a login   *)
(* that had verified the old password before the claim.                    *)
ClaimEvicts ==
    \A k \in Toks : usess[k] # NoSess /\ urow[usess[k].uid].pw = OauthOnly
                    => usess[k].by = "oauth" \/ k \in late
============================================================================
