------------------------------- MODULE Sessions -------------------------------
(***************************************************************************)
(* Users' sessions: the tokens that utils/clients/oidc keeps in a storage, *)
(* the requests that restore, refresh and delete them (middlewares,        *)
(* local_auth), and the flows of backends/accounts that open and close     *)
(* sessions.  There are two kinds of deployments: on the platform the      *)
(* storage is a cache whose entries expire and an id is drawn at each      *)
(* login; in the local application it is a file, read again by each        *)
(* environment, and there is one id.                                       *)
(*                                                                         *)
(* An action is what runs between two awaits: only the OpenID provider is  *)
(* really awaited, the storages answer at once.  It is external; so is     *)
(* time, which makes access tokens stale, then refresh tokens dead.        *)
(***************************************************************************)
EXTENDS Naturals, FiniteSets

CONSTANTS
  Deployment, \* the deployments to consider
  Storage,    \* the storage of each: "cache" or "file"
  Id,         \* ids of tokens, the values of the cookie yw_jwt
  LocalId,    \* the one id of the local application
  Session,    \* sessions of the provider (session_state, sid)
  Flow,       \* references of authorization flows
  Call,       \* requests served at the same time
  Ops,        \* the operations of each deployment
  MaxGen,     \* bound: times the tokens of each session are issued
  MaxFlows,   \* bound: flows begun in each deployment
  MaxEnv,     \* bound: reloads of the environment
  NoId, NoTok, Refused

OpNames == {"use", "local", "login", "logout", "backchannel", "impersonate", "stop"}

ASSUME SessionsAssumption ==
  /\ Storage \in [Deployment -> {"cache", "file"}]
  /\ Ops \in [Deployment -> SUBSET OpNames] /\ MaxFlows \in [Deployment -> Nat]
  /\ LocalId \in Id /\ NoId \notin Id /\ Flow \cap Id = {}
  /\ MaxGen \in [Session -> Nat \ {0}] /\ MaxEnv \in Nat

\* The tokens of a session, issued for the gen-th time.
Tok == UNION {[sid : {s}, gen : 1..MaxGen[s]] : s \in Session}

ASSUME NoTokAssumption == NoTok \notin Tok /\ Refused \notin Tok \cup {NoTok}

VARIABLES
  deployment,
  mem,      \* what each environment's storage holds
  file,     \* what the storage's file holds
  env, loaded,           \* the current environment, the last one built
  flows, usedFlows,      \* flows waiting for their callback, flows begun
  usedIds,               \* the ids drawn
  call,                  \* what each request is doing
  open, newest,          \* the provider's open sessions, and last tokens of each
  stale, dead,           \* up to which gen access and refresh tokens expired
  notify,                \* the provider's back-channel logouts to be sent
  shared                 \* the sessions that several logins have been granted

store    == <<mem, file>>
app      == <<env, loaded, flows, usedFlows, usedIds>>
provider == <<open, newest, stale, dead, notify, shared>>
vars     == <<deployment, store, app, call, provider>>

storage == Storage[deployment]

Env == 0..MaxEnv

\* tokens: __tokens_data; sids: __session_ids, with the gen its cache entry expires with.
Contents == [tokens : [Id -> Tok \cup {NoTok}],
             sids   : [Session -> [id : Id \cup {NoId}, gen : Nat]]]

NoEntry == [id |-> NoId, gen |-> 0]

Empty == [tokens |-> [i \in Id |-> NoTok], sids |-> [s \in Session |-> NoEntry]]

Steps == {"idle", "refresh", "found", "again", "exchange", "decode", "relogin",
          "direct", "grant", "real"}

\* tok: the data read; ans: what the provider answered; to: the flow exchanged, the
\* id to save under, or that of the real tokens; imp: the impersonation tokens to
\* delete; env: that of the request's arrival.
Requests == [op : OpNames \cup {"none"}, at : Steps, id : Id \cup {NoId},
             to : Id \cup Flow \cup {NoId}, tok : Tok \cup {NoTok},
             imp : [id : Id, sid : Session] \cup {NoTok},
             ans : Tok \cup {NoTok, Refused}, env : Env]

Idle == [op |-> "none", at |-> "idle", id |-> NoId, to |-> NoId,
         tok |-> NoTok, imp |-> NoTok, ans |-> NoTok, env |-> 0]

TypeOK ==
  /\ deployment \in Deployment
  /\ mem \in [Env -> Contents] /\ file \in Contents
  /\ env \in Env /\ loaded \in env..MaxEnv
  /\ flows \subseteq usedFlows /\ usedFlows \subseteq Flow /\ usedIds \subseteq Id
  /\ call \in [Call -> Requests]
  /\ open \subseteq Session /\ notify \subseteq Session /\ shared \subseteq Session
  /\ \A s \in Session :
       newest[s] \in 0..MaxGen[s] /\ stale[s] \in 0..newest[s] /\ dead[s] \in 0..stale[s]

Init ==
  /\ deployment \in Deployment
  /\ mem = [e \in Env |-> Empty] /\ file = Empty
  /\ env = 0 /\ loaded = 0
  /\ flows = {} /\ usedFlows = {}
  /\ usedIds = IF storage = "file" THEN {LocalId} ELSE {}
  /\ call = [c \in Call |-> Idle]
  /\ open = {} /\ notify = {} /\ shared = {}
  /\ newest = [s \in Session |-> 0]
  /\ stale = [s \in Session |-> 0] /\ dead = [s \in Session |-> 0]

-----------------------------------------------------------------------------
(* The storages: TokensStorageCache and TokensStoragePathBase *)

Stale(t) == t.gen <= stale[t.sid]
Dead(t)  == t.gen <= dead[t.sid]

\* A cache is shared by the environments and outlives them.
Home(e) == IF storage = "cache" THEN 0 ELSE e

Held(r) == mem[Home(r.env)]

Get(m, i) == LET t == m.tokens[i]
             IN IF t # NoTok /\ storage = "cache" /\ Dead(t) THEN NoTok ELSE t

GetBySid(m, s) ==
  IF storage = "cache" /\ m.sids[s].gen <= dead[s] THEN NoId ELSE m.sids[s].id

\* Mutant: the index of sessions is left as it was.
AddTokensOnly(m, i, t) == [m EXCEPT !.tokens[i] = t]

\* store
Add(m, i, t) == [m EXCEPT !.tokens[i] = t,
                          !.sids[t.sid] = [id |-> i, gen |-> t.gen]]

\* Mutant: the tokens stay where they are.
DropIndexOnly(m, i, s) == [m EXCEPT !.sids[s] = NoEntry]

\* delete
Drop(m, i, s) == [m EXCEPT !.tokens[i] = NoTok, !.sids[s] = NoEntry]

\* Mutant: the index of sessions is not written to the file.
SavesTokensOnly(r, m) ==
  /\ mem' = [mem EXCEPT ![Home(r.env)] = m]
  /\ file' = IF storage = "file" THEN [file EXCEPT !.tokens = m.tokens] ELSE file

\* store and delete write the whole file.  m: the storage of r with its changes.
Saves(r, m) ==
  /\ mem' = [mem EXCEPT ![Home(r.env)] = m]
  /\ file' = IF storage = "file" THEN m ELSE file

-----------------------------------------------------------------------------
(* restore_tokens, before and after the provider's answer *)

Becomes(c, r) == call' = [call EXCEPT ![c] = r]

Finish(c) == Becomes(c, Idle)

Asks(c, r, step) == Becomes(c, [r EXCEPT !.at = step, !.ans = NoTok])

\* restore_tokens returns None.  get_local_tokens logs in if it has a password.
Absent(c, r) ==
  \/ Finish(c)
  \/ r.op = "local" /\ Asks(c, r, "direct")

\* restore_tokens returns r.tok; m is the storage of r, saved since it was read or not.
Restored(c, r, m, changed) ==
  LET keep == IF changed THEN Saves(r, m) ELSE UNCHANGED store
  IN \/ r.op \in {"use", "local"} /\ Becomes(c, [r EXCEPT !.at = "found"]) /\ keep
     \/ r.op = "logout" /\ Finish(c) /\ keep
     \/ r.op = "backchannel" /\ Finish(c) /\ Saves(r, Drop(m, r.id, r.tok.sid))
     \/ r.op = "impersonate" /\ Asks(c, [r EXCEPT !.to = NoId], "grant") /\ keep
     \/ \* hidden
        /\ r.op = "impersonate" /\ Asks(c, [r EXCEPT !.to = r.id], "grant")
        /\ Saves(r, Drop(m, r.id, r.tok.sid))
     \/ /\ r.op = "stop" /\ r.imp = NoTok
        /\ Becomes(c, [r EXCEPT !.at = "real", !.id = r.to, !.tok = NoTok, !.ans = NoTok,
                                !.imp = [id |-> r.id, sid |-> r.tok.sid]])
        /\ keep
     \/ /\ r.op = "stop" /\ r.imp # NoTok
        /\ Finish(c) /\ Saves(r, Drop(m, r.imp.id, r.imp.sid))

Restore(c, r) ==
  LET t == Get(Held(r), r.id)
      read == [r EXCEPT !.tok = t]
  IN \/ t = NoTok /\ Absent(c, r) /\ UNCHANGED store
     \/ t # NoTok /\ Dead(t) /\ Absent(c, r) /\ Saves(r, Drop(Held(r), r.id, t.sid))
     \/ t # NoTok /\ ~Dead(t) /\ Stale(t) /\ Asks(c, read, "refresh") /\ UNCHANGED store
     \/ t # NoTok /\ ~Stale(t) /\ Restored(c, read, Held(r), FALSE)

-----------------------------------------------------------------------------
(* Requests *)

Arrive(c, op, id) == [Idle EXCEPT !.op = op, !.at = "real", !.id = id, !.env = env]

MayArrive(c, op) == call[c] = Idle /\ op \in Ops[deployment]

\* A request with a cookie, or of the local application, or to /logout.
Request(c, op, i) ==
  /\ op \in {"use", "local", "logout", "impersonate"} /\ MayArrive(c, op)
  /\ i \in usedIds
  /\ Restore(c, Arrive(c, op, i))
  /\ UNCHANGED <<deployment, app, provider>>

\* stop_impersonation has two cookies; restoring the second is a step of its own.
StopImpersonation(c, i, j) ==
  /\ MayArrive(c, "stop")
  /\ i \in usedIds /\ j \in usedIds /\ i # j
  /\ Restore(c, [Arrive(c, "stop", i) EXCEPT !.to = j])
  /\ UNCHANGED <<deployment, app, provider>>

RestoreReal(c) ==
  /\ call[c].at = "real"
  /\ Restore(c, call[c])
  /\ UNCHANGED <<deployment, app, provider>>

\* JwtProviderCookie, after context.info: the access token, this time not guarded.
UseToken(c) ==
  /\ call[c].at = "found"
  /\ IF Stale(call[c].tok) /\ ~Dead(call[c].tok)
       THEN Asks(c, call[c], "again")
       ELSE Finish(c)
  /\ UNCHANGED <<deployment, store, app, provider>>

\* handle_logout_back_channel: TokensStoragePathBase.get_by_sid does not return a
\* pair when it finds the tokens, and the request raises.
BackChannel(c, s) ==
  /\ MayArrive(c, "backchannel") /\ s \in notify
  /\ notify' = notify \ {s}
  /\ LET r == Arrive(c, "backchannel", GetBySid(mem[Home(env)], s))
     IN IF storage = "file" \/ r.id = NoId
          THEN UNCHANGED <<store, call>>
          ELSE Restore(c, r)
  /\ UNCHANGED <<deployment, app, open, newest, stale, dead, shared>>

BeginFlow(f) ==
  /\ "login" \in Ops[deployment] /\ f \notin usedFlows
  /\ Cardinality(usedFlows) < MaxFlows[deployment]
  /\ flows' = flows \cup {f} /\ usedFlows' = usedFlows \cup {f}
  /\ UNCHANGED <<deployment, store, env, loaded, usedIds, call, provider>>

FlowExpires(f) ==
  /\ f \in flows
  /\ flows' = flows \ {f}
  /\ UNCHANGED <<deployment, store, env, loaded, usedFlows, usedIds, call, provider>>

\* Mutant: the flow is deleted when its code has been exchanged.
LoginCallbackKeeps(c, f) ==
  /\ MayArrive(c, "login") /\ f \in flows
  /\ Asks(c, [Arrive(c, "login", NoId) EXCEPT !.to = f], "exchange")
  /\ UNCHANGED <<deployment, store, app, provider>>

\* handle_authorization_flow_callback, up to the exchange of the code.
LoginCallback(c, f) ==
  /\ MayArrive(c, "login") /\ f \in flows
  /\ flows' = flows \ {f}
  /\ Asks(c, [Arrive(c, "login", NoId) EXCEPT !.to = f], "exchange")
  /\ UNCHANGED <<deployment, store, env, loaded, usedFlows, usedIds, provider>>

\* authorization_flow_callback: after is_temp, the tokens are refreshed in any case.
AfterLogin(c) ==
  /\ call[c].at = "decode"
  /\ IF Dead(call[c].tok) THEN Finish(c) ELSE Asks(c, call[c], "relogin")
  /\ UNCHANGED <<deployment, store, app, provider>>

-----------------------------------------------------------------------------
(* The provider's answers *)

Refreshing == {"refresh", "again", "relogin"}
Granting   == {"exchange", "direct", "grant"}

Waiting(c) == call[c].at \in Refreshing \cup Granting /\ call[c].ans = NoTok

Answers(c, ans) == Becomes(c, [call[c] EXCEPT !.ans = ans])

\* Tokens issued before the last ones may be refused or not: it depends on the realm.
ProviderRefreshes(c) ==
  /\ Waiting(c) /\ call[c].at \in Refreshing
  /\ LET s == call[c].tok.sid
     IN /\ s \in open /\ ~Dead(call[c].tok) /\ newest[s] < MaxGen[s]
        /\ newest' = [newest EXCEPT ![s] = @ + 1]
        /\ Answers(c, [sid |-> s, gen |-> newest[s] + 1])
  /\ UNCHANGED <<deployment, store, app, open, stale, dead, notify, shared>>

\* A new session, or, for who logs in again in the same browser, the one in progress.
ProviderGrants(c, s) ==
  /\ Waiting(c) /\ call[c].at \in Granting
  /\ \/ newest[s] = 0
     \/ s \in open /\ call[c].at = "exchange" /\ newest[s] < MaxGen[s]
  /\ open' = open \cup {s}
  /\ newest' = [newest EXCEPT ![s] = @ + 1]
  /\ shared' = IF newest[s] = 0 THEN shared ELSE shared \cup {s}
  /\ Answers(c, [sid |-> s, gen |-> newest[s] + 1])
  /\ UNCHANGED <<deployment, store, app, stale, dead, notify>>

\* In restore_tokens only: elsewhere a refusal ends the request like a failure.
ProviderRefuses(c) ==
  /\ Waiting(c) /\ call[c].at = "refresh"
  /\ LET t == call[c].tok
     IN t.sid \notin open \/ Dead(t) \/ t.gen < newest[t.sid]
  /\ Answers(c, Refused)
  /\ UNCHANGED <<deployment, store, app, provider>>

\* A failure of the network, before or after the provider has answered, is not a
\* RuntimeError: nothing catches it.
NetworkFails(c) ==
  /\ call[c].at \in Refreshing \cup Granting
  /\ Finish(c)
  /\ UNCHANGED <<deployment, store, app, provider>>

\* The tokens are deleted.
ReceiveRefusal(c) ==
  /\ call[c].ans = Refused
  /\ Absent(c, call[c])
  /\ LET r == call[c] IN Saves(r, Drop(Held(r), r.id, r.tok.sid))
  /\ UNCHANGED <<deployment, app, provider>>

\* Tokens.refresh
ReceiveRefreshed(c) ==
  /\ call[c].at \in Refreshing /\ call[c].ans \in Tok
  /\ LET m == Add(Held(call[c]), call[c].id, call[c].ans)
         r == [call[c] EXCEPT !.tok = call[c].ans, !.ans = NoTok]
     IN IF r.at = "refresh" THEN Restored(c, r, m, TRUE) ELSE Finish(c) /\ Saves(r, m)
  /\ UNCHANGED <<deployment, app, provider>>

\* default_tokens_id_generator draws an id, whichever; the application has always the
\* same, and a hidden impersonation takes the id of the real tokens.
NewId(c) ==
  IF call[c].at = "grant" /\ call[c].to # NoId THEN call[c].to
  ELSE IF storage = "file" THEN LocalId
  ELSE CHOOSE i \in Id : i \notin usedIds

\* save_tokens
ReceiveGranted(c) ==
  /\ call[c].at \in Granting /\ call[c].ans \in Tok
  /\ storage = "file" \/ usedIds # Id \/ call[c].to \in Id   \* bound: the instance's ids
  /\ LET i == NewId(c) IN
       /\ usedIds' = usedIds \cup {i}
       /\ Saves(call[c], Add(Held(call[c]), i, call[c].ans))
       /\ IF call[c].at = "exchange"
            THEN Becomes(c, [call[c] EXCEPT !.at = "decode", !.id = i, !.to = NoId,
                                            !.tok = call[c].ans, !.ans = NoTok])
            ELSE Finish(c)
  /\ UNCHANGED <<deployment, env, loaded, flows, usedFlows, provider>>

-----------------------------------------------------------------------------
(* Time, the users at the provider, and the life of the application *)

AccessExpires(s) ==
  /\ stale[s] < newest[s]
  /\ stale' = [stale EXCEPT ![s] = @ + 1]
  /\ UNCHANGED <<deployment, store, app, call, open, newest, dead, notify, shared>>

RefreshExpires(s) ==
  /\ dead[s] < stale[s]
  /\ dead' = [dead EXCEPT ![s] = @ + 1]
  /\ UNCHANGED <<deployment, store, app, call, open, newest, stale, notify, shared>>

\* Logged out at the provider, there or through /openid_rp/logout, whose redirection
\* only deletes the cookies.  The provider tells it if it knows the back channel.
SessionEnds(s) ==
  /\ s \in open
  /\ open' = open \ {s}
  /\ notify' = IF "backchannel" \in Ops[deployment] THEN notify \cup {s} ELSE notify
  /\ UNCHANGED <<deployment, store, app, call, newest, stale, dead, shared>>

\* from_configuration reads the file; the environment is set some awaits later.
ReloadLoads ==
  /\ storage = "file" /\ loaded = env /\ env < MaxEnv
  /\ loaded' = env + 1
  /\ mem' = [mem EXCEPT ![env + 1] = file]
  /\ UNCHANGED <<deployment, file, env, flows, usedFlows, usedIds, call, provider>>

\* Mutant: an environment is set before it is built.
ReloadSetsEarly ==
  /\ env < MaxEnv
  /\ env' = env + 1
  /\ UNCHANGED <<deployment, store, loaded, flows, usedFlows, usedIds, call, provider>>

ReloadSets ==
  /\ env < loaded
  /\ env' = loaded
  /\ UNCHANGED <<deployment, store, loaded, flows, usedFlows, usedIds, call, provider>>

\* The process stops and starts again, with contents m in its storage.
StartsWith(m) ==
  /\ mem' = [e \in Env |-> IF e = 0 THEN m ELSE Empty]
  /\ file' = IF storage = "file" THEN m ELSE Empty
  /\ env' = 0 /\ loaded' = 0
  /\ call' = [c \in Call |-> Idle]
  /\ flows' \in {flows, {}}
  /\ UNCHANGED <<deployment, usedFlows, usedIds, provider>>

\* A cache is kept (Redis) or lost (LocalCacheClient).
Restart ==
  IF storage = "file" THEN StartsWith(file) ELSE StartsWith(mem[0]) \/ StartsWith(Empty)

\* Tokens about to be saved; the file was truncated, and load_data resets it.
CrashInSave(c) ==
  /\ storage = "file" /\ call[c].ans \in Tok
  /\ StartsWith(Empty)

Continues(c) ==
  \/ RestoreReal(c) \/ UseToken(c) \/ AfterLogin(c)
  \/ ProviderRefreshes(c) \/ ProviderRefuses(c) \/ (\E s \in Session : ProviderGrants(c, s))
  \/ NetworkFails(c) \/ ReceiveRefusal(c) \/ ReceiveRefreshed(c) \/ ReceiveGranted(c)

Next ==
  \/ \E c \in Call :
       \/ Continues(c)
       \/ \E op \in OpNames, i \in Id : Request(c, op, i)
       \/ \E i, j \in Id : StopImpersonation(c, i, j)
       \/ \E s \in Session : BackChannel(c, s)
       \/ \E f \in Flow : LoginCallback(c, f)
       \/ CrashInSave(c)
  \/ \E f \in Flow : BeginFlow(f) \/ FlowExpires(f)
  \/ \E s \in Session : AccessExpires(s) \/ RefreshExpires(s) \/ SessionEnds(s)
  \/ ReloadLoads \/ ReloadSets \/ Restart

Spec == Init /\ [][Next]_vars

-----------------------------------------------------------------------------
(* Properties *)

\* What is stored, in memory or in the file, is found from its session: a logout
\* that the provider notifies can reach it, whatever was refreshed, deleted or
\* impersonated meanwhile, and whatever environment wrote the file.  Not so when two
\* logins have been granted the same session: the index has the last one.
ReachableBySession ==
  \A m \in {mem[e] : e \in Env} \cup {file} : \A i \in Id :
    Get(m, i) # NoTok /\ Get(m, i).sid \notin shared => GetBySid(m, Get(m, i).sid) = i

\* An authorization flow is exchanged once: no two callbacks are in progress for it,
\* and it is not waiting for another one.
FlowUsedOnce ==
  \A c, d \in Call :
    call[c].at = "exchange" =>
      /\ call[c].to \notin flows
      /\ call[d].at = "exchange" /\ call[d].to = call[c].to => c = d

\* The file is what one of the environments has in memory, never a mix of several.
FileIsASnapshot == storage = "file" => \E e \in Env : file = mem[e]

\* A logout notified for s is served, and ends at once.
LoggedOut(s) ==
  s \in notify \ notify' /\ \E c \in Call : BackChannel(c, s) /\ call'[c] = Idle

Forgotten(s) == \A i \in Id : LET t == Get(mem'[Home(env)], i) IN t # NoTok => t.sid # s

\* On the platform, a logout that the provider notifies and that ends at once has
\* forgotten the tokens of the session, under whatever id they were.
PlatformForgets ==
  [][storage = "cache" => \A s \in Session \ shared : LoggedOut(s) => Forgotten(s)]_vars

\* get_by_sid "Returns: a tuple containing tokens_id and TokensData if data is
\* found": so would it be with the file of the local application.
ApplicationForgets ==
  [][storage = "file" => \A s \in Session : LoggedOut(s) => Forgotten(s)]_vars
=============================================================================
