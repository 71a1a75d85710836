---------------------------- MODULE Sessions_proofs ----------------------------
(* Proofs about Sessions, for every set of deployments, ids, sessions, flows *)
(* and requests.                                                             *)
EXTENDS Sessions, TLAPS

\* What a request holds beside the type of its fields, at each of its steps.
CallOK(r) ==
  /\ r \in Requests
  /\ r.at \in Refreshing \cup {"found", "decode"} => r.tok \in Tok
  /\ r.tok # NoTok => r.id \in Id
  /\ r.at = "real" => r.id \in Id
  /\ r.at = "grant" => r.to \in Id \cup {NoId}
  /\ r.at = "exchange" => r.to \in Flow /\ r.op = "login"
  /\ r.at = "direct" => r.to = NoId
  /\ r.op = "local" => r.to = NoId
  /\ r.op = "stop" => r.to \in Id
  /\ r.ans = Refused => r.at = "refresh"
  /\ r.ans # NoTok => r.at \in Refreshing \cup Granting

CallsOK ==
  /\ DOMAIN call = Call /\ call = [c \in Call |-> call[c]]
  /\ \A c \in Call : CallOK(call[c])

StoreOK == mem \in [Env -> Contents] /\ file \in Contents

AppOK ==
  /\ env \in Env /\ loaded \in env..MaxEnv
  /\ flows \subseteq usedFlows /\ usedFlows \subseteq Flow /\ usedIds \subseteq Id

ProviderOK ==
  /\ open \subseteq Session /\ notify \subseteq Session /\ shared \subseteq Session
  /\ newest \in [Session -> Nat] /\ stale \in [Session -> Nat] /\ dead \in [Session -> Nat]
  /\ \A s \in Session :
       newest[s] \in 0..MaxGen[s] /\ stale[s] \in 0..newest[s] /\ dead[s] \in 0..stale[s]

TypeInv == deployment \in Deployment /\ StoreOK /\ AppOK /\ CallsOK /\ ProviderOK

-----------------------------------------------------------------------------
(* Lemmas about the operators *)

\* What tokens are: those of a session, issued for one of the times they may be.
LEMMA TokType ==
  ASSUME NEW t PROVE t \in Tok <=> /\ t = [sid |-> t.sid, gen |-> t.gen]
                                  /\ t.sid \in Session /\ t.gen \in 1..MaxGen[t.sid]
  BY DEF Tok

\* A deployment has a storage of one of two kinds.
LEMMA StorageType == ASSUME deployment \in Deployment PROVE storage \in {"cache", "file"}
  BY SessionsAssumption DEF storage

\* The storage that a request uses is that of an environment.
LEMMA HomeType == ASSUME NEW e \in Env PROVE Home(e) \in Env
  BY SessionsAssumption DEF Home, Env

\* Storages stay well typed by what the operators of TokensStorage do to them.
LEMMA EmptyType == Empty \in Contents
  BY DEF Empty, Contents, NoEntry

\* store: tokens under an id, and their session in the index.
LEMMA AddType ==
  ASSUME NEW m \in Contents, NEW i \in Id, NEW t \in Tok
  PROVE  Add(m, i, t) \in Contents
<1>1. t.sid \in Session /\ t.gen \in Nat
  BY TokType, SessionsAssumption
<1>2. QED BY <1>1 DEF Add, Contents

\* delete: neither any more.
LEMMA DropType ==
  ASSUME NEW m \in Contents, NEW i \in Id, NEW s \in Session
  PROVE  Drop(m, i, s) \in Contents
  BY DEF Drop, Contents, NoEntry

\* What get finds is what is held.
LEMMA GetType ==
  ASSUME NEW m \in Contents, NEW i \in Id, Get(m, i) # NoTok
  PROVE  Get(m, i) = m.tokens[i] /\ Get(m, i) \in Tok
  BY DEF Get, Contents

\* Saving well typed contents keeps the storages well typed.
LEMMA SavesType ==
  ASSUME StoreOK, NEW r, r.env \in Env, NEW m \in Contents, Saves(r, m)
  PROVE  StoreOK'
  BY HomeType DEF Saves, StoreOK

\* A request that becomes a well typed one keeps the requests well typed.
LEMMA BecomesOK ==
  ASSUME CallsOK, NEW c \in Call, NEW r, CallOK(r), Becomes(c, r)
  PROVE  CallsOK'
  BY DEF CallsOK, Becomes

\* A request that is over is well typed.
LEMMA IdleOK == CallOK(Idle)
<1>1. 0 \in Env
  BY SessionsAssumption DEF Env
<1>2. Idle \in Requests
  BY <1>1 DEF Idle, Requests, Steps
<1>3. QED BY <1>2, NoTokAssumption DEF Idle, CallOK, Refreshing

\* A request that ends keeps the requests well typed.
LEMMA FinishOK == ASSUME CallsOK, NEW c \in Call, Finish(c) PROVE CallsOK'
  BY IdleOK, BecomesOK DEF Finish

\* A request that asks the provider something, if it holds what the answer needs.
LEMMA AsksOK ==
  ASSUME CallsOK, NEW c \in Call, NEW r \in Requests, NEW step \in Refreshing \cup Granting,
         step \in Refreshing => r.tok \in Tok,
         r.tok # NoTok => r.id \in Id,
         step = "grant" => r.to \in Id \cup {NoId},
         step = "exchange" => r.to \in Flow /\ r.op = "login",
         step = "direct" => r.to = NoId,
         r.op = "local" => r.to = NoId,
         r.op = "stop" => r.to \in Id,
         Asks(c, r, step)
  PROVE  CallsOK'
<1> DEFINE q == [r EXCEPT !.at = step, !.ans = NoTok]
<1>1. q \in Requests
  BY DEF Requests, Steps, Refreshing, Granting
<1>2. /\ q.at = step /\ q.ans = NoTok /\ q.op = r.op /\ q.id = r.id /\ q.to = r.to
      /\ q.tok = r.tok
  BY DEF Requests
<1> HIDE DEF q
<1>3. CallOK(q)
  BY <1>1, <1>2, NoTokAssumption DEF CallOK, Refreshing, Granting
<1>4. Becomes(c, q)
  BY DEF Asks, q
<1>5. QED BY <1>3, <1>4, BecomesOK

\* So does one that restore_tokens returns None to.
LEMMA AbsentOK ==
  ASSUME CallsOK, NEW c \in Call, NEW r, CallOK(r), r.tok = NoTok \/ r.id \in Id, Absent(c, r)
  PROVE  CallsOK'
<1>1. CASE Finish(c)
  BY <1>1, FinishOK
<1>2. CASE r.op = "local" /\ Asks(c, r, "direct")
  BY <1>2, AsksOK DEF CallOK, Refreshing, Granting
<1>3. QED BY <1>1, <1>2 DEF Absent

\* What restore_tokens does when it has found tokens.
LEMMA RestoredOK ==
  ASSUME CallsOK, StoreOK, NEW c \in Call, NEW r, CallOK(r), r.tok \in Tok, r.ans = NoTok,
         NEW m \in Contents, NEW changed \in BOOLEAN, Restored(c, r, m, changed)
  PROVE  CallsOK' /\ StoreOK'
<1> r \in Requests /\ r.id \in Id /\ r.env \in Env /\ r.tok.sid \in Session
  BY NoTokAssumption, TokType DEF CallOK, Requests
<1> Drop(m, r.id, r.tok.sid) \in Contents
  BY DropType
<1> DEFINE keep == IF changed THEN Saves(r, m) ELSE UNCHANGED store
<1>0. ASSUME keep PROVE StoreOK'
  BY <1>0, SavesType DEF store, StoreOK
<1>1. CASE r.op \in {"use", "local"} /\ Becomes(c, [r EXCEPT !.at = "found"]) /\ keep
  <2> DEFINE q == [r EXCEPT !.at = "found"]
  <2>1. /\ q \in Requests /\ q.at = "found" /\ q.ans = r.ans /\ q.op = r.op /\ q.id = r.id
        /\ q.to = r.to /\ q.tok = r.tok
    BY DEF Requests, Steps
  <2> HIDE DEF q
  <2>2. CallOK(q)
    BY <2>1, NoTokAssumption DEF CallOK, Refreshing
  <2>3. Becomes(c, q)
    BY <1>1 DEF q
  <2>4. QED BY <1>0, <1>1, <2>2, <2>3, BecomesOK
<1>2. CASE r.op = "logout" /\ Finish(c) /\ keep
  BY <1>0, <1>2, FinishOK
<1>3. CASE r.op = "backchannel" /\ Finish(c) /\ Saves(r, Drop(m, r.id, r.tok.sid))
  BY <1>3, FinishOK, SavesType
<1>4. CASE r.op = "impersonate" /\ Asks(c, [r EXCEPT !.to = NoId], "grant") /\ keep
  <2> DEFINE q == [r EXCEPT !.to = NoId]
  <2>1. q \in Requests /\ q.op = "impersonate" /\ q.to = NoId /\ q.tok = r.tok /\ q.id = r.id
    BY <1>4 DEF Requests
  <2>2. Asks(c, q, "grant")
    BY <1>4
  <2> HIDE DEF q
  <2>3. QED BY <1>0, <1>4, <2>1, <2>2, AsksOK DEF Granting, Refreshing
<1>5. CASE /\ r.op = "impersonate" /\ Asks(c, [r EXCEPT !.to = r.id], "grant")
           /\ Saves(r, Drop(m, r.id, r.tok.sid))
  <2> DEFINE q == [r EXCEPT !.to = r.id]
  <2>1. q \in Requests /\ q.op = "impersonate" /\ q.to = r.id /\ q.tok = r.tok /\ q.id = r.id
    BY <1>5 DEF Requests
  <2>2. Asks(c, q, "grant")
    BY <1>5
  <2> HIDE DEF q
  <2>3. QED BY <1>5, <2>1, <2>2, AsksOK, SavesType DEF Granting, Refreshing
<1>6. CASE /\ r.op = "stop" /\ r.imp = NoTok
           /\ Becomes(c, [r EXCEPT !.at = "real", !.id = r.to, !.tok = NoTok, !.ans = NoTok,
                                   !.imp = [id |-> r.id, sid |-> r.tok.sid]])
           /\ keep
  <2> DEFINE imp == [id |-> r.id, sid |-> r.tok.sid]
             q == [r EXCEPT !.at = "real", !.id = r.to, !.tok = NoTok, !.ans = NoTok, !.imp = imp]
  <2>1. imp \in [id : Id, sid : Session] /\ r.to \in Id
    BY <1>6 DEF CallOK
  <2>2. Becomes(c, q)
    BY <1>6
  <2> HIDE DEF imp
  <2>3. /\ q \in Requests /\ q.at = "real" /\ q.id = r.to /\ q.to = r.to /\ q.op = "stop"
        /\ q.tok = NoTok /\ q.ans = NoTok
    BY <1>6, <2>1 DEF Requests, Steps
  <2> HIDE DEF q
  <2>4. CallOK(q)
    BY <2>1, <2>3, NoTokAssumption DEF CallOK, Refreshing
  <2>5. QED BY <1>0, <1>6, <2>2, <2>4, BecomesOK
<1>7. CASE r.op = "stop" /\ r.imp # NoTok /\ Finish(c) /\ Saves(r, Drop(m, r.imp.id, r.imp.sid))
  <2>1. r.imp.id \in Id /\ r.imp.sid \in Session
    BY <1>7 DEF Requests
  <2>2. QED BY <1>7, <2>1, DropType, FinishOK, SavesType
<1>8. QED BY <1>1, <1>2, <1>3, <1>4, <1>5, <1>6, <1>7 DEF Restored

\* The data read take the place of those the request held.
LEMMA ReadOK ==
  ASSUME NEW r, CallOK(r), r.id \in Id, NEW t \in Tok, r.ans = NoTok
  PROVE  /\ CallOK([r EXCEPT !.tok = t]) /\ [r EXCEPT !.tok = t].tok = t
         /\ [r EXCEPT !.tok = t].ans = NoTok /\ [r EXCEPT !.tok = t].id = r.id
         /\ [r EXCEPT !.tok = t].op = r.op /\ [r EXCEPT !.tok = t].to = r.to
<1> DEFINE q == [r EXCEPT !.tok = t]
<1>1. /\ q \in Requests /\ q.at = r.at /\ q.ans = r.ans /\ q.op = r.op /\ q.id = r.id
      /\ q.to = r.to /\ q.tok = t
  BY DEF Requests, CallOK
<1> HIDE DEF q
<1>2. CallOK(q)
  BY <1>1, NoTokAssumption DEF CallOK
<1>3. QED BY <1>1, <1>2 DEF q

\* restore_tokens keeps the requests and the storages well typed, whatever it reads.
LEMMA RestoreOK ==
  ASSUME CallsOK, StoreOK, NEW c \in Call, NEW r, CallOK(r), r.id \in Id, r.ans = NoTok,
         Restore(c, r)
  PROVE  CallsOK' /\ StoreOK'
<1> DEFINE m == Held(r)
           t == Get(m, r.id)
           read == [r EXCEPT !.tok = t]
<1>1. r.env \in Env /\ m \in Contents
  BY HomeType DEF CallOK, Requests, StoreOK, Held
<1>2. ASSUME t # NoTok PROVE t \in Tok /\ t.sid \in Session
  BY <1>1, <1>2, GetType, TokType
<1>3. CASE t = NoTok /\ Absent(c, r) /\ UNCHANGED store
  BY <1>3, AbsentOK DEF StoreOK, store
<1>4. CASE t # NoTok /\ Absent(c, r) /\ Saves(r, Drop(m, r.id, t.sid))
  BY <1>1, <1>2, <1>4, AbsentOK, DropType, SavesType
<1>5. CASE t # NoTok /\ Asks(c, read, "refresh") /\ UNCHANGED store
  <2>1. CallOK(read) /\ read.tok = t /\ read.id = r.id
    BY <1>2, <1>5, ReadOK
  <2>2. read \in Requests /\ read.op = "local" => read.to = NoId
    BY <2>1 DEF CallOK
  <2>3. Asks(c, read, "refresh") /\ t \in Tok
    BY <1>2, <1>5
  <2> HIDE DEF read, t, m
  <2>4. CallsOK'
    BY <2>1, <2>3, AsksOK DEF Refreshing, CallOK
  <2>5. QED BY <1>5, <2>4 DEF StoreOK, store
<1>6. CASE t # NoTok /\ Restored(c, read, m, FALSE)
  <2>1. CallOK(read) /\ read.tok = t /\ t \in Tok /\ read.ans = NoTok
    BY <1>2, <1>6, ReadOK
  <2>2. Restored(c, read, m, FALSE)
    BY <1>6
  <2> HIDE DEF read, t, m
  <2>3. QED BY <1>1, <2>1, <2>2, RestoredOK
<1>7. QED BY <1>3, <1>4, <1>5, <1>6 DEF Restore

\* What an arriving request is.
LEMMA ArriveIs ==
  ASSUME AppOK, NEW c \in Call, NEW op \in OpNames, NEW id \in Id \cup {NoId}
  PROVE  /\ Arrive(c, op, id) \in Requests
         /\ Arrive(c, op, id).op = op /\ Arrive(c, op, id).at = "real"
         /\ Arrive(c, op, id).id = id /\ Arrive(c, op, id).to = NoId
         /\ Arrive(c, op, id).tok = NoTok /\ Arrive(c, op, id).imp = NoTok
         /\ Arrive(c, op, id).ans = NoTok /\ Arrive(c, op, id).env = env
<1>1. /\ Idle \in Requests /\ Idle.to = NoId
      /\ Idle.tok = NoTok /\ Idle.imp = NoTok /\ Idle.ans = NoTok
  BY IdleOK DEF CallOK, Idle
<1>2. QED BY <1>1 DEF Arrive, Requests, Steps, AppOK

\* The requests that arrive, and restore their tokens at once.
LEMMA RequestFollows ==
  ASSUME TypeInv, NEW c \in Call,
         \/ \E op \in OpNames, i \in Id : Request(c, op, i)
         \/ \E i, j \in Id : StopImpersonation(c, i, j)
  PROVE  \E r : /\ CallOK(r) /\ r.id \in Id /\ r.env = env /\ r.imp = NoTok /\ r.tok = NoTok
                /\ r.ans = NoTok /\ Restore(c, r)
<1>1. ASSUME NEW op \in OpNames, NEW i \in Id, Request(c, op, i)
      PROVE  \E r : /\ CallOK(r) /\ r.id \in Id /\ r.env = env /\ r.imp = NoTok /\ r.tok = NoTok
                    /\ r.ans = NoTok /\ Restore(c, r)
  <2> DEFINE r == Arrive(c, op, i)
  <2>1. /\ r \in Requests /\ r.op = op /\ r.id = i /\ r.to = NoId /\ r.tok = NoTok
        /\ r.ans = NoTok /\ r.at = "real" /\ r.env = env /\ r.imp = NoTok /\ op # "stop"
    BY <1>1, ArriveIs DEF TypeInv, Request
  <2>2. Restore(c, r)
    BY <1>1 DEF Request
  <2> HIDE DEF r
  <2>3. CallOK(r)
    BY <2>1, NoTokAssumption DEF CallOK, Refreshing
  <2>4. QED BY <2>1, <2>2, <2>3
<1>2. ASSUME NEW i \in Id, NEW j \in Id, StopImpersonation(c, i, j)
      PROVE  \E r : /\ CallOK(r) /\ r.id \in Id /\ r.env = env /\ r.imp = NoTok /\ r.tok = NoTok
                    /\ r.ans = NoTok /\ Restore(c, r)
  <2> DEFINE a == Arrive(c, "stop", i)
             r == [a EXCEPT !.to = j]
  <2>1. /\ a \in Requests /\ a.op = "stop" /\ a.id = i /\ a.tok = NoTok /\ a.ans = NoTok
        /\ a.at = "real" /\ a.env = env /\ a.imp = NoTok
    BY ArriveIs DEF TypeInv, OpNames
  <2>2. Restore(c, r)
    BY <1>2 DEF StopImpersonation
  <2> HIDE DEF a
  <2>3. /\ r \in Requests /\ r.op = "stop" /\ r.id = i /\ r.to = j /\ r.tok = NoTok
        /\ r.ans = NoTok /\ r.at = "real" /\ r.env = env /\ r.imp = NoTok
    BY <2>1 DEF Requests
  <2> HIDE DEF r
  <2>4. CallOK(r)
    BY <2>3, NoTokAssumption DEF CallOK, Refreshing
  <2>5. QED BY <2>2, <2>3, <2>4
<1>3. QED BY <1>1, <1>2

\* A logout of the back channel does nothing, or restores the tokens it has found.
LEMMA BackChannelFollows ==
  ASSUME TypeInv, NEW c \in Call, NEW s \in Session, BackChannel(c, s)
  PROVE  \/ UNCHANGED <<store, call>>
         \/ \E r : /\ CallOK(r) /\ r.id \in Id /\ r.id = GetBySid(mem[Home(env)], s)
                   /\ r.op = "backchannel" /\ r.env = env /\ r.imp = NoTok /\ r.tok = NoTok
                   /\ r.ans = NoTok /\ Restore(c, r)
<1> DEFINE id == GetBySid(mem[Home(env)], s)
           r == Arrive(c, "backchannel", id)
<1>1. id \in Id \cup {NoId}
  BY HomeType DEF GetBySid, TypeInv, StoreOK, AppOK, Contents
<1>2. IF storage = "file" \/ r.id = NoId THEN UNCHANGED <<store, call>> ELSE Restore(c, r)
  BY DEF BackChannel
<1> HIDE DEF id
<1>3. /\ r \in Requests /\ r.op = "backchannel" /\ r.id = id /\ r.to = NoId /\ r.tok = NoTok
      /\ r.ans = NoTok /\ r.at = "real" /\ r.env = env /\ r.imp = NoTok
  BY <1>1, ArriveIs DEF TypeInv, OpNames
<1> HIDE DEF r
<1>4. ASSUME r.id # NoId PROVE CallOK(r) /\ r.id \in Id
  BY <1>1, <1>3, <1>4, NoTokAssumption DEF CallOK, Refreshing
<1>5. QED BY <1>2, <1>3, <1>4 DEF id

-----------------------------------------------------------------------------
(* Type correctness *)

\* The invariant is what TypeOK asks for, and more.
LEMMA TypeInvType == TypeInv => TypeOK
<1> SUFFICES ASSUME TypeInv PROVE TypeOK
  OBVIOUS
<1>1. call \in [Call -> Requests]
  BY DEF TypeInv, CallsOK, CallOK
<1>2. QED BY <1>1 DEF TypeInv, StoreOK, AppOK, ProviderOK, TypeOK

\* The application starts with no tokens, no flow and no request.
LEMMA TypeInit == Init => TypeInv
<1> SUFFICES ASSUME Init PROVE TypeInv
  OBVIOUS
<1>1. 0 \in Env /\ 0 \in 0..MaxEnv
  BY SessionsAssumption DEF Env
<1>2. StoreOK
  BY EmptyType DEF Init, StoreOK
<1>3. AppOK
  BY <1>1, SessionsAssumption DEF Init, AppOK
<1>4. CallsOK
  BY IdleOK DEF Init, CallsOK
<1>5. ProviderOK
  BY SessionsAssumption DEF Init, ProviderOK
<1>6. QED BY <1>2, <1>3, <1>4, <1>5 DEF Init, TypeInv

\* A step of the requests that leaves the rest alone.
LEMMA CallStepOK ==
  ASSUME TypeInv, StoreOK', CallsOK', UNCHANGED <<deployment, app, provider>>
  PROVE  TypeInv'
  BY DEF TypeInv, AppOK, ProviderOK, app, provider

\* The requests with cookies keep the state well typed.
LEMMA RequestOK ==
  ASSUME TypeInv, NEW c \in Call,
         \/ \E op \in OpNames, i \in Id : Request(c, op, i)
         \/ \E i, j \in Id : StopImpersonation(c, i, j)
  PROVE  TypeInv'
<1>1. UNCHANGED <<deployment, app, provider>>
  BY DEF Request, StopImpersonation
<1>2. CallsOK' /\ StoreOK'
  BY RequestFollows, RestoreOK DEF TypeInv
<1>3. QED BY <1>1, <1>2, CallStepOK

\* So do the logouts that the provider notifies.
LEMMA BackChannelOK ==
  ASSUME TypeInv, NEW c \in Call, NEW s \in Session, BackChannel(c, s)
  PROVE  TypeInv'
<1>1. CASE UNCHANGED <<store, call>>
  BY <1>1 DEF BackChannel, TypeInv, CallsOK, StoreOK, AppOK, ProviderOK, store, app
<1>2. CASE \E r : CallOK(r) /\ r.id \in Id /\ r.ans = NoTok /\ Restore(c, r)
  <2>1. CallsOK' /\ StoreOK'
    BY <1>2, RestoreOK DEF TypeInv
  <2>2. AppOK' /\ ProviderOK' /\ deployment' \in Deployment
    BY DEF BackChannel, TypeInv, AppOK, ProviderOK, app
  <2>3. QED BY <2>1, <2>2 DEF TypeInv
<1>3. QED BY <1>1, <1>2, BackChannelFollows

\* So does the callback of a flow, which goes on with the flow it has taken.
LEMMA LoginOK ==
  ASSUME TypeInv, NEW c \in Call, NEW f \in Flow, LoginCallback(c, f)
  PROVE  TypeInv'
<1> DEFINE a == Arrive(c, "login", NoId)
           r == [a EXCEPT !.to = f]
<1>1. a \in Requests /\ a.op = "login" /\ a.tok = NoTok /\ a.ans = NoTok /\ a.at = "real"
  BY ArriveIs DEF TypeInv, OpNames
<1>2. Asks(c, r, "exchange")
  BY DEF LoginCallback
<1> HIDE DEF a
<1>3. r \in Requests /\ r.op = "login" /\ r.to = f /\ r.tok = NoTok
  BY <1>1 DEF Requests
<1> HIDE DEF r
<1>4. CallsOK'
  BY <1>2, <1>3, AsksOK DEF TypeInv, Granting, Refreshing
<1>5. StoreOK' /\ AppOK' /\ ProviderOK' /\ deployment' \in Deployment
  BY DEF LoginCallback, TypeInv, AppOK, ProviderOK, provider, store, StoreOK
<1>6. QED BY <1>4, <1>5 DEF TypeInv

\* An answer of the provider is kept by the request that waits for it.
LEMMA AnswersOK ==
  ASSUME CallsOK, NEW c \in Call, Waiting(c), NEW ans \in Tok \cup {Refused},
         ans = Refused => call[c].at = "refresh", Answers(c, ans)
  PROVE  CallsOK'
<1> DEFINE q == [call[c] EXCEPT !.ans = ans]
<1>1. CallOK(call[c]) /\ call[c].at \in Refreshing \cup Granting
  BY DEF CallsOK, Waiting
<1>2. /\ q \in Requests /\ q.at = call[c].at /\ q.ans = ans /\ q.op = call[c].op
      /\ q.id = call[c].id /\ q.to = call[c].to /\ q.tok = call[c].tok
  BY <1>1 DEF Requests, CallOK
<1>3. Becomes(c, q)
  BY DEF Answers
<1> HIDE DEF q
<1>4. CallOK(q)
  BY <1>1, <1>2 DEF CallOK
<1>5. QED BY <1>3, <1>4, BecomesOK

\* Tokens issued once more are among those of their session.
LEMMA IssueOK ==
  ASSUME ProviderOK, NEW s \in Session, newest[s] < MaxGen[s],
         newest' = [newest EXCEPT ![s] = @ + 1], UNCHANGED <<stale, dead, notify>>,
         open' \subseteq Session, shared' \subseteq Session
  PROVE  ProviderOK' /\ [sid |-> s, gen |-> newest[s] + 1] \in Tok
<1>1. MaxGen[s] \in Nat /\ newest[s] \in Nat
  BY SessionsAssumption DEF ProviderOK
<1>2. [sid |-> s, gen |-> newest[s] + 1] \in Tok
  BY <1>1, TokType
<1>3. ASSUME NEW z \in Session
      PROVE  newest'[z] \in 0..MaxGen[z] /\ stale[z] \in 0..newest'[z] /\ dead[z] \in 0..stale[z]
  <2>1. CASE z = s
    BY <1>1, <2>1 DEF ProviderOK
  <2>2. CASE z # s
    BY <2>2 DEF ProviderOK
  <2>3. QED BY <2>1, <2>2
<1>4. newest' \in [Session -> Nat]
  BY <1>1 DEF ProviderOK
<1>5. QED BY <1>2, <1>3, <1>4 DEF ProviderOK

\* So do the answers of the provider, whose issues stay within their bound.
LEMMA ProviderStepOK ==
  ASSUME TypeInv, NEW c \in Call,
         ProviderRefreshes(c) \/ ProviderRefuses(c) \/ \E s \in Session : ProviderGrants(c, s)
  PROVE  TypeInv'
<1> CallOK(call[c])
  BY DEF TypeInv, CallsOK
<1> USE DEF TypeInv
<1>1. CASE ProviderRefreshes(c)
  <2> DEFINE s == call[c].tok.sid
             ans == [sid |-> s, gen |-> newest[s] + 1]
  <2>1. s \in Session
    BY <1>1, TokType DEF ProviderRefreshes, CallOK
  <2>2. ProviderOK' /\ ans \in Tok
    BY <1>1, <2>1, IssueOK DEF ProviderRefreshes, ProviderOK
  <2>3. Waiting(c) /\ Answers(c, ans)
    BY <1>1 DEF ProviderRefreshes
  <2> HIDE DEF ans
  <2>4. CallsOK'
    BY <2>2, <2>3, AnswersOK, NoTokAssumption
  <2>5. QED BY <1>1, <2>2, <2>4 DEF ProviderRefreshes, store, app, StoreOK, AppOK
<1>2. CASE ProviderRefuses(c)
  <2>1. CallsOK'
    BY <1>2, AnswersOK DEF ProviderRefuses
  <2>2. QED BY <1>2, <2>1, CallStepOK DEF ProviderRefuses, store, StoreOK
<1>3. ASSUME NEW s \in Session, ProviderGrants(c, s) PROVE TypeInv'
  <2> DEFINE ans == [sid |-> s, gen |-> newest[s] + 1]
  <2>1. newest[s] < MaxGen[s]
    BY <1>3, SessionsAssumption DEF ProviderGrants
  <2>2. ProviderOK' /\ ans \in Tok
    BY <1>3, <2>1, IssueOK DEF ProviderGrants, ProviderOK
  <2>3. Waiting(c) /\ Answers(c, ans)
    BY <1>3 DEF ProviderGrants
  <2> HIDE DEF ans
  <2>4. CallsOK'
    BY <2>2, <2>3, AnswersOK, NoTokAssumption
  <2>5. QED BY <1>3, <2>2, <2>4 DEF ProviderGrants, store, app, StoreOK, AppOK
<1>4. QED BY <1>1, <1>2, <1>3

\* The tokens refreshed take the place of those the request had read.
LEMMA RefreshedOK ==
  ASSUME CallsOK, NEW c \in Call, call[c].at \in Refreshing, call[c].ans \in Tok
  PROVE  LET r == [call[c] EXCEPT !.tok = call[c].ans, !.ans = NoTok]
         IN /\ CallOK(r) /\ r.tok = call[c].ans /\ r.ans = NoTok /\ r.at = call[c].at
            /\ r.id = call[c].id /\ r.id \in Id /\ r.env = call[c].env /\ r.op = call[c].op
            /\ r.to = call[c].to /\ r.imp = call[c].imp
<1> DEFINE q == call[c]
           r == [q EXCEPT !.tok = q.ans, !.ans = NoTok]
<1>1. CallOK(q) /\ q \in Requests
  BY DEF CallsOK, CallOK
<1>2. q.id \in Id
  BY <1>1, NoTokAssumption DEF CallOK
<1>3. q.ans \in Tok /\ q.at \in Refreshing
  OBVIOUS
<1> HIDE DEF q
<1>4. /\ r \in Requests /\ r.at = q.at /\ r.ans = NoTok /\ r.tok = q.ans /\ r.op = q.op
      /\ r.id = q.id /\ r.to = q.to /\ r.env = q.env /\ r.imp = q.imp
  BY <1>1, <1>3 DEF Requests
<1> HIDE DEF r
<1>5. CallOK(r)
  BY <1>1, <1>2, <1>3, <1>4, NoTokAssumption DEF CallOK
<1>6. QED BY <1>2, <1>4, <1>5 DEF q, r

\* The id under which tokens are saved is one, and is drawn among those left.
LEMMA NewIdType ==
  ASSUME TypeInv, NEW c \in Call, call[c].at \in Granting,
         storage = "file" \/ usedIds # Id \/ call[c].to \in Id
  PROVE  NewId(c) \in Id
<1>1. CallOK(call[c])
  BY DEF TypeInv, CallsOK
<1>2. CASE call[c].at = "grant" /\ call[c].to # NoId
  BY <1>1, <1>2 DEF CallOK, NewId
<1>3. CASE ~(call[c].at = "grant" /\ call[c].to # NoId) /\ storage = "file"
  BY <1>3, SessionsAssumption DEF NewId
<1>4. CASE ~(call[c].at = "grant" /\ call[c].to # NoId) /\ storage # "file"
  <2>1. call[c].to \notin Id
    BY <1>1, <1>4, SessionsAssumption DEF CallOK, Granting
  <2>2. \E i \in Id : i \notin usedIds
    BY <1>4, <2>1 DEF TypeInv, AppOK
  <2>3. (CHOOSE i \in Id : i \notin usedIds) \in Id
    BY <2>2
  <2>4. QED BY <1>4, <2>3 DEF NewId
<1>5. QED BY <1>2, <1>3, <1>4

\* The request whose code has been exchanged is to decode what it got.
LEMMA DecodeOK ==
  ASSUME NEW r, CallOK(r), r.at = "exchange", NEW i \in Id, NEW t \in Tok
  PROVE  LET q == [r EXCEPT !.at = "decode", !.id = i, !.to = NoId, !.tok = t, !.ans = NoTok]
         IN /\ CallOK(q) /\ q.at = "decode" /\ q.id = i /\ q.tok = t /\ q.ans = NoTok
            /\ q.imp = r.imp
<1> DEFINE q == [r EXCEPT !.at = "decode", !.id = i, !.to = NoId, !.tok = t, !.ans = NoTok]
<1>1. r \in Requests /\ r.op # "stop"
  BY DEF CallOK
<1>2. /\ q \in Requests /\ q.at = "decode" /\ q.id = i /\ q.tok = t /\ q.ans = NoTok
      /\ q.imp = r.imp /\ q.to = NoId /\ q.op = r.op
  BY <1>1 DEF Requests, Steps
<1> HIDE DEF q
<1>3. CallOK(q)
  BY <1>1, <1>2, NoTokAssumption DEF CallOK, Refreshing
<1>4. QED BY <1>2, <1>3 DEF q

\* So do the answers received: what they save is well typed.
LEMMA ReceiveOK ==
  ASSUME TypeInv, NEW c \in Call,
         ReceiveRefusal(c) \/ ReceiveRefreshed(c) \/ ReceiveGranted(c)
  PROVE  TypeInv'
<1> CallOK(call[c]) /\ call[c].env \in Env
  BY DEF TypeInv, CallsOK, CallOK, Requests
<1> Held(call[c]) \in Contents
  BY HomeType DEF TypeInv, StoreOK, Held
<1>1. CASE ReceiveRefusal(c)
  <2>1. call[c].tok \in Tok /\ call[c].tok.sid \in Session /\ call[c].id \in Id
    BY <1>1, TokType, NoTokAssumption DEF ReceiveRefusal, CallOK, Refreshing
  <2>2. CallsOK'
    BY <1>1, <2>1, AbsentOK DEF ReceiveRefusal, TypeInv
  <2>3. StoreOK'
    BY <1>1, <2>1, DropType, SavesType DEF ReceiveRefusal, TypeInv
  <2>4. QED BY <1>1, <2>2, <2>3, CallStepOK DEF ReceiveRefusal
<1>2. CASE ReceiveRefreshed(c)
  <2> DEFINE m == Add(Held(call[c]), call[c].id, call[c].ans)
             r == [call[c] EXCEPT !.tok = call[c].ans, !.ans = NoTok]
  <2>1. call[c].at \in Refreshing /\ call[c].ans \in Tok
    BY <1>2 DEF ReceiveRefreshed
  <2>2. CallOK(r) /\ r.tok \in Tok /\ r.ans = NoTok /\ call[c].id \in Id /\ r.env \in Env
    BY <2>1, RefreshedOK DEF TypeInv
  <2>3. m \in Contents
    BY <2>1, <2>2, AddType
  <2>4. Restored(c, r, m, TRUE) \/ (Finish(c) /\ Saves(r, m))
    BY <1>2 DEF ReceiveRefreshed
  <2> HIDE DEF m, r
  <2>5. CallsOK' /\ StoreOK'
    BY <2>2, <2>3, <2>4, RestoredOK, FinishOK, SavesType DEF TypeInv
  <2>6. QED BY <1>2, <2>5, CallStepOK DEF ReceiveRefreshed
<1>3. CASE ReceiveGranted(c)
  <2> DEFINE i == NewId(c)
             m == Add(Held(call[c]), i, call[c].ans)
             q == [call[c] EXCEPT !.at = "decode", !.id = i, !.to = NoId,
                                  !.tok = call[c].ans, !.ans = NoTok]
  <2>1. i \in Id /\ call[c].ans \in Tok
    BY <1>3, NewIdType DEF ReceiveGranted
  <2>2. m \in Contents
    BY <2>1, AddType
  <2>3. /\ usedIds' = usedIds \cup {i} /\ Saves(call[c], m)
        /\ (call[c].at = "exchange" /\ Becomes(c, q)) \/ Finish(c)
        /\ UNCHANGED <<deployment, env, loaded, flows, usedFlows, provider>>
    BY <1>3 DEF ReceiveGranted
  <2> HIDE DEF m
  <2>4. StoreOK'
    BY <2>2, <2>3, SavesType DEF TypeInv
  <2>5. CallsOK'
    <3>1. CASE call[c].at = "exchange" /\ Becomes(c, q)
      <4>1. CallOK(q)
        BY <2>1, <3>1, DecodeOK
      <4> HIDE DEF q
      <4>2. QED BY <3>1, <4>1, BecomesOK DEF TypeInv
    <3>2. CASE Finish(c)
      BY <3>2, FinishOK DEF TypeInv
    <3>3. QED BY <2>3, <3>1, <3>2
  <2>6. AppOK' /\ ProviderOK' /\ deployment' \in Deployment
    BY <2>1, <2>3 DEF TypeInv, AppOK, ProviderOK, provider
  <2>7. QED BY <2>4, <2>5, <2>6 DEF TypeInv
<1>4. QED BY <1>1, <1>2, <1>3

\* A process that starts finds well typed contents in its storage.
LEMMA StartsOK ==
  ASSUME TypeInv, NEW m \in Contents, StartsWith(m)
  PROVE  TypeInv'
<1>1. 0 \in Env /\ 0 \in 0..MaxEnv
  BY SessionsAssumption DEF Env
<1>2. StoreOK'
  BY EmptyType DEF StartsWith, StoreOK
<1>3. CallsOK'
  BY IdleOK DEF StartsWith, CallsOK
<1>4. AppOK' /\ ProviderOK' /\ deployment' \in Deployment
  BY <1>1 DEF StartsWith, TypeInv, AppOK, ProviderOK, provider
<1>5. QED BY <1>2, <1>3, <1>4 DEF TypeInv

\* One step per action.
LEMMA TypeStep == TypeInv /\ [Next]_vars => TypeInv'
<1> SUFFICES ASSUME TypeInv, [Next]_vars PROVE TypeInv'
  OBVIOUS
<1>1. CASE UNCHANGED vars
  BY <1>1 DEF vars, store, app, provider, TypeInv, StoreOK, AppOK, CallsOK, ProviderOK
<1>2. ASSUME NEW c \in Call, Continues(c) PROVE TypeInv'
  <2> CallOK(call[c])
    BY DEF TypeInv, CallsOK
  <2>1. CASE RestoreReal(c)
    <3>1. call[c].id \in Id /\ call[c].ans = NoTok
      BY <2>1 DEF RestoreReal, CallOK, Refreshing, Granting
    <3>2. CallsOK' /\ StoreOK'
      BY <2>1, <3>1, RestoreOK DEF RestoreReal, TypeInv
    <3>3. QED BY <2>1, <3>2, CallStepOK DEF RestoreReal
  <2>2. CASE UseToken(c)
    <3>1. CallsOK'
      BY <2>2, FinishOK, AsksOK, NoTokAssumption DEF UseToken, TypeInv, CallOK, Refreshing, Granting
    <3>2. QED BY <2>2, <3>1, CallStepOK DEF UseToken, store, TypeInv, StoreOK
  <2>3. CASE AfterLogin(c)
    <3>1. CallsOK'
      BY <2>3, FinishOK, AsksOK, NoTokAssumption DEF AfterLogin, TypeInv, CallOK, Refreshing, Granting
    <3>2. QED BY <2>3, <3>1, CallStepOK DEF AfterLogin, store, TypeInv, StoreOK
  <2>4. CASE NetworkFails(c)
    <3>1. CallsOK'
      BY <2>4, FinishOK DEF NetworkFails, TypeInv
    <3>2. QED BY <2>4, <3>1, CallStepOK DEF NetworkFails, store, TypeInv, StoreOK
  <2>5. QED BY <1>2, <2>1, <2>2, <2>3, <2>4, ProviderStepOK, ReceiveOK DEF Continues
<1>3. ASSUME NEW c \in Call, CrashInSave(c) PROVE TypeInv'
  BY <1>3, StartsOK, EmptyType DEF CrashInSave
<1>4. ASSUME NEW f \in Flow, BeginFlow(f) \/ FlowExpires(f) PROVE TypeInv'
  BY <1>4 DEF BeginFlow, FlowExpires, store, provider, TypeInv, StoreOK, AppOK, CallsOK, ProviderOK
<1>5. ASSUME NEW s \in Session, AccessExpires(s) PROVE TypeInv'
  <2>1. ProviderOK'
    <3>1. stale' \in [Session -> Nat]
      BY <1>5 DEF AccessExpires, TypeInv, ProviderOK
    <3>2. ASSUME NEW z \in Session PROVE stale'[z] \in 0..newest[z] /\ dead[z] \in 0..stale'[z]
      BY <1>5 DEF AccessExpires, TypeInv, ProviderOK
    <3>3. QED BY <1>5, <3>1, <3>2 DEF AccessExpires, TypeInv, ProviderOK
  <2>2. QED BY <1>5, <2>1 DEF AccessExpires, store, app, TypeInv, StoreOK, AppOK, CallsOK
<1>6. ASSUME NEW s \in Session, RefreshExpires(s) PROVE TypeInv'
  <2>1. ProviderOK'
    <3>1. dead' \in [Session -> Nat]
      BY <1>6 DEF RefreshExpires, TypeInv, ProviderOK
    <3>2. ASSUME NEW z \in Session PROVE dead'[z] \in 0..stale[z]
      BY <1>6 DEF RefreshExpires, TypeInv, ProviderOK
    <3>3. QED BY <1>6, <3>1, <3>2 DEF RefreshExpires, TypeInv, ProviderOK
  <2>2. QED BY <1>6, <2>1 DEF RefreshExpires, store, app, TypeInv, StoreOK, AppOK, CallsOK
<1>7. ASSUME NEW s \in Session, SessionEnds(s) PROVE TypeInv'
  BY <1>7 DEF SessionEnds, store, app, TypeInv, StoreOK, AppOK, CallsOK, ProviderOK
<1>8. CASE ReloadLoads
  <2>1. env + 1 \in Env /\ env + 1 \in env..MaxEnv
    BY <1>8, SessionsAssumption DEF ReloadLoads, TypeInv, AppOK, Env
  <2>2. QED BY <1>8, <2>1 DEF ReloadLoads, provider, TypeInv, StoreOK, AppOK, CallsOK, ProviderOK
<1>9. CASE ReloadSets
  <2>1. AppOK'
    BY <1>9, SessionsAssumption DEF ReloadSets, TypeInv, AppOK, Env
  <2>2. QED BY <1>9, <2>1 DEF ReloadSets, store, provider, TypeInv, StoreOK, CallsOK, ProviderOK
<1>10. CASE Restart
  <2>1. file \in Contents /\ mem[0] \in Contents
    BY SessionsAssumption DEF TypeInv, StoreOK, Env
  <2>2. QED BY <1>10, <2>1, StartsOK, EmptyType DEF Restart
<1>11. QED
  BY <1>1, <1>2, <1>3, <1>4, <1>5, <1>6, <1>7, <1>8, <1>9, <1>10,
     RequestOK, BackChannelOK, LoginOK DEF Next

\* Type correctness of the sessions, in every behaviour: at each of its steps a
\* request holds the tokens, the id and the flow that the rest of its handler uses.
THEOREM TypeCorrect == Spec => []TypeOK
<1>1. TypeInv => TypeOK
  BY TypeInvType
<1>2. Init => TypeInv
  BY TypeInit
<1>3. TypeInv /\ [Next]_vars => TypeInv'
  BY TypeStep
<1>4. QED BY <1>1, <1>2, <1>3, PTL DEF Spec

-----------------------------------------------------------------------------
(* What a step of a request does *)

\* q is what r becomes when restore_tokens has t for its id: it asks nothing that
\* was answered, exchanges no code, and holds t or what it held.
Follows(q, r, t) ==
  /\ q.ans = NoTok /\ q.at # "exchange"
  /\ q.tok # NoTok => q.id = r.id /\ q.tok \in {r.tok, t}
  /\ q.imp \in {NoTok, r.imp} \/ (t # NoTok /\ q.imp = [id |-> r.id, sid |-> t.sid])

\* m, the storage of r, is saved without the tokens t of r, or without those of the
\* impersonation that r ends, as it is, or not at all.
Changes(r, m, t) ==
  \/ UNCHANGED store
  \/ Saves(r, m)
  \/ t # NoTok /\ Saves(r, Drop(m, r.id, t.sid))
  \/ r.imp # NoTok /\ Saves(r, Drop(m, r.imp.id, r.imp.sid))

\* A request that is over holds nothing.
LEMMA IdleFollows == ASSUME NEW r, NEW t PROVE Follows(Idle, r, t)
  BY DEF Follows, Idle

\* A request that asks the provider keeps what it holds.
LEMMA AsksFollows ==
  ASSUME NEW c, NEW r \in Requests, NEW step \in (Refreshing \cup Granting) \ {"exchange"},
         NEW t, Asks(c, r, step)
  PROVE  \E q : Becomes(c, q) /\ q.tok = r.tok /\ q.id = r.id /\ q.imp = r.imp
                /\ q.ans = NoTok /\ q.at = step
<1> DEFINE q == [r EXCEPT !.at = step, !.ans = NoTok]
<1>1. q.tok = r.tok /\ q.id = r.id /\ q.imp = r.imp /\ q.ans = NoTok /\ q.at = step
  BY DEF Requests
<1>2. Becomes(c, q)
  BY DEF Asks
<1> HIDE DEF q
<1>3. QED BY <1>1, <1>2

\* So does one that restore_tokens returns None to, or it is over.
LEMMA AbsentFollows ==
  ASSUME NEW c, NEW r, CallOK(r), NEW t, Absent(c, r)
  PROVE  \E q : Becomes(c, q) /\ Follows(q, r, t)
<1>1. CASE Finish(c)
  BY <1>1, IdleFollows DEF Finish
<1>2. CASE Asks(c, r, "direct")
  <2>1. r \in Requests /\ (r.tok # NoTok => r.id \in Id)
    BY DEF CallOK
  <2>2. PICK q : Becomes(c, q) /\ q.tok = r.tok /\ q.id = r.id /\ q.imp = r.imp
                 /\ q.ans = NoTok /\ q.at = "direct"
    BY <1>2, <2>1, AsksFollows DEF Granting, Refreshing
  <2>3. Follows(q, r, t)
    BY <2>2 DEF Follows
  <2>4. QED BY <2>2, <2>3
<1>3. QED BY <1>1, <1>2 DEF Absent

\* One that gets tokens goes on with them, or with their id and session as an impersonation
\* to end, and the storage is saved at most once, without what is no more needed.
LEMMA RestoredFollows ==
  ASSUME NEW c, NEW r \in Requests, r.tok # NoTok, r.ans = NoTok,
         NEW m, NEW changed \in BOOLEAN, Restored(c, r, m, changed)
  PROVE  /\ \E q : Becomes(c, q) /\ Follows(q, r, r.tok)
         /\ Changes(r, m, r.tok)
<1> DEFINE keep == IF changed THEN Saves(r, m) ELSE UNCHANGED store
           imp == [id |-> r.id, sid |-> r.tok.sid]
<1>1. CASE Becomes(c, [r EXCEPT !.at = "found"]) /\ keep
  <2> DEFINE q == [r EXCEPT !.at = "found"]
  <2>1. q.at = "found" /\ q.tok = r.tok /\ q.id = r.id /\ q.imp = r.imp /\ q.ans = NoTok
    BY DEF Requests
  <2>2. Becomes(c, q)
    BY <1>1
  <2> HIDE DEF q
  <2>3. Follows(q, r, r.tok)
    BY <2>1 DEF Follows
  <2>4. QED BY <1>1, <2>2, <2>3 DEF Changes
<1>2. CASE Finish(c) /\ (keep \/ Saves(r, Drop(m, r.id, r.tok.sid)))
  BY <1>2, IdleFollows DEF Changes, Finish
<1>3. ASSUME NEW to \in Id \cup {NoId}, Asks(c, [r EXCEPT !.to = to], "grant"),
             keep \/ Saves(r, Drop(m, r.id, r.tok.sid))
      PROVE  /\ \E q : Becomes(c, q) /\ Follows(q, r, r.tok)
             /\ Changes(r, m, r.tok)
  <2> DEFINE p == [r EXCEPT !.to = to]
  <2>1. p \in Requests /\ p.tok = r.tok /\ p.id = r.id /\ p.imp = r.imp
    BY DEF Requests
  <2>2. Asks(c, p, "grant")
    BY <1>3
  <2> HIDE DEF p
  <2>3. PICK q : Becomes(c, q) /\ q.tok = p.tok /\ q.id = p.id /\ q.imp = p.imp
                 /\ q.ans = NoTok /\ q.at = "grant"
    BY <2>1, <2>2, AsksFollows DEF Granting, Refreshing
  <2>4. Follows(q, r, r.tok)
    BY <2>1, <2>3 DEF Follows
  <2>5. QED BY <1>3, <2>3, <2>4 DEF Changes
<1>4. CASE /\ Becomes(c, [r EXCEPT !.at = "real", !.id = r.to, !.tok = NoTok, !.ans = NoTok,
                                   !.imp = imp])
           /\ keep
  <2> DEFINE q == [r EXCEPT !.at = "real", !.id = r.to, !.tok = NoTok, !.ans = NoTok, !.imp = imp]
  <2>1. Becomes(c, q)
    BY <1>4
  <2> HIDE DEF imp
  <2>2. q.at = "real" /\ q.tok = NoTok /\ q.imp = imp /\ q.ans = NoTok
    BY DEF Requests
  <2> HIDE DEF q
  <2>3. Follows(q, r, r.tok)
    BY <2>2 DEF Follows, imp
  <2>4. QED BY <1>4, <2>1, <2>3 DEF Changes
<1>5. CASE r.imp # NoTok /\ Finish(c) /\ Saves(r, Drop(m, r.imp.id, r.imp.sid))
  BY <1>5, IdleFollows DEF Changes, Finish
<1>6. r.id \in Id \cup {NoId}
  BY DEF Requests
<1>7. QED BY <1>1, <1>2, <1>3, <1>4, <1>5, <1>6 DEF Restored

\* restore_tokens as a whole, before the provider is asked.
LEMMA RestoreFollows ==
  ASSUME StoreOK, NEW c, NEW r, CallOK(r), r.id \in Id, r.ans = NoTok, Restore(c, r)
  PROVE  /\ \E q : Becomes(c, q) /\ Follows(q, r, Get(Held(r), r.id))
         /\ Changes(r, Held(r), Get(Held(r), r.id))
<1> DEFINE m == Held(r)
           t == Get(m, r.id)
           read == [r EXCEPT !.tok = t]
<1>1. ASSUME t # NoTok
      PROVE  read \in Requests /\ read.tok = t /\ read.id = r.id /\ read.imp = r.imp
             /\ read.ans = NoTok /\ read.env = r.env
  <2>1. r.env \in Env /\ m \in Contents
    BY HomeType DEF CallOK, Requests, StoreOK, Held
  <2>2. t \in Tok
    BY <1>1, <2>1, GetType
  <2> HIDE DEF t
  <2>3. QED BY <2>2 DEF CallOK, Requests
<1> HIDE DEF read
<1>2. CASE Absent(c, r) /\ UNCHANGED store
  BY <1>2, AbsentFollows DEF Changes
<1>3. CASE t # NoTok /\ Absent(c, r) /\ Saves(r, Drop(m, r.id, t.sid))
  BY <1>3, AbsentFollows DEF Changes
<1>4. CASE t # NoTok /\ Asks(c, read, "refresh") /\ UNCHANGED store
  <2>1. PICK q : Becomes(c, q) /\ q.tok = read.tok /\ q.id = read.id /\ q.imp = read.imp
                 /\ q.ans = NoTok /\ q.at = "refresh"
    BY <1>1, <1>4, AsksFollows DEF Refreshing, Granting
  <2>2. Follows(q, r, t)
    BY <1>1, <1>4, <2>1 DEF Follows
  <2>3. QED BY <1>4, <2>1, <2>2 DEF Changes
<1>5. CASE t # NoTok /\ Restored(c, read, m, FALSE)
  <2>1. PICK q : Becomes(c, q) /\ Follows(q, read, read.tok)
    BY <1>1, <1>5, RestoredFollows
  <2>2. Changes(read, m, read.tok)
    BY <1>1, <1>5, RestoredFollows
  <2>3. Follows(q, r, t)
    BY <1>1, <1>5, <2>1 DEF Follows
  <2>4. Changes(r, m, t)
    BY <1>1, <1>5, <2>2 DEF Changes, Saves
  <2>5. QED BY <2>1, <2>3, <2>4
<1>6. QED BY <1>2, <1>3, <1>4, <1>5 DEF Restore, read

\* An answer that arrives changes nothing else in the request that waits for it.
LEMMA AnswersIs ==
  ASSUME NEW c \in Call, NEW ans, CallsOK, Answers(c, ans)
  PROVE  \E q : /\ Becomes(c, q) /\ q.ans = ans /\ q.at = call[c].at /\ q.to = call[c].to
                /\ q.tok = call[c].tok /\ q.id = call[c].id /\ q.imp = call[c].imp
<1> DEFINE q == [call[c] EXCEPT !.ans = ans]
<1>1. /\ q.ans = ans /\ q.at = call[c].at /\ q.to = call[c].to
      /\ q.tok = call[c].tok /\ q.id = call[c].id /\ q.imp = call[c].imp
  BY DEF CallsOK, CallOK, Requests
<1>2. Becomes(c, q)
  BY DEF Answers
<1> HIDE DEF q
<1>3. QED BY <1>1, <1>2

\* A callback holds its flow, and no tokens yet.
LEMMA LoginIs ==
  ASSUME TypeInv, NEW c \in Call, NEW f \in Flow, LoginCallback(c, f)
  PROVE  \E q : Becomes(c, q) /\ q.ans = NoTok /\ q.tok = NoTok /\ q.imp = NoTok
                /\ q.at = "exchange" /\ q.to = f
<1> DEFINE a == Arrive(c, "login", NoId)
           r == [a EXCEPT !.to = f]
           q == [r EXCEPT !.at = "exchange", !.ans = NoTok]
<1>1. a \in Requests /\ a.tok = NoTok /\ a.imp = NoTok
  BY ArriveIs DEF TypeInv, OpNames
<1>2. Becomes(c, q)
  BY DEF LoginCallback, Asks
<1> HIDE DEF a
<1>3. q.ans = NoTok /\ q.tok = NoTok /\ q.imp = NoTok /\ q.at = "exchange" /\ q.to = f
  BY <1>1 DEF Requests
<1> HIDE DEF q
<1>4. QED BY <1>2, <1>3

-----------------------------------------------------------------------------
(* Authorization flows *)

\* A flow whose code is being exchanged has begun and waits for nothing any more.
FlowInv ==
  /\ \A c \in Call : call[c].at = "exchange" => call[c].to \in usedFlows \ flows
  /\ FlowUsedOnce

\* A request that does not begin to exchange a code.
LEMMA FlowKept ==
  ASSUME CallsOK, FlowInv, NEW c \in Call, NEW q, Becomes(c, q), UNCHANGED <<flows, usedFlows>>,
         q.at = "exchange" => call[c].at = "exchange" /\ q.to = call[c].to
  PROVE  FlowInv'
<1>1. \A d \in Call : call'[d] = IF d = c THEN q ELSE call[d]
  BY DEF Becomes, CallsOK
<1>2. \A d \in Call : call'[d].at = "exchange" =>
                        call[d].at = "exchange" /\ call'[d].to = call[d].to
  BY <1>1
<1>3. QED BY <1>2 DEF FlowInv, FlowUsedOnce

\* No step of a request in progress begins one either.
LEMMA ContinuesFlow ==
  ASSUME TypeInv, NEW c \in Call, Continues(c)
  PROVE  \E q : Becomes(c, q) /\ (q.at = "exchange" => call[c].at = "exchange" /\ q.to = call[c].to)
<1> CallOK(call[c]) /\ CallsOK /\ StoreOK
  BY DEF TypeInv, CallsOK
<1>0. ASSUME Finish(c) PROVE \E q : Becomes(c, q) /\ q.at # "exchange"
  BY <1>0 DEF Finish, Idle
<1>1. CASE RestoreReal(c)
  <2>1. call[c].id \in Id /\ call[c].ans = NoTok
    BY <1>1 DEF RestoreReal, CallOK, Refreshing, Granting
  <2>2. QED BY <1>1, <2>1, RestoreFollows DEF RestoreReal, Follows
<1>2. CASE UseToken(c) \/ AfterLogin(c)
  <2>1. CASE Finish(c)
    BY <1>0, <2>1
  <2>2. CASE Asks(c, call[c], "again") \/ Asks(c, call[c], "relogin")
    BY <2>2, AsksFollows DEF CallOK, Refreshing, Granting
  <2>3. QED BY <1>2, <2>1, <2>2 DEF UseToken, AfterLogin
<1>3. CASE ProviderRefreshes(c) \/ ProviderRefuses(c) \/ \E s \in Session : ProviderGrants(c, s)
  <2>1. PICK ans : Answers(c, ans)
    BY <1>3 DEF ProviderRefreshes, ProviderRefuses, ProviderGrants
  <2>2. QED BY <2>1, AnswersIs
<1>4. CASE NetworkFails(c)
  BY <1>0, <1>4 DEF NetworkFails
<1>5. CASE ReceiveRefusal(c)
  <2>1. PICK q : Becomes(c, q) /\ Follows(q, call[c], NoTok)
    BY <1>5, AbsentFollows DEF ReceiveRefusal
  <2>2. QED BY <2>1 DEF Follows
<1>6. CASE ReceiveRefreshed(c)
  <2> DEFINE r == [call[c] EXCEPT !.tok = call[c].ans, !.ans = NoTok]
             m == Add(Held(call[c]), call[c].id, call[c].ans)
  <2>1. CallOK(r) /\ r.tok \in Tok /\ r.ans = NoTok
    BY <1>6, RefreshedOK DEF ReceiveRefreshed
  <2>2. Restored(c, r, m, TRUE) \/ Finish(c)
    BY <1>6 DEF ReceiveRefreshed
  <2> HIDE DEF r, m
  <2>3. r \in Requests /\ r.tok # NoTok
    BY <2>1, NoTokAssumption DEF CallOK
  <2>4. QED BY <1>0, <2>1, <2>2, <2>3, RestoredFollows DEF Follows
<1>7. CASE ReceiveGranted(c)
  <2> DEFINE q == [call[c] EXCEPT !.at = "decode", !.id = NewId(c), !.to = NoId,
                                  !.tok = call[c].ans, !.ans = NoTok]
  <2>1. CASE call[c].at = "exchange" /\ Becomes(c, q)
    <3>1. q.at = "decode"
      BY DEF CallOK, Requests
    <3> HIDE DEF q
    <3>2. QED BY <2>1, <3>1
  <2>2. CASE Finish(c)
    BY <1>0, <2>2
  <2>3. QED BY <1>7, <2>1, <2>2 DEF ReceiveGranted
<1>8. QED BY <1>1, <1>2, <1>3, <1>4, <1>5, <1>6, <1>7 DEF Continues

\* A flow leaves the flows that wait as its code begins to be exchanged, and never
\* comes back: its reference is not drawn again.
LEMMA FlowStep == TypeInv /\ FlowInv /\ [Next]_vars => FlowInv'
<1> SUFFICES ASSUME TypeInv, FlowInv, [Next]_vars PROVE FlowInv'
  OBVIOUS
<1> CallsOK /\ StoreOK
  BY DEF TypeInv
<1>1. ASSUME UNCHANGED call, UNCHANGED <<flows, usedFlows>> PROVE FlowInv'
  BY <1>1 DEF FlowInv, FlowUsedOnce
<1>2. ASSUME NEW c \in Call, Continues(c) PROVE FlowInv'
  <2>1. UNCHANGED <<flows, usedFlows>>
    BY <1>2 DEF Continues, RestoreReal, UseToken, AfterLogin, ProviderRefreshes, ProviderRefuses,
         ProviderGrants, NetworkFails, ReceiveRefusal, ReceiveRefreshed, ReceiveGranted, app
  <2>2. QED BY <1>2, <2>1, ContinuesFlow, FlowKept
<1>3. ASSUME NEW c \in Call,
             \/ \E op \in OpNames, i \in Id : Request(c, op, i)
             \/ \E i, j \in Id : StopImpersonation(c, i, j)
      PROVE  FlowInv'
  <2>1. UNCHANGED <<flows, usedFlows>>
    BY <1>3 DEF Request, StopImpersonation, app
  <2>2. PICK r : CallOK(r) /\ r.id \in Id /\ r.ans = NoTok /\ Restore(c, r)
    BY <1>3, RequestFollows
  <2>3. PICK q : Becomes(c, q) /\ Follows(q, r, Get(Held(r), r.id))
    BY <2>2, RestoreFollows
  <2>4. QED BY <2>1, <2>3, FlowKept DEF Follows
<1>4. ASSUME NEW c \in Call, NEW s \in Session, BackChannel(c, s) PROVE FlowInv'
  <2>1. UNCHANGED <<flows, usedFlows>>
    BY <1>4 DEF BackChannel, app
  <2>2. CASE UNCHANGED call
    BY <1>1, <2>1, <2>2
  <2>3. CASE \E r : CallOK(r) /\ r.id \in Id /\ r.ans = NoTok /\ Restore(c, r)
    <3>1. PICK r : CallOK(r) /\ r.id \in Id /\ r.ans = NoTok /\ Restore(c, r)
      BY <2>3
    <3>2. PICK q : Becomes(c, q) /\ Follows(q, r, Get(Held(r), r.id))
      BY <3>1, RestoreFollows
    <3>3. QED BY <2>1, <3>2, FlowKept DEF Follows
  <2>4. QED BY <1>4, <2>2, <2>3, BackChannelFollows
<1>5. ASSUME NEW c \in Call, NEW f \in Flow, LoginCallback(c, f) PROVE FlowInv'
  <2>1. PICK q : Becomes(c, q) /\ q.at = "exchange" /\ q.to = f
    BY <1>5, LoginIs
  <2>2. f \in flows /\ f \in usedFlows /\ flows' = flows \ {f} /\ usedFlows' = usedFlows
    BY <1>5 DEF LoginCallback, TypeInv, AppOK
  <2>3. \A d \in Call : call'[d] = IF d = c THEN q ELSE call[d]
    BY <2>1 DEF Becomes, CallsOK
  <2>4. \A d \in Call : call[d].at = "exchange" => call[d].to # f
    BY <2>2 DEF FlowInv
  <2>5. QED BY <2>1, <2>2, <2>3, <2>4 DEF FlowInv, FlowUsedOnce
<1>6. ASSUME NEW f \in Flow, BeginFlow(f) \/ FlowExpires(f) PROVE FlowInv'
  BY <1>6 DEF BeginFlow, FlowExpires, FlowInv, FlowUsedOnce
<1>7. ASSUME NEW m, StartsWith(m) PROVE FlowInv'
  BY <1>7 DEF StartsWith, FlowInv, FlowUsedOnce, Idle
<1>8. ASSUME NEW s \in Session, AccessExpires(s) \/ RefreshExpires(s) \/ SessionEnds(s)
      PROVE  FlowInv'
  BY <1>1, <1>8 DEF AccessExpires, RefreshExpires, SessionEnds, app
<1>9. CASE ReloadLoads \/ ReloadSets \/ UNCHANGED vars
  BY <1>1, <1>9 DEF ReloadLoads, ReloadSets, vars, app
<1>10. QED
  BY <1>2, <1>3, <1>4, <1>5, <1>6, <1>7, <1>8, <1>9 DEF Next, CrashInSave, Restart

\* In every behaviour, restarts included: two callbacks of the same authorization
\* flow never exchange its code both.
THEOREM OneExchangeForEachFlow == Spec => []FlowUsedOnce
<1>1. Init => FlowInv
  BY DEF Init, FlowInv, FlowUsedOnce, Idle
<1>2. Init => TypeInv
  BY TypeInit
<1>3. TypeInv /\ [Next]_vars => TypeInv'
  BY TypeStep
<1>4. TypeInv /\ FlowInv /\ [Next]_vars => FlowInv'
  BY FlowStep
<1>5. FlowInv => FlowUsedOnce
  BY DEF FlowInv
<1>6. QED BY <1>1, <1>2, <1>3, <1>4, <1>5, PTL DEF Spec

-----------------------------------------------------------------------------
(* The file of the local application *)

\* A step of a request that leaves the storages alone or saves one of them.
SavesOnce ==
  \/ UNCHANGED store
  \/ \E e \in Env : \E m : /\ mem' = [mem EXCEPT ![e] = m]
                           /\ file' = IF storage = "file" THEN m ELSE file

\* Saving is saving the storage of one environment.
LEMMA SavesIs == ASSUME NEW r, r.env \in Env, NEW m, Saves(r, m) PROVE SavesOnce
  BY HomeType DEF Saves, SavesOnce

\* So are the changes of restore_tokens.
LEMMA ChangesIs ==
  ASSUME NEW r, r.env \in Env, NEW m, NEW t, Changes(r, m, t)
  PROVE  SavesOnce
  BY SavesIs DEF Changes, SavesOnce

\* restore_tokens saves once at most.
LEMMA RestoreSaves ==
  ASSUME StoreOK, NEW c, NEW r, CallOK(r), r.id \in Id, r.ans = NoTok, Restore(c, r)
  PROVE  SavesOnce
<1>1. Changes(r, Held(r), Get(Held(r), r.id)) /\ r.env \in Env
  BY RestoreFollows DEF CallOK, Requests
<1>2. QED BY <1>1, ChangesIs

\* So does every step of a request in progress.
LEMMA ContinuesSaves ==
  ASSUME TypeInv, NEW c \in Call, Continues(c)
  PROVE  SavesOnce
<1> CallOK(call[c]) /\ CallsOK /\ StoreOK /\ call[c].env \in Env
  BY DEF TypeInv, CallsOK, CallOK, Requests
<1>1. CASE RestoreReal(c)
  <2>1. call[c].id \in Id /\ call[c].ans = NoTok
    BY <1>1 DEF RestoreReal, CallOK, Refreshing, Granting
  <2>2. QED BY <1>1, <2>1, RestoreSaves DEF RestoreReal
<1>2. CASE ReceiveRefusal(c)
  BY <1>2, SavesIs DEF ReceiveRefusal
<1>3. CASE ReceiveRefreshed(c)
  <2> DEFINE r == [call[c] EXCEPT !.tok = call[c].ans, !.ans = NoTok]
             m == Add(Held(call[c]), call[c].id, call[c].ans)
  <2>1. CallOK(r) /\ r.tok \in Tok /\ r.ans = NoTok /\ r.env \in Env
    BY <1>3, RefreshedOK DEF ReceiveRefreshed
  <2>2. Restored(c, r, m, TRUE) \/ Saves(r, m)
    BY <1>3 DEF ReceiveRefreshed
  <2> HIDE DEF r, m
  <2>3. r \in Requests /\ r.tok # NoTok
    BY <2>1, NoTokAssumption DEF CallOK
  <2>4. CASE Restored(c, r, m, TRUE)
    <3>1. Changes(r, m, r.tok)
      BY <2>1, <2>3, <2>4, RestoredFollows
    <3>2. QED BY <2>1, <3>1, ChangesIs
  <2>5. QED BY <2>1, <2>2, <2>4, SavesIs
<1>4. CASE ReceiveGranted(c)
  BY <1>4, SavesIs DEF ReceiveGranted
<1>5. QED
  BY <1>1, <1>2, <1>3, <1>4 DEF Continues, UseToken, AfterLogin, ProviderRefreshes,
     ProviderRefuses, ProviderGrants, NetworkFails, SavesOnce

\* A reload writes into an environment that is not the current one yet, and what a
\* restart reads is what the first environment has.
LEMMA SnapshotStep == TypeInv /\ FileIsASnapshot /\ [Next]_vars => FileIsASnapshot'
<1> SUFFICES ASSUME TypeInv, FileIsASnapshot, [Next]_vars PROVE FileIsASnapshot'
  OBVIOUS
<1> StoreOK /\ DOMAIN mem = Env
  BY DEF TypeInv, StoreOK
<1>1. ASSUME SavesOnce, deployment' = deployment PROVE FileIsASnapshot'
  <2>1. CASE UNCHANGED store
    BY <1>1, <2>1 DEF FileIsASnapshot, store, storage
  <2>2. ASSUME NEW e \in Env, NEW m, mem' = [mem EXCEPT ![e] = m],
               file' = IF storage = "file" THEN m ELSE file
        PROVE  FileIsASnapshot'
    <3>1. mem'[e] = m /\ storage' = storage
      BY <1>1, <2>2 DEF storage
    <3>2. QED BY <2>2, <3>1 DEF FileIsASnapshot
  <2>3. QED BY <1>1, <2>1, <2>2 DEF SavesOnce
<1>2. ASSUME NEW c \in Call, Continues(c) PROVE FileIsASnapshot'
  <2>1. deployment' = deployment
    BY <1>2 DEF Continues, RestoreReal, UseToken, AfterLogin, ProviderRefreshes, ProviderRefuses,
         ProviderGrants, NetworkFails, ReceiveRefusal, ReceiveRefreshed, ReceiveGranted
  <2>2. QED BY <1>1, <1>2, <2>1, ContinuesSaves
<1>3. ASSUME NEW c \in Call,
             \/ \E op \in OpNames, i \in Id : Request(c, op, i)
             \/ \E i, j \in Id : StopImpersonation(c, i, j)
      PROVE  FileIsASnapshot'
  <2>1. deployment' = deployment
    BY <1>3 DEF Request, StopImpersonation
  <2>2. PICK r : CallOK(r) /\ r.id \in Id /\ r.ans = NoTok /\ Restore(c, r)
    BY <1>3, RequestFollows
  <2>3. QED BY <1>1, <2>1, <2>2, RestoreSaves
<1>4. ASSUME NEW c \in Call, NEW s \in Session, BackChannel(c, s) PROVE FileIsASnapshot'
  <2>1. deployment' = deployment
    BY <1>4 DEF BackChannel
  <2>2. CASE UNCHANGED store
    BY <1>1, <2>1, <2>2 DEF SavesOnce
  <2>3. CASE \E r : CallOK(r) /\ r.id \in Id /\ r.ans = NoTok /\ Restore(c, r)
    BY <1>1, <2>1, <2>3, RestoreSaves
  <2>4. QED BY <1>4, <2>2, <2>3, BackChannelFollows
<1>5. ASSUME UNCHANGED <<deployment, store>> PROVE FileIsASnapshot'
  BY <1>1, <1>5 DEF SavesOnce
<1>6. ASSUME NEW m, StartsWith(m) PROVE FileIsASnapshot'
  <2>1. 0 \in Env
    BY SessionsAssumption DEF Env
  <2>2. QED BY <1>6, <2>1 DEF StartsWith, FileIsASnapshot, storage
<1>7. CASE ReloadLoads
  <2>1. env + 1 \in Env /\ mem'[env + 1] = file
    BY <1>7, SessionsAssumption DEF ReloadLoads, TypeInv, AppOK, Env
  <2>2. QED BY <1>7, <2>1 DEF ReloadLoads, FileIsASnapshot
<1>8. ASSUME NEW c \in Call, NEW f \in Flow, LoginCallback(c, f) PROVE FileIsASnapshot'
  BY <1>5, <1>8 DEF LoginCallback
<1>9. ASSUME NEW f \in Flow, BeginFlow(f) \/ FlowExpires(f) PROVE FileIsASnapshot'
  BY <1>5, <1>9 DEF BeginFlow, FlowExpires
<1>10. ASSUME NEW s \in Session, AccessExpires(s) \/ RefreshExpires(s) \/ SessionEnds(s)
      PROVE  FileIsASnapshot'
  BY <1>5, <1>10 DEF AccessExpires, RefreshExpires, SessionEnds
<1>11. CASE ReloadSets \/ UNCHANGED vars
  BY <1>5, <1>11 DEF ReloadSets, vars
<1>12. QED
  BY <1>2, <1>3, <1>4, <1>6, <1>7, <1>8, <1>9, <1>10, <1>11 DEF Next, CrashInSave, Restart

\* In every behaviour: whichever environment saves, in whatever order, the file of
\* the local application is the storage of one of them.
THEOREM FileOfOneEnvironment == Spec => []FileIsASnapshot
<1>1. Init => FileIsASnapshot
  <2>1. 0 \in Env
    BY SessionsAssumption DEF Env
  <2>2. QED BY <2>1 DEF Init, FileIsASnapshot
<1>2. Init => TypeInv
  BY TypeInit
<1>3. TypeInv /\ [Next]_vars => TypeInv'
  BY TypeStep
<1>4. TypeInv /\ FileIsASnapshot /\ [Next]_vars => FileIsASnapshot'
  BY SnapshotStep
<1>5. QED BY <1>1, <1>2, <1>3, <1>4, PTL DEF Spec

-----------------------------------------------------------------------------
(* Sessions and their ids *)

\* Every session that one login has been granted has one id, or none yet: o gives it.
\* The storages' tokens of the session are under that id, and the index says so.
ContentsOwned(m, o, sh) ==
  \A i \in Id :
    LET t == m.tokens[i]
    IN t # NoTok /\ t.sid \notin sh => /\ o[t.sid] = i
                                      /\ m.sids[t.sid] = [id |-> i, gen |-> t.gen]

\* So are the tokens that a request holds, and the impersonation it is to end; what
\* it is granted has no id yet.
CallOwned(r, o, sh) ==
  /\ r.tok # NoTok /\ r.tok.sid \notin sh => o[r.tok.sid] = r.id
  /\ r.imp # NoTok /\ r.imp.sid \notin sh => o[r.imp.sid] = r.imp.id
  /\ r.at \in Refreshing /\ r.ans \in Tok => r.ans.sid = r.tok.sid
  /\ r.at \in Granting /\ r.ans \in Tok /\ r.ans.sid \notin sh => o[r.ans.sid] = NoId

StoreOwned(o) ==
  (\A e \in Env : ContentsOwned(mem[e], o, shared)) /\ ContentsOwned(file, o, shared)

Answered(c, s) == call[c].ans \in Tok /\ call[c].ans.sid = s

\* A session is granted to one request, and a session never granted is nobody's.
CallsOwned(o) ==
  /\ \A c \in Call : CallOwned(call[c], o, shared)
  /\ \A c, d \in Call : \A s \in Session \ shared :
       Answered(c, s) /\ Answered(d, s) /\ {call[c].at, call[d].at} \subseteq Granting => c = d
  /\ \A s \in Session : newest[s] = 0 => o[s] = NoId /\ \A c \in Call : ~Answered(c, s)

\* The invariant under ReachableBySession, which alone says nothing of the requests
\* in progress, that are to save what they hold under the id they hold.
OwnerInv == \E o \in [Session -> Id \cup {NoId}] : StoreOwned(o) /\ CallsOwned(o)

\* A storage that is empty has nothing to keep to its id.
LEMMA EmptyOwned == ASSUME NEW o, NEW sh PROVE ContentsOwned(Empty, o, sh)
  BY DEF ContentsOwned, Empty

\* Tokens stored under the id of their session are found from it; the tokens that they
\* replace are no more, and their session is left with a stale entry that nothing uses.
LEMMA AddOwned ==
  ASSUME NEW o, NEW sh, NEW m \in Contents, ContentsOwned(m, o, sh), NEW i \in Id, NEW t \in Tok,
         t.sid \in sh \/ o[t.sid] = i
  PROVE  ContentsOwned(Add(m, i, t), o, sh)
<1> DEFINE n == Add(m, i, t)
<1>1. t.sid \in Session
  BY TokType
<1>2. /\ \A j \in Id : n.tokens[j] = IF j = i THEN t ELSE m.tokens[j]
      /\ \A s \in Session : n.sids[s] = IF s = t.sid THEN [id |-> i, gen |-> t.gen] ELSE m.sids[s]
  BY <1>1 DEF Add, Contents
<1> HIDE DEF n
<1> SUFFICES ASSUME NEW j \in Id, n.tokens[j] # NoTok, n.tokens[j].sid \notin sh
             PROVE  /\ o[n.tokens[j].sid] = j
                    /\ n.sids[n.tokens[j].sid] = [id |-> j, gen |-> n.tokens[j].gen]
  BY DEF ContentsOwned, n
<1>3. CASE j = i
  BY <1>1, <1>2, <1>3
<1>4. CASE j # i
  <2>1. n.tokens[j] = m.tokens[j] /\ m.tokens[j] \in Tok
    BY <1>2, <1>4 DEF Contents
  <2>2. m.tokens[j].sid \in Session
    BY <2>1, TokType
  <2>3. o[m.tokens[j].sid] = j /\ m.sids[m.tokens[j].sid] = [id |-> j, gen |-> m.tokens[j].gen]
    BY <2>1, NoTokAssumption DEF ContentsOwned
  <2>4. QED BY <1>2, <1>4, <2>1, <2>2, <2>3
<1>5. QED BY <1>3, <1>4

\* Deleting a session under its id leaves every other one as it was.
LEMMA DropOwned ==
  ASSUME NEW o, NEW sh, NEW m \in Contents, ContentsOwned(m, o, sh), NEW i \in Id,
         NEW s \in Session, s \in sh \/ o[s] = i
  PROVE  ContentsOwned(Drop(m, i, s), o, sh)
<1> DEFINE n == Drop(m, i, s)
<1>1. /\ \A j \in Id : n.tokens[j] = IF j = i THEN NoTok ELSE m.tokens[j]
      /\ \A z \in Session : n.sids[z] = IF z = s THEN NoEntry ELSE m.sids[z]
  BY DEF Drop, Contents
<1> HIDE DEF n
<1> SUFFICES ASSUME NEW j \in Id, n.tokens[j] # NoTok, n.tokens[j].sid \notin sh
             PROVE  /\ o[n.tokens[j].sid] = j
                    /\ n.sids[n.tokens[j].sid] = [id |-> j, gen |-> n.tokens[j].gen]
  BY DEF ContentsOwned, n
<1>2. n.tokens[j] = m.tokens[j] /\ j # i /\ m.tokens[j] \in Tok
  BY <1>1 DEF Contents
<1>3. m.tokens[j].sid \in Session
  BY <1>2, TokType
<1>4. o[m.tokens[j].sid] = j /\ m.sids[m.tokens[j].sid] = [id |-> j, gen |-> m.tokens[j].gen]
  BY <1>2, NoTokAssumption DEF ContentsOwned
<1>5. QED BY <1>1, <1>2, <1>3, <1>4

\* What is found under an id is the id's.
LEMMA GetOwned ==
  ASSUME NEW o, NEW sh, NEW m \in Contents, ContentsOwned(m, o, sh), NEW i \in Id,
         Get(m, i) # NoTok
  PROVE  Get(m, i).sid \in Session /\ (Get(m, i).sid \in sh \/ o[Get(m, i).sid] = i)
<1>1. Get(m, i) = m.tokens[i] /\ Get(m, i) \in Tok
  BY GetType
<1>2. QED BY <1>1, TokType, NoTokAssumption DEF ContentsOwned

\* Saving contents that keep sessions to their ids.
LEMMA SavesOwned ==
  ASSUME StoreOK, NEW o, StoreOwned(o), NEW r, r.env \in Env, NEW m,
         ContentsOwned(m, o, shared), Saves(r, m), shared' = shared
  PROVE  StoreOwned(o)'
  BY HomeType DEF Saves, StoreOwned, StoreOK

\* The changes of restore_tokens do.
LEMMA ChangesOwned ==
  ASSUME StoreOK, NEW o, StoreOwned(o), NEW r \in Requests, CallOwned(r, o, shared),
         NEW m \in Contents, ContentsOwned(m, o, shared), NEW t,
         t # NoTok => /\ r.id \in Id /\ t.sid \in Session
                      /\ t.sid \in shared \/ o[t.sid] = r.id,
         Changes(r, m, t), shared' = shared
  PROVE  StoreOwned(o)'
<1> r.env \in Env
  BY DEF Requests
<1>1. CASE UNCHANGED store
  BY <1>1 DEF store, StoreOwned
<1>2. CASE Saves(r, m)
  BY <1>2, SavesOwned
<1>3. CASE t # NoTok /\ Saves(r, Drop(m, r.id, t.sid))
  BY <1>3, DropOwned, SavesOwned
<1>4. CASE r.imp # NoTok /\ Saves(r, Drop(m, r.imp.id, r.imp.sid))
  <2>1. r.imp.id \in Id /\ r.imp.sid \in Session
    BY <1>4 DEF Requests
  <2>2. QED BY <1>4, <2>1, DropOwned, SavesOwned DEF CallOwned
<1>5. QED BY <1>1, <1>2, <1>3, <1>4 DEF Changes

\* A request that goes on without an answer.
LEMMA QuietOwned ==
  ASSUME CallsOK, NEW o, CallsOwned(o), NEW c \in Call, NEW q, q.ans = NoTok,
         q.tok # NoTok /\ q.tok.sid \notin shared => o[q.tok.sid] = q.id,
         q.imp # NoTok /\ q.imp.sid \notin shared => o[q.imp.sid] = q.imp.id,
         Becomes(c, q), UNCHANGED <<newest, shared>>
  PROVE  CallsOwned(o)'
<1>1. \A d \in Call : call'[d] = IF d = c THEN q ELSE call[d]
  BY DEF Becomes, CallsOK
<1>2. \A d \in Call, s \in Session : Answered(d, s)' => d # c /\ Answered(d, s)
  BY <1>1, NoTokAssumption DEF Answered
<1>3. CallOwned(q, o, shared)
  BY NoTokAssumption DEF CallOwned
<1>4. \A d \in Call : CallOwned(call'[d], o, shared)
  BY <1>1, <1>3 DEF CallsOwned
<1>5. \A d, e \in Call : \A s \in Session \ shared :
        Answered(d, s)' /\ Answered(e, s)' /\ {call'[d].at, call'[e].at} \subseteq Granting => d = e
  BY <1>1, <1>2 DEF CallsOwned
<1>6. \A s \in Session : newest[s] = 0 => o[s] = NoId /\ \A d \in Call : ~Answered(d, s)'
  BY <1>2 DEF CallsOwned
<1>7. QED BY <1>4, <1>5, <1>6 DEF CallsOwned

\* A request that follows r, which holds nothing but what its id has.
LEMMA FollowsOwned ==
  ASSUME CallsOK, NEW o, CallsOwned(o), NEW c \in Call, NEW r, CallOwned(r, o, shared),
         NEW t, t # NoTok => t.sid \in shared \/ o[t.sid] = r.id,
         NEW q, Follows(q, r, t), Becomes(c, q), UNCHANGED <<newest, shared>>
  PROVE  CallsOwned(o)'
<1>1. q.tok # NoTok /\ q.tok.sid \notin shared => o[q.tok.sid] = q.id
  BY DEF Follows, CallOwned
<1>2. q.imp # NoTok /\ q.imp.sid \notin shared => o[q.imp.sid] = q.imp.id
  <2>1. CASE q.imp = r.imp
    BY <2>1 DEF CallOwned
  <2>2. CASE t # NoTok /\ q.imp = [id |-> r.id, sid |-> t.sid]
    BY <2>2
  <2>3. QED BY <2>1, <2>2 DEF Follows
<1>3. QED BY <1>1, <1>2, QuietOwned DEF Follows

\* restore_tokens keeps every session to its id.
LEMMA RestoreOwned ==
  ASSUME StoreOK, CallsOK, NEW o, StoreOwned(o), CallsOwned(o), NEW c \in Call,
         NEW r, CallOK(r), r.id \in Id, r.ans = NoTok, CallOwned(r, o, shared),
         Restore(c, r), UNCHANGED <<newest, shared>>
  PROVE  StoreOwned(o)' /\ CallsOwned(o)'
<1> DEFINE m == Held(r)
           t == Get(m, r.id)
<1>1. r \in Requests /\ m \in Contents /\ ContentsOwned(m, o, shared)
  BY HomeType DEF CallOK, Requests, StoreOK, StoreOwned, Held
<1>2. t # NoTok => t.sid \in Session /\ (t.sid \in shared \/ o[t.sid] = r.id)
  BY <1>1, GetOwned
<1>3. PICK q : Becomes(c, q) /\ Follows(q, r, t)
  BY RestoreFollows
<1>4. Changes(r, m, t)
  BY RestoreFollows
<1> HIDE DEF m, t
<1>5. QED BY <1>1, <1>2, <1>3, <1>4, FollowsOwned, ChangesOwned

\* A request that is over keeps nothing from its session.
LEMMA FinishOwned ==
  ASSUME CallsOK, NEW o, CallsOwned(o), NEW c \in Call, Finish(c), UNCHANGED <<newest, shared>>
  PROVE  CallsOwned(o)'
  BY QuietOwned DEF Finish, Idle

\* Nor does one that restore_tokens returns None to change what it holds.
LEMMA AbsentOwned ==
  ASSUME CallsOK, NEW o, CallsOwned(o), NEW c \in Call, Absent(c, call[c]),
         UNCHANGED <<newest, shared>>
  PROVE  CallsOwned(o)'
<1>1. CallOK(call[c]) /\ CallOwned(call[c], o, shared)
  BY DEF CallsOK, CallsOwned
<1>2. PICK q : Becomes(c, q) /\ Follows(q, call[c], NoTok)
  BY <1>1, AbsentFollows
<1>3. QED BY <1>1, <1>2, FollowsOwned

\* An answer of the provider to a request that refreshes its tokens is for their
\* session; a session granted for the first time is nobody's, and one granted again
\* is shared.
LEMMA AnswerOwned ==
  ASSUME TypeInv, NEW o, StoreOwned(o), CallsOwned(o), NEW c \in Call,
         ProviderRefreshes(c) \/ ProviderRefuses(c) \/ \E s \in Session : ProviderGrants(c, s)
  PROVE  StoreOwned(o)' /\ CallsOwned(o)'
<1> CallsOK /\ CallOK(call[c]) /\ CallOwned(call[c], o, shared)
  BY DEF TypeInv, CallsOK, CallsOwned
<1>1. PICK ans : Answers(c, ans) /\ UNCHANGED store
  BY DEF ProviderRefreshes, ProviderRefuses, ProviderGrants
<1>2. PICK q : /\ Becomes(c, q) /\ q.ans = ans /\ q.at = call[c].at /\ q.to = call[c].to
               /\ q.tok = call[c].tok /\ q.id = call[c].id /\ q.imp = call[c].imp
  BY <1>1, AnswersIs
<1>3. \A d \in Call : call'[d] = IF d = c THEN q ELSE call[d]
  BY <1>2 DEF Becomes, CallsOK
<1>4. CASE ProviderRefuses(c)
  <2>1. ans = Refused /\ UNCHANGED <<newest, shared>> /\ call[c].ans = NoTok
    <3>1. call'[c].ans = Refused
      BY <1>4 DEF ProviderRefuses, Answers, Becomes, CallsOK, CallOK, Requests
    <3>2. QED BY <1>2, <1>3, <1>4, <3>1 DEF ProviderRefuses, provider, Waiting
  <2>2. \A d \in Call, s \in Session : Answered(d, s)' => Answered(d, s)
    BY <1>2, <1>3, <2>1, NoTokAssumption DEF Answered
  <2>3. \A d \in Call : CallOwned(call'[d], o, shared)
    BY <1>2, <1>3, <2>1, NoTokAssumption DEF CallsOwned, CallOwned
  <2>4. \A d \in Call : call'[d].at = call[d].at
    BY <1>2, <1>3
  <2>5. QED BY <1>1, <2>1, <2>2, <2>3, <2>4 DEF CallsOwned, StoreOwned, store
<1>5. ASSUME NEW s \in Session, ans \in Tok, ans.sid = s,
             newest' = [newest EXCEPT ![s] = @ + 1], shared \subseteq shared',
             \/ call[c].at \in Refreshing /\ s = call[c].tok.sid
             \/ call[c].at \in Granting /\ (s \in shared' \/ newest[s] = 0)
      PROVE  StoreOwned(o)' /\ CallsOwned(o)'
  <2>1. StoreOwned(o)'
    BY <1>1, <1>5 DEF StoreOwned, ContentsOwned, store
  <2>2. \A d \in Call, z \in Session : Answered(d, z)' =>
          IF d = c THEN z = s ELSE Answered(d, z)
    BY <1>2, <1>3, <1>5 DEF Answered
  <2>3. Refreshing \cap Granting = {}
    BY DEF Refreshing, Granting
  <2>4. CallOwned(q, o, shared')
    BY <1>2, <1>5, <2>3 DEF CallOwned, CallsOwned
  <2>5. \A d \in Call : CallOwned(call'[d], o, shared')
    BY <1>3, <1>5, <2>4 DEF CallsOwned, CallOwned
  <2>6. ASSUME NEW d \in Call, NEW e \in Call, NEW z \in Session \ shared', Answered(d, z)',
               Answered(e, z)', {call'[d].at, call'[e].at} \subseteq Granting
        PROVE  d = e
    <3>1. CASE d # c /\ e # c
      BY <1>3, <1>5, <2>2, <2>6, <3>1 DEF CallsOwned
    <3>2. CASE d # c /\ e = c
      <4>1. z = s /\ Answered(d, z) /\ newest[s] = 0
        BY <1>2, <1>3, <1>5, <2>2, <2>3, <2>6, <3>2
      <4>2. QED BY <4>1 DEF CallsOwned
    <3>3. CASE d = c /\ e # c
      <4>1. z = s /\ Answered(e, z) /\ newest[s] = 0
        BY <1>2, <1>3, <1>5, <2>2, <2>3, <2>6, <3>3
      <4>2. QED BY <4>1 DEF CallsOwned
    <3>4. QED BY <3>1, <3>2, <3>3
  <2>7. ASSUME NEW z \in Session, newest'[z] = 0
        PROVE  o[z] = NoId /\ \A d \in Call : ~Answered(d, z)'
    <3>1. z # s /\ newest[z] = 0
      BY <1>5, <2>7 DEF TypeInv, ProviderOK
    <3>2. QED BY <2>2, <3>1 DEF CallsOwned
  <2>8. QED BY <2>1, <2>5, <2>6, <2>7 DEF CallsOwned
<1>6. CASE ProviderRefreshes(c)
  <2> DEFINE s == call[c].tok.sid
             new == [sid |-> s, gen |-> newest[s] + 1]
  <2>1. s \in Session
    BY <1>6, TokType DEF ProviderRefreshes, CallOK
  <2>2. ans = new
    <3>1. Answers(c, new)
      BY <1>6 DEF ProviderRefreshes
    <3> HIDE DEF new
    <3>2. call'[c].ans = new
      BY <3>1 DEF Answers, Becomes, CallsOK, CallOK, Requests
    <3>3. QED BY <1>2, <1>3, <3>2
  <2>3. new \in Tok
    BY <1>6, <2>1, IssueOK DEF ProviderRefreshes, TypeInv, ProviderOK
  <2>4. QED BY <1>5, <1>6, <2>1, <2>2, <2>3 DEF ProviderRefreshes
<1>7. ASSUME NEW s \in Session, ProviderGrants(c, s) PROVE StoreOwned(o)' /\ CallsOwned(o)'
  <2> DEFINE new == [sid |-> s, gen |-> newest[s] + 1]
  <2>1. ans = new
    <3>1. Answers(c, new)
      BY <1>7 DEF ProviderGrants
    <3> HIDE DEF new
    <3>2. call'[c].ans = new
      BY <3>1 DEF Answers, Becomes, CallsOK, CallOK, Requests
    <3>3. QED BY <1>2, <1>3, <3>2
  <2>2. newest[s] < MaxGen[s]
    BY <1>7, SessionsAssumption DEF ProviderGrants
  <2>3. new \in Tok
    BY <1>7, <2>2, IssueOK DEF ProviderGrants, TypeInv, ProviderOK
  <2>4. QED BY <1>5, <1>7, <2>1, <2>3 DEF ProviderGrants
<1>8. QED BY <1>4, <1>6, <1>7

\* Nobody holds tokens of a session that has no id yet, so that it may get one.
LEMMA NewOwner ==
  ASSUME NEW o \in [Session -> Id \cup {NoId}], NEW sh, NEW s \in Session, NEW i \in Id,
         s \in sh \/ o[s] = NoId
  PROVE  /\ \A m \in Contents :
              ContentsOwned(m, o, sh) => ContentsOwned(m, [o EXCEPT ![s] = i], sh)
         /\ \A r : /\ CallOK(r) /\ CallOwned(r, o, sh)
                   /\ r.at \in Granting /\ r.ans \in Tok /\ r.ans.sid = s => s \in sh
                   => CallOwned(r, [o EXCEPT ![s] = i], sh)
<1> DEFINE p == [o EXCEPT ![s] = i]
<1>1. \A z \in Session \ sh : p[z] = o[z] \/ (z = s /\ o[z] = NoId)
  OBVIOUS
<1>2. NoId \notin Id
  BY SessionsAssumption
<1> HIDE DEF p
<1>3. ASSUME NEW m \in Contents, ContentsOwned(m, o, sh) PROVE ContentsOwned(m, p, sh)
  <2> SUFFICES ASSUME NEW j \in Id, m.tokens[j] # NoTok, m.tokens[j].sid \notin sh
               PROVE  /\ p[m.tokens[j].sid] = j
                      /\ m.sids[m.tokens[j].sid] = [id |-> j, gen |-> m.tokens[j].gen]
    BY DEF ContentsOwned
  <2>1. m.tokens[j].sid \in Session
    BY TokType DEF Contents
  <2>2. /\ o[m.tokens[j].sid] = j
        /\ m.sids[m.tokens[j].sid] = [id |-> j, gen |-> m.tokens[j].gen]
    BY <1>3 DEF ContentsOwned
  <2>3. QED BY <1>1, <1>2, <2>1, <2>2
<1>4. ASSUME NEW r, CallOK(r), CallOwned(r, o, sh),
             r.at \in Granting /\ r.ans \in Tok /\ r.ans.sid = s => s \in sh
      PROVE  CallOwned(r, p, sh)
  <2>0. r \in Requests /\ (r.tok # NoTok => r.id \in Id)
    BY <1>4 DEF CallOK
  <2>1. r.tok # NoTok => r.tok.sid \in Session /\ r.id \in Id
    BY <2>0, TokType DEF Requests
  <2>2. r.imp # NoTok => r.imp.sid \in Session /\ r.imp.id \in Id
    BY <2>0 DEF Requests
  <2>3. r.ans \in Tok => r.ans.sid \in Session
    BY TokType
  <2>4. r.tok # NoTok /\ r.tok.sid \notin sh => p[r.tok.sid] = r.id
    BY <1>1, <1>2, <1>4, <2>1 DEF CallOwned
  <2>5. r.imp # NoTok /\ r.imp.sid \notin sh => p[r.imp.sid] = r.imp.id
    BY <1>1, <1>2, <1>4, <2>2 DEF CallOwned
  <2>6. r.at \in Granting /\ r.ans \in Tok /\ r.ans.sid \notin sh => p[r.ans.sid] = NoId
    BY <1>1, <1>4, <2>3 DEF CallOwned
  <2>7. QED BY <1>4, <2>4, <2>5, <2>6 DEF CallOwned
<1>5. QED BY <1>3, <1>4 DEF p

\* save_tokens gives the session the id it saves its tokens under.
LEMMA GrantedOwned ==
  ASSUME TypeInv, OwnerInv, NEW c \in Call, ReceiveGranted(c)
  PROVE  OwnerInv'
<1> CallsOK /\ StoreOK /\ CallOK(call[c])
  BY DEF TypeInv, CallsOK
<1>1. PICK o \in [Session -> Id \cup {NoId}] : StoreOwned(o) /\ CallsOwned(o)
  BY DEF OwnerInv
<1>2. PICK r : r = call[c]
  OBVIOUS
<1>3. PICK i \in Id : i = NewId(c)
  BY NewIdType DEF ReceiveGranted
<1>4. PICK s \in Session : s = r.ans.sid
  BY <1>2, TokType DEF ReceiveGranted
<1>5. /\ r.at \in Granting /\ r.ans \in Tok /\ r.env \in Env /\ Answered(c, s)
      /\ UNCHANGED <<newest, shared>>
  BY <1>2, <1>4 DEF ReceiveGranted, CallOK, Requests, Answered, provider
<1> DEFINE p == [o EXCEPT ![s] = i]
<1>6. s \in shared \/ o[s] = NoId
  BY <1>1, <1>2, <1>4, <1>5 DEF CallsOwned, CallOwned
<1>7. p \in [Session -> Id \cup {NoId}] /\ p[s] = i /\ \A z \in Session \ {s} : p[z] = o[z]
  OBVIOUS
<1>8. /\ \A m \in Contents : ContentsOwned(m, o, shared) => ContentsOwned(m, p, shared)
      /\ \A q : /\ CallOK(q) /\ CallOwned(q, o, shared)
                /\ q.at \in Granting /\ q.ans \in Tok /\ q.ans.sid = s => s \in shared
                => CallOwned(q, p, shared)
  BY <1>6, NewOwner
<1> HIDE DEF p
<1>9. StoreOwned(p)
  BY <1>1, <1>8 DEF StoreOwned, StoreOK
<1>10. StoreOwned(p)'
  <2> DEFINE m == Add(Held(r), i, r.ans)
  <2>1. Held(r) \in Contents /\ ContentsOwned(Held(r), p, shared)
    BY <1>5, <1>9, HomeType DEF StoreOK, StoreOwned, Held
  <2>2. ContentsOwned(m, p, shared)
    BY <1>4, <1>5, <1>7, <2>1, AddOwned
  <2>3. Saves(r, m)
    BY <1>2, <1>3 DEF ReceiveGranted
  <2> HIDE DEF m
  <2>4. QED BY <1>5, <1>9, <2>2, <2>3, SavesOwned
<1>11. PICK q : /\ Becomes(c, q) /\ q.ans = NoTok /\ q.at \notin Granting
                /\ q.imp \in {NoTok, r.imp} /\ (q.tok # NoTok => q.tok = r.ans /\ q.id = i)
  <2> DEFINE d == [r EXCEPT !.at = "decode", !.id = i, !.to = NoId, !.tok = r.ans, !.ans = NoTok]
  <2>1. CASE r.at = "exchange" /\ Becomes(c, d)
    <3>1. d.at = "decode" /\ d.id = i /\ d.tok = r.ans /\ d.ans = NoTok /\ d.imp = r.imp
      BY <1>2 DEF CallOK, Requests
    <3> HIDE DEF d
    <3>2. QED BY <2>1, <3>1 DEF Granting
  <2>2. CASE Finish(c)
    BY <2>2 DEF Finish, Idle, Granting
  <2>3. QED BY <1>2, <1>3, <2>1, <2>2 DEF ReceiveGranted
<1>12. \A d \in Call : call'[d] = IF d = c THEN q ELSE call[d]
  BY <1>11 DEF Becomes, CallsOK
<1>13. \A d \in Call, z \in Session : Answered(d, z)' => d # c /\ Answered(d, z)
  BY <1>11, <1>12, NoTokAssumption DEF Answered
<1>14. \A d \in Call \ {c} : CallOwned(call[d], p, shared)
  <2> SUFFICES ASSUME NEW d \in Call \ {c} PROVE CallOwned(call[d], p, shared)
    OBVIOUS
  <2>1. CallOK(call[d]) /\ CallOwned(call[d], o, shared)
    BY <1>1 DEF CallsOK, CallsOwned
  <2>2. call[d].at \in Granting /\ Answered(d, s) => s \in shared
    BY <1>1, <1>2, <1>5 DEF CallsOwned
  <2>3. QED BY <1>8, <2>1, <2>2 DEF Answered
<1>15. CallOwned(q, p, shared)
  <2>1. q.tok # NoTok => p[q.tok.sid] = q.id
    BY <1>4, <1>7, <1>11
  <2>2. q.imp # NoTok /\ q.imp.sid \notin shared => p[q.imp.sid] = q.imp.id
    <3> SUFFICES ASSUME q.imp # NoTok, q.imp.sid \notin shared PROVE p[q.imp.sid] = q.imp.id
      OBVIOUS
    <3>1. q.imp = r.imp /\ r.imp.sid \in Session /\ r.imp.id \in Id
      BY <1>2, <1>11 DEF CallOK, Requests
    <3>2. o[r.imp.sid] = r.imp.id
      BY <1>1, <1>2, <3>1 DEF CallsOwned, CallOwned
    <3>3. r.imp.sid # s
      BY <1>6, <3>1, <3>2, SessionsAssumption
    <3>4. QED BY <1>7, <3>1, <3>2, <3>3
  <2>3. QED BY <1>11, <2>1, <2>2, NoTokAssumption DEF CallOwned
<1>16. \A d, e \in Call : \A z \in Session \ shared :
         Answered(d, z)' /\ Answered(e, z)' /\ {call'[d].at, call'[e].at} \subseteq Granting => d = e
  BY <1>1, <1>12, <1>13 DEF CallsOwned
<1>17. ASSUME NEW z \in Session, newest[z] = 0 PROVE p[z] = NoId /\ \A d \in Call : ~Answered(d, z)'
  <2>1. z # s
    BY <1>1, <1>5, <1>17 DEF CallsOwned
  <2>2. QED BY <1>1, <1>7, <1>13, <1>17, <2>1 DEF CallsOwned
<1>18. CallsOwned(p)'
  BY <1>5, <1>12, <1>14, <1>15, <1>16, <1>17 DEF CallsOwned
<1>19. QED BY <1>7, <1>10, <1>18 DEF OwnerInv

\* Tokens refused are dropped, and tokens refreshed saved, under the id of their session.
LEMMA ReceiveOwned ==
  ASSUME TypeInv, NEW o, StoreOwned(o), CallsOwned(o), NEW c \in Call,
         ReceiveRefusal(c) \/ ReceiveRefreshed(c)
  PROVE  StoreOwned(o)' /\ CallsOwned(o)'
<1> CallsOK /\ StoreOK /\ CallOK(call[c]) /\ CallOwned(call[c], o, shared)
    /\ UNCHANGED <<newest, shared>>
  BY DEF TypeInv, CallsOK, CallsOwned, ReceiveRefusal, ReceiveRefreshed, provider
<1> call[c].tok \in Tok /\ call[c].tok.sid \in Session /\ call[c].id \in Id /\ call[c].env \in Env
  BY TokType, NoTokAssumption DEF ReceiveRefusal, ReceiveRefreshed, CallOK, Refreshing, Requests
<1> Held(call[c]) \in Contents /\ ContentsOwned(Held(call[c]), o, shared)
  BY HomeType DEF StoreOK, StoreOwned, Held
<1> call[c].tok.sid \in shared \/ o[call[c].tok.sid] = call[c].id
  BY NoTokAssumption DEF CallOwned
<1>1. CASE ReceiveRefusal(c)
  BY <1>1, AbsentOwned, DropOwned, SavesOwned DEF ReceiveRefusal
<1>2. CASE ReceiveRefreshed(c)
  <2> DEFINE m == Add(Held(call[c]), call[c].id, call[c].ans)
             r == [call[c] EXCEPT !.tok = call[c].ans, !.ans = NoTok]
  <2>1. call[c].ans \in Tok /\ call[c].ans.sid = call[c].tok.sid /\ call[c].at \in Refreshing
    BY <1>2 DEF ReceiveRefreshed, CallOwned
  <2>2. /\ CallOK(r) /\ r.tok = call[c].ans /\ r.ans = NoTok /\ r.id = call[c].id
        /\ r.imp = call[c].imp /\ r.env \in Env
    BY <2>1, RefreshedOK
  <2>3. m \in Contents /\ ContentsOwned(m, o, shared)
    BY <2>1, AddType, AddOwned
  <2>4. Restored(c, r, m, TRUE) \/ (Finish(c) /\ Saves(r, m))
    BY <1>2 DEF ReceiveRefreshed
  <2> HIDE DEF m, r
  <2>5. /\ r \in Requests /\ r.tok # NoTok /\ r.tok.sid \in Session
        /\ r.tok.sid \in shared \/ o[r.tok.sid] = r.id
    BY <2>1, <2>2, NoTokAssumption DEF CallOK
  <2>6. CallOwned(r, o, shared)
    BY <2>2, <2>5, NoTokAssumption DEF CallOwned
  <2>7. CASE Restored(c, r, m, TRUE)
    <3>1. PICK q : Becomes(c, q) /\ Follows(q, r, r.tok)
      BY <2>2, <2>5, <2>7, RestoredFollows
    <3>2. Changes(r, m, r.tok)
      BY <2>2, <2>5, <2>7, RestoredFollows
    <3>3. CallsOwned(o)'
      BY <2>5, <2>6, <3>1, FollowsOwned
    <3>4. StoreOwned(o)'
      BY <2>2, <2>3, <2>5, <2>6, <3>2, ChangesOwned
    <3>5. QED BY <3>3, <3>4
  <2>8. CASE Finish(c) /\ Saves(r, m)
    BY <2>2, <2>3, <2>8, FinishOwned, SavesOwned
  <2>9. QED BY <2>4, <2>7, <2>8
<1>3. QED BY <1>1, <1>2

\* One step of a request in progress, by what it receives.
LEMMA ContinuesOwned ==
  ASSUME TypeInv, OwnerInv, NEW c \in Call, Continues(c)
  PROVE  OwnerInv'
<1>1. PICK o \in [Session -> Id \cup {NoId}] : StoreOwned(o) /\ CallsOwned(o)
  BY DEF OwnerInv
<1>2. CallsOK /\ StoreOK /\ CallOK(call[c]) /\ CallOwned(call[c], o, shared)
  BY <1>1 DEF TypeInv, CallsOK, CallsOwned
<1>3. ASSUME StoreOwned(o)' /\ CallsOwned(o)' PROVE OwnerInv'
  BY <1>3 DEF OwnerInv
<1>4. CASE RestoreReal(c)
  <2>1. call[c].id \in Id /\ call[c].ans = NoTok /\ UNCHANGED <<newest, shared>>
    BY <1>2, <1>4 DEF RestoreReal, CallOK, Refreshing, Granting, provider
  <2>2. Restore(c, call[c])
    BY <1>4 DEF RestoreReal
  <2>3. QED BY <1>1, <1>2, <1>3, <2>1, <2>2, RestoreOwned
<1>5. CASE UseToken(c) \/ AfterLogin(c) \/ NetworkFails(c)
  <2>1. StoreOwned(o)' /\ UNCHANGED <<newest, shared>>
    BY <1>1, <1>5 DEF UseToken, AfterLogin, NetworkFails, StoreOwned, store, provider
  <2>2. CASE Finish(c)
    BY <1>1, <1>2, <1>3, <2>1, <2>2, FinishOwned
  <2>3. ASSUME NEW step \in {"again", "relogin"}, Asks(c, call[c], step) PROVE OwnerInv'
    <3>1. PICK q : Becomes(c, q) /\ q.tok = call[c].tok /\ q.id = call[c].id /\ q.imp = call[c].imp
                   /\ q.ans = NoTok /\ q.at = step
      BY <1>2, <2>3, AsksFollows DEF CallOK, Refreshing, Granting
    <3>2. CallsOwned(o)'
      BY <1>1, <1>2, <2>1, <3>1, QuietOwned DEF CallOwned
    <3>3. QED BY <1>3, <2>1, <3>2
  <2>4. QED BY <1>5, <2>2, <2>3 DEF UseToken, AfterLogin, NetworkFails
<1>6. CASE ProviderRefreshes(c) \/ ProviderRefuses(c) \/ \E s \in Session : ProviderGrants(c, s)
  BY <1>1, <1>3, <1>6, AnswerOwned
<1>7. CASE ReceiveRefusal(c) \/ ReceiveRefreshed(c)
  BY <1>1, <1>3, <1>7, ReceiveOwned
<1>8. QED BY <1>4, <1>5, <1>6, <1>7, GrantedOwned DEF Continues

\* What a process finds when it starts is owned as it was when it was saved.
LEMMA StartsOwned ==
  ASSUME NEW o \in [Session -> Id \cup {NoId}], StoreOwned(o), CallsOwned(o),
         NEW m, ContentsOwned(m, o, shared), StartsWith(m)
  PROVE  OwnerInv'
<1>1. StoreOwned(o)'
  BY EmptyOwned DEF StartsWith, StoreOwned, provider
<1>2. Idle.ans = NoTok /\ Idle.tok = NoTok /\ Idle.imp = NoTok
  BY DEF Idle
<1>3. CallOwned(Idle, o, shared)
  BY <1>2, NoTokAssumption DEF CallOwned
<1>4. \A c \in Call : call'[c] = Idle
  BY DEF StartsWith
<1>5. \A c \in Call, s \in Session : ~Answered(c, s)'
  BY <1>2, <1>4, NoTokAssumption DEF Answered
<1>6. UNCHANGED <<newest, shared>>
  BY DEF StartsWith, provider
<1>7. CallsOwned(o)'
  BY <1>3, <1>4, <1>5, <1>6 DEF CallsOwned
<1>8. QED BY <1>1, <1>7 DEF OwnerInv

\* One step per action: only save_tokens gives a session an id.
LEMMA OwnerStep == TypeInv /\ OwnerInv /\ [Next]_vars => OwnerInv'
<1> SUFFICES ASSUME TypeInv, OwnerInv, [Next]_vars PROVE OwnerInv'
  OBVIOUS
<1>1. PICK o \in [Session -> Id \cup {NoId}] : StoreOwned(o) /\ CallsOwned(o)
  BY DEF OwnerInv
<1>2. CallsOK /\ StoreOK
  BY DEF TypeInv
<1>3. ASSUME UNCHANGED <<mem, file, call, newest, shared>> PROVE OwnerInv'
  BY <1>3 DEF OwnerInv, StoreOwned, CallsOwned, Answered
<1>4. ASSUME NEW c \in Call, UNCHANGED <<newest, shared>>,
             \E r : /\ CallOK(r) /\ r.id \in Id /\ r.imp = NoTok /\ r.tok = NoTok
                    /\ r.ans = NoTok /\ Restore(c, r)
      PROVE  OwnerInv'
  <2>1. PICK r : /\ CallOK(r) /\ r.id \in Id /\ r.imp = NoTok /\ r.tok = NoTok
                 /\ r.ans = NoTok /\ Restore(c, r)
    BY <1>4
  <2>2. CallOwned(r, o, shared)
    BY <2>1, NoTokAssumption DEF CallOwned
  <2>3. StoreOwned(o)' /\ CallsOwned(o)'
    BY <1>1, <1>2, <1>4, <2>1, <2>2, RestoreOwned
  <2>4. QED BY <2>3 DEF OwnerInv
<1>5. ASSUME NEW c \in Call,
             \/ \E op \in OpNames, i \in Id : Request(c, op, i)
             \/ \E i, j \in Id : StopImpersonation(c, i, j)
      PROVE  OwnerInv'
  <2>1. UNCHANGED <<newest, shared>>
    BY <1>5 DEF Request, StopImpersonation, provider
  <2>2. PICK r : /\ CallOK(r) /\ r.id \in Id /\ r.env = env /\ r.imp = NoTok /\ r.tok = NoTok
                 /\ r.ans = NoTok /\ Restore(c, r)
    BY <1>5, RequestFollows
  <2>3. QED BY <1>4, <2>1, <2>2
<1>6. ASSUME NEW c \in Call, NEW s \in Session, BackChannel(c, s) PROVE OwnerInv'
  <2>1. UNCHANGED <<newest, shared>>
    BY <1>6 DEF BackChannel
  <2>2. CASE UNCHANGED <<store, call>>
    BY <1>3, <2>1, <2>2 DEF store
  <2>3. CASE \E r : /\ CallOK(r) /\ r.id \in Id /\ r.id = GetBySid(mem[Home(env)], s)
                    /\ r.op = "backchannel" /\ r.env = env /\ r.imp = NoTok /\ r.tok = NoTok
                    /\ r.ans = NoTok /\ Restore(c, r)
    BY <1>4, <2>1, <2>3
  <2>4. QED BY <1>6, <2>2, <2>3, BackChannelFollows
<1>7. ASSUME NEW c \in Call, NEW f \in Flow, LoginCallback(c, f) PROVE OwnerInv'
  <2>1. UNCHANGED <<mem, file, newest, shared>>
    BY <1>7 DEF LoginCallback, store, provider
  <2>2. PICK q : Becomes(c, q) /\ q.ans = NoTok /\ q.tok = NoTok /\ q.imp = NoTok
    BY <1>7, LoginIs
  <2>3. CallsOwned(o)'
    BY <1>1, <1>2, <2>1, <2>2, QuietOwned
  <2>4. StoreOwned(o)'
    BY <1>1, <2>1 DEF StoreOwned
  <2>5. QED BY <2>3, <2>4 DEF OwnerInv
<1>8. ASSUME NEW m, m \in {file, mem[0], Empty}, StartsWith(m) PROVE OwnerInv'
  <2>1. 0 \in Env
    BY SessionsAssumption DEF Env
  <2>2. ContentsOwned(m, o, shared)
    BY <1>1, <1>8, <2>1, EmptyOwned DEF StoreOwned
  <2>3. QED BY <1>1, <1>8, <2>2, StartsOwned
<1>9. CASE ReloadLoads
  <2>1. StoreOwned(o)' /\ UNCHANGED <<call, newest, shared>>
    BY <1>1, <1>2, <1>9 DEF ReloadLoads, StoreOwned, StoreOK, provider
  <2>2. CallsOwned(o)'
    BY <1>1, <2>1 DEF CallsOwned, Answered
  <2>3. QED BY <2>1, <2>2 DEF OwnerInv
<1>10. ASSUME NEW f \in Flow, BeginFlow(f) \/ FlowExpires(f) PROVE OwnerInv'
  BY <1>3, <1>10 DEF BeginFlow, FlowExpires, store, provider
<1>11. ASSUME NEW s \in Session, AccessExpires(s) \/ RefreshExpires(s) \/ SessionEnds(s)
       PROVE  OwnerInv'
  BY <1>3, <1>11 DEF AccessExpires, RefreshExpires, SessionEnds, store
<1>12. CASE ReloadSets \/ UNCHANGED vars
  BY <1>3, <1>12 DEF ReloadSets, store, provider, vars
<1>13. QED
  BY <1>5, <1>6, <1>7, <1>8, <1>9, <1>10, <1>11, <1>12, ContinuesOwned
  DEF Next, CrashInSave, Restart

\* At first no session has an id.
LEMMA OwnerInit == Init => OwnerInv
<1> SUFFICES ASSUME Init PROVE OwnerInv
  OBVIOUS
<1> DEFINE o == [s \in Session |-> NoId]
<1>1. StoreOwned(o)
  BY EmptyOwned DEF Init, StoreOwned
<1>2. Idle.ans = NoTok /\ Idle.tok = NoTok /\ Idle.imp = NoTok
  BY DEF Idle
<1>3. CallsOwned(o)
  BY <1>2, NoTokAssumption DEF Init, CallsOwned, CallOwned, Answered
<1>4. QED BY <1>1, <1>3 DEF OwnerInv

\* The index of a storage has the sessions of what is found in it.
LEMMA OwnedIsReachable == TypeInv /\ OwnerInv => ReachableBySession
<1> SUFFICES ASSUME TypeInv, OwnerInv,
                    NEW m \in {mem[e] : e \in Env} \cup {file}, NEW i \in Id,
                    Get(m, i) # NoTok, Get(m, i).sid \notin shared
             PROVE  GetBySid(m, Get(m, i).sid) = i
  BY DEF ReachableBySession
<1>1. PICK o \in [Session -> Id \cup {NoId}] : StoreOwned(o)
  BY DEF OwnerInv
<1>2. m \in Contents /\ ContentsOwned(m, o, shared)
  BY <1>1 DEF TypeInv, StoreOK, StoreOwned
<1>3. Get(m, i) = m.tokens[i] /\ m.tokens[i] \in Tok /\ m.tokens[i].sid \in Session
  BY <1>2, GetType, TokType
<1>4. m.sids[m.tokens[i].sid] = [id |-> i, gen |-> m.tokens[i].gen]
  BY <1>2, <1>3 DEF ContentsOwned
<1>5. storage = "cache" => ~(m.tokens[i].gen <= dead[m.tokens[i].sid])
  BY <1>3 DEF Get, Dead
<1>6. QED BY <1>3, <1>4, <1>5 DEF GetBySid

\* In every behaviour, for any number of requests, environments and reloads: tokens
\* that are found under an id are found from their session, if one login alone has
\* been granted it.
THEOREM TokensAreReachable == Spec => []ReachableBySession
<1>1. Init => TypeInv /\ OwnerInv
  BY TypeInit, OwnerInit
<1>2. TypeInv /\ OwnerInv /\ [Next]_vars => TypeInv' /\ OwnerInv'
  BY TypeStep, OwnerStep
<1>3. TypeInv /\ OwnerInv => ReachableBySession
  BY OwnedIsReachable
<1>4. QED BY <1>1, <1>2, <1>3, PTL DEF Spec

-----------------------------------------------------------------------------
(* The logouts that the provider notifies *)

\* A logout that ends at once has found the session, and dropped its tokens, or has
\* found nothing, and there was nothing to find.
LEMMA ForgetsStep ==
  ASSUME TypeInv, ReachableBySession, storage = "cache", NEW c \in Call,
         NEW s \in Session \ shared, BackChannel(c, s), call'[c] = Idle
  PROVE  Forgotten(s)
<1> DEFINE m == mem[Home(env)]
           id == GetBySid(m, s)
           r == Arrive(c, "backchannel", id)
           t == Get(m, id)
<1>0. m \in Contents /\ Home(env) \in Env /\ env \in Env
  BY HomeType DEF TypeInv, StoreOK, AppOK
<1>1. id \in Id \cup {NoId}
  BY <1>0 DEF GetBySid, Contents
<1>2. /\ r \in Requests /\ r.op = "backchannel" /\ r.id = id /\ r.tok = NoTok
      /\ r.ans = NoTok /\ r.env = env
  BY <1>1, ArriveIs DEF TypeInv, OpNames
<1>3. \A i \in Id : Get(m, i) # NoTok /\ Get(m, i).sid = s => i = id
  BY <1>0 DEF ReachableBySession
<1>4. ASSUME NEW n, \A i \in Id : Get(n, i) # NoTok => Get(n, i) = Get(m, i) /\ i # id,
             mem'[Home(env)] = n
      PROVE  Forgotten(s)
  BY <1>3, <1>4 DEF Forgotten
<1>5. ASSUME UNCHANGED store, id = NoId \/ t = NoTok PROVE Forgotten(s)
  <2>1. \A i \in Id : Get(m, i) # NoTok => i # id
    BY <1>5, SessionsAssumption
  <2>2. mem'[Home(env)] = m
    BY <1>5 DEF store
  <2>3. QED BY <1>4, <2>1, <2>2
<1>6. CASE UNCHANGED <<store, call>> /\ id = NoId
  BY <1>5, <1>6
<1>7. CASE Restore(c, r) /\ id # NoId
  <2> DEFINE read == [r EXCEPT !.tok = t]
  <2>1. Held(r) = m /\ id \in Id
    BY <1>1, <1>2, <1>7 DEF Held
  <2>2. ASSUME t # NoTok PROVE t \in Tok /\ t.sid \in Session /\ t = m.tokens[id] /\ ~Dead(t)
    BY <1>0, <2>1, <2>2, GetType, TokType DEF Get
  <2>3. read \in Requests \/ t = NoTok
    BY <1>2, <2>2 DEF Requests
  <2>4. ~Asks(c, read, "refresh") \/ t = NoTok
    <3> SUFFICES ASSUME Asks(c, read, "refresh"), t # NoTok PROVE FALSE
      OBVIOUS
    <3>1. PICK q : Becomes(c, q) /\ q.at = "refresh"
      BY <2>3, AsksFollows DEF Refreshing, Granting
    <3>2. call'[c] = q
      BY <3>1 DEF Becomes, TypeInv, CallsOK
    <3>3. QED BY <3>1, <3>2 DEF Idle
  <2>5. CASE t = NoTok
    <3>1. UNCHANGED store
      <4>1. Get(Held(r), r.id) = NoTok /\ Restore(c, r)
        BY <1>2, <1>7, <2>1, <2>5
      <4> HIDE DEF r, t, id, m
      <4>2. QED BY <4>1 DEF Restore
    <3>2. QED BY <1>5, <2>5, <3>1
  <2>6. CASE t # NoTok
    <3>1. Restored(c, read, m, FALSE)
      BY <1>2, <1>7, <2>1, <2>2, <2>4, <2>6 DEF Restore
    <3>2. read.op = "backchannel" /\ read.id = id /\ read.tok = t /\ read.env = env
      BY <1>2, <2>2, <2>6 DEF Requests
    <3> HIDE DEF read
    <3>3. Saves(read, Drop(m, id, t.sid))
      BY <3>1, <3>2 DEF Restored
    <3>4. mem'[Home(env)] = Drop(m, id, t.sid)
      BY <1>0, <3>2, <3>3 DEF Saves, TypeInv, StoreOK
    <3>5. \A i \in Id : Drop(m, id, t.sid).tokens[i] = IF i = id THEN NoTok ELSE m.tokens[i]
      BY <1>0 DEF Drop, Contents
    <3> HIDE DEF t, id, m
    <3>6. \A i \in Id : Get(Drop(m, id, t.sid), i) # NoTok =>
                          Get(Drop(m, id, t.sid), i) = Get(m, i) /\ i # id
      BY <3>5 DEF Get
    <3>7. QED BY <1>4, <3>4, <3>6
  <2>7. QED BY <2>5, <2>6
<1>8. QED
  <2>1. IF storage = "file" \/ r.id = NoId THEN UNCHANGED <<store, call>> ELSE Restore(c, r)
    BY DEF BackChannel
  <2>2. QED BY <1>2, <1>6, <1>7, <2>1

\* In every behaviour: on the platform, a logout that the provider notifies and that
\* ends at once leaves no tokens of the session to be found under any id.
THEOREM NotifiedLogoutsForget == Spec => PlatformForgets
<1>1. Init => TypeInv /\ OwnerInv
  BY TypeInit, OwnerInit
<1>2. TypeInv /\ OwnerInv /\ [Next]_vars => TypeInv' /\ OwnerInv'
  BY TypeStep, OwnerStep
<1>3. TypeInv /\ OwnerInv /\ [Next]_vars =>
        [storage = "cache" => \A s \in Session \ shared : LoggedOut(s) => Forgotten(s)]_vars
  BY OwnedIsReachable, ForgetsStep DEF LoggedOut
<1>4. QED BY <1>1, <1>2, <1>3, PTL DEF Spec, PlatformForgets
=============================================================================
