------------------------------- MODULE Backends -------------------------------
(***************************************************************************)
(* The backends that the application installs, starts and dispatches to:   *)
(* ensure_running (app/routers/backends), the store of proxies             *)
(* (app/environment/proxied_backends.py), the requests of                  *)
(* app/routers/system that install and end them, and the servers that a    *)
(* project's run step registers.                                           *)
(*                                                                         *)
(* One backend, in several versions; other backends only share the ports.  *)
(* An action is what runs between two awaits (package information, the     *)
(* shell of an install or of a start, one answer of a server, a message).  *)
(* Processes boot, listen and end on their own.                            *)
(***************************************************************************)
EXTENDS Naturals, Sequences, FiniteSets, FiniteSetsExt, SequencesExt

CONSTANTS
  Uid,              \* instance ids; uuid4 never draws one twice
  Version,          \* the published versions, a set of numbers
  InContainer,      \* those that docker runs
  Config, Default,  \* build configurations, and the one of a request without any
  Partition, DefaultPartition,
  Port,             \* the ports find_available_port tries, in order
  Starter, Ender,   \* requests in progress: that start backends, that end them
  Ops,              \* the operations asked for
  MaxEnv,           \* bound: reloads of the environment
  MaxTimeouts,      \* bound: starts that time out
  MaxRunSteps,      \* bound: run steps start their servers among the first instances
  NoUid, NoConfig

OpNames == {"ensure", "graph", "terminate", "uninstall", "develop", "serve"}

Request == Starter \cup Ender

\* kind: "host" (a shell), "container" (docker), "dev" (the shell of a run step),
\* "user" (not started by py-youwol). at: "named" when its uid and its port are chosen
\* and its process is not created yet. env: the environment that its request, or its
\* run step, began in.
Instances ==
  [at : {"named", "booting", "listening", "ended"},
   kind : {"host", "container", "dev", "user"},
   part : Partition, version : Version, config : Config, port : Port, env : 0..MaxEnv]

ASSUME BackendsAssumption ==
  /\ Version \subseteq Nat \ {0} /\ IsFiniteSet(Version) /\ Port \subseteq Nat
  /\ InContainer \subseteq Version
  /\ Default \in Config /\ NoConfig \notin Config
  /\ DefaultPartition \in Partition
  /\ NoUid \notin Uid \cup Instances /\ Ops \subseteq OpNames
  /\ MaxEnv \in Nat /\ MaxTimeouts \in Nat /\ MaxRunSteps \in Nat

VARIABLES
  instance,  \* what each instance is, and what its process is doing
  store,     \* env.proxied_backends.store of each environment
  manifest,  \* the install manifests: a version built for a configuration
  env,       \* the current environment
  req,       \* what each request is doing
  late,      \* history: the instances whose start timed out
  raced      \* history: those on whose port another process began to listen

vars == <<instance, store, manifest, env, req, late, raced>>

Env == 0..MaxEnv

Versions == Version \cup {0}

Requests ==
  [op : OpNames \cup {"none"},
   at : {"idle", "terminate", "package", "install", "port", "spawn", "ready", "killing"},
   env : Env, part : Partition,
   query : SUBSET Version,           \* the versions the query accepts
   config : Config \cup {NoConfig},
   version : Versions,               \* the version to start or to uninstall
   uid : Uid \cup {NoUid},           \* the instance to end, then the one started
   todo : SUBSET Uid,                \* the instances still to end
   failed : BOOLEAN]                 \* ending one of them raised

Idle == [op |-> "none", at |-> "idle", env |-> 0, part |-> DefaultPartition,
         query |-> {}, config |-> NoConfig, version |-> 0, uid |-> NoUid,
         todo |-> {}, failed |-> FALSE]

Uids(e) == Range(store[e])

TypeOK ==
  /\ \A u \in Uid : instance[u] # NoUid => instance[u] \in Instances
  /\ store \in [Env -> Seq(Uid)] /\ \A e \in Env : IsInjective(store[e])
  /\ manifest \subseteq Version \X Config
  /\ env \in Env
  /\ req \in [Request -> Requests]
  /\ late \subseteq Uid /\ raced \subseteq Uid

Init ==
  /\ instance = [u \in Uid |-> NoUid]
  /\ store = [e \in Env |-> <<>>]
  /\ manifest = {}
  /\ env = 0
  /\ req = [r \in Request |-> Idle]
  /\ late = {} /\ raced = {}

-----------------------------------------------------------------------------
(* The store of proxies *)

Started == {u \in Uid : instance[u] # NoUid}

Fresh == CHOOSE u \in Uid : u \notin Started

\* query_latest: the latest version, and of these the one registered first.
Matches(e, part, query) ==
  {u \in Uids(e) : instance[u].part = part /\ instance[u].version \in query}

Latest(e, part, query) ==
  LET m == Matches(e, part, query)
      newest == {u \in m : \A w \in m : instance[w].version <= instance[u].version}
  IN IF m = {} THEN NoUid
     ELSE store[e][Min({k \in DOMAIN store[e] : store[e][k] \in newest})]

Register(e, u) == store' = [store EXCEPT ![e] = Append(@, u)]

Position(e, u) == CHOOSE k \in DOMAIN store[e] : store[e][k] = u

\* The proxies with another uid are kept: an environment has one of each uid.
Unregister(e, u) == store' = [store EXCEPT ![e] = RemoveAt(@, Position(e, u))]

Listening(p) == {u \in Started : instance[u].at = "listening" /\ instance[u].port = p}

\* Mutant: ports are not probed.
AllPorts == Port

\* find_available_port: nothing listens there; the port is not reserved.
FreePorts == {p \in Port : Listening(p) = {}}

\* terminate, of what it started itself: docker stops the container; on the host,
\* whatever process listens on the port of the proxy.
Killed(u) ==
  CASE instance[u].kind = "container" -> {u}
    [] instance[u].kind \in {"host", "dev"} -> Listening(instance[u].port)
    [] instance[u].kind = "user" -> {}

Kill(us) ==
  instance' = [u \in Uid |-> IF u \in us THEN [instance[u] EXCEPT !.at = "ended"]
                             ELSE instance[u]]

Terminate(e, u) == Unregister(e, u) /\ Kill(Killed(u))

\* The process of an instance is created, begins to listen, or ends.
ProcessIs(u, step) == instance' = [instance EXCEPT ![u].at = step]

-----------------------------------------------------------------------------
(* Requests *)

Becomes(r, new) == req' = [req EXCEPT ![r] = new]

Finish(r) == Becomes(r, Idle)

Goto(r, step) == Becomes(r, [req[r] EXCEPT !.at = step])

At(r, step) == req[r].at = step

\* Mutant: an instance with another configuration is left running.
QueryKeepsMismatch(r, new) ==
  LET u == Latest(new.env, new.part, new.query)
  IN IF u # NoUid /\ new.config \in {instance[u].config, NoConfig}
       THEN Finish(r)
       ELSE Becomes(r, [new EXCEPT !.at = "package"])

\* A running backend is returned, unless its configuration is not the one asked for.
Query(r, new) ==
  LET u == Latest(new.env, new.part, new.query)
  IN IF u = NoUid THEN Becomes(r, [new EXCEPT !.at = "package"])
     ELSE IF new.config \in {instance[u].config, NoConfig} \/ new.part = DefaultPartition
       THEN Finish(r)
       ELSE Becomes(r, [new EXCEPT !.at = "terminate", !.uid = u])

\* dispatch, or the start of one backend of a graph.
Ensure(r, part, query, config) ==
  /\ r \in Starter /\ req[r] = Idle /\ "ensure" \in Ops
  /\ Query(r, [Idle EXCEPT !.op = "ensure", !.env = env, !.part = part,
                           !.query = query, !.config = config])
  /\ UNCHANGED <<instance, store, manifest, env, late, raced>>

\* install_graph, for one backend: installed first, then ensured to run.
InstallGraph(r, part, v, config) ==
  /\ r \in Starter /\ req[r] = Idle /\ "graph" \in Ops
  /\ <<v, config>> \notin manifest   \* otherwise Ensure
  /\ Becomes(r, [Idle EXCEPT !.op = "graph", !.at = "install", !.env = env,
                             !.part = part, !.query = {v}, !.config = config,
                             !.version = v])
  /\ UNCHANGED <<instance, store, manifest, env, late, raced>>

\* It raises if another request has removed the proxy since it was found.
TerminateMismatch(r) ==
  /\ At(r, "terminate")
  /\ LET u == req[r].uid
     IN IF u \in Uids(req[r].env)
          THEN /\ Terminate(req[r].env, u)
               /\ Becomes(r, [req[r] EXCEPT !.at = "package", !.uid = NoUid])
          ELSE Finish(r) /\ UNCHANGED <<instance, store>>
  /\ UNCHANGED <<manifest, env, late, raced>>

\* The latest published version that matches.
PackageInfo(r) ==
  /\ At(r, "package")
  /\ LET v == Max(req[r].query)
         c == IF req[r].config = NoConfig THEN Default ELSE req[r].config
     IN Becomes(r, [req[r] EXCEPT !.version = v, !.config = c, !.query = {},
                      !.at = IF <<v, c>> \in manifest THEN "port" ELSE "install"])
  /\ UNCHANGED <<instance, store, manifest, env, late, raced>>

\* Mutant: the version is reset before its manifest is written.
InstallAfterReset(r) ==
  /\ At(r, "install")
  /\ IF req[r].op = "graph"
       THEN /\ manifest' = manifest \cup {<<0, req[r].config>>}
            /\ Query(r, [req[r] EXCEPT !.op = "ensure", !.version = 0])
       ELSE /\ manifest' = manifest \cup {<<req[r].version, req[r].config>>}
            /\ Goto(r, "port")
  /\ UNCHANGED <<instance, store, env, late, raced>>

\* install_backend_shell writes the manifest, also when its shell returns 1.
Install(r) ==
  /\ At(r, "install")
  /\ manifest' = manifest \cup {<<req[r].version, req[r].config>>}
  /\ IF req[r].op = "graph"
       THEN Query(r, [req[r] EXCEPT !.op = "ensure", !.version = 0])
       ELSE Goto(r, "port")
  /\ UNCHANGED <<instance, store, env, late, raced>>

\* 404 if no version matches; a shell returns more than 1, a service does not answer, no
\* port is free, or nothing can be started.
Fails(r) ==
  /\ req[r].at \in {"package", "install", "port", "spawn"}
  /\ IF At(r, "spawn") THEN ProcessIs(req[r].uid, "ended") ELSE UNCHANGED instance
  /\ Finish(r)
  /\ UNCHANGED <<store, manifest, env, late, raced>>

NewInstance(kind, part, v, config, p, e) ==
  [at |-> "named", kind |-> kind, part |-> part, version |-> v, config |-> config,
   port |-> p, env |-> e]

\* The first free port and a new uid, which are told before anything is started.
ChoosePort(r) ==
  /\ At(r, "port")
  /\ Started # Uid   \* bound: the instances of the model
  /\ FreePorts # {}
  /\ LET kind == IF req[r].version \in InContainer THEN "container" ELSE "host"
     IN instance' = [instance EXCEPT ![Fresh] =
                       NewInstance(kind, req[r].part, req[r].version, req[r].config,
                                   Min(FreePorts), req[r].env)]
  /\ Becomes(r, [Idle EXCEPT !.op = "ensure", !.at = "spawn", !.env = req[r].env,
                             !.uid = Fresh])
  /\ UNCHANGED <<store, manifest, env, late, raced>>

\* start_backend_shell creates the process, whatever has become of the port.
Spawn(r) ==
  /\ At(r, "spawn")
  /\ ProcessIs(req[r].uid, "booting")
  /\ Goto(r, "ready")
  /\ UNCHANGED <<store, manifest, env, late, raced>>

\* wait_readiness: something answers on the port, the process started or another.
Ready(r) ==
  /\ At(r, "ready")
  /\ Listening(instance[req[r].uid].port) # {}
  /\ Register(req[r].env, req[r].uid)
  /\ Finish(r)
  /\ UNCHANGED <<instance, manifest, env, late, raced>>

\* Mutant: a process that does not answer yet is taken for a crash.
CrashedEarly(r) ==
  /\ At(r, "ready")
  /\ instance[req[r].uid].at \in {"booting", "ended"}
  /\ Finish(r)
  /\ UNCHANGED <<instance, store, manifest, env, late, raced>>

Crashed(r) ==
  /\ At(r, "ready")
  /\ instance[req[r].uid].at = "ended"
  /\ Finish(r)
  /\ UNCHANGED <<instance, store, manifest, env, late, raced>>

\* The handler of the timeout reads a variable that is not bound yet, and raises.
TimesOut(r) ==
  /\ At(r, "ready") /\ Cardinality(late) < MaxTimeouts
  /\ late' = late \cup {req[r].uid}
  /\ Finish(r)
  /\ UNCHANGED <<instance, store, manifest, env, raced>>

-----------------------------------------------------------------------------
(* terminate and uninstall *)

Ending(r, op, v, us) ==
  Becomes(r, [Idle EXCEPT !.op = op, !.at = "killing", !.env = env, !.version = v,
                          !.todo = us])

\* By uid or by partition; 400 if there is none.
TerminateRequest(r, part, us) ==
  /\ r \in Ender /\ req[r] = Idle /\ "terminate" \in Ops
  /\ us # {}
  /\ us = {u \in Uids(env) : instance[u].part = part} \/ \E u \in Uids(env) : us = {u}
  /\ Ending(r, "terminate", 0, us)
  /\ UNCHANGED <<instance, store, manifest, env, late, raced>>

Uninstall(r, v) ==
  /\ r \in Ender /\ req[r] = Idle /\ "uninstall" \in Ops
  /\ Ending(r, "uninstall", v, {u \in Uids(env) : instance[u].version = v})
  /\ UNCHANGED <<instance, store, manifest, env, late, raced>>

\* The coroutines of a gather, one per instance; one that raises ends the request,
\* not the others.
TerminateOne(r, u) ==
  /\ At(r, "killing") /\ u \in req[r].todo
  /\ LET gone == u \notin Uids(req[r].env)
         todo == req[r].todo \ {u}
     IN /\ IF gone THEN UNCHANGED <<instance, store>> ELSE Terminate(req[r].env, u)
        /\ IF req[r].op = "terminate" /\ todo = {}
             THEN Finish(r)
             ELSE Becomes(r, [req[r] EXCEPT !.todo = todo, !.failed = @ \/ gone])
  /\ UNCHANGED <<manifest, env, late, raced>>

\* uninstall then removes the manifests of the version.
RemoveManifests(r) ==
  /\ At(r, "killing") /\ req[r].op = "uninstall" /\ req[r].todo = {}
  /\ manifest' = IF req[r].failed THEN manifest
                 ELSE {m \in manifest : m[1] # req[r].version}
  /\ Finish(r)
  /\ UNCHANGED <<instance, store, env, late, raced>>

-----------------------------------------------------------------------------
(* Processes, run steps, environments *)

\* execute_run: a port for a server of the project.
Develop(v) ==
  /\ "develop" \in Ops
  /\ Cardinality(Started) < MaxRunSteps /\ Started # Uid
  /\ FreePorts # {}
  /\ instance' = [instance EXCEPT ![Fresh] =
                    NewInstance("dev", DefaultPartition, v, Default, Min(FreePorts), env)]
  /\ UNCHANGED <<store, manifest, env, req, late, raced>>

\* on_executed: registered as soon as its process is created.
Executed(u) ==
  /\ u \in Started /\ instance[u].kind = "dev" /\ instance[u].at = "named"
  /\ ProcessIs(u, "booting")
  /\ Register(instance[u].env, u)
  /\ UNCHANGED <<manifest, env, req, late, raced>>

On(p) == {u \in Started : instance[u].port = p}

\* execute_run with autoRun off: the user has started it.
Serve(v, p) ==
  /\ "serve" \in Ops
  /\ Cardinality(Started) < MaxRunSteps /\ Started # Uid
  /\ p \in FreePorts
  /\ instance' = [instance EXCEPT ![Fresh] =
       [NewInstance("user", DefaultPartition, v, Default, p, env) EXCEPT !.at = "listening"]]
  /\ Register(env, Fresh)
  /\ raced' = raced \cup On(p)
  /\ UNCHANGED <<manifest, env, req, late>>

\* It listens on its port.
Listens(u) ==
  /\ u \in Started /\ instance[u].at = "booting"
  /\ Listening(instance[u].port) = {}
  /\ ProcessIs(u, "listening")
  /\ raced' = raced \cup (On(instance[u].port) \ {u})
  /\ UNCHANGED <<store, manifest, env, req, late>>

\* It ends, also because another process listens on its port.
Ends(u) ==
  /\ u \in Started /\ instance[u].at \in {"booting", "listening"}
  /\ ProcessIs(u, "ended")
  /\ UNCHANGED <<store, manifest, env, req, late, raced>>

\* A new environment has no proxies, and ends no process.
Reload ==
  /\ env < MaxEnv
  /\ env' = env + 1
  /\ UNCHANGED <<instance, store, manifest, req, late, raced>>

Continues(r) ==
  \/ TerminateMismatch(r) \/ PackageInfo(r) \/ Install(r) \/ Fails(r)
  \/ ChoosePort(r) \/ Spawn(r) \/ Ready(r) \/ Crashed(r) \/ TimesOut(r)
  \/ (\E u \in Uid : TerminateOne(r, u)) \/ RemoveManifests(r)

Next ==
  \/ \E r \in Request :
       \/ Continues(r)
       \/ \E part \in Partition, config \in Config :
            \/ \E query \in (SUBSET Version) \ {{}} : \E c \in {config, NoConfig} : Ensure(r, part, query, c)
            \/ \E v \in Version : InstallGraph(r, part, v, config)
       \/ \E part \in Partition, us \in SUBSET Uid : TerminateRequest(r, part, us)
       \/ \E v \in Version : Uninstall(r, v)
  \/ \E v \in Version : Develop(v) \/ \E p \in Port : Serve(v, p)
  \/ \E u \in Uid : Executed(u) \/ Listens(u) \/ Ends(u)
  \/ Reload

Spec == Init /\ [][Next]_vars

-----------------------------------------------------------------------------
(* Properties *)

Starting == {req[r].uid : r \in {r \in Request : req[r].at \in {"spawn", "ready"}}}

Places == Env \X (Partition \ {DefaultPartition}) \X Version

ServingView == INSTANCE Serving WITH
  Place <- Places,
  Instance <- Uid,
  serving <- [p \in Places |-> {u \in Uids(p[1]) : instance[u].part = p[2]
                                                 /\ instance[u].version = p[3]}],
  spent <- Started \ Starting

\* Outside of the default partition, whose servers the users start, requests that
\* start backends one after the other, while others end them, processes crash and
\* environments are reloaded, leave each place with one instance at most, which no
\* late registration brings back.
ServesOnce == ServingView!Spec

Owned == {u \in Started : instance[u].kind \in {"host", "container"}}

\* A process that the current environment started for a backend can be ended: it is in
\* the store of this environment, where terminate and uninstall look, or its request
\* still waits for it.  With two exceptions: its start timed out, or, on the host,
\* another process began to listen on its port, so that what terminate ends may be the
\* other one.  Nothing is said of the processes of a former environment, whose store
\* the requests that follow a reload do not read, nor of the servers of run steps,
\* which stay when they are terminated before they listen.
Accounted ==
  \A u \in Owned :
    instance[u].at \in {"booting", "listening"} /\ instance[u].env = env =>
      \/ u \in Uids(env) \cup Starting
      \/ u \in late
      \/ instance[u].kind = "host" /\ u \in raced

\* When the proxy of a backend is registered, what answers is the process of the proxy,
\* unless another request, a run step or a user took its port after it was found free.
AnsweredItself ==
  [][\A e \in Env, u \in Owned :
       u \in Uids(e)' \ Uids(e) => u \in Listening(instance[u].port) \cup raced]_vars
=============================================================================
