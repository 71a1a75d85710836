# A formal model of py-youwol

TLA+ specifications of the parts of py-youwol whose correctness depends on the
order of things: requests interleaved at every `await`, recursions over a tree
that other requests change, processes that crash while they are waited for,
downloads and purges that fail half way, environments reloaded under running
tasks. They are checked with TLC on small instances; what matters most is proved
with TLAPS for every instance. Paths below are relative to `src/src/youwol/`.

## The system

py-youwol is one process with one asyncio event loop. It serves a local copy of
the YouWol platform (*backends*), forwards what is missing to the remote
platform, downloads assets, and runs the developer's projects and backends. The
same backends also run on the platform, over other storages. Coroutines
interleave at awaits only. Nearly every call is one: the backends are reached
through clients, and `Context.start`, `info` and `send` await the reporters.
Nothing locks a request against another.

| component | state | operations | what makes it correct |
|---|---|---|---|
| Explorer database `backends/tree_db` | four tables: drives, folders, items, deleted | create, rename, borrow, move, queue for deletion, erase, purge, delete a drive, default drive, paths | every entity is in a drive or in its trash; group and drive of a document agree with its parent; a purge destroys what is queued, with its content, and nothing else; requests end |
| Local tables `utils/clients/docdb` | documents in memory and a file | get, query, upsert, delete by primary key | one document per key; the file is what is in memory |
| Assets downloader `app/routers/environment/download_assets` | a queue, worker tasks, the set of ids being downloaded | enqueue, download, wait | marks are those of downloads in progress; what passes for local is complete; the queue is served |
| Download rule `app/middlewares/local_cloud_hybridizers` | none; reads the marks | answer locally or remotely, enqueue | no local answer from an asset half written |
| OIDC tokens `utils/clients/oidc`, `app/environment/models/tokens_storage` | tokens by id, id by session, a file | store, restore and refresh, delete | stored tokens are found from their session, so that a logout reaches them; the file is what one storage holds |
| Accounts `backends/accounts` | flows in a cache | login, logout, back channel, impersonation | a flow is used once; a logout ends its session |
| Proxied backends `app/routers/backends`, `app/environment/proxied_backends.py` | the list of proxies, processes, ports, install manifests | ensure running, install, terminate, uninstall, dispatch | one instance per partition and version; what answers on the port of a proxy is its process; what is started is registered or ended |
| Assets gateway `backends/assets_gateway`, `backends/assets` | assets, access policies and raw data, next to the tree | create, move, borrow, delete, purge across the services | owning group of item and asset agree; raw data, assets and policies go with the items; policies match links |
| CDN `backends/cdn` | versions of packages, an index of local ones | list versions, resolve a loading graph | a graph is ordered, answers what was asked, and is found or refused in finitely many rounds |
| Browser cache `app/environment/browser_cache_store.py` | items in memory, a file | load, cache, get, clear | file and memory agree; a reload loses nothing |
| Stories `backends/stories` | the document of a story, a tree of pages, files of contents | create, rename, move, delete, download, publish | pages form one tree under the root and have their contents; no page is lost by a move; a zip can be published again |
| Projects `app/routers/projects`, `pipelines` | running steps, artifacts, manifests | run a step, publish, status | a step that is reported in sync is; a step does not stay reported as running |
| Environment `app/environment/youwol_environment.py` | the current environment | load, reload, clear the cache | nothing running is lost with the old environment |
| flux, files, web sockets, context, start up | contents, connections | | see `PROJECT.json` |

They interact as follows. The gateway calls the explorer database, the assets
backend and the backends of raw data (stories, flux, files, packages). The
downloader writes in all of them, through their local clients, what it reads from
the remote gateway. The download rule feeds its queue and reads its marks, which
are in the cache of the environment; the requests that start backends call
`wait_asset` first. The middlewares restore the tokens of each request, then ask
the browser cache. A publication of a project writes in the CDN, whose index is
sent with the loading graphs that the remote platform resolves. A reload replaces
the environment, hence the marks, the tables, the tokens storage, the browser
cache and the list of proxies, under the requests in progress.

`PROJECT.json` lists every component with what is modelled of it, and under
`hazards` what is hard to test, each at its line.

## Modules

| module | what it is | runs |
|---|---|---|
| `TreeDb`, `MCTreeDb` | the explorer database and its tables; its instances and their symmetries | `treedb_*` |
| `TreeDb_proofs` | its theorems | |
| `AssetsDownloader`, `MCAssetsDownloader` | the downloader, the download rule and the callers of `wait_asset` | `downloader` |
| `AssetsDownloader_proofs` | its theorems | |
| `Sessions`, `MCSessions` | tokens, their storages, OpenID flows, logouts | `sessions`, `sessions_logout` |
| `Sessions_proofs` | its theorems | |
| `Backends`, `MCBackends` | the proxied backends, from their installation to their end | `backends` |
| `Serving` | what the store of proxies promises: the abstract specification that `Backends` implements | |
| `Backends_proofs` | its theorems, among them that it does | |
| `Gateway`, `MCGateway` | the tree, the assets, their policies and their raw data, kept together by the assets gateway | `gateway` |
| `Gateway_proofs` | its theorems | |
| `LoadingGraph`, `MCLoadingGraph` | the resolution of loading graphs | `loading_graph` |
| `LoadingGraph_proofs` | its theorems | |
| `BrowserCache`, `MCBrowserCache` | the browser cache over environments and its file | `browser_cache` |
| `Stories`, `MCStories` | a story, its pages, its contents | `stories` |
| `Stories_proofs` | its theorems | |
| `Projects`, `MCProjects` | runs of steps, and the statuses computed from what they leave | `projects` |
| `Projects_proofs` | its theorems | |

Definitions named as mutants break one definition each the way a bug would; a run
must notice. They are not part of the specifications. In every module an action
is what runs between two awaits of a coroutine, and a record per request
(`call`, `req`, `runs`) holds where it is and what it has read.

### TreeDb

`drives` with `group`, `live` and `trash` are the four tables (`live` is
`folders_db` and `items_db`). Whoever creates a drive chooses its group, and may
choose its id: a drive that is there is written again, and `regrouped` remembers
those whose group changed while documents were filed in them. `call` is what each client's request is doing: its operation, its
next step, the document it read earlier, what it has left to do. Each awaited call
to a table is one action: `get`, `query`, upsert and delete by primary key are
atomic in the local tables, and between two of them any request may run. Two
queries gathered on one parent, or the reads gathered by `move`, are one
snapshot. Gathered recursive calls (the moves and the purges of sub-folders) are
sets of work left, taken in any order; a move that is being done is finished
before the next begins, while other clients still interleave with it.

Ids are drawn from `uuid4` (never twice: `used`), unless they are in `Known`,
chosen by callers, or are those of the default folders, derived from the group.
A request that its first read refuses changes nothing and is not a step. Names,
kinds and other metadata are left out, as are the limits of 100 and 1000 documents
per query. A document keeps its parent, its drive, its group and the borrowed
flag.

### AssetsDownloader

A coroutine in `download_asset` goes through `check`, `start`, `send`, `write`,
`end` or `failed`; the set of marks it uses is that of the environment it began
with. What is written of an asset is a sequence of parts (`Writes`), each by a
call that may fail; `Marker` is the part that tells that the asset is local.
Workers drop what `download_asset` returns; an exception that leaves it ends the
task. Callers of `wait_asset` get a status, `None` or the exception. Requests in
`Download.apply` test the marks, ask the local service, then the remote platform,
test again and enqueue. `Reload` begins an environment without marks; `Restart`
stops the process at any point, and keeps only what was written.

A send on the data sockets may raise, a log does not (`app/web_socket.py`). The end
of `context.start` only logs and is merged with the step before it. `Marker`,
for stories, projects and packages, is the raw data, written first; the model
keeps it so, and claims `MarkedIsUsable` only for `data`.

### Sessions

Each `deployment` has its `storage`: the cache of the platform, shared and with
entries that expire with the refresh token, or the file of the local application,
read by each environment into a storage of its own (`mem[e]`), and written whole
at each change. Tokens are a session and the number of times it was issued
(`gen`); `stale` and `dead` are how far access and refresh tokens have expired,
advanced by time. Only the calls to the provider are awaited, so an action is a
whole stretch of `tokens_manager.py` and `openid_flows_service.py` between two of
them. The provider refreshes, refuses (a refresh token is used once), grants or
does not answer; it tells back-channel logouts late, and once. An impersonation
keeps the real tokens under a hidden id. Crashes happen between requests, and
between the truncation of the file and its writing.

### Backends and Serving

An instance has its port, its kind (shell, container, server of a run step, server
of the user), the environment it is of, and where it is: named, when its uid and
port are chosen and told, then booting, listening or ended; it listens and ends by
itself. A request of `ensure_running` looks for a proxy (`Query`), ends one whose
configuration differs, reads the versions, installs, chooses a port
(`ChoosePort`), creates the process (`Spawn`), waits until something answers on the
port, registers. A run step does the same without waiting (`Develop`,
`Executed`). Between the choice of a port and its use other processes may begin to
listen on it (`Listens`, `Serve`): `raced` remembers the instances this happened
to, and `late` those whose start timed out. `Ready` looks at the port, not at the
process, as the code does; `Killed` is whatever listens on it. A reload begins an
environment with an empty store and ends no process, while requests hold theirs.

`Serving` has the promise of this store: a place is served by one instance at
most, and an instance never serves twice. The refinement (`ServingView`) maps
`serving` to the registered proxies by environment, partition and version, and
`spent` to the instances that no request waits for any more. The default
partition, where the developer may start any number of servers, is out of it.

### Gateway

A request of the gateway is a sequence of calls to the explorer, the assets
service and the backends of raw data, each atomic: what happens inside the
explorer is the subject of `TreeDb`. `items`, with the trash, is the explorer;
`assets`, `policy` and `raw` are the other services. A move collects the items of
what it moves, then updates the assets one at a time; a purge empties the trash,
then erases raw data, assets and access policies in the order of the code.
`lapses` records what happens to a behaviour that a property has to except: a
call that failed, an asset deleted by its service, a policy set by hand, a
symlink moved, an asset regrouped by `PUT /assets`. The instance allows one kind
of them at a time, so that each property is checked in the company of those it
does not except.

### LoadingGraph

`req` is one request: the queries left to resolve (`todo`), the versions and
documents read so far, the rounds. In a round the queries are resolved
concurrently; a package that is not in the CDN but in the index sent along is
resolved there. `Layers` then orders the libraries, and fails if it is stuck.
`OutcomeAsExpected` compares the end of a request with a definition of the result
that has neither rounds nor layers: `Reached`, the least set of libraries that holds
the answers to what is asked and to its own dependencies, and `HasCycle`.

### BrowserCache

Each environment has a store, with its memory, its file and a buffer that is
flushed at any time. The first request of an environment opens the file over
several awaits, during which other requests already use the store. A file of the
local databases is its length, which is what the store compares. `lapses` of a
store names what breaks the agreement of memory and file by design: requests
before the file is open, clears of one of the two, a crash.

### Stories

A page is in the table under its parent and its position. `Positions`, `Target`
and `FrontierAfter` translate the positions the code computes and the way a
listing goes from level to level in chunks. Positions are texts, which the tables
sort as texts, and a move writes its number without zeros on the left: which page
is the last one is left open (`Last`), but for the numbers below zero, which come
before all others. The calls that a request gathers are
made in any order, and go on after one of them has failed. `lapses` names what the
code does not refuse and a story does not survive: a move, a deletion or a
publication beside another request (`overlap`), a page moved into itself or below
(`cycle`), to a place that another page has or had (`taken`) or below zero
(`below`), the root moved or deleted (`root`), a listing as long as its limit
(`full`). `past` remembers what was posted and what deletions found.

### Projects

The tasks scheduled for runs of the steps `build` and `cdn`, from their marks in
the cache of running steps to their manifests; `Status` is what the projects
router computes for each from manifest, fingerprint and artifact. Files are the
version of the sources they were made from, or a mix while a command runs. A run
may raise where the code awaits or touches files: at the announcement of its start
(`Announce`), before `on_exit` can be reached, and then its mark is left (`stuck`);
in its upstream steps or its command (`Raises`, `EndCommand`); when the folder of
the step is removed and its manifest written (`RecordRaises`); in the copy of the
artifact, file by file, under a manifest that is already there
(`CreateArtifacts`). A kill may come in the middle of the same (`Cut`,
`CutManifests`). `lapses` names the steps whose inputs changed during a run, that
ran twice at once, or whose files were removed, copied or published half way; they
leave it when an undisturbed run of the step is recorded (`mending`). Both steps
have something to compare with, an artifact or a published version; a step without
artifacts is out of the module.

## Runs

| run | instance | shows |
|---|---|---|
| `treedb_sequential` | 1 client, 2 drives in 2 groups, 2 folders, 2 items | after any sequence of requests documents have their types, nothing is orphaned (`NoOrphanWhenQuiet`), drives follow the parents (`FollowsItsParent`), a purge destroys nothing that can still be reached (`PurgeDestroysNoBystander`), and paths are those of the tree (`PathIsFound`) |
| `treedb_requests_end` | the same with 1 item, and 1 default folder | every request ends, cycles of folders included, but a path that climbs and a purge that enters folders of a cycle (`RequestsEnd`) |
| `treedb_concurrent` | 2 clients, 2 drives, one of which may be created again in the other group, 1 default folder, 1 item; no purge, no deletion of drives | `GroupsAgree`, `NoOrphan`, `DeletedIsInTrash` in every interleaving |
| `downloader` | 2 workers, 1 caller of `wait_asset`, 1 browser request, a data asset and a package, 1 reload, any number of restarts | no mark survives its download (`MarksAreLive`), a data asset that passes for local is complete (`MarkedIsUsable`), the queue is served unless every worker has died (`QueueIsServed`) |
| `sessions` | 2 requests, 2 sessions, one of them issued twice, 2 ids; the platform with impersonations and 1 login, the platform with 2 logins and `/logout`, the local application with 1 reload | stored tokens are found from their session (`ReachableBySession`), a flow is exchanged once (`FlowUsedOnce`), the file is what one environment has (`FileIsASnapshot`), and on the platform a notified logout forgets the session (`PlatformForgets`) |
| `sessions_logout` | the same with back-channel logouts of the local application | violated: see *Disagreements* |
| `backends` | 1 request that starts, 1 that ends, 1 version, 2 configurations, 2 partitions, 2 ports, 1 timeout, 1 reload, 1 run step | no process of the current environment is lost (`Accounted`), the one that answered is the proxy's (`AnsweredItself`), with exceptions for timeouts and for ports taken by another process, and the store implements `Serving` (`ServesOnce`) |
| `gateway` | 1 asset, 2 symlinks, 2 groups, 1 folder, 2 users of different rights, 1 lapse | `OwnerFollowsItem`, `NothingLeftBehind`, `PoliciesFollowSymlinks`, `PurgeIsComplete` after any sequence of requests |
| `loading_graph` | 2 packages, 3 versions with a work in progress, cycles, 2 bodies, up to 3 published documents, 1 change or failure | `DependenciesFirst`, `Answered`, `OutcomeAsExpected`, `RequestEnds` |
| `browser_cache` | 2 browsers, 2 users, 2 resources, 2 environments, 3 requests, 1 change | memory and file agree (`Persisted`), the next environment restores what the former had (`Restored`) |
| `stories` | 2 clients, 2 pages under the root, queries of 2 documents, 5 requests, moves to -1, 1 and the places of other pages | `StoryIsWhole`, `PagesKept`, `PublishRestores` |
| `projects` | 2 requests, 2 runs at once, 2 edits, failures, kills | `OkIsInSync`, `MarksEnd` |

One run of each module also checks its type invariant, except `browser_cache` and
`stories`, whose `TypeOK` only documents the state.

**Bounds.** Two of a kind are what a race, an overwriting or a mismatch takes. Two
folders are enough for a folder in a folder, a cycle of two, a folder moved with
its content, and two drives for a move across groups; two items for an original
and its link. Two requests are enough for every race of two; a third one only adds
races of three. One asset per kind of marker (written first, written last); a
worker and a caller of `wait_asset`, or two workers, download the same asset at
once, and one worker dies while the other serves the queue. The constraint
`TwoAtOnce` leaves out, while a caller of `wait_asset` downloads, that more than one
worker does or is about to. The constraint `NoneRegrouped` of `treedb_concurrent`
stops where the exception of `GroupsAgree` begins. Two
generations of tokens are a refresh and a second use of the same refresh token;
one reload is two environments writing one file. Two configurations make a
mismatch, two ports a conflict, and one starter, one ender and one run step, or
one server of the user, the races for a port; `Accounted` and `AnsweredItself` are
proved for more starters. One request of the gateway at a time: its
properties are about sequences of requests and failures between two services, and
not about races, which the gateway does nothing against. Two symlinks are the last
one and one before. In `loading_graph` three documents are a chain, a cycle of two
with a root, or three versions. `stories` takes queries of two documents where the
code has ten, so that a listing is cut. Two requests, one of
which may schedule the upstream step too, let a step run again: at once, while
another publishes it, or alone after a lapse. `MaxQueue`, `MaxReload`, `MaxGen`, `MaxFlows`, `MaxEnv`,
`MaxTimeouts`, `MaxRunSteps`, `MaxRequests`, `MaxLapses`, `MaxDocs`, `MaxStores`,
`MaxChanges`, `MaxEdits` and `MaxRuns` are bounds of the models only. Symmetry is
used with safety properties only.

`NoOrphanWhenQuiet` and `FollowsItsParent` speak of the states between requests,
and hold for one client. `treedb_concurrent` leaves out `purge` and
`delete_drive`: with them `NoOrphan` is false in the code.

**Fairness.** `WF_vars(Progress(c))` for each request of the explorer, `WF_vars` of
each coroutine of the downloader, of the rounds of a loading graph, of each run of
a project: the event loop resumes every coroutine whose awaited call has
returned; the tables are in the process, and HTTP calls and commands return, be it
with an error. No fairness is given to arrivals of requests, edits, reloads, kills
and restarts. `QueueIsServed` allows for the death of every worker, which the code
does not prevent, and `MarksEnd` for the marks of runs whose announcement failed.

**Deadlock** is checked where the system always accepts a new request. `backends`,
`browser_cache`, `stories` and `projects` stop when the bounds on instances,
requests and edits are used up.

## Disagreements

What modelling has met that the code does and that its documentation, or the
properties above without their exceptions, would not have it do. The first is
checked by a run, `sessions_logout`; the others are why a property has an
exception or a run leaves an operation out.

- `app/environment/models/tokens_storage/path_base.py:103`: `get_by_sid` of the
  file storage returns the data alone, where its type and `tokens_manager.py:63`
  promise the pair of id and data. A back-channel logout of the local application
  raises and forgets nothing (`ApplicationForgets`).
- `utils/clients/oidc/tokens_manager.py:429`: the index from sessions to tokens has
  one id by session. The provider grants the session in progress to a second login
  in the same browser, whose tokens are stored under a new id: those of the first
  are not found by the logout of the session. `ReachableBySession` and
  `PlatformForgets` except these sessions (`shared`).
- `backends/tree_db/routers/drives.py:267`: `purge_drive` lists the trash again at
  its end and drops all of it; what was queued meanwhile loses its entry, and its
  content is orphaned.
- `backends/tree_db/routers/drives.py:231`: a default folder deleted and created
  again has the same id; the purge of the first destroys the second.
- `backends/tree_db/utils.py:361`: a folder may be moved into itself or into a
  sub-folder; the climb of its path never ends.
- `backends/tree_db/routers/folders.py:306`: a default folder that is deleted, created
  again under its id and moved into its own child is in the trash and in a cycle: the
  purge of its drive calls `purge_folder` for ever. `RequestsEnd` excepts it, with the
  climb of a path, as `Circles`.
- `backends/tree_db/utils.py:434`: `create_drive` writes the group of the caller under an
  id that the caller may choose. A drive created again in another group keeps its
  content, whose documents carry the former group; so does a drive that a late rename
  writes back. `GroupsAgree` excepts it (`regrouped`).
- `app/middlewares/local_cloud_hybridizers/download_rules.py:106`: the marks are
  tested before the local service is awaited, so the answer may come from an asset
  half written.
- `app/routers/environment/download_assets/auto_download_thread.py:134`: a
  download that is already in progress makes `wait_asset` (line 286) return `None`
  at once instead of waiting.
- `app/environment/proxied_backends.py:246`: `terminate` kills whatever listens on
  the port of the proxy: when the port was taken by another process, this one, be it a
  server that py-youwol did not start, and that of the proxy stays.
- `app/routers/backends/implementation.py:656`: the port found free is not reserved, and
  several awaits later `wait_readiness` takes any answer on it for the backend's: two
  starts, or a start and a server of a run step or of the user, may register a backend
  that another process answers for. `AnsweredItself` and `Accounted` except the
  instances whose port was taken (`raced`).
- `app/environment/youwol_environment.py:326`: a reload begins with an empty store and
  ends no process; what the former environment started, and what its requests still
  register, can be ended by no request any more. `Accounted` speaks of the current
  environment.
- `app/routers/backends/implementation.py:582`: two requests that start the same
  backend at once both find none, and register two instances.
- `app/routers/backends/implementation.py:725`: on a timeout `owned_process` is not
  bound yet; the process is neither ended nor registered. `Accounted` excepts the
  instance (`late`).
- `backends/tree_db/routers/entities.py:134` with
  `backends/assets_gateway/routers/treedb_backend.py:437`: a borrowed item that
  is moved to another group takes the asset along, whose original stays.
- `backends/cdn/loading_graph_implementation.py`: when the CDN does not know a
  package and the index does, versions keep the order of the index, and the one
  picked may not be the latest (`Unambiguous`).
- `app/environment/browser_cache_store.py:431`: the key of the session is that of
  the first request of an environment; the entries of other users go to its file.
- `backends/stories/utils.py:215`: the listing of a page with ten children or more
  raises a `KeyError`, and a deletion of the story stops half way.
- `backends/stories/root_paths.py:665`: a page may be moved into itself or below, or
  below zero, where no listing of children finds it; a deletion of the story leaves it,
  and a publication after that mixes it with the zip file. `StoryIsWhole` excepts
  these, and `PublishRestores` asks for the pages of the zip file all the same.
- `app/routers/projects/router.py:427`: the mark of a run is added before its start is
  sent on the data web sockets. When that raises, `__aenter__`
  (`utils/context/context.py:620`) fails and `on_exit` is never called: the step
  is reported as running until another run of it ends (`stuck`).
- `app/routers/projects/router.py:535`: the manifest is written before the artifact is
  copied, and the former folder is removed file by file; a copy that raises, or a
  kill, leaves a part of an artifact under a manifest that reads, and `get_status`,
  which looks for the folder and compares the fingerprint, reports it OK.
  `OkIsInSync` excepts the step until an undisturbed run of it is recorded.
- `app/routers/projects/models_project.py:377`: of a step without artifacts
  `get_status` compares the fingerprint only, and never reads `succeeded`: a run that
  failed on unchanged sources is reported OK. Such steps are out of `Projects`.

## Proofs

`TreeDb_proofs` proves, for any sets of ids, groups and clients and under the
assumptions of `TreeDb` only (ids of different kinds differ, every drive has a
group, the default folders are folders):

- `TypeCorrect`: `TypeOK`. The tables alone are not inductive: a request writes the
  document it read, so `TypeInv` also says of each step of a request which fields
  it has (a `post` has an entity and a document, a `next` has moves to do...).
- `GroupsAlwaysAgree`: `GroupsAgree`, for every operation and interleaving, purges
  and cycles included. `Documents` includes those in flight. The lemma
  `StepDocuments` is the heart: a document that appears in a step was there
  before or is `Under(p, ..)` for a parent that exists at that moment, and
  `Under` copies drive and group from the same place. The group of a drive may
  change, and then the drive is empty or among those the property excepts.
- `NothingOrphaned` and `DeletionsRecoverable`: `NoOrphan` and `DeletedIsInTrash`,
  assuming that `Ops` holds neither `purge` nor `delete_drive` (`NothingPurged`).
  Their invariant `FiledInv` says that every document, live, in the trash or in
  flight, names a parent that is a drive, live or in the trash, and that a request
  about to unlink an entity has its copy in the trash (`Queued`). A step never
  takes a drive away nor an entry out of the trash, and makes an entity leave the
  tree only when it is in the trash; so parents stay filed, also for a document
  written long after its parent was read. TLC has checked `FiledInv` on
  `treedb_concurrent`.
- `TreesFollow`, `NothingLeftWhenQuiet`, `BystandersAreSafe` and `PathsAreFound`:
  `FollowsItsParent`, `NoOrphanWhenQuiet`, `PurgeDestroysNoBystander` and
  `PathIsFound`, for trees of any shape and depth and every operation, purges and
  folders moved into themselves included, assuming `Sequential`: one client, ids
  that are drawn (`Known` is empty) and no default drive, as in
  `treedb_sequential`. With two clients what a request has read may have changed
  when it writes (`hazards`), and with ids that clients choose a creation overwrites. `SequentialInv` says what is
  true between two calls of a request: who may be in a drive that is not that of
  its parent (`Awaits`: what a move has still to visit), what may have lost its
  parent (`Doomed`: what a purge has collected, what a move is to write), and that
  what was read is still so (`Knows`). Where a property speaks of what can be
  reached, no induction on the depth is needed: `Cut` says that nothing outside
  what a purge collects is in it, so the set of what is outside is closed under
  "parent of" and cannot meet it, and the climb of a path stays among what can be
  reached. TLC has checked `SequentialInv` on `treedb_sequential`.

`AssetsDownloader_proofs`, for any sets of workers, waiters and assets, any length
of the queue and any number of reloads (the browser's requests are finitely many):

- `TypeCorrect`: `TypeOK`, from what each step of a coroutine holds. That the queue
  is bounded takes a count: a request that passes the test of the queue adds one
  asset, whatever the others do meanwhile.
- `NoMarkLeftBehind`: `MarksAreLive`, inductive once the types are known.
- `NoMarkerWithoutData`: `MarkedIsUsable`. A coroutine about to write the document
  must have written the data before, so `WrittenIsLocal` adds that what each has
  counted as written (`done`) is local.

`Sessions_proofs`, for any deployments, requests, sessions, generations and reloads
(flows and ids of tokens are different things):

- `TypeCorrect`: `TypeOK`, from what each step of a request holds.
- `OneExchangeForEachFlow`: `FlowUsedOnce`. `FlowInv` adds that a flow being
  exchanged has begun and waits for nothing any more, or it could begin again.
- `FileOfOneEnvironment`: `FileIsASnapshot`, inductive once the types are known:
  every save writes the memory and the file of one environment alike.
- `TokensAreReachable`: `ReachableBySession`, which says nothing of requests about
  to save what they hold. `OwnerInv` is that each session has an owner, one id for
  good: it is the only id that any storage, file or request has for the session,
  unless the session is shared. The owner is a witness chosen when the provider
  grants the session, so the invariant is an existential over functions and each
  step exhibits the next one.
- `NotifiedLogoutsForget`: the action property `PlatformForgets`, from `OwnerInv`.

`Backends_proofs`, for any sets of requests, configurations, partitions, ports and
instances (versions are finitely many, so that a query has a latest one, and none
is 0; the mark of no instance is not an instance):

- `TypeCorrect`: `TypeOK`, for any number of requests that start backends.
- `NoProcessLost` (`Accounted`) and `ProxyAnsweredItself` (`AnsweredItself`), for any
  number of requests that start and end backends, run steps, servers of the user,
  crashes, timeouts and reloads. `CountInv` follows an instance from the choice of its
  port to its end: what listens on the port of an instance that was not `raced` is
  itself (`RaceInv`), so that an answer is its own, and a registration finds it
  listening; and a registered instance of the host listens or has ended, so that what
  `terminate` kills is the process of the proxy (`HeardInv`).
- Assuming that one request at a time starts backends (`OneStarter`), with any
  number of requests that end them, crashes and reloads: `StoreServesOnce`, the
  refinement of `Serving` (`ServesOnce`). With two starters it is false in the
  code: both find none (see *Disagreements*). `PlacesInv` says at each step of a
  start what its place still has: the instance to end first, then none, until the
  registration.

`LoadingGraph_proofs`, for any packages, versions and queries, any dependencies and
any finite set of libraries (the marks of what is not found are not versions; no
version is a work in progress next to another: `get_version_number` gives them odd
numbers, and the even ones that follow to what they become):

- `TypeCorrect`: `TypeOK`. `TypeInv` adds that a version that is listed is that of
  a library, and that a library read is under the symbol it exports.
- `LayersCanBeLoaded`: `DependenciesFirst`, whatever happens meanwhile. The layers are
  a recursive function on the sets of libraries that remain. That there is one, and
  one only, is `SomeLayering` and `OneLayering`; that each layer depends on what
  is before it (`Ordered`) is `LayersOrdered`. Each takes a smallest set of which
  it would be false (`SmallestSet`), since the induction rules cannot be used.
- `GraphAnswers`: `Answered`. As long as nothing is deleted and no call fails,
  `Stands` follows a version from the list it is found in to the answer: what is
  listed is there, what is picked is the version of a release that the query
  admits or its work in progress, and a query that is resolved has its symbol among
  the libraries read or being read. TLC has checked it on `loading_graph`.
- `RoundsFindTheFixedPoint`: `OutcomeAsExpected`, when nothing happens meanwhile and the
  answer is unambiguous. `Approaches` says that what the rounds have found is on the
  way: every list is that of the tables, every pick the greatest version admitted
  (`PickBest`), every library read can be reached, and every query of a library
  read is resolved or in the round. When no round remains, the libraries read are
  closed, and they are the least that are (`RoundsEnd`); they are all in layers
  unless some depend on each other in a circle, a set of which none is ever ready
  (`AllOrStuck`, `NoneStuck`, `LayersUnlessCycle`). `Reached` is stated as
  the least closed set and not computed, so that no induction is needed. TLC has
  checked `Approaches` on `loading_graph`.

`Gateway_proofs`:

- `TypeCorrect`: `TypeOK`, for any number of requests at once, with `DocsInv` and
  `KindInv`: original items are those of their asset, in the group of their
  folder, symlinks are borrowed, and all are of assets that were begun.
- Assuming one request at a time (`OneRequest`, as in the run), for any number of
  clients, assets, symlinks, folders, groups and lapses: `OwnerFollows`
  (`OwnerFollowsItem`), `NothingIsLeft` (`NothingLeftBehind`),
  `AccessFollowsSymlinks` (`PoliciesFollowSymlinks`) and `PurgesAreComplete` (the
  action property `PurgeIsComplete`). With two requests what is read in one
  call may have changed when the next one writes. The properties speak of
  the states between requests; between the calls of one, the invariant says for
  each step what has been done and what is owed: the rows that a posting still has
  to add, the owner that a move has yet to change (`OwnerInv`), the policies of a
  group whose last symlink leaves (`PolicyInv`), what a purge without error has
  removed (`PurgeInv`), and that what a step has read is still so (`Knows`).
  The candidates were checked on `gateway` before they were proved.

`Projects_proofs`, for any number of edits, requests and runs at once:

- `TypeCorrect`: `TypeOK`.
- `StatusIsTrue`: `OkIsInSync`. The statuses compare fingerprints and stamps, so
  the invariant relates each of them to the files it stands for, in the manifests
  and in each run: `BuildInv` for the artifact, `CdnInv` for the package, where a
  run about to break the agreement is marked as running. Both speak of steps that
  have not lapsed, as the property does, and of those that a run is about to make good:
  such a run is alone in its step, marked, and nothing has touched what it reads
  (`mending`), so that what it records is in sync. Cases of the statuses in the model
  overlapped, where the code has early returns; the proof could not choose, and
  the model was rewritten.

`Stories_proofs`, for any number of clients, pages, requests, moves and zip files
(the ids of the story, of its root page and of its pages differ: that of the root
is `root_` and that of the story; `NamesAssumption`, that no page is named as the
two other files of a story, `global-contents` and `requirements`, are: ids of pages
are UUIDs unless a client chooses them):

- `TypeCorrect`: `TypeOK`, which no run checks. The table has one document for each
  place; that a new page gets a number asks that the table be finite.
- `NoPageLost`: `PagesKept`. A document is overwritten, or deleted, by its place and
  not by its id, so the invariant is about all the documents that were posted or
  that some request is still to write (`Known`): two of the same place are of the
  same page (`PlaceInv`), unless a request took a place that another page had,
  which is the lapse the property names. `PostedInv` says where the documents a
  request holds come from, so that a move that begins while others are about to
  post cannot meet them unnoticed: a new page has a place that bears its mark, and
  the root page alone is under the story. Both were checked on `stories` first.
- `StoriesStayWhole` and `PublishedIsRestored`: `StoryIsWhole` and the action property
  `PublishRestores`. Between two requests a story is whole, during one it seldom is,
  so the invariant `WholeInv` is about what the story is going to be. Either no
  request destroys (`Growing`): then the documents there are and those that requests
  have yet to post are a tree, the files and those to write are its contents, and
  the pages about to be posted are new. Or one does (`Lone`), and it is alone: at
  each step of a move, of a deletion, of a publication, what has been done and what
  is left to do make the tree it started from, the tree without a subtree, nothing,
  or the tree of the zip file. That a traversal finds all that is under a page is
  `Looks`: the children of the pages already asked for are found. A tree is stated
  without its depth, every set that holds the root and the children of what it holds
  holds all the pages (`IsTree`), and `Descends` of the model likewise, so that no
  induction is needed: `GrownTree`, `PrunedTree` and `MovedTree` say what a new page,
  a deletion and a move make of it. `PublishRestores` also speaks of behaviours with
  lapses, where the story is no tree any more: there `BackInv` follows one publication
  only. As long as requests do not overlap and no two pages have one place, the calls
  that remain and what is stored make up the pages and the contents of the zip file,
  whatever else the tables hold (`Back`), and nobody else writes. TLC has checked
  `WholeInv` on `stories`.

Only model-checked:

- the liveness properties (`RequestsEnd`, `QueueIsServed`, `RequestEnds`,
  `MarksEnd`): the prover handles neither fairness nor ENABLED;
- `Persisted` and `Restored` of `BrowserCache`: facts about folds and filters of
  sequences, whose induction is over data. No module declares a RECURSIVE
  operator.

## Not modelled

- ESM servers (`app/environment/proxied_esm_servers.py`): a smaller store of the
  shape of that of the proxied backends, with one hazard of its own that is listed.
- The local CDN's updates and resets, flux and files backends, sessions storage,
  the applications server: one document or file per request, no step to
  interleave.
- Within the modelled components: what a request carries along without deciding
  anything (metadata, images, contents, plugins, requirements), routes that only
  forward or read, the encrypted form of the tokens file, remote publication, project
  discovery and dependency sorting.
- The tables' files: a reload opens the tables again from files that requests in
  progress still write; the hazard is listed, the modules have one instance of
  the tables.
- Code without a state of its own (clients, rules that only redirect, helpers),
  start up, and input and output.
