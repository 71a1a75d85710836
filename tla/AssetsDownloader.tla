-------------------------- MODULE AssetsDownloader --------------------------
(***************************************************************************)
(* The download of remote assets in the local databases: the queue and the *)
(* workers of app/routers/environment/download_assets, the requests that   *)
(* feed them (middlewares/local_cloud_hybridizers/download_rules.py) and   *)
(* the callers of wait_asset, which download in their own coroutine.       *)
(*                                                                         *)
(* Coroutines interleave at awaits only.  An action is what runs between   *)
(* two of them: an answer of a local or remote service, a message sent to  *)
(* the web sockets, an await queue.get().  Names, kinds of messages and    *)
(* progress bars are left out; an asset is one download_id.                *)
(***************************************************************************)
EXTENDS Naturals, Sequences, FiniteSets

CONSTANTS
  Asset,      \* the remote assets asked for
  Kind,       \* the kind of each asset
  Worker,     \* tasks of AssetsDownloader.workers
  Waiter,     \* callers of wait_asset
  Browser,    \* requests of raw data going through Download.apply
  MaxQueue,   \* bound: requests stop when so many downloads are queued
  MaxReload,  \* bound: reloads of the environment
  NoAsset

Kinds == {"data", "custom-asset", "story", "flux-project", "package"}

ASSUME DownloaderAssumption ==
  /\ Kind \in [Asset -> Kinds]
  /\ Worker \cap Waiter = {}
  /\ NoAsset \notin Asset
  /\ IsFiniteSet(Browser)
  /\ MaxQueue \in Nat /\ MaxReload \in Nat

\* What is written locally for an asset, each part by a call of its own.
Parts == {"raw", "explorer", "asset", "policies"}

\* Mutant: the asset is created before the data it describes, for every kind.
WritesAssetFirst(a) == <<"asset", "raw", "explorer", "policies">>

\* create_asset_local: raw data, explorer item, asset and its access policies;
\* for custom assets the raw data are files of the asset, created before them.
Writes(a) ==
  (IF Kind[a] = "custom-asset" THEN <<"asset">> ELSE <<>>)
    \o <<"raw", "explorer", "asset", "policies">>

\* is_local_up_to_date: the part whose presence means that there is no need to
\* download.
Marker(a) == IF Kind[a] \in {"data", "custom-asset"} THEN "asset" ELSE "raw"

Job == Worker \cup Waiter
Env == 0..MaxReload

VARIABLES
  env,          \* the current environment
  downloading,  \* env.cache_py_youwol[CACHE_DOWNLOADING_KEY] of each environment
  local,        \* the parts of each asset in the local databases
  queue,        \* AssetsDownloader.queue
  job,          \* the coroutines running download_asset
  page          \* the requests in Download.apply

vars == <<env, downloading, local, queue, job, page>>

\* A coroutine in download_asset holds the set of the environment it began with.
\* at: "idle", "check" (is_local_up_to_date), "start" (context.start), "send"
\* (STARTED), "write" (next: writes[done + 1]), "end" (SUCCEEDED), "failed"
\* (on_error), "dead" (a worker task that an exception ended).
JobSteps == {"idle", "check", "start", "send", "write", "end", "failed", "dead"}

IdleJob == [at |-> "idle", asset |-> NoAsset, env |-> 0, done |-> 0]
IdlePage == [at |-> "idle", asset |-> NoAsset, env |-> 0]

TypeOK ==
  /\ env \in Env
  /\ downloading \in [Env -> SUBSET Asset]
  /\ local \in [Asset -> SUBSET Parts]
  /\ queue \in Seq(Asset) /\ Len(queue) <= MaxQueue + Cardinality(Browser)
  /\ job \in [Job -> [at : JobSteps, asset : Asset \cup {NoAsset}, env : Env, done : 0..5]]
  /\ page \in [Browser -> [at : {"idle", "local", "remote", "enqueue"},
                           asset : Asset \cup {NoAsset}, env : Env]]

Init ==
  /\ env = 0
  /\ downloading = [e \in Env |-> {}]
  /\ local = [a \in Asset |-> {}]
  /\ queue = <<>>
  /\ job = [j \in Job |-> IdleJob]
  /\ page = [b \in Browser |-> IdlePage]

-----------------------------------------------------------------------------
(* download_asset *)

IsDownloading(e, a) == a \in downloading[e]

At(j, step) == job[j].at = step

Goto(j, step) == job' = [job EXCEPT ![j].at = step]

\* download_asset returns a status or None, or an exception leaves it.  A worker
\* drops the result and takes the next asset; nothing catches the exception.  What a
\* caller of wait_asset does with either is not of this module.
Result(j, result) ==
  [IdleJob EXCEPT !.at = IF j \in Worker /\ result = "raised" THEN "dead" ELSE "idle"]

Return(j, result) == job' = [job EXCEPT ![j] = Result(j, result)]

\* Up to the first await: an asset being downloaded is not downloaded again.
Enter(j, a) ==
  job' = [job EXCEPT ![j] = IF IsDownloading(env, a) THEN Result(j, "None")
                            ELSE [at |-> "check", asset |-> a, env |-> env, done |-> 0]]

\* Mutant: an asset being downloaded is put back in the queue.
TakeOrPutBack(w) ==
  /\ w \in Worker /\ At(w, "idle")
  /\ queue # <<>>
  /\ Enter(w, Head(queue))
  /\ queue' = IF IsDownloading(env, Head(queue)) THEN Append(Tail(queue), Head(queue))
                                                 ELSE Tail(queue)
  /\ UNCHANGED <<env, downloading, local, page>>

Take(w) ==
  /\ w \in Worker /\ At(w, "idle")
  /\ queue # <<>>
  /\ Enter(w, Head(queue))
  /\ queue' = Tail(queue)
  /\ UNCHANGED <<env, downloading, local, page>>

\* Backends that must be installed before they start: wait_asset of their package.
WaitAsset(j, a) ==
  /\ j \in Waiter /\ At(j, "idle")
  /\ Kind[a] = "package"
  /\ Enter(j, a)
  /\ UNCHANGED <<env, downloading, local, queue, page>>

\* is_local_up_to_date, whose service may answer with an error other than 404.
CheckLocal(j) ==
  /\ At(j, "check")
  /\ IF Marker(job[j].asset) \in local[job[j].asset]
       THEN Return(j, "None")
       ELSE Goto(j, "start")
  /\ UNCHANGED <<env, downloading, local, queue, page>>

CheckLocalRaises(j) ==
  /\ At(j, "check")
  /\ Return(j, "raised")
  /\ UNCHANGED <<env, downloading, local, queue, page>>

Start(j) ==
  /\ At(j, "start")
  /\ downloading' = [downloading EXCEPT ![job[j].env] = @ \cup {job[j].asset}]
  /\ Goto(j, "send")
  /\ UNCHANGED <<env, local, queue, page>>

SendStarted(j) ==
  /\ At(j, "send")
  /\ Goto(j, "write")
  /\ UNCHANGED <<env, downloading, local, queue, page>>

\* One call of create_asset_local.
Write(j) ==
  /\ At(j, "write")
  /\ LET a == job[j].asset
         n == job[j].done + 1
     IN /\ local' = [local EXCEPT ![a] = @ \cup {Writes(a)[n]}]
        /\ job' = [job EXCEPT ![j].done = n,
                              ![j].at = IF n = Len(Writes(a)) THEN "end" ELSE "write"]
  /\ UNCHANGED <<env, downloading, queue, page>>

\* A call of create_asset_local, or the sending of STARTED or SUCCEEDED, raises.
Fail(j) ==
  /\ job[j].at \in {"send", "write", "end"}
  /\ job' = [job EXCEPT ![j].at = "failed", ![j].done = 0]
  /\ UNCHANGED <<env, downloading, local, queue, page>>

\* The finally clause.
Release(j) ==
  downloading' = [downloading EXCEPT ![job[j].env] = @ \ {job[j].asset}]

SendSucceeded(j) ==
  /\ At(j, "end")
  /\ Release(j)
  /\ Return(j, "status")
  /\ UNCHANGED <<env, local, queue, page>>

\* on_error sends FAILED; this too may raise.
SendFailed(j) ==
  /\ At(j, "failed")
  /\ Release(j)
  /\ Return(j, "None")
  /\ UNCHANGED <<env, local, queue, page>>

\* Mutant: without the finally clause.
SendFailedRaisesUnreleased(j) ==
  /\ At(j, "failed")
  /\ Return(j, "raised")
  /\ UNCHANGED <<env, downloading, local, queue, page>>

SendFailedRaises(j) ==
  /\ At(j, "failed")
  /\ Release(j)
  /\ Return(j, "raised")
  /\ UNCHANGED <<env, local, queue, page>>

-----------------------------------------------------------------------------
(* Download.apply *)

PageGoto(b, step) == page' = [page EXCEPT ![b].at = step]

PageDone(b) == page' = [page EXCEPT ![b] = IdlePage]

\* A new request.  If the asset is being downloaded the remote platform answers
\* it, and nothing changes here; otherwise the local service is asked first.
Browse(b, a) ==
  /\ page[b] = IdlePage
  /\ Len(queue) < MaxQueue
  /\ ~IsDownloading(env, a)
  /\ page' = [page EXCEPT ![b] = [at |-> "local", asset |-> a, env |-> env]]
  /\ UNCHANGED <<env, downloading, local, queue, job>>

\* call_next: the local service answers, with a 404 if the raw data is missing.
FetchLocal(b) ==
  /\ page[b].at = "local"
  /\ IF "raw" \in local[page[b].asset] THEN PageDone(b) ELSE PageGoto(b, "remote")
  /\ UNCHANGED <<env, downloading, local, queue, job>>

\* The answer of the remote platform, then the test in the request's environment.
FetchRemote(b) ==
  /\ page[b].at = "remote"
  /\ IF IsDownloading(page[b].env, page[b].asset)
       THEN PageDone(b)
       ELSE PageGoto(b, "enqueue")
  /\ UNCHANGED <<env, downloading, local, queue, job>>

\* Mutant: a request that enqueues its asset again and again.
EnqueueAgain(b) ==
  /\ page[b].at = "enqueue"
  /\ queue' = Append(queue, page[b].asset)
  /\ UNCHANGED <<env, downloading, local, job, page>>

\* enqueue_asset: ENQUEUED is sent, then the asset put in the queue.
Enqueue(b) ==
  /\ page[b].at = "enqueue"
  /\ queue' = Append(queue, page[b].asset)
  /\ PageDone(b)
  /\ UNCHANGED <<env, downloading, local, job>>

\* The remote platform, or the sending of ENQUEUED, fails.
FetchFails(b) ==
  /\ page[b].at \in {"remote", "enqueue"}
  /\ PageDone(b)
  /\ UNCHANGED <<env, downloading, local, queue, job>>

-----------------------------------------------------------------------------
(* The application *)

\* A reloaded environment has an empty cache_py_youwol.
Reload ==
  /\ env < MaxReload
  /\ env' = env + 1
  /\ UNCHANGED <<downloading, local, queue, job, page>>

\* The process stops, at any point, and starts again: what was written stays.
Restart ==
  /\ env' = 0
  /\ downloading' = [e \in Env |-> {}]
  /\ queue' = <<>>
  /\ job' = [j \in Job |-> IdleJob]
  /\ page' = [b \in Browser |-> IdlePage]
  /\ UNCHANGED local

Working(j) ==
  \/ Take(j) \/ CheckLocal(j) \/ CheckLocalRaises(j)
  \/ Start(j) \/ SendStarted(j) \/ Write(j) \/ Fail(j)
  \/ SendSucceeded(j) \/ SendFailed(j) \/ SendFailedRaises(j)

Browsing(b) == FetchLocal(b) \/ FetchRemote(b) \/ Enqueue(b) \/ FetchFails(b)

Next ==
  \/ \E j \in Job : Working(j) \/ \E a \in Asset : WaitAsset(j, a)
  \/ \E b \in Browser : Browsing(b) \/ \E a \in Asset : Browse(b, a)
  \/ Reload \/ Restart

Spec == Init /\ [][Next]_vars

\* The event loop resumes every coroutine whose awaited call has returned, and
\* every call returns, be it with an error.
FairSpec ==
  /\ Spec
  /\ \A j \in Job : WF_vars(Working(j))
  /\ \A b \in Browser : WF_vars(Browsing(b))

-----------------------------------------------------------------------------
(* Properties *)

\* j is between the add of download_asset and its finally clause.
Downloads(j, e, a) ==
  job[j].at \in {"send", "write", "end", "failed"} /\ job[j].env = e /\ job[j].asset = a

\* An id in the set is the id of a download in progress, whatever failed, was
\* raised, or reloaded: an id left behind would send every later request for the
\* asset to the remote platform and it would never be downloaded.
MarksAreLive ==
  \A e \in Env : \A a \in downloading[e] : \E j \in Job : Downloads(j, e, a)

\* For "data", whose asset document says that it is local: downloads that fail,
\* that a restart cuts, or that run twice at once never leave an asset that passes
\* for downloaded (and will not be downloaded again) without its data.  The other
\* kinds write their marker first and do not have this property.
MarkedIsUsable ==
  \A a \in Asset :
    Kind[a] = "data" /\ Marker(a) \in local[a] => {"raw", "explorer"} \subseteq local[a]

\* A queued download is eventually taken, or an exception ended every worker task.
QueueIsServed == (queue # <<>>) ~> (queue = <<>> \/ \A w \in Worker : At(w, "dead"))
=============================================================================
