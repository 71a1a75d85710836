------------------------ MODULE AssetsDownloader_proofs ------------------------
(* Proofs about AssetsDownloader, for every set of assets of every kind,     *)
(* workers, waiters and requests.                                            *)
EXTENDS AssetsDownloader, FiniteSetTheorems, TLAPS

\* What a coroutine holds beside the type of its fields: an asset from the moment
\* it is in download_asset, and a part left to write while it writes.
JobOK(r) ==
  /\ r \in [at : JobSteps, asset : Asset \cup {NoAsset}, env : Env, done : 0..5]
  /\ r.at \in {"check", "start", "send", "write", "end", "failed"} => r.asset \in Asset
  /\ r.at \in {"check", "start", "send"} => r.done = 0
  /\ r.at = "write" => r.done < Len(Writes(r.asset))

PageOK(r) ==
  /\ r \in [at : {"idle", "local", "remote", "enqueue"}, asset : Asset \cup {NoAsset}, env : Env]
  /\ r.at # "idle" => r.asset \in Asset

JobsOK ==
  /\ DOMAIN job = Job /\ job = [j \in Job |-> job[j]]
  /\ \A j \in Job : JobOK(job[j])

PagesOK ==
  /\ DOMAIN page = Browser /\ page = [b \in Browser |-> page[b]]
  /\ \A b \in Browser : PageOK(page[b])

\* The requests that may still enqueue an asset.
Pending == {b \in Browser : page[b].at # "idle"}

\* A request counts against the bound from its arrival, not when it enqueues.
QueueOK ==
  /\ queue \in Seq(Asset)
  /\ Len(queue) + Cardinality(Pending) <= MaxQueue + Cardinality(Browser)

StoreOK ==
  /\ env \in Env
  /\ downloading \in [Env -> SUBSET Asset]
  /\ local \in [Asset -> SUBSET Parts]

TypeInv == StoreOK /\ JobsOK /\ PagesOK /\ QueueOK

-----------------------------------------------------------------------------
(* Lemmas about the operators *)

\* An asset is written in four or five calls, one for each part.
LEMMA WritesType ==
  ASSUME NEW a \in Asset
  PROVE  /\ Len(Writes(a)) \in {4, 5}
         /\ \A i \in 1..Len(Writes(a)) : Writes(a)[i] \in Parts
         /\ Kind[a] # "custom-asset" =>
              /\ Len(Writes(a)) = 4
              /\ Writes(a)[1] = "raw" /\ Writes(a)[2] = "explorer"
              /\ Writes(a)[3] = "asset" /\ Writes(a)[4] = "policies"
  BY DEF Writes, Parts

\* What download_asset leaves behind, whatever it returns or raises, is well typed.
LEMMA ResultOK ==
  ASSUME NEW j \in Job, NEW result \in {"status", "None", "raised"}
  PROVE  JobOK(Result(j, result))
<1>1. 0 \in Env
  BY DownloaderAssumption DEF Env
<1>2. PICK step \in {"idle", "dead"} :
        Result(j, result) = [at |-> step, asset |-> NoAsset, env |-> 0, done |-> 0]
  BY DEF Result, IdleJob
<1>3. QED BY <1>1, <1>2 DEF JobOK, JobSteps

\* A coroutine that has written one more part is well typed.
LEMMA WriteOK ==
  ASSUME NEW r, JobOK(r), r.at = "write"
  PROVE  JobOK([r EXCEPT !.done = r.done + 1,
                         !.at = IF r.done + 1 = Len(Writes(r.asset)) THEN "end" ELSE "write"])
<1> DEFINE parts == Len(Writes(r.asset))
           n == r.done + 1
<1>1. /\ r \in [at : JobSteps, asset : Asset \cup {NoAsset}, env : Env, done : 0..5]
      /\ r.asset \in Asset /\ r.done < parts
  BY DEF JobOK
<1>2. parts \in {4, 5}
  BY <1>1, WritesType
<1>3. n \in 0..5 /\ (n # parts => n < parts)
  <2> HIDE DEF parts
  <2>1. QED BY <1>1, <1>2
<1>4. ASSUME NEW step \in {"end", "write"}, step = "write" => n < parts
      PROVE  JobOK([r EXCEPT !.done = n, !.at = step])
  <2> DEFINE s == [r EXCEPT !.done = n, !.at = step]
  <2> HIDE DEF n
  <2>1. s \in [at : JobSteps, asset : Asset \cup {NoAsset}, env : Env, done : 0..5]
    BY <1>1, <1>3, <1>4 DEF JobSteps
  <2>2. s.at = step /\ s.asset = r.asset /\ s.done = n
    BY <1>1
  <2> HIDE DEF s
  <2>3. QED BY <1>1, <1>4, <2>1, <2>2 DEF JobOK
<1>5. QED BY <1>3, <1>4

\* A coroutine that has failed is well typed.
LEMMA FailOK ==
  ASSUME NEW r, JobOK(r), r.at \in {"send", "write", "end"}
  PROVE  JobOK([r EXCEPT !.at = "failed", !.done = 0])
<1>1. /\ r \in [at : JobSteps, asset : Asset \cup {NoAsset}, env : Env, done : 0..5]
      /\ r.asset \in Asset
  BY DEF JobOK
<1>2. ASSUME NEW step \in {"failed"}, NEW n \in 0..5
      PROVE  JobOK([r EXCEPT !.at = step, !.done = n])
  <2> DEFINE s == [r EXCEPT !.at = step, !.done = n]
  <2>1. s \in [at : JobSteps, asset : Asset \cup {NoAsset}, env : Env, done : 0..5]
    BY <1>1, <1>2 DEF JobSteps
  <2>2. s.at = step /\ s.asset = r.asset
    BY <1>1
  <2> HIDE DEF s
  <2>3. QED BY <1>1, <1>2, <2>1, <2>2 DEF JobOK
<1>3. 0 \in 0..5
  OBVIOUS
<1>4. QED BY <1>2, <1>3

\* A coroutine that goes on as a well typed one keeps the coroutines well typed.
LEMMA JobBecomesOK ==
  ASSUME JobsOK, NEW j \in Job, NEW r, JobOK(r), job' = [job EXCEPT ![j] = r]
  PROVE  JobsOK'
  BY DEF JobsOK

\* A coroutine that download_asset returns to keeps the coroutines well typed.
LEMMA ReturnOK ==
  ASSUME JobsOK, NEW j \in Job,
         NEW result \in {"status", "None", "raised"}, Return(j, result)
  PROVE  JobsOK'
  BY ResultOK, JobBecomesOK DEF Return

\* What a coroutine is after the helpers that move it: out of a download, or one
\* step further in the same one.
LEMMA ReturnIs ==
  ASSUME NEW j \in Job, NEW result \in {"status", "None", "raised"}, Return(j, result)
  PROVE  \E r : job' = [job EXCEPT ![j] = r] /\ r.at # "write"
<1>1. Result(j, result).at # "write"
  BY DEF Result, IdleJob
<1>2. QED BY <1>1 DEF Return

\* Entering download_asset writes nothing yet.
LEMMA EnterIs ==
  ASSUME NEW j \in Job, NEW a \in Asset, Enter(j, a)
  PROVE  \E r : job' = [job EXCEPT ![j] = r] /\ r.at # "write"
<1>1. Result(j, "None").at # "write"
  BY DEF Result, IdleJob
<1>2. [at |-> "check", asset |-> a, env |-> env, done |-> 0].at # "write"
  OBVIOUS
<1>3. CASE IsDownloading(env, a)
  BY <1>1, <1>3 DEF Enter
<1>4. CASE ~IsDownloading(env, a)
  BY <1>2, <1>4 DEF Enter
<1>5. QED BY <1>3, <1>4

\* The next step of the same download.
LEMMA GotoIs ==
  ASSUME JobsOK, NEW j \in Job, NEW step, Goto(j, step)
  PROVE  \E r : /\ job' = [job EXCEPT ![j] = r]
                /\ r.at = step
                /\ r.env = job[j].env /\ r.asset = job[j].asset /\ r.done = job[j].done
<1> DEFINE r == [job[j] EXCEPT !.at = step]
<1>1. job' = [job EXCEPT ![j] = r]
  BY DEF Goto
<1>2. JobOK(job[j])
  BY DEF JobsOK
<1>3. r.at = step /\ r.env = job[j].env /\ r.asset = job[j].asset /\ r.done = job[j].done
  BY <1>2 DEF JobOK
<1> HIDE DEF r
<1>4. QED BY <1>1, <1>3

\* A download that failed is the same download, with nothing more to write.
LEMMA FailIs ==
  ASSUME JobsOK, NEW j \in Job, Fail(j)
  PROVE  \E r : /\ job' = [job EXCEPT ![j] = r]
                /\ r.at = "failed" /\ r.done = 0
                /\ r.env = job[j].env /\ r.asset = job[j].asset
<1> DEFINE r == [job[j] EXCEPT !.at = "failed", !.done = 0]
<1>1. job' = [job EXCEPT ![j] = r]
  BY DEF Fail
<1>2. JobOK(job[j])
  BY DEF JobsOK
<1>3. r.at = "failed" /\ r.done = 0 /\ r.env = job[j].env /\ r.asset = job[j].asset
  BY <1>2 DEF JobOK
<1> HIDE DEF r
<1>4. QED BY <1>1, <1>3

\* One more part of the same download.
LEMMA WriteIs ==
  ASSUME JobsOK, NEW j \in Job, Write(j)
  PROVE  \E r : /\ job' = [job EXCEPT ![j] = r]
                /\ r.at \in {"write", "end"}
                /\ r.env = job[j].env /\ r.asset = job[j].asset /\ r.done = job[j].done + 1
<1> DEFINE n == job[j].done + 1
           step == IF n = Len(Writes(job[j].asset)) THEN "end" ELSE "write"
           r == [job[j] EXCEPT !.done = n, !.at = step]
<1>1. job' = [job EXCEPT ![j] = r] /\ step \in {"write", "end"}
  BY DEF Write
<1>2. JobOK(job[j])
  BY DEF JobsOK
<1> HIDE DEF step
<1>3. r.at = step /\ r.env = job[j].env /\ r.asset = job[j].asset /\ r.done = n
  BY <1>2 DEF JobOK
<1> HIDE DEF r
<1>4. QED BY <1>1, <1>3

\* So does one that enters download_asset, with the environment of that moment.
LEMMA EnterOK ==
  ASSUME JobsOK, env \in Env, NEW j \in Job, NEW a \in Asset, Enter(j, a)
  PROVE  JobsOK'
<1>1. JobOK([at |-> "check", asset |-> a, env |-> env, done |-> 0])
  BY DEF JobOK, JobSteps
<1>2. QED BY <1>1, ResultOK, JobBecomesOK DEF Enter

\* A request that goes on as a well typed one keeps the requests well typed.
LEMMA PageBecomesOK ==
  ASSUME PagesOK, NEW b \in Browser, NEW r, PageOK(r), page' = [page EXCEPT ![b] = r]
  PROVE  PagesOK'
  BY DEF PagesOK

\* A request that ends, or that gets one step further, is well typed, and no more
\* requests are pending than before.
LEMMA PageOnOK ==
  ASSUME PagesOK, NEW b \in Browser, page[b].at # "idle",
         NEW step \in {"remote", "enqueue"}, PageDone(b) \/ PageGoto(b, step)
  PROVE  PagesOK' /\ Pending' \subseteq Pending
<1>1. PageOK(page[b])
  BY DEF PagesOK
<1>2. PageOK(IdlePage) /\ PageOK([page[b] EXCEPT !.at = step])
  BY <1>1, DownloaderAssumption DEF PageOK, IdlePage, Env
<1>3. PagesOK'
  BY <1>2, PageBecomesOK DEF PageDone, PageGoto
<1>4. Pending' \subseteq Pending
  BY DEF PagesOK, PageDone, PageGoto, Pending, IdlePage
<1>5. QED BY <1>3, <1>4

\* The pending requests can be counted.
LEMMA PendingType == IsFiniteSet(Pending) /\ Cardinality(Pending) \in 0..Cardinality(Browser)
<1>1. Pending \subseteq Browser /\ IsFiniteSet(Browser)
  BY DownloaderAssumption DEF Pending
<1>2. QED BY <1>1, FS_Subset, FS_CardinalityType

\* Fewer of them count for less.
LEMMA PendingShrinks ==
  ASSUME Pending' \subseteq Pending
  PROVE  Cardinality(Pending') \in Nat /\ Cardinality(Pending') <= Cardinality(Pending)
  BY PendingType, FS_Subset, FS_CardinalityType

-----------------------------------------------------------------------------
(* Type correctness *)

\* The invariant is what TypeOK asks for, and more.
LEMMA TypeInvType == TypeInv => TypeOK
<1> SUFFICES ASSUME TypeInv PROVE TypeOK
  OBVIOUS
<1>1. Len(queue) <= MaxQueue + Cardinality(Browser)
  <2>1. Len(queue) \in Nat /\ Cardinality(Browser) \in Nat /\ MaxQueue \in Nat
    BY DownloaderAssumption, FS_CardinalityType DEF TypeInv, QueueOK
  <2>2. QED BY <2>1, PendingType DEF TypeInv, QueueOK
<1>2. job \in [Job -> [at : JobSteps, asset : Asset \cup {NoAsset}, env : Env, done : 0..5]]
  BY DEF TypeInv, JobsOK, JobOK
<1>3. page \in [Browser -> [at : {"idle", "local", "remote", "enqueue"},
                            asset : Asset \cup {NoAsset}, env : Env]]
  BY DEF TypeInv, PagesOK, PageOK
<1>4. QED BY <1>1, <1>2, <1>3 DEF TypeInv, StoreOK, QueueOK, TypeOK

\* What holds when the application starts, and again whenever it restarts.
LEMMA StartOK ==
  ASSUME job' = [j \in Job |-> IdleJob], page' = [b \in Browser |-> IdlePage], queue' = <<>>
  PROVE  JobsOK' /\ PagesOK' /\ QueueOK'
<1>1. 0 \in Env
  BY DownloaderAssumption DEF Env
<1>2. JobOK(IdleJob) /\ PageOK(IdlePage)
  BY <1>1 DEF JobOK, PageOK, IdleJob, IdlePage, JobSteps
<1>3. JobsOK' /\ PagesOK'
  BY <1>2 DEF JobsOK, PagesOK
<1>4. Pending' = {}
  BY DEF Pending, IdlePage
<1>5. Cardinality(Pending') = 0 /\ Cardinality(Browser) \in Nat
  BY <1>4, FS_EmptySet, FS_CardinalityType, DownloaderAssumption
<1>6. QueueOK'
  BY <1>5, DownloaderAssumption DEF QueueOK
<1>7. QED BY <1>3, <1>6

\* The application starts with nothing asked, queued or downloaded.
LEMMA TypeInit == Init => TypeInv
<1> SUFFICES ASSUME Init PROVE TypeInv
  OBVIOUS
<1>1. 0 \in Env
  BY DownloaderAssumption DEF Env
<1>2. StoreOK
  BY <1>1 DEF Init, StoreOK
<1>3. JobOK(IdleJob) /\ PageOK(IdlePage)
  BY <1>1 DEF JobOK, PageOK, IdleJob, IdlePage, JobSteps
<1>4. JobsOK /\ PagesOK
  BY <1>3 DEF Init, JobsOK, PagesOK
<1>5. Pending = {}
  BY DEF Init, Pending, IdlePage
<1>6. Cardinality(Pending) = 0 /\ Cardinality(Browser) \in Nat
  BY <1>5, FS_EmptySet, FS_CardinalityType, DownloaderAssumption
<1>7. QueueOK
  BY <1>6, DownloaderAssumption DEF Init, QueueOK
<1>8. QED BY <1>2, <1>4, <1>7 DEF TypeInv

\* A step that leaves the queue and the requests alone leaves their count alone.
LEMMA SameQueueOK ==
  ASSUME PagesOK, QueueOK, UNCHANGED <<queue, page>>
  PROVE  PagesOK' /\ QueueOK'
  BY DEF PagesOK, QueueOK, Pending

\* One step per action: the coroutines, then the stores, then the queue.
LEMMA TypeStep == TypeInv /\ [Next]_vars => TypeInv'
<1> SUFFICES ASSUME TypeInv, [Next]_vars PROVE TypeInv'
  OBVIOUS
<1> USE DEF TypeInv
<1>1. CASE UNCHANGED vars
  BY <1>1, SameQueueOK DEF vars, StoreOK, JobsOK
<1>2. ASSUME NEW j \in Job, Working(j) \/ \E a \in Asset : WaitAsset(j, a)
      PROVE  TypeInv'
  <2> JobOK(job[j])
    BY DEF JobsOK
  <2>1. CASE Take(j)
    <3>1. Head(queue) \in Asset /\ Tail(queue) \in Seq(Asset) /\ Len(Tail(queue)) = Len(queue) - 1
      BY <2>1 DEF Take, QueueOK
    <3>2. JobsOK'
      BY <2>1, <3>1, EnterOK DEF Take, StoreOK
    <3>3. StoreOK' /\ PagesOK' /\ Pending' = Pending
      BY <2>1 DEF Take, StoreOK, PagesOK, Pending
    <3>4. QueueOK'
      <4>1. Len(queue) \in Nat /\ Cardinality(Browser) \in Nat /\ Cardinality(Pending) \in Nat
        BY DownloaderAssumption, FS_CardinalityType, PendingType DEF QueueOK
      <4>2. QED BY <2>1, <3>1, <3>3, <4>1, DownloaderAssumption DEF Take, QueueOK
    <3>5. QED BY <3>2, <3>3, <3>4
  <2>2. CASE CheckLocal(j) \/ CheckLocalRaises(j)
    <3>1. job[j].asset \in Asset /\ JobOK([job[j] EXCEPT !.at = "start"])
      BY <2>2 DEF JobOK, JobSteps, At, CheckLocal, CheckLocalRaises
    <3>2. JobsOK'
      BY <2>2, <3>1, ReturnOK, JobBecomesOK DEF CheckLocal, CheckLocalRaises, Goto
    <3>3. QED BY <2>2, <3>2, SameQueueOK DEF CheckLocal, CheckLocalRaises, StoreOK
  <2>3. CASE Start(j)
    <3>1. JobOK([job[j] EXCEPT !.at = "send"])
      BY <2>3 DEF JobOK, JobSteps, At, Start
    <3>2. JobsOK'
      BY <2>3, <3>1, JobBecomesOK DEF Start, Goto
    <3>3. StoreOK'
      BY <2>3 DEF Start, StoreOK, At, JobOK
    <3>4. QED BY <2>3, <3>2, <3>3, SameQueueOK DEF Start
  <2>4. CASE SendStarted(j)
    <3>1. JobOK([job[j] EXCEPT !.at = "write"])
      <4>1. job[j].asset \in Asset /\ job[j].done = 0
        BY <2>4 DEF JobOK, At, SendStarted
      <4>2. 0 < Len(Writes(job[j].asset))
        <5>1. Len(Writes(job[j].asset)) \in {4, 5}
          BY <4>1, WritesType
        <5>2. \A n \in {4, 5} : 0 < n
          OBVIOUS
        <5>3. QED BY <5>1, <5>2
      <4>3. QED BY <4>1, <4>2 DEF JobOK, JobSteps
    <3>2. JobsOK'
      BY <2>4, <3>1, JobBecomesOK DEF SendStarted, Goto
    <3>3. QED BY <2>4, <3>2, SameQueueOK DEF SendStarted, StoreOK
  <2>5. CASE Write(j)
    <3> DEFINE a == job[j].asset
               n == job[j].done + 1
    <3>1. a \in Asset /\ Len(Writes(a)) \in {4, 5} /\ n \in 1..Len(Writes(a))
          /\ Writes(a)[n] \in Parts
      BY <2>5, WritesType DEF JobOK, At, Write
    <3>2. JobOK([job[j] EXCEPT !.done = n, !.at = IF n = Len(Writes(a)) THEN "end" ELSE "write"])
      BY <2>5, WriteOK DEF Write, At
    <3>3. JobsOK'
      BY <2>5, <3>2, JobBecomesOK DEF Write
    <3>4. StoreOK'
      BY <2>5, <3>1 DEF Write, StoreOK
    <3>5. QED BY <2>5, <3>3, <3>4, SameQueueOK DEF Write
  <2>6. CASE Fail(j)
    <3>1. JobOK([job[j] EXCEPT !.at = "failed", !.done = 0])
      BY <2>6, FailOK DEF Fail
    <3>2. JobsOK'
      BY <2>6, <3>1, JobBecomesOK DEF Fail
    <3>3. QED BY <2>6, <3>2, SameQueueOK DEF Fail, StoreOK
  <2>7. CASE SendSucceeded(j) \/ SendFailed(j) \/ SendFailedRaises(j)
    <3>1. job[j].asset \in Asset /\ job[j].env \in Env /\ Release(j)
      BY <2>7 DEF JobOK, At, SendSucceeded, SendFailed, SendFailedRaises
    <3>2. JobsOK'
      BY <2>7, <3>1, ReturnOK DEF SendSucceeded, SendFailed, SendFailedRaises
    <3>3. StoreOK'
      BY <2>7, <3>1 DEF SendSucceeded, SendFailed, SendFailedRaises, Release, StoreOK
    <3>4. QED BY <2>7, <3>2, <3>3, SameQueueOK DEF SendSucceeded, SendFailed, SendFailedRaises
  <2>8. ASSUME NEW a \in Asset, WaitAsset(j, a) PROVE TypeInv'
    BY <2>8, EnterOK, SameQueueOK DEF WaitAsset, StoreOK
  <2>9. QED BY <1>2, <2>1, <2>2, <2>3, <2>4, <2>5, <2>6, <2>7, <2>8 DEF Working
<1>3. ASSUME NEW b \in Browser, Browsing(b) PROVE TypeInv'
  <2> PageOK(page[b])
    BY DEF PagesOK
  <2>1. page[b].at # "idle"
    BY <1>3 DEF Browsing, FetchLocal, FetchRemote, Enqueue, FetchFails
  <2>2. PagesOK' /\ Pending' \subseteq Pending
    BY <1>3, <2>1, PageOnOK DEF Browsing, FetchLocal, FetchRemote, Enqueue, FetchFails
  <2>3. StoreOK' /\ JobsOK'
    BY <1>3 DEF Browsing, FetchLocal, FetchRemote, Enqueue, FetchFails, StoreOK, JobsOK
  <2>4. /\ Len(queue) \in Nat /\ Cardinality(Browser) \in Nat /\ MaxQueue \in Nat
        /\ Cardinality(Pending) \in Nat /\ Cardinality(Pending') \in Nat
        /\ Cardinality(Pending') <= Cardinality(Pending)
    BY <2>2, DownloaderAssumption, FS_CardinalityType, PendingType, PendingShrinks DEF QueueOK
  <2>5. CASE Enqueue(b)
    <3>1. Pending' = Pending \ {b} /\ b \in Pending
      BY <2>1, <2>5 DEF Enqueue, PageDone, IdlePage, Pending, PagesOK
    <3>2. Cardinality(Pending') = Cardinality(Pending) - 1
      BY <3>1, PendingType, FS_RemoveElement
    <3>3. queue' \in Seq(Asset) /\ Len(queue') = Len(queue) + 1
      BY <2>1, <2>5 DEF Enqueue, PageOK, QueueOK
    <3>4. QueueOK'
      BY <2>4, <3>2, <3>3 DEF QueueOK
    <3>5. QED BY <2>2, <2>3, <3>4
  <2>6. CASE ~Enqueue(b)
    <3>1. queue' = queue
      BY <1>3, <2>6 DEF Browsing, FetchLocal, FetchRemote, FetchFails
    <3>2. QueueOK'
      BY <2>4, <3>1 DEF QueueOK
    <3>3. QED BY <2>2, <2>3, <3>2
  <2>7. QED BY <2>5, <2>6
<1>4. ASSUME NEW b \in Browser, NEW a \in Asset, Browse(b, a) PROVE TypeInv'
  <2>1. PageOK([at |-> "local", asset |-> a, env |-> env])
    BY DEF PageOK, StoreOK
  <2>2. PagesOK' /\ StoreOK' /\ JobsOK'
    BY <1>4, <2>1, PageBecomesOK DEF Browse, StoreOK, JobsOK
  <2>3. Cardinality(Pending') \in Nat /\ Cardinality(Pending') <= Cardinality(Browser)
    <3>1. Pending' \subseteq Browser
      BY DEF Pending
    <3>2. QED BY <3>1, DownloaderAssumption, FS_Subset, FS_CardinalityType
  <2>4. QueueOK'
    <3>1. Cardinality(Browser) \in Nat /\ Len(queue) \in Nat
      BY DownloaderAssumption, FS_CardinalityType DEF QueueOK
    <3>2. QED BY <1>4, <2>3, <3>1, DownloaderAssumption DEF Browse, QueueOK
  <2>5. QED BY <2>2, <2>4
<1>5. CASE Reload
  <2>1. StoreOK'
    BY <1>5, DownloaderAssumption DEF Reload, StoreOK, Env
  <2>2. QED BY <1>5, <2>1, SameQueueOK DEF Reload, JobsOK
<1>6. CASE Restart
  <2>1. StoreOK'
    BY <1>6, DownloaderAssumption DEF Restart, StoreOK, Env
  <2>2. QED BY <1>6, <2>1, StartOK DEF Restart
<1>7. QED BY <1>1, <1>2, <1>3, <1>4, <1>5, <1>6 DEF Next

\* Type correctness of the downloads, in every behaviour: the coroutines and the
\* requests hold what their step needs, and the queue is never longer than its
\* bound and one asset for each request.
THEOREM TypeCorrect == Spec => []TypeOK
<1>1. TypeInv => TypeOK
  BY TypeInvType
<1>2. Init => TypeInv
  BY TypeInit
<1>3. TypeInv /\ [Next]_vars => TypeInv'
  BY TypeStep
<1>4. QED BY <1>1, <1>2, <1>3, PTL DEF Spec

-----------------------------------------------------------------------------
(* The marks of the downloads in progress *)

\* A step of a coroutine before or after its download, that adds no mark, keeps
\* the marks live; so does the one that takes its own mark away.
LEMMA OthersStayLive ==
  ASSUME MarksAreLive, NEW j \in Job, NEW r,
         DOMAIN job = Job, job' = [job EXCEPT ![j] = r],
         \A e \in Env : \A a \in downloading'[e] :
           a \in downloading[e] /\ ~Downloads(j, e, a)
  PROVE  MarksAreLive'
<1> SUFFICES ASSUME NEW e \in Env, NEW a \in downloading'[e]
             PROVE  \E k \in Job : Downloads(k, e, a)'
  BY DEF MarksAreLive
<1>1. PICK k \in Job : Downloads(k, e, a)
  BY DEF MarksAreLive
<1>2. k # j
  BY <1>1
<1>3. Downloads(k, e, a)'
  BY <1>1, <1>2 DEF Downloads
<1>4. QED BY <1>3

\* A step within the download keeps its mark live.
LEMMA StaysLive ==
  ASSUME MarksAreLive, NEW j \in Job, NEW r,
         DOMAIN job = Job, job' = [job EXCEPT ![j] = r],
         r.at \in {"send", "write", "end", "failed"},
         r.env = job[j].env, r.asset = job[j].asset,
         \A e \in Env : \A a \in downloading'[e] :
           a \in downloading[e] \/ (e = r.env /\ a = r.asset)
  PROVE  MarksAreLive'
<1> SUFFICES ASSUME NEW e \in Env, NEW a \in downloading'[e]
             PROVE  \E k \in Job : Downloads(k, e, a)'
  BY DEF MarksAreLive
<1>1. CASE e = r.env /\ a = r.asset
  BY <1>1 DEF Downloads
<1>2. CASE a \in downloading[e]
  <2>1. PICK k \in Job : Downloads(k, e, a)
    BY <1>2 DEF MarksAreLive
  <2>2. CASE k = j
    BY <2>1, <2>2 DEF Downloads
  <2>3. CASE k # j
    <3>1. Downloads(k, e, a)'
      BY <2>1, <2>3 DEF Downloads
    <3>2. QED BY <3>1
  <2>4. QED BY <2>2, <2>3
<1>3. QED BY <1>1, <1>2

\* One step per action, by where it leaves the coroutine.
LEMMA MarksStep == TypeInv /\ MarksAreLive /\ [Next]_vars => MarksAreLive'
<1> SUFFICES ASSUME TypeInv, MarksAreLive, [Next]_vars PROVE MarksAreLive'
  OBVIOUS
<1> DOMAIN job = Job /\ downloading \in [Env -> SUBSET Asset]
  BY DEF TypeInv, JobsOK, StoreOK
<1>1. ASSUME UNCHANGED <<downloading, job>> PROVE MarksAreLive'
  BY <1>1 DEF MarksAreLive, Downloads
<1>2. ASSUME NEW j \in Job, Working(j) \/ \E a \in Asset : WaitAsset(j, a)
      PROVE  MarksAreLive'
  <2> JobOK(job[j])
    BY DEF TypeInv, JobsOK
  <2>1. CASE Take(j) \/ CheckLocal(j) \/ CheckLocalRaises(j) \/ \E a \in Asset : WaitAsset(j, a)
    <3>1. \A e, a : ~Downloads(j, e, a)
      BY <2>1 DEF Downloads, Take, CheckLocal, CheckLocalRaises, WaitAsset, At
    <3>2. PICK r : job' = [job EXCEPT ![j] = r]
      BY <2>1 DEF Take, CheckLocal, CheckLocalRaises, WaitAsset, Enter, Return, Goto
    <3>3. downloading' = downloading
      BY <2>1 DEF Take, CheckLocal, CheckLocalRaises, WaitAsset
    <3>4. QED BY <3>1, <3>2, <3>3, OthersStayLive
  <2>2. CASE Start(j)
    <3>1. PICK r : /\ job' = [job EXCEPT ![j] = r] /\ r.at = "send"
                   /\ r.env = job[j].env /\ r.asset = job[j].asset
      BY <2>2, GotoIs DEF Start, TypeInv
    <3>2. \A e \in Env : \A a \in downloading'[e] :
            a \in downloading[e] \/ (e = r.env /\ a = r.asset)
      BY <2>2, <3>1 DEF Start
    <3>3. QED BY <3>1, <3>2, StaysLive
  <2>3. CASE SendStarted(j) \/ Write(j) \/ Fail(j)
    <3>1. PICK r : /\ job' = [job EXCEPT ![j] = r]
                   /\ r.at \in {"send", "write", "end", "failed"}
                   /\ r.env = job[j].env /\ r.asset = job[j].asset
      <4>1. CASE Write(j)
        BY <4>1, WriteIs DEF TypeInv
      <4>2. CASE SendStarted(j)
        BY <4>2, GotoIs DEF SendStarted, TypeInv
      <4>3. CASE Fail(j)
        BY <4>3, FailIs DEF TypeInv
      <4>4. QED BY <2>3, <4>1, <4>2, <4>3
    <3>2. downloading' = downloading
      BY <2>3 DEF SendStarted, Write, Fail
    <3>3. QED BY <3>1, <3>2, StaysLive
  <2>4. CASE SendSucceeded(j) \/ SendFailed(j) \/ SendFailedRaises(j)
    <3>1. PICK r : job' = [job EXCEPT ![j] = r]
      BY <2>4 DEF SendSucceeded, SendFailed, SendFailedRaises, Return
    <3>2. Release(j) /\ job[j].env \in Env
      BY <2>4 DEF SendSucceeded, SendFailed, SendFailedRaises, JobOK
    <3>3. \A e \in Env : \A a \in downloading'[e] :
            a \in downloading[e] /\ ~Downloads(j, e, a)
      BY <3>2 DEF Release, Downloads
    <3>4. QED BY <3>1, <3>3, OthersStayLive
  <2>5. QED BY <1>2, <2>1, <2>2, <2>3, <2>4 DEF Working
<1>3. CASE UNCHANGED vars
  BY <1>1, <1>3 DEF vars
<1>4. ASSUME NEW b \in Browser, Browsing(b) \/ \E a \in Asset : Browse(b, a)
      PROVE  MarksAreLive'
  BY <1>1, <1>4 DEF Browsing, FetchLocal, FetchRemote, Enqueue, FetchFails, Browse
<1>5. CASE Reload
  BY <1>1, <1>5 DEF Reload
<1>6. CASE Restart
  BY <1>6 DEF Restart, MarksAreLive
<1>7. QED BY <1>2, <1>3, <1>4, <1>5, <1>6 DEF Next

\* In every behaviour, for any number of workers, waiters and reloads: an asset is
\* marked as being downloaded only while a coroutine is in its download.
THEOREM NoMarkLeftBehind == Spec => []MarksAreLive
<1>1. Init => MarksAreLive
  BY DEF Init, MarksAreLive
<1>2. Init => TypeInv
  BY TypeInit
<1>3. TypeInv /\ [Next]_vars => TypeInv'
  BY TypeStep
<1>4. TypeInv /\ MarksAreLive /\ [Next]_vars => MarksAreLive'
  BY MarksStep
<1>5. QED BY <1>1, <1>2, <1>3, <1>4, PTL DEF Spec

-----------------------------------------------------------------------------
(* What a partial download leaves *)

\* The parts a coroutine counts as written are written, whoever else downloads the
\* same asset.  Without this MarkedIsUsable is not inductive: nothing in it says
\* that the data were written when the asset document is about to be.
WrittenIsLocal ==
  \A j \in Job :
    job[j].at = "write" =>
      \A i \in 1..job[j].done : Writes(job[j].asset)[i] \in local[job[j].asset]

UsableInv == WrittenIsLocal /\ MarkedIsUsable

\* A coroutine that is not writing when its step ends owes nothing, and what is
\* local stays so.
LEMMA WrittenStays ==
  ASSUME TypeInv, WrittenIsLocal, NEW j \in Job, NEW r, job' = [job EXCEPT ![j] = r],
         \A a \in Asset : local[a] \subseteq local'[a],
         r.at = "write" =>
           r.asset \in Asset /\ \A i \in 1..r.done : Writes(r.asset)[i] \in local'[r.asset]
  PROVE  WrittenIsLocal'
<1> SUFFICES ASSUME NEW k \in Job, job'[k].at = "write", NEW i \in 1..job'[k].done
             PROVE  Writes(job'[k].asset)[i] \in local'[job'[k].asset]
  BY DEF WrittenIsLocal, Writes
<1> DOMAIN job = Job /\ JobOK(job[k])
  BY DEF TypeInv, JobsOK
<1>1. CASE k = j
  BY <1>1
<1>2. CASE k # j
  <2>1. job'[k] = job[k] /\ job[k].asset \in Asset
    BY <1>2 DEF JobOK
  <2>2. QED BY <2>1 DEF WrittenIsLocal
<1>3. QED BY <1>1, <1>2

\* Only Write makes an asset local, and the data come before the asset document.
LEMMA UsableStep == TypeInv /\ UsableInv /\ [Next]_vars => UsableInv'
<1> SUFFICES ASSUME TypeInv, WrittenIsLocal, MarkedIsUsable, [Next]_vars PROVE UsableInv'
  BY DEF UsableInv
<1> DOMAIN job = Job /\ local \in [Asset -> SUBSET Parts]
  BY DEF TypeInv, JobsOK, StoreOK
<1>1. ASSUME local' = local PROVE MarkedIsUsable'
  BY <1>1 DEF MarkedIsUsable
<1>2. ASSUME UNCHANGED <<job, local>> PROVE UsableInv'
  BY <1>1, <1>2 DEF UsableInv, WrittenIsLocal
<1>3. ASSUME NEW j \in Job, Working(j) \/ \E a \in Asset : WaitAsset(j, a)
      PROVE  UsableInv'
  <2> JobOK(job[j])
    BY DEF TypeInv, JobsOK
  <2>1. CASE Take(j) \/ CheckLocal(j) \/ CheckLocalRaises(j) \/ \E a \in Asset : WaitAsset(j, a)
    <3>1. PICK r : job' = [job EXCEPT ![j] = r] /\ r.at # "write"
      <4>1. ASSUME Goto(j, "start")
            PROVE  \E r : job' = [job EXCEPT ![j] = r] /\ r.at # "write"
        BY <4>1, GotoIs DEF TypeInv
      <4>2. ASSUME Take(j) PROVE Head(queue) \in Asset
        BY <4>2 DEF Take, TypeInv, QueueOK
      <4>3. QED BY <2>1, <4>1, <4>2, EnterIs, ReturnIs
                DEF Take, WaitAsset, CheckLocal, CheckLocalRaises
    <3>2. local' = local
      BY <2>1 DEF Take, CheckLocal, CheckLocalRaises, WaitAsset
    <3>3. QED BY <1>1, <3>1, <3>2, WrittenStays DEF UsableInv
  <2>2. CASE Start(j) \/ Fail(j)
    <3>1. PICK r : job' = [job EXCEPT ![j] = r] /\ r.at # "write"
      BY <2>2, GotoIs, FailIs DEF Start, TypeInv
    <3>2. local' = local
      BY <2>2 DEF Start, Fail
    <3>3. QED BY <1>1, <3>1, <3>2, WrittenStays DEF UsableInv
  <2>3. CASE SendStarted(j)
    <3>1. PICK r : job' = [job EXCEPT ![j] = r] /\ r.asset = job[j].asset /\ r.done = job[j].done
      BY <2>3, GotoIs DEF SendStarted, TypeInv
    <3>2. r.asset \in Asset /\ 1..r.done = {} /\ local' = local
      BY <2>3, <3>1 DEF SendStarted, At, JobOK
    <3>3. QED BY <1>1, <3>1, <3>2, WrittenStays DEF UsableInv
  <2>4. CASE Write(j)
    <3> DEFINE a == job[j].asset
               n == job[j].done + 1
    <3>1. a \in Asset /\ job[j].done \in Nat /\ n <= Len(Writes(a))
      <4>1. a \in Asset /\ job[j].done \in Nat /\ job[j].done < Len(Writes(a))
        BY <2>4 DEF Write, At, JobOK
      <4>2. Len(Writes(a)) \in {4, 5}
        BY <4>1, WritesType
      <4> HIDE DEF a
      <4>3. QED BY <4>1, <4>2
    <3>2. local' = [local EXCEPT ![a] = @ \cup {Writes(a)[n]}]
      BY <2>4 DEF Write
    <3>3. \A i \in 1..job[j].done : Writes(a)[i] \in local[a]
      BY <2>4 DEF WrittenIsLocal, Write, At
    <3>4. \A i \in 1..n : Writes(a)[i] \in local'[a]
      <4>1. local[a] \subseteq local'[a] /\ Writes(a)[n] \in local'[a]
        BY <3>1, <3>2
      <4>2. ASSUME NEW i \in 1..n PROVE i = n \/ i \in 1..job[j].done
        BY <3>1
      <4> HIDE DEF a, n
      <4>3. QED BY <3>3, <4>1, <4>2
    <3>5. PICK r : job' = [job EXCEPT ![j] = r] /\ r.asset = a /\ r.done = n
      BY <2>4, WriteIs DEF TypeInv
    <3>6. \A x \in Asset : local[x] \subseteq local'[x]
      BY <3>1, <3>2
    <3>7. WrittenIsLocal'
      <4> HIDE DEF a, n
      <4>1. QED BY <3>1, <3>4, <3>5, <3>6, WrittenStays
    <3>8. MarkedIsUsable'
      <4> SUFFICES ASSUME NEW x \in Asset, Kind[x] = "data", Marker(x) \in local'[x]
                   PROVE  {"raw", "explorer"} \subseteq local'[x]
        BY DEF MarkedIsUsable
      <4>1. CASE Marker(x) \in local[x]
        BY <3>6, <4>1 DEF MarkedIsUsable
      <4>2. CASE Marker(x) \notin local[x]
        <5>1. x = a /\ Writes(a)[n] = "asset"
          BY <3>1, <3>2, <4>2 DEF Marker
        <5>2. Writes(a)[1] = "raw" /\ Writes(a)[2] = "explorer" /\ Writes(a)[4] = "policies"
              /\ Len(Writes(a)) = 4
          BY <3>1, <5>1, WritesType
        <5>3. n \in 1..4 /\ n \notin {1, 2}
          BY <3>1, <5>1, <5>2
        <5>4. 1 \in 1..n /\ 2 \in 1..n
          BY <5>3
        <5>5. QED BY <3>4, <5>1, <5>2, <5>4
      <4>3. QED BY <4>1, <4>2
    <3>9. QED BY <3>7, <3>8 DEF UsableInv
  <2>5. CASE SendSucceeded(j) \/ SendFailed(j) \/ SendFailedRaises(j)
    <3>1. PICK r : job' = [job EXCEPT ![j] = r] /\ r.at # "write"
      BY <2>5, ReturnIs DEF SendSucceeded, SendFailed, SendFailedRaises
    <3>2. local' = local
      BY <2>5 DEF SendSucceeded, SendFailed, SendFailedRaises
    <3>3. QED BY <1>1, <3>1, <3>2, WrittenStays DEF UsableInv
  <2>6. QED BY <1>3, <2>1, <2>2, <2>3, <2>4, <2>5 DEF Working
<1>4. CASE UNCHANGED vars
  BY <1>2, <1>4 DEF vars
<1>5. ASSUME NEW b \in Browser, Browsing(b) \/ \E a \in Asset : Browse(b, a)
      PROVE  UsableInv'
  BY <1>2, <1>5 DEF Browsing, FetchLocal, FetchRemote, Enqueue, FetchFails, Browse
<1>6. CASE Reload
  BY <1>2, <1>6 DEF Reload
<1>7. CASE Restart
  BY <1>1, <1>7 DEF Restart, WrittenIsLocal, IdleJob, UsableInv
<1>8. QED BY <1>3, <1>4, <1>5, <1>6, <1>7 DEF Next

\* In every behaviour: whatever fails, is cut by a restart or runs twice at once,
\* data whose asset document says that they are local are.
THEOREM NoMarkerWithoutData == Spec => []MarkedIsUsable
<1>1. Init => UsableInv
  BY DEF Init, UsableInv, WrittenIsLocal, MarkedIsUsable, IdleJob
<1>2. Init => TypeInv
  BY TypeInit
<1>3. TypeInv /\ [Next]_vars => TypeInv'
  BY TypeStep
<1>4. TypeInv /\ UsableInv /\ [Next]_vars => UsableInv'
  BY UsableStep
<1>5. UsableInv => MarkedIsUsable
  BY DEF UsableInv
<1>6. QED BY <1>1, <1>2, <1>3, <1>4, <1>5, PTL DEF Spec
=============================================================================
