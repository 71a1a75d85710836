------------------------------ MODULE Projects ------------------------------
(* The runs of the steps of a project (app/routers/projects), for a flow    *)
(* "build > cdn": "build" runs a command in the project and keeps the files *)
(* it produces as an artifact, "cdn" (PublishCdnLocalStep) zips the files   *)
(* of that artifact and publishes them in the local CDN.                    *)
(*                                                                          *)
(* A run is a task of its own, scheduled by a request that does not wait    *)
(* for it. Each action is what a run does between two awaits.               *)
(*                                                                          *)
(* Both steps of the model have something to compare: an artifact, or a     *)
(* published version. Of a step without artifacts the code compares the     *)
(* fingerprint alone, and reports OK also after a run that failed.          *)
EXTENDS Integers, FiniteSets

CONSTANTS
  MaxEdits,     \* bound on the changes of the sources of the project
  MaxRequests,  \* bound on the runs asked for by the user
  MaxRuns       \* bound on the runs in progress at once

ASSUME BoundsAssumption == MaxEdits \in Nat /\ MaxRequests \in Nat /\ MaxRuns \in Nat

VARIABLES
  source,     \* the version of the sources of the project
  dist,       \* the files that the last commands have left in the project
  artifact,   \* the files of the artifact of "build"
  manifest,   \* the manifest of the last recorded run of each step
  zip,        \* the file "cdn.zip" of the project
  package,    \* the published version: its files, and the stamp of its document
  running,    \* the cache "runningProjectSteps"
  stuck,      \* the marks of runs that have ended when their start was announced
  runs,       \* the tasks: what each is doing and what it has read
  requests,   \* the number of runs the user has asked for
  lapses,     \* the steps that ran while their inputs changed, or twice at once,
              \* or whose files were removed, copied or published half way
  mending     \* those of them of which a run has begun alone, and marked, and that
              \* nothing has disturbed since

ghosts == <<lapses, mending>>
vars == <<source, dist, artifact, manifest, zip, package, running, stuck, runs, requests, ghosts>>

Step  == {"build", "cdn"}
Run   == 1..MaxRuns
Stamp == 0..MaxRequests

\* Files made from a version of the sources; "mixed" when they are not all there or
\* not all from one run.
Version == 0..MaxEdits
Files   == [v : Version \cup {-1}, mixed : BOOLEAN]
NoFiles == [v |-> -1, mixed |-> FALSE]
Made(v) == [v |-> v, mixed |-> FALSE]

NoManifest == [kept |-> FALSE, fingerprint |-> 0, sources |-> NoFiles]
Idle == [step |-> "build", upstream |-> FALSE, at |-> "idle", ok |-> TRUE,
               seen |-> NoFiles, fingerprint |-> 0, sources |-> NoFiles]

TypeOK ==
  /\ source \in Version /\ requests \in 0..MaxRequests
  /\ {dist, artifact, zip, package.files} \subseteq Files
  /\ package.stamp \in Stamp
  /\ \A s \in Step : /\ manifest[s].kept \in BOOLEAN /\ manifest[s].fingerprint \in Stamp \cup Version
                     /\ manifest[s].sources \in Files
  /\ stuck \subseteq running /\ running \subseteq Step /\ mending \subseteq lapses /\ lapses \subseteq Step
  /\ \A r \in Run :
       LET t == runs[r]
       IN  /\ t.step \in Step /\ t.upstream \in BOOLEAN /\ t.ok \in BOOLEAN
           /\ t.at \in {"idle", "enter", "announce", "upstream", "execute", "command", "zip", "publish", "post",
                        "info", "check", "fingerprint", "listed", "record", "copy", "exit"}
           /\ t.at \in {"command", "copy"} => t.step = "build"
           /\ t.at \in {"zip", "publish", "post", "info", "check", "listed"} => t.step = "cdn"
           /\ {t.seen, t.sources} \subseteq Files
           /\ t.fingerprint \in Stamp \cup Version

Init ==
  /\ source = 0 /\ dist = NoFiles /\ artifact = NoFiles /\ zip = NoFiles
  /\ manifest = [s \in Step |-> NoManifest]
  /\ package = [files |-> NoFiles, stamp |-> 0]
  /\ running = {} /\ stuck = {} /\ requests = 0 /\ lapses = {} /\ mending = {}
  /\ runs = [r \in Run |-> Idle]

-----------------------------------------------------------------------------
(* The status of a step *)

\* get_status of the generic step: an artifact and the fingerprint of the sources.
StatusOfBuild ==
  IF ~manifest["build"].kept \/ artifact = NoFiles THEN "none"
  ELSE IF manifest["build"].fingerprint # source THEN "outdated"
  ELSE "OK"

\* get_status of PublishCdnLocalStep: the document of the published version and
\* the checksum of the files to publish.
StatusOfCdn ==
  IF ~manifest["cdn"].kept \/ package.stamp = 0 THEN "none"
  ELSE IF /\ manifest["cdn"].fingerprint = package.stamp
          /\ manifest["cdn"].sources = artifact
       THEN "OK" ELSE "outdated"

Status(s) ==
  IF s \in running THEN "running"
  ELSE IF s = "build" THEN StatusOfBuild
  ELSE StatusOfCdn

-----------------------------------------------------------------------------
(* The task of a run *)

Active(s) == {r \in Run : runs[r].step = s /\ runs[r].at # "idle"}
Now(r, at) == runs' = [runs EXCEPT ![r].at = at]
Failed(r)  ==
  runs' = [runs EXCEPT ![r] = [Idle EXCEPT !.step = runs[r].step, !.ok = FALSE,
                                                 !.at = "fingerprint"]]

\* A task for the step is scheduled in the table of tasks ts.
Scheduled(ts, s, up) ==
  LET r == CHOOSE x \in Run : ts[x].at = "idle" /\ \A y \in Run : y < x => ts[y].at # "idle"
  IN  [ts EXCEPT ![r] = [Idle EXCEPT !.step = s, !.upstream = up, !.at = "enter"]]

\* The runs that may still schedule another one.
Upstream == {r \in Run : runs[r].upstream /\ runs[r].at \in {"enter", "announce", "upstream"}}

\* The step, when a run of it is at one of these points: it has used its inputs and
\* has yet to compute their checksum.
Disturbed(s, points) == IF \E r \in Active(s) : runs[r].at \in points THEN {s} ELSE {}
BuildReads == Disturbed("build", {"command", "fingerprint"})
CdnReads   == Disturbed("cdn", {"zip", "publish", "post", "info", "check", "listed"})

\* Two runs of one step at once.
Overlaps(s) == IF Active(s) # {} THEN {s} ELSE {}

Lapse(S) == lapses' = lapses \cup S /\ mending' = mending \ S

\* The step, when it has lapsed and this run of it begins marked and alone.
Alone(r) == IF Active(runs[r].step) = {r} THEN running \cap {runs[r].step} \cap lapses ELSE {}

\* "build" has no upstream steps to ask for.
Request(s, up) ==
  /\ requests < MaxRequests
  /\ up => s = "cdn"
  /\ Cardinality(Active("build")) + Cardinality(Active("cdn")) + Cardinality(Upstream)
       + (IF up THEN 2 ELSE 1) <= MaxRuns
  /\ requests' = requests + 1
  /\ runs' = Scheduled(runs, s, up)
  /\ Lapse(Overlaps(s))
  /\ UNCHANGED <<source, dist, artifact, manifest, zip, package, running, stuck>>

Enter(r) ==
  /\ runs[r].at = "enter"
  /\ running' = running \cup {runs[r].step}
  /\ Now(r, "announce")
  /\ UNCHANGED <<source, dist, artifact, manifest, zip, package, stuck, requests, ghosts>>

\* The start is sent on the data web sockets. One that is closed raises, and nothing
\* is left of the run but its mark: what removes it is called when the body of the
\* run ends, and the body is not entered.
Announce(r) ==
  /\ runs[r].at = "announce"
  /\ \/ Now(r, IF runs[r].upstream THEN "upstream" ELSE "execute") /\ UNCHANGED stuck
     \/ /\ runs' = [runs EXCEPT ![r] = Idle]
        /\ stuck' = stuck \cup ({runs[r].step} \cap running)
  /\ UNCHANGED <<source, dist, artifact, manifest, zip, package, running, requests, ghosts>>

\* The upstream steps that are not OK are scheduled, and not waited for.
RunUpstream(r) ==
  /\ runs[r].at = "upstream"
  /\ LET parents == IF runs[r].step = "cdn" /\ Status("build") # "OK" THEN {"build"} ELSE {}
         on      == [runs EXCEPT ![r].at = "execute", ![r].upstream = FALSE]
     IN  IF parents = {}
         THEN runs' = on /\ UNCHANGED ghosts
         ELSE runs' = Scheduled(on, "build", TRUE) /\ Lapse(Overlaps("build"))
  /\ UNCHANGED <<source, dist, artifact, manifest, zip, package, running, stuck, requests>>

\* A status of an upstream step, or the start of the step, raises.
Raises(r) ==
  /\ runs[r].at \in {"upstream", "execute"}
  /\ Failed(r)
  /\ UNCHANGED <<source, dist, artifact, manifest, zip, package, running, stuck, requests, ghosts>>

-----------------------------------------------------------------------------
(* execute_run of "build": a command of the shell *)

StartCommand(r) ==
  /\ runs[r].at = "execute" /\ runs[r].step = "build"
  /\ dist' = [v |-> source, mixed |-> TRUE]
  /\ runs' = [runs EXCEPT ![r].at = "command", ![r].seen = dist']
  /\ mending' = mending \cup Alone(r)
  /\ UNCHANGED <<source, artifact, manifest, zip, package, running, stuck, requests, lapses>>

\* The files are complete when no other command is writing them.
EndCommand(r) ==
  /\ runs[r].at = "command"
  /\ \/ /\ dist' = IF \E o \in Run \ {r} : runs[o].at = "command"
                   THEN runs[r].seen ELSE Made(runs[r].seen.v)
        /\ runs' = [runs EXCEPT ![r].at = "fingerprint", ![r].seen = NoFiles]
     \/ Failed(r) /\ UNCHANGED dist
  /\ UNCHANGED <<source, artifact, manifest, zip, package, running, stuck, requests, ghosts>>

-----------------------------------------------------------------------------
(* execute_run of "cdn" *)

\* packaged_files: the files of the artifact, if there are any.
List(r) ==
  /\ runs[r].at = "execute" /\ runs[r].step = "cdn"
  /\ runs' = [runs EXCEPT ![r].at = "zip", ![r].seen = artifact]
  /\ mending' = mending \cup Alone(r)
  /\ UNCHANGED <<source, dist, artifact, manifest, zip, package, running, stuck, requests, lapses>>

\* A file that was listed and is gone raises; no file listed makes an empty zip.
CreateZip(r) ==
  /\ runs[r].at = "zip"
  /\ IF runs[r].seen # NoFiles /\ artifact = NoFiles
     THEN Failed(r) /\ UNCHANGED zip
     ELSE /\ zip' = IF runs[r].seen = NoFiles THEN NoFiles ELSE artifact
          /\ runs' = [runs EXCEPT ![r].at = "publish", ![r].seen = NoFiles]
  /\ UNCHANGED <<source, dist, artifact, manifest, package, running, stuck, requests, ghosts>>

\* The zip is read again from the project, and the files of the version are
\* removed before those of the zip are posted.
PublishClear(r) ==
  /\ runs[r].at = "publish"
  /\ \/ /\ zip # NoFiles
        /\ package' = [package EXCEPT !.files = NoFiles]
        /\ runs' = [runs EXCEPT ![r].at = "post", ![r].seen = zip]
     \/ Failed(r) /\ UNCHANGED package
  /\ UNCHANGED <<source, dist, artifact, manifest, zip, running, stuck, requests, ghosts>>

PublishPost(r) ==
  /\ runs[r].at = "post"
  /\ \/ /\ package' = [files |-> runs[r].seen, stamp |-> package.stamp + 1]
        /\ runs' = [runs EXCEPT ![r].at = "info", ![r].seen = NoFiles]
     \/ Failed(r) /\ UNCHANGED package
  /\ UNCHANGED <<source, dist, artifact, manifest, zip, running, stuck, requests, ghosts>>

VersionInfo(r) ==
  /\ runs[r].at = "info"
  /\ \/ runs' = [runs EXCEPT ![r].at = "check", ![r].fingerprint = package.stamp]
     \/ Failed(r)
  /\ UNCHANGED <<source, dist, artifact, manifest, zip, package, running, stuck, requests, ghosts>>

\* The checksum is that of the files as they are at the end of the run.
CheckSum(r) ==
  /\ runs[r].at = "check"
  /\ IF artifact = NoFiles
     THEN Failed(r)
     ELSE runs' = [runs EXCEPT ![r].at = "record", ![r].sources = artifact]
  /\ UNCHANGED <<source, dist, artifact, manifest, zip, package, running, stuck, requests, ghosts>>

-----------------------------------------------------------------------------
(* The end of a run *)

\* Without a fingerprint in the outputs it is computed, from the sources as they
\* are after the run; when it raises the run is not recorded.
Fingerprint(r) ==
  /\ runs[r].at = "fingerprint" /\ runs[r].step = "build"
  /\ \/ runs' = [runs EXCEPT ![r].at = "record", ![r].fingerprint = source]
     \/ Now(r, "exit")
  /\ UNCHANGED <<source, dist, artifact, manifest, zip, package, running, stuck, requests, ghosts>>

\* That of a publication that failed is no stamp of a package; it raises, and the
\* run is not recorded, when a file of the artifact goes between listing and reading.
ListAgain(r) ==
  /\ runs[r].at = "fingerprint" /\ runs[r].step = "cdn"
  /\ runs' = [runs EXCEPT ![r].at = "listed", ![r].seen = artifact]
  /\ UNCHANGED <<source, dist, artifact, manifest, zip, package, running, stuck, requests, ghosts>>

FingerprintOfFailed(r) ==
  /\ runs[r].at = "listed"
  /\ runs' = [runs EXCEPT ![r].seen = NoFiles,
                 ![r].at = IF runs[r].seen # NoFiles /\ artifact = NoFiles THEN "exit" ELSE "record"]
  /\ UNCHANGED <<source, dist, artifact, manifest, zip, package, running, stuck, requests, ghosts>>

Recorded(r) == [manifest EXCEPT ![runs[r].step] =
  [kept |-> TRUE, fingerprint |-> runs[r].fingerprint, sources |-> runs[r].sources]]

\* Mutant: the artifact is kept until the new files are copied over it.
RecordRunInPlace(r) ==
  /\ runs[r].at = "record"
  /\ LET t == runs[r]
     IN  /\ manifest' = Recorded(r)
         /\ lapses' = lapses \ (mending \cap {t.step}) /\ mending' = mending \ {t.step}
         /\ runs' = [runs EXCEPT ![r] = [Idle EXCEPT !.step = t.step, !.ok = t.ok,
                       !.at = IF t.ok /\ t.step = "build" THEN "copy" ELSE "exit"]]
  /\ UNCHANGED <<source, dist, artifact, zip, package, running, stuck, requests>>

\* Mutant: the artifacts are created whatever the step, also when it failed.
RecordRunThenCopy(r) ==
  /\ runs[r].at = "record"
  /\ manifest' = Recorded(r)
  /\ Now(r, "copy")
  /\ UNCHANGED <<source, dist, artifact, zip, package, running, stuck, requests, ghosts>>

\* The folder of the step is replaced: its artifact is gone. A run that nothing has
\* disturbed makes the step as good as new, whatever happened before.
RecordRun(r) ==
  /\ runs[r].at = "record"
  /\ LET t    == runs[r]
         gone == IF t.step = "build" THEN CdnReads ELSE {}
     IN  /\ manifest' = Recorded(r)
         /\ artifact' = IF t.step = "build" THEN NoFiles ELSE artifact
         /\ lapses' = (lapses \ (mending \cap {t.step})) \cup gone
         /\ mending' = mending \ (gone \cup {t.step})
         /\ runs' = [runs EXCEPT ![r] = [Idle EXCEPT !.step = t.step, !.ok = t.ok,
                       !.at = IF t.ok /\ t.step = "build" THEN "copy" ELSE "exit"]]
  /\ UNCHANGED <<source, dist, zip, package, running, stuck, requests>>

\* What the artifact may be when the removal of the folder of r, or the copy of its
\* files, stops half way.
Cut(r) ==
  IF runs[r].at = "copy" THEN {[dist EXCEPT !.mixed = TRUE]}
  ELSE IF runs[r].at = "record" /\ runs[r].step = "build" /\ artifact # NoFiles
  THEN {NoFiles, [artifact EXCEPT !.mixed = TRUE]} ELSE {}

\* The former manifest may be removed by then, and the new one not written or not to
\* the end; without a manifest that reads, no status is OK.
CutManifests(r) ==
  {manifest} \cup (IF runs[r].at = "record" THEN {[manifest EXCEPT ![runs[r].step] = NoManifest]} ELSE {})

\* A publication, or one that failed and is not recorded: the manifest is the former one.
HalfDone(t) == t.at = "post" \/ (t.step = "cdn" /\ ~t.ok)

\* The artifact is neither as it was nor gone.
Torn == IF artifact' \in {artifact, NoFiles} THEN {} ELSE {"build"}

\* The removal of the folder, or the writing of the manifest, raises.
RecordRaises(r) ==
  /\ runs[r].at = "record"
  /\ artifact' \in {artifact} \cup Cut(r)
  /\ manifest' \in CutManifests(r)
  /\ Lapse(Torn \cup (IF HalfDone(runs[r]) THEN {"cdn"} ELSE {})
              \cup (IF artifact' = artifact THEN {} ELSE CdnReads))
  /\ Now(r, "exit")
  /\ UNCHANGED <<source, dist, zip, package, running, stuck, requests>>

\* The files are copied one by one, under a manifest that is already written.
CreateArtifacts(r) ==
  /\ runs[r].at = "copy"
  /\ \/ artifact' = dist /\ Lapse(CdnReads)
     \/ artifact' \in {artifact} \cup Cut(r) /\ Lapse({"build"} \cup CdnReads)
  /\ Now(r, "exit")
  /\ UNCHANGED <<source, dist, manifest, zip, package, running, stuck, requests>>

\* Mutant: a run that failed leaves its mark.
ExitUnlessFailed(r) ==
  /\ runs[r].at = "exit"
  /\ running' = IF runs[r].ok THEN running \ {runs[r].step} ELSE running
  /\ stuck' = stuck \cap running' /\ mending' = mending \ {runs[r].step}
  /\ runs' = [runs EXCEPT ![r] = Idle]
  /\ UNCHANGED <<source, dist, artifact, manifest, zip, package, requests, lapses>>

Exit(r) ==
  /\ runs[r].at = "exit"
  /\ running' = running \ {runs[r].step}
  /\ stuck' = stuck \cap running' /\ mending' = mending \ {runs[r].step}
  /\ runs' = [runs EXCEPT ![r] = Idle]
  /\ UNCHANGED <<source, dist, artifact, manifest, zip, package, requests, lapses>>

-----------------------------------------------------------------------------
(* The developer, and the end of the process *)

Edit ==
  /\ source < MaxEdits
  /\ source' = source + 1
  /\ Lapse(BuildReads)
  /\ UNCHANGED <<dist, artifact, manifest, zip, package, running, stuck, runs, requests>>

\* The marks are in memory; a removal, a copy or a publication may have begun.
Kill ==
  /\ \E s \in Step : Active(s) # {}
  /\ runs' = [r \in Run |-> Idle]
  /\ running' = {} /\ stuck' = {} /\ mending' = {}
  /\ artifact' \in {artifact} \cup UNION {Cut(r) : r \in Run}
  /\ manifest' \in UNION {CutManifests(r) : r \in Run}
  /\ lapses' = lapses \cup Torn \cup (IF \E r \in Run : HalfDone(runs[r]) THEN {"cdn"} ELSE {})
  /\ UNCHANGED <<source, dist, zip, package, requests>>

-----------------------------------------------------------------------------

Progress(r) ==
  \/ Enter(r) \/ Announce(r) \/ RunUpstream(r) \/ Raises(r) \/ StartCommand(r) \/ EndCommand(r)
  \/ List(r) \/ CreateZip(r) \/ PublishClear(r) \/ PublishPost(r) \/ VersionInfo(r) \/ CheckSum(r)
  \/ Fingerprint(r) \/ ListAgain(r) \/ FingerprintOfFailed(r)
  \/ RecordRun(r) \/ RecordRaises(r) \/ CreateArtifacts(r) \/ Exit(r)

Next ==
  \/ \E s \in Step, up \in BOOLEAN : Request(s, up)
  \/ \E r \in Run : Progress(r)
  \/ Edit
  \/ Kill

Spec == Init /\ [][Next]_vars
FairSpec == Spec /\ \A r \in Run : WF_vars(Progress(r))

-----------------------------------------------------------------------------
(* Properties *)

\* What a step has produced is what its inputs would produce now.
InSync(s) ==
  IF s = "build" THEN artifact = Made(source) ELSE package.files = artifact

\* A step is reported OK only if what it has produced corresponds to its inputs as
\* they are, in whatever order the two steps are run and wherever they are killed. The
\* exceptions are a run of the step while its own inputs changed or another run of it
\* was in progress, and an artifact or a publication left half way, by a kill or by a
\* copy, a removal or a write that raised: the manifest is written before the files,
\* and the status looks at manifests, fingerprints and folders only. They last until
\* a run of the step that nothing disturbs is recorded.
OkIsInSync == \A s \in Step \ lapses : Status(s) = "OK" => InSync(s)

\* A step reported as running is eventually no longer so, however its runs end, unless
\* the announcement of the start of a run has failed: the mark of that run stays until
\* another run of the step ends.
MarksEnd == \A s \in Step : s \in running ~> (s \notin running \/ s \in stuck)
=============================================================================
