---------------------------- MODULE Projects_proofs ----------------------------
(* Proofs about Projects, for any number of edits, requests and runs at once. *)
EXTENDS Projects, FiniteSetTheorems, TLAPS

Points == {"idle", "enter", "announce", "upstream", "execute", "command", "zip", "publish", "post",
           "info", "check", "fingerprint", "listed", "record", "copy", "exit"}

Task == [step : Step, upstream : BOOLEAN, at : Points, ok : BOOLEAN, seen : Files,
         fingerprint : Stamp \cup Version, sources : Files]

Manifest == [kept : BOOLEAN, fingerprint : Stamp \cup Version, sources : Files]

\* Where nothing has failed yet.
Early == {"enter", "announce", "upstream", "execute", "command",
          "zip", "publish", "post", "info", "check"}

\* Where each step may be, and who still has parents to run.
TaskOK(t) ==
  /\ t.at \in Early => t.ok
  /\ t.at \in {"command", "copy"} => t.step = "build"
  /\ t.at \in {"zip", "publish", "post", "info", "check", "listed"} => t.step = "cdn"
  /\ t.at = "upstream" => t.upstream

\* The runs in progress, those of "cdn" that may schedule one of "build", and those
\* that may publish.
Busy    == {r \in Run : runs[r].at # "idle"}
Parents == {r \in Run : /\ runs[r].step = "cdn" /\ runs[r].upstream
                        /\ runs[r].at \in {"enter", "announce", "upstream"}}
Before     == {"enter", "announce", "upstream", "execute", "zip", "publish", "post"}
Publishing == {r \in Run : runs[r].step = "cdn" /\ runs[r].at \in Before}

\* There is a slot for each run that may be scheduled without a request, and a
\* request for each publication.
Room   == Cardinality(Busy) + Cardinality(Parents) <= MaxRuns
Stamps == package.stamp + Cardinality(Publishing) <= requests

FilesOK ==
  /\ source \in Version /\ requests \in 0..MaxRequests
  /\ dist \in Files /\ artifact \in Files /\ zip \in Files
  /\ package \in [files : Files, stamp : Nat]
  /\ manifest \in [Step -> Manifest]
  /\ stuck \subseteq running /\ running \subseteq Step
  /\ mending \subseteq lapses /\ lapses \subseteq Step

RunsOK ==
  /\ runs \in [Run -> Task]
  /\ \A r \in Run : TaskOK(runs[r])

TypeInv == FilesOK /\ RunsOK /\ Room /\ Stamps

-----------------------------------------------------------------------------
(* Lemmas about the operators *)

\* The files that are made, and the tasks and manifests that begin, are well typed.
LEMMA Makes ==
  /\ NoFiles \in Files /\ Idle \in Task /\ TaskOK(Idle) /\ NoManifest \in Manifest
  /\ \A v \in Version : Made(v) \in Files
  /\ \A f \in Files : Made(f.v) \in Files
  /\ \A v \in Version : [v |-> v, mixed |-> TRUE] \in Files
  /\ \A f \in Files : [f EXCEPT !.mixed = TRUE] \in Files
<1>1. 0 \in Stamp /\ -1 \in Version \cup {-1}
  BY BoundsAssumption DEF Stamp, Version
<1>2. NoFiles \in Files
  BY <1>1 DEF NoFiles, Files
<1>3. Idle \in Task /\ TaskOK(Idle)
  BY <1>1, <1>2 DEF Idle, Task, TaskOK, Step, Points, Early
<1>4. NoManifest \in Manifest
  BY <1>1, <1>2 DEF NoManifest, Manifest
<1>5. \A v \in Version \cup {-1} : Made(v) \in Files
  BY <1>1 DEF Made, Files
<1>6. \A f \in Files : f.v \in Version \cup {-1} /\ [f EXCEPT !.mixed = TRUE] \in Files
  BY DEF Files
<1> QED
  BY <1>2, <1>3, <1>4, <1>5, <1>6 DEF Files

\* A task that is scheduled.
Entered(s, up) == [Idle EXCEPT !.step = s, !.upstream = up, !.at = "enter"]

\* What a task is when it is scheduled.
LEMMA EnteredIs ==
  ASSUME NEW s \in Step, NEW up \in BOOLEAN
  PROVE  /\ Entered(s, up) \in Task /\ TaskOK(Entered(s, up))
         /\ Entered(s, up).step = s /\ Entered(s, up).upstream = up
         /\ Entered(s, up).at = "enter" /\ Entered(s, up).ok
         /\ Entered(s, up).fingerprint = 0
<1>1. Idle \in Task
  BY Makes
<1> QED
  BY <1>1 DEF Entered, Idle, Task, TaskOK, Points, Early

\* A run that failed.
Raised(r) == [Idle EXCEPT !.step = runs[r].step, !.ok = FALSE, !.at = "fingerprint"]

\* What the task of a run that failed has left to do: its fingerprint.
LEMMA RaisedIs ==
  ASSUME RunsOK, NEW r \in Run
  PROVE  /\ Raised(r) \in Task /\ TaskOK(Raised(r))
         /\ Raised(r).step = runs[r].step /\ Raised(r).at = "fingerprint"
         /\ ~Raised(r).upstream /\ ~Raised(r).ok /\ Raised(r).fingerprint = 0
<1>1. Idle \in Task /\ runs[r].step \in Step
  BY Makes DEF RunsOK, Task
<1> QED
  BY <1>1 DEF Raised, Idle, Task, TaskOK, Points, Early

\* Of the slots that are free one is the first.
LEMMA EarliestOf ==
  ASSUME NEW S \in SUBSET Nat, S # {}
  PROVE  \E x \in S : \A y \in S : x =< y
<1> DEFINE Upto == {0..x : x \in S}
<1>1. \A x \in S : x \in Nat /\ 0..x \in FiniteSubsetsOf(Nat)
  BY FS_Interval DEF FiniteSubsetsOf
<1>2. PICK T \in Upto : \A U \in Upto : <<U, T>> \notin StrictSubsetOrdering(Nat)
  <2>1. Upto \subseteq FiniteSubsetsOf(Nat) /\ Upto # {}
    BY <1>1
  <2> HIDE DEF Upto
  <2> QED
    BY <2>1, WFMin, FS_StrictSubsetOrderingWellFounded
<1>3. PICK x \in S : T = 0..x
  BY <1>2
<1>4. ASSUME NEW y \in S, y < x PROVE FALSE
  <2>1. 0..y \subseteq 0..x /\ x \in 0..x /\ x \notin 0..y
    BY <1>1, <1>4
  <2>2. <<0..y, 0..x>> \in StrictSubsetOrdering(Nat)
    BY <2>1 DEF StrictSubsetOrdering
  <2> QED
    BY <1>2, <1>3, <2>2
<1> QED
  BY <1>1, <1>4

\* A task is scheduled in the slot x.
Slot(ts, s, up, x) == Scheduled(ts, s, up) = [ts EXCEPT ![x] = Entered(s, up)]

\* A task is scheduled in a free slot, if there is one.
LEMMA FreeSlot ==
  ASSUME NEW ts \in [Run -> Task], NEW s, NEW up,
         NEW y \in Run, ts[y].at = "idle"
  PROVE  \E x \in Run : ts[x].at = "idle" /\ Slot(ts, s, up, x)
<1> DEFINE First(x) == ts[x].at = "idle" /\ \A z \in Run : z < x => ts[z].at # "idle"
           Free == {x \in Run : ts[x].at = "idle"}
<1>1. \E x \in Run : First(x)
  <2>1. Free \in SUBSET Nat /\ Free # {}
    BY DEF Run
  <2>2. PICK x \in Free : \A z \in Free : x =< z
    <3> HIDE DEF Free
    <3> QED
      BY <2>1, EarliestOf
  <2>3. ASSUME NEW z \in Run, z < x PROVE ts[z].at # "idle"
    BY <2>2, <2>3 DEF Run
  <2> QED
    BY <2>2, <2>3
<1>2. PICK x \in Run : x = CHOOSE c \in Run : First(c)
  BY <1>1
<1>3. First(x)
  BY <1>1, <1>2
<1> QED
  BY <1>2, <1>3 DEF Slot, Scheduled, Entered

\* The sets that are counted.
LEMMA Counted ==
  /\ IsFiniteSet(Run) /\ Cardinality(Run) = MaxRuns
  /\ \A S \in SUBSET Run : IsFiniteSet(S) /\ Cardinality(S) \in Nat
  /\ \A S, T \in SUBSET Run : S \subseteq T => Cardinality(S) <= Cardinality(T)
  /\ \A S \in SUBSET Run, x \in Run :
       /\ Cardinality(S \cup {x}) <= Cardinality(S) + 1
       /\ x \in S => Cardinality(S \ {x}) = Cardinality(S) - 1
<1>1. IsFiniteSet(Run) /\ Cardinality(Run) = MaxRuns
  BY FS_Interval, BoundsAssumption DEF Run
<1>2. \A S \in SUBSET Run : IsFiniteSet(S) /\ Cardinality(S) \in Nat
  BY <1>1, FS_Subset, FS_CardinalityType
<1>3. \A S, T \in SUBSET Run : S \subseteq T => Cardinality(S) <= Cardinality(T)
  BY <1>2, FS_Subset
<1>4. ASSUME NEW S \in SUBSET Run, NEW x \in Run
      PROVE  /\ Cardinality(S \cup {x}) <= Cardinality(S) + 1
             /\ x \in S => Cardinality(S \ {x}) = Cardinality(S) - 1
  BY <1>2, FS_AddElement, FS_RemoveElement
<1> QED
  BY <1>1, <1>2, <1>3, <1>4

-----------------------------------------------------------------------------
(* Types *)

\* A run in progress that goes on: what is not counted becomes nothing counted.
LEMMA TaskMoves ==
  ASSUME RunsOK, Room, NEW r \in Run, NEW q \in Task, runs' = [runs EXCEPT ![r] = q],
         TaskOK(q), runs[r].at # "idle", q.at \notin {"idle", "enter"},
         q.step = runs[r].step, q.upstream => runs[r].upstream,
         q.at = "upstream" => runs[r].at = "announce",
         q.at = "announce" => runs[r].at = "enter"
  PROVE  /\ RunsOK' /\ Room'
         /\ (q.at \in Before => runs[r].at \in Before) => Publishing' \subseteq Publishing
         /\ q.at \notin Before => Publishing' = Publishing \ {r}
<1>1. /\ runs'[r] = q /\ \A x \in Run : x # r => runs'[x] = runs[x]
      /\ runs' \in [Run -> Task]
  BY DEF RunsOK
<1>2. RunsOK'
  BY <1>1 DEF RunsOK
<1>3. Busy' = Busy
  BY <1>1 DEF Busy
<1>4. Parents' \subseteq Parents
  BY <1>1 DEF Parents
<1>5. Room'
  <2>1. Parents' \in SUBSET Run /\ Parents \in SUBSET Run /\ Busy \in SUBSET Run
    BY DEF Parents, Busy
  <2> QED
    BY <1>3, <1>4, <2>1, Counted, BoundsAssumption DEF Room
<1> QED
  BY <1>1, <1>2, <1>5 DEF Publishing

\* The stamp and the counts, when nothing is published.
LEMMA StampsKept ==
  ASSUME FilesOK, Stamps, Publishing' \subseteq Publishing,
         package'.stamp = package.stamp, requests' = requests
  PROVE  Stamps'
<1>1. Publishing' \in SUBSET Run /\ Publishing \in SUBSET Run
  BY DEF Publishing
<1> QED
  BY <1>1, Counted DEF Stamps, FilesOK

\* A run that fails.
LEMMA FailedTypes ==
  ASSUME RunsOK, Room, NEW r \in Run, runs[r].at # "idle", Failed(r)
  PROVE  RunsOK' /\ Room' /\ Publishing' \subseteq Publishing
<1> DEFINE q == Raised(r)
<1>1. runs' = [runs EXCEPT ![r] = q]
  BY DEF Failed, Raised
<1>2. /\ q \in Task /\ TaskOK(q) /\ q.step = runs[r].step /\ q.at = "fingerprint" /\ ~q.upstream
  BY RaisedIs
<1> HIDE DEF q
<1> QED
  BY <1>1, <1>2, TaskMoves DEF Before

\* A request finds a free slot, and leaves one for the run that its task may schedule.
LEMMA RequestSlot ==
  ASSUME TypeInv, NEW s \in Step, NEW up \in BOOLEAN, Request(s, up)
  PROVE  /\ Cardinality(Busy) \in Nat /\ Cardinality(Parents) \in Nat
         /\ Cardinality(Busy) + Cardinality(Parents) + (IF up THEN 2 ELSE 1) <= MaxRuns
         /\ \E x \in Run : runs[x].at = "idle" /\ runs' = [runs EXCEPT ![x] = Entered(s, up)]
<1>1. /\ Active("build") \in SUBSET Run /\ Active("cdn") \in SUBSET Run
      /\ Upstream \in SUBSET Run /\ Parents \in SUBSET Run /\ Parents \subseteq Upstream
      /\ Busy = Active("build") \cup Active("cdn") /\ Active("build") \cap Active("cdn") = {}
  BY DEF Active, Upstream, Parents, Busy, TypeInv, RunsOK, Task, Step
<1>2. /\ Cardinality(Busy) \in Nat /\ Cardinality(Parents) \in Nat
      /\ Cardinality(Busy) + Cardinality(Parents) + (IF up THEN 2 ELSE 1) <= MaxRuns
  <2>1. Cardinality(Busy) = Cardinality(Active("build")) + Cardinality(Active("cdn"))
    <3>1. IsFiniteSet(Active("build")) /\ IsFiniteSet(Active("cdn"))
      BY <1>1, Counted
    <3>2. /\ Cardinality(Active("build")) \in Nat /\ Cardinality(Active("cdn")) \in Nat
          /\ Cardinality(Active("build") \cap Active("cdn")) = 0
      BY <1>1, Counted, FS_EmptySet
    <3>3. Cardinality(Active("build") \cup Active("cdn"))
            = Cardinality(Active("build")) + Cardinality(Active("cdn"))
                - Cardinality(Active("build") \cap Active("cdn"))
      BY <3>1, FS_Union
    <3> QED
      BY <1>1, <3>2, <3>3
  <2>2. Cardinality(Parents) <= Cardinality(Upstream)
    BY <1>1, Counted
  <2>3. /\ Cardinality(Busy) \in Nat /\ Cardinality(Parents) \in Nat
        /\ Cardinality(Upstream) \in Nat /\ Cardinality(Active("build")) \in Nat
        /\ Cardinality(Active("cdn")) \in Nat
    BY <1>1, Counted
  <2>4. Cardinality(Active("build")) + Cardinality(Active("cdn")) + Cardinality(Upstream)
          + (IF up THEN 2 ELSE 1) <= MaxRuns
    BY DEF Request
  <2> QED
    BY <2>1, <2>2, <2>3, <2>4, BoundsAssumption
<1>3. PICK y \in Run : runs[y].at = "idle"
  <2>1. Busy # Run
    BY <1>2, Counted, BoundsAssumption
  <2> QED
    BY <2>1 DEF Busy
<1>4. runs \in [Run -> Task]
  BY DEF TypeInv, RunsOK
<1>5. PICK x \in Run : runs[x].at = "idle" /\ Slot(runs, s, up, x)
  BY <1>3, <1>4, FreeSlot
<1> QED
  BY <1>2, <1>5 DEF Request, Slot

\* A request takes a slot, and one more if its task may schedule another.
LEMMA RequestTypes ==
  ASSUME TypeInv, NEW s \in Step, NEW up \in BOOLEAN, Request(s, up)
  PROVE  TypeInv'
<1>1. /\ requests \in Nat /\ requests < MaxRequests /\ requests' = requests + 1
      /\ requests' \in 0..MaxRequests
  BY BoundsAssumption DEF Request, TypeInv, FilesOK, ghosts
<1>2. FilesOK'
  BY <1>1 DEF Request, Lapse, TypeInv, FilesOK, Overlaps
<1>3. /\ Cardinality(Busy) \in Nat /\ Cardinality(Parents) \in Nat
      /\ Cardinality(Busy) + Cardinality(Parents) + (IF up THEN 2 ELSE 1) <= MaxRuns
  BY RequestSlot
<1>4. PICK x \in Run : runs[x].at = "idle" /\ runs' = [runs EXCEPT ![x] = Entered(s, up)]
  BY RequestSlot
<1>5. /\ runs'[x] = Entered(s, up) /\ \A z \in Run : z # x => runs'[z] = runs[z]
      /\ runs' \in [Run -> Task]
  BY <1>4, EnteredIs DEF TypeInv, RunsOK
<1>6. RunsOK'
  BY <1>5, EnteredIs DEF TypeInv, RunsOK
<1>7. Busy' \subseteq Busy \cup {x} /\ Publishing' \subseteq Publishing \cup {x}
      /\ Parents' \subseteq IF up THEN Parents \cup {x} ELSE Parents
  BY <1>5, EnteredIs DEF Busy, Publishing, Parents
<1>8. Busy' \in SUBSET Run /\ Publishing' \in SUBSET Run /\ Parents' \in SUBSET Run
       /\ Busy \in SUBSET Run /\ Publishing \in SUBSET Run /\ Parents \in SUBSET Run
  BY DEF Busy, Publishing, Parents
<1>9. /\ Cardinality(Busy') <= Cardinality(Busy) + 1
       /\ Cardinality(Publishing') <= Cardinality(Publishing) + 1
       /\ Cardinality(Parents') <= Cardinality(Parents) + (IF up THEN 1 ELSE 0)
       /\ Cardinality(Busy') \in Nat /\ Cardinality(Publishing') \in Nat
       /\ Cardinality(Parents') \in Nat /\ Cardinality(Publishing) \in Nat
  <2>1. /\ Busy \cup {x} \in SUBSET Run /\ Publishing \cup {x} \in SUBSET Run
        /\ Parents \cup {x} \in SUBSET Run
    BY <1>8
  <2>2. /\ Cardinality(Busy \cup {x}) <= Cardinality(Busy) + 1
        /\ Cardinality(Publishing \cup {x}) <= Cardinality(Publishing) + 1
        /\ Cardinality(Parents \cup {x}) <= Cardinality(Parents) + 1
    BY <1>8, Counted
  <2>3. /\ Cardinality(Busy') <= Cardinality(Busy \cup {x})
        /\ Cardinality(Publishing') <= Cardinality(Publishing \cup {x})
        /\ Cardinality(Parents') <= IF up THEN Cardinality(Parents \cup {x}) ELSE Cardinality(Parents)
    BY <1>7, <1>8, <2>1, Counted
  <2>4. \A S \in {Busy', Publishing', Parents', Publishing, Busy, Parents, Busy \cup {x},
                  Publishing \cup {x}, Parents \cup {x}} : Cardinality(S) \in Nat
    BY <1>8, <2>1, Counted
  <2> QED
    BY <2>2, <2>3, <2>4
<1>10. Room'
  BY <1>3, <1>9, BoundsAssumption DEF Room
<1>11. Stamps'
  <2>1. package' = package /\ package.stamp \in Nat
    BY DEF Request, TypeInv, FilesOK, ghosts
  <2> QED
    BY <1>1, <1>9, <2>1 DEF Stamps, TypeInv
<1> QED
  BY <1>2, <1>6, <1>10, <1>11 DEF TypeInv

\* The context of a run keeps its place among the tasks.
LEMMA EnterTypes ==
  ASSUME TypeInv, NEW r \in Run, Enter(r)
  PROVE  TypeInv'
<1> DEFINE q == [runs[r] EXCEPT !.at = "announce"]
<1>1. runs[r] \in Task /\ TaskOK(runs[r]) /\ runs[r].at = "enter"
  BY DEF TypeInv, RunsOK, Enter
<1>2. runs' = [runs EXCEPT ![r] = q]
  BY DEF Enter, Now, TypeInv, RunsOK
<1>3. /\ q \in Task /\ TaskOK(q) /\ q.step = runs[r].step /\ q.upstream = runs[r].upstream
      /\ q.at = "announce"
  BY <1>1 DEF Task, TaskOK, Points, Early
<1> HIDE DEF q
<1>4. RunsOK' /\ Room' /\ Publishing' \subseteq Publishing
  BY <1>1, <1>2, <1>3, TaskMoves DEF TypeInv, Before
<1>5. FilesOK'
  BY <1>1 DEF Enter, TypeInv, FilesOK, ghosts, Task
<1>6. Stamps'
  BY <1>4, StampsKept DEF Enter, TypeInv
<1> QED
  BY <1>4, <1>5, <1>6 DEF TypeInv

\* A task that schedules the parent of its step finds the slot kept for it.
LEMMA UpstreamSlot ==
  ASSUME TypeInv, NEW r \in Run, runs[r].at = "upstream", runs[r].step = "cdn",
         NEW q \in Task, q.at # "idle", NEW on, on = [runs EXCEPT ![r] = q]
  PROVE  \E x \in Run : on[x].at = "idle" /\ Slot(on, "build", TRUE, x)
<1>1. runs \in [Run -> Task] /\ runs[r].upstream
  BY DEF TypeInv, RunsOK, TaskOK
<1>2. r \in Parents /\ Busy \in SUBSET Run /\ Parents \in SUBSET Run
  BY <1>1 DEF Busy, Parents
<1>3. /\ Cardinality(Parents \ {r}) = Cardinality(Parents) - 1
      /\ Cardinality(Parents) \in Nat /\ Cardinality(Parents \ {r}) \in Nat
      /\ Cardinality(Busy) \in Nat
  BY <1>2, Counted
<1>4. PICK y \in Run : runs[y].at = "idle"
  <2>1. Cardinality(Busy) < MaxRuns
    BY <1>3, BoundsAssumption DEF TypeInv, Room
  <2>2. Busy # Run
    BY <2>1, Counted, BoundsAssumption
  <2> QED
    BY <2>2 DEF Busy
<1>5. on \in [Run -> Task] /\ on[y].at = "idle"
  BY <1>1, <1>4
<1> QED
  BY <1>5, FreeSlot

\* The run that schedules another one gives up the slot kept for it.
LEMMA RunUpstreamTypes ==
  ASSUME TypeInv, NEW r \in Run, RunUpstream(r)
  PROVE  TypeInv'
<1> DEFINE q  == [runs[r] EXCEPT !.at = "execute", !.upstream = FALSE]
           on == [runs EXCEPT ![r] = q]
<1>1. /\ runs[r] \in Task /\ TaskOK(runs[r]) /\ runs[r].at = "upstream" /\ runs[r].upstream
      /\ runs \in [Run -> Task]
  BY DEF TypeInv, RunsOK, RunUpstream, TaskOK
<1>2. /\ q \in Task /\ TaskOK(q) /\ q.step = runs[r].step /\ ~q.upstream /\ q.at = "execute"
  BY <1>1 DEF Task, TaskOK, Points, Early
<1>3. [runs EXCEPT ![r].at = "execute", ![r].upstream = FALSE] = on
  BY <1>1
<1>4. FilesOK'
  BY DEF RunUpstream, Lapse, TypeInv, FilesOK, ghosts, Overlaps, Step
<1>5. CASE runs' = on
  <2> HIDE DEF q
  <2>1. RunsOK' /\ Room' /\ Publishing' \subseteq Publishing
    BY <1>1, <1>2, <1>5, TaskMoves DEF TypeInv, Before
  <2>2. Stamps'
    BY <2>1, StampsKept DEF RunUpstream, TypeInv
  <2> QED
    BY <1>4, <2>1, <2>2 DEF TypeInv
<1>7. on = [runs EXCEPT ![r] = q]
  OBVIOUS
<1>6. CASE runs[r].step = "cdn" /\ runs' = Scheduled(on, "build", TRUE)
  <2> HIDE DEF q
  <2>1. on \in [Run -> Task] /\ on[r] = q /\ \A z \in Run : z # r => on[z] = runs[z]
    BY <1>1, <1>2
  <2>2. /\ r \in Busy /\ r \in Parents
        /\ Busy \in SUBSET Run /\ Parents \in SUBSET Run /\ Publishing \in SUBSET Run
    BY <1>1, <1>6 DEF Busy, Parents, Publishing
  <2>3. /\ Cardinality(Parents \ {r}) = Cardinality(Parents) - 1
        /\ Cardinality(Parents) \in Nat /\ Cardinality(Parents \ {r}) \in Nat
        /\ Cardinality(Busy) \in Nat
    BY <2>2, Counted
  <2>5. PICK x \in Run : on[x].at = "idle" /\ runs' = [on EXCEPT ![x] = Entered("build", TRUE)]
    <3>1. PICK x \in Run : on[x].at = "idle" /\ Slot(on, "build", TRUE, x)
      <4> HIDE DEF on
      <4> QED
        BY <1>1, <1>2, <1>6, <1>7, UpstreamSlot
    <3> QED
      BY <1>6, <3>1 DEF Slot
  <2>6. x # r /\ runs[x].at = "idle"
    BY <1>2, <2>1, <2>5
  <2>7. /\ Entered("build", TRUE) \in Task /\ TaskOK(Entered("build", TRUE))
        /\ Entered("build", TRUE).step = "build" /\ Entered("build", TRUE).at = "enter"
    BY EnteredIs DEF Step
  <2>8. /\ runs'[x] = Entered("build", TRUE) /\ runs'[r] = q
        /\ \A z \in Run : z \notin {x, r} => runs'[z] = runs[z]
        /\ runs' \in [Run -> Task]
    BY <2>1, <2>5, <2>6, <2>7
  <2>9. RunsOK'
    BY <1>2, <2>7, <2>8 DEF RunsOK, TypeInv
  <2>10. /\ Busy' = Busy \cup {x} /\ Parents' = Parents \ {r}
         /\ Publishing' \subseteq Publishing
    <3>1. Busy' = Busy \cup {x}
      BY <1>1, <1>2, <2>6, <2>7, <2>8 DEF Busy
    <3>2. Parents' = Parents \ {r}
      BY <1>1, <1>2, <2>6, <2>7, <2>8 DEF Parents
    <3>3. Publishing' \subseteq Publishing
      BY <1>1, <1>2, <2>6, <2>7, <2>8 DEF Publishing, Before
    <3> QED
      BY <3>1, <3>2, <3>3
  <2>11. Room'
    <3>1. Cardinality(Busy \cup {x}) <= Cardinality(Busy) + 1 /\ Cardinality(Busy \cup {x}) \in Nat
      <4>1. Busy \cup {x} \in SUBSET Run
        BY <2>2
      <4> QED
        BY <2>2, <4>1, Counted
    <3> QED
      BY <2>3, <2>10, <3>1, BoundsAssumption DEF Room, TypeInv
  <2>12. Stamps'
    BY <2>10, StampsKept DEF RunUpstream, TypeInv
  <2> QED
    BY <1>4, <2>9, <2>11, <2>12 DEF TypeInv
<1> QED
  BY <1>3, <1>5, <1>6 DEF RunUpstream

\* A run that goes on, or fails, while nothing is published nor asked for.
LEMMA GoesOn ==
  ASSUME TypeInv, NEW r \in Run, NEW q \in Task, runs' = [runs EXCEPT ![r] = q],
         TaskOK(q), runs[r].at # "idle", q.at \notin {"idle", "enter", "announce", "upstream"},
         q.step = runs[r].step, q.upstream => runs[r].upstream,
         q.at \in Before => runs[r].at \in Before,
         package'.stamp = package.stamp, requests' = requests
  PROVE  RunsOK' /\ Room' /\ Stamps'
<1>1. RunsOK' /\ Room' /\ Publishing' \subseteq Publishing
  BY TaskMoves DEF TypeInv
<1> QED
  BY <1>1, StampsKept DEF TypeInv

\* The same, for a run that fails.
LEMMA FailedGoesOn ==
  ASSUME TypeInv, NEW r \in Run, runs[r].at # "idle", Failed(r),
         package'.stamp = package.stamp, requests' = requests
  PROVE  RunsOK' /\ Room' /\ Stamps'
<1>1. RunsOK' /\ Room' /\ Publishing' \subseteq Publishing
  BY FailedTypes DEF TypeInv
<1> QED
  BY <1>1, StampsKept DEF TypeInv

\* What is known of a run in progress.
LEMMA TaskIs ==
  ASSUME TypeInv, NEW r \in Run
  PROVE  /\ runs[r] \in Task /\ TaskOK(runs[r])
         /\ runs[r].step \in Step /\ runs[r].at \in Points /\ runs[r].seen \in Files
         /\ runs[r].sources \in Files /\ runs[r].fingerprint \in Stamp \cup Version
  BY DEF TypeInv, RunsOK, Task

\* A run that begins alone is that of a step that has lapsed.
LEMMA AloneIs ==
  \A r \in Run : Alone(r) \subseteq lapses /\ Alone(r) \subseteq {runs[r].step}
BY DEF Alone

\* The command of "build", and its fingerprint, keep the types.
LEMMA BuildTypes ==
  ASSUME TypeInv, NEW r \in Run, StartCommand(r) \/ EndCommand(r) \/ Fingerprint(r)
  PROVE  TypeInv'
<1>1. runs[r] \in Task /\ TaskOK(runs[r]) /\ runs[r].seen \in Files /\ runs \in [Run -> Task]
  BY TaskIs DEF TypeInv, RunsOK
<1>2. source \in Version /\ dist \in Files
  BY DEF TypeInv, FilesOK, ghosts
<1>3. CASE StartCommand(r)
  <2>1. PICK f \in Files : f = [v |-> source, mixed |-> TRUE]
    BY <1>2, Makes
  <2> DEFINE q == [runs[r] EXCEPT !.at = "command", !.seen = f]
  <2>2. runs' = [runs EXCEPT ![r] = q] /\ dist' = f /\ runs[r].at = "execute" /\ runs[r].step = "build"
    BY <1>1, <1>3, <2>1 DEF StartCommand
  <2>3. /\ q \in Task /\ TaskOK(q) /\ q.step = runs[r].step /\ q.at = "command"
        /\ q.upstream = runs[r].upstream
    BY <1>1, <2>2 DEF Task, TaskOK, Points, Early
  <2> HIDE DEF q
  <2>4. FilesOK'
    BY <1>3, <2>2, AloneIs DEF StartCommand, TypeInv, FilesOK, ghosts
  <2>5. RunsOK' /\ Room' /\ Stamps'
    BY <1>3, <2>2, <2>3, GoesOn DEF StartCommand, Before
  <2> QED
    BY <2>4, <2>5 DEF TypeInv
<1>4. CASE EndCommand(r)
  <2>1. runs[r].at = "command"
    BY <1>4 DEF EndCommand
  <2>2. CASE Failed(r) /\ UNCHANGED dist
    <3>1. FilesOK'
      BY <1>4, <2>2 DEF EndCommand, TypeInv, FilesOK, ghosts
    <3>2. RunsOK' /\ Room' /\ Stamps'
      BY <1>4, <2>1, <2>2, FailedGoesOn DEF EndCommand
    <3> QED
      BY <3>1, <3>2 DEF TypeInv
  <2>3. CASE /\ dist' \in {runs[r].seen, Made(runs[r].seen.v)}
             /\ runs' = [runs EXCEPT ![r].at = "fingerprint", ![r].seen = NoFiles]
    <3> DEFINE q == [runs[r] EXCEPT !.at = "fingerprint", !.seen = NoFiles]
    <3>1. runs' = [runs EXCEPT ![r] = q]
      BY <1>1, <2>3
    <3>2. /\ q \in Task /\ TaskOK(q) /\ q.step = runs[r].step /\ q.at = "fingerprint"
          /\ q.upstream = runs[r].upstream
      BY <1>1, <2>1, Makes DEF Task, TaskOK, Points, Early
    <3> HIDE DEF q
    <3>3. dist' \in Files
      BY <1>1, <2>3, Makes
    <3>4. FilesOK'
      BY <1>4, <3>3 DEF EndCommand, TypeInv, FilesOK, ghosts
    <3>5. RunsOK' /\ Room' /\ Stamps'
      BY <1>4, <2>1, <3>1, <3>2, GoesOn DEF EndCommand, Before
    <3> QED
      BY <3>4, <3>5 DEF TypeInv
  <2> QED
    BY <1>4, <2>2, <2>3 DEF EndCommand
<1>5. CASE Fingerprint(r) /\ Now(r, "exit")
  <2> DEFINE q == [runs[r] EXCEPT !.at = "exit"]
  <2>1. runs' = [runs EXCEPT ![r] = q] /\ runs[r].at = "fingerprint"
    BY <1>1, <1>5 DEF Fingerprint, Now
  <2>2. /\ q \in Task /\ TaskOK(q) /\ q.step = runs[r].step /\ q.at = "exit"
        /\ q.upstream = runs[r].upstream
    BY <1>1 DEF Task, TaskOK, Points, Early
  <2> HIDE DEF q
  <2>3. FilesOK'
    BY <1>5 DEF Fingerprint, TypeInv, FilesOK, ghosts
  <2>4. RunsOK' /\ Room' /\ Stamps'
    BY <1>5, <2>1, <2>2, GoesOn DEF Fingerprint, Before
  <2> QED
    BY <2>3, <2>4 DEF TypeInv
<1>6. CASE Fingerprint(r) /\ ~Now(r, "exit")
  <2> DEFINE q == [runs[r] EXCEPT !.at = "record", !.fingerprint = source]
  <2>1. runs' = [runs EXCEPT ![r] = q] /\ runs[r].at = "fingerprint"
    BY <1>1, <1>6 DEF Fingerprint
  <2>2. /\ q \in Task /\ TaskOK(q) /\ q.step = runs[r].step /\ q.at = "record"
        /\ q.upstream = runs[r].upstream
    BY <1>1, <1>2 DEF Task, TaskOK, Points, Early
  <2> HIDE DEF q
  <2>3. FilesOK'
    BY <1>6 DEF Fingerprint, TypeInv, FilesOK, ghosts
  <2>4. RunsOK' /\ Room' /\ Stamps'
    BY <1>6, <2>1, <2>2, GoesOn DEF Fingerprint, Before
  <2> QED
    BY <2>3, <2>4 DEF TypeInv
<1> QED
  BY <1>3, <1>4, <1>5, <1>6

\* The stamp of the package is one that requests account for.
LEMMA StampIs ==
  ASSUME TypeInv
  PROVE  package.stamp \in Stamp /\ package.files \in Files
<1>1. Publishing \in SUBSET Run
  BY DEF Publishing
<1>2. Cardinality(Publishing) \in Nat
  BY <1>1, Counted
<1> QED
  BY <1>2, BoundsAssumption DEF TypeInv, FilesOK, ghosts, Stamps, Stamp

\* The steps of "cdn" that publish nothing yet keep the types.
LEMMA CdnTypes ==
  ASSUME TypeInv, NEW r \in Run,
         \/ List(r) \/ CreateZip(r) \/ PublishClear(r) \/ VersionInfo(r)
         \/ CheckSum(r) \/ ListAgain(r) \/ FingerprintOfFailed(r)
  PROVE  TypeInv'
<1> DEFINE Fails ==
             /\ Failed(r) /\ runs[r].at # "idle"
             /\ UNCHANGED <<source, dist, artifact, manifest, zip, package, running, stuck, requests, ghosts>>
<1>1. /\ runs[r] \in Task /\ TaskOK(runs[r]) /\ runs[r].seen \in Files /\ runs \in [Run -> Task]
      /\ artifact \in Files /\ zip \in Files /\ NoFiles \in Files
      /\ package.stamp \in Stamp /\ package.files \in Files
  BY TaskIs, Makes, StampIs DEF TypeInv, RunsOK, FilesOK
<1>2. CASE Fails
  <2>1. FilesOK'
    BY <1>2 DEF TypeInv, FilesOK, ghosts
  <2>2. RunsOK' /\ Room' /\ Stamps'
    BY <1>2, FailedGoesOn
  <2> QED
    BY <2>1, <2>2 DEF TypeInv
<1>3. CASE List(r)
  <2> DEFINE q == [runs[r] EXCEPT !.at = "zip", !.seen = artifact]
  <2>1. runs' = [runs EXCEPT ![r] = q] /\ runs[r].at = "execute" /\ runs[r].step = "cdn"
    BY <1>1, <1>3 DEF List
  <2>2. /\ q \in Task /\ TaskOK(q) /\ q.step = runs[r].step /\ q.at = "zip"
        /\ q.upstream = runs[r].upstream
    BY <1>1, <2>1 DEF Task, TaskOK, Points, Early
  <2> HIDE DEF q
  <2>3. FilesOK' /\ package'.stamp = package.stamp
    BY <1>1, <1>3, AloneIs DEF List, TypeInv, FilesOK
  <2>4. RunsOK' /\ Room' /\ Stamps'
    BY <1>3, <2>1, <2>2, <2>3, GoesOn DEF List, Before
  <2> QED
    BY <2>3, <2>4 DEF TypeInv
<1>4. CASE CreateZip(r) /\ ~Fails
  <2> DEFINE q == [runs[r] EXCEPT !.at = "publish", !.seen = NoFiles]
  <2>1. runs' = [runs EXCEPT ![r] = q] /\ runs[r].at = "zip"
    BY <1>1, <1>4 DEF CreateZip
  <2>2. /\ q \in Task /\ TaskOK(q) /\ q.step = runs[r].step /\ q.at = "publish"
        /\ q.upstream = runs[r].upstream
    BY <1>1, <2>1 DEF Task, TaskOK, Points, Early
  <2> HIDE DEF q
  <2>3. FilesOK' /\ package'.stamp = package.stamp
    BY <1>1, <1>4 DEF CreateZip, TypeInv, FilesOK, ghosts
  <2>4. RunsOK' /\ Room' /\ Stamps'
    BY <1>4, <2>1, <2>2, <2>3, GoesOn DEF CreateZip, Before
  <2> QED
    BY <2>3, <2>4 DEF TypeInv
<1>5. CASE PublishClear(r) /\ ~Fails
  <2> DEFINE q == [runs[r] EXCEPT !.at = "post", !.seen = zip]
  <2>1. runs' = [runs EXCEPT ![r] = q] /\ runs[r].at = "publish"
    BY <1>1, <1>5 DEF PublishClear
  <2>2. /\ q \in Task /\ TaskOK(q) /\ q.step = runs[r].step /\ q.at = "post"
        /\ q.upstream = runs[r].upstream
    BY <1>1, <2>1 DEF Task, TaskOK, Points, Early
  <2> HIDE DEF q
  <2>3. FilesOK' /\ package'.stamp = package.stamp
    BY <1>1, <1>5 DEF PublishClear, TypeInv, FilesOK, ghosts
  <2>4. RunsOK' /\ Room' /\ Stamps'
    BY <1>5, <2>1, <2>2, <2>3, GoesOn DEF PublishClear, Before
  <2> QED
    BY <2>3, <2>4 DEF TypeInv
<1>6. CASE VersionInfo(r) /\ ~Fails
  <2> DEFINE q == [runs[r] EXCEPT !.at = "check", !.fingerprint = package.stamp]
  <2>1. runs' = [runs EXCEPT ![r] = q] /\ runs[r].at = "info"
    BY <1>1, <1>6 DEF VersionInfo
  <2>2. /\ q \in Task /\ TaskOK(q) /\ q.step = runs[r].step /\ q.at = "check"
        /\ q.upstream = runs[r].upstream
    BY <1>1, <2>1 DEF Task, TaskOK, Points, Early
  <2> HIDE DEF q
  <2>3. FilesOK' /\ package'.stamp = package.stamp
    BY <1>1, <1>6 DEF VersionInfo, TypeInv, FilesOK, ghosts
  <2>4. RunsOK' /\ Room' /\ Stamps'
    BY <1>6, <2>1, <2>2, <2>3, GoesOn DEF VersionInfo, Before
  <2> QED
    BY <2>3, <2>4 DEF TypeInv
<1>7. CASE CheckSum(r) /\ ~Fails
  <2> DEFINE q == [runs[r] EXCEPT !.at = "record", !.sources = artifact]
  <2>1. runs' = [runs EXCEPT ![r] = q] /\ runs[r].at = "check"
    BY <1>1, <1>7 DEF CheckSum
  <2>2. /\ q \in Task /\ TaskOK(q) /\ q.step = runs[r].step /\ q.at = "record"
        /\ q.upstream = runs[r].upstream
    BY <1>1, <2>1 DEF Task, TaskOK, Points, Early
  <2> HIDE DEF q
  <2>3. FilesOK' /\ package'.stamp = package.stamp
    BY <1>1, <1>7 DEF CheckSum, TypeInv, FilesOK, ghosts
  <2>4. RunsOK' /\ Room' /\ Stamps'
    BY <1>7, <2>1, <2>2, <2>3, GoesOn DEF CheckSum, Before
  <2> QED
    BY <2>3, <2>4 DEF TypeInv
<1>8. CASE ListAgain(r)
  <2> DEFINE q == [runs[r] EXCEPT !.at = "listed", !.seen = artifact]
  <2>1. runs' = [runs EXCEPT ![r] = q] /\ runs[r].at = "fingerprint" /\ runs[r].step = "cdn"
    BY <1>1, <1>8 DEF ListAgain
  <2>2. /\ q \in Task /\ TaskOK(q) /\ q.step = runs[r].step /\ q.at = "listed"
        /\ q.upstream = runs[r].upstream
    BY <1>1, <2>1 DEF Task, TaskOK, Points, Early
  <2> HIDE DEF q
  <2>3. FilesOK' /\ package'.stamp = package.stamp
    BY <1>1, <1>8 DEF ListAgain, TypeInv, FilesOK, ghosts
  <2>4. RunsOK' /\ Room' /\ Stamps'
    BY <1>8, <2>1, <2>2, <2>3, GoesOn DEF ListAgain, Before
  <2> QED
    BY <2>3, <2>4 DEF TypeInv
<1>9. CASE FingerprintOfFailed(r)
  <2> DEFINE q == [runs[r] EXCEPT !.seen = NoFiles, !.at = IF runs[r].seen # NoFiles /\ artifact = NoFiles THEN "exit" ELSE "record"]
  <2>1. runs' = [runs EXCEPT ![r] = q] /\ runs[r].at = "listed"
    BY <1>1, <1>9 DEF FingerprintOfFailed
  <2>2. /\ q \in Task /\ TaskOK(q) /\ q.step = runs[r].step /\ q.at \in {"exit", "record"}
        /\ q.upstream = runs[r].upstream
    BY <1>1, <2>1 DEF Task, TaskOK, Points, Early
  <2> HIDE DEF q
  <2>3. FilesOK' /\ package'.stamp = package.stamp
    BY <1>1, <1>9 DEF FingerprintOfFailed, TypeInv, FilesOK, ghosts
  <2>4. RunsOK' /\ Room' /\ Stamps'
    BY <1>9, <2>1, <2>2, <2>3, GoesOn DEF FingerprintOfFailed, Before
  <2> QED
    BY <2>3, <2>4 DEF TypeInv
<1> QED
  BY <1>2, <1>3, <1>4, <1>5, <1>6, <1>7, <1>8, <1>9

\* A publication takes the request that the stamp will count.
LEMMA PublishPostTypes ==
  ASSUME TypeInv, NEW r \in Run, PublishPost(r)
  PROVE  TypeInv'
<1>1. /\ runs[r] \in Task /\ TaskOK(runs[r]) /\ runs[r].seen \in Files /\ runs \in [Run -> Task]
      /\ runs[r].at = "post" /\ NoFiles \in Files
      /\ package \in [files : Files, stamp : Nat]
  BY TaskIs, Makes DEF TypeInv, RunsOK, FilesOK, PublishPost
<1>2. CASE Failed(r) /\ UNCHANGED package
  <2>1. FilesOK'
    BY <1>2 DEF PublishPost, TypeInv, FilesOK, ghosts
  <2>2. RunsOK' /\ Room' /\ Stamps'
    BY <1>1, <1>2, FailedGoesOn DEF PublishPost
  <2> QED
    BY <2>1, <2>2 DEF TypeInv
<1>3. CASE /\ package' = [files |-> runs[r].seen, stamp |-> package.stamp + 1]
           /\ runs' = [runs EXCEPT ![r].at = "info", ![r].seen = NoFiles]
  <2> DEFINE q == [runs[r] EXCEPT !.at = "info", !.seen = NoFiles]
  <2>1. runs' = [runs EXCEPT ![r] = q]
    BY <1>1, <1>3
  <2>2. /\ q \in Task /\ TaskOK(q) /\ q.step = runs[r].step /\ q.at = "info"
        /\ q.upstream = runs[r].upstream
    BY <1>1 DEF Task, TaskOK, Points, Early
  <2> HIDE DEF q
  <2>3. FilesOK'
    BY <1>1, <1>3 DEF PublishPost, TypeInv, FilesOK, ghosts
  <2>4. RunsOK' /\ Room' /\ Publishing' = Publishing \ {r}
    BY <1>1, <2>1, <2>2, TaskMoves DEF TypeInv, Before
  <2>5. r \in Publishing /\ Publishing \in SUBSET Run
    BY <1>1 DEF Publishing, Before, TaskOK
  <2>6. /\ Cardinality(Publishing') = Cardinality(Publishing) - 1
        /\ Cardinality(Publishing) \in Nat
    BY <2>4, <2>5, Counted
  <2>7. Stamps'
    BY <1>1, <1>3, <2>6 DEF Stamps, TypeInv, FilesOK, ghosts, PublishPost
  <2> QED
    BY <2>3, <2>4, <2>7 DEF TypeInv
<1> QED
  BY <1>2, <1>3 DEF PublishPost

\* What a removal or a copy leaves when it stops half way is made of files.
LEMMA CutTypes ==
  ASSUME TypeInv, NEW r \in Run
  PROVE  /\ Cut(r) \subseteq Files
         /\ \A m \in CutManifests(r) : m \in [Step -> Manifest]
         /\ Recorded(r) \in [Step -> Manifest]
         /\ CdnReads \subseteq {"cdn"} /\ Torn \subseteq {"build"}
         /\ Overlaps("build") \subseteq {"build"} /\ Overlaps("cdn") \subseteq {"cdn"}
<1>1. /\ runs[r].step \in Step /\ runs[r].sources \in Files /\ runs[r].fingerprint \in Stamp \cup Version
      /\ NoFiles \in Files /\ dist \in Files /\ artifact \in Files /\ NoManifest \in Manifest
      /\ manifest \in [Step -> Manifest]
  BY TaskIs, Makes DEF TypeInv, FilesOK
<1>2. Cut(r) \subseteq Files
  BY <1>1, Makes DEF Cut
<1>3. \A m \in CutManifests(r) : m \in [Step -> Manifest]
  BY <1>1 DEF CutManifests
<1>4. Recorded(r) \in [Step -> Manifest]
  <2>1. [kept |-> TRUE, fingerprint |-> runs[r].fingerprint, sources |-> runs[r].sources] \in Manifest
    BY <1>1 DEF Manifest
  <2> QED
    BY <1>1, <2>1 DEF Recorded
<1> QED
  BY <1>2, <1>3, <1>4 DEF CdnReads, Disturbed, Torn, Overlaps

\* The record of a run and the copy of its files keep the types.
LEMMA EndTypes ==
  ASSUME TypeInv, NEW r \in Run, RecordRun(r) \/ RecordRaises(r) \/ CreateArtifacts(r)
  PROVE  TypeInv'
<1>1. /\ runs[r] \in Task /\ TaskOK(runs[r]) /\ runs \in [Run -> Task]
      /\ runs[r].step \in Step /\ runs[r].ok \in BOOLEAN
      /\ NoFiles \in Files /\ Idle \in Task /\ lapses \subseteq Step /\ mending \subseteq lapses
      /\ dist \in Files /\ artifact \in Files
  BY TaskIs, Makes DEF TypeInv, RunsOK, FilesOK, Task
<1>2. CdnReads \subseteq Step /\ Torn \subseteq Step
  BY CutTypes DEF Step
<1>3. CASE RecordRun(r)
  <2> DEFINE q == [Idle EXCEPT !.step = runs[r].step, !.ok = runs[r].ok,
                     !.at = IF runs[r].ok /\ runs[r].step = "build" THEN "copy" ELSE "exit"]
  <2>1. runs' = [runs EXCEPT ![r] = q] /\ runs[r].at = "record"
    BY <1>3 DEF RecordRun
  <2>2. /\ q \in Task /\ TaskOK(q) /\ q.step = runs[r].step /\ q.at \in {"copy", "exit"}
        /\ ~q.upstream
    <3>1. q \in Task
      BY <1>1 DEF Task, Points
    <3>2. /\ q.step = runs[r].step /\ ~q.upstream
          /\ q.at = IF runs[r].ok /\ runs[r].step = "build" THEN "copy" ELSE "exit"
      BY DEF Idle
    <3> HIDE DEF q
    <3> QED
      BY <3>1, <3>2 DEF TaskOK, Early
  <2> HIDE DEF q
  <2>3. PICK gone \in SUBSET Step : /\ lapses' = (lapses \ (mending \cap {runs[r].step})) \cup gone
                                    /\ mending' = mending \ (gone \cup {runs[r].step})
    BY <1>2, <1>3 DEF RecordRun
  <2>4. manifest' \in [Step -> Manifest] /\ artifact' \in {artifact, NoFiles}
    BY <1>3, CutTypes DEF RecordRun
  <2>5. mending' \subseteq lapses' /\ lapses' \subseteq Step
    BY <1>1, <2>3
  <2>6. FilesOK'
    BY <1>1, <1>3, <2>4, <2>5 DEF RecordRun, TypeInv, FilesOK
  <2>7. RunsOK' /\ Room' /\ Stamps'
    BY <1>3, <2>1, <2>2, GoesOn DEF RecordRun, Before
  <2> QED
    BY <2>6, <2>7 DEF TypeInv
<1>4. CASE RecordRaises(r) \/ CreateArtifacts(r)
  <2> DEFINE q == [runs[r] EXCEPT !.at = "exit"]
  <2>1. runs' = [runs EXCEPT ![r] = q] /\ runs[r].at \in {"record", "copy"}
    BY <1>1, <1>4 DEF CreateArtifacts, RecordRaises, Now
  <2>2. /\ q \in Task /\ TaskOK(q) /\ q.step = runs[r].step /\ q.at = "exit"
        /\ q.upstream = runs[r].upstream
    BY <1>1 DEF Task, TaskOK, Points, Early
  <2> HIDE DEF q
  <2>3. PICK S \in SUBSET Step : Lapse(S)
    <3>1. CASE RecordRaises(r)
      BY <1>2, <3>1 DEF RecordRaises, Step
    <3>2. CASE CreateArtifacts(r)
      BY <1>2, <3>2 DEF CreateArtifacts, Step
    <3> QED
      BY <1>4, <3>1, <3>2
  <2>4. mending' \subseteq lapses' /\ lapses' \subseteq Step
    BY <1>1, <2>3 DEF Lapse
  <2>5. /\ manifest' \in [Step -> Manifest] /\ artifact' \in Files
        /\ UNCHANGED <<source, dist, zip, package, running, stuck, requests>>
    <3>1. CASE RecordRaises(r)
      BY <1>1, <3>1, CutTypes DEF RecordRaises
    <3>2. CASE CreateArtifacts(r)
      BY <1>1, <3>2, CutTypes DEF CreateArtifacts, TypeInv, FilesOK
    <3> QED
      BY <1>4, <3>1, <3>2
  <2>6. FilesOK'
    BY <2>4, <2>5 DEF TypeInv, FilesOK
  <2>7. RunsOK' /\ Room' /\ Stamps'
    BY <2>1, <2>2, <2>5, GoesOn DEF Before
  <2> QED
    BY <2>6, <2>7 DEF TypeInv
<1> QED
  BY <1>3, <1>4

\* Runs that end, one or all of them, only free slots.
LEMMA FreesTypes ==
  ASSUME TypeInv, runs' \in [Run -> Task], \A x \in Run : runs'[x] \in {runs[x], Idle},
         package' = package, requests' = requests
  PROVE  RunsOK' /\ Room' /\ Stamps'
<1>1. TaskOK(Idle) /\ Idle.at = "idle"
  BY Makes DEF Idle
<1>2. RunsOK'
  BY <1>1 DEF TypeInv, RunsOK
<1>3. Busy' \subseteq Busy /\ Parents' \subseteq Parents /\ Publishing' \subseteq Publishing
  BY <1>1 DEF Busy, Parents, Publishing, Before
<1>4. Room'
  <2>1. /\ Busy' \in SUBSET Run /\ Parents' \in SUBSET Run
        /\ Busy \in SUBSET Run /\ Parents \in SUBSET Run
    BY DEF Busy, Parents
  <2>2. /\ Cardinality(Busy') <= Cardinality(Busy) /\ Cardinality(Parents') <= Cardinality(Parents)
        /\ \A S \in {Busy, Busy', Parents, Parents'} : Cardinality(S) \in Nat
    BY <1>3, <2>1, Counted
  <2> QED
    BY <2>2, BoundsAssumption DEF Room, TypeInv
<1> QED
  BY <1>2, <1>3, <1>4, StampsKept DEF TypeInv

\* A start that is announced goes on, or one that is not frees its slot.
LEMMA AnnounceTypes ==
  ASSUME TypeInv, NEW r \in Run, Announce(r)
  PROVE  TypeInv'
<1>1. runs[r] \in Task /\ TaskOK(runs[r]) /\ runs[r].at = "announce" /\ runs \in [Run -> Task]
  BY DEF TypeInv, RunsOK, Announce
<1>2. FilesOK'
  BY DEF Announce, TypeInv, FilesOK, ghosts
<1>3. CASE Now(r, IF runs[r].upstream THEN "upstream" ELSE "execute")
  <2> DEFINE q == [runs[r] EXCEPT !.at = IF runs[r].upstream THEN "upstream" ELSE "execute"]
  <2>1. runs' = [runs EXCEPT ![r] = q]
    BY <1>1, <1>3 DEF Now
  <2>2. /\ q \in Task /\ TaskOK(q) /\ q.step = runs[r].step /\ q.upstream = runs[r].upstream
        /\ q.at \in {"upstream", "execute"}
    BY <1>1 DEF Task, TaskOK, Points, Early
  <2> HIDE DEF q
  <2>3. RunsOK' /\ Room' /\ Publishing' \subseteq Publishing
    BY <1>1, <2>1, <2>2, TaskMoves DEF TypeInv, Before
  <2>4. Stamps'
    BY <2>3, StampsKept DEF Announce, TypeInv
  <2> QED
    BY <1>2, <2>3, <2>4 DEF TypeInv
<1>4. CASE runs' = [runs EXCEPT ![r] = Idle]
  <2>1. runs' \in [Run -> Task] /\ \A x \in Run : runs'[x] \in {runs[x], Idle}
    BY <1>1, <1>4, Makes
  <2> QED
    BY <1>2, <2>1, FreesTypes DEF TypeInv, Announce
<1> QED
  BY <1>3, <1>4 DEF Announce

\* What raises before the step has begun is a run that failed.
LEMMA RaisesTypes ==
  ASSUME TypeInv, NEW r \in Run, Raises(r)
  PROVE  TypeInv'
<1>1. FilesOK'
  BY DEF Raises, TypeInv, FilesOK, ghosts
<1>2. RunsOK' /\ Room' /\ Stamps'
  BY FailedGoesOn DEF Raises
<1> QED
  BY <1>1, <1>2 DEF TypeInv

\* The end of a run frees its slot.
LEMMA ExitTypes ==
  ASSUME TypeInv, NEW r \in Run, Exit(r)
  PROVE  TypeInv'
<1>1. runs \in [Run -> Task] /\ Idle \in Task
  BY Makes DEF TypeInv, RunsOK
<1>2. runs' \in [Run -> Task] /\ \A x \in Run : runs'[x] \in {runs[x], Idle}
  BY <1>1 DEF Exit
<1>3. FilesOK'
  BY DEF Exit, TypeInv, FilesOK, ghosts
<1> QED
  BY <1>2, <1>3, FreesTypes DEF TypeInv, Exit

\* The end of the process frees all of them.
LEMMA KillTypes ==
  ASSUME TypeInv, Kill
  PROVE  TypeInv'
<1>1. runs' \in [Run -> Task] /\ \A x \in Run : runs'[x] \in {runs[x], Idle}
  BY Makes DEF Kill
<1>2. artifact' \in Files /\ manifest' \in [Step -> Manifest] /\ lapses' \subseteq Step
  BY CutTypes DEF Kill, TypeInv, FilesOK, Step
<1>3. FilesOK'
  BY <1>2 DEF Kill, TypeInv, FilesOK
<1> QED
  BY <1>1, <1>3, FreesTypes DEF TypeInv, Kill

\* Changes of the sources touch no task.
LEMMA EditTypes ==
  ASSUME TypeInv, Edit
  PROVE  TypeInv'
<1>1. source' \in Version
  BY BoundsAssumption DEF Edit, TypeInv, FilesOK, ghosts, Version
<1>2. FilesOK'
  BY <1>1 DEF Edit, Lapse, TypeInv, FilesOK, BuildReads, Disturbed, Step
<1> QED
  BY <1>2 DEF TypeInv, RunsOK, Room, Stamps, Busy, Parents, Publishing, Edit

\* Types hold when nothing has run.
LEMMA InitTypes ==
  ASSUME Init
  PROVE  TypeInv
<1>1. FilesOK
  BY Makes, BoundsAssumption DEF Init, FilesOK, Version, Step
<1>2. RunsOK
  BY Makes DEF Init, RunsOK
<1>3. Busy = {} /\ Parents = {} /\ Publishing = {}
  BY DEF Init, Busy, Parents, Publishing, Before, Idle
<1> QED
  BY <1>1, <1>2, <1>3, FS_EmptySet, BoundsAssumption DEF TypeInv, Room, Stamps, Init

\* Types are preserved by every step.
LEMMA StepTypes ==
  ASSUME TypeInv, [Next]_vars
  PROVE  TypeInv'
<1>1. ASSUME NEW s \in Step, NEW up \in BOOLEAN, Request(s, up) PROVE TypeInv'
  BY <1>1, RequestTypes
<1>2. ASSUME NEW r \in Run, Progress(r) PROVE TypeInv'
  BY <1>2, EnterTypes, AnnounceTypes, RaisesTypes, RunUpstreamTypes, BuildTypes, CdnTypes, PublishPostTypes,
     EndTypes, ExitTypes DEF Progress
<1>3. CASE UNCHANGED vars
  BY <1>3 DEF vars, ghosts, TypeInv, FilesOK, RunsOK, Room, Stamps, Busy, Parents, Publishing
<1> QED
  BY <1>1, <1>2, <1>3, EditTypes, KillTypes DEF Next

\* The files, the manifests, the marks and the tasks keep their types, whatever the
\* number of edits, of requests and of runs at once: no task takes the slot of another,
\* and no stamp is beyond the publications asked for.
THEOREM TypeCorrect == Spec => []TypeOK
<1>1. Init => TypeInv
  BY InitTypes
<1>2. TypeInv /\ [Next]_vars => TypeInv'
  BY StepTypes
<1>3. TypeInv => TypeOK
  <2> SUFFICES ASSUME TypeInv PROVE TypeOK
    OBVIOUS
  <2>1. package.files \in Files /\ package.stamp \in Stamp
    BY StampIs
  <2>2. \A s \in Step : /\ manifest[s].kept \in BOOLEAN /\ manifest[s].fingerprint \in Stamp \cup Version
                        /\ manifest[s].sources \in Files
    BY DEF TypeInv, FilesOK, ghosts, Manifest
  <2>3. ASSUME NEW r \in Run PROVE runs[r] \in Task /\ TaskOK(runs[r])
    BY TaskIs
  <2> QED
    BY <2>1, <2>2, <2>3 DEF TypeOK, TypeInv, FilesOK, ghosts, Task, TaskOK, Points
<1> QED
  BY <1>1, <1>2, <1>3, PTL DEF Spec

-----------------------------------------------------------------------------
(* A step reported OK is in sync with its inputs *)

Single(s) == \A q, r \in Active(s) : q = r

\* What a run of "build" knows of the files it has made.
BuildTask(r) ==
  LET t == runs[r]
  IN  /\ t.at = "command" => t.seen = [v |-> source, mixed |-> TRUE]
      /\ t.at = "fingerprint" /\ t.ok => dist = Made(source)
      /\ t.at = "record" /\ t.ok => dist = Made(t.fingerprint)
      /\ t.at = "copy" => dist = Made(manifest["build"].fingerprint)

BuildFiles ==
  \/ ~manifest["build"].kept \/ artifact = NoFiles
  \/ artifact = Made(manifest["build"].fingerprint)

\* The step has not lapsed, or a run that is to make it good has not been disturbed.
Trusted(s) == s \in lapses => s \in mending

\* Of such a step a run is alone and knows its files. Unless the sources changed under
\* a run of "build", or it ran twice at once, or its files were cut, and no run has made
\* it good, its artifact is that of the sources of the manifest, or there is none.
BuildInv ==
  /\ Trusted("build") => Single("build") /\ \A r \in Active("build") : BuildTask(r)
  /\ "build" \notin lapses => BuildFiles

\* What a run of "cdn" knows of the files it publishes.
CdnTask(r) ==
  LET t == runs[r]
  IN  /\ t.at \in {"enter", "announce", "upstream", "execute", "zip", "publish", "post", "info", "check"} => t.ok
      /\ t.at \in {"zip", "post", "listed"} => t.seen = artifact
      /\ t.at = "publish" => zip = artifact
      /\ t.at \in {"info", "check"} => package.files = artifact
      /\ t.at = "check" => t.fingerprint = package.stamp
      /\ t.at \in {"fingerprint", "listed"} => ~t.ok
      /\ t.at \in {"fingerprint", "listed", "record"} /\ ~t.ok => t.fingerprint = 0
      /\ t.at = "record" /\ t.ok => t.fingerprint = package.stamp /\ t.sources = package.files

\* The package is being replaced, or the run failed and the manifest is the former one.
Unrecorded(r) ==
  runs[r].at = "post" \/ (~runs[r].ok /\ runs[r].at \in {"fingerprint", "listed", "record"})

\* The manifest is that of the package.
Current ==
  manifest["cdn"].kept /\ package.stamp # 0 /\ manifest["cdn"].fingerprint = package.stamp

\* A run that has begun is marked as running.
Marked(r) == runs[r].at # "enter" => "cdn" \in running

\* The manifest that has the stamp of the package has its files.
Published ==
  /\ manifest["cdn"].fingerprint <= package.stamp
  /\ Current /\ (\A r \in Active("cdn") : ~Unrecorded(r)) => package.files = manifest["cdn"].sources

\* The same of "cdn": unless the artifact changed under a run of it, or it ran twice at
\* once, or a publication was cut, what is published is what the manifest says; a run
\* that is about to break this is marked as running.
CdnInv ==
  /\ Trusted("cdn") => Single("cdn") /\ \A r \in Active("cdn") : CdnTask(r) /\ Marked(r)
  /\ "cdn" \notin lapses => Published

SyncInv == BuildInv /\ CdnInv

\* An action that makes nothing good.
NoBetter(s) == (s \in lapses => s \in lapses') /\ (s \in mending' => s \in mending)

\* What lapses is not trusted, and what has not lapsed had not.
LEMMA Lapsing ==
  ASSUME NEW S, Lapse(S)
  PROVE  /\ \A s : NoBetter(s)
         /\ \A s \in S : ~Trusted(s)'
         /\ \A s : s \notin S => (s \in lapses' <=> s \in lapses) /\ (Trusted(s)' <=> Trusted(s))
BY DEF Lapse, NoBetter, Trusted

\* A step that leaves alone what the runs of "build" use, or ends them all.
LEMMA BuildKept ==
  ASSUME BuildInv, Active("build")' \subseteq Active("build"),
         \A x \in Active("build") : x \in Active("build")' => runs'[x] = runs[x],
         UNCHANGED <<source, dist>>, artifact' \in {artifact, NoFiles},
         \/ manifest'["build"] = manifest["build"]
         \/ manifest'["build"] = NoManifest /\ Active("build")' = {},
         NoBetter("build")
  PROVE  BuildInv'
<1>1. ASSUME Trusted("build")'
      PROVE  Single("build")' /\ \A r \in Active("build")' : BuildTask(r)'
  <2>1. Single("build") /\ \A r \in Active("build") : BuildTask(r)
    BY <1>1 DEF BuildInv, NoBetter, Trusted
  <2>2. Single("build")'
    BY <2>1 DEF Single
  <2>3. ASSUME NEW r \in Active("build")' PROVE BuildTask(r)'
    <3>1. BuildTask(r) /\ runs'[r] = runs[r] /\ manifest'["build"] = manifest["build"]
      BY <2>1, <2>3
    <3> QED
      BY <3>1 DEF BuildTask
  <2> QED
    BY <2>2, <2>3
<1>2. ASSUME "build" \notin lapses' PROVE BuildFiles'
  BY <1>2 DEF BuildInv, BuildFiles, NoBetter, NoManifest
<1> QED
  BY <1>1, <1>2 DEF BuildInv

\* A step of the only run of "build".
LEMMA BuildMoves ==
  ASSUME BuildInv, NEW r \in Active("build"), Active("build")' \subseteq Active("build"),
         Trusted("build")' => Trusted("build") \/ Single("build"),
         Trusted("build")' /\ (Trusted("build") => Single("build") /\ BuildTask(r)) => BuildTask(r)',
         "build" \notin lapses' => Trusted("build"),
         /\ "build" \notin lapses' /\ Single("build") /\ BuildTask(r)
         /\ "build" \notin lapses => BuildFiles
         => BuildFiles'
  PROVE  BuildInv'
<1>1. Trusted("build") => Single("build") /\ BuildTask(r)
  BY DEF BuildInv
<1>2. ASSUME Trusted("build")'
      PROVE  Single("build")' /\ \A x \in Active("build")' : BuildTask(x)'
  <2>1. \A x \in Active("build")' : x = r
    BY <1>1, <1>2 DEF Single
  <2> QED
    BY <1>1, <1>2, <2>1 DEF Single
<1>3. ASSUME "build" \notin lapses' PROVE BuildFiles'
  BY <1>1, <1>3 DEF BuildInv
<1> QED
  BY <1>2, <1>3 DEF BuildInv

\* A run of "build" is scheduled.
LEMMA BuildEnters ==
  ASSUME BuildInv, NEW x \in Run, Active("build")' \subseteq Active("build") \cup {x},
         runs'[x].at = "enter", UNCHANGED <<source, dist, artifact, manifest>>,
         NoBetter("build"), Overlaps("build") # {} => ~Trusted("build")'
  PROVE  BuildInv'
<1>1. ASSUME Trusted("build")'
      PROVE  Single("build")' /\ \A r \in Active("build")' : BuildTask(r)'
  <2>1. Active("build") = {}
    BY <1>1 DEF Overlaps
  <2>2. \A r \in Active("build")' : r = x
    BY <2>1
  <2> QED
    BY <2>2 DEF Single, BuildTask
<1>2. ASSUME "build" \notin lapses' PROVE BuildFiles'
  BY <1>2 DEF BuildInv, BuildFiles, NoBetter
<1> QED
  BY <1>1, <1>2 DEF BuildInv

\* A step that leaves alone what the runs of "cdn" use, or ends those that lapses do not name.
LEMMA CdnKept ==
  ASSUME CdnInv, package.stamp \in Nat, Active("cdn")' \subseteq Active("cdn"),
         \A x \in Active("cdn") : x \in Active("cdn")' => runs'[x] = runs[x],
         \A x \in Active("cdn") : x \notin Active("cdn")' /\ Unrecorded(x) => "cdn" \in lapses',
         UNCHANGED <<zip, package>>, manifest'["cdn"] \in {manifest["cdn"], NoManifest},
         artifact' = artifact \/ (CdnReads # {} => ~Trusted("cdn")') \/ Active("cdn")' = {},
         "cdn" \in running => "cdn" \in running' \/ Active("cdn")' = {},
         NoBetter("cdn")
  PROVE  CdnInv'
<1>1. ASSUME Trusted("cdn")'
      PROVE  Single("cdn")' /\ \A r \in Active("cdn")' : CdnTask(r)' /\ Marked(r)'
  <2>1. Single("cdn") /\ \A r \in Active("cdn") : CdnTask(r) /\ Marked(r)
    BY <1>1 DEF CdnInv, NoBetter, Trusted
  <2>2. Single("cdn")'
    BY <2>1 DEF Single
  <2>3. ASSUME NEW r \in Active("cdn")' PROVE CdnTask(r)' /\ Marked(r)'
    <3>1. CdnTask(r) /\ Marked(r) /\ runs'[r] = runs[r] /\ r \in Active("cdn")
      BY <2>1, <2>3
    <3>2. artifact' = artifact
            \/ runs[r].at \notin {"zip", "publish", "post", "info", "check", "listed"}
      BY <1>1, <2>3, <3>1 DEF CdnReads, Disturbed
    <3>3. CdnTask(r)'
      BY <3>1, <3>2 DEF CdnTask
    <3> QED
      BY <2>3, <3>1, <3>3 DEF Marked
  <2> QED
    BY <2>2, <2>3
<1>2. ASSUME "cdn" \notin lapses' PROVE Published'
  <2>1. Published
    BY <1>2 DEF CdnInv, NoBetter
  <2>2. CASE manifest'["cdn"] = NoManifest
    BY <2>2 DEF Published, Current, NoManifest
  <2>3. CASE manifest'["cdn"] = manifest["cdn"]
    <3>1. ASSUME Current', \A r \in Active("cdn")' : ~Unrecorded(r)'
          PROVE  package.files = manifest["cdn"].sources
      <4>1. Current
        BY <2>3, <3>1 DEF Current
      <4>2. ASSUME NEW r \in Active("cdn") PROVE ~Unrecorded(r)
        <5>1. CASE r \in Active("cdn")'
          BY <3>1, <5>1 DEF Unrecorded
        <5>2. CASE r \notin Active("cdn")'
          BY <1>2, <5>2
        <5> QED
          BY <5>1, <5>2
      <4> QED
        BY <2>1, <4>1, <4>2 DEF Published
    <3> QED
      BY <2>1, <2>3, <3>1 DEF Published
  <2> QED
    BY <2>2, <2>3
<1> QED
  BY <1>1, <1>2 DEF CdnInv

\* The files of the package are those of its manifest, as far as the run r goes.
SyncedBy(r) ==
  /\ manifest["cdn"].fingerprint <= package.stamp
  /\ Current /\ ~Unrecorded(r) => package.files = manifest["cdn"].sources

\* A step of the only run of "cdn".
LEMMA CdnMoves ==
  ASSUME CdnInv, NEW r \in Active("cdn"), Active("cdn")' = Active("cdn"),
         Trusted("cdn")' => Trusted("cdn") \/ Single("cdn"),
         Trusted("cdn")' /\ (Trusted("cdn") => CdnTask(r) /\ Marked(r)) => CdnTask(r)' /\ Marked(r)',
         "cdn" \notin lapses' => Trusted("cdn"),
         /\ "cdn" \notin lapses' /\ CdnTask(r)
         /\ "cdn" \notin lapses => SyncedBy(r)
         => SyncedBy(r)'
  PROVE  CdnInv'
<1>1. Trusted("cdn") => Single("cdn") /\ CdnTask(r) /\ Marked(r)
  BY DEF CdnInv
<1>2. ASSUME Trusted("cdn")'
      PROVE  Single("cdn")' /\ \A x \in Active("cdn")' : CdnTask(x)' /\ Marked(x)'
  <2>1. \A x \in Active("cdn")' : x = r
    BY <1>1, <1>2 DEF Single
  <2> QED
    BY <1>1, <1>2, <2>1 DEF Single
<1>3. ASSUME "cdn" \notin lapses' PROVE Published'
  <2>1. \A x \in Active("cdn") : x = r
    BY <1>1, <1>3 DEF Single
  <2>2. "cdn" \notin lapses => SyncedBy(r)
    BY <2>1 DEF CdnInv, Published, SyncedBy
  <2>3. SyncedBy(r)'
    BY <1>1, <1>3, <2>2
  <2> QED
    BY <2>3 DEF Published, SyncedBy
<1> QED
  BY <1>2, <1>3 DEF CdnInv

\* A run of "cdn" is scheduled.
LEMMA CdnEnters ==
  ASSUME CdnInv, NEW x \in Run, Active("cdn")' \subseteq Active("cdn") \cup {x},
         runs'[x].at = "enter", runs'[x].ok, UNCHANGED <<artifact, zip, package, manifest>>,
         NoBetter("cdn"), Overlaps("cdn") # {} => ~Trusted("cdn")', "cdn" \in Overlaps("cdn") => "cdn" \in lapses'
  PROVE  CdnInv'
<1>1. ASSUME Trusted("cdn")'
      PROVE  Single("cdn")' /\ \A r \in Active("cdn")' : CdnTask(r)' /\ Marked(r)'
  <2>1. Active("cdn") = {}
    BY <1>1 DEF Overlaps
  <2>2. \A r \in Active("cdn")' : r = x
    BY <2>1
  <2> QED
    BY <2>2 DEF Single, CdnTask, Marked
<1>2. ASSUME "cdn" \notin lapses' PROVE Published'
  <2>1. Active("cdn") = {} /\ Published
    BY <1>2 DEF Overlaps, CdnInv, NoBetter
  <2> QED
    BY <2>1 DEF Published, Current
<1> QED
  BY <1>1, <1>2 DEF CdnInv

\* A run that goes on stays active, and those of the other step are as they were.
LEMMA OthersKept ==
  ASSUME RunsOK, NEW r \in Run, NEW q \in Task, runs' = [runs EXCEPT ![r] = q],
         q.step = runs[r].step, runs[r].at # "idle", q.at # "idle"
  PROVE  /\ r \in Active(runs[r].step) /\ runs'[r] = q /\ runs[r].step \in Step
         /\ \A s \in Step : /\ Active(s)' = Active(s)
                            /\ s # runs[r].step => \A x \in Active(s) : runs'[x] = runs[x]
  BY DEF RunsOK, Active, Task

\* A request schedules a task that has read nothing, or one too many, which lapses name.
LEMMA RequestSync ==
  ASSUME TypeInv, SyncInv, NEW s \in Step, NEW up \in BOOLEAN, Request(s, up),
         NEW x \in Run, runs[x].at = "idle", runs' = [runs EXCEPT ![x] = Entered(s, up)]
  PROVE  SyncInv'
<1>1. /\ runs'[x] = Entered(s, up) /\ \A z \in Run : z # x => runs'[z] = runs[z]
  BY DEF TypeInv, RunsOK
<1>2. Active(s)' \subseteq Active(s) \cup {x}
  BY <1>1 DEF Active
<1>3. \A o \in Step : o # s => Active(o)' = Active(o) /\ \A z \in Active(o) : runs'[z] = runs[z]
  BY <1>1, EnteredIs DEF Active
<1>4. /\ UNCHANGED <<source, dist, artifact, manifest, zip, package, running>>
      /\ Lapse(Overlaps(s)) /\ runs'[x].at = "enter" /\ runs'[x].ok /\ package.stamp \in Nat
  BY <1>1, EnteredIs DEF Request, TypeInv, FilesOK
<1>5. /\ \A o \in Step : NoBetter(o)
      /\ Overlaps(s) # {} => ~Trusted(s)' /\ s \in lapses'
  BY <1>4, Lapsing DEF Overlaps, Lapse
<1>6. CASE s = "build"
  <2>1. BuildInv'
    BY <1>2, <1>4, <1>5, <1>6, BuildEnters DEF SyncInv
  <2>2. CdnInv'
    BY <1>3, <1>4, <1>5, <1>6, CdnKept DEF SyncInv, Step
  <2> QED
    BY <2>1, <2>2 DEF SyncInv
<1>7. CASE s = "cdn"
  <2>1. CdnInv'
    BY <1>2, <1>4, <1>5, <1>7, CdnEnters DEF SyncInv
  <2>2. BuildInv'
    BY <1>3, <1>4, <1>5, <1>7, BuildKept DEF SyncInv, Step
  <2> QED
    BY <2>1, <2>2 DEF SyncInv
<1> QED
  BY <1>6, <1>7 DEF Step

\* A run is marked as running, or is announced, or has dealt with its parents.
LEMMA EnterSync ==
  ASSUME TypeInv, SyncInv, NEW r \in Run, NEW q \in Task, runs' = [runs EXCEPT ![r] = q],
         runs[r].at \in {"enter", "announce", "upstream"}, q.at \in {"announce", "upstream", "execute"},
         q.step = runs[r].step, q.ok = runs[r].ok, running \subseteq running',
         runs[r].at = "enter" => runs[r].step \in running',
         UNCHANGED <<source, dist, artifact, manifest, zip, package, lapses, mending>>
  PROVE  SyncInv'
<1>1. /\ r \in Active(runs[r].step) /\ runs'[r] = q /\ runs[r].step \in Step
      /\ \A s \in Step : /\ Active(s)' = Active(s)
                         /\ s # runs[r].step => \A x \in Active(s) : runs'[x] = runs[x]
  BY OthersKept DEF TypeInv
<1>2. /\ \A s : NoBetter(s) /\ (Trusted(s)' <=> Trusted(s)) /\ (s \notin lapses => Trusted(s))
      /\ package.stamp \in Nat
  BY DEF NoBetter, Trusted, TypeInv, FilesOK
<1>3. CASE runs[r].step = "build"
  <2>1. BuildTask(r)' /\ (BuildFiles => BuildFiles')
    BY <1>1 DEF BuildTask, BuildFiles
  <2>2. BuildInv'
    BY <1>1, <1>2, <1>3, <2>1, BuildMoves DEF SyncInv
  <2>3. CdnInv'
    BY <1>1, <1>2, <1>3, CdnKept DEF SyncInv, Step
  <2> QED
    BY <2>2, <2>3 DEF SyncInv
<1>4. CASE runs[r].step = "cdn"
  <2>1. CdnTask(r) /\ Marked(r) => CdnTask(r)' /\ Marked(r)'
    BY <1>1, <1>4 DEF CdnTask, Marked
  <2>2. SyncedBy(r) => SyncedBy(r)'
    BY <1>1 DEF SyncedBy, Current, Unrecorded
  <2>3. CdnInv'
    BY <1>1, <1>2, <1>4, <2>1, <2>2, CdnMoves DEF SyncInv
  <2>4. BuildInv'
    BY <1>1, <1>2, <1>4, BuildKept DEF SyncInv, Step
  <2> QED
    BY <2>3, <2>4 DEF SyncInv
<1> QED
  BY <1>1, <1>3, <1>4 DEF Step

\* A run that ends when its start is announced has read nothing.
LEMMA UnannouncedSync ==
  ASSUME TypeInv, SyncInv, NEW r \in Run, runs' = [runs EXCEPT ![r] = Idle], runs[r].at = "announce",
         UNCHANGED <<source, dist, artifact, manifest, zip, package, running, lapses, mending>>
  PROVE  SyncInv'
<1>1. /\ runs \in [Run -> Task] /\ package.stamp \in Nat /\ \A s : NoBetter(s)
      /\ r \notin Active("build")' /\ r \notin Active("cdn")'
  BY DEF TypeInv, RunsOK, FilesOK, NoBetter, Active, Idle
<1>2. \A s \in Step : /\ Active(s)' \subseteq Active(s)
                      /\ \A x \in Active(s) : x \in Active(s)' => runs'[x] = runs[x]
                      /\ \A x \in Active(s) : x \notin Active(s)' => x = r
  BY <1>1 DEF Active, Idle
<1>3. ~Unrecorded(r)
  BY DEF Unrecorded
<1> QED
  BY <1>1, <1>2, <1>3, BuildKept, CdnKept DEF SyncInv, Step

\* A run of "cdn" goes on, and the run of "build" that it schedules has read nothing.
LEMMA RunUpstreamSync ==
  ASSUME TypeInv, TypeInv', SyncInv, NEW r \in Run, RunUpstream(r)
  PROVE  SyncInv'
<1> DEFINE q  == [runs[r] EXCEPT !.at = "execute", !.upstream = FALSE]
           on == [runs EXCEPT ![r] = q]
<1>1. /\ runs[r] \in Task /\ runs[r].at = "upstream" /\ runs \in [Run -> Task]
  BY DEF TypeInv, RunsOK, RunUpstream
<1>2. q \in Task /\ q.step = runs[r].step /\ q.at = "execute" /\ q.ok = runs[r].ok
  BY <1>1 DEF Task, Points
<1>3. [runs EXCEPT ![r].at = "execute", ![r].upstream = FALSE] = on
  BY <1>1
<1>4. CASE runs' = on /\ UNCHANGED ghosts
  <2> HIDE DEF q
  <2> QED
    BY <1>1, <1>2, <1>4, EnterSync DEF RunUpstream, ghosts
<1>6. on = [runs EXCEPT ![r] = q]
  OBVIOUS
<1>5. CASE /\ runs[r].step = "cdn" /\ runs' = Scheduled(on, "build", TRUE)
           /\ Lapse(Overlaps("build"))
  <2> HIDE DEF q
  <2>1. PICK x \in Run : on[x].at = "idle" /\ runs' = [on EXCEPT ![x] = Entered("build", TRUE)]
    <3>1. PICK x \in Run : on[x].at = "idle" /\ Slot(on, "build", TRUE, x)
      <4> HIDE DEF on
      <4> QED
        BY <1>1, <1>2, <1>5, <1>6, UpstreamSlot
    <3> QED
      BY <1>5, <3>1 DEF Slot
  <2>2. x # r /\ runs[x].at = "idle"
    BY <1>1, <1>2, <2>1
  <2>3. /\ runs'[x] = Entered("build", TRUE) /\ runs'[r] = q
        /\ \A z \in Run : z \notin {x, r} => runs'[z] = runs[z]
        /\ Entered("build", TRUE).step = "build" /\ Entered("build", TRUE).at = "enter"
    BY <1>1, <1>2, <2>1, <2>2, EnteredIs DEF Step
  <2>4. r \in Active("cdn") /\ Active("cdn")' = Active("cdn") /\ Active("build")' \subseteq Active("build") \cup {x}
    <3>1. /\ q.step = "cdn" /\ q.at # "idle" /\ runs[r].step = "cdn" /\ runs[r].at # "idle"
          /\ runs'[x].step = "build" /\ runs[x].at = "idle" /\ x # r
      BY <1>1, <1>2, <1>5, <2>2, <2>3
    <3> QED
      BY <2>3, <3>1 DEF Active
  <2>5. UNCHANGED <<source, dist, artifact, manifest, zip, package, running>>
    BY DEF RunUpstream
  <2>6. CdnTask(r) /\ Marked(r) => CdnTask(r)' /\ Marked(r)'
    BY <1>1, <1>2, <2>3, <2>5 DEF CdnTask, Marked
  <2>7. SyncedBy(r) => SyncedBy(r)'
    BY <1>1, <1>2, <2>3, <2>5 DEF SyncedBy, Current, Unrecorded
  <2>8. /\ \A s : NoBetter(s) /\ (s \notin lapses => Trusted(s))
        /\ Trusted("cdn")' => Trusted("cdn")
        /\ Overlaps("build") # {} => ~Trusted("build")'
        /\ "cdn" \notin lapses' => "cdn" \notin lapses
    BY <1>5, Lapsing DEF Overlaps, Trusted, NoBetter
  <2>9. CdnInv'
    BY <1>1, <1>5, <2>4, <2>5, <2>6, <2>7, <2>8, CdnMoves DEF SyncInv
  <2>10. BuildInv'
    BY <1>5, <2>3, <2>4, <2>5, <2>8, BuildEnters DEF SyncInv
  <2> QED
    BY <2>9, <2>10 DEF SyncInv
<1> QED
  BY <1>3, <1>4, <1>5 DEF RunUpstream

\* A run of "build" that works on its files.
LEMMA BuildStep ==
  ASSUME TypeInv, SyncInv, NEW r \in Run, runs[r].step = "build",
         NEW q \in Task, runs' = [runs EXCEPT ![r] = q], q.step = "build",
         runs[r].at # "idle", q.at # "idle",
         UNCHANGED <<source, zip, package, running>>, manifest'["cdn"] = manifest["cdn"],
         artifact' = artifact \/ (CdnReads # {} => ~Trusted("cdn")'), NoBetter("cdn"),
         Trusted("build")' => Trusted("build") \/ Active("build") = {r},
         Trusted("build")' /\ (Trusted("build") => Single("build") /\ BuildTask(r)) => BuildTask(r)',
         "build" \notin lapses' => Trusted("build"),
         /\ "build" \notin lapses' /\ Single("build") /\ BuildTask(r)
         /\ "build" \notin lapses => BuildFiles
         => BuildFiles'
  PROVE  SyncInv'
<1>1. /\ r \in Active("build") /\ runs'[r] = q
      /\ \A s \in Step : /\ Active(s)' = Active(s)
                         /\ s # "build" => \A x \in Active(s) : runs'[x] = runs[x]
  BY OthersKept DEF TypeInv
<1>5. package.stamp \in Nat
  BY DEF TypeInv, FilesOK
<1>2. Active("build") = {r} => Single("build")
  BY DEF Single
<1>3. BuildInv'
  BY <1>1, <1>2, BuildMoves DEF SyncInv, Step
<1>4. CdnInv'
  BY <1>1, <1>5, CdnKept DEF SyncInv, Step
<1> QED
  BY <1>3, <1>4 DEF SyncInv

\* One that leaves its artifact and what has lapsed alone.
LEMMA BuildWorks ==
  ASSUME TypeInv, SyncInv, NEW r \in Run, runs[r].step = "build",
         NEW q \in Task, runs' = [runs EXCEPT ![r] = q], q.step = "build",
         runs[r].at # "idle", q.at # "idle",
         UNCHANGED <<source, artifact, manifest, zip, package, running, lapses>>,
         mending' \subseteq mending \cup Alone(r),
         runs'[r] = q /\ (mending' # mending \/ (Single("build") /\ BuildTask(r))) => BuildTask(r)'
  PROVE  SyncInv'
<1>1. runs'[r] = q
  BY DEF TypeInv, RunsOK
<1>2. Alone(r) \subseteq {"build"} /\ (Alone(r) # {} => Active("build") = {r})
  BY DEF Alone
<1>3. /\ NoBetter("cdn") /\ ("build" \notin lapses' => Trusted("build"))
      /\ Trusted("build")' => Trusted("build") \/ (mending' # mending /\ Active("build") = {r})
  BY <1>2 DEF NoBetter, Trusted
<1>4. BuildFiles => BuildFiles'
  BY DEF BuildFiles
<1>5. Trusted("build")' => Trusted("build") \/ Active("build") = {r}
  BY <1>3
<1>6. Trusted("build")' /\ (Trusted("build") => Single("build") /\ BuildTask(r)) => BuildTask(r)'
  BY <1>1, <1>3
<1>7. /\ "build" \notin lapses' /\ Single("build") /\ BuildTask(r)
      /\ "build" \notin lapses => BuildFiles
      => BuildFiles'
  BY <1>4
<1> QED
  BY <1>3, <1>5, <1>6, <1>7, BuildStep

\* A run of "cdn" that works on its files.
LEMMA CdnStep ==
  ASSUME TypeInv, SyncInv, NEW r \in Run, runs[r].step = "cdn",
         NEW q \in Task, runs' = [runs EXCEPT ![r] = q], q.step = "cdn",
         runs[r].at \notin {"idle", "enter"}, q.at \notin {"idle", "enter"},
         UNCHANGED <<source, dist, artifact, running>>, manifest'["build"] = manifest["build"],
         NoBetter("build"),
         Trusted("cdn")' => Trusted("cdn") \/ Alone(r) # {},
         Trusted("cdn")' /\ (Trusted("cdn") => CdnTask(r)) => CdnTask(r)',
         "cdn" \notin lapses' => Trusted("cdn"),
         /\ "cdn" \notin lapses' /\ CdnTask(r)
         /\ "cdn" \notin lapses => SyncedBy(r)
         => SyncedBy(r)'
  PROVE  SyncInv'
<1>1. /\ r \in Active("cdn") /\ runs'[r] = q
      /\ \A s \in Step : /\ Active(s)' = Active(s)
                         /\ s # "cdn" => \A x \in Active(s) : runs'[x] = runs[x]
  BY OthersKept DEF TypeInv
<1>2. Alone(r) # {} => Single("cdn") /\ "cdn" \in running
  BY DEF Alone, Single
<1>3. Trusted("cdn")' /\ (Trusted("cdn") => Marked(r)) => Marked(r)'
  BY <1>1, <1>2 DEF Marked
<1>4. CdnInv'
  BY <1>1, <1>2, <1>3, CdnMoves DEF SyncInv, Step
<1>5. BuildInv'
  BY <1>1, BuildKept DEF SyncInv, Step
<1> QED
  BY <1>4, <1>5 DEF SyncInv

\* One that leaves what has lapsed alone.
LEMMA CdnWorks ==
  ASSUME TypeInv, SyncInv, NEW r \in Run, runs[r].step = "cdn",
         NEW q \in Task, runs' = [runs EXCEPT ![r] = q], q.step = "cdn",
         runs[r].at \notin {"idle", "enter"}, q.at \notin {"idle", "enter"},
         UNCHANGED <<source, dist, artifact, manifest, running, lapses, mending>>,
         runs'[r] = q /\ CdnTask(r) => CdnTask(r)',
         runs'[r] = q /\ CdnTask(r) /\ SyncedBy(r) => SyncedBy(r)'
  PROVE  SyncInv'
<1>1. runs'[r] = q
  BY DEF TypeInv, RunsOK
<1>2. /\ NoBetter("build") /\ (Trusted("cdn")' => Trusted("cdn"))
      /\ "cdn" \notin lapses' => Trusted("cdn") /\ "cdn" \notin lapses
  BY DEF NoBetter, Trusted
<1> QED
  BY <1>1, <1>2, CdnStep

\* A run that fails: the manifest of "cdn" may be the former one until it is recorded.
LEMMA FailedSync ==
  ASSUME TypeInv, SyncInv, NEW r \in Run, Failed(r),
         runs[r].at \notin {"idle", "enter"},
         UNCHANGED <<source, dist, artifact, manifest, zip, package, running, lapses, mending>>
  PROVE  SyncInv'
<1> DEFINE q == Raised(r)
<1>1. runs' = [runs EXCEPT ![r] = q] /\ runs[r].step \in Step
  BY TaskIs DEF Failed, Raised
<1>2. /\ q \in Task /\ q.step = runs[r].step /\ q.at = "fingerprint" /\ ~q.ok /\ q.fingerprint = 0
  BY RaisedIs DEF TypeInv
<1> HIDE DEF q
<1>3. CASE runs[r].step = "build"
  <2>1. runs'[r] = q => BuildTask(r)'
    BY <1>2 DEF BuildTask
  <2> QED
    BY <1>1, <1>2, <1>3, <2>1, BuildWorks
<1>4. CASE runs[r].step = "cdn"
  <2>1. runs'[r] = q => CdnTask(r)'
    BY <1>2 DEF CdnTask
  <2>2. runs'[r] = q /\ SyncedBy(r) => SyncedBy(r)'
    BY <1>2 DEF SyncedBy, Unrecorded
  <2> QED
    BY <1>1, <1>2, <1>4, <2>1, <2>2, CdnWorks
<1> QED
  BY <1>1, <1>3, <1>4 DEF Step

\* A run of "build" that is alone makes its files from the sources it fingerprints.
LEMMA BuildSync ==
  ASSUME TypeInv, SyncInv, NEW r \in Run,
         StartCommand(r) \/ EndCommand(r) \/ Fingerprint(r)
  PROVE  SyncInv'
<1>1. runs[r] \in Task /\ TaskOK(runs[r]) /\ runs \in [Run -> Task]
  BY TaskIs DEF TypeInv, RunsOK
<1>2. CASE StartCommand(r)
  <2>1. PICK f \in Files : f = [v |-> source, mixed |-> TRUE]
    BY Makes DEF TypeInv, FilesOK, ghosts
  <2> DEFINE q == [runs[r] EXCEPT !.at = "command", !.seen = f]
  <2>2. /\ runs' = [runs EXCEPT ![r] = q] /\ runs[r].at = "execute" /\ runs[r].step = "build"
        /\ UNCHANGED <<source, artifact, manifest, zip, package, running, lapses>>
        /\ mending' \subseteq mending \cup Alone(r)
    BY <1>1, <1>2, <2>1 DEF StartCommand
  <2>3. q \in Task /\ q.step = runs[r].step /\ q.at = "command" /\ q.seen = f
    BY <1>1 DEF Task, Points
  <2> HIDE DEF q
  <2>4. runs'[r] = q => BuildTask(r)'
    BY <2>1, <2>2, <2>3 DEF BuildTask
  <2> QED
    BY <2>2, <2>3, <2>4, BuildWorks
<1>3. CASE EndCommand(r)
  <2>1. /\ runs[r].at = "command" /\ runs[r].step = "build"
        /\ UNCHANGED <<source, artifact, manifest, zip, package, running, lapses, mending>>
    BY <1>1, <1>3 DEF EndCommand, TaskOK, ghosts
  <2>2. CASE Failed(r) /\ UNCHANGED dist
    BY <2>1, <2>2, FailedSync
  <2>3. CASE /\ dist' = IF \E o \in Run \ {r} : runs[o].at = "command"
                        THEN runs[r].seen ELSE Made(runs[r].seen.v)
             /\ runs' = [runs EXCEPT ![r].at = "fingerprint", ![r].seen = NoFiles]
    <3> DEFINE q == [runs[r] EXCEPT !.at = "fingerprint", !.seen = NoFiles]
    <3>1. runs' = [runs EXCEPT ![r] = q]
      BY <1>1, <2>3
    <3>2. q \in Task /\ q.step = runs[r].step /\ q.at = "fingerprint"
      BY <1>1, Makes DEF Task, Points
    <3> HIDE DEF q
    <3>3. ASSUME Single("build"), BuildTask(r) PROVE dist' = Made(source)
      <4>1. ASSUME NEW o \in Run \ {r}, runs[o].at = "command" PROVE FALSE
        <5>1. o \in Active("build") /\ r \in Active("build")
          BY <2>1, <4>1, TaskIs DEF Active, TaskOK
        <5> QED
          BY <3>3, <5>1 DEF Single
      <4>2. runs[r].seen = [v |-> source, mixed |-> TRUE]
        BY <2>1, <3>3 DEF BuildTask
      <4> QED
        BY <2>3, <4>1, <4>2
    <3>4. runs'[r] = q /\ Single("build") /\ BuildTask(r) => BuildTask(r)'
      BY <2>1, <3>2, <3>3 DEF BuildTask
    <3> QED
      BY <2>1, <3>1, <3>2, <3>4, BuildWorks
  <2> QED
    BY <1>3, <2>2, <2>3 DEF EndCommand
<1>5. CASE Fingerprint(r) /\ Now(r, "exit")
  <2> DEFINE q == [runs[r] EXCEPT !.at = "exit"]
  <2>1. /\ runs' = [runs EXCEPT ![r] = q] /\ runs[r].at = "fingerprint" /\ runs[r].step = "build"
        /\ UNCHANGED <<source, dist, artifact, manifest, zip, package, running, lapses, mending>>
    BY <1>1, <1>5 DEF Fingerprint, Now, ghosts
  <2>2. q \in Task /\ q.step = runs[r].step /\ q.at = "exit"
    BY <1>1 DEF Task, Points
  <2> HIDE DEF q
  <2>3. runs'[r] = q => BuildTask(r)'
    BY <2>2 DEF BuildTask
  <2> QED
    BY <2>1, <2>2, <2>3, BuildWorks
<1>4. CASE Fingerprint(r) /\ ~Now(r, "exit")
  <2> DEFINE q == [runs[r] EXCEPT !.at = "record", !.fingerprint = source]
  <2>1. /\ runs' = [runs EXCEPT ![r] = q] /\ runs[r].at = "fingerprint" /\ runs[r].step = "build"
        /\ UNCHANGED <<source, dist, artifact, manifest, zip, package, running, lapses, mending>>
    BY <1>1, <1>4 DEF Fingerprint, ghosts
  <2>2. /\ q \in Task /\ q.step = runs[r].step /\ q.at = "record" /\ q.fingerprint = source
        /\ q.ok = runs[r].ok
    BY <1>1 DEF Task, Points, TypeInv, FilesOK, ghosts
  <2> HIDE DEF q
  <2>3. runs'[r] = q /\ BuildTask(r) => BuildTask(r)'
    BY <2>1, <2>2 DEF BuildTask
  <2> QED
    BY <2>1, <2>2, <2>3, BuildWorks
<1> QED
  BY <1>2, <1>3, <1>4, <1>5

\* A run of "cdn" that is alone publishes the artifact that it sums up.
LEMMA CdnSync ==
  ASSUME TypeInv, SyncInv, NEW r \in Run,
         \/ List(r) \/ CreateZip(r) \/ PublishClear(r) \/ PublishPost(r) \/ VersionInfo(r)
         \/ CheckSum(r) \/ ListAgain(r) \/ FingerprintOfFailed(r)
  PROVE  SyncInv'
<1> DEFINE Fails ==
             /\ Failed(r) /\ runs[r].at \notin {"idle", "enter"}
             /\ UNCHANGED <<source, dist, artifact, manifest, zip, package, running, lapses, mending>>
<1>1. /\ runs[r] \in Task /\ TaskOK(runs[r]) /\ runs \in [Run -> Task]
      /\ artifact \in Files /\ zip \in Files /\ NoFiles \in Files
      /\ package.stamp \in Stamp /\ package \in [files : Files, stamp : Nat]
      /\ manifest["cdn"].fingerprint \in Int
  BY TaskIs, Makes, StampIs DEF TypeInv, RunsOK, FilesOK, Manifest, Step, Stamp, Version
<1>2. CASE Fails
  BY <1>2, FailedSync
<1>3. CASE List(r)
  <2> DEFINE q == [runs[r] EXCEPT !.at = "zip", !.seen = artifact]
  <2>1. /\ runs' = [runs EXCEPT ![r] = q] /\ runs[r].at = "execute" /\ runs[r].step = "cdn"
        /\ UNCHANGED <<source, dist, artifact, manifest, zip, package, running, lapses>>
        /\ mending' = mending \cup Alone(r)
    BY <1>1, <1>3 DEF List
  <2>2. /\ q \in Task /\ q.step = runs[r].step /\ q.ok = runs[r].ok /\ q.at = "zip" /\ q.seen = artifact
    BY <1>1, <2>1 DEF Task, Points
  <2> HIDE DEF q
  <2>3. runs'[r] = q
    BY <1>1, <2>1
  <2>4. /\ NoBetter("build") /\ (Trusted("cdn")' => Trusted("cdn") \/ Alone(r) # {})
        /\ "cdn" \notin lapses' => Trusted("cdn") /\ "cdn" \notin lapses
    BY <2>1, AloneIs DEF NoBetter, Trusted
  <2>5. runs[r].ok
    BY <1>1, <2>1 DEF TaskOK, Early
  <2>6. CdnTask(r)'
    BY <2>1, <2>2, <2>3, <2>5 DEF CdnTask
  <2>7. SyncedBy(r) => SyncedBy(r)'
    BY <1>1, <2>1, <2>2, <2>3, <2>5 DEF SyncedBy, Current, Unrecorded
  <2> QED
    BY <2>1, <2>2, <2>4, <2>6, <2>7, CdnStep
<1>4. CASE CreateZip(r) /\ ~Fails
  <2> DEFINE q == [runs[r] EXCEPT !.at = "publish", !.seen = NoFiles]
  <2>1. /\ runs' = [runs EXCEPT ![r] = q] /\ runs[r].at = "zip" /\ runs[r].step = "cdn"
        /\ UNCHANGED <<source, dist, artifact, manifest, package, running, lapses, mending>>
        /\ zip' = (IF runs[r].seen = NoFiles THEN NoFiles ELSE artifact)
    BY <1>1, <1>4 DEF CreateZip, TaskOK, ghosts
  <2>2. /\ q \in Task /\ q.step = runs[r].step /\ q.ok = runs[r].ok /\ q.at = "publish"
    BY <1>1, <2>1 DEF Task, Points
  <2> HIDE DEF q
  <2>3. runs'[r] = q /\ CdnTask(r) => CdnTask(r)'
    BY <2>1, <2>2 DEF CdnTask
  <2>4. runs'[r] = q /\ CdnTask(r) /\ SyncedBy(r) => SyncedBy(r)'
    BY <1>1, <2>1, <2>2 DEF CdnTask, SyncedBy, Current, Unrecorded
  <2> QED
    BY <2>1, <2>2, <2>3, <2>4, CdnWorks
<1>5. CASE PublishClear(r) /\ ~Fails
  <2> DEFINE q == [runs[r] EXCEPT !.at = "post", !.seen = zip]
  <2>1. /\ runs' = [runs EXCEPT ![r] = q] /\ runs[r].at = "publish" /\ runs[r].step = "cdn"
        /\ UNCHANGED <<source, dist, artifact, manifest, zip, running, lapses, mending>>
        /\ package'.stamp = package.stamp
    BY <1>1, <1>5 DEF PublishClear, TaskOK, ghosts
  <2>2. /\ q \in Task /\ q.step = runs[r].step /\ q.ok = runs[r].ok /\ q.at = "post" /\ q.seen = zip
    BY <1>1, <2>1 DEF Task, Points
  <2> HIDE DEF q
  <2>3. runs'[r] = q /\ CdnTask(r) => CdnTask(r)'
    BY <2>1, <2>2 DEF CdnTask
  <2>4. runs'[r] = q /\ CdnTask(r) /\ SyncedBy(r) => SyncedBy(r)'
    BY <1>1, <2>1, <2>2 DEF CdnTask, SyncedBy, Current, Unrecorded
  <2> QED
    BY <2>1, <2>2, <2>3, <2>4, CdnWorks
<1>6. CASE PublishPost(r) /\ ~Fails
  <2> DEFINE q == [runs[r] EXCEPT !.at = "info", !.seen = NoFiles]
  <2>1. /\ runs' = [runs EXCEPT ![r] = q] /\ runs[r].at = "post" /\ runs[r].step = "cdn"
        /\ UNCHANGED <<source, dist, artifact, manifest, zip, running, lapses, mending>>
        /\ package'.files = runs[r].seen /\ package'.stamp = package.stamp + 1
    <3>1. /\ runs[r].at = "post" /\ UNCHANGED <<source, dist, artifact, manifest, zip, running, lapses, mending>>
          /\ \/ /\ package' = [files |-> runs[r].seen, stamp |-> package.stamp + 1]
                /\ runs' = [runs EXCEPT ![r].at = "info", ![r].seen = NoFiles]
             \/ Failed(r) /\ UNCHANGED package
      BY <1>6 DEF PublishPost, ghosts
    <3>2. ~(Failed(r) /\ UNCHANGED package)
      BY <1>6, <3>1
    <3>3. /\ package' = [files |-> runs[r].seen, stamp |-> package.stamp + 1]
          /\ runs' = [runs EXCEPT ![r].at = "info", ![r].seen = NoFiles]
      BY <3>1, <3>2
    <3>4. runs' = [runs EXCEPT ![r] = q]
      BY <1>1, <3>3
    <3>5. package'.files = runs[r].seen /\ package'.stamp = package.stamp + 1
      BY <3>3
    <3>6. runs[r].step = "cdn"
      BY <1>1, <3>1 DEF TaskOK
    <3> HIDE DEF q
    <3> QED
      BY <3>1, <3>4, <3>5, <3>6
  <2>2. /\ q \in Task /\ q.step = runs[r].step /\ q.ok = runs[r].ok /\ q.at = "info"
    BY <1>1, <2>1 DEF Task, Points
  <2> HIDE DEF q
  <2>3. runs'[r] = q /\ CdnTask(r) => CdnTask(r)'
    BY <2>1, <2>2 DEF CdnTask
  <2>4. runs'[r] = q /\ CdnTask(r) /\ SyncedBy(r) => SyncedBy(r)'
    BY <1>1, <2>1, <2>2 DEF CdnTask, SyncedBy, Current, Unrecorded
  <2> QED
    BY <2>1, <2>2, <2>3, <2>4, CdnWorks
<1>7. CASE VersionInfo(r) /\ ~Fails
  <2> DEFINE q == [runs[r] EXCEPT !.at = "check", !.fingerprint = package.stamp]
  <2>1. /\ runs' = [runs EXCEPT ![r] = q] /\ runs[r].at = "info" /\ runs[r].step = "cdn"
        /\ UNCHANGED <<source, dist, artifact, manifest, zip, package, running, lapses, mending>>
    BY <1>1, <1>7 DEF VersionInfo, TaskOK, ghosts
  <2>2. /\ q \in Task /\ q.step = runs[r].step /\ q.ok = runs[r].ok /\ q.at = "check" /\ q.fingerprint = package.stamp
    BY <1>1, <2>1 DEF Task, Points
  <2> HIDE DEF q
  <2>3. runs'[r] = q /\ CdnTask(r) => CdnTask(r)'
    BY <2>1, <2>2 DEF CdnTask
  <2>4. runs'[r] = q /\ CdnTask(r) /\ SyncedBy(r) => SyncedBy(r)'
    BY <1>1, <2>1, <2>2 DEF CdnTask, SyncedBy, Current, Unrecorded
  <2> QED
    BY <2>1, <2>2, <2>3, <2>4, CdnWorks
<1>8. CASE CheckSum(r) /\ ~Fails
  <2> DEFINE q == [runs[r] EXCEPT !.at = "record", !.sources = artifact]
  <2>1. /\ runs' = [runs EXCEPT ![r] = q] /\ runs[r].at = "check" /\ runs[r].step = "cdn"
        /\ UNCHANGED <<source, dist, artifact, manifest, zip, package, running, lapses, mending>>
    BY <1>1, <1>8 DEF CheckSum, TaskOK, ghosts
  <2>2. /\ q \in Task /\ q.step = runs[r].step /\ q.ok = runs[r].ok /\ q.at = "record" /\ q.sources = artifact /\ q.fingerprint = runs[r].fingerprint
    BY <1>1, <2>1 DEF Task, Points
  <2> HIDE DEF q
  <2>3. runs'[r] = q /\ CdnTask(r) => CdnTask(r)'
    BY <2>1, <2>2 DEF CdnTask
  <2>4. runs'[r] = q /\ CdnTask(r) /\ SyncedBy(r) => SyncedBy(r)'
    BY <1>1, <2>1, <2>2 DEF CdnTask, SyncedBy, Current, Unrecorded
  <2> QED
    BY <2>1, <2>2, <2>3, <2>4, CdnWorks
<1>9. CASE ListAgain(r)
  <2> DEFINE q == [runs[r] EXCEPT !.at = "listed", !.seen = artifact]
  <2>1. /\ runs' = [runs EXCEPT ![r] = q] /\ runs[r].at = "fingerprint" /\ runs[r].step = "cdn"
        /\ UNCHANGED <<source, dist, artifact, manifest, zip, package, running, lapses, mending>>
    BY <1>1, <1>9 DEF ListAgain, TaskOK, ghosts
  <2>2. /\ q \in Task /\ q.step = runs[r].step /\ q.ok = runs[r].ok /\ q.at = "listed" /\ q.seen = artifact /\ q.fingerprint = runs[r].fingerprint
    BY <1>1, <2>1 DEF Task, Points
  <2> HIDE DEF q
  <2>3. runs'[r] = q /\ CdnTask(r) => CdnTask(r)'
    BY <2>1, <2>2 DEF CdnTask
  <2>4. runs'[r] = q /\ CdnTask(r) /\ SyncedBy(r) => SyncedBy(r)'
    BY <1>1, <2>1, <2>2 DEF CdnTask, SyncedBy, Current, Unrecorded
  <2> QED
    BY <2>1, <2>2, <2>3, <2>4, CdnWorks
<1>10. CASE FingerprintOfFailed(r)
  <2> DEFINE q == [runs[r] EXCEPT !.seen = NoFiles, !.at = IF runs[r].seen # NoFiles /\ artifact = NoFiles THEN "exit" ELSE "record"]
  <2>1. /\ runs' = [runs EXCEPT ![r] = q] /\ runs[r].at = "listed" /\ runs[r].step = "cdn"
        /\ UNCHANGED <<source, dist, artifact, manifest, zip, package, running, lapses, mending>>
    BY <1>1, <1>10 DEF FingerprintOfFailed, TaskOK, ghosts
  <2>2. /\ q \in Task /\ q.step = runs[r].step /\ q.ok = runs[r].ok /\ q.at = (IF runs[r].seen # NoFiles /\ artifact = NoFiles THEN "exit" ELSE "record")
        /\ q.fingerprint = runs[r].fingerprint
    BY <1>1, <2>1 DEF Task, Points
  <2> HIDE DEF q
  <2>3. runs'[r] = q /\ CdnTask(r) => CdnTask(r)'
    BY <2>1, <2>2 DEF CdnTask
  <2>4. runs'[r] = q /\ CdnTask(r) /\ SyncedBy(r) => SyncedBy(r)'
    BY <1>1, <2>1, <2>2 DEF CdnTask, SyncedBy, Current, Unrecorded
  <2> QED
    BY <2>1, <2>2, <2>3, <2>4, CdnWorks
<1> QED
  BY <1>2, <1>3, <1>4, <1>5, <1>6, <1>7, <1>8, <1>9, <1>10

\* The artifact of "build" goes, or the manifest of "cdn" is that of what it published.
LEMMA RecordSync ==
  ASSUME TypeInv, SyncInv, NEW r \in Run, RecordRun(r)
  PROVE  SyncInv'
<1> DEFINE q == [Idle EXCEPT !.step = runs[r].step, !.ok = runs[r].ok,
                   !.at = IF runs[r].ok /\ runs[r].step = "build" THEN "copy" ELSE "exit"]
           m == [kept |-> TRUE, fingerprint |-> runs[r].fingerprint, sources |-> runs[r].sources]
<1>1. /\ runs[r] \in Task /\ runs[r].step \in Step /\ runs[r].ok \in BOOLEAN /\ Idle \in Task
      /\ manifest \in [Step -> Manifest] /\ package.stamp \in Nat
  BY TaskIs, Makes DEF TypeInv, FilesOK, Task
<1>2. /\ runs' = [runs EXCEPT ![r] = q] /\ runs[r].at = "record"
      /\ manifest' = [manifest EXCEPT ![runs[r].step] = m]
      /\ UNCHANGED <<source, dist, zip, package, running>>
  BY DEF RecordRun, Recorded
<1>3. q \in Task
  BY <1>1 DEF Task, Points
<1>4. /\ q.step = runs[r].step /\ q.ok = runs[r].ok
      /\ q.at = IF runs[r].ok /\ runs[r].step = "build" THEN "copy" ELSE "exit"
  BY DEF Idle
<1> HIDE DEF q
<1>7. runs'[r] = q
  BY <1>2 DEF TypeInv, RunsOK
<1>5. CASE runs[r].step = "build"
  <2>1. /\ artifact' = NoFiles /\ lapses' = (lapses \ (mending \cap {"build"})) \cup CdnReads
        /\ mending' = mending \ (CdnReads \cup {"build"})
    BY <1>5 DEF RecordRun
  <2>2. manifest'["build"].fingerprint = runs[r].fingerprint /\ manifest'["cdn"] = manifest["cdn"]
    BY <1>1, <1>2, <1>5 DEF Step
  <2>3. BuildTask(r) => BuildTask(r)'
    BY <1>2, <1>4, <1>7, <2>2 DEF BuildTask
  <2>4. BuildFiles'
    BY <2>1 DEF BuildFiles
  <2>5. /\ NoBetter("cdn") /\ (CdnReads # {} => ~Trusted("cdn")')
        /\ Trusted("build")' => Trusted("build")
        /\ "build" \notin lapses' => Trusted("build")
    BY <2>1 DEF NoBetter, Trusted, CdnReads, Disturbed
  <2> QED
    BY <1>2, <1>3, <1>4, <1>5, <2>2, <2>3, <2>4, <2>5, BuildStep
<1>6. CASE runs[r].step = "cdn"
  <2>1. /\ artifact' = artifact /\ lapses' = lapses \ (mending \cap {"cdn"})
        /\ mending' = mending \ {"cdn"}
    BY <1>6 DEF RecordRun
  <2>2. manifest'["cdn"] = m /\ manifest'["build"] = manifest["build"]
    BY <1>1, <1>2, <1>6 DEF Step
  <2>3. CdnTask(r)'
    BY <1>4, <1>6, <1>7 DEF CdnTask
  <2>4. CdnTask(r) => SyncedBy(r)'
    BY <1>1, <1>2, <2>2 DEF CdnTask, SyncedBy, Current
  <2>5. /\ NoBetter("build") /\ (Trusted("cdn")' => Trusted("cdn"))
        /\ "cdn" \notin lapses' => Trusted("cdn")
    BY <2>1 DEF NoBetter, Trusted
  <2> QED
    BY <1>2, <1>3, <1>4, <1>6, <2>1, <2>2, <2>3, <2>4, <2>5, CdnStep
<1> QED
  BY <1>1, <1>5, <1>6 DEF Step

\* What a removal leaves is no artifact, the former one or a lapse, and a manifest that
\* is not written is the former one, or none.
LEMMA RaisesSync ==
  ASSUME TypeInv, SyncInv, NEW r \in Run, RecordRaises(r)
  PROVE  SyncInv'
<1> DEFINE q == [runs[r] EXCEPT !.at = "exit"]
           S == Torn \cup (IF HalfDone(runs[r]) THEN {"cdn"} ELSE {})
                  \cup (IF artifact' = artifact THEN {} ELSE CdnReads)
<1>1. /\ runs[r] \in Task /\ runs[r].step \in Step /\ manifest \in [Step -> Manifest] /\ package.stamp \in Nat
      /\ runs[r].ok \in BOOLEAN
  BY TaskIs DEF TypeInv, FilesOK, Task
<1>2. /\ runs' = [runs EXCEPT ![r] = q] /\ runs[r].at = "record" /\ Lapse(S)
      /\ artifact' \in {artifact} \cup Cut(r)
      /\ UNCHANGED <<source, dist, zip, package, running>>
  BY DEF RecordRaises, Now
<1>3. q \in Task /\ q.step = runs[r].step /\ q.ok = runs[r].ok /\ q.at = "exit"
  BY <1>1 DEF Task, Points
<1> HIDE DEF q, S
<1>7. runs'[r] = q
  BY <1>2 DEF TypeInv, RunsOK
<1>8. /\ \A s \in Step : /\ manifest'[s] \in {manifest[s], NoManifest}
                         /\ s # runs[r].step => manifest'[s] = manifest[s]
  BY <1>1, <1>2 DEF RecordRaises, CutManifests
<1>9. /\ \A s : NoBetter(s) /\ (Trusted(s)' => Trusted(s)) /\ (s \notin lapses' => s \notin lapses /\ s \notin S)
      /\ \A s \in S : ~Trusted(s)'
      /\ \A s : s \notin lapses => Trusted(s)
  BY <1>2, Lapsing DEF Lapse, Trusted
<1>5. CASE runs[r].step = "build"
  <2>1. artifact' = artifact \/ (CdnReads # {} => ~Trusted("cdn")')
    BY <1>9 DEF S, CdnReads, Disturbed
  <2>2. BuildTask(r)'
    BY <1>3, <1>7 DEF BuildTask
  <2>3. "build" \notin lapses' /\ BuildFiles => BuildFiles'
    <3>1. "build" \notin lapses' => artifact' \in {artifact, NoFiles}
      BY <1>9 DEF S, Torn
    <3> QED
      BY <1>8, <3>1 DEF BuildFiles, NoManifest, Step
  <2>4. manifest'["cdn"] = manifest["cdn"]
    BY <1>5, <1>8 DEF Step
  <2> QED
    BY <1>2, <1>3, <1>5, <1>9, <2>1, <2>2, <2>3, <2>4, BuildStep
<1>6. CASE runs[r].step = "cdn"
  <2>1. artifact' = artifact /\ manifest'["build"] = manifest["build"] /\ manifest'["cdn"] \in {manifest["cdn"], NoManifest}
    BY <1>2, <1>6, <1>8 DEF Cut, Step
  <2>2. CdnTask(r)'
    BY <1>3, <1>6, <1>7 DEF CdnTask
  <2>3. "cdn" \notin lapses' /\ SyncedBy(r) => SyncedBy(r)'
    <3>1. ASSUME "cdn" \notin lapses' PROVE runs[r].ok
      BY <1>1, <1>6, <1>9, <3>1 DEF S, HalfDone
    <3>2. ASSUME runs[r].ok PROVE ~Unrecorded(r)
      BY <1>2, <3>2 DEF Unrecorded
    <3> QED
      BY <1>1, <1>2, <2>1, <3>1, <3>2 DEF SyncedBy, Current, NoManifest
  <2> QED
    BY <1>2, <1>3, <1>6, <1>9, <2>1, <2>2, <2>3, CdnStep
<1> QED
  BY <1>1, <1>5, <1>6 DEF Step

\* The copy is that of the files of the manifest, or it is a lapse.
LEMMA CopySync ==
  ASSUME TypeInv, SyncInv, NEW r \in Run, CreateArtifacts(r)
  PROVE  SyncInv'
<1> DEFINE q == [runs[r] EXCEPT !.at = "exit"]
<1>1. /\ runs[r] \in Task /\ runs[r].step = "build"
      /\ runs' = [runs EXCEPT ![r] = q] /\ runs[r].at = "copy"
      /\ UNCHANGED <<source, dist, manifest, zip, package, running>>
  BY TaskIs DEF CreateArtifacts, Now, TaskOK
<1>2. q \in Task /\ q.step = "build" /\ q.at = "exit"
  BY <1>1 DEF Task, Points
<1> HIDE DEF q
<1>3. BuildTask(r)'
  <2>1. runs'[r] = q
    BY <1>1 DEF TypeInv, RunsOK
  <2> QED
    BY <1>2, <2>1 DEF BuildTask
<1>4. PICK S : /\ Lapse(S) /\ CdnReads \subseteq S
               /\ "build" \notin S => artifact' = dist
  BY DEF CreateArtifacts
<1>5. /\ NoBetter("cdn") /\ (CdnReads # {} => ~Trusted("cdn")')
      /\ Trusted("build")' => Trusted("build") /\ "build" \notin S
      /\ "build" \notin lapses' => Trusted("build")
  <2>1. CdnReads \subseteq {"cdn"}
    BY DEF CdnReads, Disturbed
  <2> QED
    BY <1>4, <2>1, Lapsing DEF Lapse, Trusted
<1>6. "build" \notin lapses' /\ BuildTask(r) => BuildFiles'
  BY <1>1, <1>4 DEF Lapse, BuildTask, BuildFiles
<1> QED
  BY <1>1, <1>2, <1>3, <1>5, <1>6, BuildStep

\* The mark that goes is that of a run whose outcome is recorded.
LEMMA ExitSync ==
  ASSUME TypeInv, SyncInv, NEW r \in Run, Exit(r)
  PROVE  SyncInv'
<1>1. /\ runs \in [Run -> Task] /\ runs[r].step \in Step /\ runs[r].at = "exit" /\ package.stamp \in Nat
      /\ runs' = [runs EXCEPT ![r] = Idle] /\ running' = running \ {runs[r].step}
      /\ mending' = mending \ {runs[r].step}
      /\ UNCHANGED <<source, dist, artifact, manifest, zip, package, lapses>>
  BY TaskIs DEF Exit, TypeInv, RunsOK, FilesOK
<1>2. /\ r \in Active(runs[r].step)
      /\ \A s \in Step : /\ Active(s)' = Active(s) \ {r}
                         /\ \A x \in Active(s) : x \in Active(s)' => runs'[x] = runs[x]
  BY <1>1 DEF Active, Idle
<1>6. \A s : NoBetter(s)
  BY <1>1 DEF NoBetter
<1>3. BuildInv'
  BY <1>1, <1>2, <1>6, BuildKept DEF SyncInv, Step
<1>4. CASE "cdn" \in lapses /\ runs[r].step = "cdn"
  BY <1>1, <1>3, <1>4 DEF SyncInv, CdnInv, Trusted
<1>5. CASE "cdn" \notin lapses \/ runs[r].step # "cdn"
  <2>1. \A x \in Active("cdn") : x \notin Active("cdn")' => ~Unrecorded(x)
    BY <1>1, <1>2 DEF Unrecorded, Step
  <2>2. "cdn" \in running => "cdn" \in running' \/ Active("cdn")' = {}
    <3>1. CASE runs[r].step = "cdn"
      <4>1. Single("cdn")
        BY <1>5, <3>1 DEF SyncInv, CdnInv, Trusted
      <4> QED
        BY <1>2, <3>1, <4>1 DEF Single, Step
    <3>2. CASE runs[r].step # "cdn"
      BY <1>1, <3>2
    <3> QED
      BY <3>1, <3>2
  <2>3. CdnInv'
    BY <1>1, <1>2, <1>6, <2>1, <2>2, CdnKept DEF SyncInv, Step
  <2> QED
    BY <1>3, <2>3 DEF SyncInv
<1> QED
  BY <1>4, <1>5

\* A crash cuts a copy, a removal or a publication, which lapses name, or nothing that counts.
LEMMA KillSync ==
  ASSUME TypeInv, SyncInv, Kill
  PROVE  SyncInv'
<1>1. /\ runs' = [r \in Run |-> Idle] /\ running' = {} /\ mending' = {}
      /\ lapses' = lapses \cup Torn \cup (IF \E r \in Run : HalfDone(runs[r]) THEN {"cdn"} ELSE {})
      /\ UNCHANGED <<source, dist, zip, package>>
      /\ package.stamp \in Nat
  BY DEF Kill, TypeInv, FilesOK
<1>2. \A s \in Step : Active(s)' = {}
  BY <1>1 DEF Active, Idle
<1>3. \A s \in Step : manifest'[s] \in {manifest[s], NoManifest}
  <2>1. PICK r \in Run : manifest' \in CutManifests(r)
    BY DEF Kill
  <2>2. manifest \in [Step -> Manifest] /\ runs[r].step \in Step
    BY TaskIs DEF TypeInv, FilesOK
  <2> QED
    BY <2>1, <2>2 DEF CutManifests
<1>4. \A s : NoBetter(s)
  BY <1>1 DEF NoBetter
<1>5. BuildInv'
  <2>1. CASE "build" \in lapses'
    BY <1>1, <2>1 DEF BuildInv, Trusted
  <2>2. CASE "build" \notin lapses'
    <3>1. artifact' \in {artifact, NoFiles}
      BY <1>1, <2>2 DEF Torn
    <3> QED
      BY <1>1, <1>2, <1>3, <1>4, <3>1, BuildKept DEF SyncInv, Step
  <2> QED
    BY <2>1, <2>2
<1>6. CdnInv'
  <2>1. ASSUME NEW x \in Active("cdn"), Unrecorded(x) PROVE "cdn" \in lapses'
    <3>1. x \in Run /\ HalfDone(runs[x])
      BY <2>1 DEF Active, HalfDone, Unrecorded
    <3> QED
      BY <1>1, <3>1
  <2> QED
    BY <1>1, <1>2, <1>3, <1>4, <2>1, CdnKept DEF SyncInv, Step
<1> QED
  BY <1>5, <1>6 DEF SyncInv

\* Sources that change before they are fingerprinted are a lapse.
LEMMA EditSync ==
  ASSUME TypeInv, SyncInv, Edit
  PROVE  SyncInv'
<1>1. /\ Lapse(BuildReads) /\ package.stamp \in Nat
      /\ UNCHANGED <<dist, artifact, manifest, zip, package, running, runs>>
  BY DEF Edit, TypeInv, FilesOK
<1>2. Active("build")' = Active("build") /\ Active("cdn")' = Active("cdn")
  BY <1>1 DEF Active
<1>5. /\ \A s : NoBetter(s)
      /\ Trusted("build")' => Trusted("build") /\ BuildReads = {}
      /\ "build" \notin lapses' => "build" \notin lapses
  BY <1>1, Lapsing DEF Lapse, BuildReads, Disturbed
<1>3. BuildInv'
  <2>1. ASSUME Trusted("build")'
        PROVE  Single("build")' /\ \A r \in Active("build")' : BuildTask(r)'
    <3>1. Single("build") /\ \A r \in Active("build") : BuildTask(r)
      BY <1>5, <2>1 DEF SyncInv, BuildInv
    <3>2. \A r \in Active("build") : runs[r].at \notin {"command", "fingerprint"}
      BY <1>5, <2>1 DEF BuildReads, Disturbed
    <3>3. \A r \in Active("build") : BuildTask(r)'
      BY <1>1, <3>1, <3>2 DEF BuildTask
    <3> QED
      BY <1>1, <1>2, <3>1, <3>3 DEF Single
  <2>2. "build" \notin lapses' => BuildFiles'
    BY <1>1, <1>5 DEF SyncInv, BuildInv, BuildFiles
  <2> QED
    BY <2>1, <2>2 DEF BuildInv
<1>4. CdnInv'
  BY <1>1, <1>2, <1>5, CdnKept DEF SyncInv
<1> QED
  BY <1>3, <1>4 DEF SyncInv

\* Nothing has run, and nothing is reported OK.
LEMMA InitSync ==
  ASSUME Init
  PROVE  SyncInv
<1>1. \A s \in Step : Active(s) = {}
  BY DEF Init, Active, Idle
<1>2. /\ artifact = NoFiles /\ package.stamp = 0 /\ manifest["cdn"].fingerprint = 0
  BY DEF Init, NoManifest, Step
<1> QED
  BY <1>1, <1>2 DEF SyncInv, BuildInv, CdnInv, Single, BuildFiles, Published, Current, Step

\* Every step preserves what makes a status true.
LEMMA StepSync ==
  ASSUME TypeInv, SyncInv, [Next]_vars
  PROVE  SyncInv'
<1>1. ASSUME NEW s \in Step, NEW up \in BOOLEAN, Request(s, up) PROVE SyncInv'
  BY <1>1, RequestSlot, RequestSync
<1>2. ASSUME NEW r \in Run, Enter(r) PROVE SyncInv'
  <2> DEFINE q == [runs[r] EXCEPT !.at = "announce"]
  <2>1. runs[r] \in Task
    BY TaskIs
  <2>2. /\ runs' = [runs EXCEPT ![r] = q] /\ runs[r].at = "enter" /\ running' = running \cup {runs[r].step}
        /\ UNCHANGED <<source, dist, artifact, manifest, zip, package, lapses, mending>>
    BY <1>2 DEF Enter, Now, ghosts
  <2>3. /\ q \in Task /\ q.step = runs[r].step /\ q.ok = runs[r].ok /\ q.at = "announce"
    BY <2>1 DEF Task, Points
  <2> HIDE DEF q
  <2> QED
    BY <2>2, <2>3, EnterSync
<1>3. ASSUME NEW r \in Run, Announce(r) PROVE SyncInv'
  <2> DEFINE at == IF runs[r].upstream THEN "upstream" ELSE "execute"
             q == [runs[r] EXCEPT !.at = at]
  <2>1. /\ runs[r] \in Task /\ runs[r].at = "announce"
        /\ UNCHANGED <<source, dist, artifact, manifest, zip, package, running, lapses, mending>>
        /\ runs' = [runs EXCEPT ![r] = q] \/ runs' = [runs EXCEPT ![r] = Idle]
    BY <1>3, TaskIs DEF Announce, Now, ghosts
  <2>2. /\ q \in Task /\ q.step = runs[r].step /\ q.ok = runs[r].ok /\ q.at \in {"upstream", "execute"}
    BY <2>1 DEF Task, Points
  <2> HIDE DEF q
  <2> QED
    BY <2>1, <2>2, EnterSync, UnannouncedSync
<1>4. ASSUME NEW r \in Run, Raises(r) PROVE SyncInv'
  <2>1. /\ Failed(r) /\ runs[r].at \notin {"idle", "enter"}
        /\ UNCHANGED <<source, dist, artifact, manifest, zip, package, running, lapses, mending>>
    BY <1>4 DEF Raises, ghosts
  <2> QED
    BY <2>1, FailedSync
<1>5. ASSUME NEW r \in Run, Progress(r) PROVE SyncInv'
  BY <1>2, <1>3, <1>4, <1>5, RunUpstreamSync, BuildSync, CdnSync, RecordSync, RaisesSync, CopySync,
     ExitSync, StepTypes DEF Progress
<1>6. CASE UNCHANGED vars
  <2>1. /\ UNCHANGED <<source, dist, artifact, manifest, zip, package, running, runs, lapses, mending>>
        /\ package.stamp \in Nat
    BY <1>6 DEF vars, ghosts, TypeInv, FilesOK
  <2>2. /\ Active("build")' = Active("build") /\ Active("cdn")' = Active("cdn")
        /\ \A s : NoBetter(s)
    BY <2>1 DEF Active, NoBetter
  <2> QED
    BY <2>1, <2>2, BuildKept, CdnKept DEF SyncInv
<1> QED
  BY <1>1, <1>5, <1>6, EditSync, KillSync DEF Next

\* A step that is reported OK has produced what its inputs would produce now, for any
\* number of edits, of requests and of runs at once: but for a run that shared the step or
\* saw its inputs change, and for files that a kill or an error left half copied, half
\* removed or half published, until a run of the step that nothing disturbs is recorded.
THEOREM StatusIsTrue == Spec => []OkIsInSync
<1>1. Init => TypeInv /\ SyncInv
  BY InitTypes, InitSync
<1>2. TypeInv /\ SyncInv /\ [Next]_vars => (TypeInv /\ SyncInv)'
  BY StepTypes, StepSync
<1>3. TypeInv /\ SyncInv => OkIsInSync
  <2> SUFFICES ASSUME TypeInv, SyncInv, NEW s \in Step, s \notin lapses, Status(s) = "OK"
               PROVE  InSync(s)
    BY DEF OkIsInSync
  <2>1. CASE s = "build"
    <3>1. artifact # NoFiles /\ manifest["build"].fingerprint = source
      BY <2>1 DEF Status, StatusOfBuild
    <3> QED
      BY <2>1, <3>1 DEF SyncInv, BuildInv, BuildFiles, InSync, Status, StatusOfBuild
  <2>2. CASE s = "cdn"
    <3>1. "cdn" \notin running /\ Current /\ manifest["cdn"].sources = artifact
      <4>1. "cdn" \notin running /\ StatusOfCdn = "OK"
        BY <2>2 DEF Status
      <4>2. /\ manifest["cdn"].kept /\ package.stamp # 0
            /\ manifest["cdn"].fingerprint = package.stamp /\ manifest["cdn"].sources = artifact
        BY <4>1 DEF StatusOfCdn
      <4> QED
        BY <4>1, <4>2 DEF Current
    <3>2. Published /\ \A r \in Active("cdn") : CdnTask(r) /\ Marked(r)
      BY <2>2 DEF SyncInv, CdnInv, Trusted
    <3>3. \A r \in Active("cdn") : ~Unrecorded(r)
      BY <3>1, <3>2 DEF Marked, Unrecorded
    <3> QED
      BY <2>2, <3>1, <3>2, <3>3 DEF Published, InSync
  <2> QED
    BY <2>1, <2>2 DEF Step
<1> QED
  BY <1>1, <1>2, <1>3, PTL DEF Spec
================================================================================
