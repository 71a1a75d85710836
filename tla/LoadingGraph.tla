------------------------------ MODULE LoadingGraph ------------------------------
(***************************************************************************)
(* The resolution of a loading graph by the CDN (backends/cdn): from       *)
(* queries like "package p, version ^1", the libraries to be loaded and    *)
(* the layers to load them in.  Rounds of concurrent calls to the database *)
(* read the versions of the packages queried, then the dependencies of the *)
(* versions picked, whose queries make the next round; other clients       *)
(* publish and delete in between.                                          *)
(*                                                                         *)
(* The database is the table of the CDN that answers.  When the request    *)
(* comes from a local application, an index of what its own CDN has is     *)
(* sent along.  A version is its version number; a release has a number    *)
(* that follows the one of its work in progress.  The order of the queries *)
(* of a library, which only breaks ties, is left out.                      *)
(***************************************************************************)
EXTENDS Naturals, FiniteSetsExt, SequencesExt

CONSTANTS
  Package,
  Version,      \* the versions that are published
  Lib,          \* the libraries: versions of packages
  Wip,          \* the versions that are a work in progress, none next to another
  Api,          \* the rank, in the order of their texts, of the API keys of versions
  Selector,     \* the queries that are not a version, "*" for one
  Admits,       \* the releases that each of them admits
  Malformed,    \* a query that no semantic versioning parser accepts
  Dependencies, \* the dependencies that a library of each package may have
  Requests,     \* what may be asked: libraries, and the versions of some to use
  MaxDocs,      \* bound: documents in the two tables
  MaxLapses,    \* bound: changes and failures while a request is resolved
  NoDoc, NoSpec, NotFound, Raised

Semver == Version \cup Selector \cup {Malformed}
Query == Package \X Semver
ApiKey == {Api[v] : v \in Version}
Symbol == Package \X ApiKey

Release(v) == IF v \in Wip THEN v + 1 ELSE v

ASSUME LoadingGraphAssumption ==
  /\ Version \subseteq Nat /\ {NotFound, Raised} \cap Version = {} /\ Wip \subseteq Version
  /\ Lib \subseteq Package \X Version /\ IsFiniteSet(Lib)
  /\ Api \in [Version -> Nat]
  /\ \A v \in Wip : v + 1 \notin Wip /\ (v + 1 \in Version => Api[v + 1] = Api[v])
  /\ Admits \in [Selector -> SUBSET Nat]
  /\ Dependencies \in [Package -> SUBSET SUBSET Query]
  /\ Requests \subseteq [libraries : SUBSET Query, using : [Package -> Semver \cup {NoSpec}]]
  /\ MaxDocs \in Nat /\ MaxLapses \in Nat
  /\ (\A p \in Package : NoDoc \notin Dependencies[p]) /\ NoSpec \notin Semver

VARIABLES
  table,   \* libraries_table of the CDN that answers: the dependencies of its libraries
  local,   \* the one of the local application
  req      \* the request

vars == <<table, local, req>>

IsTable(docs) ==
  DOMAIN docs = Lib /\ \A l \in Lib : docs[l] \in Dependencies[l[1]] \cup {NoDoc}

NoRequest ==
  [at |-> "idle", roots |-> {}, using |-> [p \in Package |-> NoSpec],
   extra |-> [l \in Lib |-> NoDoc],
   todo |-> {},        \* the queries of the round
   cached |-> {},      \* the packages whose versions were cached when it began
   picked |-> <<>>,    \* the versions found for the queries of the round
   missing |-> {},     \* the libraries whose data the round reads
   data |-> <<>>,      \* what was read
   versions |-> <<>>,  \* versions_cache
   resolved |-> <<>>,  \* resolutions_cache
   queries |-> {},     \* the dependencies of the libraries read
   items |-> <<>>,     \* items_dict: the last library read for each symbol
   end |-> "none", layers |-> <<>>,
   lapses |-> <<>>]    \* what has happened since the request began

\* A partial function from S to T.
IsPartial(f, S, T) == DOMAIN f \subseteq S /\ \A x \in DOMAIN f : f[x] \in T

TypeOK ==
  /\ IsTable(table) /\ IsTable(local) /\ IsTable(req.extra)
  /\ req.at \in {"idle", "versions", "data", "done"}
  /\ IsPartial(req.picked, Query, Version \cup {NotFound, Raised})
  /\ IsPartial(req.versions, Package, [known : SUBSET Version, sorted : BOOLEAN])
  /\ IsPartial(req.resolved, Query, Version)
  /\ req.missing \subseteq Lib
  /\ DOMAIN req.data \subseteq req.missing
  /\ \A l \in DOMAIN req.data : req.data[l] = NoDoc \/ req.data[l] \subseteq Query
  /\ IsPartial(req.items, Symbol, [lib : Lib, deps : SUBSET Query])
  /\ req.queries \subseteq Query
  /\ req.end \in {"none", "graph", "dependencies", "circular", "failed"}
  /\ req.end # "none" <=> req.at = "done"
  /\ req.layers \in Seq(SUBSET Lib)
  /\ req.lapses \in Seq({"published", "deleted", "failure"})

Init ==
  /\ table = [l \in Lib |-> NoDoc]
  /\ local = [l \in Lib |-> NoDoc]
  /\ req = NoRequest

-----------------------------------------------------------------------------
(* Versions *)

SymbolOf(l) == <<l[1], Api[l[2]]>>

Has(docs, p) == {v \in Version : <<p, v>> \in Lib /\ docs[p, v] # NoDoc}

\* get_extra_index: the last version for each API key.
Latest(docs) ==
  [l \in Lib |-> IF \E v \in Has(docs, l[1]) : Api[v] = Api[l[2]] /\ v > l[2]
                 THEN NoDoc ELSE docs[l]]

\* The versions of p that the table and the index have, the last first.  When the
\* table has none, those of the index come in the order of the texts of their keys.
Listed(p, inTable) ==
  [known |-> inTable \cup Has(req.extra, p), sorted |-> inTable # {}]

SpecOf(q) == IF req.using[q[1]] = NoSpec THEN q[2] ELSE req.using[q[1]]

\* Mutant: the release is taken, also where only the work in progress exists.
PublishedAsIs(r, versions) == r

\* The version that stands for a release.
Published(r, versions) == IF r \in versions THEN r ELSE r - 1

Fits(q, v) ==
  IF SpecOf(q) \in Version THEN v = SpecOf(q) ELSE Release(v) \in Admits[SpecOf(q)]

\* Mutant: the versions of the table are not sorted.
PickUnsorted(q, listed) ==
  LET fit == {v \in listed.known : Fits(q, v)}
  IN  IF fit = {} THEN NotFound
      ELSE IF SpecOf(q) \in Version THEN SpecOf(q)
      ELSE Published(Release(Min(fit)), listed.known)

\* resolve_version, once the versions are listed: the first that fits.
Pick(q, listed) ==
  LET fit == {v \in listed.known : Fits(q, v)}
      first == IF listed.sorted THEN Max(fit)
               ELSE CHOOSE v \in fit : \A w \in fit : Api[v] <= Api[w]
  IN  IF fit = {} THEN NotFound
      ELSE IF SpecOf(q) \in Version THEN first
      ELSE Published(Release(first), listed.known)

-----------------------------------------------------------------------------
(* Rounds *)

\* f with the values of g, and with y for x.
Over(f, g)    == [x \in DOMAIN f \cup DOMAIN g |-> IF x \in DOMAIN g THEN g[x] ELSE f[x]]
With(f, x, y) == [z \in DOMAIN f \cup {x} |-> IF z = x THEN y ELSE f[z]]

\* A round on queries that remain to be resolved.
StartRound(r, queries) ==
  [r EXCEPT !.at = "versions", !.todo = queries \ DOMAIN r.resolved,
            !.cached = DOMAIN r.versions,
            !.picked = <<>>, !.missing = {}, !.data = <<>>]

\* resolve_loading_tree.  No index is sent when the local CDN is empty.
Start(asked) ==
  /\ req.at = "idle"
  /\ req' = StartRound([NoRequest EXCEPT !.roots = asked.libraries, !.using = asked.using,
                                         !.extra = Latest(local)], asked.libraries)
  /\ UNCHANGED <<table, local>>

Pending(q) == req.at = "versions" /\ q \in req.todo \ DOMAIN req.picked

\* What NpmSpec raises is gathered and not looked at.
ResolveMalformed(q) ==
  /\ Pending(q)
  /\ SpecOf(q) = Malformed
  /\ req' = [req EXCEPT !.picked = With(@, q, Raised)]
  /\ UNCHANGED <<table, local>>

\* The versions are cached once they are listed: queries of a round list them each.
ResolveListed(q) ==
  /\ Pending(q) /\ SpecOf(q) # Malformed
  /\ q[1] \notin req.cached
  /\ LET listed == Listed(q[1], Has(table, q[1]))
     IN  req' = [req EXCEPT !.picked = With(@, q, Pick(q, listed)),
                            !.versions = IF listed.known = {} THEN @
                                         ELSE With(@, q[1], listed)]
  /\ UNCHANGED <<table, local>>

ResolveCached(q) ==
  /\ Pending(q) /\ SpecOf(q) # Malformed
  /\ q[1] \in DOMAIN req.versions
  /\ req' = [req EXCEPT !.picked = With(@, q, Pick(q, req.versions[q[1]]))]
  /\ UNCHANGED <<table, local>>

\* The call to the database fails: an error of the database counts as no version
\* there, and what the connection raises is not looked at.
ListFails(q) ==
  /\ Pending(q) /\ SpecOf(q) # Malformed
  /\ q[1] \notin req.cached
  /\ Len(req.lapses) < MaxLapses
  /\ LET listed == Listed(q[1], {})
         r == [req EXCEPT !.lapses = Append(@, "failure")]
     IN  \/ req' = [r EXCEPT !.picked = With(@, q, Raised)]
         \/ req' = [r EXCEPT !.picked = With(@, q, Pick(q, listed)),
                             !.versions = With(@, q[1], listed)]
  /\ UNCHANGED <<table, local>>

Finish(end, layers) ==
  req' = [req EXCEPT !.at = "done", !.todo = {}, !.cached = {}, !.picked = <<>>,
                     !.versions = <<>>, !.end = end, !.layers = layers]

Resolved == req.at = "versions" /\ DOMAIN req.picked = req.todo

DependenciesError ==
  /\ Resolved
  /\ \E q \in req.todo : req.picked[q] = NotFound
  /\ Finish("dependencies", <<>>)
  /\ UNCHANGED <<table, local>>

Found == {q \in req.todo : req.picked[q] # Raised}

\* Mutant: one library is kept of each package.
KeyOfPackage(l) == l[1]

\* missing_data_versions keeps one library for each exported symbol.
Key(l) == SymbolOf(l)

GatherData(missing) ==
  /\ Resolved
  /\ \A q \in req.todo : req.picked[q] # NotFound
  /\ LET libs == {<<q[1], req.picked[q]>> : q \in Found}
     IN  /\ missing \subseteq libs
         /\ \A l \in libs : \E m \in missing : Key(m) = Key(l)
         /\ \A l, m \in missing : Key(l) = Key(m) => l = m
  /\ req' = [req EXCEPT !.at = "data", !.missing = missing,
                         !.resolved = Over(@, [q \in Found |-> req.picked[q]])]
  /\ UNCHANGED <<table, local>>

Needed(l) == req.at = "data" /\ l \in req.missing \ DOMAIN req.data

\* get_data: from the index, else from the table; a document that is gone is skipped.
GetData(l) ==
  /\ Needed(l)
  /\ req' = [req EXCEPT !.data =
       With(@, l, IF req.extra[l] # NoDoc THEN req.extra[l] ELSE table[l])]
  /\ UNCHANGED <<table, local>>

GetDataFails(l) ==
  /\ Needed(l) /\ req.extra[l] = NoDoc
  /\ Len(req.lapses) < MaxLapses
  /\ req' = [req EXCEPT !.data = With(@, l, NoDoc), !.lapses = Append(@, "failure")]
  /\ UNCHANGED <<table, local>>

Got == {l \in req.missing : req.data[l] # NoDoc}

HasData == req.at = "data" /\ req.missing # {} /\ DOMAIN req.data = req.missing

RoundAfter(got) ==
  LET queries == UNION {req.data[l] : l \in got}
      read(s) == CHOOSE l \in got : SymbolOf(l) = s
  IN  StartRound(
        [req EXCEPT !.queries = @ \cup queries,
                    !.items = Over(@, [s \in {SymbolOf(l) : l \in got} |->
                                         [lib |-> read(s), deps |-> req.data[read(s)]]])],
        queries)

\* Mutant: what could not be read is asked again.
NextRoundOrRetry ==
  /\ HasData
  /\ req' = IF Got = req.missing THEN RoundAfter(Got)
            ELSE [req EXCEPT !.data = [l \in Got |-> @[l]]]
  /\ UNCHANGED <<table, local>>

NextRound ==
  /\ HasData
  /\ req' = RoundAfter(Got)
  /\ UNCHANGED <<table, local>>

-----------------------------------------------------------------------------
(* Layers *)

SymbolFor(q) == <<q[1], Api[req.resolved[q]]>>

\* Mutant: what is in the same layer counts too.
ReadyOfAll(items, remaining) ==
  {s \in remaining : \A q \in items[s].deps : SymbolFor(q) \in DOMAIN items}

\* What remains whose dependencies do not.
Ready(items, remaining) ==
  {s \in remaining : \A q \in items[s].deps : SymbolFor(q) \in DOMAIN items \ remaining}

\* loading_graph: layer after layer, an empty one when it is stuck.
LayersOf(items) ==
  LET layers[remaining \in SUBSET DOMAIN items] ==
        LET ready == Ready(items, remaining)
        IN  IF ready \in {{}, remaining} THEN <<ready>>
                                         ELSE <<ready>> \o layers[remaining \ ready]
  IN  layers[DOMAIN items]

\* A dependency that no round resolved is a KeyError.
Layers ==
  /\ req.at = "data" /\ req.missing = {}
  /\ IF ~ req.queries \subseteq DOMAIN req.resolved THEN Finish("failed", <<>>)
     ELSE LET layers == LayersOf(req.items)
          IN  IF UNION ToSet(layers) # DOMAIN req.items THEN Finish("circular", <<>>)
              ELSE Finish("graph", [i \in DOMAIN layers |->
                                      {req.items[s].lib : s \in layers[i]}])
  /\ UNCHANGED <<table, local>>

\* The client makes another request.
Again ==
  /\ req.at = "done"
  /\ req' = NoRequest
  /\ UNCHANGED <<table, local>>

-----------------------------------------------------------------------------
(* The other clients, before the request and while it is resolved *)

Count(docs) == Cardinality({l \in Lib : docs[l] # NoDoc})

Changes(lapse) ==
  IF req.at = "idle" THEN req' = req
  ELSE /\ req.at \in {"versions", "data"} /\ Len(req.lapses) < MaxLapses
       /\ req' = [req EXCEPT !.lapses = Append(@, lapse)]

\* The document that publish_package creates, or replaces.
Publish(l, deps) ==
  /\ Count(table) + Count(local) < MaxDocs
  /\ table' = [table EXCEPT ![l] = deps]
  /\ Changes("published")
  /\ UNCHANGED local

PublishLocal(l, deps) ==
  /\ Count(table) + Count(local) < MaxDocs
  /\ req.at = "idle"
  /\ local' = [local EXCEPT ![l] = deps]
  /\ UNCHANGED <<table, req>>

\* The document that delete_version deletes.
DeleteVersion(l) ==
  /\ table[l] # NoDoc
  /\ table' = [table EXCEPT ![l] = NoDoc]
  /\ Changes("deleted")
  /\ UNCHANGED local

Step ==
  \/ \E q \in req.todo :
       ResolveMalformed(q) \/ ResolveListed(q) \/ ResolveCached(q) \/ ListFails(q)
  \/ DependenciesError
  \/ \E missing \in SUBSET Lib : GatherData(missing)
  \/ \E l \in req.missing : GetData(l) \/ GetDataFails(l)
  \/ NextRound \/ Layers

Next ==
  \/ \E asked \in Requests : Start(asked)
  \/ Step
  \/ Again
  \/ \E l \in Lib : \E deps \in Dependencies[l[1]] : Publish(l, deps) \/ PublishLocal(l, deps)
  \/ \E l \in Lib : DeleteVersion(l)

Spec == Init /\ [][Next]_vars

\* The event loop runs the request, and the calls it awaits return.
FairSpec == Spec /\ WF_vars(Step)

-----------------------------------------------------------------------------
(* Properties *)

Delivered == UNION ToSet(req.layers)

\* What the client is told to load can be loaded: what a library of a layer depends on
\* is in an earlier layer, with the API of the version that the request resolved.
DependenciesFirst ==
  req.end = "graph" =>
    \A i \in DOMAIN req.layers : \A x \in req.layers[i] :
      \A q \in req.items[SymbolOf(x)].deps :
        \E j \in 1..(i - 1) : SymbolFor(q) \in {SymbolOf(l) : l \in req.layers[j]}

\* A graph answers what was asked, each package in a version that was published and
\* with the API of one that the query admits, whatever is published meanwhile, as
\* long as nothing is deleted, no call fails and the query can be parsed.
Answered ==
  req.end = "graph" /\ ToSet(req.lapses) \subseteq {"published"} =>
    \A q \in req.roots : SpecOf(q) # Malformed =>
      \E l \in Delivered :
        /\ q[1] = l[1] /\ (table[l] # NoDoc \/ req.extra[l] # NoDoc)
        /\ \E v \in Version : Api[v] = Api[l[2]] /\ Fits(q, v)

\* What the answer should be, from the tables alone: the greatest version a query
\* admits, and the libraries that can be reached from the roots.
Known(p) == Has(table, p) \cup Has(req.extra, p)

Fitting(q) ==
  {v \in Known(q[1]) : IF SpecOf(q) \in Version THEN v = SpecOf(q)
                       ELSE Release(v) \in Admits[SpecOf(q)]}

Best(q) == <<q[1], Max(Fitting(q))>>

DependenciesOf(l) == IF req.extra[l] # NoDoc THEN req.extra[l] ELSE table[l]

Solvable(queries) == {q \in queries : SpecOf(q) # Malformed /\ Fitting(q) # {}}

Filed == {l \in Lib : DependenciesOf(l) # NoDoc}

\* The least libraries that the answers to the roots, and to their dependencies, are in.
IsClosed(libs) ==
  {Best(q) : q \in Solvable(req.roots \cup UNION {DependenciesOf(l) : l \in libs})}
    \subseteq libs

Reached == {l \in Filed : \A libs \in SUBSET Filed : IsClosed(libs) => l \in libs}

Asked == req.roots \cup UNION {DependenciesOf(l) : l \in Reached}

HasCycle ==
  \E L \in (SUBSET Reached) \ {{}} :
    \A l \in L : \E q \in DependenciesOf(l) : Best(q) \in L

\* One version is enough of each API, and no package is known by the local CDN only
\* in several versions.
Unambiguous ==
  /\ \A l, m \in Reached : SymbolOf(l) = SymbolOf(m) => l = m
  /\ \A q \in Asked : SpecOf(q) # Malformed
                     /\ (Has(table, q[1]) # {} \/ Cardinality(Known(q[1])) <= 1)

\* When nothing happens meanwhile the rounds find what a look at the tables finds: an
\* error if a query has no answer, a cycle if there is one, else the libraries that
\* can be reached from what is asked, in their greatest versions.
OutcomeAsExpected ==
  req.at = "done" /\ req.lapses = <<>> /\ Unambiguous =>
    IF Solvable(Asked) # Asked THEN req.end = "dependencies"
    ELSE IF HasCycle THEN req.end = "circular"
    ELSE req.end = "graph" /\ Delivered = Reached

\* A request ends, whatever depends on what: no query is resolved twice.
RequestEnds == req.at = "versions" ~> req.at = "done"
=============================================================================
