------------------------------ MODULE BrowserCache ------------------------------
(***************************************************************************)
(* The emulated browser cache (app/environment/browser_cache_store.py) and *)
(* the middleware that asks it, in its mode "disk".  Each environment has  *)
(* a store: entries in memory, that name a file of the local databases,    *)
(* and lines appended to a file of the session through a buffer.  The      *)
(* first request of an environment opens that file, over several awaits;   *)
(* a reload stops the store of the environment it replaces.                *)
(*                                                                         *)
(* A file is its length, the one thing that is compared, and a session is  *)
(* a user: the configuration key is the same for every environment.        *)
(***************************************************************************)
EXTENDS Naturals, FiniteSets, SequencesExt

CONSTANTS
  User, Url, Client,
  Length,      \* lengths of the files
  MaxCount,    \* maxCount of the configuration
  MaxStores,   \* bound: environments
  MaxRequests, \* bound: requests of a behaviour
  MaxChanges,  \* bound: changes of files, and clears, of a behaviour
  NoUser

ASSUME BrowserCacheAssumption ==
  /\ Length \subseteq Nat \ {0} /\ MaxCount \in Nat \ {0}
  /\ MaxStores \in Nat \ {0} /\ MaxRequests \in Nat /\ MaxChanges \in Nat
  /\ NoUser \notin User

Gone == 0

VARIABLES
  files,   \* the files of the local databases
  disk,    \* the file of each session, on disk
  stores,  \* the store of each environment; the last is the current one
  reload,  \* whether an environment is being loaded
  req,     \* what each request is doing
  counts   \* the requests and the changes so far

vars == <<files, disk, stores, reload, req, counts>>

Entry == [url : Url, length : Length]

NewStore == [key |-> NoUser,      \* _file_key
             handle |-> "none",   \* _output_file
             buffer |-> <<>>,     \* lines written and not flushed
             items |-> <<>>,      \* _items, in the order of the dictionary
             lapses |-> {}]       \* what has happened to this store

Idle == [at |-> "idle", store |-> 1, user |-> NoUser, url |-> NoUser, length |-> Gone,
         read |-> <<>>]

Current == stores[Len(stores)]

TypeOK ==
  /\ files \in [Url -> Length \cup {Gone}]
  /\ DOMAIN disk = User
  /\ \A u \in User : disk[u].exists \in BOOLEAN /\ disk[u].lines \in Seq(Entry)
  /\ Len(stores) \in 1..MaxStores
  /\ \A i \in DOMAIN stores :
       LET s == stores[i]
       IN  /\ s.key \in User \cup {NoUser}
           /\ s.handle \in {"none", "open", "closed"}
           /\ s.buffer \in Seq(Entry) /\ (s.buffer # <<>> => s.handle = "open")
           /\ s.items \in Seq(Entry) /\ IsInjective([j \in DOMAIN s.items |-> s.items[j].url])
           /\ s.lapses \subseteq {"raced", "cleared", "trimmed", "shared", "late", "crashed"}
  /\ reload \in BOOLEAN
  /\ \A c \in Client : req[c].at \in {"idle", "init", "open", "create", "loaded", "lookup", "fetch",
                                     "cache"}
  /\ counts \in [requests : 0..MaxRequests, changes : 0..MaxChanges]

Init ==
  /\ files \in [Url -> Length]
  /\ disk = [u \in User |-> [exists |-> FALSE, lines |-> <<>>]]
  /\ stores = <<NewStore>>
  /\ reload = FALSE
  /\ req = [c \in Client |-> Idle]
  /\ counts = [requests |-> 0, changes |-> 0]

-----------------------------------------------------------------------------
(* Dictionaries *)

Holds(items, url) == \E i \in DOMAIN items : items[i].url = url
EntryOf(items, url) == items[CHOOSE i \in DOMAIN items : items[i].url = url]

\* The dictionary after one entry is set: a key keeps its place.
Put(items, e) ==
  IF Holds(items, e.url)
  THEN [i \in DOMAIN items |-> IF items[i].url = e.url THEN e ELSE items[i]]
  ELSE Append(items, e)

\* Mutant: the first line of a key is kept.
PutAllFirst(items, entries) ==
  FoldLeft(LAMBDA d, e : IF Holds(d, e.url) THEN d ELSE Put(d, e), items, entries)

\* The entries of the lines of a file, in their order.
PutAll(items, entries) == FoldLeft(Put, items, entries)

Without(items, url) == SelectSeq(items, LAMBDA e : e.url # url)

LastOf(s, n) == IF Len(s) <= n THEN s ELSE SubSeq(s, Len(s) - n + 1, Len(s))

-----------------------------------------------------------------------------
(* Requests *)

Goto(c, at) == req' = [req EXCEPT ![c].at = at]

StoreOf(c) == stores[req[c].store]

\* The middleware takes the environment of the request.
Begin(c, u, url) ==
  /\ req[c].at = "idle"
  /\ counts.requests < MaxRequests
  /\ counts' = [counts EXCEPT !.requests = @ + 1]
  /\ req' = [req EXCEPT ![c] = [Idle EXCEPT !.at = "init", !.store = Len(stores),
                                            !.user = u, !.url = url]]
  /\ UNCHANGED <<files, disk, stores, reload>>

\* _init_cache, when the key is set: the file may not be open yet.
Initialised(c) ==
  /\ req[c].at = "init"
  /\ StoreOf(c).key # NoUser
  /\ Goto(c, "lookup")
  /\ stores' = [stores EXCEPT ![req[c].store].lapses =
                  IF StoreOf(c).handle = "none" THEN @ \cup {"raced"} ELSE @]
  /\ UNCHANGED <<files, disk, reload, counts>>

\* Several requests may find that it is not.
NotInitialised(c) ==
  /\ req[c].at = "init"
  /\ StoreOf(c).key = NoUser
  /\ Goto(c, "open")
  /\ UNCHANGED <<files, disk, stores, reload, counts>>

\* The lines whose file exists.
Sane(lines) == SelectSeq(lines, LAMBDA e : files[e.url] # Gone)

\* The key is the one of the first request, and stays.
Open(c) ==
  /\ req[c].at = "open"
  /\ LET s == StoreOf(c)
         key == IF s.key = NoUser THEN req[c].user ELSE s.key
         raced == [stores EXCEPT ![req[c].store].key = key,
                                 ![req[c].store].lapses = IF s.key = NoUser THEN @
                                                          ELSE @ \cup {"raced"}]
         sane == Sane(disk[key].lines)
     IN  IF disk[key].exists
         THEN /\ stores' = [raced EXCEPT ![req[c].store].items = PutAll(@, sane)]
              /\ req' = [req EXCEPT ![c].at = "loaded", ![c].read = sane]
         ELSE stores' = raced /\ Goto(c, "create")
  /\ UNCHANGED <<files, disk, reload, counts>>

\* The head line is appended, and the file read again, also if it exists by now.
Create(c) ==
  /\ req[c].at = "create"
  /\ LET key == StoreOf(c).key
         sane == Sane(disk[key].lines)
     IN  /\ disk' = [disk EXCEPT ![key].exists = TRUE]
         /\ stores' = [stores EXCEPT ![req[c].store].items = PutAll(@, sane)]
         /\ req' = [req EXCEPT ![c].at = "loaded", ![c].read = sane]
  /\ UNCHANGED <<files, reload, counts>>

\* The file is written again if it has duplicated or corrupted lines, or too many;
\* what was buffered for a handle that is replaced follows.  A store that was opening
\* its file when its environment was stopped opens it nevertheless.
OpenOutput(c) ==
  /\ req[c].at = "loaded"
  /\ LET s == StoreOf(c)
         d == disk[s.key]
         rewrite == \/ Len(s.items) # Len(req[c].read)
                    \/ Len(d.lines) # Len(req[c].read)
                    \/ Len(req[c].read) > MaxCount
         kept == IF rewrite THEN LastOf(s.items, MaxCount) ELSE d.lines
         shared == \E i \in DOMAIN stores \ {req[c].store} : stores[i].handle = "open"
         lapses == {x \in {"shared", "trimmed"} :
                      IF x = "shared" THEN shared ELSE rewrite /\ Len(s.items) > MaxCount}
     IN  /\ disk' = [disk EXCEPT ![s.key].lines = kept \o s.buffer]
         /\ stores' = [i \in DOMAIN stores |->
               IF i = req[c].store THEN [s EXCEPT !.handle = "open", !.buffer = <<>>,
                                                  !.lapses = @ \cup lapses]
               ELSE [stores[i] EXCEPT !.lapses = IF shared THEN @ \cup {"shared"} ELSE @]]
  /\ Goto(c, "lookup")
  /\ UNCHANGED <<files, reload, counts>>

\* try_get: an entry whose file is gone is dropped, one whose file has changed ignored.
Lookup(c) ==
  /\ req[c].at = "lookup"
  /\ LET url == req[c].url
         items == StoreOf(c).items
         there == Holds(items, url)
     IN  /\ req' = IF there /\ files[url] = EntryOf(items, url).length
                   THEN [req EXCEPT ![c] = Idle]
                   ELSE [req EXCEPT ![c].at = "fetch"]
         /\ stores' = IF there /\ files[url] = Gone
                      THEN [stores EXCEPT ![req[c].store].items = Without(@, url)]
                      ELSE stores
  /\ UNCHANGED <<files, disk, reload, counts>>

\* call_next; what cannot be cached goes to the browser.
Fetch(c) ==
  /\ req[c].at = "fetch"
  /\ req' = IF files[req[c].url] = Gone THEN [req EXCEPT ![c] = Idle]
            ELSE [req EXCEPT ![c].at = "cache", ![c].length = files[req[c].url]]
  /\ UNCHANGED <<files, disk, stores, reload, counts>>

NewEntry(c) == [url |-> req[c].url, length |-> req[c].length]

\* Mutant: a key that is there is not written again.
WritesOnce(c) == StoreOf(c).handle = "open" /\ ~ Holds(StoreOf(c).items, req[c].url)

Writes(c) == StoreOf(c).handle = "open"

\* cache_if_needed; to write in a file that is closed raises, after the entry is set.
Cache(c) ==
  /\ req[c].at = "cache"
  /\ stores' = [stores EXCEPT ![req[c].store] =
       [@ EXCEPT !.items = Put(@, NewEntry(c)),
                 !.buffer = IF Writes(c) THEN Append(@, NewEntry(c)) ELSE @,
                 !.lapses = IF StoreOf(c).handle = "closed" THEN @ \cup {"late"} ELSE @]]
  /\ req' = [req EXCEPT ![c] = Idle]
  /\ UNCHANGED <<files, disk, reload, counts>>

-----------------------------------------------------------------------------
(* The rest of the application *)

CountChange ==
  /\ counts.changes < MaxChanges
  /\ counts' = [counts EXCEPT !.changes = @ + 1]

\* A library is published again, deleted, or downloaded.
Change(url, length) ==
  /\ length # files[url] /\ CountChange
  /\ files' = [files EXCEPT ![url] = length]
  /\ UNCHANGED <<disk, stores, reload, req>>

\* The buffer of a file is flushed when it is full.
Flush(i) ==
  /\ stores[i].buffer # <<>>
  /\ disk' = [disk EXCEPT ![stores[i].key].lines = @ \o stores[i].buffer]
  /\ stores' = [stores EXCEPT ![i].buffer = <<>>]
  /\ UNCHANGED <<files, reload, req, counts>>

\* clear: truncate flushes, then cuts; there may be no file to truncate.
Clear(memory, file) ==
  LET i == Len(stores)
      s == [Current EXCEPT !.items = IF memory THEN <<>> ELSE @,
                           !.lapses = @ \cup {"cleared"}]
  IN  /\ memory \/ file
      /\ CountChange
      /\ IF file /\ s.handle = "open"
         THEN /\ disk' = [disk EXCEPT ![s.key].lines = <<>>]
              /\ stores' = [stores EXCEPT ![i] = [s EXCEPT !.buffer = <<>>]]
         ELSE disk' = disk /\ stores' = [stores EXCEPT ![i] = s]
      /\ UNCHANGED <<files, reload, req>>

\* stop: the file is closed, if there is one.
Stopped(s) == IF s.handle = "open" THEN [s EXCEPT !.handle = "closed", !.buffer = <<>>] ELSE s

\* reload stops the current environment, then loads the next one.
ReloadStop ==
  /\ ~ reload /\ Len(stores) < MaxStores
  /\ reload' = TRUE
  /\ disk' = IF Current.handle = "open"
             THEN [disk EXCEPT ![Current.key].lines = @ \o Current.buffer] ELSE disk
  /\ stores' = [stores EXCEPT ![Len(stores)] = Stopped(@)]
  /\ UNCHANGED <<files, req, counts>>

ReloadSet ==
  /\ reload
  /\ reload' = FALSE
  /\ stores' = Append(stores, NewStore)
  /\ UNCHANGED <<files, disk, req, counts>>

\* The configuration is refused: the current environment stays, stopped.
ReloadFails ==
  /\ reload
  /\ reload' = FALSE
  /\ UNCHANGED <<files, disk, stores, req, counts>>

\* The application is killed and started again: what is buffered is lost.
Restart ==
  /\ Len(stores) < MaxStores
  /\ reload' = FALSE
  /\ stores' = Append([i \in DOMAIN stores |->
                         [stores[i] EXCEPT !.buffer = <<>>, !.handle =
                            IF @ = "open" THEN "closed" ELSE @,
                            !.lapses = @ \cup {"crashed"}]], NewStore)
  /\ req' = [c \in Client |-> Idle]
  /\ UNCHANGED <<files, disk, counts>>

Step(c) ==
  \/ Initialised(c) \/ NotInitialised(c) \/ Open(c) \/ Create(c) \/ OpenOutput(c)
  \/ Lookup(c) \/ Fetch(c) \/ Cache(c)

Next ==
  \/ \E c \in Client : Step(c)
  \/ \E c \in Client, u \in User, url \in Url : Begin(c, u, url)
  \/ \E url \in Url, length \in Length \cup {Gone} : Change(url, length)
  \/ \E i \in DOMAIN stores : Flush(i)
  \/ \E memory, file \in BOOLEAN : Clear(memory, file)
  \/ ReloadStop \/ ReloadSet \/ ReloadFails \/ Restart

Spec == Init /\ [][Next]_vars

-----------------------------------------------------------------------------
(* Properties *)

\* The last line for url among lines, as a set.
LastLine(lines, url) ==
  LET of == SelectSeq(lines, LAMBDA e : e.url = url)
  IN  IF of = <<>> THEN {} ELSE {of[Len(of)]}

\* What an open store has in memory, its file has too: the last line for a resource is
\* its entry.  Not so if requests came while the first one was opening the file, after
\* a clear of the file only, or for entries over maxCount.
Persisted ==
  Current.handle = "open" /\ Current.lapses = {} =>
    \A i \in DOMAIN Current.items :
      LET e == Current.items[i]
      IN  LastLine(disk[Current.key].lines \o Current.buffer, e.url) = {e}

\* A reload loses nothing: when the next environment reads the file of the same session,
\* each entry its predecessor had is there again, unless the file it names is gone.
Restored ==
  [][\A c \in Client : req[c].at # "loaded" /\ req'[c].at = "loaded" /\ req[c].store > 1 =>
       LET old == stores[req[c].store - 1]
           new == stores'[req[c].store]
       IN  old.key = new.key /\ old.handle = "closed" /\ old.lapses \cup new.lapses = {} =>
             \A i \in DOMAIN old.items :
               files[old.items[i].url] # Gone => Contains(new.items, old.items[i])]_vars
=============================================================================
