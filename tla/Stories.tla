-------------------------------- MODULE Stories --------------------------------
(***************************************************************************)
(* One story of the stories backend (backends/stories): the document of    *)
(* the story, the documents of its pages, a tree under the root page, and  *)
(* the files of its contents.  A page is kept under its parent and its     *)
(* position, not under its id: to write at a position that is taken        *)
(* overwrites the page there, and to delete deletes whatever is there.     *)
(*                                                                         *)
(* A request is a few queries, each an action, then calls it gathers,      *)
(* that are made in any order; one that fails answers the request and      *)
(* leaves the others running.                                              *)
(*                                                                         *)
(* A position is the text of a number: n counts halves of a unit, and d    *)
(* tells apart the fractions of a second that two requests for a new page  *)
(* add to it.  Queries sort texts, which are not in the order of numbers,  *)
(* for a move writes them without zeros on the left: what comes first, or  *)
(* last, may be any, but texts of numbers below zero sort before "0".  Two *)
(* ways to write one number, two places in the code, are one place here.   *)
(***************************************************************************)
EXTENDS Integers, FiniteSets

CONSTANTS
  Client, Page,
  Story, Root,   \* the ids of the story and of its root page
  None,
  Op,            \* the requests that are made
  Chunk,         \* chunk_size, the limit of the queries of children
  Moves,         \* bound: the numbers that pages are moved to
  MaxRequests    \* bound: requests of a behaviour

ASSUME StoriesAssumption ==
  /\ Chunk \in Nat \ {0} /\ MaxRequests \in Nat /\ Moves \subseteq Int
  /\ Op \subseteq {"putStory", "put", "rename", "move", "deletePage", "deleteStory", "zip", "publish"}
  /\ Story \notin Page \cup {Root} /\ Root \notin Page /\ None \notin Page \cup {Story, Root}

VARIABLES
  story,   \* whether the story has its document
  docs,    \* the table of the documents of pages
  files,   \* the contents stored for the story
  zip,     \* the zip files downloaded so far, as their documents
  req,     \* what each request is doing
  count,   \* requests so far
  lapses,  \* what has happened that a story does not survive
  past     \* the documents ever posted, and the pages that a deletion has found

vars == <<story, docs, files, zip, req, count, lapses, past>>

Id == Page \cup {Root}
Global == "global-contents"
Requirements == "requirements"
Extra == {Global, Requirements}

\* The other files of a story are not named as pages are.
ASSUME NamesAssumption == Id \cap Extra = {}

Doc == [id : Id, parent : Id \cup {Story}, n : Int, d : Page \cup {None}]

\* Calls gathered: documents to post and to drop, files to write and to erase, and
\* what is done to the story as a whole.
NoCall == [post |-> {}, drop |-> {}, write |-> {}, erase |-> {}, rest |-> {}]

Idle == [op |-> "none", at |-> "idle", page |-> None, parent |-> None, n |-> 0, d |-> None,
         read |-> {}, found |-> {}, frontier |-> {}, todo |-> NoCall, ok |-> TRUE]

TypeOK ==
  /\ story \in BOOLEAN
  /\ docs \subseteq Doc
  /\ \A d, e \in docs : d.parent = e.parent /\ d.n = e.n /\ d.d = e.d => d = e
  /\ files \subseteq Id \cup Extra
  /\ \A z \in zip : z \subseteq Doc
  /\ count \in 0..MaxRequests
  /\ lapses \subseteq {"overlap", "root", "cycle", "taken", "below", "full"}
  /\ past.posted \subseteq Doc /\ past.doomed \subseteq Id
  /\ \A c \in Client :
       LET r == req[c]
       IN  /\ r.op \in Op \cup {"none"} /\ r.page \in Id \cup {None} /\ r.ok \in BOOLEAN
           /\ r.parent \in Id \cup {None} /\ r.n \in Int /\ r.d \in Page \cup {None}
           /\ r.read \cup r.found \cup r.todo.post \cup r.todo.drop \subseteq Doc
           /\ r.frontier \subseteq Id
           /\ r.todo.write \cup r.todo.erase \subseteq Id \cup Extra
           /\ r.todo.rest \subseteq {"create", "delete", "deleteGroup"}

Init ==
  /\ story = FALSE /\ docs = {} /\ files = {} /\ zip = {}
  /\ req = [c \in Client |-> Idle]
  /\ count = 0 /\ lapses = {} /\ past = [posted |-> {}, doomed |-> {}]

-----------------------------------------------------------------------------
(* The table of documents *)

\* The primary key is the parent and the position.
SameKey(d, e) == d.parent = e.parent /\ d.n = e.n /\ d.d = e.d

\* create_document updates too.
Post(d) == {e \in docs : ~ SameKey(d, e)} \cup {d}

\* Mutant: documents are deleted by the first part of their key.
DropPartition(d) == {e \in docs : e.parent # d.parent}

Drop(d) == {e \in docs : ~ SameKey(d, e)}

\* query document_id=...#1 answers one of these.
First(id) == {d \in docs : d.id = id}

\* query parent_document_id=..., ordered by position, the last first, answers one of these.
Last(id) ==
  LET those == {d \in docs : d.parent = id}
  IN  {d \in those : d.n >= 0 \/ \A e \in those : e.n < 0}

\* query parent_document_id=...,position>=0.
Children(id) == {d \in docs : d.parent = id /\ d.n >= 0}

\* A page is in all that holds another one and the children of what it holds.
Descends(id, from) ==
  \A ids \in SUBSET Id :
    from \in ids /\ (\A d \in docs : d.parent \in ids => d.id \in ids) => id \in ids

-----------------------------------------------------------------------------
(* Requests *)

Goto(c, at) == req' = [req EXCEPT ![c].at = at]
Gather(c, todo) == req' = [req EXCEPT ![c].at = "gather", ![c].todo = todo]

Destructive == {"move", "deletePage", "deleteStory", "publish"}

\* Where a request is going to write.
Target(r) ==
  CASE r.op = "move" -> {[id |-> r.page, parent |-> r.parent, n |-> r.n, d |-> r.d]}
    [] r.op = "publish" -> r.read
    [] OTHER -> {}

\* What a request that begins may do to the story by its very arguments: it overlaps with
\* another, takes the place that another page has or had, and so on.
Lapses(c, r) ==
  LET others == Client \ {c}
      known == past.posted \cup UNION {Target(req[o]) : o \in others}
  IN  {l \in {"overlap", "root", "cycle", "taken", "below"} :
         \/ l = "overlap" /\ \E o \in others : /\ req[o].op # "none"
                                              /\ {r.op, req[o].op} \cap Destructive # {}
         \/ l = "root" /\ r.op \in {"move", "deletePage"} /\ r.page = Root
         \/ l = "cycle" /\ r.op = "move" /\ Descends(r.parent, r.page)
         \/ l = "below" /\ r.op = "move" /\ r.n < 0
         \/ l = "taken" /\ \E d \in Target(r), e \in known : SameKey(d, e) /\ d.id # e.id}

Begin(c, r) ==
  /\ req[c] = Idle
  /\ r.op \in Op /\ count < MaxRequests
  /\ count' = count + 1
  /\ req' = [req EXCEPT ![c] = r]
  /\ lapses' = lapses \cup Lapses(c, r)
  /\ UNCHANGED <<story, docs, files, zip, past>>

\* put_story, without the id of a story that is there.
PutStory(c) ==
  /\ ~ story /\ docs = {} /\ files = {} /\ \A o \in Client : req[o] = Idle
  /\ Begin(c, [Idle EXCEPT !.op = "putStory", !.at = "gather", !.todo =
       [NoCall EXCEPT !.post = {[id |-> Root, parent |-> Story, n |-> 0, d |-> None]},
                      !.write = {Root} \cup Extra, !.rest = {"create"}]])

\* put_document, with an id that is not used yet, under a page the client knows.
PutPage(c, page, parent) ==
  /\ \E d \in docs : d.id = parent
  /\ page \notin {d.id : d \in docs} \cup {req[o].page : o \in Client} \cup files
  /\ \A z \in zip : \A d \in z : d.id # page
  /\ Begin(c, [Idle EXCEPT !.op = "put", !.at = "siblings", !.page = page, !.parent = parent])

\* post_document; post_story does the same to the root page.
Rename(c, d) == Begin(c, [Idle EXCEPT !.op = "rename", !.at = "page", !.page = d.id])

\* move_document: a number, or the position of a page there is.
Move(c, d, parent, n, of) ==
  /\ \E e \in docs : e.id = parent
  /\ Begin(c, [Idle EXCEPT !.op = "move", !.at = "page", !.page = d.id, !.parent = parent,
                           !.n = n, !.d = of])

DeletePage(c, d) ==
  Begin(c, [Idle EXCEPT !.op = "deletePage", !.at = "list", !.page = d.id, !.frontier = {d.id}])

DeleteStory(c) == story /\ Begin(c, [Idle EXCEPT !.op = "deleteStory", !.at = "story"])

DownloadZip(c) == story /\ Begin(c, [Idle EXCEPT !.op = "zip", !.at = "query", !.page = Root])

\* publish_story, of a zip file downloaded before.
Publish(c, z) == Begin(c, [Idle EXCEPT !.op = "publish", !.at = "query", !.page = Root, !.read = z])

-----------------------------------------------------------------------------
(* Their queries *)

Fail(c) == req' = [req EXCEPT ![c].at = "gather", ![c].ok = FALSE]

\* position_start, or position_next of the last page there.
Positions(id) == IF Last(id) = {} THEN {0} ELSE {2 * (d.n \div 2) + 2 : d \in Last(id)}

\* The new page goes after the last one.
Siblings(c) ==
  /\ req[c].at = "siblings"
  /\ \E n \in Positions(req[c].parent) :
       LET r == req[c]
           doc == [id |-> r.page, parent |-> r.parent, n |-> n, d |-> r.page]
       IN  Gather(c, [NoCall EXCEPT !.post = {doc}, !.write = {r.page}])
  /\ UNCHANGED <<story, docs, files, zip, count, lapses, past>>

\* The document of the page, or an IndexError.
QueryPage(c) ==
  /\ req[c].at = "page"
  /\ \/ First(req[c].page) = {} /\ Fail(c)
     \/ \E d \in First(req[c].page) :
          \/ req[c].op = "rename" /\ Gather(c, [NoCall EXCEPT !.post = {d}])
          \/ req[c].op = "move" /\ req' = [req EXCEPT ![c].at = "drop", ![c].read = {d}]
  /\ UNCHANGED <<story, docs, files, zip, count, lapses, past>>

\* A page moved is deleted, then created.
MoveDrop(c) ==
  /\ req[c].at = "drop"
  /\ \E d \in req[c].read : docs' = Drop(d)
  /\ Goto(c, "create")
  /\ UNCHANGED <<story, files, zip, count, lapses, past>>

MoveCreate(c) ==
  /\ req[c].at = "create"
  /\ \E d \in Target(req[c]) : docs' = Post(d)
  /\ past' = [past EXCEPT !.posted = @ \cup Target(req[c])]
  /\ Goto(c, "gather")
  /\ UNCHANGED <<story, files, zip, count, lapses>>

\* publish_story and download_zip look for the story first.
QueryStory(c) ==
  /\ req[c].at = "query"
  /\ \/ req[c].op = "publish" /\ story /\ Goto(c, "story")
     \/ req[c].op = "publish" /\ ~ story /\ Goto(c, "recreate")
     \/ req[c].op = "zip" /\ story /\ req' = [req EXCEPT ![c].at = "list", ![c].frontier = {Root}]
     \/ req[c].op = "zip" /\ ~ story /\ Fail(c)
  /\ UNCHANGED <<story, docs, files, zip, count, lapses, past>>

\* get_story_impl: the story must have one root; global contents are created if missing.
GetStory(c) ==
  /\ req[c].at = "story"
  /\ LET roots == {d \in docs : d.parent = Story}
     IN  IF story /\ Cardinality(roots) = 1
         THEN /\ files' = files \cup {Global}
              /\ req' = [req EXCEPT ![c].at = "list", ![c].frontier = {d.id : d \in roots},
                                    ![c].page = (CHOOSE d \in roots : TRUE).id,
                                    ![c].todo.rest = {"delete", "deleteGroup"}]
         ELSE Fail(c) /\ files' = files
  /\ UNCHANGED <<story, docs, zip, count, lapses, past>>

\* Mutant: the children of children are not looked for.
FrontierFlat(c, parent) == req[c].frontier \ {parent}

FrontierAfter(c, parent) == (req[c].frontier \ {parent}) \cup {d.id : d \in Children(parent)}

\* get_children_rec, one query at a time; a full chunk raises a KeyError.
ListChildren(c, parent) ==
  /\ req[c].at = "list" /\ parent \in req[c].frontier
  /\ IF Cardinality(Children(parent)) >= Chunk
     THEN /\ req' = [req EXCEPT ![c].at = "gather", ![c].ok = FALSE, ![c].frontier = {}]
          /\ lapses' = lapses \cup {"full"}
     ELSE /\ req' = [req EXCEPT ![c].found = @ \cup Children(parent),
                                ![c].frontier = FrontierAfter(c, parent)]
          /\ lapses' = lapses
  /\ UNCHANGED <<story, docs, files, zip, count, past>>

\* Then the page itself, which may be gone by now; documents are deleted, or zipped.
QuerySelf(c) ==
  /\ req[c].at = "list" /\ req[c].frontier = {}
  /\ \/ First(req[c].page) = {} /\ Fail(c) /\ past' = past
     \/ \E d \in First(req[c].page) :
          LET all == req[c].found \cup {d}
          IN  IF req[c].op = "zip"
              THEN req' = [req EXCEPT ![c].at = "read", ![c].found = all] /\ past' = past
              ELSE /\ req' = [req EXCEPT ![c].at = "gather", ![c].found = all, ![c].todo.drop = all]
                   /\ past' = [past EXCEPT !.doomed = @ \cup {e.id : e \in all}]
  /\ UNCHANGED <<story, docs, files, zip, count, lapses>>

\* download_zip reads the contents, one after the other; a missing one is a 404.
ReadFiles(c) ==
  /\ req[c].at = "read"
  /\ IF {d.id : d \in req[c].found} \cup {Global} \subseteq files
     THEN Goto(c, "gather") /\ zip' = zip \cup {req[c].found}
     ELSE Fail(c) /\ zip' = zip
  /\ UNCHANGED <<story, docs, files, count, lapses, past>>

\* Mutant: the contents of the pages only.
ContentsPages(z) == {d.id : d \in z}

Contents(z) == {d.id : d \in z} \cup Extra

\* What the zip file has is created again.
Recreate(c) ==
  /\ req[c].at = "recreate"
  /\ Gather(c, [NoCall EXCEPT !.post = req[c].read, !.write = Contents(req[c].read),
                              !.rest = {"create"}])
  /\ UNCHANGED <<story, docs, files, zip, count, lapses, past>>

-----------------------------------------------------------------------------
(* Their calls, gathered or in the background of a request that has failed *)

CallPost(c, d) ==
  /\ d \in req[c].todo.post
  /\ docs' = Post(d)
  /\ past' = [past EXCEPT !.posted = @ \cup {d}]
  /\ req' = [req EXCEPT ![c].todo.post = @ \ {d}]
  /\ UNCHANGED <<story, files, zip, count, lapses>>

CallDrop(c, d) ==
  /\ d \in req[c].todo.drop
  /\ docs' = Drop(d)
  /\ req' = [req EXCEPT ![c].todo.drop = @ \ {d}]
  /\ UNCHANGED <<story, files, zip, count, lapses, past>>

CallWrite(c, name) ==
  /\ name \in req[c].todo.write
  /\ files' = files \cup {name}
  /\ req' = [req EXCEPT ![c].todo.write = @ \ {name}]
  /\ UNCHANGED <<story, docs, zip, count, lapses, past>>

\* To delete a file that is not there is an error.
CallErase(c, name) ==
  /\ name \in req[c].todo.erase
  /\ files' = files \ {name}
  /\ req' = [req EXCEPT ![c].todo.erase = @ \ {name}, ![c].ok = @ /\ name \in files]
  /\ UNCHANGED <<story, docs, zip, count, lapses, past>>

CallStory(c, what) ==
  /\ what \in req[c].todo.rest
  /\ story' = CASE what = "create" -> TRUE [] what = "delete" -> FALSE [] OTHER -> story
  /\ files' = IF what = "deleteGroup" THEN {} ELSE files
  /\ req' = [req EXCEPT ![c].todo.rest = @ \ {what}]
  /\ UNCHANGED <<docs, zip, count, lapses, past>>

\* delete_from_page erases the contents once the documents are gone, publish_story goes
\* on once the story is; a request that failed only waits for its calls.
Gathered(c) ==
  /\ req[c].at = "gather" /\ req[c].todo = NoCall
  /\ req' = CASE req[c].ok /\ req[c].op = "deletePage" /\ req[c].found # {} ->
                   [req EXCEPT ![c].todo.erase = {d.id : d \in req[c].found}, ![c].found = {}]
              [] req[c].ok /\ req[c].op = "publish" /\ req[c].found # {} ->
                   [req EXCEPT ![c].at = "recreate", ![c].found = {}]
              [] OTHER -> [req EXCEPT ![c] = Idle]
  /\ UNCHANGED <<story, docs, files, zip, count, lapses, past>>

Step(c) ==
  \/ Siblings(c) \/ QueryPage(c) \/ MoveDrop(c) \/ MoveCreate(c) \/ QueryStory(c) \/ GetStory(c)
  \/ \E parent \in req[c].frontier : ListChildren(c, parent)
  \/ QuerySelf(c) \/ ReadFiles(c) \/ Recreate(c)
  \/ \E d \in req[c].todo.post : CallPost(c, d)
  \/ \E d \in req[c].todo.drop : CallDrop(c, d)
  \/ \E name \in req[c].todo.write : CallWrite(c, name)
  \/ \E name \in req[c].todo.erase : CallErase(c, name)
  \/ \E what \in req[c].todo.rest : CallStory(c, what)
  \/ Gathered(c)

Request(c) ==
  \/ PutStory(c) \/ DeleteStory(c) \/ DownloadZip(c)
  \/ \E page \in Page, parent \in Id : PutPage(c, page, parent)
  \/ \E d \in docs : Rename(c, d) \/ DeletePage(c, d)
  \/ \E d \in docs, parent \in Id :
       \/ \E n \in Moves : Move(c, d, parent, n, None)
       \/ \E e \in {e \in docs : e.parent = parent} : Move(c, d, parent, e.n, e.d)
  \/ \E z \in zip : Publish(c, z)

Next == \E c \in Client : Request(c) \/ Step(c)

Spec == Init /\ [][Next]_vars

-----------------------------------------------------------------------------
(* Properties *)

Quiet == \A c \in Client : req[c] = Idle

\* A story is whole whenever no request is under way: one document per page, all under the
\* root, with the contents of these pages and no other; once deleted, with its children,
\* nothing is left.  This is so for any sequence of requests, those that write beside each
\* other included, until one of these has happened: a move, a deletion or a publication
\* beside another request ("overlap"); a page moved, or published, to a place that another
\* page has or had ("taken"), moved below zero ("below"), into itself or a page under it
\* ("cycle"); the root page moved or deleted ("root"); a listing of a page with as many
\* children as the limit of the query ("full").
StoryIsWhole ==
  Quiet /\ lapses = {} =>
    LET ids == {d.id : d \in docs}
    IN  /\ Cardinality(ids) = Cardinality(docs)
        /\ IF story THEN /\ {d \in docs : d.parent = Story} = {d \in docs : d.id = Root}
                         /\ \A id \in ids : Descends(id, Root)
                         /\ files = ids \cup Extra
           ELSE docs = {} /\ files = {}

\* However requests are interleaved, a page that no deletion has found is in the table,
\* or in the hands of the request that moves it, as long as no two pages have had the
\* same place.
PagesKept ==
  "taken" \notin lapses =>
    \A d \in past.posted :
      \/ d.id \in past.doomed
      \/ \E e \in docs : e.id = d.id
      \/ \E c \in Client : req[c].op = "move" /\ req[c].at = "create" /\ req[c].page = d.id

\* Publishing a zip file brings back every page and all the contents that the story had
\* when the file was downloaded, whatever the deletion that comes first has left of the
\* story, pages moved into themselves or below zero, without a root, or past a full page
\* included, unless requests have overlapped or two pages have had one place.  What the
\* deletion leaves stays, beside the pages of the zip: there is nothing of the kind, and
\* the story is as it was, when none of the lapses of StoryIsWhole has ever happened.
PublishRestores ==
  [][\A c \in Client :
       LET z == req[c].read
       IN  req[c].op = "publish" /\ req[c].ok /\ req'[c] = Idle =>
             /\ {"overlap", "taken"} \cap lapses = {} =>
                  story /\ z \subseteq docs /\ {d.id : d \in z} \cup Extra \subseteq files
             /\ lapses = {} => docs = z /\ files = {d.id : d \in z} \cup Extra]_vars
=============================================================================
