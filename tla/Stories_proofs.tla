----------------------------- MODULE Stories_proofs -----------------------------
(* Proofs about Stories, for any number of clients, pages, requests and moves. *)
EXTENDS Stories, FiniteSetTheorems, TLAPS

Steps == {"idle", "gather", "siblings", "page", "drop", "create", "query", "story", "list",
          "read", "recreate"}

Calls == [post : SUBSET Doc, drop : SUBSET Doc, write : SUBSET (Id \cup Extra),
          erase : SUBSET (Id \cup Extra), rest : SUBSET {"create", "delete", "deleteGroup"}]

Requests == [op : Op \cup {"none"}, at : Steps, page : Id \cup {None}, parent : Id \cup {None},
             n : Int, d : Page \cup {None}, read : SUBSET Doc, found : SUBSET Doc,
             frontier : SUBSET Id, todo : Calls, ok : BOOLEAN]

\* What each step of a request is for, and has.
Fits(r) ==
  /\ r.at = "siblings" => r.op = "put" /\ r.page \in Page /\ r.parent \in Id
  /\ r.at = "page" => r.op \in {"rename", "move"}
  /\ r.at \in {"drop", "create"} => r.op = "move"
  /\ r.at = "drop" => \A d \in r.read : d.id = r.page
  /\ r.op = "move" => /\ r.page \in Id /\ r.parent \in Id
                      /\ r.at \in {"page", "drop", "create", "gather"}

RequestOK(r) == r \in Requests /\ Fits(r)

RequestsOK == req \in [Client -> Requests] /\ \A c \in Client : Fits(req[c])

OnePerKey == \A d, e \in docs : d.parent = e.parent /\ d.n = e.n /\ d.d = e.d => d = e

DocsOK == docs \subseteq Doc /\ IsFiniteSet(docs) /\ OnePerKey

RestOK ==
  /\ story \in BOOLEAN /\ files \subseteq Id \cup Extra
  /\ \A z \in zip : z \subseteq Doc
  /\ count \in 0..MaxRequests
  /\ lapses \subseteq {"overlap", "root", "cycle", "taken", "below", "full"}
  /\ past \in [posted : SUBSET Doc, doomed : SUBSET Id]

TypeInv == DocsOK /\ RequestsOK /\ RestOK

-----------------------------------------------------------------------------
(* Types *)

LEMMA TypeInvType == TypeInv => TypeOK
<1> SUFFICES ASSUME TypeInv PROVE TypeOK
  OBVIOUS
<1>1. \A c \in Client : req[c] \in Requests
  BY DEF TypeInv, RequestsOK
<1> QED
  BY <1>1 DEF TypeInv, DocsOK, OnePerKey, RestOK, TypeOK, Requests, Calls

LEMMA IdleOK == RequestOK(Idle) /\ NoCall \in Calls
<1>1. NoCall \in Calls
  BY DEF NoCall, Calls
<1>2. Idle \in Requests
  BY <1>1 DEF Idle, Requests, Steps
<1> QED BY <1>1, <1>2 DEF RequestOK, Fits, Idle

LEMMA TypeInit == Init => TypeInv
<1> SUFFICES ASSUME Init PROVE TypeInv
  OBVIOUS
<1>1. RequestsOK
  BY IdleOK DEF Init, RequestsOK, RequestOK
<1>2. DocsOK
  BY FS_EmptySet DEF Init, DocsOK, OnePerKey
<1>3. RestOK
  <2>1. 0 \in 0..MaxRequests /\ [posted |-> {}, doomed |-> {}] \in [posted : SUBSET Doc, doomed : SUBSET Id]
    BY StoriesAssumption
  <2> QED BY <2>1 DEF Init, RestOK
<1> QED BY <1>1, <1>2, <1>3 DEF TypeInv

\* A step of a request leaves the others as they are.
Only(c) == /\ req' \in [Client -> Requests] /\ RequestOK(req'[c])
           /\ \A o \in Client : o # c => req'[o] = req[o]

LEMMA OnlyOne ==
  ASSUME TypeInv, NEW c \in Client, NEW r, RequestOK(r), req' = [req EXCEPT ![c] = r]
  PROVE  Only(c) /\ req'[c] = r
  BY DEF TypeInv, RequestsOK, RequestOK, Only

LEMMA OnlyType ==
  ASSUME TypeInv, NEW c \in Client, Only(c) PROVE RequestsOK'
  BY DEF TypeInv, RequestsOK, RequestOK, Only

\* Documents that are posted, and those that are dropped, leave one for each place.
LEMMA PostType ==
  ASSUME DocsOK, NEW d \in Doc, docs' = Post(d) PROVE DocsOK'
<1>1. IsFiniteSet({e \in docs : ~ SameKey(d, e)})
  BY FS_Subset DEF DocsOK
<1>2. IsFiniteSet(docs')
  BY <1>1, FS_AddElement DEF Post
<1>3. docs' \subseteq Doc /\ OnePerKey'
  BY DEF DocsOK, OnePerKey, Post, SameKey
<1> QED BY <1>2, <1>3 DEF DocsOK

LEMMA DropType ==
  ASSUME DocsOK, NEW d, docs' = Drop(d) PROVE DocsOK'
<1>1. IsFiniteSet(docs') /\ docs' \subseteq docs
  BY FS_Subset DEF DocsOK, Drop
<1> QED BY <1>1 DEF DocsOK, OnePerKey

\* The tables and the rest are left alone but for what has lapsed.
LEMMA SameType ==
  ASSUME TypeInv, NEW c \in Client, Only(c), UNCHANGED <<story, docs, files, zip, count, past>>,
         lapses' \subseteq {"overlap", "root", "cycle", "taken", "below", "full"}
  PROVE  TypeInv'
<1>1. RequestsOK'
  BY OnlyType
<1> QED BY <1>1 DEF TypeInv, DocsOK, OnePerKey, RestOK

\* A request begins.
LEMMA BeginStep ==
  ASSUME TypeInv, NEW c \in Client, NEW r, RequestOK(r), Begin(c, r)
  PROVE  TypeInv' /\ Only(c) /\ req[c] = Idle /\ req'[c] = r
<1>1. Only(c) /\ req'[c] = r /\ req[c] = Idle
  BY OnlyOne DEF Begin
<1>2. RequestsOK'
  BY <1>1, OnlyType
<1>3. lapses' \subseteq {"overlap", "root", "cycle", "taken", "below", "full"}
  BY DEF Begin, Lapses, TypeInv, RestOK
<1>4. RestOK'
  BY <1>3, StoriesAssumption DEF Begin, TypeInv, RestOK
<1>5. DocsOK'
  BY DEF Begin, TypeInv, DocsOK, OnePerKey
<1> QED BY <1>1, <1>2, <1>4, <1>5 DEF TypeInv

\* The requests that begin, one by one.
Storing == [Idle EXCEPT !.op = "putStory", !.at = "gather", !.todo =
             [NoCall EXCEPT !.post = {[id |-> Root, parent |-> Story, n |-> 0, d |-> None]},
                            !.write = {Root} \cup Extra, !.rest = {"create"}]]

Putting(page, parent) ==
  [Idle EXCEPT !.op = "put", !.at = "siblings", !.page = page, !.parent = parent]

Renaming(d) == [Idle EXCEPT !.op = "rename", !.at = "page", !.page = d.id]

Moving(d, parent, n, of) ==
  [Idle EXCEPT !.op = "move", !.at = "page", !.page = d.id, !.parent = parent, !.n = n, !.d = of]

Deleting(d) ==
  [Idle EXCEPT !.op = "deletePage", !.at = "list", !.page = d.id, !.frontier = {d.id}]

Zipping == [Idle EXCEPT !.op = "zip", !.at = "query", !.page = Root]

Publishing(z) == [Idle EXCEPT !.op = "publish", !.at = "query", !.page = Root, !.read = z]

Ending == [Idle EXCEPT !.op = "deleteStory", !.at = "story"]

\* How requests begin: they post a root page, or move a page that is there, to a place of
\* its own or to that of another, or, first, only read.
Moved(r) ==
  \E d \in docs, parent \in Id, n \in Int :
    \/ r = Moving(d, parent, n, None)
    \/ \E e \in docs : e.parent = parent /\ e.n = n /\ r = Moving(d, parent, n, e.d)

Reads(r) ==
  /\ r.op # "move" /\ r.at \in {"siblings", "page", "query", "story", "list"}
  /\ r.todo = NoCall /\ r.found = {}
  /\ r.read = {} \/ r.read \in zip

LEMMA StoringOK == "putStory" \in Op => RequestOK(Storing)
<1> DEFINE root == [id |-> Root, parent |-> Story, n |-> 0, d |-> None]
           calls == [NoCall EXCEPT !.post = {root}, !.write = {Root} \cup Extra, !.rest = {"create"}]
<1>1. root \in Doc /\ Root \in Id
  BY DEF Doc, Id
<1> HIDE DEF root
<1>2. calls \in Calls
  BY <1>1, IdleOK DEF Calls
<1>3. Storing = [Idle EXCEPT !.op = "putStory", !.at = "gather", !.todo = calls]
  BY DEF Storing, root
<1> HIDE DEF calls
<1> QED
  BY <1>2, <1>3, IdleOK DEF RequestOK, Fits, Requests, Steps

LEMMA ReadingOK ==
  ASSUME TypeInv
  PROVE  /\ "zip" \in Op => RequestOK(Zipping) /\ Reads(Zipping)
         /\ "deleteStory" \in Op => RequestOK(Ending) /\ Reads(Ending)
         /\ "put" \in Op => \A page \in Page, parent \in Id :
              RequestOK(Putting(page, parent)) /\ Reads(Putting(page, parent))
         /\ "rename" \in Op => \A d \in docs : RequestOK(Renaming(d)) /\ Reads(Renaming(d))
         /\ "deletePage" \in Op => \A d \in docs : RequestOK(Deleting(d)) /\ Reads(Deleting(d))
         /\ "publish" \in Op => \A z \in zip : RequestOK(Publishing(z)) /\ Reads(Publishing(z))
<1>1. \A d \in docs : d.id \in Id
  BY DEF TypeInv, DocsOK, Doc
<1>2. Idle \in Requests /\ Root \in Id /\ Page \subseteq Id
  BY IdleOK DEF RequestOK, Id
<1>3. "zip" \in Op => RequestOK(Zipping) /\ Reads(Zipping)
  BY <1>2 DEF RequestOK, Fits, Reads, Idle, Requests, Steps, Zipping
<1>4. "deleteStory" \in Op => RequestOK(Ending) /\ Reads(Ending)
  BY <1>2 DEF RequestOK, Fits, Reads, Idle, Requests, Steps, Ending
<1>5. "put" \in Op => \A page \in Page, parent \in Id :
        RequestOK(Putting(page, parent)) /\ Reads(Putting(page, parent))
  <2> SUFFICES ASSUME "put" \in Op, NEW page \in Page, NEW parent \in Id
               PROVE  RequestOK(Putting(page, parent)) /\ Reads(Putting(page, parent))
    OBVIOUS
  <2>1. Putting(page, parent) \in Requests
    BY <1>2 DEF Requests, Steps, Putting
  <2> QED BY <2>1 DEF RequestOK, Fits, Reads, Idle, Putting
<1>6. "rename" \in Op => \A d \in docs : RequestOK(Renaming(d)) /\ Reads(Renaming(d))
  BY <1>1, <1>2 DEF RequestOK, Fits, Reads, Idle, Requests, Steps, Renaming
<1>7. "deletePage" \in Op => \A d \in docs : RequestOK(Deleting(d)) /\ Reads(Deleting(d))
  <2> SUFFICES ASSUME "deletePage" \in Op, NEW d \in docs
               PROVE  RequestOK(Deleting(d)) /\ Reads(Deleting(d))
    OBVIOUS
  <2>1. Deleting(d) \in Requests
    BY <1>1, <1>2 DEF Requests, Steps, Deleting
  <2> QED BY <2>1 DEF RequestOK, Fits, Reads, Idle, Deleting
<1>8. "publish" \in Op => \A z \in zip : RequestOK(Publishing(z)) /\ Reads(Publishing(z))
  BY <1>2 DEF RequestOK, Fits, Reads, Idle, Requests, Steps, Publishing, TypeInv, RestOK
<1> QED BY <1>3, <1>4, <1>5, <1>6, <1>7, <1>8

LEMMA MovingOK ==
  ASSUME TypeInv, "move" \in Op, NEW d \in docs, NEW parent \in Id, NEW n \in Int,
         NEW of \in Page \cup {None}
  PROVE  RequestOK(Moving(d, parent, n, of))
<1>1. d.id \in Id
  BY DEF TypeInv, DocsOK, Doc
<1> QED
  BY <1>1, IdleOK DEF RequestOK, Fits, Idle, Requests, Steps, Moving

LEMMA RequestStep ==
  ASSUME TypeInv, NEW c \in Client, Request(c)
  PROVE  \E r : RequestOK(r) /\ Begin(c, r) /\ (r = Storing \/ Moved(r) \/ Reads(r))
<1>1. CASE PutStory(c)
  <2>1. Begin(c, Storing)
    BY <1>1 DEF PutStory, Storing
  <2>2. Storing.op = "putStory"
    BY DEF Storing, Idle
  <2> QED BY <2>1, <2>2, StoringOK DEF Begin
<1>2. CASE DeleteStory(c)
  BY <1>2, ReadingOK DEF DeleteStory, Ending, Begin, Idle
<1>3. CASE DownloadZip(c)
  BY <1>3, ReadingOK DEF DownloadZip, Zipping, Begin, Idle
<1>4. ASSUME NEW page \in Page, NEW parent \in Id, PutPage(c, page, parent)
      PROVE  \E r : RequestOK(r) /\ Begin(c, r) /\ Reads(r)
  <2>1. Begin(c, Putting(page, parent))
    BY <1>4 DEF PutPage, Putting
  <2> QED BY <2>1, ReadingOK DEF Begin, Putting, Idle
<1>5. ASSUME NEW d \in docs, Rename(c, d)
      PROVE  \E r : RequestOK(r) /\ Begin(c, r) /\ Reads(r)
  <2>1. Begin(c, Renaming(d))
    BY <1>5 DEF Rename, Renaming
  <2> QED BY <2>1, ReadingOK DEF Begin, Renaming, Idle
<1>6. ASSUME NEW d \in docs, DeletePage(c, d)
      PROVE  \E r : RequestOK(r) /\ Begin(c, r) /\ Reads(r)
  <2>1. Begin(c, Deleting(d))
    BY <1>6 DEF DeletePage, Deleting
  <2> QED BY <2>1, ReadingOK DEF Begin, Deleting, Idle
<1>7. ASSUME NEW z \in zip, Publish(c, z)
      PROVE  \E r : RequestOK(r) /\ Begin(c, r) /\ Reads(r)
  <2>1. Begin(c, Publishing(z))
    BY <1>7 DEF Publish, Publishing
  <2> QED BY <2>1, ReadingOK DEF Begin, Publishing, Idle
<1>8. ASSUME NEW d \in docs, NEW parent \in Id, NEW n \in Moves, Move(c, d, parent, n, None)
      PROVE  \E r : RequestOK(r) /\ Begin(c, r) /\ Moved(r)
  <2>1. Begin(c, Moving(d, parent, n, None)) /\ n \in Int
    BY <1>8, StoriesAssumption DEF Move, Moving
  <2>2. "move" \in Op
    BY <2>1 DEF Begin, Moving, Idle
  <2> QED BY <2>1, <2>2, MovingOK DEF Moved
<1>9. ASSUME NEW d \in docs, NEW parent \in Id, NEW e \in docs, e.parent = parent,
             Move(c, d, parent, e.n, e.d)
      PROVE  \E r : RequestOK(r) /\ Begin(c, r) /\ Moved(r)
  <2>1. Begin(c, Moving(d, parent, e.n, e.d))
    BY <1>9 DEF Move, Moving
  <2>2. "move" \in Op
    BY <2>1 DEF Begin, Moving, Idle
  <2>3. e.n \in Int /\ e.d \in Page \cup {None}
    BY DEF TypeInv, DocsOK, Doc
  <2> QED BY <1>9, <2>1, <2>2, <2>3, MovingOK DEF Moved
<1> QED
  BY <1>1, <1>2, <1>3, <1>4, <1>5, <1>6, <1>7, <1>8, <1>9 DEF Request

-----------------------------------------------------------------------------
(* The steps of a request, what each does to the request and to the tables *)

Unmoved == UNCHANGED <<story, docs, files, zip, count, past>>

Same == Unmoved /\ lapses' = lapses

LEMMA SiblingsStep ==
  ASSUME TypeInv, NEW c \in Client, Siblings(c)
  PROVE  /\ Only(c) /\ Same
         /\ req'[c].op = "put"
         /\ \E n \in Int :
              /\ (\A d \in docs : d.n >= 0) => n >= 0
              /\ req'[c] = [req[c] EXCEPT !.at = "gather", !.todo =
                   [NoCall EXCEPT !.post = {[id |-> req[c].page, parent |-> req[c].parent, n |-> n,
                                             d |-> req[c].page]},
                                  !.write = {req[c].page}]]
<1> DEFINE r == req[c]
<1>1. r \in Requests /\ Fits(r) /\ r.at = "siblings"
  BY DEF TypeInv, RequestsOK, Siblings
<1>2. r.op = "put" /\ r.page \in Page /\ r.parent \in Id
  BY <1>1 DEF Fits
<1>3. PICK n \in Positions(r.parent) :
        Gather(c, [NoCall EXCEPT !.post = {[id |-> r.page, parent |-> r.parent, n |-> n,
                                            d |-> r.page]},
                                 !.write = {r.page}])
  BY Zenon DEF Siblings
<1> DEFINE doc == [id |-> r.page, parent |-> r.parent, n |-> n, d |-> r.page]
           calls == [NoCall EXCEPT !.post = {doc}, !.write = {r.page}]
           s == [r EXCEPT !.at = "gather", !.todo = calls]
<1>7. n \in Int /\ ((\A d \in docs : d.n >= 0) => n >= 0)
  <2>1. ASSUME NEW m \in Int
        PROVE  2 * (m \div 2) + 2 \in Int /\ (m >= 0 => 2 * (m \div 2) + 2 >= 0)
    <3>1. PICK q \in Int : q = m \div 2
      OBVIOUS
    <3>2. m >= 0 => q >= 0
      BY <3>1
    <3> QED BY <3>1, <3>2
  <2>2. \A d \in Last(r.parent) : d \in docs /\ d.n \in Int
    BY DEF Last, TypeInv, DocsOK, Doc
  <2>3. CASE Last(r.parent) = {}
    BY <1>3, <2>3 DEF Positions
  <2>4. CASE Last(r.parent) # {}
    <3>1. PICK d \in Last(r.parent) : n = 2 * (d.n \div 2) + 2
      BY <1>3, <2>4 DEF Positions
    <3>2. PICK m \in Int : m = d.n
      BY <2>2
    <3> QED BY <2>1, <2>2, <3>1, <3>2
  <2> QED BY <2>3, <2>4
<1>4. s \in Requests /\ Fits(s) /\ s.op = "put"
  <2>1. doc \in Doc
    BY <1>2, <1>7 DEF Doc, Id
  <2>2. calls \in Calls
    BY <2>1, <1>2 DEF NoCall, Calls, Id
  <2> HIDE DEF doc, calls
  <2> QED BY <1>1, <1>2, <2>2 DEF Requests, Fits, Steps
<1>5. req' = [req EXCEPT ![c] = s] /\ Same
  BY <1>3 DEF Siblings, Gather, Same, Unmoved
<1> HIDE DEF s
<1>6. Only(c) /\ req'[c] = s
  BY <1>4, <1>5, OnlyOne DEF RequestOK
<1>8. req'[c].op = "put"
  BY <1>4, <1>6
<1>9. req'[c] = [r EXCEPT !.at = "gather", !.todo =
                   [NoCall EXCEPT !.post = {[id |-> r.page, parent |-> r.parent, n |-> n,
                                             d |-> r.page]},
                                  !.write = {r.page}]]
  BY <1>6 DEF s
<1> QED
  BY Zenon, <1>5, <1>6, <1>7, <1>8, <1>9

\* A request that fails waits for the calls it has gathered.
Failing(r) == [r EXCEPT !.at = "gather", !.ok = FALSE]

LEMMA FailStep ==
  ASSUME TypeInv, NEW c \in Client, Fail(c)
  PROVE  Only(c) /\ req'[c] = Failing(req[c])
<1>1. req[c] \in Requests /\ Fits(req[c])
  BY DEF TypeInv, RequestsOK
<1>2. RequestOK(Failing(req[c]))
  BY <1>1 DEF RequestOK, Requests, Fits, Steps, Failing
<1>3. req' = [req EXCEPT ![c] = Failing(req[c])]
  BY DEF Fail, Failing
<1> QED BY <1>2, <1>3, OnlyOne

\* A request that goes on to another step.
Going(r, at) == [r EXCEPT !.at = at]

LEMMA GotoStep ==
  ASSUME TypeInv, NEW c \in Client, NEW at \in Steps, Goto(c, at), RequestOK(Going(req[c], at))
  PROVE  Only(c) /\ req'[c] = Going(req[c], at)
<1>1. req' = [req EXCEPT ![c] = Going(req[c], at)]
  BY DEF Goto, Going
<1> QED BY <1>1, OnlyOne

\* A request that gathers its calls.
Gathering(r, todo) == [r EXCEPT !.at = "gather", !.todo = todo]

LEMMA GatherStep ==
  ASSUME TypeInv, NEW c \in Client, NEW todo \in Calls, Gather(c, todo)
  PROVE  Only(c) /\ req'[c] = Gathering(req[c], todo)
<1>1. req[c] \in Requests /\ Fits(req[c])
  BY DEF TypeInv, RequestsOK
<1>2. RequestOK(Gathering(req[c], todo))
  BY <1>1 DEF RequestOK, Requests, Fits, Steps, Gathering
<1>3. req' = [req EXCEPT ![c] = Gathering(req[c], todo)]
  BY DEF Gather, Gathering
<1> QED BY <1>2, <1>3, OnlyOne

LEMMA QueryPageStep ==
  ASSUME TypeInv, NEW c \in Client, QueryPage(c)
  PROVE  /\ Only(c) /\ Same
         /\ \/ req'[c] = Failing(req[c])
            \/ \E d \in docs : req'[c] = Gathering(req[c], [NoCall EXCEPT !.post = {d}])
            \/ \E d \in docs : /\ req[c].op = "move" /\ d.id = req[c].page
                               /\ req'[c] = [req[c] EXCEPT !.at = "drop", !.read = {d}]
<1>1. req[c] \in Requests /\ Fits(req[c]) /\ req[c].at = "page"
  BY DEF TypeInv, RequestsOK, QueryPage
<1>2. Same
  BY DEF Same, Unmoved, QueryPage
<1>3. ASSUME Fail(c) PROVE Only(c) /\ req'[c] = Failing(req[c])
  BY <1>3, FailStep
<1>4. \A d \in First(req[c].page) : d \in docs /\ d.id = req[c].page /\ d \in Doc
  BY DEF First, TypeInv, DocsOK
<1>5. ASSUME NEW d \in First(req[c].page), Gather(c, [NoCall EXCEPT !.post = {d}])
      PROVE  Only(c) /\ req'[c] = Gathering(req[c], [NoCall EXCEPT !.post = {d}])
  <2>1. [NoCall EXCEPT !.post = {d}] \in Calls
    BY <1>4, IdleOK DEF Calls
  <2> QED BY <1>5, <2>1, GatherStep
<1>6. ASSUME NEW d \in First(req[c].page), req[c].op = "move",
             req' = [req EXCEPT ![c].at = "drop", ![c].read = {d}]
      PROVE  Only(c) /\ req'[c] = [req[c] EXCEPT !.at = "drop", !.read = {d}]
  <2> DEFINE s == [req[c] EXCEPT !.at = "drop", !.read = {d}]
  <2>1. s \in Requests
    BY <1>1, <1>4 DEF Requests, Steps
  <2>2. Fits(s)
    BY <1>1, <1>4, <1>6 DEF Requests, Fits
  <2>3. req' = [req EXCEPT ![c] = s]
    BY <1>6
  <2> HIDE DEF s
  <2>4. Only(c) /\ req'[c] = s
    BY <2>1, <2>2, <2>3, OnlyOne DEF RequestOK
  <2> QED BY <2>4 DEF s
<1> QED
  BY <1>2, <1>3, <1>4, <1>5, <1>6 DEF QueryPage

LEMMA MoveDropStep ==
  ASSUME TypeInv, NEW c \in Client, MoveDrop(c)
  PROVE  /\ Only(c) /\ req'[c] = Going(req[c], "create") /\ req[c].op = "move"
         /\ UNCHANGED <<story, files, zip, count, lapses, past>>
         /\ \E d \in req[c].read : d.id = req[c].page /\ docs' = Drop(d)
<1>1. req[c] \in Requests /\ Fits(req[c]) /\ req[c].at = "drop"
  BY DEF TypeInv, RequestsOK, MoveDrop
<1>2. RequestOK(Going(req[c], "create"))
  BY <1>1 DEF RequestOK, Requests, Fits, Steps, Going
<1>3. Only(c) /\ req'[c] = Going(req[c], "create")
  BY <1>2, GotoStep DEF MoveDrop, Steps
<1> QED BY <1>1, <1>3 DEF MoveDrop, Fits

\* The place a page is moved to.
Destination(r) == [id |-> r.page, parent |-> r.parent, n |-> r.n, d |-> r.d]

LEMMA MoveCreateStep ==
  ASSUME TypeInv, NEW c \in Client, MoveCreate(c)
  PROVE  /\ Only(c) /\ req'[c] = Going(req[c], "gather") /\ req[c].op = "move"
         /\ UNCHANGED <<story, files, zip, count, lapses>>
         /\ Destination(req[c]) \in Doc /\ docs' = Post(Destination(req[c]))
         /\ past' = [past EXCEPT !.posted = @ \cup {Destination(req[c])}]
<1>1. req[c] \in Requests /\ Fits(req[c]) /\ req[c].at = "create"
  BY DEF TypeInv, RequestsOK, MoveCreate
<1>2. RequestOK(Going(req[c], "gather"))
  BY <1>1 DEF RequestOK, Requests, Fits, Steps, Going
<1>3. Only(c) /\ req'[c] = Going(req[c], "gather")
  BY <1>2, GotoStep DEF MoveCreate, Steps
<1>4. req[c].op = "move" /\ req[c].page \in Id /\ req[c].parent \in Id
  BY <1>1 DEF Fits
<1>5. Destination(req[c]) \in Doc
  BY <1>1, <1>4 DEF Destination, Doc, Requests
<1>6. Target(req[c]) = {Destination(req[c])}
  BY <1>4 DEF Target, Destination
<1> QED BY <1>3, <1>4, <1>5, <1>6 DEF MoveCreate

LEMMA QueryStoryStep ==
  ASSUME TypeInv, NEW c \in Client, QueryStory(c)
  PROVE  /\ Only(c) /\ Same
         /\ \/ req'[c] = Failing(req[c])
            \/ req'[c] = Going(req[c], "story") \/ req'[c] = Going(req[c], "recreate")
            \/ req'[c] = [req[c] EXCEPT !.at = "list", !.frontier = {Root}]
<1>1. req[c] \in Requests /\ Fits(req[c]) /\ req[c].at = "query"
  BY DEF TypeInv, RequestsOK, QueryStory
<1>2. Same
  BY DEF Same, Unmoved, QueryStory
<1>3. ASSUME NEW at \in {"story", "recreate"}, Goto(c, at)
      PROVE  Only(c) /\ req'[c] = Going(req[c], at)
  <2>1. RequestOK(Going(req[c], at)) /\ at \in Steps
    BY <1>1 DEF RequestOK, Requests, Fits, Steps, Going
  <2> QED BY <1>3, <2>1, GotoStep
<1>4. ASSUME req' = [req EXCEPT ![c].at = "list", ![c].frontier = {Root}]
      PROVE  Only(c) /\ req'[c] = [req[c] EXCEPT !.at = "list", !.frontier = {Root}]
  <2> DEFINE s == [req[c] EXCEPT !.at = "list", !.frontier = {Root}]
  <2>1. RequestOK(s)
    BY <1>1 DEF RequestOK, Requests, Fits, Steps, Id
  <2>2. req' = [req EXCEPT ![c] = s]
    BY <1>4
  <2> HIDE DEF s
  <2>3. Only(c) /\ req'[c] = s
    BY <2>1, <2>2, OnlyOne
  <2> QED BY <2>3 DEF s
<1> QED
  BY <1>2, <1>3, <1>4, FailStep DEF QueryStory

LEMMA GetStoryStep ==
  ASSUME TypeInv, NEW c \in Client, GetStory(c)
  PROVE  /\ Only(c) /\ UNCHANGED <<story, docs, zip, count, lapses, past>>
         /\ files' \in {files, files \cup {Global}}
         /\ req[c].at = "story"
         /\ \/ req'[c] = Failing(req[c])
            \/ \E page \in Id, frontier \in SUBSET Id :
                 req'[c] = [req[c] EXCEPT !.at = "list", !.frontier = frontier, !.page = page,
                                          !.todo.rest = {"delete", "deleteGroup"}]
<1> DEFINE roots == {d \in docs : d.parent = Story}
           page == (CHOOSE d \in roots : TRUE).id
           frontier == {d.id : d \in roots}
           s == [req[c] EXCEPT !.at = "list", !.frontier = frontier, !.page = page,
                               !.todo.rest = {"delete", "deleteGroup"}]
<1>1. req[c] \in Requests /\ Fits(req[c]) /\ req[c].at = "story" /\ req[c].op # "move"
  BY DEF TypeInv, RequestsOK, GetStory, Fits
<1>2. /\ UNCHANGED <<story, docs, zip, count, lapses, past>>
      /\ files' \in {files, files \cup {Global}}
  BY DEF GetStory
<1>3. CASE story /\ Cardinality(roots) = 1
  <2>1. roots # {} /\ \A d \in roots : d.id \in Id
    <3>1. roots # {}
      BY <1>3, FS_EmptySet
    <3>2. \A d \in docs : d.id \in Id
      BY DEF TypeInv, DocsOK, Doc
    <3> QED BY <3>1, <3>2
  <2>2. page \in Id /\ frontier \in SUBSET Id
    BY <2>1
  <2>3. req' = [req EXCEPT ![c] = s]
    BY <1>3 DEF GetStory
  <2> HIDE DEF page, frontier, roots
  <2>4. s \in Requests
    BY <1>1, <2>2 DEF Requests, Calls, Steps
  <2>5. Fits(s)
    BY <1>1 DEF Requests, Fits
  <2> HIDE DEF s
  <2>6. Only(c) /\ req'[c] = s
    BY <2>3, <2>4, <2>5, OnlyOne DEF RequestOK
  <2> QED BY <1>1, <1>2, <2>2, <2>6 DEF s
<1>4. CASE ~ (story /\ Cardinality(roots) = 1)
  <2>1. Fail(c)
    BY <1>4 DEF GetStory
  <2> QED BY <1>1, <1>2, <2>1, FailStep
<1> QED BY <1>3, <1>4

LEMMA ListChildrenStep ==
  ASSUME TypeInv, NEW c \in Client, NEW parent \in req[c].frontier, ListChildren(c, parent)
  PROVE  /\ Only(c) /\ Unmoved
         /\ lapses' \in {lapses, lapses \cup {"full"}}
         /\ req[c].at = "list"
         /\ \/ req'[c] = [Failing(req[c]) EXCEPT !.frontier = {}]
            \/ \E some \in SUBSET docs, frontier \in SUBSET Id :
                 req'[c] = [req[c] EXCEPT !.found = @ \cup some, !.frontier = frontier]
<1>1. req[c] \in Requests /\ Fits(req[c]) /\ req[c].at = "list" /\ req[c].op # "move"
  BY DEF TypeInv, RequestsOK, ListChildren, Fits
<1>2. Unmoved /\ lapses' \in {lapses, lapses \cup {"full"}}
  BY DEF ListChildren, Unmoved
<1>3. Children(parent) \in SUBSET docs /\ docs \subseteq Doc
  BY DEF Children, TypeInv, DocsOK
<1>4. FrontierAfter(c, parent) \in SUBSET Id
  BY <1>1, <1>3 DEF FrontierAfter, Requests, Doc
<1>5. ASSUME NEW s, RequestOK(s), req' = [req EXCEPT ![c] = s] PROVE Only(c) /\ req'[c] = s
  BY <1>5, OnlyOne
<1>6. CASE Cardinality(Children(parent)) >= Chunk
  <2> DEFINE s == [Failing(req[c]) EXCEPT !.frontier = {}]
  <2>1. RequestOK(s)
    BY <1>1 DEF RequestOK, Requests, Fits, Steps, Failing
  <2>2. req' = [req EXCEPT ![c] = s]
    BY <1>6 DEF ListChildren, Failing
  <2> HIDE DEF s
  <2>3. Only(c) /\ req'[c] = s
    BY <1>5, <2>1, <2>2
  <2> QED BY <1>1, <1>2, <2>3 DEF s
<1>7. CASE ~ (Cardinality(Children(parent)) >= Chunk)
  <2> DEFINE some == Children(parent)
             frontier == FrontierAfter(c, parent)
             s == [req[c] EXCEPT !.found = @ \cup some, !.frontier = frontier]
  <2>1. req' = [req EXCEPT ![c] = s]
    BY <1>7 DEF ListChildren
  <2> HIDE DEF some, frontier
  <2>2. some \in SUBSET docs /\ some \in SUBSET Doc /\ frontier \in SUBSET Id
    BY <1>3, <1>4 DEF some, frontier
  <2>3. RequestOK(s)
    BY <1>1, <2>2 DEF RequestOK, Requests, Fits
  <2> HIDE DEF s
  <2>4. Only(c) /\ req'[c] = s
    BY <1>5, <2>1, <2>3
  <2> QED BY <1>1, <1>2, <2>2, <2>4 DEF s
<1> QED BY <1>6, <1>7

\* A listing ends with the documents to be deleted, all of them doomed, or to be zipped.
LEMMA QuerySelfStep ==
  ASSUME TypeInv, NEW c \in Client, QuerySelf(c)
  PROVE  /\ Only(c) /\ UNCHANGED <<story, docs, files, zip, count, lapses>>
         /\ \/ req'[c] = Failing(req[c]) /\ past' = past
            \/ \E d \in docs :
                 LET all == req[c].found \cup {d}
                 IN  \/ req'[c] = [req[c] EXCEPT !.at = "read", !.found = all] /\ past' = past
                     \/ /\ req'[c] = [req[c] EXCEPT !.at = "gather", !.found = all, !.todo.drop = all]
                        /\ past' = [past EXCEPT !.doomed = @ \cup {e.id : e \in all}]
<1>1. req[c] \in Requests /\ Fits(req[c]) /\ req[c].at = "list" /\ req[c].op # "move"
  BY DEF TypeInv, RequestsOK, QuerySelf, Fits
<1>2. UNCHANGED <<story, docs, files, zip, count, lapses>>
  BY DEF QuerySelf
<1>3. ASSUME Fail(c) PROVE Only(c) /\ req'[c] = Failing(req[c])
  BY <1>3, FailStep
<1>4. \A d \in First(req[c].page) : d \in docs /\ d \in Doc
  BY DEF First, TypeInv, DocsOK
<1>5. ASSUME NEW s, RequestOK(s), req' = [req EXCEPT ![c] = s] PROVE Only(c) /\ req'[c] = s
  BY <1>5, OnlyOne
<1>6. ASSUME NEW d \in First(req[c].page), NEW all, all = req[c].found \cup {d},
             req' = [req EXCEPT ![c].at = "read", ![c].found = all]
      PROVE  Only(c) /\ req'[c] = [req[c] EXCEPT !.at = "read", !.found = all]
  <2> DEFINE s == [req[c] EXCEPT !.at = "read", !.found = all]
  <2>1. RequestOK(s)
    BY <1>1, <1>4, <1>6 DEF RequestOK, Requests, Fits, Steps
  <2>2. req' = [req EXCEPT ![c] = s]
    BY <1>6
  <2> HIDE DEF s
  <2>3. Only(c) /\ req'[c] = s
    BY <1>5, <2>1, <2>2
  <2> QED BY <2>3 DEF s
<1>7. ASSUME NEW d \in First(req[c].page), NEW all, all = req[c].found \cup {d},
             req' = [req EXCEPT ![c].at = "gather", ![c].found = all, ![c].todo.drop = all]
      PROVE  Only(c) /\ req'[c] = [req[c] EXCEPT !.at = "gather", !.found = all, !.todo.drop = all]
  <2> DEFINE s == [req[c] EXCEPT !.at = "gather", !.found = all, !.todo.drop = all]
  <2>1. s \in Requests
    <3> DEFINE todo == [req[c].todo EXCEPT !.drop = all]
    <3>1. all \in SUBSET Doc
      BY <1>1, <1>4, <1>7 DEF Requests
    <3>2. todo \in Calls /\ s = [req[c] EXCEPT !.at = "gather", !.found = all, !.todo = todo]
      BY <1>1, <3>1 DEF Requests, Calls
    <3> HIDE DEF todo, s
    <3> QED BY <1>1, <3>1, <3>2 DEF Requests, Steps
  <2>2. Fits(s)
    BY <1>1 DEF Requests, Fits
  <2>3. req' = [req EXCEPT ![c] = s]
    BY <1>7
  <2> HIDE DEF s
  <2>4. Only(c) /\ req'[c] = s
    BY <1>5, <2>1, <2>2, <2>3 DEF RequestOK
  <2> QED BY <2>4 DEF s
<1>8. CASE First(req[c].page) = {} /\ Fail(c) /\ past' = past
  BY <1>2, <1>3, <1>8
<1>9. CASE ~ (First(req[c].page) = {} /\ Fail(c) /\ past' = past)
  <2>1. PICK d \in First(req[c].page) :
          LET all == req[c].found \cup {d}
          IN  IF req[c].op = "zip"
              THEN req' = [req EXCEPT ![c].at = "read", ![c].found = all] /\ past' = past
              ELSE /\ req' = [req EXCEPT ![c].at = "gather", ![c].found = all, ![c].todo.drop = all]
                   /\ past' = [past EXCEPT !.doomed = @ \cup {e.id : e \in all}]
    BY <1>9 DEF QuerySelf
  <2>2. d \in docs
    BY <1>4
  <2>3. PICK all : all = req[c].found \cup {d}
    OBVIOUS
  <2>4. CASE req[c].op = "zip"
    <3>1. Only(c) /\ req'[c] = [req[c] EXCEPT !.at = "read", !.found = all] /\ past' = past
      BY <1>6, <2>1, <2>3, <2>4
    <3> QED BY <1>2, <2>2, <2>3, <3>1
  <2>5. CASE req[c].op # "zip"
    <3>1. /\ Only(c) /\ req'[c] = [req[c] EXCEPT !.at = "gather", !.found = all, !.todo.drop = all]
          /\ past' = [past EXCEPT !.doomed = @ \cup {e.id : e \in all}]
      BY <1>7, <2>1, <2>3, <2>5
    <3> QED BY <1>2, <2>2, <2>3, <3>1
  <2> QED BY <2>4, <2>5
<1> QED BY <1>8, <1>9

LEMMA ReadFilesStep ==
  ASSUME TypeInv, NEW c \in Client, ReadFiles(c)
  PROVE  /\ Only(c) /\ UNCHANGED <<story, docs, files, count, lapses, past>>
         /\ zip' \in {zip, zip \cup {req[c].found}}
         /\ req'[c] = Failing(req[c]) \/ req'[c] = Going(req[c], "gather")
<1>1. req[c] \in Requests /\ Fits(req[c]) /\ req[c].at = "read"
  BY DEF TypeInv, RequestsOK, ReadFiles
<1>2. RequestOK(Going(req[c], "gather")) /\ "gather" \in Steps
  BY <1>1 DEF RequestOK, Requests, Fits, Steps, Going
<1>3. UNCHANGED <<story, docs, files, count, lapses, past>>
  BY DEF ReadFiles
<1>4. CASE Fail(c) /\ zip' = zip
  BY <1>3, <1>4, FailStep
<1>5. CASE Goto(c, "gather") /\ zip' = zip \cup {req[c].found}
  BY <1>2, <1>3, <1>5, GotoStep
<1> QED BY <1>4, <1>5 DEF ReadFiles

LEMMA RecreateStep ==
  ASSUME TypeInv, NEW c \in Client, Recreate(c)
  PROVE  /\ Only(c) /\ Same
         /\ \E todo \in Calls :
              /\ todo.post = req[c].read /\ todo.drop = {}
              /\ req'[c] = Gathering(req[c], todo)
<1> DEFINE todo == [NoCall EXCEPT !.post = req[c].read, !.write = Contents(req[c].read),
                                  !.rest = {"create"}]
<1>1. req[c] \in Requests
  BY DEF TypeInv, RequestsOK
<1>2. req[c].read \in SUBSET Doc /\ Contents(req[c].read) \in SUBSET (Id \cup Extra)
  BY <1>1 DEF Requests, Contents, Doc
<1>3. todo \in Calls /\ todo.post = req[c].read /\ todo.drop = {}
  BY <1>2 DEF NoCall, Calls
<1>4. Gather(c, todo)
  BY DEF Recreate
<1> HIDE DEF todo
<1>5. Only(c) /\ req'[c] = Gathering(req[c], todo)
  BY <1>3, <1>4, GatherStep
<1>6. Same
  BY DEF Same, Unmoved, Recreate
<1> QED BY <1>3, <1>5, <1>6

\* A call is made: it is not in what the request has to do any more.
Calling(r, todo, ok) == [r EXCEPT !.todo = todo, !.ok = ok]

LEMMA CallingStep ==
  ASSUME TypeInv, NEW c \in Client, NEW todo \in Calls, NEW ok \in BOOLEAN,
         req' = [req EXCEPT ![c] = Calling(req[c], todo, ok)]
  PROVE  Only(c) /\ req'[c] = Calling(req[c], todo, ok)
<1>1. req[c] \in Requests /\ Fits(req[c])
  BY DEF TypeInv, RequestsOK
<1>2. RequestOK(Calling(req[c], todo, ok))
  BY <1>1 DEF RequestOK, Requests, Fits, Calling
<1> QED BY <1>2, OnlyOne

LEMMA CallPostStep ==
  ASSUME TypeInv, NEW c \in Client, NEW d \in req[c].todo.post, CallPost(c, d)
  PROVE  /\ Only(c) /\ UNCHANGED <<story, files, zip, count, lapses>>
         /\ d \in Doc /\ docs' = Post(d)
         /\ past' = [past EXCEPT !.posted = @ \cup {d}]
         /\ \E todo \in Calls :
              /\ todo.post = req[c].todo.post \ {d} /\ todo.drop = req[c].todo.drop
              /\ req'[c] = Calling(req[c], todo, req[c].ok)
<1> DEFINE todo == [req[c].todo EXCEPT !.post = @ \ {d}]
<1>1. req[c] \in Requests /\ req[c].todo \in Calls /\ req[c].ok \in BOOLEAN
  BY DEF TypeInv, RequestsOK, Requests
<1>2. todo \in Calls /\ todo.post = req[c].todo.post \ {d} /\ todo.drop = req[c].todo.drop
  BY <1>1 DEF Calls
<1>3. req' = [req EXCEPT ![c] = Calling(req[c], todo, req[c].ok)]
  BY <1>1 DEF CallPost, Calling, TypeInv, RequestsOK, Requests
<1> HIDE DEF todo
<1>4. Only(c) /\ req'[c] = Calling(req[c], todo, req[c].ok)
  BY <1>1, <1>2, <1>3, CallingStep
<1>5. d \in Doc
  BY <1>1 DEF Calls
<1> QED BY <1>2, <1>4, <1>5 DEF CallPost

LEMMA CallDropStep ==
  ASSUME TypeInv, NEW c \in Client, NEW d \in req[c].todo.drop, CallDrop(c, d)
  PROVE  /\ Only(c) /\ UNCHANGED <<story, files, zip, count, lapses, past>>
         /\ docs' = Drop(d)
         /\ \E todo \in Calls :
              /\ todo.post = req[c].todo.post /\ todo.drop = req[c].todo.drop \ {d}
              /\ req'[c] = Calling(req[c], todo, req[c].ok)
<1> DEFINE todo == [req[c].todo EXCEPT !.drop = @ \ {d}]
<1>1. req[c] \in Requests /\ req[c].todo \in Calls /\ req[c].ok \in BOOLEAN
  BY DEF TypeInv, RequestsOK, Requests
<1>2. todo \in Calls /\ todo.post = req[c].todo.post /\ todo.drop = req[c].todo.drop \ {d}
  BY <1>1 DEF Calls
<1>3. req' = [req EXCEPT ![c] = Calling(req[c], todo, req[c].ok)]
  BY <1>1 DEF CallDrop, Calling, TypeInv, RequestsOK, Requests
<1> HIDE DEF todo
<1>4. Only(c) /\ req'[c] = Calling(req[c], todo, req[c].ok)
  BY <1>1, <1>2, <1>3, CallingStep
<1> QED BY <1>2, <1>4 DEF CallDrop

\* The calls that are not about documents.
Besides(c) ==
  \/ \E name \in req[c].todo.write : CallWrite(c, name)
  \/ \E name \in req[c].todo.erase : CallErase(c, name)
  \/ \E what \in req[c].todo.rest : CallStory(c, what)

LEMMA BesidesStep ==
  ASSUME TypeInv, NEW c \in Client, Besides(c)
  PROVE  /\ Only(c) /\ UNCHANGED <<docs, zip, count, lapses, past>>
         /\ story' \in BOOLEAN /\ files' \subseteq Id \cup Extra
         /\ \E todo \in Calls, ok \in BOOLEAN :
              /\ todo.post = req[c].todo.post /\ todo.drop = req[c].todo.drop
              /\ req'[c] = Calling(req[c], todo, ok)
<1>1. req[c] \in Requests /\ req[c].todo \in Calls /\ req[c].ok \in BOOLEAN
  BY DEF TypeInv, RequestsOK, Requests
<1>2. story \in BOOLEAN /\ files \subseteq Id \cup Extra
  BY DEF TypeInv, RestOK
<1>3. ASSUME NEW todo \in Calls, NEW ok \in BOOLEAN,
             todo.post = req[c].todo.post, todo.drop = req[c].todo.drop,
             req' = [req EXCEPT ![c] = Calling(req[c], todo, ok)]
      PROVE  /\ Only(c)
             /\ \E t \in Calls, b \in BOOLEAN :
                  /\ t.post = req[c].todo.post /\ t.drop = req[c].todo.drop
                  /\ req'[c] = Calling(req[c], t, b)
  BY <1>3, CallingStep
<1>4. ASSUME NEW name \in req[c].todo.write, CallWrite(c, name)
      PROVE  /\ Only(c)
             /\ \E t \in Calls, b \in BOOLEAN :
                  /\ t.post = req[c].todo.post /\ t.drop = req[c].todo.drop
                  /\ req'[c] = Calling(req[c], t, b)
  <2> DEFINE todo == [req[c].todo EXCEPT !.write = @ \ {name}]
  <2>1. todo \in Calls /\ todo.post = req[c].todo.post /\ todo.drop = req[c].todo.drop
    BY <1>1 DEF Calls
  <2>2. req' = [req EXCEPT ![c] = Calling(req[c], todo, req[c].ok)]
    BY <1>1, <1>4 DEF CallWrite, Calling, TypeInv, RequestsOK, Requests
  <2> HIDE DEF todo
  <2> QED BY <1>1, <1>3, <2>1, <2>2
<1>5. ASSUME NEW name \in req[c].todo.erase, CallErase(c, name)
      PROVE  /\ Only(c)
             /\ \E t \in Calls, b \in BOOLEAN :
                  /\ t.post = req[c].todo.post /\ t.drop = req[c].todo.drop
                  /\ req'[c] = Calling(req[c], t, b)
  <2> DEFINE todo == [req[c].todo EXCEPT !.erase = @ \ {name}]
             ok == req[c].ok /\ name \in files
  <2>1. todo \in Calls /\ todo.post = req[c].todo.post /\ todo.drop = req[c].todo.drop
    BY <1>1 DEF Calls
  <2>2. req' = [req EXCEPT ![c] = Calling(req[c], todo, ok)]
    BY <1>1, <1>5 DEF CallErase, Calling, TypeInv, RequestsOK, Requests
  <2>3. ok \in BOOLEAN
    OBVIOUS
  <2> HIDE DEF todo, ok
  <2> QED BY <1>3, <2>1, <2>2, <2>3
<1>6. ASSUME NEW what \in req[c].todo.rest, CallStory(c, what)
      PROVE  /\ Only(c)
             /\ \E t \in Calls, b \in BOOLEAN :
                  /\ t.post = req[c].todo.post /\ t.drop = req[c].todo.drop
                  /\ req'[c] = Calling(req[c], t, b)
  <2> DEFINE todo == [req[c].todo EXCEPT !.rest = @ \ {what}]
  <2>1. todo \in Calls /\ todo.post = req[c].todo.post /\ todo.drop = req[c].todo.drop
    BY <1>1 DEF Calls
  <2>2. req' = [req EXCEPT ![c] = Calling(req[c], todo, req[c].ok)]
    BY <1>1, <1>6 DEF CallStory, Calling, TypeInv, RequestsOK, Requests
  <2> HIDE DEF todo
  <2> QED BY <1>1, <1>3, <2>1, <2>2
<1>7. /\ UNCHANGED <<docs, zip, count, lapses, past>>
      /\ story' \in BOOLEAN /\ files' \subseteq Id \cup Extra
  <2>1. ASSUME NEW name \in req[c].todo.write, CallWrite(c, name) PROVE <1>7
    BY <1>1, <1>2, <2>1 DEF CallWrite, Calls
  <2>2. ASSUME NEW name \in req[c].todo.erase, CallErase(c, name) PROVE <1>7
    BY <1>1, <1>2, <2>2 DEF CallErase
  <2>3. ASSUME NEW what \in req[c].todo.rest, CallStory(c, what) PROVE <1>7
    BY <1>1, <1>2, <2>3 DEF CallStory
  <2> QED BY <2>1, <2>2, <2>3 DEF Besides
<1> QED BY <1>4, <1>5, <1>6, <1>7 DEF Besides

LEMMA GatheredStep ==
  ASSUME TypeInv, NEW c \in Client, Gathered(c)
  PROVE  /\ Only(c) /\ Same /\ req[c].todo = NoCall
         /\ \/ req'[c] = Idle
            \/ req'[c] = [req[c] EXCEPT !.at = "recreate", !.found = {}]
            \/ \E todo \in Calls :
                 /\ todo.post = {} /\ todo.drop = {}
                 /\ req'[c] = [req[c] EXCEPT !.todo = todo, !.found = {}]
<1>1. /\ req[c] \in Requests /\ Fits(req[c]) /\ req[c].at = "gather"
      /\ req[c].todo = NoCall /\ req[c].todo \in Calls
  BY DEF TypeInv, RequestsOK, Gathered, Requests
<1>2. Same
  BY DEF Same, Unmoved, Gathered
<1>3. ASSUME NEW s, RequestOK(s), req' = [req EXCEPT ![c] = s] PROVE Only(c) /\ req'[c] = s
  BY <1>3, OnlyOne
<1>4. CASE req[c].ok /\ req[c].op = "deletePage" /\ req[c].found # {}
  <2> DEFINE todo == [req[c].todo EXCEPT !.erase = {d.id : d \in req[c].found}]
             s == [req[c] EXCEPT !.todo = todo, !.found = {}]
  <2>1. {d.id : d \in req[c].found} \in SUBSET Id
    BY <1>1 DEF Requests, Doc
  <2>2. todo \in Calls /\ todo.post = {} /\ todo.drop = {}
    BY <1>1, <2>1 DEF Calls, NoCall
  <2>3. req' = [req EXCEPT ![c] = s]
    BY <1>1, <1>4 DEF Gathered, Requests
  <2> HIDE DEF todo
  <2>4. RequestOK(s)
    BY <1>1, <2>2 DEF RequestOK, Requests, Fits
  <2> HIDE DEF s
  <2>5. Only(c) /\ req'[c] = s
    BY <1>3, <2>3, <2>4
  <2> QED BY <1>1, <1>2, <2>2, <2>5 DEF s
<1>5. CASE req[c].ok /\ req[c].op = "publish" /\ req[c].found # {}
  <2> DEFINE s == [req[c] EXCEPT !.at = "recreate", !.found = {}]
  <2>1. req' = [req EXCEPT ![c] = s]
    BY <1>5 DEF Gathered
  <2>2. RequestOK(s)
    BY <1>1, <1>5 DEF RequestOK, Requests, Fits, Steps
  <2> HIDE DEF s
  <2>3. Only(c) /\ req'[c] = s
    BY <1>3, <2>1, <2>2
  <2> QED BY <1>1, <1>2, <2>3 DEF s
<1>6. CASE /\ ~ (req[c].ok /\ req[c].op = "deletePage" /\ req[c].found # {})
           /\ ~ (req[c].ok /\ req[c].op = "publish" /\ req[c].found # {})
  <2>1. req' = [req EXCEPT ![c] = Idle]
    BY <1>6 DEF Gathered
  <2>2. Only(c) /\ req'[c] = Idle
    BY <1>3, <2>1, IdleOK
  <2> QED BY <1>1, <1>2, <2>2
<1> QED BY <1>4, <1>5, <1>6

-----------------------------------------------------------------------------
(* Every step keeps the types *)

LEMMA RestSame ==
  ASSUME TypeInv, NEW c \in Client, Only(c), UNCHANGED <<docs, count, lapses>>,
         story' \in BOOLEAN, files' \subseteq Id \cup Extra, \A z \in zip' : z \subseteq Doc,
         past' \in [posted : SUBSET Doc, doomed : SUBSET Id]
  PROVE  TypeInv'
<1>1. RequestsOK'
  BY OnlyType
<1>2. DocsOK'
  BY DEF TypeInv, DocsOK, OnePerKey
<1>3. RestOK'
  BY DEF TypeInv, RestOK
<1> QED BY <1>1, <1>2, <1>3 DEF TypeInv

LEMMA DocsChange ==
  ASSUME TypeInv, NEW c \in Client, Only(c), DocsOK', UNCHANGED <<story, files, zip, count, lapses>>,
         past' \in [posted : SUBSET Doc, doomed : SUBSET Id]
  PROVE  TypeInv'
<1>1. RequestsOK'
  BY OnlyType
<1>2. RestOK'
  BY DEF TypeInv, RestOK
<1> QED BY <1>1, <1>2 DEF TypeInv

LEMMA StepType ==
  ASSUME TypeInv, NEW c \in Client, Step(c)
  PROVE  TypeInv'
<1>1. /\ story \in BOOLEAN /\ files \subseteq Id \cup Extra /\ \A z \in zip : z \subseteq Doc
      /\ past \in [posted : SUBSET Doc, doomed : SUBSET Id]
      /\ lapses \subseteq {"overlap", "root", "cycle", "taken", "below", "full"}
      /\ DocsOK /\ req[c] \in Requests
  BY DEF TypeInv, RestOK, RequestsOK
<1>2. ASSUME Only(c), Same PROVE TypeInv'
  BY <1>1, <1>2, RestSame DEF Same, Unmoved
<1>3. CASE Siblings(c)
  BY <1>2, <1>3, SiblingsStep
<1>4. CASE QueryPage(c)
  BY <1>2, <1>4, QueryPageStep
<1>5. CASE MoveDrop(c)
  <2>1. DocsOK'
    BY <1>1, <1>5, MoveDropStep, DropType
  <2> QED BY <1>1, <1>5, <2>1, MoveDropStep, DocsChange
<1>6. CASE MoveCreate(c)
  <2>1. DocsOK'
    BY <1>1, <1>6, MoveCreateStep, PostType
  <2>2. past' \in [posted : SUBSET Doc, doomed : SUBSET Id]
    BY <1>1, <1>6, MoveCreateStep
  <2> QED BY <1>6, <2>1, <2>2, MoveCreateStep, DocsChange
<1>7. CASE QueryStory(c)
  BY <1>2, <1>7, QueryStoryStep
<1>8. CASE GetStory(c)
  <2>1. files' \subseteq Id \cup Extra
    BY <1>1, <1>8, GetStoryStep DEF Extra
  <2> QED BY <1>1, <1>8, <2>1, GetStoryStep, RestSame
<1>9. ASSUME NEW parent \in req[c].frontier, ListChildren(c, parent)
      PROVE  TypeInv'
  <2>1. lapses' \subseteq {"overlap", "root", "cycle", "taken", "below", "full"}
    BY <1>1, <1>9, ListChildrenStep
  <2> QED BY <1>9, <2>1, ListChildrenStep, SameType DEF Unmoved
<1>10. CASE QuerySelf(c)
  <2>1. past' \in [posted : SUBSET Doc, doomed : SUBSET Id]
    <3>1. \A d \in docs : {e.id : e \in req[c].found \cup {d}} \subseteq Id
      BY <1>1 DEF Requests, Doc, DocsOK
    <3>2. \/ past' = past
          \/ \E d \in docs :
               past' = [past EXCEPT !.doomed = @ \cup {e.id : e \in req[c].found \cup {d}}]
      BY <1>10, QuerySelfStep
    <3>3. ASSUME NEW d \in docs,
                 past' = [past EXCEPT !.doomed = @ \cup {e.id : e \in req[c].found \cup {d}}]
          PROVE  past' \in [posted : SUBSET Doc, doomed : SUBSET Id]
      <4>1. PICK ids : ids = {e.id : e \in req[c].found \cup {d}}
        OBVIOUS
      <4>2. ids \subseteq Id /\ past' = [past EXCEPT !.doomed = @ \cup ids]
        BY <3>1, <3>3, <4>1
      <4> QED BY <1>1, <4>2
    <3> QED BY <1>1, <3>2, <3>3
  <2> QED BY <1>1, <1>10, <2>1, QuerySelfStep, RestSame
<1>11. CASE ReadFiles(c)
  <2>1. \A z \in zip' : z \subseteq Doc
    BY <1>1, <1>11, ReadFilesStep DEF Requests
  <2> QED BY <1>1, <1>11, <2>1, ReadFilesStep, RestSame
<1>12. CASE Recreate(c)
  BY <1>2, <1>12, RecreateStep
<1>13. ASSUME NEW d \in req[c].todo.post, CallPost(c, d) PROVE TypeInv'
  <2>1. DocsOK'
    BY <1>1, <1>13, CallPostStep, PostType
  <2>2. past' \in [posted : SUBSET Doc, doomed : SUBSET Id]
    BY <1>1, <1>13, CallPostStep
  <2> QED BY <1>13, <2>1, <2>2, CallPostStep, DocsChange
<1>14. ASSUME NEW d \in req[c].todo.drop, CallDrop(c, d) PROVE TypeInv'
  <2>1. DocsOK'
    BY <1>1, <1>14, CallDropStep, DropType
  <2> QED BY <1>1, <1>14, <2>1, CallDropStep, DocsChange
<1>15. CASE Besides(c)
  BY <1>1, <1>15, BesidesStep, RestSame
<1>16. CASE Gathered(c)
  BY <1>2, <1>16, GatheredStep
<1> QED
  BY <1>3, <1>4, <1>5, <1>6, <1>7, <1>8, <1>9, <1>10, <1>11, <1>12, <1>13, <1>14, <1>15, <1>16
     DEF Step, Besides

LEMMA TypeStep == TypeInv /\ [Next]_vars => TypeInv'
<1>1. ASSUME TypeInv, UNCHANGED vars PROVE TypeInv'
  BY <1>1 DEF vars, TypeInv, DocsOK, OnePerKey, RequestsOK, RestOK
<1>2. ASSUME TypeInv, NEW c \in Client, Request(c) PROVE TypeInv'
  BY <1>2, RequestStep, BeginStep
<1>3. ASSUME TypeInv, NEW c \in Client, Step(c) PROVE TypeInv'
  BY <1>3, StepType
<1> QED BY <1>1, <1>2, <1>3 DEF Next

\* In every behaviour the tables and the requests keep their types, and the table of
\* documents has one for each place.
THEOREM TypeCorrect == Spec => []TypeOK
<1>1. TypeInv => TypeOK
  BY TypeInvType
<1>2. QED BY <1>1, TypeInit, TypeStep, PTL DEF Spec

-----------------------------------------------------------------------------
(* What is written has been read, or is new *)

\* What a request has read has been posted, what it deletes is doomed, and what it posts
\* has been posted before, is a new page at a place of its own, or the root page.
Backed(r, posted, doomed) ==
  /\ r.read \subseteq posted /\ r.found \subseteq posted /\ r.todo.drop \subseteq posted
  /\ \A d \in r.todo.drop : d.id \in doomed
  /\ \A d \in r.todo.post : d \in posted \/ d.d # None \/ d.parent = Story

PostedInv ==
  /\ docs \subseteq past.posted /\ \A z \in zip : z \subseteq past.posted
  /\ \A c \in Client : Backed(req[c], past.posted, past.doomed)

\* The documents that a request is to write, those it moves to a place included.
Writing(r) == Target(r) \cup r.todo.post

\* A page that is moved, between its deletion and its creation.
Holds(r, id) == r.op = "move" /\ r.at = "create" /\ r.page = id

\* What a step of a request may do, but for the place that a new page is given.
Advances(c) ==
  /\ Only(c) /\ lapses \subseteq lapses'
  /\ past.posted \subseteq past'.posted /\ past.doomed \subseteq past'.doomed
  /\ docs' \subseteq past'.posted /\ \A z \in zip' : z \subseteq past'.posted
  /\ past'.posted \subseteq past.posted \cup Writing(req[c])
  /\ Backed(req'[c], past'.posted, past'.doomed)
  /\ Siblings(c) \/ Writing(req'[c]) \subseteq past.posted \cup Writing(req[c])
  /\ MoveCreate(c) \/ \A id : Holds(req[c], id) => Holds(req'[c], id)

\* The destination of a request stays what it is.
LEMMA SameTarget ==
  ASSUME NEW r, NEW s, s.op = r.op, r.op = "move" => Destination(s) = Destination(r)
  PROVE  Target(s) \subseteq Target(r) \cup s.read
  BY DEF Target, Destination

LEMMA IdleWrites == Writing(Idle) = {} /\ \A posted, doomed : Backed(Idle, posted, doomed)
  BY DEF Writing, Target, Idle, NoCall, Backed

\* A step that posts nothing and dooms nothing.
LEMMA QuietAdvance ==
  ASSUME TypeInv, PostedInv, NEW c \in Client, Only(c), lapses \subseteq lapses',
         docs' \subseteq docs, past' = past, \A z \in zip' : z \subseteq past.posted,
         NEW s, req'[c] = s, Backed(s, past.posted, past.doomed),
         s.op = req[c].op, req[c].op = "move" => Destination(s) = Destination(req[c]),
         Siblings(c) \/ s.todo.post \subseteq past.posted \cup req[c].todo.post,
         \A id : Holds(req[c], id) => Holds(s, id)
  PROVE  Advances(c)
<1>1. Target(s) \subseteq Target(req[c]) \cup s.read
  BY SameTarget
<1>2. s.read \subseteq past.posted
  BY DEF Backed
<1>3. Siblings(c) \/ Writing(s) \subseteq past.posted \cup Writing(req[c])
  BY <1>1, <1>2 DEF Writing
<1> QED BY <1>3 DEF Advances, PostedInv

\* A request that does no more than go from a step to another.
LEMMA QuietStep ==
  ASSUME TypeInv, PostedInv, NEW c \in Client, Step(c),
         \/ Siblings(c) \/ QueryPage(c) \/ QueryStory(c) \/ GetStory(c) \/ ReadFiles(c)
         \/ Recreate(c) \/ Gathered(c) \/ \E parent \in req[c].frontier : ListChildren(c, parent)
  PROVE  Advances(c)
<1> DEFINE r == req[c]
<1>1. r \in Requests /\ r.todo \in Calls /\ Backed(r, past.posted, past.doomed)
  BY DEF TypeInv, RequestsOK, PostedInv, Requests
<1>2. docs \subseteq past.posted /\ \A z \in zip : z \subseteq past.posted
  BY DEF PostedInv
<1>3. \A id : r.at # "create" => ~ Holds(r, id)
  BY DEF Holds
<1>4. CASE Siblings(c)
  <2>1. Only(c) /\ Same /\ r.at = "siblings"
    BY <1>4, SiblingsStep DEF Siblings
  <2>2. PICK n \in Int :
          req'[c] = [r EXCEPT !.at = "gather", !.todo =
            [NoCall EXCEPT !.post = {[id |-> r.page, parent |-> r.parent, n |-> n, d |-> r.page]},
                           !.write = {r.page}]]
    BY <1>4, SiblingsStep
  <2> DEFINE s == [r EXCEPT !.at = "gather", !.todo =
            [NoCall EXCEPT !.post = {[id |-> r.page, parent |-> r.parent, n |-> n, d |-> r.page]},
                           !.write = {r.page}]]
  <2>3. r.page # None /\ r.op # "move"
    BY <1>1, <2>1, StoriesAssumption DEF TypeInv, RequestsOK, Fits
  <2>4. /\ s.op = r.op /\ s.read = r.read /\ s.found = r.found /\ s.todo.drop = {}
        /\ s.todo.post = {[id |-> r.page, parent |-> r.parent, n |-> n, d |-> r.page]}
    BY <1>1 DEF Requests, NoCall
  <2> HIDE DEF s, r
  <2>5. Backed(s, past.posted, past.doomed)
    BY <1>1, <2>3, <2>4 DEF Backed
  <2> QED BY <1>2, <1>3, <1>4, <2>1, <2>2, <2>3, <2>4, <2>5, QuietAdvance DEF Same, Unmoved, r, s
<1>5. ASSUME Only(c), lapses \subseteq lapses', docs' = docs, past' = past, zip' = zip,
             req'[c] = Failing(r), r.at # "create"
      PROVE  Advances(c)
  <2>1. /\ Failing(r).op = r.op /\ Failing(r).read = r.read /\ Failing(r).found = r.found
        /\ Failing(r).todo = r.todo /\ Destination(Failing(r)) = Destination(r)
    BY <1>1 DEF Requests, Failing, Destination
  <2>2. Backed(Failing(r), past.posted, past.doomed)
    BY <1>1, <2>1 DEF Backed
  <2> QED BY <1>2, <1>3, <1>5, <2>1, <2>2, QuietAdvance
<1>6. ASSUME NEW at, Only(c), lapses \subseteq lapses', docs' = docs, past' = past,
             \A z \in zip' : z \subseteq past.posted, req'[c] = Going(r, at), r.at # "create"
      PROVE  Advances(c)
  <2>1. /\ Going(r, at).op = r.op /\ Going(r, at).read = r.read /\ Going(r, at).found = r.found
        /\ Going(r, at).todo = r.todo /\ Destination(Going(r, at)) = Destination(r)
    BY <1>1 DEF Requests, Going, Destination
  <2>2. Backed(Going(r, at), past.posted, past.doomed)
    BY <1>1, <2>1 DEF Backed
  <2> QED BY <1>2, <1>3, <1>6, <2>1, <2>2, QuietAdvance
<1>7. ASSUME NEW todo \in Calls, Only(c), Same, todo.drop = {}, todo.post \subseteq past.posted,
             req'[c] = Gathering(r, todo), r.at # "create"
      PROVE  Advances(c)
  <2> DEFINE s == Gathering(r, todo)
  <2>1. /\ s.op = r.op /\ s.read = r.read /\ s.found = r.found
        /\ s.todo = todo /\ Destination(s) = Destination(r)
    BY <1>1 DEF Requests, Gathering, Destination
  <2>2. Backed(s, past.posted, past.doomed)
    BY <1>1, <1>7, <2>1 DEF Backed
  <2> HIDE DEF s, r
  <2> QED BY <1>2, <1>3, <1>7, <2>1, <2>2, QuietAdvance DEF Same, Unmoved, r, s
<1>8. CASE QueryPage(c)
  <2>1. Only(c) /\ Same /\ r.at = "page"
    BY <1>8, QueryPageStep DEF QueryPage
  <2>2. CASE req'[c] = Failing(r)
    BY <1>5, <2>1, <2>2 DEF Same, Unmoved
  <2>3. ASSUME NEW d \in docs, req'[c] = Gathering(r, [NoCall EXCEPT !.post = {d}])
        PROVE  Advances(c)
    <3> DEFINE todo == [NoCall EXCEPT !.post = {d}]
    <3>1. todo \in Calls /\ todo.drop = {} /\ todo.post = {d}
      BY IdleOK DEF Calls, NoCall, TypeInv, DocsOK
    <3> HIDE DEF todo
    <3> QED BY <1>2, <1>7, <2>1, <2>3, <3>1 DEF todo
  <2>4. ASSUME NEW d \in docs, req'[c] = [r EXCEPT !.at = "drop", !.read = {d}]
        PROVE  Advances(c)
    <3> DEFINE s == [r EXCEPT !.at = "drop", !.read = {d}]
    <3>1. /\ s.op = r.op /\ s.read = {d} /\ s.found = r.found
          /\ s.todo = r.todo /\ Destination(s) = Destination(r)
      BY <1>1 DEF Requests, Destination
    <3>2. Backed(s, past.posted, past.doomed)
      BY <1>1, <1>2, <3>1 DEF Backed
    <3> HIDE DEF s, r
    <3> QED BY <1>2, <1>3, <2>1, <2>4, <3>1, <3>2, QuietAdvance DEF Same, Unmoved, r, s
  <2> QED BY <1>8, <2>2, <2>3, <2>4, QueryPageStep
<1>9. ASSUME NEW s, Only(c), lapses \subseteq lapses', docs' = docs, past' = past, zip' = zip,
             req'[c] = s, s.op = r.op, s.read = r.read, s.found \subseteq past.posted,
             s.todo.post \subseteq r.todo.post, s.todo.drop \subseteq r.todo.drop,
             r.op = "move" => Destination(s) = Destination(r), r.at # "create"
      PROVE  Advances(c)
  <2>1. Backed(s, past.posted, past.doomed)
    BY <1>1, <1>9 DEF Backed
  <2> QED BY <1>2, <1>3, <1>9, <2>1, QuietAdvance
<1>10. CASE QueryStory(c)
  <2>1. Only(c) /\ Same /\ r.at = "query"
    BY <1>10, QueryStoryStep DEF QueryStory
  <2>2. ASSUME req'[c] = [r EXCEPT !.at = "list", !.frontier = {Root}] PROVE Advances(c)
    <3> DEFINE s == [r EXCEPT !.at = "list", !.frontier = {Root}]
    <3>1. /\ s.op = r.op /\ s.read = r.read /\ s.found = r.found
          /\ s.todo = r.todo /\ Destination(s) = Destination(r)
      BY <1>1 DEF Requests, Destination
    <3> HIDE DEF s, r
    <3> QED BY <1>1, <1>9, <2>1, <2>2, <3>1 DEF Same, Unmoved, Backed, r, s
  <2> QED BY <1>2, <1>5, <1>6, <1>10, <2>1, <2>2, QueryStoryStep DEF Same, Unmoved
<1>11. CASE GetStory(c)
  <2>1. /\ Only(c) /\ lapses \subseteq lapses' /\ docs' = docs /\ past' = past /\ zip' = zip
        /\ r.at = "story"
    BY <1>11, GetStoryStep
  <2>2. ASSUME NEW page, NEW frontier,
               req'[c] = [r EXCEPT !.at = "list", !.frontier = frontier, !.page = page,
                                   !.todo.rest = {"delete", "deleteGroup"}]
        PROVE  Advances(c)
    <3> DEFINE s == [r EXCEPT !.at = "list", !.frontier = frontier, !.page = page,
                              !.todo.rest = {"delete", "deleteGroup"}]
    <3>1. /\ s.op = r.op /\ s.read = r.read /\ s.found = r.found
          /\ s.todo.post = r.todo.post /\ s.todo.drop = r.todo.drop
      BY <1>1 DEF Requests, Calls
    <3>2. r.op # "move"
      BY <2>1 DEF TypeInv, RequestsOK, Fits
    <3> HIDE DEF s, r
    <3> QED BY <1>1, <1>9, <2>1, <2>2, <3>1, <3>2 DEF Backed, r, s
  <2> QED BY <1>5, <1>11, <2>1, <2>2, GetStoryStep
<1>12. CASE ReadFiles(c)
  <2>1. /\ Only(c) /\ lapses \subseteq lapses' /\ docs' = docs /\ past' = past
        /\ r.at = "read" /\ \A z \in zip' : z \subseteq past.posted
    BY <1>1, <1>2, <1>12, ReadFilesStep DEF ReadFiles, Backed
  <2>2. ASSUME req'[c] = Failing(r) PROVE Advances(c)
    <3>1. /\ Failing(r).op = r.op /\ Failing(r).read = r.read /\ Failing(r).found = r.found
          /\ Failing(r).todo = r.todo /\ Destination(Failing(r)) = Destination(r)
      BY <1>1 DEF Requests, Failing, Destination
    <3>2. Backed(Failing(r), past.posted, past.doomed)
      BY <1>1, <3>1 DEF Backed
    <3> QED BY <1>3, <2>1, <2>2, <3>1, <3>2, QuietAdvance
  <2> QED BY <1>6, <1>12, <2>1, <2>2, ReadFilesStep
<1>13. CASE Recreate(c)
  <2>1. Only(c) /\ Same /\ r.at = "recreate" /\ r.read \subseteq past.posted
    BY <1>1, <1>13, RecreateStep DEF Recreate, Backed
  <2> QED BY <1>7, <1>13, <2>1, RecreateStep
<1>14. CASE Gathered(c)
  <2>1. Only(c) /\ Same /\ r.at = "gather"
    BY <1>14, GatheredStep DEF Gathered
  <2>2. CASE req'[c] = Idle
    <3>1. lapses \subseteq lapses' /\ docs' = docs /\ past' = past /\ zip' = zip
      BY <2>1 DEF Same, Unmoved
    <3>2. \A id : ~ Holds(r, id)
      BY <2>1 DEF Holds
    <3> QED BY <1>2, <2>1, <2>2, <3>1, <3>2, IdleWrites DEF Advances
  <2>3. ASSUME NEW s, req'[c] = s, s.op = r.op, s.read = r.read, s.found = {},
               s.todo.post \subseteq r.todo.post, s.todo.drop \subseteq r.todo.drop,
               Destination(s) = Destination(r)
        PROVE  Advances(c)
    BY <1>9, <2>1, <2>3 DEF Same, Unmoved
  <2>4. ASSUME req'[c] = [r EXCEPT !.at = "recreate", !.found = {}] PROVE Advances(c)
    <3> DEFINE s == [r EXCEPT !.at = "recreate", !.found = {}]
    <3>1. /\ s.op = r.op /\ s.read = r.read /\ s.found = {}
          /\ s.todo = r.todo /\ Destination(s) = Destination(r)
      BY <1>1 DEF Requests, Destination
    <3> HIDE DEF s, r
    <3> QED BY <2>3, <2>4, <3>1 DEF s, r
  <2>5. ASSUME NEW todo \in Calls, todo.post = {}, todo.drop = {},
               req'[c] = [r EXCEPT !.todo = todo, !.found = {}]
        PROVE  Advances(c)
    <3> DEFINE s == [r EXCEPT !.todo = todo, !.found = {}]
    <3>1. /\ s.op = r.op /\ s.read = r.read /\ s.found = {}
          /\ s.todo = todo /\ Destination(s) = Destination(r)
      BY <1>1 DEF Requests, Destination
    <3> HIDE DEF s, r
    <3> QED BY <2>3, <2>5, <3>1 DEF s, r
  <2> QED BY <1>14, <2>2, <2>4, <2>5, GatheredStep
<1>15. ASSUME NEW parent \in r.frontier, ListChildren(c, parent) PROVE Advances(c)
  <2>1. /\ Only(c) /\ lapses \subseteq lapses' /\ docs' = docs /\ past' = past /\ zip' = zip
        /\ r.at = "list"
    BY <1>15, ListChildrenStep DEF Unmoved
  <2>2. ASSUME req'[c] = [Failing(r) EXCEPT !.frontier = {}] PROVE Advances(c)
    <3> DEFINE s == [Failing(r) EXCEPT !.frontier = {}]
    <3>1. /\ s.op = r.op /\ s.read = r.read /\ s.found = r.found
          /\ s.todo = r.todo /\ Destination(s) = Destination(r)
      BY <1>1 DEF Requests, Destination, Failing
    <3> HIDE DEF s, r
    <3> QED BY <1>1, <1>9, <2>1, <2>2, <3>1 DEF Backed, r, s
  <2>3. ASSUME NEW some \in SUBSET docs, NEW frontier,
               req'[c] = [r EXCEPT !.found = @ \cup some, !.frontier = frontier]
        PROVE  Advances(c)
    <3> DEFINE s == [r EXCEPT !.found = @ \cup some, !.frontier = frontier]
    <3>1. /\ s.op = r.op /\ s.read = r.read /\ s.found = r.found \cup some
          /\ s.todo = r.todo /\ Destination(s) = Destination(r)
      BY <1>1 DEF Requests, Destination
    <3> HIDE DEF s, r
    <3> QED BY <1>1, <1>2, <1>9, <2>1, <2>3, <3>1 DEF Backed, r, s
  <2> QED BY <1>15, <2>1, <2>2, <2>3, ListChildrenStep
<1> QED
  BY <1>4, <1>8, <1>10, <1>11, <1>12, <1>13, <1>14, <1>15

\* What a request is after it has made a call.
LEMMA CallingIs ==
  ASSUME TypeInv, NEW c \in Client, NEW todo \in Calls, NEW ok \in BOOLEAN
  PROVE  LET r == req[c]
             s == Calling(r, todo, ok)
         IN  /\ s.op = r.op /\ s.read = r.read /\ s.found = r.found /\ s.todo = todo
             /\ Destination(s) = Destination(r)
             /\ \A id : Holds(r, id) => Holds(s, id)
<1>1. req[c] \in Requests
  BY DEF TypeInv, RequestsOK
<1> QED BY <1>1 DEF Requests, Calling, Destination, Holds

\* A step that posts a document, dooms some, or deletes one.
LEMMA WritingStep ==
  ASSUME TypeInv, PostedInv, NEW c \in Client,
         \/ MoveDrop(c) \/ MoveCreate(c) \/ QuerySelf(c) \/ Besides(c)
         \/ \E d \in req[c].todo.post : CallPost(c, d)
         \/ \E d \in req[c].todo.drop : CallDrop(c, d)
  PROVE  Advances(c)
<1> DEFINE r == req[c]
<1>1. r \in Requests /\ r.todo \in Calls /\ Backed(r, past.posted, past.doomed)
  BY DEF TypeInv, RequestsOK, PostedInv, Requests
<1>2. docs \subseteq past.posted /\ \A z \in zip : z \subseteq past.posted
  BY DEF PostedInv
<1>3. past \in [posted : SUBSET Doc, doomed : SUBSET Id]
  BY DEF TypeInv, RestOK
<1>4. CASE MoveDrop(c)
  <2>1. /\ Only(c) /\ lapses' = lapses /\ past' = past /\ zip' = zip /\ docs' \subseteq docs
        /\ r.at = "drop" /\ req'[c] = Going(r, "create")
    BY <1>4, MoveDropStep DEF MoveDrop, Drop
  <2> DEFINE s == Going(r, "create")
  <2>2. /\ s.op = r.op /\ s.read = r.read /\ s.found = r.found
        /\ s.todo = r.todo /\ Destination(s) = Destination(r)
    BY <1>1 DEF Requests, Going, Destination
  <2>3. \A id : ~ Holds(r, id)
    BY <2>1 DEF Holds
  <2> HIDE DEF s, r
  <2>4. Backed(s, past.posted, past.doomed)
    BY <1>1, <2>2 DEF Backed
  <2> QED BY <1>2, <2>1, <2>2, <2>3, <2>4, QuietAdvance DEF r, s
<1>5. CASE MoveCreate(c)
  <2> DEFINE s == Going(r, "gather")
             doc == Destination(r)
  <2>1. /\ Only(c) /\ lapses' = lapses /\ zip' = zip /\ docs' = Post(doc)
        /\ past' = [past EXCEPT !.posted = @ \cup {doc}] /\ req'[c] = s /\ r.op = "move"
    BY <1>5, MoveCreateStep
  <2>2. /\ s.op = r.op /\ s.read = r.read /\ s.found = r.found
        /\ s.todo = r.todo /\ Destination(s) = Destination(r)
    BY <1>1 DEF Requests, Going, Destination
  <2>3. Target(s) = {doc} /\ Target(r) = {doc}
    BY <2>1, <2>2 DEF Target, Destination
  <2> HIDE DEF s, r, doc
  <2>4. past'.posted = past.posted \cup {doc} /\ past'.doomed = past.doomed
    BY <1>3, <2>1
  <2>5. Backed(s, past'.posted, past'.doomed)
    BY <1>1, <2>2, <2>4 DEF Backed
  <2>6. Writing(s) = Writing(r) /\ doc \in Writing(r)
    BY <2>2, <2>3 DEF Writing
  <2>7. docs' \subseteq past'.posted
    BY <1>2, <2>1, <2>4 DEF Post
  <2> QED BY <1>2, <1>5, <2>1, <2>4, <2>5, <2>6, <2>7 DEF Advances, r
<1>6. ASSUME NEW d \in r.todo.post, CallPost(c, d) PROVE Advances(c)
  <2>1. /\ Only(c) /\ lapses' = lapses /\ zip' = zip /\ docs' = Post(d)
        /\ past' = [past EXCEPT !.posted = @ \cup {d}]
    BY <1>6, CallPostStep
  <2>2. PICK todo \in Calls :
          /\ todo.post = r.todo.post \ {d} /\ todo.drop = r.todo.drop
          /\ req'[c] = Calling(r, todo, r.ok)
    BY <1>6, CallPostStep
  <2> DEFINE s == Calling(r, todo, r.ok)
  <2>3. /\ s.op = r.op /\ s.read = r.read /\ s.found = r.found /\ s.todo = todo
        /\ Destination(s) = Destination(r) /\ \A id : Holds(r, id) => Holds(s, id)
    BY <1>1, CallingIs DEF Requests
  <2>4. req'[c] = s
    BY <2>2
  <2> HIDE DEF s, r
  <2>5. past'.posted = past.posted \cup {d} /\ past'.doomed = past.doomed
    BY <1>3, <2>1
  <2>6. Backed(s, past'.posted, past'.doomed)
    BY <1>1, <2>2, <2>3, <2>5 DEF Backed
  <2>7. Target(s) \subseteq Target(r) \cup s.read /\ s.read \subseteq past.posted
    BY <1>1, <2>3, SameTarget DEF Backed
  <2>8. Writing(s) \subseteq past.posted \cup Writing(r) /\ d \in Writing(r)
    BY <1>6, <2>2, <2>3, <2>7 DEF Writing
  <2>9. docs' \subseteq past'.posted
    BY <1>2, <2>1, <2>5 DEF Post
  <2> QED BY <1>2, <2>1, <2>3, <2>4, <2>5, <2>6, <2>8, <2>9 DEF Advances, r
<1>7. ASSUME Only(c), lapses' = lapses, zip' = zip, past' = past, docs' \subseteq docs,
             NEW todo \in Calls, NEW ok \in BOOLEAN, req'[c] = Calling(r, todo, ok),
             todo.post \subseteq r.todo.post, todo.drop \subseteq r.todo.drop
      PROVE  Advances(c)
  <2> DEFINE s == Calling(r, todo, ok)
  <2>1. /\ s.op = r.op /\ s.read = r.read /\ s.found = r.found /\ s.todo = todo
        /\ Destination(s) = Destination(r) /\ \A id : Holds(r, id) => Holds(s, id)
    BY CallingIs
  <2>2. req'[c] = s
    BY <1>7
  <2> HIDE DEF s, r
  <2>3. Backed(s, past.posted, past.doomed)
    BY <1>1, <1>7, <2>1 DEF Backed, r
  <2> QED BY <1>2, <1>7, <2>1, <2>2, <2>3, QuietAdvance DEF r
<1>8. ASSUME NEW d \in r.todo.drop, CallDrop(c, d) PROVE Advances(c)
  <2>1. Only(c) /\ lapses' = lapses /\ zip' = zip /\ past' = past /\ docs' \subseteq docs
    BY <1>8, CallDropStep DEF Drop
  <2>2. r.ok \in BOOLEAN
    BY <1>1 DEF Requests
  <2> QED BY <1>7, <1>8, <2>1, <2>2, CallDropStep
<1>9. CASE Besides(c)
  BY <1>7, <1>9, BesidesStep
<1>10. CASE QuerySelf(c)
  <2>1. /\ Only(c) /\ lapses' = lapses /\ zip' = zip /\ docs' = docs /\ r.at = "list"
    BY <1>10, QuerySelfStep DEF QuerySelf
  <2>2. \A id : ~ Holds(r, id)
    BY <2>1 DEF Holds
  <2>3. ASSUME NEW s, req'[c] = s, s.op = r.op, s.read = r.read, s.todo.post = r.todo.post,
               Destination(s) = Destination(r), past'.posted = past.posted,
               past.doomed \subseteq past'.doomed, s.found \subseteq past.posted,
               s.todo.drop \subseteq past.posted, \A d \in s.todo.drop : d.id \in past'.doomed
        PROVE  Advances(c)
    <3>1. Backed(s, past'.posted, past'.doomed)
      BY <1>1, <2>3 DEF Backed
    <3>2. Target(s) \subseteq Target(r) \cup s.read /\ s.read \subseteq past.posted
      BY <1>1, <2>3, SameTarget DEF Backed
    <3>3. Writing(s) \subseteq past.posted \cup Writing(r)
      BY <2>3, <3>2 DEF Writing
    <3> HIDE DEF r
    <3> QED BY <1>2, <2>1, <2>2, <2>3, <3>1, <3>3 DEF Advances, r
  <2>4. ASSUME req'[c] = Failing(r), past' = past PROVE Advances(c)
    <3>1. /\ Failing(r).op = r.op /\ Failing(r).read = r.read /\ Failing(r).found = r.found
          /\ Failing(r).todo = r.todo /\ Destination(Failing(r)) = Destination(r)
      BY <1>1 DEF Requests, Failing, Destination
    <3> QED BY <1>1, <2>3, <2>4, <3>1 DEF Backed
  <2>5. ASSUME NEW d \in docs, NEW all, all = r.found \cup {d},
               req'[c] = [r EXCEPT !.at = "read", !.found = all], past' = past
        PROVE  Advances(c)
    <3> DEFINE s == [r EXCEPT !.at = "read", !.found = all]
    <3>1. /\ s.op = r.op /\ s.read = r.read /\ s.found = all
          /\ s.todo = r.todo /\ Destination(s) = Destination(r)
      BY <1>1 DEF Requests, Destination
    <3>2. req'[c] = s /\ all \subseteq past.posted
      BY <1>1, <1>2, <2>5 DEF Backed
    <3> HIDE DEF s, r
    <3> QED BY <1>1, <2>3, <2>5, <3>1, <3>2 DEF Backed, r
  <2>6. ASSUME NEW d \in docs, NEW all, all = r.found \cup {d},
               req'[c] = [r EXCEPT !.at = "gather", !.found = all, !.todo.drop = all],
               past' = [past EXCEPT !.doomed = @ \cup {e.id : e \in all}]
        PROVE  Advances(c)
    <3> DEFINE s == [r EXCEPT !.at = "gather", !.found = all, !.todo.drop = all]
    <3>1. /\ s.op = r.op /\ s.read = r.read /\ s.found = all
          /\ s.todo.post = r.todo.post /\ s.todo.drop = all /\ Destination(s) = Destination(r)
      BY <1>1 DEF Requests, Calls, Destination
    <3>2. req'[c] = s /\ all \subseteq past.posted
      BY <1>1, <1>2, <2>6 DEF Backed
    <3>3. /\ past'.posted = past.posted /\ past'.doomed = past.doomed \cup {e.id : e \in all}
      BY <1>3, <2>6
    <3>4. \A e \in all : e.id \in past'.doomed
      BY <3>3
    <3> HIDE DEF s, r
    <3> QED BY <2>3, <3>1, <3>2, <3>3, <3>4 DEF r
  <2> QED BY <1>10, <2>4, <2>5, <2>6, QuerySelfStep
<1> QED
  BY <1>4, <1>5, <1>6, <1>8, <1>9, <1>10

LEMMA StepAdvances ==
  ASSUME TypeInv, PostedInv, NEW c \in Client, Step(c)
  PROVE  Advances(c)
  BY QuietStep, WritingStep DEF Step, Besides

LEMMA PostedInit == Init => PostedInv
  BY IdleWrites DEF Init, PostedInv

\* What is backed stays so, for all that has been posted and is doomed stays so.
LEMMA AdvanceBacked ==
  ASSUME PostedInv, NEW c \in Client, Advances(c) PROVE PostedInv'
<1>1. ASSUME NEW o \in Client, o # c PROVE Backed(req'[o], past'.posted, past'.doomed)
  <2>1. Backed(req[o], past.posted, past.doomed) /\ req'[o] = req[o]
    BY <1>1 DEF PostedInv, Advances, Only
  <2>2. past.posted \subseteq past'.posted /\ past.doomed \subseteq past'.doomed
    BY DEF Advances
  <2> QED BY <2>1, <2>2 DEF Backed
<1> QED BY <1>1 DEF Advances, PostedInv

RootDoc == [id |-> Root, parent |-> Story, n |-> 0, d |-> None]

\* What the requests that post the root page, and those that move a page, begin with.
LEMMA StoringIs ==
  /\ Storing.op = "putStory" /\ Storing.at = "gather" /\ Storing.read = {} /\ Storing.found = {}
  /\ Storing.todo.post = {RootDoc} /\ Storing.todo.drop = {}
  BY DEF Storing, Idle, NoCall, RootDoc

LEMMA MovingIs ==
  ASSUME NEW d, NEW parent, NEW n, NEW of
  PROVE  LET r == Moving(d, parent, n, of)
         IN  /\ r.op = "move" /\ r.at = "page" /\ r.read = {} /\ r.found = {} /\ r.todo = NoCall
             /\ Destination(r) = [id |-> d.id, parent |-> parent, n |-> n, d |-> of]
  BY DEF Moving, Idle, Destination

\* A request that begins has read nothing but a zip file.
LEMMA BeginBacked ==
  ASSUME TypeInv, PostedInv, NEW c \in Client, NEW r, RequestOK(r), Begin(c, r),
         r = Storing \/ Moved(r) \/ Reads(r)
  PROVE  PostedInv' /\ Backed(r, past.posted, past.doomed)
<1>1. Only(c) /\ req'[c] = r
  BY BeginStep
<1>2. UNCHANGED <<docs, zip, past>>
  BY DEF Begin
<1>3. Backed(r, past.posted, past.doomed)
  <2>1. CASE r = Storing
    <3>1. RootDoc.parent = Story
      BY DEF RootDoc
    <3> QED BY <2>1, <3>1, StoringIs DEF Backed
  <2>2. CASE Moved(r)
    <3>1. r.read = {} /\ r.found = {} /\ r.todo = NoCall
      BY <2>2, MovingIs DEF Moved
    <3> QED BY <3>1 DEF NoCall, Backed
  <2>3. CASE Reads(r)
    BY <2>3 DEF Reads, NoCall, Backed, PostedInv
  <2> QED BY <2>1, <2>2, <2>3
<1>4. \A o \in Client : Backed(req'[o], past.posted, past.doomed)
  BY <1>1, <1>3 DEF Only, PostedInv
<1> QED BY <1>2, <1>3, <1>4 DEF PostedInv

LEMMA PostedStep == TypeInv /\ PostedInv /\ [Next]_vars => PostedInv'
<1>1. ASSUME PostedInv, UNCHANGED vars PROVE PostedInv'
  BY <1>1 DEF vars, PostedInv
<1> QED
  BY <1>1, RequestStep, BeginBacked, StepAdvances, AdvanceBacked DEF Next

-----------------------------------------------------------------------------
(* One page for each place *)

\* The documents that have been posted, or that a request is to write.
Known == past.posted \cup UNION {Writing(req[c]) : c \in Client}

\* The root page alone is under the story. Unless a request took the place of another
\* page, there is one page for each place, and the mark of a new page is its own.
PlaceInv ==
  /\ \A d \in Known : d.parent = Story => d.id = Root
  /\ "taken" \notin lapses =>
       /\ \A d, e \in Known : SameKey(d, e) => d.id = e.id
       /\ \A d \in Known : d.d # None => d.d = d.id

LEMMA PlaceKept ==
  ASSUME PlaceInv, lapses \subseteq lapses', Known' \subseteq Known PROVE PlaceInv'
<1>1. PICK K : K = Known'
  OBVIOUS
<1>2. K \subseteq Known
  BY <1>1
<1>3. /\ \A d \in K : d.parent = Story => d.id = Root
      /\ "taken" \notin lapses' =>
           /\ \A d, e \in K : SameKey(d, e) => d.id = e.id
           /\ \A d \in K : d.d # None => d.d = d.id
  BY <1>2 DEF PlaceInv
<1> QED BY <1>1, <1>3 DEF PlaceInv, SameKey

\* One more document, at a place of its own or that its page has already.
LEMMA PlaceAdded ==
  ASSUME PlaceInv, lapses \subseteq lapses', NEW d, Known' \subseteq Known \cup {d},
         d.parent = Story => d.id = Root,
         "taken" \notin lapses' =>
           /\ d.d # None => d.d = d.id
           /\ \A e \in Known : SameKey(d, e) => d.id = e.id
  PROVE  PlaceInv'
<1>1. PICK K : K = Known'
  OBVIOUS
<1>2. K \subseteq Known \cup {d}
  BY <1>1
<1>3. \A e \in K : e.parent = Story => e.id = Root
  BY <1>2 DEF PlaceInv
<1>4. ASSUME "taken" \notin lapses'
      PROVE  /\ \A e, f \in K : SameKey(e, f) => e.id = f.id
             /\ \A e \in K : e.d # None => e.d = e.id
  BY <1>2, <1>4 DEF PlaceInv, SameKey
<1> QED BY <1>1, <1>3, <1>4 DEF PlaceInv, SameKey

LEMMA KnownAfter ==
  ASSUME NEW c \in Client, Only(c), NEW S,
         past'.posted \subseteq past.posted \cup Writing(req[c]),
         Writing(req'[c]) \subseteq past.posted \cup Writing(req[c]) \cup S
  PROVE  Known' \subseteq Known \cup S
<1>1. past.posted \cup Writing(req[c]) \subseteq Known
  BY DEF Known
<1>2. \A o \in Client : Writing(req'[o]) \subseteq Known \cup S
  BY <1>1 DEF Only, Known
<1>3. Known' = past'.posted \cup UNION {Writing(req'[o]) : o \in Client}
  BY DEF Known, Writing, Target
<1> QED BY <1>1, <1>2, <1>3

\* A new page is given a place that bears its mark.
LEMMA SiblingsPlace ==
  ASSUME TypeInv, PlaceInv, NEW c \in Client, Siblings(c) PROVE PlaceInv'
<1> DEFINE r == req[c]
<1>1. Only(c) /\ past' = past /\ lapses' = lapses /\ r.at = "siblings" /\ r \in Requests
  BY SiblingsStep DEF Siblings, Same, Unmoved, TypeInv, RequestsOK
<1>2. r.op = "put" /\ r.page \in Page /\ r.parent \in Id
  BY <1>1 DEF TypeInv, RequestsOK, Fits
<1>3. PICK n \in Int :
        req'[c] = [r EXCEPT !.at = "gather", !.todo =
          [NoCall EXCEPT !.post = {[id |-> r.page, parent |-> r.parent, n |-> n, d |-> r.page]},
                         !.write = {r.page}]]
  BY SiblingsStep
<1> DEFINE doc == [id |-> r.page, parent |-> r.parent, n |-> n, d |-> r.page]
<1>4. Writing(req'[c]) = {doc}
  <2>1. req'[c].op = "put" /\ req'[c].todo.post = {doc}
    <3>1. req'[c].todo = [NoCall EXCEPT !.post = {doc}, !.write = {r.page}]
      BY <1>1, <1>3 DEF Requests
    <3> QED BY <3>1, SiblingsStep DEF NoCall
  <2> QED BY <2>1 DEF Writing, Target
<1>5. doc.d = doc.id /\ doc.d # None /\ doc.parent # Story
  BY <1>2, StoriesAssumption DEF Id
<1> HIDE DEF doc
<1>6. Known' \subseteq Known \cup {doc}
  BY <1>1, <1>4, KnownAfter
<1>7. ASSUME "taken" \notin lapses', NEW e \in Known, SameKey(doc, e) PROVE doc.id = e.id
  BY <1>1, <1>5, <1>7 DEF SameKey, PlaceInv
<1> QED BY <1>1, <1>5, <1>6, <1>7, PlaceAdded

\* A page moved takes a place that no other page has or is given, or has lapsed.
LEMMA MovePlace ==
  ASSUME TypeInv, PostedInv, PlaceInv, NEW c \in Client, NEW r, RequestOK(r), Begin(c, r), Moved(r)
  PROVE  PlaceInv'
<1>1. Only(c) /\ req'[c] = r /\ req[c] = Idle
  BY BeginStep
<1>2. past' = past /\ lapses' = lapses \cup Lapses(c, r)
  BY DEF Begin
<1> DEFINE t == Destination(r)
<1>3. r.op = "move" /\ r.todo = NoCall
  BY MovingIs DEF Moved
<1>4. Target(r) = {t} /\ Writing(r) = {t}
  BY <1>3 DEF Target, Destination, Writing, NoCall
<1>5. t.parent # Story /\ (t.d # None => \E e \in docs : SameKey(t, e))
  <2>1. ASSUME NEW d \in docs, NEW parent \in Id, NEW n \in Int, r = Moving(d, parent, n, None)
        PROVE  <1>5
    <3>1. t = [id |-> d.id, parent |-> parent, n |-> n, d |-> None]
      BY <2>1, MovingIs
    <3> QED BY <3>1, StoriesAssumption DEF Id
  <2>2. ASSUME NEW d \in docs, NEW parent \in Id, NEW n \in Int, NEW e \in docs,
               e.parent = parent, e.n = n, r = Moving(d, parent, n, e.d)
        PROVE  <1>5
    <3>1. t = [id |-> d.id, parent |-> parent, n |-> n, d |-> e.d]
      BY <2>2, MovingIs
    <3>2. SameKey(t, e)
      BY <2>2, <3>1 DEF SameKey
    <3> QED BY <3>1, <3>2, StoriesAssumption DEF Id
  <2> QED BY <2>1, <2>2 DEF Moved
<1> HIDE DEF t
<1>6. Known' \subseteq Known \cup {t}
  BY <1>1, <1>2, <1>4, KnownAfter
<1>7. ASSUME "taken" \notin lapses'
      PROVE  /\ t.d # None => t.d = t.id
             /\ \A e \in Known : SameKey(t, e) => t.id = e.id
  <2>1. /\ \A e \in past.posted : SameKey(t, e) => t.id = e.id
        /\ \A o \in Client \ {c} : \A e \in Target(req[o]) : SameKey(t, e) => t.id = e.id
    <3>1. "taken" \notin Lapses(c, r)
      BY <1>2, <1>7
    <3>2. ~ \E d \in Target(r), e \in past.posted \cup UNION {Target(req[o]) : o \in Client \ {c}} :
              SameKey(d, e) /\ d.id # e.id
      BY <3>1 DEF Lapses
    <3> QED BY <1>4, <3>2
  <2>2. \A d \in Known : d.d # None => d.d = d.id
    BY <1>2, <1>7 DEF PlaceInv
  <2>3. past.posted \subseteq Known /\ docs \subseteq past.posted
    BY DEF Known, PostedInv
  <2>4. t.d # None => t.d = t.id
    <3>1. ASSUME NEW e \in docs, SameKey(t, e), t.d # None PROVE t.d = t.id
      <4>1. t.id = e.id /\ t.d = e.d
        BY <2>1, <2>3, <3>1 DEF SameKey
      <4> QED BY <2>2, <2>3, <3>1, <4>1
    <3> QED BY <1>5, <3>1
  <2>5. ASSUME NEW e \in Known, SameKey(t, e) PROVE t.id = e.id
    <3>1. CASE e \in past.posted
      BY <2>1, <2>5, <3>1
    <3>2. ASSUME NEW o \in Client, e \in Writing(req[o]) PROVE t.id = e.id
      <4>1. o # c
        BY <1>1, <3>2, IdleWrites
      <4>2. CASE e \in Target(req[o])
        BY <2>1, <2>5, <4>1, <4>2
      <4>3. CASE e \in req[o].todo.post
        <5>1. e \in past.posted \/ e.d # None \/ e.parent = Story
          BY <4>3 DEF PostedInv, Backed
        <5>2. t.parent = e.parent /\ t.d = e.d
          BY <2>5 DEF SameKey
        <5> QED BY <1>5, <2>2, <2>4, <2>5, <3>1, <5>1, <5>2
      <4> QED BY <3>2, <4>2, <4>3 DEF Writing
    <3> QED BY <2>5, <3>1, <3>2 DEF Known
  <2> QED BY <2>4, <2>5
<1> QED BY <1>2, <1>5, <1>6, <1>7, PlaceAdded

LEMMA BeginPlace ==
  ASSUME TypeInv, PostedInv, PlaceInv, NEW c \in Client, NEW r, RequestOK(r), Begin(c, r),
         r = Storing \/ Moved(r) \/ Reads(r)
  PROVE  PlaceInv'
<1>1. Only(c) /\ req'[c] = r /\ past' = past /\ lapses \subseteq lapses'
  BY BeginStep DEF Begin
<1>2. CASE r = Storing
  <2>1. Writing(r) = {RootDoc}
    BY <1>2, StoringIs DEF Writing, Target
  <2>2. Known' \subseteq Known \cup {RootDoc}
    BY <1>1, <2>1, KnownAfter
  <2>3. RootDoc.parent = Story /\ RootDoc.id = Root /\ RootDoc.d = None
    BY DEF RootDoc
  <2>4. \A e \in Known : SameKey(RootDoc, e) => e.id = Root
    BY <2>3 DEF SameKey, PlaceInv
  <2> QED BY <1>1, <2>2, <2>3, <2>4, PlaceAdded
<1>3. CASE Moved(r)
  BY <1>3, MovePlace
<1>4. CASE Reads(r)
  <2>1. r.read \subseteq past.posted
    BY BeginBacked DEF Backed
  <2>2. Writing(r) \subseteq past.posted
    BY <1>4, <2>1 DEF Reads, Writing, Target, NoCall
  <2>3. Known' \subseteq Known \cup {}
    BY <1>1, <2>2, KnownAfter
  <2> QED BY <1>1, <2>3, PlaceKept
<1> QED BY <1>2, <1>3, <1>4

LEMMA AdvancePlace ==
  ASSUME TypeInv, PlaceInv, NEW c \in Client, Advances(c) PROVE PlaceInv'
<1>1. CASE Siblings(c)
  BY <1>1, SiblingsPlace
<1>2. CASE ~ Siblings(c)
  <2>1. Known' \subseteq Known \cup {}
    BY <1>2, KnownAfter DEF Advances
  <2> QED BY <2>1, PlaceKept DEF Advances
<1> QED BY <1>1, <1>2

LEMMA PlaceInit == Init => PlaceInv
  BY IdleWrites DEF Init, PlaceInv, Known

LEMMA PlaceStep == TypeInv /\ PostedInv /\ PlaceInv /\ [Next]_vars => PlaceInv'
<1>1. ASSUME PlaceInv, UNCHANGED vars PROVE PlaceInv'
  <2>1. Known' = Known
    BY <1>1 DEF vars, Known, Writing, Target
  <2> QED BY <1>1, <2>1, PlaceKept DEF vars
<1> QED
  BY <1>1, RequestStep, BeginPlace, StepAdvances, AdvancePlace DEF Next

-----------------------------------------------------------------------------
(* No page is lost *)

IInv == TypeInv /\ PostedInv /\ PlaceInv /\ PagesKept

\* A page that is in the table or in the hands of a request that moves it.
There(id) == \/ \E e \in docs : e.id = id
             \/ \E c \in Client : Holds(req[c], id)

LEMMA KeptIs ==
  PagesKept <=> ("taken" \notin lapses => \A d \in past.posted : d.id \in past.doomed \/ There(d.id))
  BY DEF PagesKept, There, Holds

\* Pages are kept by a step that loses none but those that are doomed.
LEMMA KeptBy ==
  ASSUME PagesKept, lapses \subseteq lapses', past.doomed \subseteq past'.doomed,
         "taken" \notin lapses' => \A d \in past'.posted : d \in past.posted \/ There(d.id)',
         "taken" \notin lapses' => \A id : There(id) => id \in past'.doomed \/ There(id)'
  PROVE  PagesKept'
<1>1. ASSUME "taken" \notin lapses', NEW d \in past'.posted, ~ There(d.id)'
      PROVE  d.id \in past'.doomed
  <2>1. d \in past.posted /\ "taken" \notin lapses
    BY <1>1
  <2>2. d.id \in past.doomed \/ There(d.id)
    BY <2>1, KeptIs
  <2>3. PICK id : id = d.id
    OBVIOUS
  <2>4. ~ There(id)'
    BY <1>1, <2>3
  <2>5. id \in past'.doomed
    BY <1>1, <2>2, <2>3, <2>4
  <2> QED BY <2>3, <2>5
<1> QED BY <1>1 DEF PagesKept, There, Holds

\* What other requests hold stays held.
LEMMA HeldStays ==
  ASSUME NEW c \in Client, Only(c), NEW id, There(id),
         \A e \in docs : e.id = id => \E f \in docs' : f.id = id,
         Holds(req[c], id) => Holds(req'[c], id) \/ \E f \in docs' : f.id = id
  PROVE  There(id)'
<1>1. CASE \E e \in docs : e.id = id
  BY <1>1 DEF There
<1>2. CASE \E o \in Client : Holds(req[o], id)
  <2>1. PICK o \in Client : Holds(req[o], id)
    BY <1>2
  <2>2. Holds(req'[o], id) \/ \E f \in docs' : f.id = id
    BY <2>1 DEF Only
  <2> QED BY <2>2 DEF There, Holds
<1> QED BY <1>1, <1>2 DEF There

\* A document that is posted takes the place of one of the same page only.
LEMMA PostKeeps ==
  ASSUME PostedInv, PlaceInv, "taken" \notin lapses, NEW d \in Known, docs' = Post(d)
  PROVE  d \in docs' /\ \A e \in docs : \E f \in docs' : f.id = e.id
<1>1. docs \subseteq Known
  BY DEF PostedInv, Known
<1>2. \A e \in docs : SameKey(d, e) => d.id = e.id
  BY <1>1 DEF PlaceInv
<1> QED BY <1>2 DEF Post

\* A document that is deleted takes away its own page only.
LEMMA DropKeeps ==
  ASSUME PostedInv, PlaceInv, "taken" \notin lapses, NEW d \in Known, docs' = Drop(d)
  PROVE  \A e \in docs : e \in docs' \/ e.id = d.id
<1>1. docs \subseteq Known
  BY DEF PostedInv, Known
<1>2. \A e \in docs : SameKey(d, e) => d.id = e.id
  BY <1>1 DEF PlaceInv
<1> QED BY <1>2 DEF Drop

LEMMA PostKept ==
  ASSUME IInv, NEW c \in Client, Only(c), lapses' = lapses, NEW d \in Known, docs' = Post(d),
         past'.posted = past.posted \cup {d}, past'.doomed = past.doomed,
         \A id : Holds(req[c], id) => Holds(req'[c], id) \/ id = d.id
  PROVE  PagesKept'
<1>1. ASSUME "taken" \notin lapses'
      PROVE  d \in docs' /\ \A e \in docs : \E f \in docs' : f.id = e.id
  BY <1>1, PostKeeps DEF IInv
<1>2. ASSUME "taken" \notin lapses', NEW id, There(id) PROVE There(id)'
  BY <1>1, <1>2, HeldStays
<1>3. ASSUME "taken" \notin lapses', NEW e \in past'.posted PROVE e \in past.posted \/ There(e.id)'
  <2>1. CASE e = d
    BY <1>1, <1>3, <2>1 DEF There
  <2>2. CASE e # d
    BY <1>3, <2>2
  <2> QED BY <2>1, <2>2
<1> QED BY <1>2, <1>3, KeptBy DEF IInv

LEMMA DropKept ==
  ASSUME IInv, NEW c \in Client, Only(c), lapses' = lapses, past' = past, NEW d \in Known,
         docs' = Drop(d), d.id \in past.doomed \/ Holds(req'[c], d.id),
         \A id : Holds(req[c], id) => Holds(req'[c], id)
  PROVE  PagesKept'
<1>1. ASSUME "taken" \notin lapses' PROVE \A e \in docs : e \in docs' \/ e.id = d.id
  BY <1>1, DropKeeps DEF IInv
<1>2. ASSUME "taken" \notin lapses', NEW id, There(id), id # d.id PROVE There(id)'
  BY <1>1, <1>2, HeldStays
<1>3. ASSUME "taken" \notin lapses', NEW id, There(id), id = d.id PROVE id \in past'.doomed \/ There(id)'
  <2>1. CASE d.id \in past.doomed
    BY <1>3, <2>1
  <2>2. CASE Holds(req'[c], d.id)
    <3>1. Holds(req'[c], id)
      BY <1>3, <2>2
    <3> QED BY <3>1 DEF There, Holds
  <2> QED BY <2>1, <2>2
<1> QED BY <1>2, <1>3, KeptBy DEF IInv

\* The four steps that change the table.
LEMMA TableKept ==
  ASSUME IInv, NEW c \in Client, Advances(c),
         \/ MoveDrop(c) \/ MoveCreate(c) \/ \E d \in req[c].todo.post : CallPost(c, d)
         \/ \E d \in req[c].todo.drop : CallDrop(c, d)
  PROVE  PagesKept'
<1>1. TypeInv /\ req[c] \in Requests /\ Backed(req[c], past.posted, past.doomed)
  BY DEF IInv, TypeInv, RequestsOK, PostedInv
<1>2. past.posted \subseteq Known /\ Writing(req[c]) \subseteq Known /\ Only(c)
  BY DEF Known, Advances
<1>3. past \in [posted : SUBSET Doc, doomed : SUBSET Id]
  BY <1>1 DEF TypeInv, RestOK
<1>4. CASE MoveDrop(c)
  <2>1. PICK d \in req[c].read : d.id = req[c].page /\ docs' = Drop(d)
    BY <1>1, <1>4, MoveDropStep
  <2>2. lapses' = lapses /\ past' = past /\ req'[c] = Going(req[c], "create") /\ req[c].op = "move"
    BY <1>1, <1>4, MoveDropStep
  <2>3. Holds(req'[c], d.id)
    BY <1>1, <2>1, <2>2 DEF Holds, Going, Requests
  <2>4. \A id : ~ Holds(req[c], id)
    BY <1>4 DEF MoveDrop, Holds
  <2>5. d \in Known
    BY <1>1, <1>2 DEF Backed
  <2> QED BY <1>2, <2>1, <2>2, <2>3, <2>4, <2>5, DropKept
<1>5. CASE MoveCreate(c)
  <2>1. PICK t : t = Destination(req[c])
    OBVIOUS
  <2>2. /\ lapses' = lapses /\ docs' = Post(t) /\ req[c].op = "move"
        /\ past' = [past EXCEPT !.posted = @ \cup {t}]
    BY <1>1, <1>5, <2>1, MoveCreateStep
  <2>3. t \in Known /\ t.id = req[c].page
    BY <1>2, <2>1, <2>2 DEF Writing, Target, Destination
  <2>4. past'.posted = past.posted \cup {t} /\ past'.doomed = past.doomed
    BY <1>3, <2>2
  <2>5. \A id : Holds(req[c], id) => id = t.id
    BY <2>3 DEF Holds
  <2> QED BY <1>2, <2>2, <2>3, <2>4, <2>5, PostKept
<1>6. ASSUME NEW d \in req[c].todo.post, CallPost(c, d) PROVE PagesKept'
  <2>1. lapses' = lapses /\ docs' = Post(d) /\ past' = [past EXCEPT !.posted = @ \cup {d}]
    BY <1>1, <1>6, CallPostStep
  <2>2. past'.posted = past.posted \cup {d} /\ past'.doomed = past.doomed
    BY <1>3, <2>1
  <2>3. d \in Known
    BY <1>2, <1>6 DEF Writing
  <2>4. \A id : Holds(req[c], id) => Holds(req'[c], id)
    <3>1. PICK todo \in Calls : req'[c] = Calling(req[c], todo, req[c].ok)
      BY <1>1, <1>6, CallPostStep
    <3>2. req[c].ok \in BOOLEAN
      BY <1>1 DEF Requests
    <3> QED BY <1>1, <3>1, <3>2, CallingIs
  <2> QED BY <1>2, <2>1, <2>2, <2>3, <2>4, PostKept
<1>7. ASSUME NEW d \in req[c].todo.drop, CallDrop(c, d) PROVE PagesKept'
  <2>1. lapses' = lapses /\ docs' = Drop(d) /\ past' = past
    BY <1>1, <1>7, CallDropStep
  <2>2. d \in Known /\ d.id \in past.doomed
    BY <1>1, <1>2, <1>7 DEF Backed
  <2>3. \A id : Holds(req[c], id) => Holds(req'[c], id)
    <3>1. PICK todo \in Calls : req'[c] = Calling(req[c], todo, req[c].ok)
      BY <1>1, <1>7, CallDropStep
    <3>2. req[c].ok \in BOOLEAN
      BY <1>1 DEF Requests
    <3> QED BY <1>1, <3>1, <3>2, CallingIs
  <2> QED BY <1>2, <2>1, <2>2, <2>3, DropKept
<1> QED BY <1>4, <1>5, <1>6, <1>7

\* The others leave it as it is.
LEMMA OtherKept ==
  ASSUME IInv, NEW c \in Client, Only(c), lapses \subseteq lapses', docs' = docs,
         past'.posted = past.posted, past.doomed \subseteq past'.doomed,
         \A id : Holds(req[c], id) => Holds(req'[c], id)
  PROVE  PagesKept'
<1>1. ASSUME NEW id, There(id) PROVE There(id)'
  BY <1>1, HeldStays
<1> QED BY <1>1, KeptBy DEF IInv

LEMMA StepKept ==
  ASSUME IInv, NEW c \in Client, Step(c) PROVE PagesKept'
<1>1. Advances(c) /\ TypeInv
  BY StepAdvances DEF IInv
<1>2. CASE \/ MoveDrop(c) \/ MoveCreate(c) \/ \E d \in req[c].todo.post : CallPost(c, d)
           \/ \E d \in req[c].todo.drop : CallDrop(c, d)
  BY <1>1, <1>2, TableKept
<1>3. ASSUME docs' = docs, past'.posted = past.posted, ~ MoveCreate(c) PROVE PagesKept'
  BY <1>1, <1>3, OtherKept DEF Advances
<1>4. CASE /\ ~ MoveCreate(c)
           /\ \/ Siblings(c) \/ QueryPage(c) \/ QueryStory(c) \/ GetStory(c) \/ ReadFiles(c)
              \/ Recreate(c) \/ Gathered(c) \/ Besides(c)
              \/ \E parent \in req[c].frontier : ListChildren(c, parent)
  <2>1. docs' = docs /\ past' = past
    BY <1>4 DEF Siblings, QueryPage, QueryStory, GetStory, ReadFiles, Recreate, Gathered, Besides,
                CallWrite, CallErase, CallStory, ListChildren
  <2> QED BY <1>3, <1>4, <2>1
<1>5. CASE ~ MoveCreate(c) /\ QuerySelf(c)
  <2>1. docs' = docs /\ past'.posted = past.posted
    BY <1>1, <1>5, QuerySelfStep DEF TypeInv, RestOK
  <2> QED BY <1>3, <1>5, <2>1
<1> QED BY <1>2, <1>4, <1>5 DEF Step, Besides

LEMMA KeptStep == IInv /\ [Next]_vars => PagesKept'
<1>1. ASSUME IInv, UNCHANGED vars PROVE PagesKept'
  BY <1>1 DEF vars, IInv, PagesKept
<1>2. ASSUME IInv, NEW c \in Client, Request(c) PROVE PagesKept'
  <2>1. PICK r : RequestOK(r) /\ Begin(c, r)
    BY <1>2, RequestStep DEF IInv
  <2>2. Only(c) /\ req[c] = Idle /\ past' = past /\ docs' = docs /\ lapses \subseteq lapses'
    BY <1>2, <2>1, BeginStep DEF Begin, IInv
  <2>3. \A id : ~ Holds(req[c], id)
    BY <2>2 DEF Holds, Idle
  <2> QED BY <1>2, <2>2, <2>3, OtherKept
<1> QED BY <1>1, <1>2, StepKept DEF Next

\* In every behaviour, however requests are interleaved and wherever pages are moved: a
\* page that no deletion has found is in the table, or in the hands of the request that
\* moves it, as long as no two pages have had the same place.
THEOREM NoPageLost == Spec => []PagesKept
<1>1. Init => IInv
  BY TypeInit, PostedInit, PlaceInit DEF Init, IInv, PagesKept
<1>2. IInv /\ [Next]_vars => IInv'
  BY TypeStep, PostedStep, PlaceStep, KeptStep DEF IInv
<1>3. IInv => PagesKept
  BY DEF IInv
<1>4. QED BY <1>1, <1>2, <1>3, PTL DEF Spec

-----------------------------------------------------------------------------
(* A story is whole *)

Closed(S, D) == \A d \in D : d.parent \in S => d.id \in S

\* The documents of a story: one for each page, all of them under the root.
IsTree(D) ==
  /\ \A d, e \in D : d.id = e.id => d = e
  /\ \E d \in D : d.id = Root
  /\ \A d \in D : /\ d.n >= 0 /\ (d.parent = Story <=> d.id = Root)
                  /\ d.parent = Story \/ \E e \in D : e.id = d.parent
  /\ \A S \in SUBSET Id : Root \in S /\ Closed(S, D) => \A d \in D : d.id \in S

IsWhole(s, D, F) == IF s THEN IsTree(D) /\ F = Contents(D) ELSE D = {} /\ F = {}

\* The story as it is going to be: what requests have yet to create, to post, to write.
Begun == story \/ \E c \in Client : "create" \in req[c].todo.rest
Posts == docs \cup UNION {req[c].todo.post : c \in Client}
Writes == files \cup UNION {req[c].todo.write : c \in Client}

\* A request that deletes and moves nothing.
Grows(r, D) ==
  /\ r.op \in {"none", "putStory", "put", "rename", "zip"} /\ (r.op = "none" => r = Idle)
  /\ r.at \in {"idle", "siblings", "page", "query", "list", "read", "gather"}
  /\ r.at # "gather" => r.todo = NoCall
  /\ r.todo.drop = {} /\ r.todo.erase = {} /\ r.todo.rest \subseteq {"create"}
  /\ \A d \in r.todo.post : d.id \in {r.page, Root}
  /\ r.at = "siblings" => \E d \in D : d.id = r.parent
  /\ r.at \in {"query", "list", "read"} => r.op = "zip" /\ r.page = Root
  /\ r.at \in {"query", "list"} =>
       /\ r.found \subseteq D
       /\ \A x \in r.frontier \cup {d.parent : d \in r.found} : x = Root \/ \E d \in r.found : d.id = x
  /\ r.at = "read" => IsTree(r.found)

\* The pages that are going to be posted are new.
Fresh ==
  \A c \in Client : req[c].at = "siblings" =>
    /\ \A d \in Posts : d.id # req[c].page
    /\ \A o \in Client : o # c /\ req[o].at = "siblings" => req[o].page # req[c].page

Growing == IsWhole(Begun, Posts, Writes) /\ Fresh /\ \A c \in Client : Grows(req[c], docs)

\* A page is moved within the tree.
Relocates(r, D, F) ==
  /\ r.at \in {"page", "drop", "create", "gather"} /\ r.todo = NoCall /\ r.page # Root /\ r.n >= 0
  /\ r.at \in {"page", "drop"} =>
       /\ IsTree(D) /\ F = Contents(D) /\ \E d \in D : d.id = r.parent
       /\ \E S \in SUBSET Id : Closed(S, D) /\ r.page \in S /\ r.parent \notin S
  /\ r.at = "drop" => \A d \in r.read : d \in D /\ d.id = r.page
  /\ r.at = "create" => /\ IsTree(D \cup Target(r)) /\ F = Contents(D \cup Target(r))
                        /\ \A d \in D : d.id # r.page
  /\ r.at = "gather" => IsTree(D) /\ F = Contents(D)

\* The pages under one are looked for: the children of those that have been asked for are found.
Looks(r, D) ==
  LET pages == {r.page} \cup {d.id : d \in r.found}
  IN  /\ IsTree(D) /\ \E d \in D : d.id = r.page
      /\ r.found \subseteq D /\ r.frontier \subseteq pages
      /\ \A d \in r.found : d.id # Root
      /\ \A d \in D : d.parent \in pages \ r.frontier => d \in r.found

\* A page is deleted with all that is under it, the documents first.
Deletes(r, D, F) ==
  /\ r.at \in {"list", "gather"} /\ r.ok
  /\ r.todo.post = {} /\ r.todo.write = {} /\ r.todo.rest = {}
  /\ r.at = "list" => r.page # Root /\ Looks(r, D) /\ F = Contents(D) /\ r.todo = NoCall
  /\ r.at = "gather" =>
       /\ IsTree(D \ r.found) /\ r.todo.drop = D \cap r.found
       /\ \A d \in D \ r.found, e \in r.found : d.id # e.id
       /\ F = Contents(D \cup r.found) \cup r.todo.erase
       /\ r.todo.erase \subseteq Id /\ \A d \in D : d.id \notin r.todo.erase
       /\ r.found # {} => r.todo.erase = {}

\* The story is deleted with all its pages.
Removes(r, s, D, F) ==
  /\ r.at \in {"query", "story", "list", "gather", "recreate"} /\ r.ok
  /\ r.todo.erase = {}
  /\ r.at \in {"query", "story"} => IsWhole(s, D, F) /\ r.todo = NoCall /\ r.found = {}
  /\ r.at = "story" => s
  /\ r.at = "list" => r.page = Root /\ Looks(r, D) /\ r.todo.drop = {}
  /\ r.at = "list" \/ (r.at = "gather" /\ r.found # {}) =>
       /\ "delete" \in r.todo.rest \/ ~ s
       /\ "deleteGroup" \in r.todo.rest \/ F = {}
       /\ "create" \notin r.todo.rest /\ r.todo.post = {} /\ r.todo.write = {}
  /\ r.at = "gather" /\ r.found # {} => D \subseteq r.todo.drop
  /\ r.at = "recreate" => r.found = {} /\ r.todo = NoCall /\ D = {} /\ F = {} /\ ~ s

\* A story that is published is the one of a zip file once its calls have been made.
Publishes(r, s, D, F) ==
  /\ IsTree(r.read)
  /\ r.at = "gather" /\ r.found = {} =>
       /\ D \cup r.todo.post = r.read /\ F \cup r.todo.write = Contents(r.read)
       /\ s \/ "create" \in r.todo.rest
       /\ r.todo.drop = {} /\ r.todo.rest \subseteq {"create"}

Destroys(r, s, D, F) ==
  \/ r.op = "move" /\ s /\ Relocates(r, D, F)
  \/ r.op = "deletePage" /\ s /\ Deletes(r, D, F)
  \/ /\ r.op = "deleteStory" /\ Removes(r, s, D, F)
     /\ r.at \in {"story", "list", "gather"} /\ (r.at = "gather" => r.found # {})
  \/ r.op = "publish" /\ Removes(r, s, D, F) /\ Publishes(r, s, D, F)

\* Requests that destroy nothing, or one, alone, that does.
WholeInv ==
  lapses = {} =>
    /\ \A z \in zip : IsTree(z)
    /\ \/ Growing
       \/ \E c \in Client : /\ Destroys(req[c], story, docs, files)
                            /\ \A o \in Client : o # c => req[o] = Idle

\* What is left of a tree when it is left with its parents is a tree.
LEMMA UpperTree ==
  ASSUME NEW D \in SUBSET Doc, IsTree(D), NEW X \in SUBSET D, \E d \in X : d.id = Root,
         \A d \in X : d.parent = Story \/ \E e \in X : e.id = d.parent
  PROVE  IsTree(X)
<1>1. ASSUME NEW S \in SUBSET Id, Root \in S, Closed(S, X), NEW x \in X PROVE x.id \in S
  <2> DEFINE T == S \cup {id \in Id : \A d \in X : d.id # id}
  <2>1. T \in SUBSET Id /\ Root \in T
    BY <1>1
  <2>2. ASSUME NEW d \in D, d.parent \in T PROVE d.id \in T
    <3>1. d.id \in Id /\ d.parent # Story
      BY <2>1, <2>2, StoriesAssumption DEF Doc, Id
    <3>2. CASE \A e \in X : e.id # d.id
      BY <3>1, <3>2
    <3>3. ASSUME NEW e \in X, e.id = d.id PROVE d.id \in T
      <4>1. d \in X
        BY <3>3 DEF IsTree
      <4>2. \E f \in X : f.id = d.parent
        BY <3>1, <4>1
      <4>3. d.parent \in S
        BY <2>2, <4>2
      <4> QED BY <1>1, <4>1, <4>3 DEF Closed
    <3> QED BY <3>2, <3>3
  <2> HIDE DEF T
  <2>3. x.id \in T
    BY <2>1, <2>2 DEF IsTree, Closed
  <2> QED BY <2>3 DEF T
<1> QED BY <1>1 DEF IsTree

\* A page deleted with all that is under it leaves a tree.
LEMMA PrunedTree ==
  ASSUME NEW D \in SUBSET Doc, IsTree(D), NEW S \in SUBSET Id, Root \notin S, Closed(S, D)
  PROVE  IsTree({d \in D : d.id \notin S})
<1> DEFINE X == {d \in D : d.id \notin S}
<1>1. \E d \in X : d.id = Root
  BY DEF IsTree
<1>2. ASSUME NEW d \in X PROVE d.parent = Story \/ \E e \in X : e.id = d.parent
  BY <1>2 DEF IsTree, Closed
<1> HIDE DEF X
<1>3. X \in SUBSET D
  BY DEF X
<1>4. IsTree(X)
  BY <1>1, <1>2, <1>3, UpperTree
<1> QED BY <1>4 DEF X

\* A new page under one that is there makes a tree.
LEMMA GrownTree ==
  ASSUME NEW D \in SUBSET Doc, IsTree(D), NEW d \in Doc, d.n >= 0, \A e \in D : e.id # d.id,
         \E e \in D : e.id = d.parent
  PROVE  IsTree(D \cup {d})
<1>1. d.parent # Story /\ d.id # Root
  <2>1. \A e \in D : e.id \in Id
    BY DEF Doc
  <2> QED BY <2>1, StoriesAssumption DEF Id, IsTree
<1>2. ASSUME NEW S \in SUBSET Id, Root \in S, Closed(S, D \cup {d}) PROVE \A e \in D \cup {d} : e.id \in S
  <2>1. \A e \in D : e.id \in S
    BY <1>2 DEF IsTree, Closed
  <2>2. d.parent \in S
    BY <2>1
  <2> QED BY <1>2, <2>1, <2>2 DEF Closed
<1>3. \A e, f \in D \cup {d} : e.id = f.id => e = f
  BY DEF IsTree
<1>4. \A e \in D \cup {d} : /\ e.n >= 0 /\ (e.parent = Story <=> e.id = Root)
                            /\ e.parent = Story \/ \E f \in D \cup {d} : f.id = e.parent
  BY <1>1 DEF IsTree
<1> QED BY <1>2, <1>3, <1>4 DEF IsTree

\* A page that is moved to one that is not under it makes a tree.
LEMMA MovedTree ==
  ASSUME NEW D \in SUBSET Doc, IsTree(D), NEW d \in D, d.id # Root, NEW t \in Doc,
         t.id = d.id, t.n >= 0, \E e \in D : e.id = t.parent,
         NEW S \in SUBSET Id, Closed(S, D), d.id \in S, t.parent \notin S
  PROVE  IsTree((D \ {d}) \cup {t})
<1> DEFINE X == (D \ {d}) \cup {t}
<1>1. t.parent # Story
  <2>1. \A e \in D : e.id \in Id
    BY DEF Doc
  <2> QED BY <2>1, StoriesAssumption DEF Id
<1>2. ASSUME NEW T \in SUBSET Id, Root \in T, Closed(T, X) PROVE \A e \in X : e.id \in T
  <2>1. \A e \in D : e.parent \in T => e.id \in T \/ e = d
    BY <1>2 DEF Closed
  <2>2. Closed(S \cup T, D)
    BY <2>1 DEF Closed
  <2>3. \A e \in D : e.id \in S \cup T
    BY <1>2, <2>2 DEF IsTree
  <2>4. t.parent \in T
    BY <2>3
  <2>5. d.id \in T
    BY <1>2, <2>4 DEF Closed
  <2>6. Closed(T, D)
    BY <2>1, <2>5 DEF Closed
  <2>7. \A e \in D : e.id \in T
    BY <1>2, <2>6 DEF IsTree
  <2> QED BY <2>5, <2>7
<1>3. \A e, f \in X : e.id = f.id => e = f
  BY DEF IsTree
<1>4. \E e \in X : e.id = Root
  BY DEF IsTree
<1>5. ASSUME NEW e \in X
      PROVE  /\ e.n >= 0 /\ (e.parent = Story <=> e.id = Root)
             /\ e.parent = Story \/ \E f \in X : f.id = e.parent
  <2>1. \A f \in D : \E g \in X : g.id = f.id
    OBVIOUS
  <2>2. CASE e = t
    BY <1>1, <2>1, <2>2
  <2>3. CASE e \in D \ {d}
    BY <2>1, <2>3 DEF IsTree
  <2> QED BY <2>2, <2>3
<1> QED BY <1>2, <1>3, <1>4, <1>5 DEF IsTree

\* The root page alone is a tree.
LEMMA FirstTree == IsTree({RootDoc})
  BY DEF IsTree, RootDoc, Closed

\* What a request is after it has failed, gone on, gathered its calls, or made one.
LEMMA RecordIs ==
  ASSUME NEW r \in Requests, NEW at, NEW todo, NEW ok
  PROVE  /\ r.todo \in Calls /\ r.found \in SUBSET Doc /\ r.read \in SUBSET Doc
         /\ LET s == Failing(r)
            IN  /\ s.op = r.op /\ s.at = "gather" /\ s.page = r.page /\ s.parent = r.parent
                /\ s.n = r.n /\ s.d = r.d /\ s.read = r.read /\ s.found = r.found
                /\ s.frontier = r.frontier /\ s.todo = r.todo
         /\ LET s == Going(r, at)
            IN  /\ s.op = r.op /\ s.at = at /\ s.page = r.page /\ s.parent = r.parent
                /\ s.n = r.n /\ s.d = r.d /\ s.read = r.read /\ s.found = r.found
                /\ s.frontier = r.frontier /\ s.todo = r.todo /\ s.ok = r.ok
         /\ LET s == Gathering(r, todo)
            IN  /\ s.op = r.op /\ s.at = "gather" /\ s.page = r.page /\ s.parent = r.parent
                /\ s.n = r.n /\ s.d = r.d /\ s.read = r.read /\ s.found = r.found
                /\ s.frontier = r.frontier /\ s.todo = todo /\ s.ok = r.ok
         /\ LET s == Calling(r, todo, ok)
            IN  /\ s.op = r.op /\ s.at = r.at /\ s.page = r.page /\ s.parent = r.parent
                /\ s.n = r.n /\ s.d = r.d /\ s.read = r.read /\ s.found = r.found
                /\ s.frontier = r.frontier /\ s.todo = todo /\ s.ok = ok
  BY DEF Requests, Failing, Going, Gathering, Calling

LEMMA NoCallIs ==
  /\ NoCall.post = {} /\ NoCall.drop = {} /\ NoCall.write = {} /\ NoCall.erase = {} /\ NoCall.rest = {}
  /\ \A t \in Calls : t.post = {} /\ t.drop = {} /\ t.write = {} /\ t.erase = {} /\ t.rest = {} => t = NoCall
  BY DEF NoCall, Calls

LEMMA IdleIs ==
  Idle.op = "none" /\ Idle.at = "idle" /\ Idle.page = None /\ Idle.todo = NoCall /\ Idle.found = {}
  BY DEF Idle

\* What is pending changes by what a request makes of it.
LEMMA PendingAfter ==
  ASSUME NEW c \in Client, Only(c), NEW S, NEW T, NEW B \in BOOLEAN,
         docs' \cup req'[c].todo.post = docs \cup req[c].todo.post \cup S,
         files' \cup req'[c].todo.write = files \cup req[c].todo.write \cup T,
         story' \/ "create" \in req'[c].todo.rest <=> story \/ "create" \in req[c].todo.rest \/ B
  PROVE  Posts' = Posts \cup S /\ Writes' = Writes \cup T /\ (Begun' <=> Begun \/ B)
<1> DEFINE Others(f(_)) == UNION {f(req[o]) : o \in Client \ {c}}
<1>1. /\ UNION {req[o].todo.post : o \in Client}
           = req[c].todo.post \cup UNION {req[o].todo.post : o \in Client \ {c}}
      /\ UNION {req'[o].todo.post : o \in Client}
           = req'[c].todo.post \cup UNION {req[o].todo.post : o \in Client \ {c}}
  BY DEF Only
<1>2. /\ UNION {req[o].todo.write : o \in Client}
           = req[c].todo.write \cup UNION {req[o].todo.write : o \in Client \ {c}}
      /\ UNION {req'[o].todo.write : o \in Client}
           = req'[c].todo.write \cup UNION {req[o].todo.write : o \in Client \ {c}}
  BY DEF Only
<1>3. Posts' = docs' \cup UNION {req'[o].todo.post : o \in Client}
  BY DEF Posts
<1>4. Writes' = files' \cup UNION {req'[o].todo.write : o \in Client}
  BY DEF Writes
<1>5. Posts' = Posts \cup S
  BY <1>1, <1>3 DEF Posts
<1>6. Writes' = Writes \cup T
  BY <1>2, <1>4 DEF Writes
<1>7. Begun' <=> Begun \/ B
  BY DEF Begun, Only
<1> QED BY <1>5, <1>6, <1>7

\* What other requests have found, and the pages they put theirs under, are still there.
LEMMA GrowsStill ==
  ASSUME NEW r, NEW D, NEW E, D \subseteq E, Grows(r, D) PROVE Grows(r, E)
  BY DEF Grows

LEMMA GrowingAfter ==
  ASSUME Growing, NEW c \in Client, Only(c), docs \subseteq docs', Grows(req'[c], docs'),
         IsWhole(Begun', Posts', Writes'), NEW S, Posts' = Posts \cup S,
         req'[c].at = "siblings" =>
           /\ S = {} /\ \A d \in Posts : d.id # req'[c].page
           /\ \A o \in Client : o # c /\ req[o].at = "siblings" => req[o].page # req'[c].page,
         \A o \in Client : o # c /\ req[o].at = "siblings" => \A d \in S : d.id # req[o].page
  PROVE  Growing'
<1>1. \A o \in Client : Grows(req'[o], docs')
  BY GrowsStill DEF Growing, Only
<1>2. PICK P : P = Posts'
  OBVIOUS
<1>3. ASSUME NEW o \in Client, req'[o].at = "siblings"
      PROVE  /\ \A d \in P : d.id # req'[o].page
             /\ \A x \in Client : x # o /\ req'[x].at = "siblings" => req'[x].page # req'[o].page
  <2>1. CASE o = c
    BY <1>2, <1>3, <2>1 DEF Only
  <2>2. CASE o # c
    BY <1>2, <1>3, <2>2 DEF Only, Growing, Fresh
  <2> QED BY <2>1, <2>2
<1>4. Fresh'
  BY <1>2, <1>3 DEF Fresh
<1> QED BY <1>1, <1>4 DEF Growing

\* A step that adds nothing to what is pending.
LEMMA GrowingStill ==
  ASSUME Growing, NEW c \in Client, Only(c), docs \subseteq docs', Grows(req'[c], docs'),
         docs' \cup req'[c].todo.post = docs \cup req[c].todo.post,
         files' \cup req'[c].todo.write = files \cup req[c].todo.write,
         story' \/ "create" \in req'[c].todo.rest <=> story \/ "create" \in req[c].todo.rest,
         req'[c].at # "siblings"
  PROVE  Growing'
<1>1. /\ docs' \cup req'[c].todo.post = docs \cup req[c].todo.post \cup {}
      /\ files' \cup req'[c].todo.write = files \cup req[c].todo.write \cup {}
      /\ story' \/ "create" \in req'[c].todo.rest <=> story \/ "create" \in req[c].todo.rest \/ FALSE
      /\ FALSE \in BOOLEAN
  OBVIOUS
<1>2. Posts' = Posts \cup {} /\ Writes' = Writes \cup {} /\ (Begun' <=> Begun \/ FALSE)
  BY <1>1, PendingAfter
<1>3. IsWhole(Begun', Posts', Writes')
  <2>1. Posts' = Posts /\ Writes' = Writes /\ Begun' = Begun
    BY <1>2 DEF Begun
  <2> QED BY <2>1 DEF Growing
<1>4. PICK S : S = {}
  OBVIOUS
<1>5. Posts' = Posts \cup S
  BY <1>2, <1>4
<1>6. req'[c].at = "siblings" =>
        /\ S = {} /\ \A d \in Posts : d.id # req'[c].page
        /\ \A o \in Client : o # c /\ req[o].at = "siblings" => req[o].page # req'[c].page
  OBVIOUS
<1>7. \A o \in Client : o # c /\ req[o].at = "siblings" => \A d \in S : d.id # req[o].page
  BY <1>4
<1> QED BY <1>3, <1>5, <1>6, <1>7, GrowingAfter

LEMMA PostsType == TypeInv => Posts \subseteq Doc /\ docs \subseteq Posts
<1> SUFFICES ASSUME TypeInv PROVE Posts \subseteq Doc /\ docs \subseteq Posts
  OBVIOUS
<1>1. \A c \in Client : req[c].todo \in Calls
  BY DEF TypeInv, RequestsOK, Requests
<1>2. \A c \in Client : req[c].todo.post \subseteq Doc
  BY <1>1 DEF Calls
<1> QED BY <1>2 DEF Posts, TypeInv, DocsOK

\* Once there is a page, the story is a tree with its contents.
LEMMA GrowingTree ==
  ASSUME Growing, Posts # {} PROVE Begun /\ IsTree(Posts) /\ Writes = Contents(Posts)
  BY DEF Growing, IsWhole

LEMMA GrowingSiblings ==
  ASSUME TypeInv, Growing, NEW c \in Client, Siblings(c) PROVE Growing'
<1> DEFINE r == req[c]
           s == req'[c]
<1>1. Only(c) /\ Same /\ r.at = "siblings" /\ r \in Requests /\ s \in Requests
  BY SiblingsStep DEF Siblings, TypeInv, RequestsOK, Only, RequestOK
<1>2. r.op = "put" /\ r.page \in Page /\ r.parent \in Id /\ Grows(r, docs) /\ r.todo = NoCall
  BY <1>1 DEF TypeInv, RequestsOK, Fits, Growing, Grows
<1>3. PICK parent \in docs : parent.id = r.parent
  BY <1>1, <1>2 DEF Grows
<1>4. docs \subseteq Posts /\ Posts \in SUBSET Doc
  BY PostsType
<1>5. Begun /\ IsTree(Posts) /\ Writes = Contents(Posts)
  BY <1>3, <1>4, GrowingTree
<1>6. PICK n \in Int :
        /\ (\A d \in docs : d.n >= 0) => n >= 0
        /\ s = [r EXCEPT !.at = "gather", !.todo =
             [NoCall EXCEPT !.post = {[id |-> r.page, parent |-> r.parent, n |-> n, d |-> r.page]},
                            !.write = {r.page}]]
  BY SiblingsStep
<1>7. n >= 0
  BY <1>4, <1>5, <1>6 DEF IsTree
<1> DEFINE doc == [id |-> r.page, parent |-> r.parent, n |-> n, d |-> r.page]
           todo == [NoCall EXCEPT !.post = {doc}, !.write = {r.page}]
<1>8. /\ s.op = r.op /\ s.at = "gather" /\ s.page = r.page /\ s.todo = todo
      /\ todo.post = {doc} /\ todo.drop = {} /\ todo.write = {r.page} /\ todo.erase = {}
      /\ todo.rest = {}
  BY <1>1, <1>6 DEF Requests, NoCall
<1>9. doc \in Doc /\ doc.id = r.page /\ doc.n >= 0 /\ doc.parent = r.parent
  BY <1>2, <1>7 DEF Doc, Id
<1> HIDE DEF r, s, doc, todo
<1>10. Posts' = Posts \cup {doc} /\ Writes' = Writes \cup {r.page} /\ (Begun' <=> Begun \/ FALSE)
  <2>1. /\ docs' \cup s.todo.post = docs \cup r.todo.post \cup {doc}
        /\ files' \cup s.todo.write = files \cup r.todo.write \cup {r.page}
        /\ story' \/ "create" \in s.todo.rest <=> story \/ "create" \in r.todo.rest \/ FALSE
        /\ FALSE \in BOOLEAN
    BY <1>1, <1>2, <1>8, NoCallIs DEF Same, Unmoved
  <2> QED BY <1>1, <2>1, PendingAfter DEF r, s
<1>11. IsTree(Posts \cup {doc})
  <2>1. \A e \in Posts : e.id # doc.id
    BY <1>1, <1>9 DEF Growing, Fresh, r
  <2>2. \E e \in Posts : e.id = doc.parent
    BY <1>3, <1>4, <1>9
  <2> QED BY <1>4, <1>5, <1>9, <2>1, <2>2, GrownTree
<1>12. IsWhole(Begun', Posts', Writes')
  <2>1. Contents(Posts \cup {doc}) = Contents(Posts) \cup {r.page}
    BY <1>9 DEF Contents
  <2> QED BY <1>5, <1>10, <1>11, <2>1 DEF IsWhole
<1>13. Grows(s, docs')
  BY <1>2, <1>8, <1>9 DEF Grows
<1>14. PICK S : S = {doc}
  OBVIOUS
<1>15. \A o \in Client : o # c /\ req[o].at = "siblings" => \A d \in S : d.id # req[o].page
  BY <1>1, <1>9, <1>14 DEF Growing, Fresh, r
<1>16. docs \subseteq docs' /\ s.at # "siblings" /\ Posts' = Posts \cup S
  BY <1>1, <1>8, <1>10, <1>14 DEF Same, Unmoved
<1> QED
  BY <1>1, <1>12, <1>13, <1>15, <1>16, GrowingAfter DEF s

\* A request for which nothing changes but how far it is.
LEMMA GrowingReads ==
  ASSUME TypeInv, Growing, NEW c \in Client, Only(c), UNCHANGED <<story, docs, files>>,
         NEW s, s = req'[c], Grows(s, docs), s.todo = req[c].todo, s.at # "siblings"
  PROVE  Growing'
<1>1. /\ docs \subseteq docs' /\ Grows(req'[c], docs')
      /\ docs' \cup req'[c].todo.post = docs \cup req[c].todo.post
      /\ files' \cup req'[c].todo.write = files \cup req[c].todo.write
      /\ story' \/ "create" \in req'[c].todo.rest <=> story \/ "create" \in req[c].todo.rest
      /\ req'[c].at # "siblings"
  OBVIOUS
<1> QED BY <1>1, GrowingStill

LEMMA GrowingFails ==
  ASSUME TypeInv, Growing, NEW c \in Client, UNCHANGED <<story, docs, files>>, Fail(c),
         req[c].at # "idle"
  PROVE  Growing'
<1>1. Only(c) /\ req'[c] = Failing(req[c])
  BY FailStep
<1>2. req[c] \in Requests /\ Grows(req[c], docs)
  BY DEF TypeInv, RequestsOK, Growing
<1>3. PICK s : s = Failing(req[c])
  OBVIOUS
<1>4. /\ s.op = req[c].op /\ s.at = "gather" /\ s.page = req[c].page /\ s.todo = req[c].todo
  BY <1>2, <1>3, RecordIs
<1>5. req[c].op # "none"
  BY <1>2, IdleIs DEF Grows
<1>6. Grows(s, docs)
  BY <1>2, <1>4, <1>5 DEF Grows
<1> QED BY <1>1, <1>3, <1>4, <1>6, GrowingReads

LEMMA GrowingQueryPage ==
  ASSUME TypeInv, Growing, NEW c \in Client, QueryPage(c) PROVE Growing'
<1> DEFINE r == req[c]
<1>1. r.at = "page" /\ r \in Requests /\ Grows(r, docs) /\ Only(c) /\ UNCHANGED <<story, docs, files>>
  BY QueryPageStep DEF QueryPage, TypeInv, RequestsOK, Growing, Same, Unmoved
<1>2. r.op # "move" /\ r.at # "idle" /\ r.todo = NoCall /\ r.op # "none"
  BY <1>1, IdleIs DEF Grows
<1>3. CASE Fail(c)
  BY <1>1, <1>2, <1>3, GrowingFails
<1>4. ASSUME NEW d \in First(r.page), Gather(c, [NoCall EXCEPT !.post = {d}]) PROVE Growing'
  <2>1. d \in docs /\ d \in Doc /\ d.id = r.page
    BY <1>4 DEF First, TypeInv, DocsOK
  <2> DEFINE todo == [NoCall EXCEPT !.post = {d}]
  <2>2. /\ todo \in Calls /\ todo.post = {d} /\ todo.drop = {} /\ todo.write = {}
        /\ todo.erase = {} /\ todo.rest = {}
    BY <2>1, IdleOK DEF Calls, NoCall
  <2> HIDE DEF todo, r
  <2>3. req'[c] = Gathering(r, todo)
    BY <1>4, <2>2, GatherStep DEF r, todo
  <2>4. PICK s : s = req'[c]
    OBVIOUS
  <2>5. s.op = r.op /\ s.at = "gather" /\ s.page = r.page /\ s.todo = todo
    BY <1>1, <2>3, <2>4, RecordIs
  <2>6. Grows(s, docs)
    BY <1>1, <1>2, <2>1, <2>2, <2>5 DEF Grows
  <2>7. /\ docs \subseteq docs' /\ Grows(req'[c], docs') /\ req'[c].at # "siblings"
        /\ docs' \cup req'[c].todo.post = docs \cup req[c].todo.post
        /\ files' \cup req'[c].todo.write = files \cup req[c].todo.write
        /\ story' \/ "create" \in req'[c].todo.rest <=> story \/ "create" \in req[c].todo.rest
    BY <1>1, <1>2, <2>1, <2>2, <2>4, <2>5, <2>6, NoCallIs DEF r
  <2> QED BY <1>1, <2>7, GrowingStill
<1> QED BY <1>2, <1>3, <1>4 DEF QueryPage

LEMMA GrowingQueryStory ==
  ASSUME TypeInv, Growing, NEW c \in Client, QueryStory(c) PROVE Growing'
<1> DEFINE r == req[c]
           s == [r EXCEPT !.at = "list", !.frontier = {Root}]
<1>1. r.at = "query" /\ r \in Requests /\ Grows(r, docs) /\ Only(c) /\ UNCHANGED <<story, docs, files>>
  BY QueryStoryStep DEF QueryStory, TypeInv, RequestsOK, Growing, Same, Unmoved
<1>2. r.op = "zip" /\ r.at # "idle" /\ r.page = Root /\ r.todo = NoCall
  BY <1>1 DEF Grows
<1>3. CASE Fail(c)
  BY <1>1, <1>2, <1>3, GrowingFails
<1>4. CASE req' = [req EXCEPT ![c].at = "list", ![c].frontier = {Root}]
  <2>1. req'[c] = s
    BY <1>4 DEF TypeInv, RequestsOK
  <2>2. /\ s.op = r.op /\ s.at = "list" /\ s.page = r.page /\ s.todo = r.todo
        /\ s.found = r.found /\ s.frontier = {Root}
    BY <1>1 DEF Requests
  <2> HIDE DEF r, s
  <2>3. Grows(s, docs)
    BY <1>1, <1>2, <2>2 DEF Grows
  <2> QED BY <1>1, <2>1, <2>2, <2>3, GrowingReads DEF r
<1> QED BY <1>2, <1>3, <1>4 DEF QueryStory

LEMMA GrowingList ==
  ASSUME TypeInv, Growing, NEW c \in Client, NEW parent \in req[c].frontier,
         ListChildren(c, parent), lapses' = {}
  PROVE  Growing'
<1> DEFINE r == req[c]
           some == Children(parent)
           frontier == FrontierAfter(c, parent)
           s == [r EXCEPT !.found = @ \cup some, !.frontier = frontier]
<1>1. r.at = "list" /\ r \in Requests /\ Grows(r, docs) /\ Only(c) /\ UNCHANGED <<story, docs, files>>
  BY ListChildrenStep DEF ListChildren, TypeInv, RequestsOK, Growing, Unmoved
<1>2. r.op = "zip" /\ r.page = Root /\ r.todo = NoCall
  BY <1>1 DEF Grows
<1>3. req' = [req EXCEPT ![c].found = @ \cup some, ![c].frontier = frontier]
  BY DEF ListChildren
<1>4. req'[c] = s
  BY <1>3 DEF TypeInv, RequestsOK
<1>5. /\ some \subseteq docs /\ \A d \in some : d.parent = parent
      /\ \A x \in frontier : x \in r.frontier \/ \E d \in some : d.id = x
  BY DEF Children, FrontierAfter
<1> HIDE DEF some, frontier
<1>6. /\ s.op = r.op /\ s.at = "list" /\ s.page = r.page /\ s.todo = r.todo
      /\ s.found = r.found \cup some /\ s.frontier = frontier
  BY <1>1 DEF Requests
<1> HIDE DEF s
<1>7. /\ s.found \subseteq docs
      /\ \A x \in s.frontier \cup {d.parent : d \in s.found} : x = Root \/ \E d \in s.found : d.id = x
  <2>1. /\ r.found \subseteq docs
        /\ \A x \in r.frontier \cup {d.parent : d \in r.found} : x = Root \/ \E d \in r.found : d.id = x
    BY <1>1 DEF Grows
  <2> HIDE DEF r
  <2>2. parent = Root \/ \E d \in r.found : d.id = parent
    BY <2>1 DEF r
  <2> QED BY <1>5, <1>6, <2>1, <2>2
<1>8. Grows(s, docs)
  BY <1>1, <1>2, <1>6, <1>7 DEF Grows
<1>9. s.todo = req[c].todo /\ s.at # "siblings"
  BY <1>6
<1> QED BY <1>1, <1>4, <1>8, <1>9, GrowingReads

\* What a download has listed, with the root page, is a tree.
LEMMA GrowingSelf ==
  ASSUME TypeInv, Growing, NEW c \in Client, QuerySelf(c) PROVE Growing' /\ zip' = zip
<1> DEFINE r == req[c]
<1>1. /\ r.at = "list" /\ r \in Requests /\ Grows(r, docs) /\ Only(c)
      /\ UNCHANGED <<story, docs, files>> /\ zip' = zip /\ r.frontier = {}
  BY QuerySelfStep DEF QuerySelf, TypeInv, RequestsOK, Growing
<1>2. r.op = "zip" /\ r.at # "idle" /\ r.page = Root /\ r.todo = NoCall
  BY <1>1 DEF Grows
<1>3. CASE Fail(c)
  BY <1>1, <1>2, <1>3, GrowingFails
<1>4. ASSUME NEW d \in First(r.page), NEW all, all = r.found \cup {d},
             req' = [req EXCEPT ![c].at = "read", ![c].found = all]
      PROVE  Growing'
  <2> DEFINE s == [r EXCEPT !.at = "read", !.found = all]
  <2>1. req'[c] = s
    BY <1>4 DEF TypeInv, RequestsOK
  <2>2. /\ s.op = r.op /\ s.at = "read" /\ s.page = r.page /\ s.todo = r.todo /\ s.found = all
    BY <1>1 DEF Requests
  <2> HIDE DEF r, s
  <2>3. d \in docs /\ d.id = Root
    BY <1>2, <1>4 DEF First
  <2>4. docs \subseteq Posts /\ Posts \in SUBSET Doc
    BY PostsType
  <2>5. IsTree(Posts)
    BY <2>3, <2>4, GrowingTree
  <2>6. /\ r.found \subseteq docs
        /\ \A x \in {e.parent : e \in r.found} : x = Root \/ \E e \in r.found : e.id = x
    BY <1>1 DEF Grows
  <2>7. all \in SUBSET Posts
    BY <1>4, <2>3, <2>4, <2>6
  <2>8. \A e \in all : e.parent = Story \/ \E f \in all : f.id = e.parent
    <3>1. d.parent = Story
      BY <2>3, <2>4, <2>5 DEF IsTree
    <3>2. \A e \in r.found : e.parent = Root \/ \E f \in r.found : f.id = e.parent
      BY <2>6
    <3> QED BY <1>4, <2>3, <3>1, <3>2
  <2>9. \E e \in all : e.id = Root
    BY <1>4, <2>3
  <2>10. IsTree(all)
    BY <2>4, <2>5, <2>7, <2>8, <2>9, UpperTree
  <2>11. Grows(s, docs)
    BY <1>1, <1>2, <2>2, <2>10 DEF Grows
  <2> QED BY <1>1, <2>1, <2>2, <2>11, GrowingReads DEF r
<1> QED
  <2>1. CASE First(r.page) = {} /\ Fail(c)
    BY <1>1, <1>3, <2>1
  <2>2. ASSUME NEW d \in First(r.page),
               req' = [req EXCEPT ![c].at = "read", ![c].found = r.found \cup {d}]
        PROVE  Growing'
    BY <1>4, <2>2
  <2> QED BY <1>1, <1>2, <2>1, <2>2 DEF QuerySelf

LEMMA GrowingRead ==
  ASSUME TypeInv, Growing, NEW c \in Client, ReadFiles(c), \A z \in zip : IsTree(z)
  PROVE  Growing' /\ \A z \in zip' : IsTree(z)
<1> DEFINE r == req[c]
<1>1. /\ r.at = "read" /\ r \in Requests /\ Grows(r, docs) /\ Only(c)
      /\ UNCHANGED <<story, docs, files>> /\ zip' \in {zip, zip \cup {r.found}}
  BY ReadFilesStep DEF ReadFiles, TypeInv, RequestsOK, Growing
<1>2. r.op = "zip" /\ r.at # "idle" /\ r.todo = NoCall /\ IsTree(r.found)
  BY <1>1 DEF Grows
<1>3. ASSUME Fail(c) PROVE Growing'
  BY <1>1, <1>2, <1>3, GrowingFails
<1>4. ASSUME Goto(c, "gather") PROVE Growing'
  <2>1. PICK s : s = Going(r, "gather")
    OBVIOUS
  <2>2. req'[c] = s
    BY <1>4, <2>1 DEF TypeInv, RequestsOK, Goto, Going
  <2>3. s.op = r.op /\ s.at = "gather" /\ s.page = r.page /\ s.todo = r.todo
    BY <1>1, <2>1, RecordIs
  <2>4. Grows(s, docs)
    BY <1>1, <1>2, <2>3 DEF Grows
  <2>5. s.todo = req[c].todo /\ s.at # "siblings"
    BY <2>3
  <2> QED BY <1>1, <2>2, <2>4, <2>5, GrowingReads
<1>5. Growing'
  BY <1>3, <1>4 DEF ReadFiles
<1> QED BY <1>1, <1>2, <1>5

\* A document of a story whose pages are one for each place is posted without taking any
\* other away.
LEMMA PostAdds ==
  ASSUME PlaceInv, lapses = {}, NEW D, docs \subseteq D, D \subseteq Known, IsTree(D), NEW d \in D
  PROVE  Post(d) = docs \cup {d}
<1>1. \A e \in docs : SameKey(d, e) => d = e
  BY DEF PlaceInv, IsTree
<1> QED BY <1>1 DEF Post

LEMMA PostsKnown == PostedInv => Posts \subseteq Known
  BY DEF PostedInv, Posts, Known, Writing

LEMMA GrowingPosts ==
  ASSUME TypeInv, PostedInv, PlaceInv, lapses = {}, Growing,
         NEW c \in Client, NEW d \in req[c].todo.post, CallPost(c, d)
  PROVE  Growing'
<1> DEFINE r == req[c]
<1>1. r \in Requests /\ Grows(r, docs) /\ Only(c) /\ UNCHANGED <<story, files>> /\ docs' = Post(d)
  BY CallPostStep DEF TypeInv, RequestsOK, Growing
<1>2. r.at = "gather" /\ r.op # "none"
  BY <1>1, NoCallIs, IdleIs DEF Grows
<1>3. d \in Posts /\ docs \subseteq Posts /\ Posts \subseteq Known
  BY PostsType, PostsKnown DEF Posts
<1>4. docs' = docs \cup {d}
  BY <1>1, <1>3, GrowingTree, PostAdds
<1> DEFINE todo == [r.todo EXCEPT !.post = @ \ {d}]
<1>5. /\ todo.post = r.todo.post \ {d} /\ todo.drop = r.todo.drop /\ todo.write = r.todo.write
      /\ todo.erase = r.todo.erase /\ todo.rest = r.todo.rest
  BY <1>1 DEF Requests, Calls
<1>6. req'[c] = Calling(r, todo, r.ok)
  BY <1>1 DEF CallPost, Calling, TypeInv, RequestsOK, Requests
<1> HIDE DEF todo, r
<1>7. PICK s : s = req'[c]
  OBVIOUS
<1>8. s.op = r.op /\ s.at = r.at /\ s.page = r.page /\ s.todo = todo
  BY <1>1, <1>6, <1>7, RecordIs
<1>9. Grows(s, docs')
  BY <1>1, <1>2, <1>5, <1>8 DEF Grows
<1>10. /\ docs \subseteq docs' /\ Grows(req'[c], docs') /\ req'[c].at # "siblings"
       /\ docs' \cup req'[c].todo.post = docs \cup req[c].todo.post
       /\ files' \cup req'[c].todo.write = files \cup req[c].todo.write
       /\ story' \/ "create" \in req'[c].todo.rest <=> story \/ "create" \in req[c].todo.rest
  BY <1>1, <1>2, <1>4, <1>5, <1>7, <1>8, <1>9 DEF r
<1> QED BY <1>1, <1>10, GrowingStill

\* The other calls write a file, or create the story.
LEMMA GrowingBesides ==
  ASSUME TypeInv, Growing, NEW c \in Client, Besides(c) PROVE Growing'
<1> DEFINE r == req[c]
<1>1. r \in Requests /\ Grows(r, docs) /\ Only(c) /\ docs' = docs
  BY BesidesStep DEF TypeInv, RequestsOK, Growing
<1>2. ASSUME NEW todo, req'[c] = Calling(r, todo, r.ok), r.at = "gather",
             todo.post = r.todo.post, todo.drop = r.todo.drop, todo.erase = r.todo.erase,
             todo.rest \subseteq r.todo.rest,
             files' \cup todo.write = files \cup r.todo.write,
             story' \/ "create" \in todo.rest <=> story \/ "create" \in r.todo.rest
      PROVE  Growing'
  <2>1. PICK s : s = req'[c]
    OBVIOUS
  <2>2. s.op = r.op /\ s.at = r.at /\ s.page = r.page /\ s.todo = todo
    BY <1>1, <1>2, <2>1, RecordIs
  <2>3. r.op # "none"
    BY <1>1, <1>2, IdleIs DEF Grows
  <2> HIDE DEF r
  <2>4. Grows(s, docs)
    BY <1>1, <1>2, <2>2, <2>3 DEF Grows
  <2>5. /\ docs \subseteq docs' /\ Grows(req'[c], docs') /\ req'[c].at # "siblings"
        /\ docs' \cup req'[c].todo.post = docs \cup req[c].todo.post
        /\ files' \cup req'[c].todo.write = files \cup req[c].todo.write
        /\ story' \/ "create" \in req'[c].todo.rest <=> story \/ "create" \in req[c].todo.rest
    BY <1>1, <1>2, <2>1, <2>2, <2>4 DEF r
  <2> QED BY <1>1, <2>5, GrowingStill
<1>3. r.todo # NoCall => r.at = "gather"
  BY <1>1 DEF Grows
<1>4. ASSUME NEW name \in r.todo.write, CallWrite(c, name) PROVE Growing'
  <2> DEFINE todo == [r.todo EXCEPT !.write = @ \ {name}]
  <2>1. /\ todo.post = r.todo.post /\ todo.drop = r.todo.drop /\ todo.erase = r.todo.erase
        /\ todo.rest = r.todo.rest /\ todo.write = r.todo.write \ {name}
    BY <1>1 DEF Requests, Calls
  <2>2. req'[c] = Calling(r, todo, r.ok)
    BY <1>1, <1>4 DEF CallWrite, Calling, TypeInv, RequestsOK, Requests
  <2>3. files' = files \cup {name} /\ story' = story /\ r.at = "gather"
    BY <1>3, <1>4, NoCallIs DEF CallWrite
  <2> HIDE DEF todo, r
  <2> QED BY <1>2, <1>4, <2>1, <2>2, <2>3
<1>5. ASSUME NEW what \in r.todo.rest, CallStory(c, what) PROVE Growing'
  <2> DEFINE todo == [r.todo EXCEPT !.rest = @ \ {what}]
  <2>1. /\ todo.post = r.todo.post /\ todo.drop = r.todo.drop /\ todo.erase = r.todo.erase
        /\ todo.rest = r.todo.rest \ {what} /\ todo.write = r.todo.write
    BY <1>1 DEF Requests, Calls
  <2>2. req'[c] = Calling(r, todo, r.ok)
    BY <1>1, <1>5 DEF CallStory, Calling, TypeInv, RequestsOK, Requests
  <2>3. what = "create"
    BY <1>1, <1>5 DEF Grows
  <2>4. files' = files /\ story' = TRUE /\ r.at = "gather"
    BY <1>3, <1>5, <2>3, NoCallIs DEF CallStory
  <2> HIDE DEF todo, r
  <2> QED BY <1>2, <1>5, <2>1, <2>2, <2>3, <2>4
<1>6. r.todo.erase = {}
  BY <1>1 DEF Grows
<1> QED BY <1>4, <1>5, <1>6 DEF Besides

LEMMA GrowingGathered ==
  ASSUME TypeInv, Growing, NEW c \in Client, Gathered(c) PROVE Growing'
<1> DEFINE r == req[c]
<1>1. r \in Requests /\ Grows(r, docs) /\ Only(c) /\ UNCHANGED <<story, docs, files>> /\ r.todo = NoCall
  BY GatheredStep DEF TypeInv, RequestsOK, Growing, Same, Unmoved
<1>2. req'[c] = Idle
  <2>1. r.op # "deletePage" /\ r.op # "publish"
    BY <1>1 DEF Grows
  <2>2. req' = [req EXCEPT ![c] = Idle]
    BY <2>1 DEF Gathered
  <2> QED BY <2>2 DEF TypeInv, RequestsOK
<1>3. PICK s : s = Idle
  OBVIOUS
<1>4. s.op = "none" /\ s.at = "idle" /\ s.todo = NoCall
  BY <1>3, IdleIs
<1>5. Grows(s, docs)
  BY <1>3, <1>4, NoCallIs DEF Grows
<1> QED BY <1>1, <1>2, <1>3, <1>4, <1>5, GrowingReads

\* Every step of a request, while none destroys, keeps the story and the zip files whole.
LEMMA GrowingStep ==
  ASSUME TypeInv, PostedInv, PlaceInv, lapses = {}, lapses' = {}, Growing,
         \A z \in zip : IsTree(z), NEW c \in Client, Step(c)
  PROVE  Growing' /\ \A z \in zip' : IsTree(z)
<1>1. Grows(req[c], docs)
  BY DEF Growing
<1>2. ~ (MoveDrop(c) \/ MoveCreate(c) \/ GetStory(c) \/ Recreate(c))
  BY <1>1 DEF Grows, MoveDrop, MoveCreate, GetStory, Recreate
<1>3. ~ \E d \in req[c].todo.drop : CallDrop(c, d)
  BY <1>1 DEF Grows
<1>4. ReadFiles(c) \/ zip' = zip
  BY DEF Step, Siblings, QueryPage, MoveDrop, MoveCreate, QueryStory, GetStory, ListChildren,
         QuerySelf, Recreate, CallPost, CallDrop, CallWrite, CallErase, CallStory, Gathered
<1>5. Growing'
  BY <1>2, <1>3, GrowingSiblings, GrowingQueryPage, GrowingQueryStory, GrowingList, GrowingSelf,
     GrowingRead, GrowingPosts, GrowingBesides, GrowingGathered DEF Step, Besides
<1> QED BY <1>4, <1>5, GrowingRead

\* When all requests are over, nothing is pending.
LEMMA AllOver ==
  ASSUME \A c \in Client : req[c] = Idle
  PROVE  Posts = docs /\ Writes = files /\ (Begun <=> story)
<1>1. \A c \in Client : req[c].todo.post = {} /\ req[c].todo.write = {} /\ req[c].todo.rest = {}
  BY IdleIs, NoCallIs
<1> QED BY <1>1 DEF Posts, Writes, Begun

\* A request that destroys begins alone, on a whole story.
LEMMA BeginsAlone ==
  ASSUME TypeInv, Growing, NEW c \in Client, NEW r, Begin(c, r), lapses' = {}, r.op \in Destructive
  PROVE  (\A o \in Client : req[o] = Idle) /\ IsWhole(story, docs, files)
<1>1. Lapses(c, r) = {} /\ req[c] = Idle
  BY DEF Begin
<1>2. ASSUME NEW o \in Client, o # c PROVE req[o] = Idle
  <2>1. req[o].op = "none"
    BY <1>1, <1>2 DEF Lapses
  <2> QED BY <2>1 DEF Growing, Grows
<1>3. \A o \in Client : req[o] = Idle
  BY <1>1, <1>2
<1>4. story \in BOOLEAN /\ Begun \in BOOLEAN
  BY DEF TypeInv, RestOK, Begun
<1>5. Posts = docs /\ Writes = files /\ Begun = story
  BY <1>3, <1>4, AllOver
<1> QED BY <1>3, <1>5 DEF Growing

\* A request that reads first begins beside others that do not destroy.
LEMMA BeginsBeside ==
  ASSUME TypeInv, Growing, NEW c \in Client, NEW r, RequestOK(r), Begin(c, r), Grows(r, docs),
         r.todo = NoCall,
         r.at = "siblings" =>
           /\ \A d \in Posts : d.id # r.page
           /\ \A o \in Client : o # c /\ req[o].at = "siblings" => req[o].page # r.page
  PROVE  Growing'
<1>1. Only(c) /\ req'[c] = r /\ req[c].todo = NoCall
  BY BeginStep, IdleIs
<1>2. story' = story /\ docs' = docs /\ files' = files
  BY DEF Begin
<1>3. PICK S : S = {}
  OBVIOUS
<1>4. /\ docs' \cup req'[c].todo.post = docs \cup req[c].todo.post \cup S
      /\ files' \cup req'[c].todo.write = files \cup req[c].todo.write \cup S
      /\ story' \/ "create" \in req'[c].todo.rest <=> story \/ "create" \in req[c].todo.rest \/ FALSE
      /\ FALSE \in BOOLEAN
  BY <1>1, <1>2, <1>3
<1>5. Posts' = Posts \cup S /\ Writes' = Writes \cup S /\ (Begun' <=> Begun \/ FALSE)
  BY <1>1, <1>4, PendingAfter
<1>6. IsWhole(Begun', Posts', Writes')
  <2>1. Posts' = Posts /\ Writes' = Writes /\ Begun' = Begun
    BY <1>3, <1>5 DEF Begun
  <2> QED BY <2>1 DEF Growing
<1>7. req'[c].at = "siblings" =>
        /\ S = {} /\ \A d \in Posts : d.id # req'[c].page
        /\ \A o \in Client : o # c /\ req[o].at = "siblings" => req[o].page # req'[c].page
  BY <1>1, <1>3
<1>8. \A o \in Client : o # c /\ req[o].at = "siblings" => \A d \in S : d.id # req[o].page
  BY <1>3
<1>9. docs \subseteq docs' /\ Grows(req'[c], docs')
  BY <1>1, <1>2
<1> QED BY <1>1, <1>5, <1>6, <1>7, <1>8, <1>9, GrowingAfter

LEMMA BeginPutStory ==
  ASSUME TypeInv, Growing, NEW c \in Client, PutStory(c) PROVE Growing'
<1>1. /\ ~ story /\ docs = {} /\ files = {} /\ Begin(c, Storing)
      /\ \A o \in Client : req[o] = Idle
  BY DEF PutStory, Storing
<1>2. RequestOK(Storing)
  BY <1>1, StoringIs, StoringOK DEF Begin
<1>3. PICK r : r = Storing
  OBVIOUS
<1>4. Only(c) /\ req'[c] = r
  BY <1>1, <1>2, <1>3, BeginStep
<1>5. story' = story /\ docs' = docs /\ files' = files
  BY <1>1 DEF Begin
<1>6. /\ r.op = "putStory" /\ r.at = "gather" /\ r.todo.post = {RootDoc} /\ r.todo.drop = {}
      /\ r.todo.write = {Root} \cup Extra /\ r.todo.erase = {} /\ r.todo.rest = {"create"}
  BY <1>3 DEF Storing, Idle, NoCall, RootDoc
<1>7. RootDoc.id = Root
  BY DEF RootDoc
<1>8. PICK S, T, B : S = {RootDoc} /\ T = {Root} \cup Extra /\ B \in BOOLEAN /\ B = TRUE
  OBVIOUS
<1>9. Posts' = Posts \cup S /\ Writes' = Writes \cup T /\ (Begun' <=> Begun \/ B)
  <2>1. req[c].todo = NoCall
    BY <1>1, IdleIs
  <2>2. /\ docs' \cup req'[c].todo.post = docs \cup req[c].todo.post \cup S
        /\ files' \cup req'[c].todo.write = files \cup req[c].todo.write \cup T
        /\ story' \/ "create" \in req'[c].todo.rest <=> story \/ "create" \in req[c].todo.rest \/ B
    BY <1>1, <1>4, <1>5, <1>6, <1>8, <2>1, NoCallIs
  <2>3. B \in BOOLEAN /\ Only(c)
    BY <1>4, <1>8
  <2> QED BY <2>2, <2>3, PendingAfter
<1>10. Posts = {} /\ Writes = {}
  BY <1>1, AllOver
<1>11. IsWhole(Begun', Posts', Writes')
  <2>1. Contents({RootDoc}) = {Root} \cup Extra
    BY <1>7 DEF Contents
  <2>2. Posts' = {RootDoc} /\ Writes' = Contents({RootDoc}) /\ Begun'
    BY <1>8, <1>9, <1>10, <2>1
  <2> QED BY <2>2, FirstTree DEF IsWhole
<1>12. Grows(r, docs')
  BY <1>6, <1>7 DEF Grows
<1>13. \A o \in Client : o # c /\ req[o].at = "siblings" => \A d \in S : d.id # req[o].page
  BY <1>1, IdleIs
<1>14. docs \subseteq docs' /\ Grows(req'[c], docs') /\ req'[c].at # "siblings"
  BY <1>4, <1>5, <1>6, <1>12
<1> QED BY <1>4, <1>9, <1>11, <1>13, <1>14, GrowingAfter

LEMMA BeginPutPage ==
  ASSUME TypeInv, Growing, NEW c \in Client, NEW page \in Page, NEW parent \in Id,
         PutPage(c, page, parent)
  PROVE  Growing'
<1> DEFINE r == Putting(page, parent)
<1>1. Begin(c, r) /\ r.op = "put" /\ r.at = "siblings" /\ r.page = page /\ r.parent = parent /\ r.todo = NoCall
  BY DEF PutPage, Putting, Idle
<1>2. RequestOK(r)
  BY <1>1, ReadingOK DEF Begin
<1>3. /\ \E d \in docs : d.id = parent
      /\ page \notin {d.id : d \in docs} \cup {req[o].page : o \in Client}
  BY DEF PutPage
<1> HIDE DEF r
<1>4. Grows(r, docs)
  BY <1>1, <1>3, NoCallIs DEF Grows
<1>5. ASSUME NEW d \in Posts PROVE d.id # page
  <2>1. CASE d \in docs
    BY <1>3, <2>1
  <2>2. ASSUME NEW o \in Client, d \in req[o].todo.post PROVE d.id # page
    <3>1. d.id \in {req[o].page, Root}
      BY <2>2 DEF Growing, Grows
    <3> QED BY <1>3, <3>1, StoriesAssumption
  <2> QED BY <2>1, <2>2 DEF Posts
<1>6. \A o \in Client : req[o].page # page
  BY <1>3
<1> QED BY <1>1, <1>2, <1>4, <1>5, <1>6, BeginsBeside

LEMMA BeginRename ==
  ASSUME TypeInv, Growing, NEW c \in Client, NEW d \in docs, Rename(c, d) PROVE Growing'
<1>1. PICK r : r = Renaming(d)
  OBVIOUS
<1>2. Begin(c, r) /\ r.op = "rename" /\ r.at = "page" /\ r.todo = NoCall
  BY <1>1 DEF Rename, Renaming, Idle
<1>3. RequestOK(r)
  BY <1>1, <1>2, ReadingOK DEF Begin
<1>4. Grows(r, docs)
  BY <1>2, NoCallIs DEF Grows
<1>5. r.at # "siblings"
  BY <1>2
<1> QED BY <1>2, <1>3, <1>4, <1>5, BeginsBeside

LEMMA BeginZip ==
  ASSUME TypeInv, Growing, NEW c \in Client, DownloadZip(c) PROVE Growing'
<1>1. PICK r : r = Zipping
  OBVIOUS
<1>2. /\ Begin(c, r) /\ r.op = "zip" /\ r.at = "query" /\ r.todo = NoCall /\ r.page = Root
      /\ r.found = {} /\ r.frontier = {}
  BY <1>1 DEF DownloadZip, Zipping, Idle
<1>3. RequestOK(r)
  BY <1>1, <1>2, ReadingOK DEF Begin
<1>4. Grows(r, docs)
  BY <1>2, NoCallIs DEF Grows
<1>5. r.at # "siblings"
  BY <1>2
<1> QED BY <1>2, <1>3, <1>4, <1>5, BeginsBeside

\* The request of c destroys, and is alone.
Lone(c) == /\ Destroys(req[c], story, docs, files)
           /\ \A o \in Client : o # c => req[o] = Idle

LEMMA BeginsLone ==
  ASSUME NEW c \in Client, NEW r, Only(c), req'[c] = r, \A o \in Client : req[o] = Idle,
         UNCHANGED <<story, docs, files>>, Destroys(r, story, docs, files)
  PROVE  Lone(c)'
<1>1. Destroys(req'[c], story', docs', files')
  OBVIOUS
<1>2. \A o \in Client : o # c => req'[o] = Idle
  BY DEF Only
<1> QED BY <1>1, <1>2 DEF Lone

LEMMA BeginMove ==
  ASSUME TypeInv, Growing, NEW c \in Client, lapses' = {}, NEW d \in docs, NEW parent \in Id,
         NEW n \in Int, NEW of \in Page \cup {None}, \E e \in docs : e.id = parent,
         Begin(c, Moving(d, parent, n, of))
  PROVE  Lone(c)'
<1>1. PICK r : r = Moving(d, parent, n, of)
  OBVIOUS
<1>2. /\ r.op = "move" /\ r.at = "page" /\ r.todo = NoCall /\ r.page = d.id /\ r.parent = parent
      /\ r.n = n
  BY <1>1 DEF Moving, Idle
<1>3. Begin(c, r) /\ "move" \in Op
  BY <1>1, <1>2 DEF Begin
<1>4. RequestOK(r)
  BY <1>1, <1>3, MovingOK
<1>5. Only(c) /\ req'[c] = r /\ UNCHANGED <<story, docs, files>>
  BY <1>3, <1>4, BeginStep DEF Begin
<1>6. (\A o \in Client : req[o] = Idle) /\ IsWhole(story, docs, files)
  BY <1>2, <1>3, BeginsAlone DEF Destructive
<1>7. story /\ IsTree(docs) /\ files = Contents(docs)
  BY <1>6 DEF IsWhole
<1>8. Lapses(c, r) = {}
  BY <1>3 DEF Begin
<1>9. r.page # Root /\ ~ (r.n < 0) /\ ~ Descends(r.parent, r.page)
  <2>1. "root" \notin Lapses(c, r) /\ "below" \notin Lapses(c, r) /\ "cycle" \notin Lapses(c, r)
    BY <1>8
  <2> QED BY <1>2, <2>1 DEF Lapses
<1>10. \E S \in SUBSET Id : Closed(S, docs) /\ r.page \in S /\ r.parent \notin S
  BY <1>9 DEF Descends, Closed
<1>11. Relocates(r, docs, files)
  BY <1>2, <1>7, <1>9, <1>10 DEF Relocates
<1>12. Destroys(r, story, docs, files)
  BY <1>2, <1>7, <1>11 DEF Destroys
<1> QED BY <1>5, <1>6, <1>12, BeginsLone

LEMMA BeginDeletePage ==
  ASSUME TypeInv, Growing, NEW c \in Client, lapses' = {}, NEW d \in docs, DeletePage(c, d)
  PROVE  Lone(c)'
<1>1. PICK r : r = Deleting(d)
  OBVIOUS
<1>2. /\ r.op = "deletePage" /\ r.at = "list" /\ r.todo = NoCall /\ r.page = d.id
      /\ r.found = {} /\ r.frontier = {d.id} /\ r.ok
  BY <1>1 DEF Deleting, Idle
<1>3. Begin(c, r)
  BY <1>1 DEF DeletePage, Deleting
<1>4. RequestOK(r)
  BY <1>1, <1>2, <1>3, ReadingOK DEF Begin
<1>5. Only(c) /\ req'[c] = r /\ UNCHANGED <<story, docs, files>>
  BY <1>3, <1>4, BeginStep DEF Begin
<1>6. (\A o \in Client : req[o] = Idle) /\ IsWhole(story, docs, files)
  BY <1>2, <1>3, BeginsAlone DEF Destructive
<1>7. story /\ IsTree(docs) /\ files = Contents(docs)
  BY <1>6 DEF IsWhole
<1>8. r.page # Root
  <2>1. "root" \notin Lapses(c, r)
    BY <1>3 DEF Begin
  <2> QED BY <1>2, <2>1 DEF Lapses
<1>9. Looks(r, docs)
  BY <1>2, <1>7 DEF Looks
<1>10. Deletes(r, docs, files)
  BY <1>2, <1>7, <1>8, <1>9, NoCallIs DEF Deletes
<1>11. Destroys(r, story, docs, files)
  BY <1>2, <1>7, <1>10 DEF Destroys
<1> QED BY <1>5, <1>6, <1>11, BeginsLone

LEMMA BeginDeleteStory ==
  ASSUME TypeInv, Growing, NEW c \in Client, lapses' = {}, DeleteStory(c)
  PROVE  Lone(c)'
<1>1. PICK r : r = Ending
  OBVIOUS
<1>2. r.op = "deleteStory" /\ r.at = "story" /\ r.todo = NoCall /\ r.found = {} /\ r.ok
  BY <1>1 DEF Ending, Idle
<1>3. Begin(c, r) /\ story
  BY <1>1 DEF DeleteStory, Ending
<1>4. RequestOK(r)
  BY <1>1, <1>2, <1>3, ReadingOK DEF Begin
<1>5. Only(c) /\ req'[c] = r /\ UNCHANGED <<story, docs, files>>
  BY <1>3, <1>4, BeginStep DEF Begin
<1>6. (\A o \in Client : req[o] = Idle) /\ IsWhole(story, docs, files)
  BY <1>2, <1>3, BeginsAlone DEF Destructive
<1>7. Removes(r, story, docs, files)
  BY <1>2, <1>3, <1>6, NoCallIs DEF Removes
<1>8. Destroys(r, story, docs, files)
  BY <1>2, <1>7 DEF Destroys
<1> QED BY <1>5, <1>6, <1>8, BeginsLone

LEMMA BeginPublish ==
  ASSUME TypeInv, Growing, NEW c \in Client, lapses' = {}, NEW z \in zip, IsTree(z), Publish(c, z)
  PROVE  Lone(c)'
<1>1. PICK r : r = Publishing(z)
  OBVIOUS
<1>2. /\ r.op = "publish" /\ r.at = "query" /\ r.todo = NoCall /\ r.found = {} /\ r.ok
      /\ r.read = z
  BY <1>1 DEF Publishing, Idle
<1>3. Begin(c, r)
  BY <1>1 DEF Publish, Publishing
<1>4. RequestOK(r)
  BY <1>1, <1>2, <1>3, ReadingOK DEF Begin
<1>5. Only(c) /\ req'[c] = r /\ UNCHANGED <<story, docs, files>>
  BY <1>3, <1>4, BeginStep DEF Begin
<1>6. (\A o \in Client : req[o] = Idle) /\ IsWhole(story, docs, files)
  BY <1>2, <1>3, BeginsAlone DEF Destructive
<1>7. Removes(r, story, docs, files) /\ Publishes(r, story, docs, files)
  BY <1>2, <1>6, NoCallIs DEF Removes, Publishes
<1>8. Destroys(r, story, docs, files)
  BY <1>2, <1>7 DEF Destroys
<1> QED BY <1>5, <1>6, <1>8, BeginsLone

\* A request that begins while none destroys.
LEMMA GrowingRequest ==
  ASSUME TypeInv, Growing, \A z \in zip : IsTree(z), lapses' = {}, NEW c \in Client, Request(c)
  PROVE  Growing' \/ Lone(c)'
<1>1. ASSUME NEW d \in docs, NEW parent \in Id, NEW n \in Int, NEW of \in Page \cup {None},
             Move(c, d, parent, n, of)
      PROVE  Lone(c)'
  <2>1. Begin(c, Moving(d, parent, n, of)) /\ \E e \in docs : e.id = parent
    BY <1>1 DEF Move, Moving
  <2> QED BY <2>1, BeginMove
<1>2. ASSUME NEW d \in docs, NEW parent \in Id, NEW n \in Moves, Move(c, d, parent, n, None)
      PROVE  Lone(c)'
  BY <1>1, <1>2, StoriesAssumption
<1>3. ASSUME NEW d \in docs, NEW parent \in Id, NEW e \in docs, Move(c, d, parent, e.n, e.d)
      PROVE  Lone(c)'
  <2>1. e.n \in Int /\ e.d \in Page \cup {None}
    BY DEF TypeInv, DocsOK, Doc
  <2> QED BY <1>1, <1>3, <2>1
<1> QED
  BY <1>2, <1>3, BeginPutStory, BeginPutPage, BeginRename, BeginZip, BeginDeletePage,
     BeginDeleteStory, BeginPublish DEF Request

\* None begins beside one that does.
LEMMA LoneRequest ==
  ASSUME NEW c \in Client, Lone(c), NEW o \in Client, NEW r, Begin(o, r), lapses' = {}
  PROVE  FALSE
<1>1. req[c].op \in Destructive
  BY DEF Lone, Destroys, Destructive
<1>2. o # c
  BY <1>1, IdleIs DEF Begin, Destructive
<1>3. "overlap" \notin Lapses(o, r)
  BY DEF Begin
<1>4. req[c].op # "none"
  BY <1>1 DEF Destructive
<1> QED BY <1>1, <1>2, <1>3, <1>4 DEF Lapses

\* The children of one more page are found.
LEMMA LooksOn ==
  ASSUME NEW D \in SUBSET Doc, NEW r, NEW s, Looks(r, D), NEW parent \in r.frontier,
         parent \in Id, NEW some, some = {d \in D : d.parent = parent /\ d.n >= 0},
         s.page = r.page, s.found = r.found \cup some,
         s.frontier = (r.frontier \ {parent}) \cup {d.id : d \in some}
  PROVE  Looks(s, D)
<1> DEFINE pages == {r.page} \cup {d.id : d \in r.found}
           after == {s.page} \cup {d.id : d \in s.found}
<1>1. /\ IsTree(D) /\ (\E d \in D : d.id = r.page) /\ r.found \subseteq D
      /\ r.frontier \subseteq pages /\ \A d \in r.found : d.id # Root
      /\ \A d \in D : d.parent \in pages \ r.frontier => d \in r.found
  BY DEF Looks
<1>2. after = pages \cup {d.id : d \in some}
  OBVIOUS
<1>3. \A d \in some : d.id # Root
  <2>1. parent # Story
    BY StoriesAssumption DEF Id
  <2> QED BY <1>1, <2>1 DEF IsTree
<1>4. \A d \in D : d.parent = parent => d \in some
  BY <1>1 DEF IsTree
<1> HIDE DEF pages, after
<1>5. \A d \in D : d.parent \in after \ s.frontier => d \in s.found
  <2>1. ASSUME NEW d \in D, d.parent \in after, d.parent \notin s.frontier PROVE d \in s.found
    <3>1. CASE d.parent = parent
      BY <1>4, <3>1
    <3>2. CASE d.parent # parent
      <4>1. d.parent \in pages \ r.frontier
        BY <1>2, <2>1, <3>2
      <4> QED BY <1>1, <4>1
    <3> QED BY <3>1, <3>2
  <2> QED BY <2>1
<1>6. s.found \subseteq D /\ s.frontier \subseteq after /\ \A d \in s.found : d.id # Root
  BY <1>1, <1>2, <1>3
<1> QED BY <1>1, <1>5, <1>6 DEF Looks, after

\* Once the children of all have been asked for, what is found, with the page itself, is
\* the page and all that is under it.
LEMMA LooksDone ==
  ASSUME NEW D \in SUBSET Doc, NEW r, Looks(r, D), r.frontier = {}, NEW d \in D, d.id = r.page
  PROVE  LET all == r.found \cup {d}
         IN  /\ all \in SUBSET D /\ \A e \in D \ all, f \in all : e.id # f.id
             /\ r.page = Root => D \subseteq all
             /\ r.page # Root => IsTree(D \ all)
<1> DEFINE all == r.found \cup {d}
           S == {e.id : e \in all}
<1>1. /\ IsTree(D) /\ r.found \subseteq D /\ (\A e \in r.found : e.id # Root)
      /\ \A e \in D : e.parent \in {r.page} \cup {f.id : f \in r.found} => e \in r.found
  BY DEF Looks
<1>2. all \in SUBSET D /\ S \in SUBSET Id
  BY <1>1 DEF Doc
<1>3. \A e \in D : e.id \in S => e \in all
  BY <1>1, <1>2 DEF IsTree
<1>4. Closed(S, D)
  <2>1. S = {r.page} \cup {f.id : f \in r.found}
    OBVIOUS
  <2> QED BY <1>1, <2>1 DEF Closed
<1>5. \A f \in all : f.id \in S
  OBVIOUS
<1>6. r.page \in S /\ (r.page # Root => Root \notin S)
  BY <1>1
<1> HIDE DEF S, all
<1>7. r.page = Root => D \subseteq all
  BY <1>1, <1>2, <1>3, <1>4, <1>6 DEF IsTree
<1>8. D \ all = {e \in D : e.id \notin S}
  BY <1>3, <1>5
<1>9. r.page # Root => IsTree(D \ all)
  BY <1>1, <1>2, <1>4, <1>6, <1>8, PrunedTree
<1> QED BY <1>2, <1>3, <1>5, <1>7, <1>9 DEF all

\* A page of a tree is found by its id.
LEMMA FirstIs ==
  ASSUME TypeInv, IsTree(docs), NEW d \in docs PROVE First(d.id) = {d}
  BY DEF IsTree, First

\* A document of the table is dropped alone.
LEMMA DropIs ==
  ASSUME TypeInv, NEW d \in docs PROVE Drop(d) = docs \ {d}
  BY DEF TypeInv, DocsOK, OnePerKey, Drop, SameKey

LEMMA LoneStays ==
  ASSUME NEW c \in Client, Lone(c), Only(c), NEW s, s = req'[c], Destroys(s, story', docs', files')
  PROVE  Lone(c)'
<1>1. \A o \in Client : o # c => req'[o] = Idle
  BY DEF Lone, Only
<1> QED BY <1>1 DEF Lone

\* When the request is over, the story is whole.
LEMMA LoneEnds ==
  ASSUME NEW c \in Client, Lone(c), Only(c), req'[c] = Idle, IsWhole(story', docs', files'),
         story' \in BOOLEAN
  PROVE  Growing'
<1>1. \A o \in Client : req'[o] = Idle
  BY DEF Lone, Only
<1>2. \A o \in Client : req'[o].todo.post = {} /\ req'[o].todo.write = {} /\ req'[o].todo.rest = {}
  BY <1>1, IdleIs, NoCallIs
<1>3. Posts' = docs' \cup UNION {req'[o].todo.post : o \in Client}
  BY DEF Posts
<1>4. Writes' = files' \cup UNION {req'[o].todo.write : o \in Client}
  BY DEF Writes
<1>5. Posts' = docs' /\ Writes' = files' /\ Begun' = story'
  BY <1>2, <1>3, <1>4 DEF Begun
<1>6. PICK s, D : s = Idle /\ D = docs'
  OBVIOUS
<1>7. Grows(s, D)
  BY <1>6, IdleIs, NoCallIs DEF Grows
<1>8. \A o \in Client : req'[o].at # "siblings"
  BY <1>1, IdleIs
<1>9. Fresh'
  BY <1>8 DEF Fresh
<1> QED BY <1>1, <1>5, <1>6, <1>7, <1>9 DEF Growing

\* A page that is moved leaves a tree behind it, and makes one again.
LEMMA LoneMove ==
  ASSUME TypeInv, PostedInv, PlaceInv, lapses = {}, NEW c \in Client, Lone(c),
         req[c].op = "move", Step(c)
  PROVE  Lone(c)' \/ Growing'
<1> DEFINE r == req[c]
<1>1. r \in Requests /\ Fits(r) /\ story /\ Relocates(r, docs, files) /\ r.op = "move"
  BY DEF TypeInv, RequestsOK, Lone, Destroys
<1>2. /\ r.at \in {"page", "drop", "create", "gather"} /\ r.todo = NoCall
      /\ r.page # Root /\ r.n >= 0 /\ r.page \in Id /\ r.parent \in Id /\ docs \in SUBSET Doc
  BY <1>1 DEF Relocates, Fits, TypeInv, DocsOK
<1>3. ASSUME NEW s, s = req'[c], Only(c), story' = story, s.op = "move", Relocates(s, docs', files')
      PROVE  Lone(c)'
  <2>1. Destroys(s, story', docs', files')
    BY <1>1, <1>3 DEF Destroys
  <2> QED BY <1>3, <2>1, LoneStays
<1>4. CASE QueryPage(c)
  <2>1. Only(c) /\ story' = story /\ docs' = docs /\ files' = files /\ r.at = "page"
    BY <1>4, QueryPageStep DEF QueryPage, Same, Unmoved
  <2>2. ASSUME req'[c] = Failing(r) PROVE Lone(c)'
    <3>1. PICK s : s = Failing(r)
      OBVIOUS
    <3>2. s.op = r.op /\ s.at = "gather" /\ s.page = r.page /\ s.n = r.n /\ s.todo = r.todo
      BY <1>1, <3>1, RecordIs
    <3>3. Relocates(s, docs', files')
      BY <1>1, <2>1, <3>2 DEF Relocates
    <3> QED BY <1>1, <1>3, <2>1, <2>2, <3>1, <3>2, <3>3
  <2>3. ASSUME NEW d \in docs, d.id = r.page, req'[c] = [r EXCEPT !.at = "drop", !.read = {d}]
        PROVE  Lone(c)'
    <3> DEFINE s == [r EXCEPT !.at = "drop", !.read = {d}]
    <3>1. /\ s.op = r.op /\ s.at = "drop" /\ s.page = r.page /\ s.n = r.n /\ s.todo = r.todo
          /\ s.parent = r.parent /\ s.read = {d}
      BY <1>1 DEF Requests
    <3> HIDE DEF s, r
    <3>2. Relocates(s, docs', files')
      BY <1>1, <2>1, <2>3, <3>1 DEF Relocates
    <3> QED BY <1>1, <1>3, <2>1, <2>3, <3>1, <3>2 DEF s
  <2>4. ASSUME NEW d \in First(r.page), req' = [req EXCEPT ![c].at = "drop", ![c].read = {d}]
        PROVE  d \in docs /\ d.id = r.page /\ req'[c] = [r EXCEPT !.at = "drop", !.read = {d}]
    BY <2>4 DEF First, TypeInv, RequestsOK
  <2> QED BY <1>1, <1>4, <2>2, <2>3, <2>4, FailStep DEF QueryPage
<1>5. CASE MoveDrop(c)
  <2>1. /\ Only(c) /\ story' = story /\ files' = files /\ r.at = "drop"
        /\ req'[c] = Going(r, "create")
    BY <1>5, MoveDropStep DEF MoveDrop
  <2>2. PICK d \in r.read : docs' = Drop(d)
    BY <1>5 DEF MoveDrop
  <2>3. d \in docs /\ d.id = r.page /\ IsTree(docs) /\ files = Contents(docs)
    BY <1>1, <2>1, <2>2 DEF Relocates
  <2>4. docs' = docs \ {d}
    BY <2>2, <2>3, DropIs
  <2>5. PICK s : s = Going(r, "create")
    OBVIOUS
  <2>6. /\ s.op = r.op /\ s.at = "create" /\ s.page = r.page /\ s.n = r.n /\ s.todo = r.todo
        /\ s.parent = r.parent /\ s.d = r.d
    BY <1>1, <2>5, RecordIs
  <2>7. PICK t : t = Destination(r)
    OBVIOUS
  <2>8. t \in Doc /\ t.id = r.page /\ t.parent = r.parent /\ t.n = r.n
    BY <1>1, <1>2, <2>7 DEF Destination, Doc, Requests
  <2>9. Target(s) = {t}
    BY <1>1, <2>6, <2>7 DEF Target, Destination
  <2>10. IsTree((docs \ {d}) \cup {t})
    <3>1. \E e \in docs : e.id = t.parent
      BY <1>1, <2>1, <2>8 DEF Relocates
    <3>2. PICK S \in SUBSET Id : Closed(S, docs) /\ r.page \in S /\ r.parent \notin S
      BY <1>1, <2>1 DEF Relocates
    <3> QED BY <1>2, <2>3, <2>8, <3>1, <3>2, MovedTree
  <2>11. Contents(docs) = Contents((docs \ {d}) \cup {t})
    BY <2>3, <2>8 DEF Contents
  <2>12. \A e \in docs \ {d} : e.id # r.page
    BY <2>3 DEF IsTree
  <2> HIDE DEF r
  <2>13. Relocates(s, docs', files')
    BY <1>2, <2>1, <2>3, <2>4, <2>6, <2>9, <2>10, <2>11, <2>12 DEF Relocates
  <2> QED BY <1>1, <1>3, <2>1, <2>5, <2>6, <2>13
<1>6. CASE MoveCreate(c)
  <2>1. PICK t : t = Destination(r)
    OBVIOUS
  <2>2. /\ Only(c) /\ story' = story /\ files' = files /\ r.at = "create"
        /\ req'[c] = Going(r, "gather") /\ docs' = Post(t)
    BY <1>6, <2>1, MoveCreateStep DEF MoveCreate
  <2>3. Target(r) = {t} /\ t.id = r.page
    BY <1>1, <2>1 DEF Target, Destination
  <2>4. IsTree(docs \cup {t}) /\ files = Contents(docs \cup {t}) /\ \A d \in docs : d.id # r.page
    BY <1>1, <2>2, <2>3 DEF Relocates
  <2>5. t \in Known /\ docs \subseteq Known
    BY <2>3 DEF Known, Writing, PostedInv
  <2>6. docs' = docs \cup {t}
    BY <2>2, <2>4, <2>5, PostAdds
  <2>7. PICK s : s = Going(r, "gather")
    OBVIOUS
  <2>8. s.op = r.op /\ s.at = "gather" /\ s.page = r.page /\ s.n = r.n /\ s.todo = r.todo
    BY <1>1, <2>7, RecordIs
  <2> HIDE DEF r
  <2>9. Relocates(s, docs', files')
    BY <1>2, <2>2, <2>4, <2>6, <2>8 DEF Relocates
  <2> QED BY <1>1, <1>3, <2>2, <2>7, <2>8, <2>9
<1>7. CASE Gathered(c)
  <2>1. Only(c) /\ story' = story /\ docs' = docs /\ files' = files /\ r.at = "gather"
    BY <1>7, GatheredStep DEF Gathered, Same, Unmoved
  <2>2. req' = [req EXCEPT ![c] = Idle]
    BY <1>1, <1>7 DEF Gathered
  <2>3. req'[c] = Idle
    BY <2>2 DEF TypeInv, RequestsOK
  <2>4. IsWhole(story', docs', files') /\ story' \in BOOLEAN
    BY <1>1, <2>1 DEF Relocates, IsWhole, TypeInv, RestOK
  <2> QED BY <2>1, <2>3, <2>4, LoneEnds
<1>8. ~ (Siblings(c) \/ QueryStory(c) \/ GetStory(c) \/ QuerySelf(c) \/ ReadFiles(c) \/ Recreate(c))
  BY <1>2 DEF Siblings, QueryStory, GetStory, QuerySelf, ReadFiles, Recreate
<1>9. \A parent \in r.frontier : ~ ListChildren(c, parent)
  BY <1>2 DEF ListChildren
<1>10. r.todo.post = {} /\ r.todo.drop = {} /\ r.todo.write = {} /\ r.todo.erase = {} /\ r.todo.rest = {}
  BY <1>2, NoCallIs
<1> QED BY <1>4, <1>5, <1>6, <1>7, <1>8, <1>9, <1>10 DEF Step

\* A page is deleted with all that is under it, and then their contents.
LEMMA LoneDeletePage ==
  ASSUME TypeInv, lapses' = {}, NEW c \in Client, Lone(c), req[c].op = "deletePage", Step(c)
  PROVE  Lone(c)' \/ Growing'
<1> DEFINE r == req[c]
<1>1. /\ r \in Requests /\ story /\ Deletes(r, docs, files) /\ r.op = "deletePage"
      /\ r.todo \in Calls /\ r.found \in SUBSET Doc /\ r.frontier \in SUBSET Id
  BY DEF TypeInv, RequestsOK, Lone, Destroys, Requests
<1>2. /\ r.at \in {"list", "gather"} /\ r.ok /\ docs \in SUBSET Doc
      /\ r.todo.post = {} /\ r.todo.write = {} /\ r.todo.rest = {}
  BY <1>1 DEF Deletes, TypeInv, DocsOK
<1>3. ASSUME NEW s, s = req'[c], Only(c), story' = story, s.op = "deletePage", Deletes(s, docs', files')
      PROVE  Lone(c)'
  <2>1. Destroys(s, story', docs', files')
    BY <1>1, <1>3 DEF Destroys
  <2> QED BY <1>3, <2>1, LoneStays
<1>4. ASSUME NEW parent \in r.frontier, ListChildren(c, parent) PROVE Lone(c)'
  <2> DEFINE some == Children(parent)
             frontier == FrontierAfter(c, parent)
             s == [r EXCEPT !.found = @ \cup some, !.frontier = frontier]
  <2>1. Only(c) /\ story' = story /\ docs' = docs /\ files' = files /\ r.at = "list"
    BY <1>4, ListChildrenStep DEF Unmoved
  <2>2. req' = [req EXCEPT ![c].found = @ \cup some, ![c].frontier = frontier]
    BY <1>4 DEF ListChildren
  <2>3. req'[c] = s
    BY <2>2 DEF TypeInv, RequestsOK
  <2>4. /\ some = {d \in docs : d.parent = parent /\ d.n >= 0}
        /\ frontier = (r.frontier \ {parent}) \cup {d.id : d \in some}
    BY DEF Children, FrontierAfter
  <2> HIDE DEF some, frontier
  <2>5. /\ s.op = r.op /\ s.at = r.at /\ s.page = r.page /\ s.todo = r.todo /\ s.ok = r.ok
        /\ s.found = r.found \cup some /\ s.frontier = frontier
    BY <1>1 DEF Requests
  <2> HIDE DEF s
  <2>6. Looks(r, docs) /\ r.page # Root /\ files = Contents(docs) /\ r.todo = NoCall
    BY <1>1, <2>1 DEF Deletes
  <2>7. Looks(s, docs)
    <3>1. parent \in Id
      BY <1>1
    <3> QED BY <1>2, <2>4, <2>5, <2>6, <3>1, LooksOn
  <2>8. Deletes(s, docs', files')
    BY <1>2, <2>1, <2>5, <2>6, <2>7 DEF Deletes
  <2> QED BY <1>1, <1>3, <2>1, <2>3, <2>5, <2>8
<1>5. CASE QuerySelf(c)
  <2>1. /\ Only(c) /\ story' = story /\ docs' = docs /\ files' = files /\ r.at = "list"
        /\ r.frontier = {}
    BY <1>5, QuerySelfStep DEF QuerySelf
  <2>2. /\ Looks(r, docs) /\ IsTree(docs) /\ r.page # Root /\ files = Contents(docs)
        /\ r.todo = NoCall /\ \E d \in docs : d.id = r.page
    BY <1>1, <2>1 DEF Deletes, Looks
  <2>3. PICK d \in docs : d.id = r.page /\ First(r.page) = {d}
    BY <2>2, FirstIs
  <2>4. PICK all : all = r.found \cup {d}
    OBVIOUS
  <2>5. req' = [req EXCEPT ![c].at = "gather", ![c].found = all, ![c].todo.drop = all]
    BY <1>1, <1>5, <2>3, <2>4 DEF QuerySelf
  <2> DEFINE todo == [r.todo EXCEPT !.drop = all]
             s == [r EXCEPT !.at = "gather", !.found = all, !.todo = todo]
  <2>6. req'[c] = s
    BY <1>1, <2>5 DEF TypeInv, RequestsOK, Requests
  <2>7. /\ todo.post = r.todo.post /\ todo.drop = all /\ todo.write = r.todo.write
        /\ todo.erase = r.todo.erase /\ todo.rest = r.todo.rest
    BY <1>1 DEF Calls
  <2> HIDE DEF todo
  <2>8. /\ s.op = r.op /\ s.at = "gather" /\ s.page = r.page /\ s.todo = todo /\ s.ok = r.ok
        /\ s.found = all
    BY <1>1 DEF Requests
  <2> HIDE DEF s, r
  <2>9. /\ all \in SUBSET docs /\ \A e \in docs \ all, f \in all : e.id # f.id
        /\ IsTree(docs \ all)
    <3>1. docs \in SUBSET Doc /\ Looks(r, docs) /\ r.frontier = {} /\ d.id = r.page
      BY <1>2, <2>1, <2>2, <2>3
    <3>2. PICK p : p = r
      OBVIOUS
    <3>3. Looks(p, docs) /\ p.frontier = {} /\ d.id = p.page
      BY <3>1, <3>2
    <3>4. LET found == p.found \cup {d}
          IN  /\ found \in SUBSET docs /\ \A e \in docs \ found, f \in found : e.id # f.id
              /\ p.page = Root => docs \subseteq found
              /\ p.page # Root => IsTree(docs \ found)
      BY <3>1, <3>3, LooksDone
    <3> QED BY <2>2, <2>4, <3>2, <3>4
  <2>10. docs \cup all = docs /\ docs \cap all = all
    BY <2>9
  <2>11. Deletes(s, docs', files')
    BY <1>2, <2>1, <2>2, <2>7, <2>8, <2>9, <2>10, NoCallIs DEF Deletes
  <2> QED BY <1>1, <1>3, <2>1, <2>6, <2>8, <2>11
<1>6. ASSUME NEW todo, NEW ok, req'[c] = Calling(r, todo, ok), r.at = "gather", Only(c), story' = story,
             todo.post = {}, todo.write = {}, todo.rest = {}, ok,
             IsTree(docs' \ r.found), todo.drop = docs' \cap r.found,
             \A d \in docs' \ r.found, e \in r.found : d.id # e.id,
             files' = Contents(docs' \cup r.found) \cup todo.erase,
             todo.erase \subseteq Id, \A d \in docs' : d.id \notin todo.erase,
             r.found # {} => todo.erase = {}
      PROVE  Lone(c)'
  <2>1. PICK s : s = Calling(r, todo, ok)
    OBVIOUS
  <2>2. /\ s.op = r.op /\ s.at = r.at /\ s.page = r.page /\ s.todo = todo /\ s.ok = ok
        /\ s.found = r.found
    BY <1>1, <2>1, RecordIs
  <2> HIDE DEF r
  <2>3. Deletes(s, docs', files')
    BY <1>2, <1>6, <2>2 DEF Deletes
  <2> QED BY <1>1, <1>3, <1>6, <2>1, <2>2, <2>3
<1>7. r.at = "list" => r.todo.drop = {} /\ r.todo.erase = {}
  BY <1>1, NoCallIs DEF Deletes
<1>8. r.at = "gather" =>
       /\ IsTree(docs \ r.found) /\ r.todo.drop = docs \cap r.found
       /\ \A d \in docs \ r.found, e \in r.found : d.id # e.id
       /\ files = Contents(docs \cup r.found) \cup r.todo.erase
       /\ r.todo.erase \subseteq Id /\ \A d \in docs : d.id \notin r.todo.erase
       /\ r.found # {} => r.todo.erase = {}
  BY <1>1 DEF Deletes
<1>9. ASSUME NEW d \in r.todo.drop, CallDrop(c, d) PROVE Lone(c)'
  <2>1. r.at = "gather" /\ d \in docs /\ d \in r.found
    BY <1>2, <1>7, <1>8, <1>9
  <2>2. Only(c) /\ story' = story /\ files' = files /\ docs' = docs \ {d}
    BY <1>9, <2>1, CallDropStep, DropIs
  <2> DEFINE todo == [r.todo EXCEPT !.drop = @ \ {d}]
  <2>3. /\ todo.post = r.todo.post /\ todo.drop = r.todo.drop \ {d} /\ todo.write = r.todo.write
        /\ todo.erase = r.todo.erase /\ todo.rest = r.todo.rest
    BY <1>1 DEF Calls
  <2>4. req'[c] = Calling(r, todo, r.ok)
    BY <1>1, <1>9 DEF CallDrop, Calling, TypeInv, RequestsOK, Requests
  <2> HIDE DEF todo, r
  <2>5. docs' \ r.found = docs \ r.found /\ docs' \cup r.found = docs \cup r.found
    BY <2>1, <2>2
  <2>6. todo.drop = docs' \cap r.found
    BY <1>8, <2>1, <2>2, <2>3
  <2>7. \A e \in docs' : e.id \notin r.todo.erase
    BY <1>8, <2>1, <2>2
  <2>8. \A e \in docs' \ r.found, f \in r.found : e.id # f.id
    BY <1>8, <2>1, <2>5
  <2> QED BY <1>2, <1>6, <1>8, <2>1, <2>2, <2>3, <2>4, <2>5, <2>6, <2>7, <2>8
<1>10. ASSUME NEW name \in r.todo.erase, CallErase(c, name) PROVE Lone(c)'
  <2>1. r.at = "gather" /\ r.found = {}
    BY <1>2, <1>7, <1>8, <1>10
  <2>2. /\ files = Contents(docs) \cup r.todo.erase /\ name \in Id /\ \A d \in docs : d.id # name
        /\ r.todo.drop = {} /\ IsTree(docs)
    <3>1. docs \cup r.found = docs /\ docs \ r.found = docs /\ docs \cap r.found = {}
      BY <2>1
    <3> QED BY <1>8, <1>10, <2>1, <3>1
  <2>3. name \notin Contents(docs) /\ name \in files
    BY <1>10, <2>2, NamesAssumption DEF Contents
  <2>4. Only(c) /\ story' = story /\ docs' = docs /\ files' = files \ {name}
    <3>1. Besides(c)
      BY <1>10 DEF Besides
    <3> QED BY <1>10, <3>1, BesidesStep DEF CallErase
  <2> DEFINE todo == [r.todo EXCEPT !.erase = @ \ {name}]
             ok == r.ok /\ name \in files
  <2>5. /\ todo.post = r.todo.post /\ todo.drop = r.todo.drop /\ todo.write = r.todo.write
        /\ todo.erase = r.todo.erase \ {name} /\ todo.rest = r.todo.rest
    BY <1>1 DEF Calls
  <2>6. req'[c] = Calling(r, todo, ok)
    BY <1>1, <1>10 DEF CallErase, Calling, TypeInv, RequestsOK, Requests
  <2>7. ok
    BY <1>2, <2>3
  <2> HIDE DEF todo, r, ok
  <2>8. /\ docs' \ r.found = docs /\ docs' \cup r.found = docs /\ docs' \cap r.found = {}
    BY <2>1, <2>4
  <2>9. files' = Contents(docs) \cup todo.erase
    BY <2>2, <2>3, <2>4, <2>5
  <2>10. \A d \in docs' \ r.found, e \in r.found : d.id # e.id
    BY <2>1
  <2>11. todo.erase \subseteq Id /\ \A d \in docs' : d.id \notin todo.erase
    BY <1>8, <2>1, <2>4, <2>5
  <2> QED BY <1>2, <1>6, <2>1, <2>2, <2>4, <2>5, <2>6, <2>7, <2>8, <2>9, <2>10, <2>11
<1>11. CASE Gathered(c)
  <2>1. /\ Only(c) /\ story' = story /\ docs' = docs /\ files' = files /\ r.at = "gather"
        /\ r.todo = NoCall
    BY <1>11, GatheredStep DEF Gathered, Same, Unmoved
  <2>2. docs \cap r.found = {} /\ IsTree(docs \ r.found) /\ files = Contents(docs \cup r.found)
    BY <1>8, <2>1, NoCallIs
  <2>3. docs \ r.found = docs
    BY <2>2
  <2>4. CASE r.found = {}
    <3>1. req' = [req EXCEPT ![c] = Idle]
      BY <1>1, <1>11, <2>4 DEF Gathered
    <3>2. req'[c] = Idle
      BY <3>1 DEF TypeInv, RequestsOK
    <3>3. docs \cup r.found = docs
      BY <2>4
    <3>4. IsWhole(story', docs', files') /\ story' \in BOOLEAN
      BY <1>1, <2>1, <2>2, <2>3, <3>3 DEF IsWhole, TypeInv, RestOK
    <3> QED BY <2>1, <3>2, <3>4, LoneEnds
  <2>5. CASE r.found # {}
    <3>1. PICK ids : ids = {d.id : d \in r.found}
      OBVIOUS
    <3>2. req' = [req EXCEPT ![c].todo.erase = ids, ![c].found = {}]
      BY <1>1, <1>2, <1>11, <2>5, <3>1 DEF Gathered
    <3> DEFINE todo == [r.todo EXCEPT !.erase = ids]
               s == [r EXCEPT !.todo = todo, !.found = {}]
    <3>3. req'[c] = s
      BY <1>1, <3>2 DEF TypeInv, RequestsOK, Requests
    <3>4. /\ todo.post = r.todo.post /\ todo.drop = r.todo.drop /\ todo.write = r.todo.write
          /\ todo.erase = ids /\ todo.rest = r.todo.rest
      BY <1>1 DEF Calls
    <3> HIDE DEF todo
    <3>5. /\ s.op = r.op /\ s.at = r.at /\ s.page = r.page /\ s.todo = todo /\ s.ok = r.ok
          /\ s.found = {}
      BY <1>1 DEF Requests
    <3>6. ids \subseteq Id /\ \A d \in docs : d.id \notin ids
      <4>1. \A d \in r.found : d.id \in Id
        BY <1>1 DEF Doc
      <4>2. \A d \in docs, e \in r.found : d.id # e.id
        BY <1>8, <2>1, <2>3
      <4> QED BY <3>1, <4>1, <4>2
    <3>7. Contents(docs \cup r.found) = Contents(docs) \cup ids
      BY <3>1 DEF Contents
    <3>8. /\ docs' \ s.found = docs /\ docs' \cup s.found = docs /\ docs' \cap s.found = {}
          /\ \A d \in docs' \ s.found, e \in s.found : d.id # e.id
      BY <2>1, <3>5
    <3> HIDE DEF s, r
    <3>9. Deletes(s, docs', files')
      BY <1>2, <2>1, <2>2, <2>3, <3>4, <3>5, <3>6, <3>7, <3>8, NoCallIs DEF Deletes
    <3> QED BY <1>1, <1>3, <2>1, <3>3, <3>5, <3>9
  <2> QED BY <2>4, <2>5
<1>12. ~ (\/ Siblings(c) \/ QueryPage(c) \/ MoveDrop(c) \/ MoveCreate(c) \/ QueryStory(c)
          \/ GetStory(c) \/ ReadFiles(c) \/ Recreate(c))
  BY <1>2 DEF Siblings, QueryPage, MoveDrop, MoveCreate, QueryStory, GetStory, ReadFiles, Recreate
<1> QED BY <1>2, <1>4, <1>5, <1>9, <1>10, <1>11, <1>12 DEF Step

\* A story is deleted with all its pages, and one that is published is created again.
LEMMA LoneRemoves ==
  ASSUME TypeInv, PostedInv, PlaceInv, lapses = {}, lapses' = {}, NEW c \in Client, Lone(c),
         req[c].op \in {"deleteStory", "publish"}, Step(c)
  PROVE  Lone(c)' \/ Growing'
<1> DEFINE r == req[c]
<1>1. /\ r \in Requests /\ r.todo \in Calls /\ r.found \in SUBSET Doc /\ r.frontier \in SUBSET Id
      /\ r.read \in SUBSET Doc /\ docs \in SUBSET Doc /\ story \in BOOLEAN
      /\ r.todo.rest \subseteq {"create", "delete", "deleteGroup"}
  BY DEF TypeInv, RequestsOK, DocsOK, RestOK, Requests, Calls
<1>2. /\ Removes(r, story, docs, files) /\ r.op \in {"deleteStory", "publish"}
      /\ r.op = "publish" => Publishes(r, story, docs, files)
      /\ r.op = "deleteStory" => r.at \in {"story", "list", "gather"} /\ (r.at = "gather" => r.found # {})
  BY DEF Lone, Destroys
<1>3. ASSUME NEW s, s = req'[c], Only(c), s.op = r.op, s.read = r.read,
             Removes(s, story', docs', files'),
             s.op = "deleteStory" => s.at \in {"story", "list", "gather"},
             s.at = "gather" /\ s.found = {} =>
               /\ s.op = "publish" /\ docs' \cup s.todo.post = s.read
               /\ files' \cup s.todo.write = Contents(s.read)
               /\ story' \/ "create" \in s.todo.rest
               /\ s.todo.drop = {} /\ s.todo.rest \subseteq {"create"}
      PROVE  Lone(c)'
  <2>1. s.op = "publish" => Publishes(s, story', docs', files')
    BY <1>2, <1>3 DEF Publishes
  <2>2. Destroys(s, story', docs', files')
    BY <1>2, <1>3, <2>1 DEF Destroys
  <2> QED BY <1>3, <2>2, LoneStays
<1>4. /\ r.at \in {"query", "story", "list", "gather", "recreate"} /\ r.ok /\ r.todo.erase = {}
      /\ r.at \in {"query", "story"} => IsWhole(story, docs, files) /\ r.todo = NoCall /\ r.found = {}
      /\ r.at = "story" => story
      /\ r.at = "list" => r.page = Root /\ Looks(r, docs) /\ r.todo.drop = {}
      /\ r.at = "list" \/ (r.at = "gather" /\ r.found # {}) =>
           /\ "delete" \in r.todo.rest \/ ~ story
           /\ "deleteGroup" \in r.todo.rest \/ files = {}
           /\ "create" \notin r.todo.rest /\ r.todo.post = {} /\ r.todo.write = {}
      /\ r.at = "gather" /\ r.found # {} => docs \subseteq r.todo.drop
      /\ r.at = "recreate" => r.found = {} /\ r.todo = NoCall /\ docs = {} /\ files = {} /\ ~ story
  BY <1>2 DEF Removes
<1>5. /\ r.op = "publish" => IsTree(r.read)
      /\ r.at = "gather" /\ r.found = {} =>
           /\ r.op = "publish" /\ docs \cup r.todo.post = r.read
           /\ files \cup r.todo.write = Contents(r.read)
           /\ story \/ "create" \in r.todo.rest
           /\ r.todo.drop = {} /\ r.todo.rest \subseteq {"create"}
  BY <1>2 DEF Publishes
<1>6. CASE QueryStory(c)
  <2>1. /\ Only(c) /\ story' = story /\ docs' = docs /\ files' = files /\ r.at = "query"
        /\ r.op = "publish"
    BY <1>2, <1>6, QueryStoryStep DEF QueryStory, Same, Unmoved
  <2>2. ASSUME NEW at, req'[c] = Going(r, at), (at = "story" /\ story) \/ (at = "recreate" /\ ~ story)
        PROVE  Lone(c)'
    <3>1. PICK s : s = Going(r, at)
      OBVIOUS
    <3>2. /\ s.op = r.op /\ s.at = at /\ s.page = r.page /\ s.todo = r.todo /\ s.ok = r.ok
          /\ s.found = r.found /\ s.read = r.read
      BY <1>1, <3>1, RecordIs
    <3>3. story = FALSE => docs = {} /\ files = {}
      BY <1>4, <2>1 DEF IsWhole
    <3> HIDE DEF r
    <3>4. Removes(s, story', docs', files')
      BY <1>1, <1>4, <2>1, <2>2, <3>2, <3>3, NoCallIs DEF Removes
    <3> QED BY <1>3, <2>1, <2>2, <3>1, <3>2, <3>4
  <2>3. ASSUME NEW at, Goto(c, at) PROVE req'[c] = Going(r, at)
    BY <2>3 DEF Goto, Going, TypeInv, RequestsOK
  <2>4. (story /\ Goto(c, "story")) \/ (~ story /\ Goto(c, "recreate"))
    BY <1>6, <2>1 DEF QueryStory
  <2>5. CASE story /\ Goto(c, "story")
    <3>1. req'[c] = Going(r, "story")
      BY <2>3, <2>5
    <3> QED BY <2>2, <2>5, <3>1
  <2>6. CASE ~ story /\ Goto(c, "recreate")
    <3>1. req'[c] = Going(r, "recreate")
      BY <2>3, <2>6
    <3> QED BY <2>2, <2>6, <3>1
  <2> QED BY <2>4, <2>5, <2>6
<1>7. CASE GetStory(c)
  <2>1. /\ Only(c) /\ story' = story /\ docs' = docs /\ r.at = "story"
    BY <1>7, GetStoryStep
  <2>2. story /\ IsTree(docs) /\ files = Contents(docs) /\ r.todo = NoCall /\ r.found = {}
    BY <1>4, <2>1 DEF IsWhole
  <2>3. PICK root \in docs : root.id = Root
    BY <2>2 DEF IsTree
  <2>4. PICK roots : roots = {d \in docs : d.parent = Story}
    OBVIOUS
  <2>5. roots = {root}
    BY <2>2, <2>3, <2>4 DEF IsTree
  <2>6. /\ Cardinality(roots) = 1 /\ {d.id : d \in roots} = {Root}
        /\ (CHOOSE d \in roots : TRUE).id = Root
    BY <2>3, <2>5, FS_Singleton
  <2>7. /\ files' = files \cup {Global}
        /\ req' = [req EXCEPT ![c].at = "list", ![c].frontier = {Root}, ![c].page = Root,
                              ![c].todo.rest = {"delete", "deleteGroup"}]
    <3>1. /\ files' = files \cup {Global}
          /\ req' = [req EXCEPT ![c].at = "list", ![c].frontier = {d.id : d \in roots},
                                ![c].page = (CHOOSE d \in roots : TRUE).id,
                                ![c].todo.rest = {"delete", "deleteGroup"}]
      BY <1>7, <2>2, <2>4, <2>6 DEF GetStory
    <3> QED BY <2>6, <3>1
  <2>8. files' = files
    BY <2>2, <2>7 DEF Contents, Extra
  <2> DEFINE todo == [r.todo EXCEPT !.rest = {"delete", "deleteGroup"}]
             s == [r EXCEPT !.at = "list", !.frontier = {Root}, !.page = Root, !.todo = todo]
  <2>9. req'[c] = s
    BY <1>1, <2>7 DEF TypeInv, RequestsOK, Requests
  <2>10. /\ todo.post = r.todo.post /\ todo.drop = r.todo.drop /\ todo.write = r.todo.write
         /\ todo.erase = r.todo.erase /\ todo.rest = {"delete", "deleteGroup"}
    BY <1>1 DEF Calls
  <2> HIDE DEF todo
  <2>11. /\ s.op = r.op /\ s.at = "list" /\ s.page = Root /\ s.todo = todo /\ s.ok = r.ok
         /\ s.found = r.found /\ s.frontier = {Root} /\ s.read = r.read
    BY <1>1 DEF Requests
  <2> HIDE DEF s, r
  <2>12. Looks(s, docs)
    BY <2>2, <2>3, <2>11 DEF Looks
  <2>13. Removes(s, story', docs', files')
    BY <1>4, <2>1, <2>2, <2>10, <2>11, <2>12, NoCallIs DEF Removes
  <2> QED BY <1>3, <2>1, <2>9, <2>11, <2>13
<1>8. ASSUME NEW parent \in r.frontier, ListChildren(c, parent) PROVE Lone(c)'
  <2> DEFINE some == Children(parent)
             frontier == FrontierAfter(c, parent)
             s == [r EXCEPT !.found = @ \cup some, !.frontier = frontier]
  <2>1. Only(c) /\ story' = story /\ docs' = docs /\ files' = files /\ r.at = "list"
    BY <1>8, ListChildrenStep DEF Unmoved
  <2>2. req' = [req EXCEPT ![c].found = @ \cup some, ![c].frontier = frontier]
    BY <1>8 DEF ListChildren
  <2>3. req'[c] = s
    BY <2>2 DEF TypeInv, RequestsOK
  <2>4. /\ some = {d \in docs : d.parent = parent /\ d.n >= 0}
        /\ frontier = (r.frontier \ {parent}) \cup {d.id : d \in some}
    BY DEF Children, FrontierAfter
  <2> HIDE DEF some, frontier
  <2>5. /\ s.op = r.op /\ s.at = r.at /\ s.page = r.page /\ s.todo = r.todo /\ s.ok = r.ok
        /\ s.found = r.found \cup some /\ s.frontier = frontier /\ s.read = r.read
    BY <1>1 DEF Requests
  <2> HIDE DEF s
  <2>6. Looks(s, docs)
    <3>1. parent \in Id /\ parent \in r.frontier /\ Looks(r, docs) /\ docs \in SUBSET Doc
      BY <1>1, <1>4, <2>1
    <3>2. /\ s.page = r.page /\ s.found = r.found \cup some
          /\ s.frontier = (r.frontier \ {parent}) \cup {d.id : d \in some}
      BY <2>4, <2>5
    <3> HIDE DEF r
    <3> QED BY <2>4, <3>1, <3>2, LooksOn
  <2> HIDE DEF r
  <2>7. Removes(s, story', docs', files')
    BY <1>4, <2>1, <2>5, <2>6 DEF Removes
  <2> QED BY <1>3, <2>1, <2>3, <2>5, <2>7
<1>9. CASE QuerySelf(c)
  <2>1. /\ Only(c) /\ story' = story /\ docs' = docs /\ files' = files /\ r.at = "list"
        /\ r.frontier = {} /\ r.op # "zip"
    BY <1>2, <1>9, QuerySelfStep DEF QuerySelf
  <2>2. Looks(r, docs) /\ IsTree(docs) /\ r.page = Root /\ \E d \in docs : d.id = r.page
    BY <1>4, <2>1 DEF Looks
  <2>3. PICK d \in docs : d.id = r.page /\ First(r.page) = {d}
    BY <2>2, FirstIs
  <2>4. PICK all : all = r.found \cup {d}
    OBVIOUS
  <2>5. req' = [req EXCEPT ![c].at = "gather", ![c].found = all, ![c].todo.drop = all]
    BY <1>9, <2>1, <2>3, <2>4 DEF QuerySelf
  <2> DEFINE todo == [r.todo EXCEPT !.drop = all]
             s == [r EXCEPT !.at = "gather", !.found = all, !.todo = todo]
  <2>6. req'[c] = s
    BY <1>1, <2>5 DEF TypeInv, RequestsOK, Requests
  <2>7. /\ todo.post = r.todo.post /\ todo.drop = all /\ todo.write = r.todo.write
        /\ todo.erase = r.todo.erase /\ todo.rest = r.todo.rest
    BY <1>1 DEF Calls
  <2> HIDE DEF todo
  <2>8. /\ s.op = r.op /\ s.at = "gather" /\ s.page = r.page /\ s.todo = todo /\ s.ok = r.ok
        /\ s.found = all /\ s.read = r.read
    BY <1>1 DEF Requests
  <2> HIDE DEF s, r
  <2>9. docs \subseteq all
    <3>1. PICK p : p = r
      OBVIOUS
    <3>2. Looks(p, docs) /\ p.frontier = {} /\ d.id = p.page
      BY <2>1, <2>2, <2>3, <3>1
    <3>3. LET found == p.found \cup {d}
          IN  /\ found \in SUBSET docs /\ \A e \in docs \ found, f \in found : e.id # f.id
              /\ p.page = Root => docs \subseteq found
              /\ p.page # Root => IsTree(docs \ found)
      BY <1>1, <3>2, LooksDone
    <3> QED BY <2>2, <2>4, <3>1, <3>3
  <2>10. Removes(s, story', docs', files') /\ s.found # {}
    BY <1>4, <2>1, <2>4, <2>7, <2>8, <2>9 DEF Removes
  <2> QED BY <1>3, <2>1, <2>6, <2>8, <2>10
<1>10. CASE Recreate(c)
  <2>1. Only(c) /\ story' = story /\ docs' = docs /\ files' = files /\ r.at = "recreate"
    BY <1>10, RecreateStep DEF Recreate, Same, Unmoved
  <2> DEFINE todo == [NoCall EXCEPT !.post = r.read, !.write = Contents(r.read), !.rest = {"create"}]
  <2>2. /\ todo.post = r.read /\ todo.drop = {} /\ todo.write = Contents(r.read)
        /\ todo.erase = {} /\ todo.rest = {"create"}
    BY DEF NoCall
  <2>3. req'[c] = Gathering(r, todo)
    BY <1>10 DEF Recreate, Gather, Gathering, TypeInv, RequestsOK
  <2> HIDE DEF todo
  <2>4. PICK s : s = Gathering(r, todo)
    OBVIOUS
  <2>5. /\ s.op = r.op /\ s.at = "gather" /\ s.page = r.page /\ s.todo = todo /\ s.ok = r.ok
        /\ s.found = r.found /\ s.read = r.read
    BY <1>1, <2>4, RecordIs
  <2> HIDE DEF r
  <2>6. Removes(s, story', docs', files')
    BY <1>4, <2>1, <2>2, <2>5 DEF Removes
  <2>7. r.op = "publish" /\ docs' \cup todo.post = r.read /\ files' \cup todo.write = Contents(r.read)
    BY <1>2, <1>4, <2>1, <2>2
  <2> QED BY <1>3, <2>1, <2>2, <2>3, <2>4, <2>5, <2>6, <2>7
<1>11. ASSUME NEW todo, req'[c] = Calling(r, todo, r.ok), Only(c), todo.erase = {},
              r.at \in {"list", "gather"},
              r.at = "list" => docs' = docs /\ todo.drop = {},
              r.at = "list" \/ (r.at = "gather" /\ r.found # {}) =>
                /\ "delete" \in todo.rest \/ ~ story'
                /\ "deleteGroup" \in todo.rest \/ files' = {}
                /\ "create" \notin todo.rest /\ todo.post = {} /\ todo.write = {},
              r.at = "gather" /\ r.found # {} => docs' \subseteq todo.drop,
              r.at = "gather" /\ r.found = {} =>
                /\ docs' \cup todo.post = r.read /\ files' \cup todo.write = Contents(r.read)
                /\ story' \/ "create" \in todo.rest
                /\ todo.drop = {} /\ todo.rest \subseteq {"create"}
       PROVE  Lone(c)'
  <2>1. PICK s : s = Calling(r, todo, r.ok)
    OBVIOUS
  <2>2. /\ s.op = r.op /\ s.at = r.at /\ s.page = r.page /\ s.todo = todo /\ s.ok = r.ok
        /\ s.found = r.found /\ s.read = r.read /\ s.frontier = r.frontier
    BY <1>1, <2>1, RecordIs
  <2> HIDE DEF r
  <2>3. r.at = "list" => Looks(s, docs')
    BY <1>4, <1>11, <2>2 DEF Looks
  <2>4. Removes(s, story', docs', files')
    BY <1>4, <1>11, <2>2, <2>3 DEF Removes
  <2> QED BY <1>2, <1>3, <1>5, <1>11, <2>1, <2>2, <2>4
<1>12. r.todo # NoCall => r.at \in {"list", "gather"}
  BY <1>4
<1>13. ASSUME NEW d \in r.todo.post, CallPost(c, d) PROVE Lone(c)'
  <2>1. /\ r.at = "gather" /\ r.found = {} /\ r.op = "publish"
    BY <1>4, <1>5, <1>12, <1>13, NoCallIs
  <2>2. Only(c) /\ story' = story /\ files' = files /\ docs' = Post(d)
    BY <1>13, CallPostStep
  <2>3. IsTree(r.read) /\ docs \subseteq r.read /\ d \in r.read
    BY <1>5, <1>13, <2>1
  <2>4. r.read \subseteq Known
    <3>1. Target(r) = r.read
      BY <2>1 DEF Target
    <3> QED BY <3>1 DEF Known, Writing
  <2> DEFINE todo == [r.todo EXCEPT !.post = @ \ {d}]
  <2>5. /\ todo.post = r.todo.post \ {d} /\ todo.drop = r.todo.drop /\ todo.write = r.todo.write
        /\ todo.erase = r.todo.erase /\ todo.rest = r.todo.rest
    BY <1>1 DEF Calls
  <2>6. req'[c] = Calling(r, todo, r.ok)
    BY <1>1, <1>13 DEF CallPost, Calling, TypeInv, RequestsOK, Requests
  <2> HIDE DEF todo, r
  <2>7. docs' = docs \cup {d}
    BY <2>2, <2>3, <2>4, PostAdds
  <2>8. docs' \cup todo.post = r.read
    BY <1>5, <2>1, <2>3, <2>5, <2>7
  <2> QED BY <1>4, <1>5, <1>11, <2>1, <2>2, <2>5, <2>6, <2>8
<1>14. ASSUME NEW d \in r.todo.drop, CallDrop(c, d) PROVE Lone(c)'
  <2>1. r.at = "gather" /\ r.found # {}
    BY <1>4, <1>5, <1>12, <1>14, NoCallIs
  <2>2. Only(c) /\ story' = story /\ files' = files /\ docs' \subseteq docs /\ d \notin docs'
    BY <1>14, CallDropStep DEF Drop, SameKey
  <2> DEFINE todo == [r.todo EXCEPT !.drop = @ \ {d}]
  <2>3. /\ todo.post = r.todo.post /\ todo.drop = r.todo.drop \ {d} /\ todo.write = r.todo.write
        /\ todo.erase = r.todo.erase /\ todo.rest = r.todo.rest
    BY <1>1 DEF Calls
  <2>4. req'[c] = Calling(r, todo, r.ok)
    BY <1>1, <1>14 DEF CallDrop, Calling, TypeInv, RequestsOK, Requests
  <2> HIDE DEF todo, r
  <2>5. docs' \subseteq todo.drop
    BY <1>4, <2>1, <2>2, <2>3
  <2> QED BY <1>4, <1>11, <2>1, <2>2, <2>3, <2>4, <2>5
<1>15. ASSUME NEW name \in r.todo.write, CallWrite(c, name) PROVE Lone(c)'
  <2>1. r.at = "gather" /\ r.found = {}
    BY <1>4, <1>12, <1>15, NoCallIs
  <2>2. Only(c) /\ story' = story /\ files' = files \cup {name} /\ docs' = docs
    <3>1. Besides(c)
      BY <1>15 DEF Besides
    <3> QED BY <1>15, <3>1, BesidesStep DEF CallWrite
  <2> DEFINE todo == [r.todo EXCEPT !.write = @ \ {name}]
  <2>3. /\ todo.post = r.todo.post /\ todo.drop = r.todo.drop /\ todo.write = r.todo.write \ {name}
        /\ todo.erase = r.todo.erase /\ todo.rest = r.todo.rest
    BY <1>1 DEF Calls
  <2>4. req'[c] = Calling(r, todo, r.ok)
    BY <1>1, <1>15 DEF CallWrite, Calling, TypeInv, RequestsOK, Requests
  <2> HIDE DEF todo, r
  <2>5. files' \cup todo.write = Contents(r.read)
    BY <1>5, <1>15, <2>1, <2>2, <2>3
  <2> QED BY <1>4, <1>5, <1>11, <2>1, <2>2, <2>3, <2>4, <2>5
<1>16. ASSUME NEW what \in r.todo.rest, CallStory(c, what) PROVE Lone(c)'
  <2>1. r.at \in {"list", "gather"}
    BY <1>4, <1>12, <1>16, NoCallIs
  <2>2. /\ Only(c) /\ docs' = docs /\ files' = IF what = "deleteGroup" THEN {} ELSE files
        /\ what = "create" => story' = TRUE
        /\ what = "delete" => story' = FALSE
        /\ what = "deleteGroup" => story' = story
    <3>1. Besides(c)
      BY <1>16 DEF Besides
    <3> QED BY <1>16, <3>1, BesidesStep DEF CallStory
  <2> DEFINE todo == [r.todo EXCEPT !.rest = @ \ {what}]
  <2>3. /\ todo.post = r.todo.post /\ todo.drop = r.todo.drop /\ todo.write = r.todo.write
        /\ todo.erase = r.todo.erase /\ todo.rest = r.todo.rest \ {what}
    BY <1>1 DEF Calls
  <2>4. req'[c] = Calling(r, todo, r.ok)
    BY <1>1, <1>16 DEF CallStory, Calling, TypeInv, RequestsOK, Requests
  <2> HIDE DEF todo, r
  <2>5. CASE r.at = "gather" /\ r.found = {}
    <3>1. what = "create"
      BY <1>5, <1>16, <2>5
    <3>2. files' = files /\ story'
      BY <2>2, <3>1
    <3> QED BY <1>4, <1>5, <1>11, <2>1, <2>2, <2>3, <2>4, <2>5, <3>2
  <2>6. CASE ~ (r.at = "gather" /\ r.found = {})
    <3>1. what \in {"delete", "deleteGroup"}
      BY <1>1, <1>4, <1>16, <2>1, <2>6
    <3>2. /\ "delete" \in todo.rest \/ ~ story'
          /\ "deleteGroup" \in todo.rest \/ files' = {}
          /\ "create" \notin todo.rest /\ todo.post = {} /\ todo.write = {}
      BY <1>4, <2>1, <2>2, <2>3, <2>6, <3>1
    <3> QED BY <1>4, <1>11, <2>1, <2>2, <2>3, <2>4, <2>6, <3>2
  <2> QED BY <2>5, <2>6
<1>17. CASE Gathered(c)
  <2>1. /\ Only(c) /\ story' = story /\ docs' = docs /\ files' = files /\ r.at = "gather"
        /\ r.todo = NoCall
    BY <1>17, GatheredStep DEF Gathered, Same, Unmoved
  <2>2. r.found # {} => docs = {} /\ files = {} /\ ~ story
    BY <1>4, <2>1, NoCallIs
  <2>3. r.found = {} => /\ r.op = "publish" /\ story /\ IsTree(docs) /\ files = Contents(docs)
    BY <1>5, <2>1, NoCallIs
  <2>4. CASE r.op = "publish" /\ r.found # {}
    <3> DEFINE s == [r EXCEPT !.at = "recreate", !.found = {}]
    <3>1. req' = [req EXCEPT ![c].at = "recreate", ![c].found = {}]
      BY <1>4, <1>17, <2>4 DEF Gathered
    <3>2. req'[c] = s
      BY <3>1 DEF TypeInv, RequestsOK
    <3>3. /\ s.op = r.op /\ s.at = "recreate" /\ s.page = r.page /\ s.todo = r.todo /\ s.ok = r.ok
          /\ s.found = {} /\ s.read = r.read
      BY <1>1 DEF Requests
    <3> HIDE DEF s, r
    <3>4. Removes(s, story', docs', files')
      BY <1>4, <2>1, <2>2, <2>4, <3>3 DEF Removes
    <3> QED BY <1>3, <2>1, <2>4, <3>2, <3>3, <3>4
  <2>5. CASE ~ (r.op = "publish" /\ r.found # {})
    <3>1. req' = [req EXCEPT ![c] = Idle]
      BY <1>2, <1>17, <2>5 DEF Gathered
    <3>2. req'[c] = Idle
      BY <3>1 DEF TypeInv, RequestsOK
    <3>3. IsWhole(story', docs', files')
      BY <2>1, <2>2, <2>3 DEF IsWhole
    <3> QED BY <1>1, <2>1, <3>2, <3>3, LoneEnds
  <2> QED BY <2>4, <2>5
<1>18. ~ (Siblings(c) \/ QueryPage(c) \/ MoveDrop(c) \/ MoveCreate(c) \/ ReadFiles(c))
  BY <1>4 DEF Siblings, QueryPage, MoveDrop, MoveCreate, ReadFiles
<1>19. ~ \E name \in r.todo.erase : CallErase(c, name)
  BY <1>4
<1> QED
  BY <1>6, <1>7, <1>8, <1>9, <1>10, <1>13, <1>14, <1>15, <1>16, <1>17, <1>18, <1>19 DEF Step

\* A client that asks for nothing does nothing.
LEMMA IdleStays ==
  ASSUME NEW o \in Client, req[o] = Idle PROVE ~ Step(o)
<1>1. req[o].at = "idle" /\ req[o].todo = NoCall
  BY IdleIs
<1>2. /\ req[o].todo.post = {} /\ req[o].todo.drop = {} /\ req[o].todo.write = {}
      /\ req[o].todo.erase = {} /\ req[o].todo.rest = {}
  BY <1>1, NoCallIs
<1> QED
  BY <1>1, <1>2 DEF Step, Siblings, QueryPage, MoveDrop, MoveCreate, QueryStory, GetStory,
     ListChildren, QuerySelf, ReadFiles, Recreate, Gathered

\* The request that destroys, alone, goes on or ends with a whole story.
LEMMA LoneStep ==
  ASSUME TypeInv, PostedInv, PlaceInv, lapses = {}, lapses' = {}, NEW c \in Client, Lone(c),
         NEW o \in Client, Step(o)
  PROVE  (Lone(c)' \/ Growing') /\ zip' = zip
<1>1. o = c
  BY IdleStays DEF Lone
<1>2. Step(c)
  BY <1>1
<1>3. req[c].op \in {"move", "deletePage", "deleteStory", "publish"} /\ req[c].at # "read"
  BY DEF Lone, Destroys, Relocates, Deletes, Removes
<1>4. ~ ReadFiles(c)
  BY <1>3 DEF ReadFiles
<1>5. zip' = zip
  BY <1>2, <1>4 DEF Step, Siblings, QueryPage, MoveDrop, MoveCreate, QueryStory, GetStory,
     ListChildren, QuerySelf, Recreate, CallPost, CallDrop, CallWrite, CallErase, CallStory, Gathered
<1>6. CASE req[c].op = "move"
  BY <1>2, <1>5, <1>6, LoneMove
<1>7. CASE req[c].op = "deletePage"
  BY <1>2, <1>5, <1>7, LoneDeletePage
<1>8. CASE req[c].op \in {"deleteStory", "publish"}
  BY <1>2, <1>5, <1>8, LoneRemoves
<1> QED BY <1>3, <1>6, <1>7, <1>8

LEMMA WholeIs ==
  WholeInv <=> (lapses = {} => /\ \A z \in zip : IsTree(z)
                               /\ Growing \/ \E c \in Client : Lone(c))
  BY DEF WholeInv, Lone

LEMMA WholeInit == Init => WholeInv
<1> SUFFICES ASSUME Init PROVE WholeInv
  OBVIOUS
<1>1. /\ \A c \in Client : req[c] = Idle
      /\ docs = {} /\ files = {} /\ zip = {} /\ story = FALSE
  BY DEF Init
<1>2. Posts = docs /\ Writes = files /\ (Begun <=> story)
  BY <1>1, AllOver
<1>3. IsWhole(Begun, Posts, Writes)
  BY <1>1, <1>2 DEF IsWhole
<1>4. \A c \in Client : req[c].at = "idle" /\ req[c].op = "none" /\ req[c].todo = NoCall
  BY <1>1, IdleIs
<1>5. Fresh
  BY <1>4 DEF Fresh
<1>6. \A c \in Client : Grows(req[c], docs)
  BY <1>1, <1>4, NoCallIs DEF Grows
<1> QED BY <1>1, <1>3, <1>5, <1>6 DEF WholeInv, Growing

LEMMA LapsesGrow ==
  ASSUME [Next]_vars, lapses' = {} PROVE lapses = {}
<1>1. ASSUME NEW c \in Client, Request(c) PROVE lapses \subseteq lapses'
  BY <1>1 DEF Request, PutStory, PutPage, Rename, Move, DeletePage, DeleteStory, DownloadZip,
     Publish, Begin
<1>2. ASSUME NEW c \in Client, Step(c) PROVE lapses \subseteq lapses'
  BY <1>2 DEF Step, Siblings, QueryPage, MoveDrop, MoveCreate, QueryStory, GetStory, ListChildren,
     QuerySelf, ReadFiles, Recreate, CallPost, CallDrop, CallWrite, CallErase, CallStory, Gathered
<1> QED BY <1>1, <1>2 DEF Next, vars

LEMMA WholeSame == ASSUME UNCHANGED vars, WholeInv PROVE WholeInv'
<1>1. (\A z \in zip : IsTree(z)) => \A z \in zip' : IsTree(z)
  BY DEF vars
<1>2. Begun' = Begun /\ Posts' = Posts /\ Writes' = Writes
  BY DEF vars, Begun, Posts, Writes
<1>3. Growing => Growing'
  BY <1>2 DEF vars, Growing, Fresh
<1>4. ASSUME NEW c \in Client, Lone(c) PROVE Lone(c)'
  BY <1>4 DEF vars, Lone
<1>5. lapses' = lapses
  BY DEF vars
<1>6. WholeInv' <=> (lapses' = {} => /\ \A z \in zip' : IsTree(z)
                                     /\ Growing' \/ \E c \in Client : Lone(c)')
  BY DEF WholeInv, Lone
<1> QED BY <1>1, <1>3, <1>4, <1>5, <1>6, WholeIs

LEMMA WholeStep ==
  TypeInv /\ PostedInv /\ PlaceInv /\ WholeInv /\ [Next]_vars => WholeInv'
<1> SUFFICES ASSUME TypeInv, PostedInv, PlaceInv, WholeInv, [Next]_vars, lapses' = {}
             PROVE  (\A z \in zip' : IsTree(z)) /\ (Growing' \/ \E c \in Client : Lone(c)')
  BY DEF WholeInv, Lone
<1>1. lapses = {}
  BY LapsesGrow
<1>2. /\ \A z \in zip : IsTree(z)
      /\ Growing \/ \E c \in Client : Lone(c)
  BY <1>1, WholeIs
<1>3. CASE UNCHANGED vars
  <2>1. WholeInv'
    BY <1>3, WholeSame
  <2> QED BY <2>1 DEF WholeInv, Lone
<1>4. ASSUME NEW o \in Client, Request(o)
      PROVE  (\A z \in zip' : IsTree(z)) /\ (Growing' \/ \E c \in Client : Lone(c)')
  <2>1. PICK r : Begin(o, r)
    BY <1>4, RequestStep
  <2>2. zip' = zip
    BY <2>1 DEF Begin
  <2>3. Growing
    BY <1>2, <2>1, LoneRequest
  <2> QED BY <1>2, <1>4, <2>2, <2>3, GrowingRequest
<1>5. ASSUME NEW o \in Client, Step(o)
      PROVE  (\A z \in zip' : IsTree(z)) /\ (Growing' \/ \E c \in Client : Lone(c)')
  <2>1. CASE Growing
    BY <1>1, <1>2, <1>5, <2>1, GrowingStep
  <2>2. ASSUME NEW c \in Client, Lone(c)
        PROVE  (\A z \in zip' : IsTree(z)) /\ (Growing' \/ \E d \in Client : Lone(d)')
    BY <1>1, <1>2, <1>5, <2>2, LoneStep
  <2> QED BY <1>2, <2>1, <2>2
<1> QED BY <1>3, <1>4, <1>5 DEF Next

-----------------------------------------------------------------------------
(* What this makes of a story *)

LEMMA OnePerId ==
  ASSUME NEW D, IsFiniteSet(D), \A d, e \in D : d.id = e.id => d = e
  PROVE  Cardinality({d.id : d \in D}) = Cardinality(D)
<1> DEFINE S == {d.id : d \in D}
           f == [d \in D |-> d.id]
<1>1. f \in Surjection(D, S)
  BY DEF Surjection
<1>2. f \in Injection(D, S)
  BY DEF Injection, IsInjective
<1> QED BY <1>1, <1>2, FS_Surjection

LEMMA WholeStory == TypeInv /\ WholeInv => StoryIsWhole
<1> SUFFICES ASSUME TypeInv, WholeInv, Quiet, lapses = {} PROVE StoryIsWhole
  BY DEF StoryIsWhole
<1>1. \A c \in Client : req[c] = Idle
  BY DEF Quiet
<1>2. Growing
  <2>1. ASSUME NEW c \in Client PROVE ~ Lone(c)
    BY <1>1, IdleIs DEF Lone, Destroys
  <2> QED BY <2>1, WholeIs
<1>3. IsWhole(Begun, Posts, Writes) /\ Posts = docs /\ Writes = files /\ (Begun <=> story)
  BY <1>1, <1>2, AllOver DEF Growing
<1>4. \A d, e \in docs : d.id = e.id => d = e
  BY <1>3 DEF IsWhole, IsTree
<1>5. Cardinality({d.id : d \in docs}) = Cardinality(docs)
  BY <1>4, OnePerId DEF TypeInv, DocsOK
<1>6. ~ story => docs = {} /\ files = {}
  BY <1>3 DEF IsWhole
<1>7. ASSUME story
      PROVE  /\ {d \in docs : d.parent = Story} = {d \in docs : d.id = Root}
             /\ \A d \in docs : Descends(d.id, Root)
             /\ files = {d.id : d \in docs} \cup Extra
  <2>1. IsTree(docs) /\ files = Contents(docs)
    BY <1>3, <1>7 DEF IsWhole
  <2>2. \A d \in docs : Descends(d.id, Root)
    BY <2>1 DEF IsTree, Closed, Descends
  <2> QED BY <2>1, <2>2 DEF IsTree, Contents
<1> QED BY <1>5, <1>6, <1>7 DEF StoryIsWhole

\* Only the end of its calls ends a request.
LEMMA GatheredEnds ==
  ASSUME TypeInv, NEW c \in Client, Step(c), req[c].op # "none", req'[c] = Idle
  PROVE  Gathered(c)
<1> DEFINE r == req[c]
<1>1. r \in Requests /\ req'[c].op = "none" /\ r.op # "none"
  BY IdleIs DEF TypeInv, RequestsOK
<1>2. ASSUME NEW todo \in Calls, NEW ok, req'[c] = Calling(r, todo, ok) PROVE FALSE
  BY <1>1, <1>2, RecordIs
<1>3. ASSUME NEW at, req'[c] = Going(r, at) PROVE FALSE
  BY <1>1, <1>3, RecordIs
<1>4. ASSUME NEW todo, req'[c] = Gathering(r, todo) PROVE FALSE
  BY <1>1, <1>4, RecordIs
<1>5. req'[c] # Failing(r)
  BY <1>1, RecordIs
<1>6. ~ (Siblings(c) \/ QueryPage(c) \/ MoveDrop(c) \/ MoveCreate(c) \/ QueryStory(c))
  <2>1. ~ (QueryPage(c) \/ MoveDrop(c) \/ MoveCreate(c) \/ QueryStory(c))
    BY <1>1 DEF TypeInv, RequestsOK, Requests, QueryPage, MoveDrop, MoveCreate, QueryStory,
       Goto, Gather, Fail
  <2>2. Siblings(c) => req'[c].op = "put"
    BY SiblingsStep, Zenon
  <2> QED BY <1>1, <2>1, <2>2
<1>7. ~ GetStory(c)
  <2> SUFFICES ASSUME NEW page \in Id, NEW frontier \in SUBSET Id,
                      req'[c] = [r EXCEPT !.at = "list", !.frontier = frontier, !.page = page,
                                          !.todo.rest = {"delete", "deleteGroup"}]
               PROVE  FALSE
    BY <1>5, GetStoryStep, Zenon
  <2> QED BY <1>1 DEF Requests
<1>8. ASSUME NEW parent \in r.frontier, ListChildren(c, parent) PROVE FALSE
  <2>1. CASE req'[c] = [Failing(r) EXCEPT !.frontier = {}]
    BY <1>1, <2>1 DEF Requests, Failing
  <2>2. ASSUME NEW some \in SUBSET docs, NEW frontier \in SUBSET Id,
               req'[c] = [r EXCEPT !.found = @ \cup some, !.frontier = frontier]
        PROVE  FALSE
    BY <1>1, <2>2 DEF Requests
  <2> QED BY <1>8, <2>1, <2>2, ListChildrenStep
<1>9. ~ QuerySelf(c)
  <2>1. ASSUME NEW all, req'[c] = [r EXCEPT !.at = "read", !.found = all] PROVE FALSE
    BY <1>1, <2>1 DEF Requests
  <2>2. ASSUME NEW all, req'[c] = [r EXCEPT !.at = "gather", !.found = all, !.todo.drop = all]
        PROVE  FALSE
    BY <1>1, <2>2 DEF Requests
  <2> QED BY <1>5, <2>1, <2>2, QuerySelfStep
<1>10. ~ (ReadFiles(c) \/ Recreate(c))
  BY <1>3, <1>4, <1>5, ReadFilesStep, RecreateStep
<1>11. /\ ~ \E d \in r.todo.post : CallPost(c, d)
       /\ ~ \E d \in r.todo.drop : CallDrop(c, d)
  BY <1>2, CallPostStep, CallDropStep
<1>12. /\ ~ \E name \in r.todo.write : CallWrite(c, name)
       /\ ~ \E name \in r.todo.erase : CallErase(c, name)
       /\ ~ \E what \in r.todo.rest : CallStory(c, what)
  BY <1>2, BesidesStep DEF Besides
<1> QED BY <1>6, <1>7, <1>8, <1>9, <1>10, <1>11, <1>12 DEF Step

\* A publication ends once its calls have been made.
LEMMA PublicationEnds ==
  ASSUME TypeInv, PostedInv, Next, NEW c \in Client,
         req[c].op = "publish", req[c].ok, req'[c] = Idle
  PROVE  req[c].at = "gather" /\ req[c].todo = NoCall /\ req[c].found = {}
<1>1. PICK o \in Client : Request(o) \/ Step(o)
  BY DEF Next
<1>2. ~ Request(o)
  <2> SUFFICES ASSUME Request(o) PROVE FALSE
    OBVIOUS
  <2>1. PICK r : RequestOK(r) /\ Begin(o, r)
    BY RequestStep
  <2>2. Only(o) /\ req[o] = Idle
    BY <2>1, BeginStep
  <2>3. o # c
    BY <2>2, IdleIs
  <2>4. req'[c] = req[c]
    BY <2>2, <2>3 DEF Only
  <2> QED BY <2>4, IdleIs
<1>3. o = c
  <2> SUFFICES ASSUME o # c PROVE FALSE
    OBVIOUS
  <2>1. Only(o)
    BY <1>1, <1>2, StepAdvances DEF Advances
  <2>2. req'[c] = req[c]
    BY <2>1 DEF Only
  <2> QED BY <2>2, IdleIs
<1>4. Gathered(c)
  BY <1>1, <1>2, <1>3, GatheredEnds
<1>5. req[c].found = {}
  <2> SUFFICES ASSUME req[c].found # {} PROVE FALSE
    OBVIOUS
  <2>1. req' = [req EXCEPT ![c].at = "recreate", ![c].found = {}]
    BY <1>4 DEF Gathered
  <2>2. req'[c].at = "recreate"
    BY <2>1 DEF TypeInv, RequestsOK, Requests
  <2> QED BY <2>2, IdleIs
<1> QED BY <1>4, <1>5 DEF Gathered

-----------------------------------------------------------------------------
(* What a publication brings back, whatever there was before *)

\* A publication that has dropped what it found, and is to write what the zip file has.
Recreates(r) == r.op = "publish" /\ r.at = "gather" /\ r.ok /\ r.found = {}

\* All of the zip file is in the tables or about to be written, and nothing is to be dropped.
Back(r, s, D, F) ==
  /\ s \/ "create" \in r.todo.rest
  /\ r.read \subseteq D \cup r.todo.post /\ Contents(r.read) \subseteq F \cup r.todo.write
  /\ r.todo.post \subseteq r.read /\ r.todo.drop = {} /\ r.todo.erase = {}
  /\ r.todo.rest \subseteq {"create"}

Apart == {"overlap", "taken"} \cap lapses = {}

\* A request that publishes is alone.
Backs(c) ==
  req[c].op = "publish" =>
    /\ \A o \in Client \ {c} : req[o].op = "none"
    /\ Recreates(req[c]) => Back(req[c], story, docs, files)

BackInv ==
  /\ \A c \in Client : /\ req[c].at = "read" => req[c].op = "zip"
                       /\ req[c].op = "none" => req[c] = Idle
  /\ Apart => \A c \in Client : Backs(c)

LEMMA BackInit == Init => BackInv
  BY IdleIs DEF Init, BackInv, Backs

LEMMA StepLapses ==
  ASSUME NEW c \in Client, Step(c) PROVE lapses \subseteq lapses'
<1>1. ASSUME NEW parent \in req[c].frontier, ListChildren(c, parent) PROVE lapses \subseteq lapses'
  BY <1>1 DEF ListChildren
<1>2. CASE ~ \E parent \in req[c].frontier : ListChildren(c, parent)
  BY <1>2, Zenon DEF Step, Siblings, QueryPage, MoveDrop, MoveCreate, QueryStory, GetStory, QuerySelf,
     ReadFiles, Recreate, CallPost, CallDrop, CallWrite, CallErase, CallStory, Gathered
<1> QED BY <1>1, <1>2

\* A request begins beside a publication, or publishes beside another one, only by a lapse.
LEMMA BeginBack ==
  ASSUME TypeInv, BackInv, NEW c \in Client, NEW r, RequestOK(r), Begin(c, r),
         r = Storing \/ Moved(r) \/ Reads(r)
  PROVE  BackInv'
<1>1. Only(c) /\ req'[c] = r /\ req[c] = Idle
  BY BeginStep
<1>2. r.op \in Op /\ r.op # "none" /\ UNCHANGED <<story, docs, files>>
  BY StoriesAssumption DEF Begin
<1>3. r.at # "read" /\ (r.op = "publish" => r.at # "gather")
  <2>1. CASE r = Storing
    BY <2>1, StoringIs
  <2>2. ASSUME NEW d \in docs, NEW parent \in Id, NEW n \in Int, NEW of, r = Moving(d, parent, n, of)
        PROVE  r.at = "page"
    BY <2>2, MovingIs
  <2>3. Moved(r) => r.at = "page"
    BY <2>2 DEF Moved
  <2> QED BY <2>1, <2>3 DEF Reads
<1>4. \A o \in Client : o # c => req'[o] = req[o]
  BY <1>1 DEF Only
<1>5. \A o \in Client : /\ req'[o].at = "read" => req'[o].op = "zip"
                        /\ req'[o].op = "none" => req'[o] = Idle
  BY <1>1, <1>2, <1>3, <1>4 DEF BackInv
<1>6. ASSUME Apart', NEW o \in Client, req'[o].op = "publish"
      PROVE  /\ \A p \in Client \ {o} : req'[p].op = "none"
             /\ Recreates(req'[o]) => Back(req'[o], story', docs', files')
  <2>1. Apart /\ "overlap" \notin Lapses(c, r)
    BY <1>6 DEF Apart, Begin
  <2>2. \A p \in Client \ {c} : req[p].op # "none" => {r.op, req[p].op} \cap Destructive = {}
    BY <2>1 DEF Lapses
  <2>3. CASE o = c
    <3>1. \A p \in Client \ {c} : req[p].op = "none"
      BY <1>1, <1>6, <2>2, <2>3 DEF Destructive
    <3>2. ~ Recreates(req'[c])
      BY <1>1, <1>3 DEF Recreates
    <3> QED BY <1>4, <2>3, <3>1, <3>2
  <2>4. CASE o # c
    <3>1. req[o].op = "publish"
      BY <1>4, <1>6, <2>4
    <3> QED BY <2>2, <2>4, <3>1 DEF Destructive
  <2> QED BY <2>3, <2>4
<1> QED BY <1>5, <1>6 DEF BackInv, Backs, Recreates, Back, Apart

\* A request that goes on is the same, and comes to read files if it zips.
Goes(r, s) == s = Idle \/ (s.op = r.op /\ (s.at = "read" => r.op = "zip"))

LEMMA GoesIs ==
  ASSUME NEW r \in Requests, r.at = "read" => r.op = "zip"
  PROVE  /\ Goes(r, Idle) /\ Goes(r, Failing(r)) /\ Goes(r, [Failing(r) EXCEPT !.frontier = {}])
         /\ Goes(r, Going(r, "create")) /\ Goes(r, Going(r, "gather"))
         /\ Goes(r, Going(r, "story")) /\ Goes(r, Going(r, "recreate"))
         /\ \A todo : Goes(r, Gathering(r, todo))
         /\ \A todo, ok : Goes(r, Calling(r, todo, ok))
<1>1. /\ Goes(r, Going(r, "create")) /\ Goes(r, Going(r, "gather"))
      /\ Goes(r, Going(r, "story")) /\ Goes(r, Going(r, "recreate"))
  BY DEF Goes, Going, Requests
<1>2. ASSUME NEW todo PROVE Goes(r, Gathering(r, todo))
  BY DEF Goes, Gathering, Requests
<1>3. ASSUME NEW todo, NEW ok PROVE Goes(r, Calling(r, todo, ok))
  BY DEF Goes, Calling, Requests
<1>4. Goes(r, Idle) /\ Goes(r, Failing(r)) /\ Goes(r, [Failing(r) EXCEPT !.frontier = {}])
  BY DEF Goes, Failing, Requests
<1> QED BY <1>1, <1>2, <1>3, <1>4

QuerySelfIs(c) ==
  \/ Fail(c)
  \/ \E all : req[c].op = "zip" /\ req' = [req EXCEPT ![c].at = "read", ![c].found = all]
  \/ \E all : req' = [req EXCEPT ![c].at = "gather", ![c].found = all, ![c].todo.drop = all]

LEMMA GoesOn ==
  ASSUME TypeInv, PostedInv, BackInv, NEW c \in Client, Step(c)
  PROVE  Only(c) /\ Goes(req[c], req'[c])
<1> DEFINE r == req[c]
           s == req'[c]
<1>1. r \in Requests /\ (r.at = "read" => r.op = "zip")
  BY DEF TypeInv, RequestsOK, BackInv
<1>2. ASSUME NEW at, s.op = r.op, s.at = at, at # "read" PROVE Goes(r, s)
  BY <1>2 DEF Goes
<1>3. CASE Siblings(c)
  <2>1. PICK todo : s = [r EXCEPT !.at = "gather", !.todo = todo]
    BY <1>3, SiblingsStep, Zenon
  <2>2. s.op = r.op /\ s.at = "gather"
    BY <1>1, <2>1 DEF Requests
  <2> QED BY Zenon, <1>2, <1>3, <2>2, SiblingsStep
<1>4. CASE QueryPage(c)
  <2>1. ASSUME NEW d, s = [r EXCEPT !.at = "drop", !.read = {d}] PROVE Goes(r, s)
    BY <1>1, <2>1 DEF Requests, Goes
  <2>2. \/ s = Failing(r) \/ \E todo : s = Gathering(r, todo)
        \/ \E d : s = [r EXCEPT !.at = "drop", !.read = {d}]
    BY <1>4, QueryPageStep, Zenon
  <2>3. Goes(r, s)
    BY Zenon, <1>1, <2>1, <2>2, GoesIs
  <2> QED BY Zenon, <1>4, <2>3, QueryPageStep
<1>5. CASE MoveDrop(c) \/ MoveCreate(c)
  <2>1. Only(c) /\ (s = Going(r, "create") \/ s = Going(r, "gather"))
    BY <1>5, MoveDropStep, MoveCreateStep, Zenon
  <2>2. Goes(r, s)
    BY <1>1, <2>1, GoesIs, Zenon
  <2> QED BY <2>1, <2>2
<1>6. CASE QueryStory(c)
  <2>1. ASSUME s = [r EXCEPT !.at = "list", !.frontier = {Root}] PROVE Goes(r, s)
    BY <1>1, <2>1 DEF Requests, Goes
  <2>2. /\ Only(c)
        /\ \/ s = Failing(r) \/ s = Going(r, "story") \/ s = Going(r, "recreate")
           \/ s = [r EXCEPT !.at = "list", !.frontier = {Root}]
    BY <1>6, QueryStoryStep, Zenon
  <2>3. Goes(r, s)
    BY <1>1, <2>1, <2>2, GoesIs, Zenon
  <2> QED BY <2>2, <2>3
<1>7. CASE GetStory(c)
  <2>1. ASSUME NEW page, NEW frontier,
               s = [r EXCEPT !.at = "list", !.frontier = frontier, !.page = page,
                             !.todo.rest = {"delete", "deleteGroup"}]
        PROVE  Goes(r, s)
    BY <1>1, <2>1 DEF Requests, Goes
  <2>2. \/ s = Failing(r)
        \/ \E page, frontier :
             s = [r EXCEPT !.at = "list", !.frontier = frontier, !.page = page,
                           !.todo.rest = {"delete", "deleteGroup"}]
    BY <1>7, GetStoryStep, Zenon
  <2>3. Goes(r, s)
    BY Zenon, <1>1, <2>1, <2>2, GoesIs
  <2> QED BY Zenon, <1>7, <2>3, GetStoryStep
<1>8. ASSUME NEW parent \in r.frontier, ListChildren(c, parent) PROVE Only(c) /\ Goes(r, s)
  <2>1. s.op = r.op /\ s.at # "read"
    BY <1>1, <1>8 DEF ListChildren, TypeInv, RequestsOK, Requests
  <2>2. Only(c)
    BY StepAdvances DEF Advances
  <2> QED BY <2>1, <2>2 DEF Goes
<1>9. CASE QuerySelf(c)
  <2>1. ASSUME NEW all, r.op = "zip", s = [r EXCEPT !.at = "read", !.found = all] PROVE Goes(r, s)
    BY <1>1, <2>1 DEF Requests, Goes
  <2>2. ASSUME NEW all, s = [r EXCEPT !.at = "gather", !.found = all, !.todo.drop = all]
        PROVE  Goes(r, s)
    BY <1>1, <2>2 DEF Requests, Goes
  <2>3. QuerySelfIs(c)
    BY <1>9, Zenon DEF QuerySelf, QuerySelfIs
  <2>4. Only(c)
    BY Zenon, <1>9, QuerySelfStep
  <2>5. ASSUME NEW all, r.op = "zip", req' = [req EXCEPT ![c].at = "read", ![c].found = all]
        PROVE  Goes(r, s)
    <3>1. s = [r EXCEPT !.at = "read", !.found = all]
      BY <2>5 DEF TypeInv, RequestsOK
    <3> QED BY Zenon, <2>1, <2>5, <3>1
  <2>6. ASSUME NEW all, req' = [req EXCEPT ![c].at = "gather", ![c].found = all, ![c].todo.drop = all]
        PROVE  Goes(r, s)
    <3>1. s = [r EXCEPT !.at = "gather", !.found = all, !.todo.drop = all]
      BY <2>6 DEF TypeInv, RequestsOK
    <3> QED BY Zenon, <2>2, <3>1
  <2>7. Fail(c) => Goes(r, s)
    BY <1>1, FailStep, GoesIs
  <2> HIDE DEF r, s
  <2> QED BY <2>3, <2>4, <2>5, <2>6, <2>7, Zenon DEF QuerySelfIs, r, s
<1>10. CASE ReadFiles(c) \/ Recreate(c)
  <2>1. s = Failing(r) \/ s = Going(r, "gather") \/ \E todo : s = Gathering(r, todo)
    BY <1>10, ReadFilesStep, RecreateStep, Zenon
  <2> QED BY Zenon, <1>1, <1>10, <2>1, ReadFilesStep, RecreateStep, GoesIs
<1>11. CASE Gathered(c)
  <2>1. ASSUME s = [r EXCEPT !.at = "recreate", !.found = {}] PROVE Goes(r, s)
    BY <1>1, <2>1 DEF Requests, Goes
  <2>2. ASSUME NEW todo, s = [r EXCEPT !.todo = todo, !.found = {}] PROVE Goes(r, s)
    BY <1>1, <2>2 DEF Requests, Goes
  <2>3. \/ s = Idle \/ s = [r EXCEPT !.at = "recreate", !.found = {}]
        \/ \E todo : s = [r EXCEPT !.todo = todo, !.found = {}]
    BY <1>11, GatheredStep, Zenon
  <2>4. Goes(r, s)
    BY Zenon, <1>1, <2>1, <2>2, <2>3, GoesIs
  <2> QED BY Zenon, <1>11, <2>4, GatheredStep
<1>12. ASSUME NEW d \in r.todo.post, CallPost(c, d) PROVE Only(c) /\ Goes(r, s)
  <2>1. s.op = r.op /\ s.at = r.at
    BY <1>1, <1>12 DEF CallPost, TypeInv, RequestsOK, Requests
  <2> QED BY <1>1, <1>12, <2>1, CallPostStep DEF Goes
<1>13. ASSUME NEW d \in r.todo.drop, CallDrop(c, d) PROVE Only(c) /\ Goes(r, s)
  <2>1. s.op = r.op /\ s.at = r.at
    BY <1>1, <1>13 DEF CallDrop, TypeInv, RequestsOK, Requests
  <2> QED BY <1>1, <1>13, <2>1, CallDropStep DEF Goes
<1>14. CASE Besides(c)
  <2>1. ASSUME NEW name, CallWrite(c, name) PROVE s.op = r.op /\ s.at = r.at
    BY <1>1, <2>1 DEF CallWrite, TypeInv, RequestsOK, Requests
  <2>2. ASSUME NEW name, CallErase(c, name) PROVE s.op = r.op /\ s.at = r.at
    BY <1>1, <2>2 DEF CallErase, TypeInv, RequestsOK, Requests
  <2>3. ASSUME NEW what, CallStory(c, what) PROVE s.op = r.op /\ s.at = r.at
    BY <1>1, <2>3 DEF CallStory, TypeInv, RequestsOK, Requests
  <2>4. s.op = r.op /\ s.at = r.at
    BY <1>14, <2>1, <2>2, <2>3, Zenon DEF Besides
  <2> QED BY <1>1, <1>14, <2>4, BesidesStep DEF Goes
<1> QED
  BY <1>3, <1>4, <1>5, <1>6, <1>7, <1>8, <1>9, <1>10, <1>11, <1>12, <1>13, <1>14 DEF Step, Besides

\* A publication comes to write the zip file with all of it to write, and what it has
\* written stays.
LEMMA WritesBack ==
  ASSUME TypeInv, PostedInv, PlaceInv, BackInv, Apart, NEW c \in Client, Step(c),
         req[c].op = "publish", Recreates(req'[c])
  PROVE  Back(req'[c], story', docs', files')
<1> DEFINE r == req[c]
           s == req'[c]
<1>1. /\ r \in Requests /\ r.todo \in Calls /\ Fits(r) /\ r.op = "publish" /\ r.at # "read"
      /\ s.op = "publish" /\ s.at = "gather" /\ s.ok /\ s.found = {}
  BY DEF TypeInv, RequestsOK, Requests, BackInv, Recreates
<1>2. Recreates(r) => Back(r, story, docs, files)
  BY DEF BackInv, Backs
<1>3. ~ (Siblings(c) \/ QueryPage(c) \/ MoveDrop(c) \/ MoveCreate(c) \/ ReadFiles(c))
  <2>1. r.at \notin {"siblings", "page", "drop", "create", "read"}
    BY <1>1 DEF Fits
  <2>2. /\ Siblings(c) => r.at = "siblings"
        /\ QueryPage(c) => r.at = "page"
        /\ MoveDrop(c) => r.at = "drop"
        /\ MoveCreate(c) => r.at = "create"
        /\ ReadFiles(c) => r.at = "read"
    BY Zenon DEF Siblings, QueryPage, MoveDrop, MoveCreate, ReadFiles
  <2> QED BY <2>1, <2>2
<1>4. ~ Fail(c)
  BY <1>1 DEF Fail, TypeInv, RequestsOK, Requests
<1>5. ~ QueryStory(c)
  <2>1. ~ Goto(c, "story") /\ ~ Goto(c, "recreate")
    BY <1>1 DEF Goto, TypeInv, RequestsOK, Requests
  <2> QED BY <1>1, <1>4, <2>1 DEF QueryStory
<1>6. ~ GetStory(c)
  <2> DEFINE roots == {d \in docs : d.parent = Story}
             frontier == {d.id : d \in roots}
             page == (CHOOSE d \in roots : TRUE).id
  <2> SUFFICES ASSUME GetStory(c) PROVE FALSE
    OBVIOUS
  <2>1. req' = [req EXCEPT ![c].at = "list", ![c].frontier = frontier, ![c].page = page,
                           ![c].todo.rest = {"delete", "deleteGroup"}]
    BY <1>4, Zenon DEF GetStory
  <2> HIDE DEF frontier, page
  <2> QED BY <1>1, <2>1 DEF TypeInv, RequestsOK, Requests
<1>7. ASSUME NEW parent \in r.frontier, ListChildren(c, parent) PROVE FALSE
  BY <1>1, <1>7 DEF ListChildren, TypeInv, RequestsOK, Requests
<1>8. ~ QuerySelf(c)
  <2>1. ASSUME NEW d, NEW all, all = r.found \cup {d},
               req' = [req EXCEPT ![c].at = "gather", ![c].found = all, ![c].todo.drop = all]
        PROVE  FALSE
    <3>1. s.found = all
      BY <2>1 DEF TypeInv, RequestsOK, Requests
    <3> QED BY <1>1, <2>1, <3>1
  <2>2. r.op # "zip"
    BY <1>1
  <2> QED BY <1>4, <2>1, <2>2, Zenon DEF QuerySelf
<1>9. CASE Recreate(c)
  <2> DEFINE todo == [NoCall EXCEPT !.post = r.read, !.write = Contents(r.read), !.rest = {"create"}]
  <2>1. Gather(c, todo)
    BY <1>9 DEF Recreate
  <2>2. /\ todo.post = r.read /\ todo.write = Contents(r.read) /\ todo.rest = {"create"}
        /\ todo.drop = {} /\ todo.erase = {}
    BY DEF NoCall
  <2> HIDE DEF todo
  <2>3. s.todo = todo /\ s.read = r.read
    BY <2>1 DEF Gather, TypeInv, RequestsOK, Requests
  <2> QED BY <2>2, <2>3 DEF Back
<1>10. ASSUME NEW d \in r.todo.post, CallPost(c, d) PROVE Back(s, story', docs', files')
  <2>1. /\ s.at = r.at /\ s.ok = r.ok /\ s.found = r.found /\ s.read = r.read
        /\ s.todo = [r.todo EXCEPT !.post = @ \ {d}]
    BY <1>1, <1>10 DEF CallPost, TypeInv, RequestsOK, Requests
  <2>2. Back(r, story, docs, files)
    BY <1>1, <1>2, <2>1 DEF Recreates
  <2>3. /\ s.todo.post = r.todo.post \ {d} /\ s.todo.drop = {} /\ s.todo.erase = {}
        /\ s.todo.write = r.todo.write /\ s.todo.rest = r.todo.rest
    BY <1>1, <2>1, <2>2 DEF Calls, Back
  <2>4. docs' = Post(d) /\ story' = story /\ files' = files
    BY <1>10 DEF CallPost
  <2>5. r.read \subseteq past.posted /\ d \in r.read /\ past.posted \subseteq Known
    BY <1>10, <2>2 DEF Back, PostedInv, Backed, Known
  <2>6. \A e \in r.read : SameKey(d, e) => e = d
    <3>1. \A e \in r.read : e \in Doc
      BY <1>1 DEF Requests
    <3>2. \A e \in r.read : SameKey(d, e) => e.id = d.id
      BY <2>5 DEF PlaceInv, Apart
    <3> QED BY <2>5, <3>1, <3>2 DEF SameKey, Doc
  <2>7. r.read \subseteq docs' \cup s.todo.post
    BY <2>2, <2>3, <2>4, <2>6 DEF Back, Post
  <2> QED BY <2>1, <2>2, <2>3, <2>4, <2>7 DEF Back
<1>11. ASSUME NEW d \in r.todo.drop, CallDrop(c, d) PROVE FALSE
  <2>1. s.at = r.at /\ s.ok = r.ok /\ s.found = r.found
    BY <1>1, <1>11 DEF CallDrop, TypeInv, RequestsOK, Requests
  <2> QED BY <1>1, <1>2, <1>11, <2>1 DEF Recreates, Back
<1>12. ASSUME NEW name \in r.todo.write, CallWrite(c, name) PROVE Back(s, story', docs', files')
  <2>1. /\ s.at = r.at /\ s.ok = r.ok /\ s.found = r.found /\ s.read = r.read
        /\ s.todo = [r.todo EXCEPT !.write = @ \ {name}]
    BY <1>1, <1>12 DEF CallWrite, TypeInv, RequestsOK, Requests
  <2>2. Back(r, story, docs, files)
    BY <1>1, <1>2, <2>1 DEF Recreates
  <2>3. /\ s.todo.post = r.todo.post /\ s.todo.drop = {} /\ s.todo.erase = {}
        /\ s.todo.write = r.todo.write \ {name} /\ s.todo.rest = r.todo.rest
    BY <1>1, <2>1, <2>2 DEF Calls, Back
  <2>4. docs' = docs /\ story' = story /\ files' = files \cup {name}
    BY <1>12 DEF CallWrite
  <2> QED BY <2>1, <2>2, <2>3, <2>4 DEF Back
<1>13. ASSUME NEW name \in r.todo.erase, CallErase(c, name) PROVE FALSE
  <2>1. s.at = r.at /\ (s.ok => r.ok) /\ s.found = r.found
    BY <1>1, <1>13 DEF CallErase, TypeInv, RequestsOK, Requests
  <2> QED BY <1>1, <1>2, <1>13, <2>1 DEF Recreates, Back
<1>14. ASSUME NEW what \in r.todo.rest, CallStory(c, what) PROVE Back(s, story', docs', files')
  <2>1. /\ s.at = r.at /\ s.ok = r.ok /\ s.found = r.found /\ s.read = r.read
        /\ s.todo = [r.todo EXCEPT !.rest = @ \ {what}]
    BY <1>1, <1>14 DEF CallStory, TypeInv, RequestsOK, Requests
  <2>2. Back(r, story, docs, files)
    BY <1>1, <1>2, <2>1 DEF Recreates
  <2>3. /\ s.todo.post = r.todo.post /\ s.todo.drop = {} /\ s.todo.erase = {}
        /\ s.todo.write = r.todo.write /\ s.todo.rest = r.todo.rest \ {what}
    BY <1>1, <2>1, <2>2 DEF Calls, Back
  <2>4. what = "create"
    BY <1>14, <2>2 DEF Back
  <2>5. docs' = docs /\ story' = TRUE /\ files' = files
    BY <1>14, <2>4 DEF CallStory
  <2> QED BY <2>1, <2>2, <2>3, <2>5 DEF Back
<1>15. ~ Gathered(c)
  <2>1. s = Idle => FALSE
    BY <1>1, IdleIs
  <2> QED BY <1>1, <2>1, IdleIs DEF Gathered, TypeInv, RequestsOK, Requests
<1> HIDE DEF s
<1> QED
  BY <1>3, <1>5, <1>6, <1>7, <1>8, <1>9, <1>10, <1>11, <1>12, <1>13, <1>14, <1>15 DEF Step, s

LEMMA BackStep ==
  TypeInv /\ PostedInv /\ PlaceInv /\ BackInv /\ [Next]_vars => BackInv'
<1> SUFFICES ASSUME TypeInv, PostedInv, PlaceInv, BackInv, [Next]_vars PROVE BackInv'
  OBVIOUS
<1>1. CASE UNCHANGED vars
  BY <1>1 DEF vars, BackInv, Backs, Recreates, Back, Apart
<1>2. ASSUME NEW c \in Client, Request(c) PROVE BackInv'
  BY <1>2, RequestStep, BeginBack
<1>3. ASSUME NEW c \in Client, Step(c) PROVE BackInv'
  <2>1. Only(c) /\ Goes(req[c], req'[c])
    BY <1>3, GoesOn
  <2>2. req[c] # Idle /\ req[c].op # "none"
    BY <1>3, IdleStays DEF BackInv
  <2>3. \A o \in Client : o # c => req'[o] = req[o]
    BY <2>1 DEF Only
  <2>4. \A o \in Client : /\ req'[o].at = "read" => req'[o].op = "zip"
                          /\ req'[o].op = "none" => req'[o] = Idle
    BY <2>1, <2>2, <2>3, IdleIs DEF BackInv, Goes
  <2>5. ASSUME Apart', NEW o \in Client, req'[o].op = "publish"
        PROVE  /\ \A p \in Client \ {o} : req'[p].op = "none"
               /\ Recreates(req'[o]) => Back(req'[o], story', docs', files')
    <3>1. Apart
      BY <1>3, <2>5, StepLapses DEF Apart
    <3>2. req[o].op = "publish"
      BY <2>1, <2>3, <2>5, IdleIs DEF Goes
    <3>3. \A p \in Client \ {o} : req[p].op = "none"
      BY <3>1, <3>2 DEF BackInv, Backs
    <3>4. o = c
      BY <2>2, <3>3
    <3> QED BY <1>3, <2>3, <3>1, <3>2, <3>3, <3>4, WritesBack
  <2> QED BY <2>4, <2>5 DEF BackInv, Backs, Recreates, Back, Apart
<1> QED BY <1>1, <1>2, <1>3 DEF Next

\* What a publication that ends gives back.
Restored(c) ==
  LET z == req[c].read
  IN  req[c].op = "publish" /\ req[c].ok /\ req'[c] = Idle =>
        /\ {"overlap", "taken"} \cap lapses = {} =>
             story /\ z \subseteq docs /\ {d.id : d \in z} \cup Extra \subseteq files
        /\ lapses = {} => docs = z /\ files = {d.id : d \in z} \cup Extra

LEMMA RestoresStep ==
  ASSUME TypeInv, PostedInv, WholeInv, BackInv, Next, NEW c \in Client
  PROVE  Restored(c)
<1> DEFINE z == req[c].read
<1> SUFFICES ASSUME req[c].op = "publish", req[c].ok, req'[c] = Idle
             PROVE  /\ Apart => story /\ z \subseteq docs /\ Contents(z) \subseteq files
                    /\ lapses = {} => docs = z /\ files = Contents(z)
  BY DEF Restored, Contents, Apart
<1>1. req[c].at = "gather" /\ req[c].todo = NoCall /\ req[c].found = {}
  BY PublicationEnds
<1>2. ASSUME Apart PROVE story /\ z \subseteq docs /\ Contents(z) \subseteq files
  <2>1. Back(req[c], story, docs, files)
    BY <1>1, <1>2 DEF BackInv, Backs, Recreates
  <2> QED BY <1>1, <2>1, NoCallIs DEF Back
<1>3. ASSUME lapses = {} PROVE docs = z /\ files = Contents(z)
  <2>1. ~ Growing
    BY DEF Growing, Grows
  <2>2. PICK l \in Client : Lone(l)
    BY <1>3, <2>1, WholeIs
  <2>3. l = c
    BY <2>2, IdleIs DEF Lone
  <2>4. Publishes(req[c], story, docs, files)
    BY <2>2, <2>3 DEF Lone, Destroys
  <2> QED BY <1>1, <2>4, NoCallIs DEF Publishes
<1> QED BY <1>2, <1>3

WholeIInv == TypeInv /\ PostedInv /\ PlaceInv /\ WholeInv /\ BackInv

LEMMA WholeAlways == Spec => []WholeIInv
<1>1. Init => WholeIInv
  BY TypeInit, PostedInit, PlaceInit, WholeInit, BackInit DEF WholeIInv
<1>2. WholeIInv /\ [Next]_vars => WholeIInv'
  BY TypeStep, PostedStep, PlaceStep, WholeStep, BackStep DEF WholeIInv
<1>3. QED BY <1>1, <1>2, PTL DEF Spec

\* In every behaviour, for any number of clients, pages and requests, in whichever order
\* their calls are made, until a lapse that StoryIsWhole names: when all requests have
\* ended the story has one document per page, all under the root, the contents of these
\* pages and no other; once deleted, with its children, nothing is left.
THEOREM StoriesStayWhole == Spec => []StoryIsWhole
<1>1. WholeIInv => StoryIsWhole
  BY WholeStory DEF WholeIInv
<1>2. QED BY <1>1, WholeAlways, PTL

\* In every behaviour where no request has overlapped with one that destroys and no two
\* pages have had one place, a publication that ends leaves in the story every page and
\* all the contents of the zip file, whatever was moved, deleted or left behind before; it
\* leaves these and nothing else when no lapse that StoryIsWhole names has ever happened.
THEOREM PublishedIsRestored == Spec => PublishRestores
<1> DEFINE Restores == \A c \in Client : Restored(c)
<1>1. WholeIInv /\ [Next]_vars => [Restores]_vars
  BY RestoresStep DEF WholeIInv
<1>2. Spec => [][Restores]_vars
  BY <1>1, WholeAlways, PTL DEF Spec
<1>3. QED BY <1>2 DEF PublishRestores, Restored
=================================================================================
