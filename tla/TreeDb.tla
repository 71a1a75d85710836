------------------------------- MODULE TreeDb -------------------------------
(***************************************************************************)
(* The explorer database of youwol/backends/tree_db: drives hold folders   *)
(* and items, folders hold folders and items, a deleted entity goes to the *)
(* trash of its drive until the drive is purged.                           *)
(*                                                                         *)
(* A handler is a sequence of awaited calls to four document tables.  Each *)
(* of these calls is one action: between two of them any other request may *)
(* run.  Queries gathered to find one parent, or the folders and the items *)
(* of one parent, or a move's target and destination, are one snapshot.    *)
(* A request refused by its first read (404) leaves no trace: not a step.  *)
(*                                                                         *)
(* Abstracted: names, kinds and metadata other than the borrowed flag; the *)
(* limits of 100 trash entries and 1000 children per query.  A document    *)
(* keeps its location (parent, drive), its group and the borrowed flag.    *)
(***************************************************************************)
EXTENDS FiniteSets

CONSTANTS
  Drive, Folder, Item,  \* the ids of the three kinds of entities
  Group,                \* the groups a drive may belong to
  FirstGroup,           \* the group each drive is in at start
  DriveGroups,          \* the groups the callers create each drive in
  Client,               \* requests served at the same time
  Ops,                  \* the operations the clients ask for
  Known,                \* ids chosen by the callers; the others are uuid4
  FirstDrives,          \* the drives there at start: what earlier runs left
  DefaultDrive,         \* the drive that get_default_drive ensures
  DefaultGroup,         \* the group it is created in
  DefaultParent,        \* its folders, each with the folder or drive it is in
  NoDoc, NoId

Container == Drive \cup Folder
Entity    == Folder \cup Item

OpNames == { "create_drive", "update_drive", "delete_drive", "create_folder",
             "create_item", "update", "borrow", "queue_delete", "erase",
             "move", "purge", "path", "default" }

ASSUME IdsAssumption ==
  /\ Drive \cap Folder = {} /\ Drive \cap Item = {} /\ Folder \cap Item = {}
  /\ NoId \notin Drive \cup Folder \cup Item
  /\ Known \subseteq Entity

ASSUME GroupAssumption ==
  /\ FirstGroup \in [Drive -> Group] /\ DriveGroups \in [Drive -> SUBSET Group]
  /\ DefaultGroup \in Group

ASSUME OpsAssumption == Ops \subseteq OpNames

ASSUME DefaultAssumption ==
  /\ DefaultDrive \in Drive /\ FirstDrives \subseteq Drive
  /\ DOMAIN DefaultParent \subseteq Folder
  /\ \A f \in DOMAIN DefaultParent : DefaultParent[f] \in Container

Doc == [parent : Container, drive : Drive, group : Group, borrowed : BOOLEAN]

ASSUME NoDocAssumption == NoDoc \notin Doc

VARIABLES
  drives,  \* drives_db: the drives that have a document
  group,   \* drives_db: the group in the last document of each drive
  live,    \* folders_db and items_db: the document of each entity, or NoDoc
  trash,   \* deleted_db: the document of each entity queued for deletion
  used,    \* the uuids drawn so far
  call,    \* what each client's request is doing
  regrouped  \* (ghost) the drives whose group changed while documents were filed in them

vars == <<drives, group, regrouped, live, trash, used, call>>

-----------------------------------------------------------------------------
(* Requests in progress *)

Steps == { "none", "post", "parent", "trash", "unlink", "place", "placeAll",
           "children", "next", "get", "gather", "delete", "clear", "drive",
           "climb", "mkdrive", "ensure", "ensureParent", "ensurePost" }

Doing(op, step, id, to, doc, todo, kill) ==
  [op |-> op, at |-> step, id |-> id, to |-> to, doc |-> doc, todo |-> todo, kill |-> kill]

Idle == Doing("none", "none", NoId, NoId, NoDoc, {}, {})

Call == [op   : OpNames \cup {"none"},
         at   : Steps,
         id   : Drive \cup Entity \cup {NoId},    \* the entity worked on
         to   : Drive \cup Entity \cup {NoId},    \* a parent or destination
         doc  : Doc \cup {NoDoc},                 \* a document read earlier
         todo : SUBSET (Entity \cup (Entity \X Folder)),
         kill : SUBSET Entity]                    \* documents to delete

\* The request of c goes on as r.
Becomes(c, r) == call' = [call EXCEPT ![c] = r]

Finish(c) == Becomes(c, Idle)

Goto(c, step) == Becomes(c, [call[c] EXCEPT !.at = step])

\* A request op arrives and the first step of its handler goes to `step`.
Arrive(c, op, step, id, to, doc) ==
  /\ call[c] = Idle
  /\ op \in Ops
  /\ Becomes(c, Doing(op, step, id, to, doc, {}, {}))

At(c, ops, step) == call[c].op \in ops /\ call[c].at = step

-----------------------------------------------------------------------------
(* Queries *)

IsLive(e)    == live[e] # NoDoc
IsTrashed(e) == trash[e] # NoDoc

\* get_parent, _get_entity with include_items=False: a drive or a live folder.
Exists(p) == p \in drives \/ (p \in Folder /\ IsLive(p))

DriveOf(p) == IF p \in Drive THEN p ELSE live[p].drive
GroupOf(p) == IF p \in Drive THEN group[p] ELSE live[p].group

\* Mutant of Under: the id of the parent taken for the id of its drive.
UnderParentAsDrive(p, borrowed) ==
  [parent |-> p, drive |-> p, group |-> GroupOf(p), borrowed |-> borrowed]

\* The document of an entity filed under the container p, as p is now.
Under(p, borrowed) == [parent |-> p, drive |-> DriveOf(p), group |-> GroupOf(p),
                       borrowed |-> borrowed]

Children(p) == {e \in Entity : IsLive(e) /\ live[e].parent = p}

\* list_deleted and the query on deleted_db
TrashOf(d) == {e \in Entity : IsTrashed(e) /\ trash[e].drive = d}

\* uuid4 never returns an id twice, a caller may choose one again.
Fresh(e) == e \in Known \/ e \notin used \cup DOMAIN DefaultParent

-----------------------------------------------------------------------------
(* Single document handlers: create, rename, borrow *)

\* Every document there is: stored, trashed, or read and about to be written. That of
\* a drive that is being renamed counts as one filed in it.
Documents == { live[e] : e \in Entity } \cup { trash[e] : e \in Entity }
             \cup { call[c].doc : c \in Client }

\* The document of a drive is written, in place of the one there is.
PostDrive(d, g) ==
  /\ drives' = drives \cup {d}
  /\ group' = [group EXCEPT ![d] = g]
  /\ regrouped' = IF g # group[d] /\ \E doc \in Documents \ {NoDoc} : doc.drive = d
                  THEN regrouped \cup {d} ELSE regrouped

\* The id and the group are the caller's.
CreateDrive(c, d, g) ==
  /\ call[c] = Idle /\ "create_drive" \in Ops
  /\ PostDrive(d, g)
  /\ UNCHANGED <<live, trash, used, call>>

\* The whole document read is written back.
UpdateDriveGet(c, d) ==
  /\ d \in drives
  /\ Arrive(c, "update_drive", "post", d, NoId, Under(d, FALSE))
  /\ UNCHANGED <<drives, group, regrouped, live, trash, used>>

UpdateDrivePost(c) ==
  /\ At(c, {"update_drive"}, "post")
  /\ PostDrive(call[c].id, call[c].doc.group)
  /\ Finish(c)
  /\ UNCHANGED <<live, trash, used>>

\* create_folder, _create_item: the parent is read, its drive and group kept.
CreateGetParent(c, e, p, borrowed) ==
  /\ Exists(p)
  /\ Fresh(e)
  /\ e \in Folder => ~borrowed
  /\ Arrive(c, IF e \in Folder THEN "create_folder" ELSE "create_item",
            "post", e, p, Under(p, borrowed))
  /\ used' = used \cup {e}
  /\ UNCHANGED <<drives, group, regrouped, live, trash>>

\* update_folder, update_item: the whole document read is written back.
UpdateGet(c, e) ==
  /\ IsLive(e)
  /\ Arrive(c, "update", "post", e, NoId, live[e])
  /\ UNCHANGED <<drives, group, regrouped, live, trash, used>>

\* borrow: the item is read, then its link is created like any other item.
BorrowGetItem(c, i, link, p) ==
  /\ IsLive(i) /\ Fresh(link)
  /\ Arrive(c, "borrow", "parent", link, p, NoDoc)
  /\ used' = used \cup {link}
  /\ UNCHANGED <<drives, group, regrouped, live, trash>>

BorrowGetParent(c) ==
  /\ At(c, {"borrow"}, "parent")
  /\ IF Exists(call[c].to)
       THEN Becomes(c, [call[c] EXCEPT !.doc = Under(call[c].to, TRUE), !.at = "post"])
       ELSE Finish(c)
  /\ UNCHANGED <<drives, group, regrouped, live, trash, used>>

Post(c) ==
  /\ At(c, {"create_folder", "create_item", "update", "borrow"}, "post")
  /\ live' = [live EXCEPT ![call[c].id] = call[c].doc]
  /\ Finish(c)
  /\ UNCHANGED <<drives, group, regrouped, trash, used>>

-----------------------------------------------------------------------------
(* Trash *)

\* Mutant of QueueDeleteGet: removed without being copied to the trash.
QueueDeleteUncopied(c, e) ==
  /\ IsLive(e)
  /\ Arrive(c, "queue_delete", "unlink", e, NoId, live[e])
  /\ UNCHANGED <<drives, group, regrouped, live, trash, used>>

\* queue_delete_folder, queue_delete_item: read, copied to the trash, removed.
QueueDeleteGet(c, e) ==
  /\ IsLive(e)
  /\ Arrive(c, "queue_delete", "trash", e, NoId, live[e])
  /\ UNCHANGED <<drives, group, regrouped, live, trash, used>>

\* Mutant of QueueDeletePost: only folders are copied.
QueueDeletePostFolders(c) ==
  /\ At(c, {"queue_delete"}, "trash")
  /\ trash' = IF call[c].id \in Folder THEN [trash EXCEPT ![call[c].id] = call[c].doc]
              ELSE trash
  /\ Goto(c, "unlink")
  /\ UNCHANGED <<drives, group, regrouped, live, used>>

QueueDeletePost(c) ==
  /\ At(c, {"queue_delete"}, "trash")
  /\ trash' = [trash EXCEPT ![call[c].id] = call[c].doc]
  /\ Goto(c, "unlink")
  /\ UNCHANGED <<drives, group, regrouped, live, used>>

\* queue_delete_item(erase=True) keeps nothing in the trash.
EraseGet(c, i) ==
  /\ IsLive(i)
  /\ Arrive(c, "erase", "unlink", i, NoId, NoDoc)
  /\ UNCHANGED <<drives, group, regrouped, live, trash, used>>

Unlink(c) ==
  /\ At(c, {"queue_delete", "erase"}, "unlink")
  /\ live' = [live EXCEPT ![call[c].id] = NoDoc]
  /\ Finish(c)
  /\ UNCHANGED <<drives, group, regrouped, trash, used>>

\* purge_drive: what the trash lists is deleted with all it contains ...
PurgeList(c, d) ==
  /\ call[c] = Idle /\ "purge" \in Ops
  /\ Becomes(c, Doing("purge", "gather", d, NoId, NoDoc,
                      TrashOf(d) \cap Folder, TrashOf(d)))
  /\ UNCHANGED <<drives, group, regrouped, live, trash, used>>

\* Mutants of PurgeFolder: sub-folders are not entered; the children of the
\* drive are taken for those of the folder; a folder is visited again and again.
PurgeFolderFlat(c, f) ==
  /\ At(c, {"purge"}, "gather") /\ f \in call[c].todo
  /\ Becomes(c, [call[c] EXCEPT !.todo = @ \ {f}, !.kill = @ \cup Children(f)])
  /\ UNCHANGED <<drives, group, regrouped, live, trash, used>>

PurgeFolderOfDrive(c, f) ==
  /\ At(c, {"purge"}, "gather") /\ f \in call[c].todo
  /\ Becomes(c, [call[c] EXCEPT !.todo = @ \ {f}, !.kill = @ \cup Children(call[c].id)])
  /\ UNCHANGED <<drives, group, regrouped, live, trash, used>>

PurgeFolderAgain(c, f) ==
  /\ At(c, {"purge"}, "gather") /\ f \in call[c].todo
  /\ Becomes(c, [call[c] EXCEPT !.todo = @ \cup (Children(f) \cap Folder),
                             !.kill = @ \cup Children(f)])
  /\ UNCHANGED <<drives, group, regrouped, live, trash, used>>

\* ... purge_folder collects the children of one folder ...
PurgeFolder(c, f) ==
  /\ At(c, {"purge"}, "gather") /\ f \in call[c].todo
  /\ Becomes(c, [call[c] EXCEPT !.todo = (@ \ {f}) \cup (Children(f) \cap Folder),
                             !.kill = @ \cup Children(f)])
  /\ UNCHANGED <<drives, group, regrouped, live, trash, used>>

PurgeCollected(c) ==
  /\ At(c, {"purge"}, "gather") /\ call[c].todo = {}
  /\ Goto(c, "delete")
  /\ UNCHANGED <<drives, group, regrouped, live, trash, used>>

\* ... the collected documents are removed, in any order ...
PurgeDelete(c, e) ==
  /\ At(c, {"purge"}, "delete") /\ e \in call[c].kill
  /\ live' = [live EXCEPT ![e] = NoDoc]
  /\ Becomes(c, [call[c] EXCEPT !.kill = @ \ {e}])
  /\ UNCHANGED <<drives, group, regrouped, trash, used>>

\* ... then the trash is listed again, and what it lists now is removed.
PurgeRequery(c) ==
  /\ At(c, {"purge"}, "delete") /\ call[c].kill = {}
  /\ IF TrashOf(call[c].id) = {}
       THEN Finish(c)
       ELSE Becomes(c, [call[c] EXCEPT !.at = "clear", !.kill = TrashOf(call[c].id)])
  /\ UNCHANGED <<drives, group, regrouped, live, trash, used>>

PurgeClear(c, e) ==
  /\ At(c, {"purge"}, "clear") /\ e \in call[c].kill
  /\ trash' = [trash EXCEPT ![e] = NoDoc]
  /\ IF call[c].kill = {e}
       THEN Finish(c)
       ELSE Becomes(c, [call[c] EXCEPT !.kill = @ \ {e}])
  /\ UNCHANGED <<drives, group, regrouped, live, used>>

\* delete_drive: no children, nothing in the trash (two queries, in any order),
\* then the drive is read and removed.
DriveIsEmpty(d, query) ==
  IF query = "children" THEN Children(d) = {} ELSE TrashOf(d) = {}

DeleteDriveFirstQuery(c, d, query, other) ==
  /\ {query, other} = {"children", "trash"}
  /\ DriveIsEmpty(d, query)
  /\ Arrive(c, "delete_drive", other, d, NoId, NoDoc)
  /\ UNCHANGED <<drives, group, regrouped, live, trash, used>>

DeleteDriveSecondQuery(c, query) ==
  /\ At(c, {"delete_drive"}, query) /\ query \in {"children", "trash"}
  /\ IF DriveIsEmpty(call[c].id, query) THEN Goto(c, "get") ELSE Finish(c)
  /\ UNCHANGED <<drives, group, regrouped, live, trash, used>>

DeleteDriveGet(c) ==
  /\ At(c, {"delete_drive"}, "get")
  /\ IF call[c].id \in drives THEN Goto(c, "unlink") ELSE Finish(c)
  /\ UNCHANGED <<drives, group, regrouped, live, trash, used>>

DeleteDriveDelete(c) ==
  /\ At(c, {"delete_drive"}, "unlink")
  /\ drives' = drives \ {call[c].id}
  /\ Finish(c)
  /\ UNCHANGED <<group, regrouped, live, trash, used>>

-----------------------------------------------------------------------------
(* Move.  The content of a folder follows it when drive or group changes;  *)
(* each child is itself moved, to the folder it is in.                     *)

\* Mutant of Place: the group of the destination is not taken.
PlaceInOldGroup(e, p) ==
  LET doc == [Under(p, live[e].borrowed) EXCEPT !.group = live[e].group]
      follow == e \in Folder /\ live[e].drive # doc.drive
  IN [at |-> IF follow THEN "placeAll" ELSE "place", doc |-> doc]

\* `e` has been read and is about to be written in p.
Place(e, p) ==
  LET doc == Under(p, live[e].borrowed)
      follow == e \in Folder /\ (live[e].drive # doc.drive \/ live[e].group # doc.group)
  IN [at |-> IF follow THEN "placeAll" ELSE "place", doc |-> doc]

MoveRead(c, e, p) ==
  /\ IsLive(e) /\ Exists(p)
  /\ LET place == Place(e, p) IN Arrive(c, "move", place.at, e, p, place.doc)
  /\ UNCHANGED <<drives, group, regrouped, live, trash, used>>

\* The moves left of the request, none: the request is over.
MoveOn(c, todo) ==
  IF todo = {} THEN Finish(c)
  ELSE Becomes(c, Doing("move", "next", NoId, NoId, NoDoc, todo, {}))

MovePlace(c) ==
  /\ At(c, {"move"}, "place") \/ At(c, {"move"}, "placeAll")
  /\ live' = [live EXCEPT ![call[c].id] = call[c].doc]
  /\ IF call[c].at = "place" THEN MoveOn(c, call[c].todo) ELSE Goto(c, "children")
  /\ UNCHANGED <<drives, group, regrouped, trash, used>>

\* Mutants of MoveChildren: only the items follow; nothing does.
MoveItemsOnly(c) ==
  /\ At(c, {"move"}, "children")
  /\ LET f == call[c].id
         followers == {e \in Children(f) \cap Item : ~live[e].borrowed}
     IN MoveOn(c, call[c].todo \cup (followers \X {f}))
  /\ UNCHANGED <<drives, group, regrouped, live, trash, used>>

MoveNoChildren(c) ==
  /\ At(c, {"move"}, "children")
  /\ MoveOn(c, call[c].todo)
  /\ UNCHANGED <<drives, group, regrouped, live, trash, used>>

\* Symbolic links (borrowed items) are left as they are.
MoveChildren(c) ==
  /\ At(c, {"move"}, "children")
  /\ LET f == call[c].id
         followers == {e \in Children(f) : e \in Item => ~live[e].borrowed}
     IN MoveOn(c, call[c].todo \cup (followers \X {f}))
  /\ UNCHANGED <<drives, group, regrouped, live, trash, used>>

MoveNext(c, e, f) ==
  /\ At(c, {"move"}, "next") /\ <<e, f>> \in call[c].todo
  /\ LET left == call[c].todo \ {<<e, f>>}
         place == Place(e, f)
     IN IF IsLive(e) /\ Exists(f)
          THEN Becomes(c, Doing("move", place.at, e, f, place.doc, left, {}))
          ELSE MoveOn(c, left)
  /\ UNCHANGED <<drives, group, regrouped, live, trash, used>>

-----------------------------------------------------------------------------
(* Path: get_path_folder, get_path.  get_folders_rec reads the drive of the *)
(* entity, then climbs from folder to folder up to the root of the drive.   *)

PathGet(c, e) ==
  /\ IsLive(e)
  /\ Arrive(c, "path", "drive", e, IF e \in Folder THEN e ELSE live[e].parent, live[e])
  /\ UNCHANGED <<drives, group, regrouped, live, trash, used>>

PathGetDrive(c) ==
  /\ At(c, {"path"}, "drive")
  /\ IF call[c].doc.drive \in drives THEN Goto(c, "climb") ELSE Finish(c)
  /\ UNCHANGED <<drives, group, regrouped, live, trash, used>>

AtRoot(f) == live[f].parent = live[f].drive

PathGetFolder(c) ==
  /\ At(c, {"path"}, "climb")
  /\ LET f == call[c].to
     IN IF f \in Folder /\ IsLive(f) /\ ~AtRoot(f)
          THEN Becomes(c, [call[c] EXCEPT !.to = live[f].parent])
          ELSE Finish(c)
  /\ UNCHANGED <<drives, group, regrouped, live, trash, used>>

-----------------------------------------------------------------------------
(* Default drive: get_default_drive, _ensure_folder *)

DefaultGetDrive(c) ==
  /\ call[c] = Idle /\ "default" \in Ops
  /\ LET step == IF DefaultDrive \in drives THEN "ensure" ELSE "mkdrive"
     IN Becomes(c, Doing("default", step, NoId, NoId, NoDoc, DOMAIN DefaultParent, {}))
  /\ UNCHANGED <<drives, group, regrouped, live, trash, used>>

DefaultCreateDrive(c) ==
  /\ At(c, {"default"}, "mkdrive")
  /\ PostDrive(DefaultDrive, DefaultGroup)
  /\ Goto(c, "ensure")
  /\ UNCHANGED <<live, trash, used>>

Ensure(c, todo) ==
  IF todo = {} THEN Finish(c)
  ELSE Becomes(c, Doing("default", "ensure", NoId, NoId, NoDoc, todo, {}))

\* The folders of the drive are ensured before the folders in them.
DefaultGetFolder(c, f) ==
  /\ At(c, {"default"}, "ensure") /\ f \in call[c].todo
  /\ DefaultParent[f] \in Folder => \A g \in call[c].todo : DefaultParent[g] \in Folder
  /\ IF IsLive(f)
       THEN Ensure(c, call[c].todo \ {f})
       ELSE Becomes(c, Doing("default", "ensureParent", f, DefaultParent[f], NoDoc,
                             call[c].todo \ {f}, {}))
  /\ UNCHANGED <<drives, group, regrouped, live, trash, used>>

\* When the parent is missing the request fails; only siblings still go on.
DefaultGetParent(c) ==
  /\ At(c, {"default"}, "ensureParent")
  /\ IF Exists(call[c].to)
       THEN Becomes(c, [call[c] EXCEPT !.doc = Under(call[c].to, FALSE), !.at = "ensurePost"])
       ELSE Ensure(c, {g \in call[c].todo : DefaultParent[g] = call[c].to})
  /\ UNCHANGED <<drives, group, regrouped, live, trash, used>>

DefaultPost(c) ==
  /\ At(c, {"default"}, "ensurePost")
  /\ live' = [live EXCEPT ![call[c].id] = call[c].doc]
  /\ Ensure(c, call[c].todo)
  /\ UNCHANGED <<drives, group, regrouped, trash, used>>

-----------------------------------------------------------------------------
(* Specification *)

\* Empty tables but for some drives.
Init ==
  /\ drives = FirstDrives /\ group = FirstGroup /\ regrouped = {}
  /\ live  = [e \in Entity |-> NoDoc]
  /\ trash = [e \in Entity |-> NoDoc]
  /\ used = {}
  /\ call = [c \in Client |-> Idle]

Request(c) ==
  \/ \E d \in Drive : \E g \in DriveGroups[d] : CreateDrive(c, d, g)
  \/ \E d \in Drive : UpdateDriveGet(c, d) \/ PurgeList(c, d)
  \/ \E d \in Drive : DeleteDriveFirstQuery(c, d, "children", "trash")
                    \/ DeleteDriveFirstQuery(c, d, "trash", "children")
  \/ \E e \in Entity : UpdateGet(c, e) \/ QueueDeleteGet(c, e) \/ PathGet(c, e)
  \/ \E e \in Entity, p \in Container : CreateGetParent(c, e, p, FALSE) \/ MoveRead(c, e, p)
  \/ \E i \in Item, p \in Container : CreateGetParent(c, i, p, TRUE)
  \/ \E i, link \in Item, p \in Container : BorrowGetItem(c, i, link, p)
  \/ \E i \in Item : EraseGet(c, i)
  \/ DefaultGetDrive(c)

Progress(c) ==
  \/ UpdateDrivePost(c) \/ BorrowGetParent(c) \/ Post(c)
  \/ QueueDeletePost(c) \/ Unlink(c)
  \/ \E f \in Folder : PurgeFolder(c, f) \/ DefaultGetFolder(c, f)
  \/ \E e \in Entity : PurgeDelete(c, e) \/ PurgeClear(c, e)
  \/ PurgeCollected(c) \/ PurgeRequery(c)
  \/ DeleteDriveSecondQuery(c, "children") \/ DeleteDriveSecondQuery(c, "trash")
  \/ DeleteDriveGet(c) \/ DeleteDriveDelete(c)
  \/ MovePlace(c) \/ MoveChildren(c)
  \/ \E e \in Entity, f \in Folder : MoveNext(c, e, f)
  \/ PathGetDrive(c) \/ PathGetFolder(c)
  \/ DefaultCreateDrive(c) \/ DefaultGetParent(c) \/ DefaultPost(c)

Next == \E c \in Client : Request(c) \/ Progress(c)

Spec == Init /\ [][Next]_vars

\* The event loop resumes every coroutine whose awaited call has returned; the
\* tables are in the process itself, so that every call returns.
FairSpec == Spec /\ \A c \in Client : WF_vars(Progress(c))

-----------------------------------------------------------------------------
(* Properties *)

TypeOK ==
  /\ drives \in SUBSET Drive /\ regrouped \in SUBSET Drive
  /\ group \in [Drive -> Group]
  /\ live \in [Entity -> Doc \cup {NoDoc}]
  /\ trash \in [Entity -> Doc \cup {NoDoc}]
  /\ used \in SUBSET Entity
  /\ call \in [Client -> Call]

\* A document never carries the group of another drive than its own, whatever
\* the requests in progress: group_id and drive_id are copied separately, from
\* a parent or a destination read earlier, by create_folder, _create_item, move
\* and queue_delete_*, and the gateway grants access from group_id alone. The
\* exception is a drive that held something when its document was written again with
\* another group: create_drive upserts the group asked for under an id that the
\* caller may choose, and what is in the drive keeps the former one.
GroupsAgree ==
  \A doc \in Documents \ {NoDoc} : doc.group = group[doc.drive] \/ doc.drive \in regrouped

\* A drive, or a folder that is live or can still be found in the trash.
Filed(p) == p \in drives \/ (p \in Folder /\ (IsLive(p) \/ IsTrashed(p)))

\* No live entity is in a container of which nothing is left: it would be in no
\* listing, in no trash and out of reach of purge_drive.
NoOrphan == \A e \in Entity : IsLive(e) => Filed(live[e].parent)

Quiet == \A c \in Client : call[c] = Idle

NoOrphanWhenQuiet == Quiet => NoOrphan

\* Between requests an entity is in the drive of the folder it is in, however
\* deep and whatever was moved, trashed and created before; symbolic links are
\* the documented exception of move.  purge_drive, delete_drive and
\* get_folders_rec all rely on it.
FollowsItsParent ==
  Quiet => \A e \in Entity :
    IsLive(e) /\ ~live[e].borrowed =>
      LET p == live[e].parent IN
      \/ p \in Drive /\ live[e].drive = p
      \/ p \in Folder /\ \E doc \in {live[p], trash[p]} :
           doc # NoDoc /\ doc.drive = live[e].drive

\* e is a descendant of a drive: every set of live entities that holds e and is
\* closed under "is in" has a member that is directly in a drive.
Attached(e) ==
  \A S \in SUBSET {x \in Entity : IsLive(x)} :
    /\ e \in S
    /\ \A x \in S : live[x].parent \in Folder /\ IsLive(live[x].parent) => live[x].parent \in S
    => \E x \in S : live[x].parent \in drives

\* purge_drive destroys what is out of the tree: an entity that a user can still
\* reach from a drive is destroyed only if its own id is queued in the trash
\* (a default folder, deleted then created again under the id it had).
PurgeDestroysNoBystander ==
  [][\A c \in Client, e \in Entity :
       PurgeDelete(c, e) /\ IsLive(e) => ~Attached(e) \/ IsTrashed(e)]_vars

\* The path of a folder that is in the tree is found: the climb of
\* get_folders_rec ends at the root of the drive and never in a 404.
PathIsFound ==
  [][\A c \in Client :
       /\ call[c].op = "path" /\ call[c].id \in Folder /\ Attached(call[c].id)
       /\ call'[c] = Idle
       => call[c].at = "climb" /\ AtRoot(call[c].to)]_vars

\* What disappears from the tree by a queued deletion is in the trash: the
\* document is copied before it is removed and nothing drops the copy between.
DeletedIsInTrash ==
  [][\A c \in Client :
       At(c, {"queue_delete"}, "unlink") /\ call'[c] = Idle => IsTrashed(call[c].id)]_vars

\* The folder is in itself, or in a folder that is.
Loops(f) == \E S \in SUBSET Folder :
  f \in S /\ \A x \in S : IsLive(x) /\ live[x].parent \in S

\* The path that climbs, or the purge that enters folders, goes round a cycle.
Circles(c) ==
  /\ call[c].op \in {"path", "purge"}
  /\ \E f \in ({call[c].to} \cup call[c].todo) \cap Folder : Loops(f)

\* Every request, when no other runs, ends. The exceptions are a path that climbs, and a
\* purge that enters, folders of a cycle: nothing refuses a move of a folder into its own
\* descendants, and a purge meets such a folder when it was deleted, and created
\* again under its id, before the move. purge_folder is then called for ever.
RequestsEnd == \A c \in Client : call[c].op \in OpNames ~> call[c] = Idle \/ Circles(c)
=============================================================================
