---------------------------- MODULE TreeDb_proofs ----------------------------
(* Proofs about TreeDb, for every set of drives, folders, items and clients. *)
EXTENDS TreeDb, TLAPS

\* What a call holds beside the type of its fields: the entity, or the folders,
\* that its handler works on.
CallOK(r) ==
  /\ r \in Call
  /\ r.op = "update_drive" => r.id \in Drive /\ r.doc \in Doc
  /\ r.op = "erase" => r.id \in Item
  /\ r.op = "queue_delete" => r.id \in Entity
  /\ r.op = "move" /\ r.at \in {"placeAll", "children"} => r.id \in Folder
  /\ r.op = "default" => r.todo \in SUBSET (DOMAIN DefaultParent)

TablesOK ==
  /\ drives \in SUBSET Drive /\ regrouped \in SUBSET Drive
  /\ group \in [Drive -> Group]
  /\ live \in [Entity -> Doc \cup {NoDoc}]
  /\ trash \in [Entity -> Doc \cup {NoDoc}]
  /\ used \in SUBSET Entity

CallsOK ==
  /\ DOMAIN call = Client /\ call = [c \in Client |-> call[c]]
  /\ \A c \in Client : CallOK(call[c])

TypeInv == TablesOK /\ CallsOK

-----------------------------------------------------------------------------
(* Lemmas about the operators *)

LEMMA TypeInvType == TypeInv => TypeOK
  BY DEF TypeInv, TablesOK, CallsOK, CallOK, TypeOK

\* An idle call is well typed.
LEMMA IdleOK == CallOK(Idle)
  BY DEF Idle, Doing, Call, Steps, CallOK

\* A call that goes on as a well typed one keeps the calls well typed.
LEMMA BecomesOK ==
  ASSUME CallsOK, NEW c \in Client, NEW r, CallOK(r), Becomes(c, r)
  PROVE  CallsOK'
  BY DEF CallsOK, Becomes

LEMMA FinishOK == ASSUME CallsOK, NEW c \in Client, Finish(c) PROVE CallsOK'
  BY IdleOK, BecomesOK DEF Finish

\* Going to a step at which nothing more is asked of the call.
LEMMA GotoOK ==
  ASSUME CallsOK, NEW c \in Client, NEW step \in Steps \ {"placeAll", "children"},
         Goto(c, step)
  PROVE  CallsOK'
<1>1. CallOK([call[c] EXCEPT !.at = step])
  BY DEF CallsOK, CallOK, Call
<1>2. QED BY <1>1, BecomesOK DEF Goto

\* A parent that exists is a container, and what is filed under it is a document.
LEMMA UnderType ==
  ASSUME TablesOK, NEW p, Exists(p), NEW b \in BOOLEAN
  PROVE  p \in Container /\ Under(p, b) \in Doc
<1>1. p \in Container
  BY DEF Exists, Container, TablesOK
<1>2. CASE p \in Drive
  BY <1>1, <1>2 DEF Under, DriveOf, GroupOf, Doc, TablesOK
<1>3. CASE p \notin Drive
  <2>1. p \in Folder /\ live[p] \in Doc
    BY <1>3 DEF Exists, TablesOK, IsLive, Entity
  <2>2. QED BY <1>1, <1>3, <2>1 DEF Under, DriveOf, GroupOf, Doc
<1>4. QED BY <1>2, <1>3

\* The document of a drive is written with a group.
LEMMA PostDriveType ==
  ASSUME TablesOK, NEW d \in Drive, NEW g \in Group, PostDrive(d, g), UNCHANGED <<live, trash, used>>
  PROVE  TablesOK'
  BY DEF PostDrive, TablesOK

\* The document a move is about to write is one, at a step of the move that
\* only folders go through when their content has to follow.
LEMMA PlaceType ==
  ASSUME TablesOK, NEW e \in Entity, IsLive(e), NEW p, Exists(p)
  PROVE  /\ Place(e, p).doc \in Doc
         /\ Place(e, p).at \in {"place", "placeAll"}
         /\ Place(e, p).at = "placeAll" => e \in Folder
<1>1. live[e].borrowed \in BOOLEAN
  BY DEF IsLive, TablesOK, Doc
<1>2. Under(p, live[e].borrowed) \in Doc
  BY <1>1, UnderType
<1>3. QED BY <1>2 DEF Place

\* A request that arrives is well typed, if what its operation asks for is there.
LEMMA ArriveOK ==
  ASSUME CallsOK, NEW c \in Client, NEW op, NEW step \in Steps,
         NEW id \in Drive \cup Entity \cup {NoId}, NEW to \in Drive \cup Entity \cup {NoId},
         NEW doc \in Doc \cup {NoDoc},
         op = "update_drive" => id \in Drive /\ doc \in Doc,
         op = "erase" => id \in Item,
         op = "queue_delete" => id \in Entity,
         op = "move" /\ step \in {"placeAll", "children"} => id \in Folder,
         Arrive(c, op, step, id, to, doc)
  PROVE  CallsOK'
<1>1. CallOK(Doing(op, step, id, to, doc, {}, {}))
  BY OpsAssumption DEF Arrive, Doing, Call, CallOK
<1>2. QED BY <1>1, BecomesOK DEF Arrive

\* What is left of a move, and of a default drive, is well typed.
LEMMA MoveOnOK ==
  ASSUME CallsOK, NEW c \in Client, NEW todo \in SUBSET (Entity \cup (Entity \X Folder)),
         MoveOn(c, todo)
  PROVE  CallsOK'
<1>1. CallOK(Doing("move", "next", NoId, NoId, NoDoc, todo, {}))
  BY DEF CallOK, Call, Doing, OpNames, Steps
<1>2. QED BY <1>1, BecomesOK, FinishOK DEF MoveOn

LEMMA EnsureOK ==
  ASSUME CallsOK, NEW c \in Client, NEW todo \in SUBSET (DOMAIN DefaultParent), Ensure(c, todo)
  PROVE  CallsOK'
<1>1. CallOK(Doing("default", "ensure", NoId, NoId, NoDoc, todo, {}))
  BY DefaultAssumption DEF CallOK, Call, Doing, OpNames, Steps, Entity
<1>2. QED BY <1>1, BecomesOK, FinishOK DEF Ensure

-----------------------------------------------------------------------------
(* Type correctness *)

LEMMA TypeInit == Init => TypeInv
  BY IdleOK, DefaultAssumption, GroupAssumption DEF Init, TypeInv, TablesOK, CallsOK

\* One step per action; under it, the tables and then the calls.
LEMMA TypeStep == TypeInv /\ [Next]_vars => TypeInv'
<1> SUFFICES ASSUME TypeInv, [Next]_vars PROVE TypeInv'
  OBVIOUS
<1> TablesOK /\ CallsOK
  BY DEF TypeInv
<1>1. ASSUME UNCHANGED vars PROVE TablesOK' /\ CallsOK'
  BY <1>1 DEF vars, TablesOK, CallsOK
<1>2. ASSUME NEW c \in Client, Request(c) \/ Progress(c) PROVE TablesOK' /\ CallsOK'
  <2> CallOK(call[c])
    BY DEF CallsOK
  <2>1. ASSUME NEW d \in Drive, NEW g \in DriveGroups[d], CreateDrive(c, d, g)
        PROVE  TablesOK' /\ CallsOK'
    <3>1. g \in Group
      BY GroupAssumption
    <3>2. QED BY <2>1, <3>1, PostDriveType DEF CreateDrive, CallsOK
  <2>2. ASSUME NEW d \in Drive, UpdateDriveGet(c, d) PROVE TablesOK' /\ CallsOK'
    <3>1. TablesOK'
      BY <2>2 DEF UpdateDriveGet, TablesOK
    <3>2. CallsOK'
      <4>1. PICK doc \in Doc : doc = Under(d, FALSE)
        BY <2>2, UnderType DEF UpdateDriveGet, Exists
      <4>2. "post" \in Steps
        BY DEF Steps
      <4>3. Arrive(c, "update_drive", "post", d, NoId, doc)
        BY <2>2, <4>1 DEF UpdateDriveGet
      <4>4. QED BY <4>2, <4>3, ArriveOK
    <3>3. QED BY <3>1, <3>2
  <2>3. ASSUME NEW d \in Drive, PurgeList(c, d) PROVE TablesOK' /\ CallsOK'
    <3>1. TablesOK'
      BY <2>3 DEF PurgeList, TablesOK
    <3>2. CallsOK'
      <4>1. TrashOf(d) \in SUBSET Entity
        BY DEF TrashOf
      <4>2. CallOK(Doing("purge", "gather", d, NoId, NoDoc, TrashOf(d) \cap Folder, TrashOf(d)))
        BY <4>1 DEF CallOK, Call, Doing, OpNames, Steps
      <4>3. QED BY <2>3, <4>2, BecomesOK DEF PurgeList
    <3>3. QED BY <3>1, <3>2
  <2>4. ASSUME NEW d \in Drive, NEW q, NEW o, DeleteDriveFirstQuery(c, d, q, o)
        PROVE TablesOK' /\ CallsOK'
    <3>1. TablesOK'
      BY <2>4 DEF DeleteDriveFirstQuery, TablesOK
    <3>2. CallsOK'
      <4>1. o \in Steps
        BY <2>4 DEF DeleteDriveFirstQuery, Steps
      <4>2. QED BY <2>4, <4>1, ArriveOK DEF DeleteDriveFirstQuery
    <3>3. QED BY <3>1, <3>2
  <2>5. ASSUME NEW e \in Entity, UpdateGet(c, e) PROVE TablesOK' /\ CallsOK'
    <3>1. TablesOK'
      BY <2>5 DEF UpdateGet, TablesOK
    <3>2. CallsOK'
      BY <2>5, ArriveOK DEF UpdateGet, Steps, TablesOK, Container, Entity
    <3>3. QED BY <3>1, <3>2
  <2>6. ASSUME NEW e \in Entity, QueueDeleteGet(c, e) PROVE TablesOK' /\ CallsOK'
    <3>1. TablesOK'
      BY <2>6 DEF QueueDeleteGet, TablesOK
    <3>2. CallsOK'
      BY <2>6, ArriveOK DEF QueueDeleteGet, Steps, TablesOK, Container, Entity
    <3>3. QED BY <3>1, <3>2
  <2>7. ASSUME NEW e \in Entity, PathGet(c, e) PROVE TablesOK' /\ CallsOK'
    <3>1. TablesOK'
      BY <2>7 DEF PathGet, TablesOK
    <3>2. CallsOK'
      BY <2>7, ArriveOK DEF PathGet, Steps, TablesOK, IsLive, Doc, Container, Entity
    <3>3. QED BY <3>1, <3>2
  <2>8. ASSUME NEW e \in Entity, NEW p \in Container, NEW b \in BOOLEAN, CreateGetParent(c, e,
        p, b) PROVE TablesOK' /\ CallsOK'
    <3>1. TablesOK'
      BY <2>8 DEF CreateGetParent, TablesOK
    <3>2. CallsOK'
      <4>1. Under(p, b) \in Doc
        BY <2>8, UnderType DEF CreateGetParent
      <4>2. "post" \in Steps /\ p \in Drive \cup Entity
        BY DEF Steps, Container, Entity
      <4>3. QED BY <2>8, <4>1, <4>2, ArriveOK DEF CreateGetParent
    <3>3. QED BY <3>1, <3>2
  <2>9. ASSUME NEW e \in Entity, NEW p \in Container, MoveRead(c, e, p)
        PROVE TablesOK' /\ CallsOK'
    <3>1. TablesOK'
      BY <2>9 DEF MoveRead, TablesOK
    <3>2. CallsOK'
      <4>1. /\ Place(e, p).doc \in Doc
            /\ Place(e, p).at \in {"place", "placeAll"}
            /\ Place(e, p).at = "placeAll" => e \in Folder
        BY <2>9, PlaceType DEF MoveRead
      <4>2. Place(e, p).at \in Steps /\ p \in Drive \cup Entity
        BY <4>1 DEF Steps, Container, Entity
      <4>3. QED BY <2>9, <4>1, <4>2, ArriveOK DEF MoveRead
    <3>3. QED BY <3>1, <3>2
  <2>10. ASSUME NEW i \in Item, NEW k \in Item, NEW p \in Container,
              BorrowGetItem(c, i, k, p)
       PROVE TablesOK' /\ CallsOK'
    <3>1. TablesOK'
      BY <2>10 DEF BorrowGetItem, TablesOK, Entity
    <3>2. CallsOK'
      BY <2>10, ArriveOK DEF BorrowGetItem, Steps, TablesOK, Container, Entity
    <3>3. QED BY <3>1, <3>2
  <2>11. ASSUME NEW i \in Item, EraseGet(c, i) PROVE TablesOK' /\ CallsOK'
    <3>1. TablesOK'
      BY <2>11 DEF EraseGet, TablesOK
    <3>2. CallsOK'
      BY <2>11, ArriveOK DEF EraseGet, Steps, TablesOK, Container, Entity
    <3>3. QED BY <3>1, <3>2
  <2>12. ASSUME DefaultGetDrive(c) PROVE TablesOK' /\ CallsOK'
    <3>1. TablesOK'
      BY <2>12 DEF DefaultGetDrive, TablesOK
    <3>2. CallsOK'
      <4>1. \A step \in {"ensure", "mkdrive"} :
              CallOK(Doing("default", step, NoId, NoId, NoDoc, DOMAIN DefaultParent, {}))
        BY DefaultAssumption DEF CallOK, Call, Doing, OpNames, Steps, Entity
      <4>2. QED BY <2>12, <4>1, BecomesOK DEF DefaultGetDrive
    <3>3. QED BY <3>1, <3>2
  <2>13. ASSUME UpdateDrivePost(c) PROVE TablesOK' /\ CallsOK'
    <3>1. TablesOK'
      <4>1. call[c].id \in Drive /\ call[c].doc.group \in Group
        BY <2>13 DEF UpdateDrivePost, At, CallOK, Doc
      <4>2. QED BY <2>13, <4>1, PostDriveType DEF UpdateDrivePost
    <3>2. CallsOK'
      BY <2>13, FinishOK DEF UpdateDrivePost
    <3>3. QED BY <3>1, <3>2
  <2>14. ASSUME BorrowGetParent(c) PROVE TablesOK' /\ CallsOK'
    <3>1. TablesOK'
      BY <2>14 DEF BorrowGetParent, TablesOK
    <3>2. CallsOK'
      <4>1. CASE Exists(call[c].to)
        <5>1. Under(call[c].to, TRUE) \in Doc
          BY <4>1, UnderType
        <5>2. CallOK([call[c] EXCEPT !.doc = Under(call[c].to, TRUE), !.at = "post"])
          BY <5>1, <2>14 DEF BorrowGetParent, At, CallOK, Call, Steps
        <5>3. QED BY <2>14, <4>1, <5>2, BecomesOK DEF BorrowGetParent
      <4>2. CASE ~Exists(call[c].to)
        BY <2>14, <4>2, FinishOK DEF BorrowGetParent
      <4>3. QED BY <4>1, <4>2
    <3>3. QED BY <3>1, <3>2
  <2>15. ASSUME Post(c) PROVE TablesOK' /\ CallsOK'
    <3>1. TablesOK'
      BY <2>15 DEF Post, TablesOK, CallOK, Call
    <3>2. CallsOK'
      BY <2>15, FinishOK DEF Post
    <3>3. QED BY <3>1, <3>2
  <2>16. ASSUME QueueDeletePost(c) PROVE TablesOK' /\ CallsOK'
    <3>1. TablesOK'
      BY <2>16 DEF QueueDeletePost, TablesOK, CallOK, Call
    <3>2. CallsOK'
      BY <2>16, GotoOK DEF QueueDeletePost, Steps
    <3>3. QED BY <3>1, <3>2
  <2>17. ASSUME Unlink(c) PROVE TablesOK' /\ CallsOK'
    <3>1. TablesOK'
      BY <2>17 DEF Unlink, TablesOK
    <3>2. CallsOK'
      BY <2>17, FinishOK DEF Unlink
    <3>3. QED BY <3>1, <3>2
  <2>18. ASSUME NEW f \in Folder, PurgeFolder(c, f) PROVE TablesOK' /\ CallsOK'
    <3>1. TablesOK'
      BY <2>18 DEF PurgeFolder, TablesOK
    <3>2. CallsOK'
      <4> DEFINE todo == (call[c].todo \ {f}) \cup (Children(f) \cap Folder)
                 kill == call[c].kill \cup Children(f)
      <4>1. Children(f) \in SUBSET Entity
        BY DEF Children
      <4>2. todo \in SUBSET (Entity \cup (Entity \X Folder)) /\ kill \in SUBSET Entity
        BY <4>1 DEF CallOK, Call
      <4>3. CallOK([call[c] EXCEPT !.todo = todo, !.kill = kill])
        BY <4>2, <2>18 DEF PurgeFolder, At, CallOK, Call
      <4>4. QED BY <2>18, <4>3, BecomesOK DEF PurgeFolder
    <3>3. QED BY <3>1, <3>2
  <2>19. ASSUME NEW f \in Folder, DefaultGetFolder(c, f) PROVE TablesOK' /\ CallsOK'
    <3>1. TablesOK'
      BY <2>19 DEF DefaultGetFolder, TablesOK
    <3>2. CallsOK'
      <4>1. call[c].todo \in SUBSET (DOMAIN DefaultParent) /\ f \in DOMAIN DefaultParent
        BY <2>19 DEF DefaultGetFolder, At, CallOK
      <4>2. CallOK(Doing("default", "ensureParent", f, DefaultParent[f], NoDoc,
                         call[c].todo \ {f}, {}))
        BY <4>1, DefaultAssumption DEF CallOK, Call, Doing, OpNames, Steps, Entity, Container
      <4>3. QED BY <2>19, <4>1, <4>2, EnsureOK, BecomesOK DEF DefaultGetFolder
    <3>3. QED BY <3>1, <3>2
  <2>20. ASSUME NEW e \in Entity, PurgeDelete(c, e) PROVE TablesOK' /\ CallsOK'
    <3>1. TablesOK'
      BY <2>20 DEF PurgeDelete, TablesOK
    <3>2. CallsOK'
      BY <2>20, BecomesOK, FinishOK DEF PurgeDelete, CallOK, Call
    <3>3. QED BY <3>1, <3>2
  <2>21. ASSUME NEW e \in Entity, PurgeClear(c, e) PROVE TablesOK' /\ CallsOK'
    <3>1. TablesOK'
      BY <2>21 DEF PurgeClear, TablesOK
    <3>2. CallsOK'
      BY <2>21, BecomesOK, FinishOK DEF PurgeClear, CallOK, Call
    <3>3. QED BY <3>1, <3>2
  <2>22. ASSUME PurgeCollected(c) PROVE TablesOK' /\ CallsOK'
    <3>1. TablesOK'
      BY <2>22 DEF PurgeCollected, TablesOK
    <3>2. CallsOK'
      BY <2>22, GotoOK DEF PurgeCollected, Steps
    <3>3. QED BY <3>1, <3>2
  <2>23. ASSUME PurgeRequery(c) PROVE TablesOK' /\ CallsOK'
    <3>1. TablesOK'
      BY <2>23 DEF PurgeRequery, TablesOK
    <3>2. CallsOK'
      <4>1. TrashOf(call[c].id) \in SUBSET Entity
        BY DEF TrashOf
      <4>2. CallOK([call[c] EXCEPT !.at = "clear", !.kill = TrashOf(call[c].id)])
        BY <4>1, <2>23 DEF PurgeRequery, At, CallOK, Call, Steps
      <4>3. QED BY <2>23, <4>2, BecomesOK, FinishOK DEF PurgeRequery
    <3>3. QED BY <3>1, <3>2
  <2>24. ASSUME NEW q, DeleteDriveSecondQuery(c, q) PROVE TablesOK' /\ CallsOK'
    <3>1. TablesOK'
      BY <2>24 DEF DeleteDriveSecondQuery, TablesOK
    <3>2. CallsOK'
      BY <2>24, FinishOK, GotoOK DEF DeleteDriveSecondQuery, Steps
    <3>3. QED BY <3>1, <3>2
  <2>25. ASSUME DeleteDriveGet(c) PROVE TablesOK' /\ CallsOK'
    <3>1. TablesOK'
      BY <2>25 DEF DeleteDriveGet, TablesOK
    <3>2. CallsOK'
      BY <2>25, FinishOK, GotoOK DEF DeleteDriveGet, Steps
    <3>3. QED BY <3>1, <3>2
  <2>26. ASSUME DeleteDriveDelete(c) PROVE TablesOK' /\ CallsOK'
    <3>1. TablesOK'
      BY <2>26 DEF DeleteDriveDelete, TablesOK
    <3>2. CallsOK'
      BY <2>26, FinishOK DEF DeleteDriveDelete
    <3>3. QED BY <3>1, <3>2
  <2>27. ASSUME MovePlace(c) PROVE TablesOK' /\ CallsOK'
    <3>1. TablesOK'
      BY <2>27 DEF MovePlace, TablesOK, CallOK, Call
    <3>2. CallsOK'
      <4>1. CASE call[c].at = "place"
        BY <2>27, <4>1, MoveOnOK DEF MovePlace, At, CallOK, Call
      <4>2. CASE call[c].at = "placeAll"
        <5>1. CallOK([call[c] EXCEPT !.at = "children"])
          BY <2>27, <4>2 DEF MovePlace, At, CallOK, Call, Steps
        <5>2. QED BY <2>27, <4>2, <5>1, BecomesOK DEF MovePlace, Goto
      <4>3. QED BY <2>27, <4>1, <4>2 DEF MovePlace, At
    <3>3. QED BY <3>1, <3>2
  <2>28. ASSUME MoveChildren(c) PROVE TablesOK' /\ CallsOK'
    <3>1. TablesOK'
      BY <2>28 DEF MoveChildren, TablesOK
    <3>2. CallsOK'
      <4> DEFINE followers == {e \in Children(call[c].id) : e \in Item => ~live[e].borrowed}
                 todo == call[c].todo \cup (followers \X {call[c].id})
      <4>1. call[c].id \in Folder
        BY <2>28 DEF MoveChildren, At, CallOK
      <4>2. followers \in SUBSET Entity
        BY DEF Children
      <4>3. followers \X {call[c].id} \in SUBSET (Entity \X Folder)
        BY <4>1, <4>2
      <4>4. todo \in SUBSET (Entity \cup (Entity \X Folder))
        BY <4>3 DEF CallOK, Call
      <4>5. QED BY <2>28, <4>4, MoveOnOK DEF MoveChildren
    <3>3. QED BY <3>1, <3>2
  <2>29. ASSUME NEW e \in Entity, NEW f \in Folder, MoveNext(c, e, f)
         PROVE TablesOK' /\ CallsOK'
    <3>1. TablesOK'
      BY <2>29 DEF MoveNext, TablesOK
    <3>2. CallsOK'
      <4> DEFINE left == call[c].todo \ {<<e, f>>}
      <4>1. left \in SUBSET (Entity \cup (Entity \X Folder))
        BY DEF CallOK, Call
      <4>2. CASE IsLive(e) /\ Exists(f)
        <5>1. /\ Place(e, f).doc \in Doc
              /\ Place(e, f).at \in {"place", "placeAll"}
              /\ Place(e, f).at = "placeAll" => e \in Folder
          BY <4>2, PlaceType
        <5>2. CallOK(Doing("move", Place(e, f).at, e, f, Place(e, f).doc, left, {}))
          BY <4>1, <5>1 DEF CallOK, Call, Doing, OpNames, Steps, Entity
        <5>3. QED BY <2>29, <4>2, <5>2, BecomesOK DEF MoveNext
      <4>3. CASE ~(IsLive(e) /\ Exists(f))
        BY <2>29, <4>1, <4>3, MoveOnOK DEF MoveNext
      <4>4. QED BY <4>2, <4>3
    <3>3. QED BY <3>1, <3>2
  <2>30. ASSUME PathGetDrive(c) PROVE TablesOK' /\ CallsOK'
    <3>1. TablesOK'
      BY <2>30 DEF PathGetDrive, TablesOK
    <3>2. CallsOK'
      BY <2>30, FinishOK, GotoOK DEF PathGetDrive, Steps
    <3>3. QED BY <3>1, <3>2
  <2>31. ASSUME PathGetFolder(c) PROVE TablesOK' /\ CallsOK'
    <3>1. TablesOK'
      BY <2>31 DEF PathGetFolder, TablesOK
    <3>2. CallsOK'
      <4> DEFINE f == call[c].to
      <4>1. CASE f \in Folder /\ IsLive(f) /\ ~AtRoot(f)
        <5>1. live[f].parent \in Drive \cup Entity
          BY <4>1 DEF TablesOK, IsLive, Doc, Container, Entity
        <5>2. CallOK([call[c] EXCEPT !.to = live[f].parent])
          BY <5>1, <2>31 DEF PathGetFolder, At, CallOK, Call
        <5>3. QED BY <2>31, <4>1, <5>2, BecomesOK DEF PathGetFolder
      <4>2. CASE ~(f \in Folder /\ IsLive(f) /\ ~AtRoot(f))
        BY <2>31, <4>2, FinishOK DEF PathGetFolder
      <4>3. QED BY <4>1, <4>2
    <3>3. QED BY <3>1, <3>2
  <2>32. ASSUME DefaultCreateDrive(c) PROVE TablesOK' /\ CallsOK'
    <3>1. TablesOK'
      BY <2>32, DefaultAssumption, GroupAssumption, PostDriveType DEF DefaultCreateDrive
    <3>2. CallsOK'
      BY <2>32, GotoOK DEF DefaultCreateDrive, Steps
    <3>3. QED BY <3>1, <3>2
  <2>33. ASSUME DefaultGetParent(c) PROVE TablesOK' /\ CallsOK'
    <3>1. TablesOK'
      BY <2>33 DEF DefaultGetParent, TablesOK
    <3>2. CallsOK'
      <4>1. call[c].todo \in SUBSET (DOMAIN DefaultParent)
        BY <2>33 DEF DefaultGetParent, At, CallOK
      <4>2. CASE Exists(call[c].to)
        <5>1. Under(call[c].to, FALSE) \in Doc
          BY <4>2, UnderType
        <5>2. CallOK([call[c] EXCEPT !.doc = Under(call[c].to, FALSE), !.at = "ensurePost"])
          BY <5>1, <4>1, <2>33 DEF DefaultGetParent, At, CallOK, Call, Steps
        <5>3. QED BY <2>33, <4>2, <5>2, BecomesOK DEF DefaultGetParent
      <4>3. CASE ~Exists(call[c].to)
        BY <2>33, <4>1, <4>3, EnsureOK DEF DefaultGetParent
      <4>4. QED BY <4>2, <4>3
    <3>3. QED BY <3>1, <3>2
  <2>34. ASSUME DefaultPost(c) PROVE TablesOK' /\ CallsOK'
    <3>1. TablesOK'
      BY <2>34 DEF DefaultPost, TablesOK, CallOK, Call
    <3>2. CallsOK'
      BY <2>34, EnsureOK DEF DefaultPost, At, CallOK
    <3>3. QED BY <3>1, <3>2
  <2>35. CASE Request(c)
    <3>1. Item \subseteq Entity
      BY DEF Entity
    <3>2. QED BY <2>35, <3>1, <2>1, <2>2, <2>3, <2>4, <2>5, <2>6, <2>7, <2>8, <2>9, <2>10,
               <2>11, <2>12 DEF Request
  <2>36. CASE Progress(c)
    BY <2>36, <2>13, <2>14, <2>15, <2>16, <2>17, <2>18, <2>19, <2>20, <2>21, <2>22, <2>23,
       <2>24,
       <2>25, <2>26, <2>27, <2>28, <2>29, <2>30, <2>31, <2>32, <2>33, <2>34 DEF Progress
  <2> QED BY <1>2, <2>35, <2>36
<1> QED BY <1>1, <1>2 DEF Next, TypeInv

\* The tables and the calls stay well typed: no handler writes a document that
\* is not one, whatever happened between its reads and its write.
THEOREM TypeCorrect == Spec => []TypeOK
<1>1. Spec => []TypeInv
  BY TypeInit, TypeStep, PTL DEF Spec
<1>2. QED BY <1>1, TypeInvType, PTL

-----------------------------------------------------------------------------
(* Where documents come from *)

\* NoDoc, a document there was before the step, or one filed under a parent
\* that exists before the step.
Derived(doc) ==
  \/ doc = NoDoc
  \/ doc \in Documents
  \/ \E p \in Container, b \in BOOLEAN : Exists(p) /\ doc = Under(p, b)

\* All that a step of client c does to the documents.
Effect(c) ==
  /\ \A e \in Entity : live'[e] \in {live[e], NoDoc, call[c].doc}
  /\ \A e \in Entity : trash'[e] \in {trash[e], NoDoc, call[c].doc}
  /\ \A x \in Client \ {c} : call'[x] = call[x]
  /\ Derived(call'[c].doc)

LEMMA LiveDerived == ASSUME NEW e \in Entity PROVE Derived(live[e])
  BY DEF Derived, Documents

LEMMA CallDerived == ASSUME NEW c \in Client PROVE Derived(call[c].doc)
  BY DEF Derived, Documents

LEMMA UnderDerived ==
  ASSUME TablesOK, NEW p, Exists(p), NEW b \in BOOLEAN PROVE Derived(Under(p, b))
  BY UnderType DEF Derived

LEMMA PlaceDerived ==
  ASSUME TablesOK, NEW e \in Entity, IsLive(e), NEW p, Exists(p) PROVE Derived(Place(e, p).doc)
<1>1. live[e].borrowed \in BOOLEAN
  BY DEF IsLive, TablesOK, Doc
<1>2. QED BY <1>1, UnderDerived DEF Place

\* A step that leaves the tables alone and makes its call hold a derived document.
LEMMA QuietEffect ==
  ASSUME TypeInv, NEW c \in Client, NEW r, Becomes(c, r), Derived(r.doc),
         UNCHANGED <<live, trash>>
  PROVE  Effect(c)
  BY DEF TypeInv, CallsOK, Becomes, Effect

\* A step that ends its call, or leaves its document, and writes that document
\* or NoDoc in one of the tables.
LEMMA WriteEffect ==
  ASSUME TypeInv, NEW c \in Client, NEW r, Becomes(c, r), Derived(r.doc),
         NEW e, NEW doc \in {NoDoc, call[c].doc},
         \/ live' = [live EXCEPT ![e] = doc] /\ trash' = trash
         \/ trash' = [trash EXCEPT ![e] = doc] /\ live' = live
  PROVE  Effect(c)
  BY DEF TypeInv, TablesOK, CallsOK, Becomes, Effect

LEMMA StepEffect ==
  ASSUME TypeInv, NEW c \in Client, Request(c) \/ Progress(c) PROVE Effect(c)
<1> TablesOK /\ CallsOK
  BY DEF TypeInv
<1> Derived(NoDoc) /\ Derived(call[c].doc) /\ \A e \in Entity : Derived(live[e])
  BY LiveDerived, CallDerived DEF Derived
<1>1. ASSUME NEW d \in Drive, NEW g \in DriveGroups[d], CreateDrive(c, d, g) PROVE Effect(c)
  BY <1>1 DEF CreateDrive, Effect
<1>2. ASSUME NEW d \in Drive, UpdateDriveGet(c, d) PROVE Effect(c)
  BY <1>2, QuietEffect, UnderDerived DEF UpdateDriveGet, Arrive, Doing, Exists
<1>3. ASSUME NEW d \in Drive, PurgeList(c, d) PROVE Effect(c)
  BY <1>3, QuietEffect DEF PurgeList, Doing
<1>4. ASSUME NEW d \in Drive, NEW q, NEW o, DeleteDriveFirstQuery(c, d, q, o) PROVE Effect(c)
  BY <1>4, QuietEffect DEF DeleteDriveFirstQuery, Arrive, Doing
<1>5. ASSUME NEW e \in Entity, UpdateGet(c, e) PROVE Effect(c)
  BY <1>5, QuietEffect DEF UpdateGet, Arrive, Doing
<1>6. ASSUME NEW e \in Entity, QueueDeleteGet(c, e) PROVE Effect(c)
  BY <1>6, QuietEffect DEF QueueDeleteGet, Arrive, Doing
<1>7. ASSUME NEW e \in Entity, PathGet(c, e) PROVE Effect(c)
  BY <1>7, QuietEffect DEF PathGet, Arrive, Doing
<1>8. ASSUME NEW e \in Entity, NEW p \in Container, NEW b \in BOOLEAN,
             CreateGetParent(c, e, p, b)
      PROVE Effect(c)
  BY <1>8, QuietEffect, UnderDerived DEF CreateGetParent, Arrive, Doing
<1>9. ASSUME NEW e \in Entity, NEW p \in Container, MoveRead(c, e, p) PROVE Effect(c)
  BY <1>9, QuietEffect, PlaceDerived DEF MoveRead, Arrive, Doing
<1>10. ASSUME NEW i \in Item, NEW k \in Item, NEW p \in Container,
              BorrowGetItem(c, i, k, p)
       PROVE Effect(c)
  BY <1>10, QuietEffect DEF BorrowGetItem, Arrive, Doing
<1>11. ASSUME NEW i \in Item, EraseGet(c, i) PROVE Effect(c)
  BY <1>11, QuietEffect DEF EraseGet, Arrive, Doing
<1>12. ASSUME DefaultGetDrive(c) PROVE Effect(c)
  BY <1>12, QuietEffect DEF DefaultGetDrive, Doing
<1>13. ASSUME UpdateDrivePost(c) PROVE Effect(c)
  BY <1>13, QuietEffect DEF UpdateDrivePost, Finish, Idle, Doing
<1>14. ASSUME BorrowGetParent(c) PROVE Effect(c)
  BY <1>14, QuietEffect, UnderDerived
     DEF BorrowGetParent, Finish, Idle, Doing, CallsOK, CallOK, Call
<1>15. ASSUME Post(c) PROVE Effect(c)
  BY <1>15, WriteEffect DEF Post, Finish, Idle, Doing, CallsOK, CallOK, Call
<1>16. ASSUME QueueDeletePost(c) PROVE Effect(c)
  BY <1>16, WriteEffect DEF QueueDeletePost, Goto, CallsOK, CallOK, Call
<1>17. ASSUME Unlink(c) PROVE Effect(c)
  BY <1>17, WriteEffect DEF Unlink, Finish, Idle, Doing, CallsOK, CallOK, Call
<1>18. ASSUME NEW f \in Folder, PurgeFolder(c, f) PROVE Effect(c)
  BY <1>18, QuietEffect DEF PurgeFolder, CallsOK, CallOK, Call
<1>19. ASSUME NEW f \in Folder, DefaultGetFolder(c, f) PROVE Effect(c)
  BY <1>19, QuietEffect DEF DefaultGetFolder, Ensure, Finish, Idle, Doing
<1>20. ASSUME NEW e \in Entity, PurgeDelete(c, e) PROVE Effect(c)
  BY <1>20, WriteEffect DEF PurgeDelete, CallsOK, CallOK, Call
<1>21. ASSUME NEW e \in Entity, PurgeClear(c, e) PROVE Effect(c)
  BY <1>21, WriteEffect DEF PurgeClear, Finish, Idle, Doing, CallsOK, CallOK, Call
<1>22. ASSUME PurgeCollected(c) PROVE Effect(c)
  BY <1>22, QuietEffect DEF PurgeCollected, Goto, CallsOK, CallOK, Call
<1>23. ASSUME PurgeRequery(c) PROVE Effect(c)
  BY <1>23, QuietEffect DEF PurgeRequery, Finish, Idle, Doing, CallsOK, CallOK, Call
<1>24. ASSUME NEW q, DeleteDriveSecondQuery(c, q) PROVE Effect(c)
  BY <1>24, QuietEffect
     DEF DeleteDriveSecondQuery, Finish, Goto, Idle, Doing, CallsOK, CallOK, Call
<1>25. ASSUME DeleteDriveGet(c) PROVE Effect(c)
  BY <1>25, QuietEffect DEF DeleteDriveGet, Finish, Goto, Idle, Doing, CallsOK, CallOK, Call
<1>26. ASSUME DeleteDriveDelete(c) PROVE Effect(c)
  BY <1>26, QuietEffect DEF DeleteDriveDelete, Finish, Idle, Doing
<1>27. ASSUME MovePlace(c) PROVE Effect(c)
  BY <1>27, WriteEffect DEF MovePlace, Goto, MoveOn, Finish, Idle, Doing, CallsOK, CallOK, Call
<1>28. ASSUME MoveChildren(c) PROVE Effect(c)
  BY <1>28, QuietEffect DEF MoveChildren, MoveOn, Finish, Idle, Doing
<1>29. ASSUME NEW e \in Entity, NEW f \in Folder, MoveNext(c, e, f) PROVE Effect(c)
  BY <1>29, QuietEffect, PlaceDerived DEF MoveNext, MoveOn, Finish, Idle, Doing
<1>30. ASSUME PathGetDrive(c) PROVE Effect(c)
  BY <1>30, QuietEffect DEF PathGetDrive, Finish, Goto, Idle, Doing, CallsOK, CallOK, Call
<1>31. ASSUME PathGetFolder(c) PROVE Effect(c)
  BY <1>31, QuietEffect DEF PathGetFolder, Finish, Idle, Doing, CallsOK, CallOK, Call
<1>32. ASSUME DefaultCreateDrive(c) PROVE Effect(c)
  BY <1>32, QuietEffect DEF DefaultCreateDrive, Goto, CallsOK, CallOK, Call
<1>33. ASSUME DefaultGetParent(c) PROVE Effect(c)
  BY <1>33, QuietEffect, UnderDerived
     DEF DefaultGetParent, Ensure, Finish, Idle, Doing, CallsOK, CallOK, Call
<1>34. ASSUME DefaultPost(c) PROVE Effect(c)
  BY <1>34, WriteEffect DEF DefaultPost, Ensure, Finish, Idle, Doing, CallsOK, CallOK, Call
<1>35. CASE Request(c)
  <2>1. Item \subseteq Entity
    BY DEF Entity
  <2>2. QED BY <1>35, <2>1, <1>1, <1>2, <1>3, <1>4, <1>5, <1>6, <1>7, <1>8, <1>9, <1>10,
             <1>11, <1>12 DEF Request
<1>36. CASE Progress(c)
  BY <1>36, <1>13, <1>14, <1>15, <1>16, <1>17, <1>18, <1>19, <1>20, <1>21, <1>22, <1>23, <1>24,
     <1>25, <1>26, <1>27, <1>28, <1>29, <1>30, <1>31, <1>32, <1>33, <1>34 DEF Progress
<1>37. QED BY <1>35, <1>36

LEMMA StepDocuments ==
  ASSUME TypeInv, [Next]_vars PROVE \A doc \in Documents' : Derived(doc)
<1>1. CASE UNCHANGED vars
  BY <1>1 DEF vars, Documents, Derived
<1>2. ASSUME NEW c \in Client, Request(c) \/ Progress(c)
      PROVE  \A doc \in Documents' : Derived(doc)
  <2>1. Effect(c)
    BY <1>2, StepEffect
  <2>2. QED BY <2>1, LiveDerived, CallDerived DEF Effect, Documents, Derived
<1>3. QED BY <1>1, <1>2 DEF Next

-----------------------------------------------------------------------------
(* Groups *)

\* A document has the group of its drive, or an exception is due.
Agrees(doc) == doc.group = group[doc.drive] \/ doc.drive \in regrouped

\* A document filed under a parent agrees because the parent's own document does.
LEMMA UnderAgrees ==
  ASSUME TablesOK, GroupsAgree, NEW p, Exists(p), NEW b \in BOOLEAN
  PROVE  Agrees(Under(p, b))
<1>1. CASE p \in Drive
  BY <1>1 DEF Under, DriveOf, GroupOf, Agrees
<1>2. CASE p \notin Drive
  <2>1. p \in Entity /\ live[p] # NoDoc
    BY <1>2 DEF Exists, TablesOK, IsLive, Entity
  <2>2. live[p] \in Documents \ {NoDoc}
    BY <2>1 DEF Documents
  <2>3. QED BY <1>2, <2>1, <2>2 DEF GroupsAgree, Agrees, Under, DriveOf, GroupOf
<1>3. QED BY <1>1, <1>2

\* Only the writes of the document of a drive touch the groups, and nothing is filed by
\* then.
LEMMA GroupsMove ==
  ASSUME TypeInv, [Next]_vars
  PROVE  \/ UNCHANGED <<group, regrouped>>
         \/ /\ \E d \in Drive, g \in Group : PostDrive(d, g)
            /\ Documents' \subseteq Documents \cup {NoDoc}
<1> TablesOK /\ CallsOK
  BY DEF TypeInv
<1>1. ASSUME NEW c \in Client, NEW d \in Drive, NEW g \in DriveGroups[d], CreateDrive(c, d, g)
      PROVE  PostDrive(d, g) /\ g \in Group /\ Documents' = Documents
  BY <1>1, GroupAssumption DEF CreateDrive, Documents
<1>2. ASSUME NEW c \in Client, UpdateDrivePost(c)
      PROVE  /\ \E d \in Drive, g \in Group : PostDrive(d, g)
             /\ Documents' \subseteq Documents \cup {NoDoc}
  <2>1. call[c].id \in Drive /\ call[c].doc.group \in Group
    BY <1>2 DEF UpdateDrivePost, At, CallsOK, CallOK, Doc
  <2>2. UNCHANGED <<live, trash>> /\ \A x \in Client : call'[x].doc \in {call[x].doc, NoDoc}
    BY <1>2 DEF UpdateDrivePost, Finish, Becomes, Idle, Doing, CallsOK
  <2>3. PostDrive(call[c].id, call[c].doc.group)
    BY <1>2 DEF UpdateDrivePost
  <2> QED
    BY <2>1, <2>2, <2>3 DEF Documents
<1>3. ASSUME NEW c \in Client, DefaultCreateDrive(c)
      PROVE  /\ PostDrive(DefaultDrive, DefaultGroup)
             /\ Documents' \subseteq Documents \cup {NoDoc}
  <2>1. UNCHANGED <<live, trash>> /\ \A x \in Client : call'[x].doc = call[x].doc
    BY <1>3 DEF DefaultCreateDrive, Goto, Becomes, CallsOK, CallOK, Call
  <2> QED
    BY <1>3, <2>1 DEF DefaultCreateDrive, Documents
<1>4. ASSUME NEW c \in Client, Request(c) \/ Progress(c),
             ~\E d \in Drive : \E g \in DriveGroups[d] : CreateDrive(c, d, g),
             ~UpdateDrivePost(c), ~DefaultCreateDrive(c)
      PROVE  UNCHANGED <<group, regrouped>>
  <2>1. CASE Request(c)
    BY <1>4, <2>1 DEF Request, UpdateDriveGet, PurgeList, DeleteDriveFirstQuery, UpdateGet,
       QueueDeleteGet, PathGet, CreateGetParent, MoveRead, BorrowGetItem, EraseGet, DefaultGetDrive
  <2>2. CASE Progress(c)
    BY <1>4, <2>2 DEF Progress, BorrowGetParent, Post, QueueDeletePost, Unlink, PurgeFolder,
       DefaultGetFolder, PurgeDelete, PurgeClear, PurgeCollected, PurgeRequery,
       DeleteDriveSecondQuery, DeleteDriveGet, DeleteDriveDelete, MovePlace, MoveChildren,
       MoveNext, PathGetDrive, PathGetFolder, DefaultGetParent, DefaultPost
  <2> QED
    BY <1>4, <2>1, <2>2
<1>5. CASE UNCHANGED vars
  BY <1>5 DEF vars
<1>6. CASE Next
  BY <1>1, <1>2, <1>3, <1>4, <1>6, DefaultAssumption, GroupAssumption DEF Next
<1> QED
  BY <1>5, <1>6

\* No interleaving of creations, moves, deletions, purges and renames leaves a
\* document whose group_id is not the one of its drive_id, even though both are
\* copied from documents read one or more awaits earlier. The exception is that of
\* GroupsAgree: the documents of a drive whose own document is written with another group,
\* by a creation under its id or by a late rename, while there are some.
THEOREM GroupsAlwaysAgree == Spec => []GroupsAgree
<1>1. Init => GroupsAgree
  BY DEF Init, GroupsAgree, Documents, Idle, Doing
<1>2. TypeInv /\ GroupsAgree /\ [Next]_vars => GroupsAgree'
  <2> SUFFICES ASSUME TypeInv, GroupsAgree, [Next]_vars, NEW doc \in Documents', doc # NoDoc
               PROVE  Agrees(doc)'
    BY DEF GroupsAgree, Agrees
  <2>1. CASE UNCHANGED <<group, regrouped>>
    <3>1. Derived(doc)
      BY StepDocuments
    <3>2. Agrees(doc)
      BY <3>1, UnderAgrees DEF Derived, GroupsAgree, Agrees, TypeInv
    <3> QED
      BY <2>1, <3>2 DEF Agrees
  <2>2. ASSUME NEW d \in Drive, NEW g \in Group, PostDrive(d, g),
               Documents' \subseteq Documents \cup {NoDoc}
        PROVE  Agrees(doc)'
    <3>1. doc \in Documents \ {NoDoc} /\ Agrees(doc) /\ group \in [Drive -> Group]
      BY <2>2 DEF GroupsAgree, Agrees, TypeInv, TablesOK
    <3>2. CASE doc.drive = d /\ g # group[d]
      BY <2>2, <3>1, <3>2 DEF PostDrive, Agrees
    <3>3. CASE doc.drive = d /\ g = group[d]
      BY <2>2, <3>1, <3>3 DEF PostDrive, Agrees
    <3>4. CASE doc.drive # d
      BY <2>2, <3>1, <3>4 DEF PostDrive, Agrees
    <3> QED
      BY <3>2, <3>3, <3>4
  <2> QED
    BY <2>1, <2>2, GroupsMove
<1>3. QED BY <1>1, <1>2, TypeInit, TypeStep, PTL DEF Spec

-----------------------------------------------------------------------------
(* Orphans.  Only purge_drive and delete_drive take away what a document is *)
(* filed under: as long as nobody asks for them, no interleaving of the     *)
(* other requests leaves a live entity in a container that is gone.         *)

NothingPurged == Ops \cap {"purge", "delete_drive"} = {}

\* A call that is about to write holds a document.
Kept(r) ==
  /\ r.op \notin {"purge", "delete_drive"}
  /\ \/ r.at \in {"trash", "place", "placeAll", "ensurePost"}
     \/ r.at = "post" /\ r.op # "update_drive"
     => r.doc # NoDoc

\* A folder is removed from the tree after it was copied to the trash.
Queued == \A c \in Client : At(c, {"queue_delete"}, "unlink") => IsTrashed(call[c].id)

\* The inductive invariant: NoOrphan of every document, those that handlers hold
\* between two awaits included.
FiledInv ==
  /\ TypeInv
  /\ \A c \in Client : Kept(call[c])
  /\ Queued
  /\ \A doc \in Documents : doc # NoDoc => Filed(doc.parent)

LEMMA IdleKept == Kept(Idle)
  BY DEF Kept, Idle, Doing

LEMMA BecomesKept ==
  ASSUME TypeInv, \A c \in Client : Kept(call[c]), NEW c \in Client, NEW r, Kept(r), Becomes(c,
     r)
  PROVE  \A x \in Client : Kept(call[x])'
  BY DEF TypeInv, CallsOK, Becomes

\* What a step does to the calls: they still hold what they are about to write.
LEMMA StepKept ==
  ASSUME NothingPurged, FiledInv, NEW c \in Client, Request(c) \/ Progress(c)
  PROVE  \A x \in Client : Kept(call[x])'
<1> TablesOK /\ CallsOK /\ CallOK(call[c]) /\ Kept(call[c]) /\ \A x \in Client : Kept(call[x])
  BY DEF FiledInv, TypeInv, CallsOK
<1> TypeInv
  BY DEF FiledInv
<1> Doc \cap {NoDoc} = {}
  BY NoDocAssumption
<1>1. ASSUME NEW d \in Drive, NEW g \in DriveGroups[d], CreateDrive(c, d, g)
      PROVE  \A x \in Client : Kept(call[x])'
  BY <1>1 DEF CreateDrive
<1>2. ASSUME NEW d \in Drive, UpdateDriveGet(c, d) PROVE \A x \in Client : Kept(call[x])'
  BY <1>2, BecomesKept DEF UpdateDriveGet, Arrive, Doing, Kept, NothingPurged
<1>3. ASSUME NEW d \in Drive, PurgeList(c, d) PROVE \A x \in Client : Kept(call[x])'
  BY <1>3, BecomesKept DEF PurgeList, Doing, Kept, NothingPurged
<1>4. ASSUME NEW d \in Drive, NEW q, NEW o, DeleteDriveFirstQuery(c, d, q, o)
      PROVE \A x \in Client : Kept(call[x])'
  BY <1>4, BecomesKept DEF DeleteDriveFirstQuery, Arrive, Doing, Kept, NothingPurged
<1>5. ASSUME NEW e \in Entity, UpdateGet(c, e) PROVE \A x \in Client : Kept(call[x])'
  BY <1>5, BecomesKept DEF UpdateGet, Arrive, Doing, IsLive, Kept, NothingPurged
<1>6. ASSUME NEW e \in Entity, QueueDeleteGet(c, e) PROVE \A x \in Client : Kept(call[x])'
  BY <1>6, BecomesKept DEF QueueDeleteGet, Arrive, Doing, IsLive, Kept, NothingPurged
<1>7. ASSUME NEW e \in Entity, PathGet(c, e) PROVE \A x \in Client : Kept(call[x])'
  BY <1>7, BecomesKept DEF PathGet, Arrive, Doing, Kept, NothingPurged
<1>8. ASSUME NEW e \in Entity, NEW p \in Container, NEW b \in BOOLEAN,
             CreateGetParent(c, e, p, b)
      PROVE \A x \in Client : Kept(call[x])'
  BY <1>8, BecomesKept, UnderType DEF CreateGetParent, Arrive, Doing, Kept, NothingPurged
<1>9. ASSUME NEW e \in Entity, NEW p \in Container, MoveRead(c, e, p)
      PROVE \A x \in Client : Kept(call[x])'
  BY <1>9, BecomesKept, PlaceType DEF MoveRead, Arrive, Doing, Kept, NothingPurged
<1>10. ASSUME NEW i \in Item, NEW k \in Item, NEW p \in Container,
              BorrowGetItem(c, i, k, p)
       PROVE \A x \in Client : Kept(call[x])'
  BY <1>10, BecomesKept DEF BorrowGetItem, Arrive, Doing, Kept, NothingPurged
<1>11. ASSUME NEW i \in Item, EraseGet(c, i) PROVE \A x \in Client : Kept(call[x])'
  BY <1>11, BecomesKept DEF EraseGet, Arrive, Doing, Kept, NothingPurged
<1>12. ASSUME DefaultGetDrive(c) PROVE \A x \in Client : Kept(call[x])'
  BY <1>12, BecomesKept DEF DefaultGetDrive, Doing, Kept
<1>13. ASSUME UpdateDrivePost(c) PROVE \A x \in Client : Kept(call[x])'
  BY <1>13, BecomesKept, IdleKept DEF UpdateDrivePost, At, Finish, Kept
<1>14. ASSUME BorrowGetParent(c) PROVE \A x \in Client : Kept(call[x])'
  BY <1>14, BecomesKept, IdleKept, UnderType DEF BorrowGetParent, At, Finish, CallOK, Call, Kept
<1>15. ASSUME Post(c) PROVE \A x \in Client : Kept(call[x])'
  BY <1>15, BecomesKept, IdleKept DEF Post, At, Finish, CallOK, Call, Kept
<1>16. ASSUME QueueDeletePost(c) PROVE \A x \in Client : Kept(call[x])'
  BY <1>16, BecomesKept DEF QueueDeletePost, At, Goto, CallOK, Call, Kept
<1>17. ASSUME Unlink(c) PROVE \A x \in Client : Kept(call[x])'
  BY <1>17, BecomesKept, IdleKept DEF Unlink, At, Finish, CallOK, Call, Kept
<1>18. ASSUME NEW f \in Folder, PurgeFolder(c, f) PROVE \A x \in Client : Kept(call[x])'
  BY <1>18, BecomesKept DEF PurgeFolder, At, CallOK, Call, Kept
<1>19. ASSUME NEW f \in Folder, DefaultGetFolder(c, f) PROVE \A x \in Client : Kept(call[x])'
  BY <1>19, BecomesKept, IdleKept DEF DefaultGetFolder, At, Ensure, Finish, Doing, Kept
<1>20. ASSUME NEW e \in Entity, PurgeDelete(c, e) PROVE \A x \in Client : Kept(call[x])'
  BY <1>20, BecomesKept DEF PurgeDelete, At, CallOK, Call, Kept
<1>21. ASSUME NEW e \in Entity, PurgeClear(c, e) PROVE \A x \in Client : Kept(call[x])'
  BY <1>21, BecomesKept, IdleKept DEF PurgeClear, At, Finish, CallOK, Call, Kept
<1>22. ASSUME PurgeCollected(c) PROVE \A x \in Client : Kept(call[x])'
  BY <1>22, BecomesKept DEF PurgeCollected, At, Goto, CallOK, Call, Kept
<1>23. ASSUME PurgeRequery(c) PROVE \A x \in Client : Kept(call[x])'
  BY <1>23, BecomesKept, IdleKept DEF PurgeRequery, At, Finish, CallOK, Call, Kept
<1>24. ASSUME NEW q, DeleteDriveSecondQuery(c, q) PROVE \A x \in Client : Kept(call[x])'
  BY <1>24, BecomesKept, IdleKept
     DEF DeleteDriveSecondQuery, At, Finish, Goto, CallOK, Call, Kept
<1>25. ASSUME DeleteDriveGet(c) PROVE \A x \in Client : Kept(call[x])'
  BY <1>25, BecomesKept, IdleKept DEF DeleteDriveGet, At, Finish, Goto, CallOK, Call, Kept
<1>26. ASSUME DeleteDriveDelete(c) PROVE \A x \in Client : Kept(call[x])'
  BY <1>26, BecomesKept, IdleKept DEF DeleteDriveDelete, At, Finish, Kept
<1>27. ASSUME MovePlace(c) PROVE \A x \in Client : Kept(call[x])'
  BY <1>27, BecomesKept, IdleKept
     DEF MovePlace, At, Goto, MoveOn, Finish, Doing, CallOK, Call, Kept
<1>28. ASSUME MoveChildren(c) PROVE \A x \in Client : Kept(call[x])'
  BY <1>28, BecomesKept, IdleKept DEF MoveChildren, At, MoveOn, Finish, Doing, Kept
<1>29. ASSUME NEW e \in Entity, NEW f \in Folder, MoveNext(c, e, f)
       PROVE \A x \in Client : Kept(call[x])'
  BY <1>29, BecomesKept, IdleKept, PlaceType DEF MoveNext, At, MoveOn, Finish, Doing, Kept
<1>30. ASSUME PathGetDrive(c) PROVE \A x \in Client : Kept(call[x])'
  BY <1>30, BecomesKept, IdleKept DEF PathGetDrive, At, Finish, Goto, CallOK, Call, Kept
<1>31. ASSUME PathGetFolder(c) PROVE \A x \in Client : Kept(call[x])'
  BY <1>31, BecomesKept, IdleKept DEF PathGetFolder, At, Finish, CallOK, Call, Kept
<1>32. ASSUME DefaultCreateDrive(c) PROVE \A x \in Client : Kept(call[x])'
  BY <1>32, BecomesKept DEF DefaultCreateDrive, At, Goto, CallOK, Call, Kept
<1>33. ASSUME DefaultGetParent(c) PROVE \A x \in Client : Kept(call[x])'
  BY <1>33, BecomesKept, IdleKept, UnderType
     DEF DefaultGetParent, At, Ensure, Finish, Doing, CallOK, Call, Kept
<1>34. ASSUME DefaultPost(c) PROVE \A x \in Client : Kept(call[x])'
  BY <1>34, BecomesKept, IdleKept DEF DefaultPost, At, Ensure, Finish, Doing, CallOK, Call, Kept
<1>35. CASE Request(c)
  <2>1. Item \subseteq Entity
    BY DEF Entity
  <2>2. QED BY <1>35, <2>1, <1>1, <1>2, <1>3, <1>4, <1>5, <1>6, <1>7, <1>8, <1>9, <1>10,
             <1>11, <1>12 DEF Request
<1>36. CASE Progress(c)
  BY <1>36, <1>13, <1>14, <1>15, <1>16, <1>17, <1>18, <1>19, <1>20, <1>21, <1>22, <1>23, <1>24,
     <1>25, <1>26, <1>27, <1>28, <1>29, <1>30, <1>31, <1>32, <1>33, <1>34 DEF Progress
<1>37. QED BY <1>35, <1>36

\* What a step does to the containers and to the trash: none disappears.
LEMMA StepFiled ==
  ASSUME FiledInv, NEW c \in Client, Request(c) \/ Progress(c)
  PROVE  /\ \A p : Filed(p) => Filed(p)'
         /\ \A e \in Entity : IsTrashed(e) => IsTrashed(e)'
<1> DEFINE Keeps == /\ \A p : Filed(p) => Filed(p)'
                   /\ \A e \in Entity : IsTrashed(e) => IsTrashed(e)'
<1> TablesOK /\ CallOK(call[c]) /\ Kept(call[c])
  BY DEF FiledInv, TypeInv, CallsOK
<1> Folder \subseteq Entity /\ Folder \cap Item = {}
  BY IdsAssumption DEF Entity
<1>0. ASSUME UNCHANGED <<drives, live, trash>> PROVE Keeps
  BY <1>0 DEF Filed, IsLive, IsTrashed
<1>1. ASSUME NEW d \in Drive, NEW g \in DriveGroups[d], CreateDrive(c, d, g) PROVE Keeps
  BY <1>1 DEF CreateDrive, PostDrive, Filed, IsLive, IsTrashed
<1>2. ASSUME UpdateDrivePost(c) PROVE Keeps
  BY <1>2 DEF UpdateDrivePost, PostDrive, Filed, IsLive, IsTrashed
<1>3. ASSUME Post(c) PROVE Keeps
  BY <1>3 DEF Post, At, Kept, TablesOK, Filed, IsLive, IsTrashed
<1>4. ASSUME QueueDeletePost(c) PROVE Keeps
  BY <1>4 DEF QueueDeletePost, At, Kept, TablesOK, Filed, IsLive, IsTrashed
<1>5. ASSUME Unlink(c) PROVE Keeps
  <2>1. CASE call[c].op = "erase"
    <3>1. call[c].id \notin Folder
      BY <2>1 DEF CallOK
    <3>2. QED BY <1>5, <3>1 DEF Unlink, TablesOK, Filed, IsLive, IsTrashed
  <2>2. CASE At(c, {"queue_delete"}, "unlink")
    <3>1. IsTrashed(call[c].id)
      BY <2>2 DEF FiledInv, Queued
    <3>2. QED BY <1>5, <3>1 DEF Unlink, TablesOK, Filed, IsLive, IsTrashed
  <2>3. QED BY <1>5, <2>1, <2>2 DEF Unlink, At
<1>6. ASSUME NEW e \in Entity, PurgeDelete(c, e) PROVE Keeps
  BY <1>6 DEF PurgeDelete, At, Kept
<1>7. ASSUME NEW e \in Entity, PurgeClear(c, e) PROVE Keeps
  BY <1>7 DEF PurgeClear, At, Kept
<1>8. ASSUME DeleteDriveDelete(c) PROVE Keeps
  BY <1>8 DEF DeleteDriveDelete, At, Kept
<1>9. ASSUME MovePlace(c) PROVE Keeps
  BY <1>9 DEF MovePlace, At, Kept, TablesOK, Filed, IsLive, IsTrashed
<1>10. ASSUME DefaultCreateDrive(c) PROVE Keeps
  BY <1>10 DEF DefaultCreateDrive, PostDrive, Filed, IsLive, IsTrashed
<1>11. ASSUME DefaultPost(c) PROVE Keeps
  BY <1>11 DEF DefaultPost, At, Kept, TablesOK, Filed, IsLive, IsTrashed
<1>20. CASE Request(c)
  BY <1>20, <1>0, <1>1
     DEF Request, UpdateDriveGet, PurgeList, DeleteDriveFirstQuery, UpdateGet, QueueDeleteGet,
        PathGet, CreateGetParent, MoveRead, BorrowGetItem, EraseGet, DefaultGetDrive
<1>21. CASE Progress(c)
  BY <1>21, <1>0, <1>2, <1>3, <1>4, <1>5, <1>6, <1>7, <1>8, <1>9, <1>10, <1>11
     DEF Progress, BorrowGetParent, PurgeFolder, DefaultGetFolder, PurgeCollected,
        PurgeRequery, DeleteDriveSecondQuery, DeleteDriveGet, MoveChildren, MoveNext,
           PathGetDrive, PathGetFolder, DefaultGetParent
<1>22. QED BY <1>20, <1>21

\* A queue_delete gets to its last call, the removal, by copying to the trash.
LEMMA StepQueued ==
  ASSUME FiledInv, NEW c \in Client, Request(c) \/ Progress(c)
  PROVE  Queued'
<1> DEFINE Unlinks == call'[c].op = "queue_delete" /\ call'[c].at = "unlink"
<1> TablesOK /\ CallsOK /\ CallOK(call[c]) /\ DOMAIN call = Client
  BY DEF FiledInv, TypeInv, CallsOK
<1>1. CASE QueueDeletePost(c)
  <2>1. call[c].doc # NoDoc /\ call[c].id \in Entity /\ call'[c].id = call[c].id
    BY <1>1 DEF QueueDeletePost, At, FiledInv, Kept, CallOK, Goto, Becomes, Call
  <2>2. trash'[call'[c].id] # NoDoc
    BY <1>1, <2>1 DEF QueueDeletePost, TablesOK
  <2>3. ASSUME NEW x \in Client \ {c}, At(x, {"queue_delete"}, "unlink")'
        PROVE  IsTrashed(call[x].id)'
    <3>1. call'[x] = call[x] /\ call[x].id \in Entity /\ IsTrashed(call[x].id)
      BY <1>1, <2>3 DEF QueueDeletePost, Goto, Becomes, FiledInv, Queued, At, CallsOK, CallOK
    <3>2. QED BY <3>1, StepFiled DEF IsTrashed
  <2>4. QED BY <2>2, <2>3 DEF Queued, IsTrashed
<1>2. ASSUME ~QueueDeletePost(c) PROVE ~Unlinks \/ call' = call
  <2>1. ASSUME NEW d \in Drive, NEW g \in DriveGroups[d], CreateDrive(c, d, g)
        PROVE  ~Unlinks \/ call' = call
    BY <2>1 DEF CreateDrive
  <2>2. ASSUME NEW d \in Drive, UpdateDriveGet(c, d) PROVE ~Unlinks \/ call' = call
    BY <2>2 DEF UpdateDriveGet, Arrive, Doing, Becomes
  <2>3. ASSUME NEW d \in Drive, PurgeList(c, d) PROVE ~Unlinks \/ call' = call
    BY <2>3 DEF PurgeList, Doing, Becomes
  <2>4. ASSUME NEW d \in Drive, NEW q, NEW o, DeleteDriveFirstQuery(c, d, q, o)
        PROVE ~Unlinks \/ call' = call
    BY <2>4 DEF DeleteDriveFirstQuery, Arrive, Doing, Becomes
  <2>5. ASSUME NEW e \in Entity, UpdateGet(c, e) PROVE ~Unlinks \/ call' = call
    BY <2>5 DEF UpdateGet, Arrive, Doing, Becomes
  <2>6. ASSUME NEW e \in Entity, QueueDeleteGet(c, e) PROVE ~Unlinks \/ call' = call
    BY <2>6 DEF QueueDeleteGet, Arrive, Doing, Becomes
  <2>7. ASSUME NEW e \in Entity, PathGet(c, e) PROVE ~Unlinks \/ call' = call
    BY <2>7 DEF PathGet, Arrive, Doing, Becomes
  <2>8. ASSUME NEW e \in Entity, NEW p \in Container, NEW b \in BOOLEAN, CreateGetParent(c, e,
        p, b) PROVE ~Unlinks \/ call' = call
    BY <2>8 DEF CreateGetParent, Arrive, Doing, Becomes
  <2>9. ASSUME NEW e \in Entity, NEW p \in Container, MoveRead(c, e, p)
        PROVE ~Unlinks \/ call' = call
    BY <2>9 DEF MoveRead, Arrive, Doing, Becomes
  <2>10. ASSUME NEW i \in Item, NEW k \in Item, NEW p \in Container,
              BorrowGetItem(c, i, k, p)
       PROVE ~Unlinks \/ call' = call
    BY <2>10 DEF BorrowGetItem, Arrive, Doing, Becomes
  <2>11. ASSUME NEW i \in Item, EraseGet(c, i) PROVE ~Unlinks \/ call' = call
    BY <2>11 DEF EraseGet, Arrive, Doing, Becomes
  <2>12. ASSUME DefaultGetDrive(c) PROVE ~Unlinks \/ call' = call
    BY <2>12 DEF DefaultGetDrive, Doing, Becomes
  <2>13. ASSUME UpdateDrivePost(c) PROVE ~Unlinks \/ call' = call
    BY <2>13 DEF UpdateDrivePost, At, Finish, Idle, Doing, Becomes
  <2>14. ASSUME BorrowGetParent(c) PROVE ~Unlinks \/ call' = call
    <3>1. CASE Exists(call[c].to)
      BY <2>14, <3>1 DEF BorrowGetParent, At, Becomes, CallOK, Call
    <3>2. CASE ~(Exists(call[c].to))
      BY <2>14, <3>2 DEF BorrowGetParent, Finish, Idle, Doing, Becomes
    <3>3. QED BY <3>1, <3>2
  <2>15. ASSUME Post(c) PROVE ~Unlinks \/ call' = call
    BY <2>15 DEF Post, At, Finish, Idle, Doing, Call, CallOK, Becomes
  <2>16. ASSUME Unlink(c) PROVE ~Unlinks \/ call' = call
    BY <2>16 DEF Unlink, At, Finish, Idle, Doing, Call, CallOK, Becomes
  <2>17. ASSUME NEW f \in Folder, PurgeFolder(c, f) PROVE ~Unlinks \/ call' = call
    BY <2>17 DEF PurgeFolder, At, Call, CallOK, Becomes
  <2>18. ASSUME NEW f \in Folder, DefaultGetFolder(c, f) PROVE ~Unlinks \/ call' = call
    BY <2>18 DEF DefaultGetFolder, At, Ensure, Finish, Idle, Doing, Becomes
  <2>19. ASSUME NEW e \in Entity, PurgeDelete(c, e) PROVE ~Unlinks \/ call' = call
    BY <2>19 DEF PurgeDelete, At, Call, CallOK, Becomes
  <2>20. ASSUME NEW e \in Entity, PurgeClear(c, e) PROVE ~Unlinks \/ call' = call
    BY <2>20 DEF PurgeClear, At, Finish, Idle, Doing, Call, CallOK, Becomes
  <2>21. ASSUME PurgeCollected(c) PROVE ~Unlinks \/ call' = call
    BY <2>21 DEF PurgeCollected, At, Goto, Call, CallOK, Becomes
  <2>22. ASSUME PurgeRequery(c) PROVE ~Unlinks \/ call' = call
    <3>1. CASE TrashOf(call[c].id) # {}
      BY <2>22, <3>1 DEF PurgeRequery, At, Becomes, CallOK, Call
    <3>2. CASE ~(TrashOf(call[c].id) # {})
      BY <2>22, <3>2 DEF PurgeRequery, Finish, Idle, Doing, Becomes
    <3>3. QED BY <3>1, <3>2
  <2>23. ASSUME NEW q, DeleteDriveSecondQuery(c, q) PROVE ~Unlinks \/ call' = call
    BY <2>23 DEF DeleteDriveSecondQuery, At, Finish, Goto, Idle, Doing, Call, CallOK, Becomes
  <2>24. ASSUME DeleteDriveGet(c) PROVE ~Unlinks \/ call' = call
    BY <2>24 DEF DeleteDriveGet, At, Finish, Goto, Idle, Doing, Call, CallOK, Becomes
  <2>25. ASSUME DeleteDriveDelete(c) PROVE ~Unlinks \/ call' = call
    BY <2>25 DEF DeleteDriveDelete, At, Finish, Idle, Doing, Becomes
  <2>26. ASSUME MovePlace(c) PROVE ~Unlinks \/ call' = call
    BY <2>26 DEF MovePlace, At, Goto, MoveOn, Finish, Idle, Doing, Call, CallOK, Becomes
  <2>27. ASSUME MoveChildren(c) PROVE ~Unlinks \/ call' = call
    BY <2>27 DEF MoveChildren, At, MoveOn, Finish, Idle, Doing, Becomes
  <2>28. ASSUME NEW e \in Entity, NEW f \in Folder, MoveNext(c, e, f)
         PROVE ~Unlinks \/ call' = call
    BY <2>28 DEF MoveNext, At, MoveOn, Finish, Idle, Doing, Becomes
  <2>29. ASSUME PathGetDrive(c) PROVE ~Unlinks \/ call' = call
    BY <2>29 DEF PathGetDrive, At, Finish, Goto, Idle, Doing, Call, CallOK, Becomes
  <2>30. ASSUME PathGetFolder(c) PROVE ~Unlinks \/ call' = call
    BY <2>30 DEF PathGetFolder, At, Finish, Idle, Doing, Call, CallOK, Becomes
  <2>31. ASSUME DefaultCreateDrive(c) PROVE ~Unlinks \/ call' = call
    BY <2>31 DEF DefaultCreateDrive, At, Goto, Call, CallOK, Becomes
  <2>32. ASSUME DefaultGetParent(c) PROVE ~Unlinks \/ call' = call
    <3>1. CASE Exists(call[c].to)
      BY <2>32, <3>1 DEF DefaultGetParent, At, Becomes, CallOK, Call
    <3>2. CASE ~(Exists(call[c].to))
      BY <2>32, <3>2 DEF DefaultGetParent, Ensure, Finish, Idle, Doing, Becomes
    <3>3. QED BY <3>1, <3>2
  <2>33. ASSUME DefaultPost(c) PROVE ~Unlinks \/ call' = call
    BY <2>33 DEF DefaultPost, At, Ensure, Finish, Idle, Doing, Call, CallOK, Becomes
  <2>34. CASE Request(c)
    <3>1. Item \subseteq Entity
      BY DEF Entity
    <3>2. QED BY <2>34, <3>1, <2>1, <2>2, <2>3, <2>4, <2>5, <2>6, <2>7, <2>8, <2>9, <2>10,
               <2>11, <2>12 DEF Request
  <2>35. CASE Progress(c)
    BY <1>2, <2>35, <2>13, <2>14, <2>15, <2>16, <2>17, <2>18, <2>19, <2>20, <2>21, <2>22, <2>23,
       <2>24, <2>25, <2>26, <2>27, <2>28, <2>29, <2>30, <2>31, <2>32, <2>33 DEF Progress
  <2>36. QED BY <2>34, <2>35
<1>3. \A x \in Client \ {c} : call'[x] = call[x]
  BY StepEffect DEF Effect, FiledInv
<1>4. CASE ~QueueDeletePost(c)
  BY <1>2, <1>3, <1>4, StepFiled DEF FiledInv, Queued, At, CallsOK, CallOK
<1>5. QED BY <1>1, <1>4

LEMMA FiledInit == NothingPurged /\ Init => FiledInv
<1> SUFFICES ASSUME NothingPurged, Init PROVE FiledInv
  OBVIOUS
<1>1. \A c \in Client : call[c] = Idle
  BY DEF Init
<1>2. \A doc \in Documents : doc = NoDoc
  BY DEF Init, Documents, Idle, Doing
<1>3. QED BY <1>1, <1>2, TypeInit, IdleKept DEF FiledInv, Queued, At, Idle, Doing

LEMMA FiledStep == NothingPurged /\ FiledInv /\ [Next]_vars => FiledInv'
<1> SUFFICES ASSUME NothingPurged, FiledInv, [Next]_vars PROVE FiledInv'
  OBVIOUS
<1>1. CASE UNCHANGED vars
  <2>1. TypeInv'
    BY TypeStep DEF FiledInv
  <2>2. QED BY <1>1, <2>1 DEF FiledInv, vars, Queued, At, IsTrashed, IsLive, Documents, Filed
<1>2. ASSUME NEW c \in Client, Request(c) \/ Progress(c) PROVE FiledInv'
  <2>1. TypeInv'
    BY TypeStep DEF FiledInv
  <2>2. (\A x \in Client : Kept(call[x]))' /\ Queued'
    BY <1>2, StepKept, StepQueued
  <2>3. ASSUME NEW doc \in Documents', doc # NoDoc PROVE Filed(doc.parent)'
    <3>1. Derived(doc)
      BY <2>3, StepDocuments DEF FiledInv
    <3>2. Filed(doc.parent)
      <4>1. CASE doc \in Documents
        BY <2>3, <4>1 DEF FiledInv
      <4>2. ASSUME NEW p \in Container, NEW b \in BOOLEAN, Exists(p), doc = Under(p, b)
            PROVE  Filed(doc.parent)
        BY <4>2 DEF Under, Exists, Filed
      <4>3. QED BY <2>3, <3>1, <4>1, <4>2 DEF Derived
    <3>3. QED BY <1>2, <3>2, StepFiled
  <2>4. QED BY <2>1, <2>2, <2>3 DEF FiledInv
<1>3. QED BY <1>1, <1>2 DEF Next

\* While no drive is purged or deleted, an entity that can be seen is in a drive
\* or in a folder that is live or in the trash: create, move, rename, borrow and
\* delete may race in any way and lose nothing.
THEOREM NothingOrphaned == ASSUME NothingPurged PROVE Spec => []NoOrphan
<1>1. FiledInv => NoOrphan
  BY DEF FiledInv, NoOrphan, Documents, IsLive
<1>2. QED BY <1>1, NothingPurged, FiledInit, FiledStep, PTL DEF Spec

\* While no drive is purged, a folder or an item leaves the tree only after its
\* copy got to the trash, and the copy is still there when it leaves.
THEOREM DeletionsRecoverable == ASSUME NothingPurged PROVE Spec => DeletedIsInTrash
<1>1. FiledInv /\ [Next]_vars =>
        [\A c \in Client :
           At(c, {"queue_delete"}, "unlink") /\ call'[c] = Idle => IsTrashed(call[c].id)]_vars
  BY DEF FiledInv, Queued
<1>2. QED BY <1>1, NothingPurged, FiledInit, FiledStep, PTL DEF Spec, DeletedIsInTrash

-----------------------------------------------------------------------------
(* One request at a time, whose ids are uuids: what the tree is between the *)
(* requests, whatever they were.  A request is looked at by its record r,   *)
(* that says how far it is; between two requests r is Idle.                 *)

Sequential ==
  /\ \E c \in Client : Client = {c}
  /\ Known = {} /\ "default" \notin Ops

\* What purge_drive has collected and not deleted yet.
Doomed(r, e) == r.op = "purge" /\ r.at = "delete" /\ e \in r.kill

\* What a move has still to move, or to look for.
Awaits(r, e) ==
  /\ r.op = "move"
  /\ \/ <<e, live[e].parent>> \in r.todo
     \/ r.at = "children" /\ live[e].parent = r.id
     \/ r.at \in {"place", "placeAll"} /\ e = r.id

\* e is in the drive of the container p.
InDriveOf(e, p) ==
  \/ p \in Drive /\ live[e].drive = p
  \/ p \in Folder /\ \E doc \in {live[p], trash[p]} : doc # NoDoc /\ doc.drive = live[e].drive

Follows(e) == live[e].borrowed \/ InDriveOf(e, live[e].parent)

Placed(r) ==
  \A e \in Entity : IsLive(e) =>
    Doomed(r, e) \/ (Filed(live[e].parent) /\ (Follows(e) \/ Awaits(r, e)))

\* What is in the trash has left the tree.
Apart(r) ==
  \A e \in Entity : IsLive(e) /\ IsTrashed(e) =>
    r.op = "queue_delete" /\ r.at = "unlink" /\ r.id = e

Numbered ==
  \A e \in Entity :
    /\ IsLive(e) \/ IsTrashed(e) => e \in used
    /\ IsLive(e) /\ live[e].parent \in Folder => live[e].parent \in used

\* Symbolic links are items.
Solid == \A f \in Folder : IsLive(f) => ~ live[f].borrowed

New(e) ==
  /\ ~ IsLive(e) /\ ~ IsTrashed(e)
  /\ \A x \in Entity : IsLive(x) => live[x].parent # e

\* A document read is still what it was when it is written.
Creates(r) ==
  r.op \in {"create_folder", "create_item", "borrow"} =>
    /\ r.id \in Entity /\ New(r.id)
    /\ r.op = "borrow" => r.id \in Item
    /\ r.at \in {"parent", "post"} /\ (r.at = "parent" => r.op = "borrow")
    /\ r.at = "post" => /\ r.doc \in Doc /\ Exists(r.doc.parent)
                        /\ r.doc.drive = DriveOf(r.doc.parent)
                        /\ r.id \in Folder => ~ r.doc.borrowed

\* The ids of what is created have been drawn.
Drawn(r) == r.op \in {"create_folder", "create_item", "borrow"} => r.id \in used

Updates(r) ==
  r.op = "update" => r.id \in Entity /\ IsLive(r.id) /\ r.doc = live[r.id] /\ r.at = "post"

Trashes(r) ==
  r.op = "queue_delete" =>
    /\ r.id \in Entity /\ IsLive(r.id) /\ r.doc = live[r.id]
    /\ r.at \in {"trash", "unlink"}
    /\ r.at = "trash" => ~ IsTrashed(r.id)
    /\ r.at = "unlink" => trash[r.id] = live[r.id]

\* What is collected is out of the tree, and so is what it is in.
Collected(kill) ==
  \A x \in kill : IsLive(x) =>
    live[x].parent \in Folder /\ (IsLive(live[x].parent) => live[x].parent \in kill)

\* Nothing is left in what is collected, or was in the trash of d.
Cut(d, kill) ==
  \A e \in Entity : IsLive(e) /\ e \notin kill =>
    LET p == live[e].parent
    IN  p \in Folder => (IsLive(p) /\ p \notin kill) \/ (IsTrashed(p) /\ trash[p].drive # d)

Purges(r) ==
  r.op = "purge" =>
    /\ r.id \in Drive /\ r.at \in {"gather", "delete", "clear"}
    /\ r.at \in {"gather", "delete"} => Collected(r.kill)
    /\ r.at = "gather" => /\ TrashOf(r.id) \subseteq r.kill /\ r.todo \subseteq r.kill \cap Folder
                          /\ \A f \in (r.kill \cap Folder) \ r.todo : Children(f) \subseteq r.kill
    /\ r.at = "delete" => Cut(r.id, r.kill)
    /\ r.at = "clear" => r.kill \subseteq TrashOf(r.id) /\ Cut(r.id, {})

Empties(r) ==
  r.op = "delete_drive" =>
    /\ r.id \in Drive /\ r.at \in {"children", "trash", "get", "unlink"}
    /\ r.at # "children" => Children(r.id) = {}

\* The content of a folder stays in it while the folder and the content move.
Moves(r) ==
  r.op = "move" =>
    /\ r.at \in {"place", "placeAll", "children", "next"}
    /\ r.at = "next" => r.todo # {}
    /\ \A t \in r.todo : t \in Entity \X Folder /\ IsLive(t[1]) /\ IsLive(t[2])
                         /\ live[t[1]].parent = t[2]
    /\ r.at \in {"place", "placeAll", "children"} => r.id \in Entity /\ IsLive(r.id)
    /\ r.at = "children" => r.id \in Folder
    /\ r.at \in {"place", "placeAll"} =>
         /\ r.doc \in Doc /\ r.doc.parent = r.to /\ r.doc.borrowed = live[r.id].borrowed
         /\ Exists(r.to) /\ r.doc.drive = DriveOf(r.to)
         /\ r.todo = {} \/ live[r.id].parent = r.to
         /\ r.at = "place" /\ r.id \in Folder => r.doc.drive = live[r.id].drive

\* The climb stays in the tree.
Climbs(r) ==
  r.op = "path" =>
    /\ r.id \in Entity /\ r.at \in {"drive", "climb"}
    /\ r.at = "drive" => IsLive(r.id) /\ r.doc = live[r.id]
    /\ r.id \in Folder /\ Attached(r.id) => r.to \in Folder /\ IsLive(r.to) /\ Attached(r.to)

\* What a request has read is still true.
Knows(r) ==
  /\ r.op # "default"
  /\ Creates(r) /\ Updates(r) /\ Trashes(r) /\ Purges(r) /\ Empties(r) /\ Moves(r) /\ Climbs(r)

Sound(r) == Placed(r) /\ Apart(r) /\ Numbered /\ Solid /\ Drawn(r) /\ Knows(r)

SequentialInv == TypeInv /\ \A c \in Client : Sound(call[c])

\* Nothing is in progress that Placed and Apart make exceptions for.
Settled == Placed(Idle) /\ Apart(Idle)

LEMMA SettledIs ==
  ASSUME Settled, NEW e \in Entity, IsLive(e)
  PROVE  Filed(live[e].parent) /\ Follows(e) /\ ~ IsTrashed(e)
BY DEF Settled, Placed, Apart, Doomed, Awaits, Idle, Doing

LEMMA SettledAny == ASSUME Settled, NEW r PROVE Placed(r) /\ Apart(r)
BY DEF Settled, Placed, Apart, Doomed, Awaits, Idle, Doing

LEMMA SettledFrom ==
  ASSUME NEW r, Placed(r), Apart(r),
         r.op # "move", ~ (r.op = "purge" /\ r.at = "delete"),
         ~ (r.op = "queue_delete" /\ r.at = "unlink")
  PROVE  Settled
BY DEF Settled, Placed, Apart, Doomed, Awaits, Idle, Doing

LEMMA IdleKnows == Knows(Idle)
BY DEF Knows, Creates, Updates, Trashes, Purges, Empties, Moves, Climbs, Idle, Doing

\* What is in the tree is a matter of the tables.
LEMMA AttachedSame == ASSUME live' = live, drives' = drives, NEW e PROVE Attached(e)' <=> Attached(e)
BY DEF Attached, IsLive

\* A step that reads only.
LEMMA Reading ==
  ASSUME NEW c \in Client, TypeInv,
         live' = live, trash' = trash, drives' = drives, used \subseteq used',
         Numbered, Solid,
         NEW r, Becomes(c, r), Placed(r), Apart(r), Knows(r),
         r.op \in {"create_folder", "create_item", "borrow"} => r.id \in used'
  PROVE  Sound(call[c])'
<1>1. call'[c] = r
  BY DEF Becomes, TypeInv, CallsOK
<1>2. Placed(call[c])' /\ Apart(call[c])' /\ Numbered' /\ Solid' /\ Drawn(call[c])'
  BY <1>1 DEF Placed, Apart, Numbered, Solid, Drawn, Doomed, Awaits, Follows, InDriveOf, Filed,
     IsLive, IsTrashed
<1>3. (call[c].op # "default")' /\ Creates(call[c])' /\ Updates(call[c])' /\ Trashes(call[c])'
  BY <1>1 DEF Knows, Creates, Updates, Trashes, New, Exists, DriveOf, IsLive, IsTrashed
<1>4. Purges(call[c])'
  BY <1>1 DEF Knows, Purges, Collected, Cut, TrashOf, Children, IsLive, IsTrashed
<1>5. Empties(call[c])' /\ Moves(call[c])'
  BY <1>1 DEF Knows, Empties, Moves, Children, Exists, DriveOf, IsLive
<1>6. Climbs(call[c])'
  <2>1. \A e : Attached(e)' <=> Attached(e)
    BY AttachedSame
  <2> QED BY <1>1, <2>1 DEF Knows, Climbs, IsLive
<1> QED BY <1>2, <1>3, <1>4, <1>5, <1>6 DEF Sound, Knows

\* A request that begins finds the tree settled.
LEMMA Begins ==
  ASSUME NEW c \in Client, TypeInv, Sound(call[c]), call[c] = Idle,
         live' = live, trash' = trash, drives' = drives, used \subseteq used',
         NEW r, Becomes(c, r), Knows(r),
         r.op \in {"create_folder", "create_item", "borrow"} => r.id \in used'
  PROVE  Sound(call[c])'
<1>1. Settled
  BY SettledFrom DEF Sound, Idle, Doing
<1>2. Placed(r) /\ Apart(r)
  BY <1>1, SettledAny
<1> QED BY <1>2, Reading DEF Sound

\* One that ends leaves it settled.
LEMMA Ends ==
  ASSUME NEW c \in Client, TypeInv, Numbered, Solid, Settled,
         live' = live, trash' = trash, drives' = drives, used' = used, Finish(c)
  PROVE  Sound(call[c])'
<1>1. Placed(Idle) /\ Apart(Idle)
  BY SettledAny
<1>2. Idle.op = "none"
  BY DEF Idle, Doing
<1> QED BY <1>1, <1>2, IdleKnows, Reading DEF Finish

LEMMA BeginUpdateDrive ==
  ASSUME NEW c \in Client, TypeInv, Sound(call[c]), NEW d \in Drive, UpdateDriveGet(c, d)
  PROVE  Sound(call[c])'
<1> DEFINE r == Doing("update_drive", "post", d, NoId, Under(d, FALSE), {}, {})
<1>1. Knows(r) /\ r.op = "update_drive"
  BY DEF Knows, Creates, Updates, Trashes, Purges, Empties, Moves, Climbs, Doing
<1>2. call[c] = Idle /\ Becomes(c, r)
  BY DEF UpdateDriveGet, Arrive
<1> HIDE DEF r
<1> QED BY <1>1, <1>2, Begins DEF UpdateDriveGet

LEMMA BeginPurge ==
  ASSUME NEW c \in Client, TypeInv, Sound(call[c]), NEW d \in Drive, PurgeList(c, d)
  PROVE  Sound(call[c])'
<1> DEFINE r == Doing("purge", "gather", d, NoId, NoDoc, TrashOf(d) \cap Folder, TrashOf(d))
<1>1. Apart(Idle)
  BY DEF PurgeList, Sound
<1>2. \A x \in TrashOf(d) : ~ IsLive(x)
  BY <1>1 DEF Apart, TrashOf, Idle, Doing
<1>3. Knows(r) /\ r.op = "purge"
  BY <1>2 DEF Knows, Creates, Updates, Trashes, Purges, Empties, Moves, Climbs, Doing, Collected
<1>4. call[c] = Idle /\ Becomes(c, r)
  BY DEF PurgeList
<1> HIDE DEF r
<1> QED BY <1>3, <1>4, Begins DEF PurgeList

LEMMA BeginDeleteDrive ==
  ASSUME NEW c \in Client, TypeInv, Sound(call[c]), NEW d \in Drive, NEW q, NEW o,
         DeleteDriveFirstQuery(c, d, q, o)
  PROVE  Sound(call[c])'
<1> DEFINE r == Doing("delete_drive", o, d, NoId, NoDoc, {}, {})
<1>1. Knows(r) /\ r.op = "delete_drive"
  BY DEF Knows, Creates, Updates, Trashes, Purges, Empties, Moves, Climbs, Doing,
     DeleteDriveFirstQuery, DriveIsEmpty
<1>2. call[c] = Idle /\ Becomes(c, r)
  BY DEF DeleteDriveFirstQuery, Arrive
<1> HIDE DEF r
<1> QED BY <1>1, <1>2, Begins DEF DeleteDriveFirstQuery

LEMMA BeginUpdate ==
  ASSUME NEW c \in Client, TypeInv, Sound(call[c]), NEW e \in Entity, UpdateGet(c, e)
  PROVE  Sound(call[c])'
<1> DEFINE r == Doing("update", "post", e, NoId, live[e], {}, {})
<1>1. Knows(r) /\ r.op = "update"
  BY DEF Knows, Creates, Updates, Trashes, Purges, Empties, Moves, Climbs, Doing, UpdateGet
<1>2. call[c] = Idle /\ Becomes(c, r)
  BY DEF UpdateGet, Arrive
<1> HIDE DEF r
<1> QED BY <1>1, <1>2, Begins DEF UpdateGet

LEMMA BeginQueueDelete ==
  ASSUME NEW c \in Client, TypeInv, Sound(call[c]), NEW e \in Entity, QueueDeleteGet(c, e)
  PROVE  Sound(call[c])'
<1> DEFINE r == Doing("queue_delete", "trash", e, NoId, live[e], {}, {})
<1>1. call[c] = Idle /\ Becomes(c, r) /\ IsLive(e)
  BY DEF QueueDeleteGet, Arrive
<1>2. ~ IsTrashed(e)
  BY <1>1 DEF Sound, Apart, Idle, Doing
<1>3. Knows(r) /\ r.op = "queue_delete"
  BY <1>1, <1>2 DEF Knows, Creates, Updates, Trashes, Purges, Empties, Moves, Climbs, Doing
<1> HIDE DEF r
<1> QED BY <1>1, <1>3, Begins DEF QueueDeleteGet

LEMMA BeginErase ==
  ASSUME NEW c \in Client, TypeInv, Sound(call[c]), NEW i \in Item, EraseGet(c, i)
  PROVE  Sound(call[c])'
<1> DEFINE r == Doing("erase", "unlink", i, NoId, NoDoc, {}, {})
<1>1. Knows(r) /\ r.op = "erase"
  BY DEF Knows, Creates, Updates, Trashes, Purges, Empties, Moves, Climbs, Doing
<1>2. call[c] = Idle /\ Becomes(c, r)
  BY DEF EraseGet, Arrive
<1> HIDE DEF r
<1> QED BY <1>1, <1>2, Begins DEF EraseGet

\* A uuid is the one of nothing there is.
LEMMA FreshIsNew ==
  ASSUME Sequential, TypeInv, Numbered, NEW e \in Entity, Fresh(e)
  PROVE  New(e)
<1>1. e \notin used
  BY DEF Sequential, Fresh
<1>2. ~ IsLive(e) /\ ~ IsTrashed(e)
  BY <1>1 DEF Numbered
<1>3. ASSUME NEW x \in Entity, IsLive(x), live[x].parent = e PROVE FALSE
  <2>1. e \in Folder
    <3>1. live[x] \in Doc
      BY <1>3 DEF IsLive, TypeInv, TablesOK
    <3> QED BY <1>3, <3>1, IdsAssumption DEF Doc, Container, Entity
  <2> QED BY <1>1, <1>3, <2>1 DEF Numbered
<1> QED BY <1>2, <1>3 DEF New

LEMMA BeginCreate ==
  ASSUME NEW c \in Client, TypeInv, Sequential, Sound(call[c]),
         NEW e \in Entity, NEW p \in Container, NEW b \in BOOLEAN, CreateGetParent(c, e, p, b)
  PROVE  Sound(call[c])'
<1> DEFINE op == IF e \in Folder THEN "create_folder" ELSE "create_item"
           r == Doing(op, "post", e, p, Under(p, b), {}, {})
<1>1. New(e)
  BY FreshIsNew DEF CreateGetParent, Sound
<1>2. Under(p, b) \in Doc
  BY UnderType DEF CreateGetParent, TypeInv
<1>3. Creates(r)
  BY <1>1, <1>2 DEF Creates, Doing, Under, CreateGetParent
<1>4. Knows(r) /\ r.id = e
  BY <1>3 DEF Knows, Updates, Trashes, Purges, Empties, Moves, Climbs, Doing
<1>5. call[c] = Idle /\ Becomes(c, r)
  BY DEF CreateGetParent, Arrive
<1> HIDE DEF r
<1> QED BY <1>4, <1>5, Begins DEF CreateGetParent

LEMMA BeginBorrow ==
  ASSUME NEW c \in Client, TypeInv, Sequential, Sound(call[c]),
         NEW i \in Item, NEW link \in Item, NEW p \in Container, BorrowGetItem(c, i, link, p)
  PROVE  Sound(call[c])'
<1> DEFINE r == Doing("borrow", "parent", link, p, NoDoc, {}, {})
<1>1. New(link) /\ link \in Entity
  BY FreshIsNew DEF BorrowGetItem, Sound, Entity
<1>2. Creates(r)
  BY <1>1 DEF Creates, Doing
<1>3. Knows(r) /\ r.id = link
  BY <1>2 DEF Knows, Updates, Trashes, Purges, Empties, Moves, Climbs, Doing
<1>4. call[c] = Idle /\ Becomes(c, r)
  BY DEF BorrowGetItem, Arrive
<1> HIDE DEF r
<1> QED BY <1>3, <1>4, Begins DEF BorrowGetItem

\* What is placed is filed in the drive of the container that it goes to.
LEMMA PlacingKnows ==
  ASSUME TypeInv, NEW e \in Entity, NEW p \in Container, IsLive(e), Exists(p),
         NEW todo \in SUBSET (Entity \X Folder), todo = {} \/ live[e].parent = p,
         \A t \in todo : IsLive(t[1]) /\ IsLive(t[2]) /\ live[t[1]].parent = t[2],
         NEW doc, doc = Place(e, p).doc, NEW at, at = Place(e, p).at
  PROVE  Knows(Doing("move", at, e, p, doc, todo, {}))
<1> DEFINE r == Doing("move", at, e, p, doc, todo, {})
<1>1. doc \in Doc /\ at \in {"place", "placeAll"}
  BY PlaceType DEF TypeInv
<1>2. doc = Under(p, live[e].borrowed)
  BY DEF Place
<1>3. at = "place" /\ e \in Folder => doc.drive = live[e].drive
  BY DEF Place
<1>4. doc.parent = p /\ doc.borrowed = live[e].borrowed /\ doc.drive = DriveOf(p)
  BY <1>2 DEF Under
<1>5. Moves(r)
  BY <1>1, <1>3, <1>4 DEF Moves, Doing
<1> QED BY <1>5 DEF Knows, Creates, Updates, Trashes, Purges, Empties, Climbs, Doing

LEMMA BeginMove ==
  ASSUME NEW c \in Client, TypeInv, Sound(call[c]),
         NEW e \in Entity, NEW p \in Container, MoveRead(c, e, p)
  PROVE  Sound(call[c])'
<1> DEFINE r == Doing("move", Place(e, p).at, e, p, Place(e, p).doc, {}, {})
<1>1. call[c] = Idle /\ Becomes(c, r) /\ IsLive(e) /\ Exists(p)
  BY DEF MoveRead, Arrive
<1>2. Knows(r)
  BY <1>1, PlacingKnows
<1>3. r.op = "move"
  BY DEF Doing
<1> HIDE DEF r
<1> QED BY <1>1, <1>2, <1>3, Begins DEF MoveRead

LEMMA BeginPath ==
  ASSUME NEW c \in Client, TypeInv, Sound(call[c]), NEW e \in Entity, PathGet(c, e)
  PROVE  Sound(call[c])'
<1> DEFINE r == Doing("path", "drive", e, IF e \in Folder THEN e ELSE live[e].parent, live[e], {}, {})
<1>1. call[c] = Idle /\ Becomes(c, r) /\ IsLive(e)
  BY DEF PathGet, Arrive
<1>2. Climbs(r)
  BY <1>1 DEF Climbs, Doing
<1>3. Knows(r) /\ r.op = "path"
  BY <1>2 DEF Knows, Creates, Updates, Trashes, Purges, Empties, Moves, Doing
<1> HIDE DEF r
<1> QED BY <1>1, <1>3, Begins DEF PathGet

-----------------------------------------------------------------------------
(* Steps in the middle of a request that only read. *)

LEMMA GoBorrow ==
  ASSUME NEW c \in Client, TypeInv, Sound(call[c]), BorrowGetParent(c)
  PROVE  Sound(call[c])'
<1> DEFINE r == [call[c] EXCEPT !.doc = Under(call[c].to, TRUE), !.at = "post"]
<1>1. Settled
  BY SettledFrom DEF Sound, BorrowGetParent, At
<1>2. call[c] \in Call /\ call[c].op = "borrow"
  BY DEF TypeInv, CallsOK, CallOK, BorrowGetParent, At
<1>3. CASE Exists(call[c].to)
  <2>1. Under(call[c].to, TRUE) \in Doc
    BY <1>3, UnderType DEF TypeInv
  <2>2. r.op = "borrow" /\ r.at = "post" /\ r.id = call[c].id /\ r.doc = Under(call[c].to, TRUE)
    BY <1>2 DEF Call
  <2>3. r.id \in Item /\ r.id \in Entity /\ New(r.id) /\ r.id \in used
    BY <1>2, <2>2 DEF Sound, Knows, Creates, Drawn
  <2>4. Creates(r)
    BY <1>3, <2>1, <2>2, <2>3, IdsAssumption DEF Creates, Under
  <2>5. Knows(r)
    BY <2>2, <2>4 DEF Knows, Updates, Trashes, Purges, Empties, Moves, Climbs
  <2>6. Becomes(c, r)
    BY <1>3 DEF BorrowGetParent
  <2> HIDE DEF r
  <2>7. Placed(r) /\ Apart(r)
    BY <1>1, SettledAny
  <2> QED BY <2>3, <2>5, <2>6, <2>7, Reading DEF BorrowGetParent, Sound
<1>4. CASE ~ Exists(call[c].to)
  BY <1>1, <1>4, Ends DEF BorrowGetParent, Sound
<1> QED BY <1>3, <1>4

LEMMA GoPurgeFolder ==
  ASSUME NEW c \in Client, TypeInv, Sound(call[c]), NEW f, PurgeFolder(c, f)
  PROVE  Sound(call[c])'
<1> DEFINE r == [call[c] EXCEPT !.todo = (@ \ {f}) \cup (Children(f) \cap Folder),
                                !.kill = @ \cup Children(f)]
<1>1. Settled
  BY SettledFrom DEF Sound, PurgeFolder, At
<1>2. call[c] \in Call /\ call[c].op = "purge" /\ call[c].at = "gather" /\ f \in call[c].todo
  BY DEF TypeInv, CallsOK, CallOK, PurgeFolder, At
<1>3. /\ r.op = "purge" /\ r.at = "gather" /\ r.id = call[c].id
      /\ r.todo = (call[c].todo \ {f}) \cup (Children(f) \cap Folder)
      /\ r.kill = call[c].kill \cup Children(f)
  BY <1>2 DEF Call
<1>4. /\ call[c].id \in Drive /\ Collected(call[c].kill) /\ TrashOf(call[c].id) \subseteq call[c].kill
      /\ call[c].todo \subseteq call[c].kill \cap Folder
      /\ \A g \in (call[c].kill \cap Folder) \ call[c].todo : Children(g) \subseteq call[c].kill
  BY <1>2 DEF Sound, Knows, Purges
<1> HIDE DEF r
<1>5. Collected(r.kill)
  BY <1>2, <1>3, <1>4 DEF Collected, Children
<1>6. \A g \in (r.kill \cap Folder) \ r.todo : Children(g) \subseteq r.kill
  BY <1>2, <1>3, <1>4
<1>7. Purges(r)
  BY <1>3, <1>4, <1>5, <1>6, <1>2 DEF Purges
<1>8. Knows(r)
  BY <1>3, <1>7 DEF Knows, Creates, Updates, Trashes, Empties, Moves, Climbs
<1>9. Becomes(c, r)
  BY DEF PurgeFolder, r
<1>10. Placed(r) /\ Apart(r)
  BY <1>1, SettledAny
<1> QED BY <1>3, <1>8, <1>9, <1>10, Reading DEF PurgeFolder, Sound

\* Nothing is left in the folders that were collected: all were listed.
LEMMA GoPurgeCollected ==
  ASSUME NEW c \in Client, TypeInv, Sound(call[c]), PurgeCollected(c)
  PROVE  Sound(call[c])'
<1> DEFINE r == [call[c] EXCEPT !.at = "delete"]
<1>1. Settled
  BY SettledFrom DEF Sound, PurgeCollected, At
<1>2. call[c] \in Call /\ call[c].op = "purge" /\ call[c].at = "gather" /\ call[c].todo = {}
  BY DEF TypeInv, CallsOK, CallOK, PurgeCollected, At
<1>3. r.op = "purge" /\ r.at = "delete" /\ r.id = call[c].id /\ r.kill = call[c].kill
  BY <1>2 DEF Call
<1>4. /\ call[c].id \in Drive /\ Collected(call[c].kill) /\ TrashOf(call[c].id) \subseteq call[c].kill
      /\ \A g \in call[c].kill \cap Folder : Children(g) \subseteq call[c].kill
  BY <1>2 DEF Sound, Knows, Purges
<1>5. Becomes(c, r)
  BY DEF PurgeCollected, Goto
<1> HIDE DEF r
<1>6. Cut(r.id, r.kill)
  <2> SUFFICES ASSUME NEW e \in Entity, IsLive(e), e \notin r.kill, live[e].parent \in Folder
               PROVE  LET p == live[e].parent
                      IN  (IsLive(p) /\ p \notin r.kill) \/ (IsTrashed(p) /\ trash[p].drive # r.id)
    BY DEF Cut
  <2>1. live[e].parent \notin r.kill
    BY <1>3, <1>4 DEF Children
  <2>2. IsLive(live[e].parent) \/ IsTrashed(live[e].parent)
    <3>1. Filed(live[e].parent)
      BY <1>1, SettledIs
    <3> QED BY <3>1, IdsAssumption DEF Filed, TypeInv, TablesOK
  <2>3. IsTrashed(live[e].parent) => trash[live[e].parent].drive # r.id
    BY <2>1, <1>3, <1>4 DEF TrashOf, Entity
  <2> QED BY <2>1, <2>2, <2>3
<1>7. Purges(r)
  BY <1>3, <1>4, <1>6 DEF Purges
<1>8. Knows(r)
  BY <1>3, <1>7 DEF Knows, Creates, Updates, Trashes, Empties, Moves, Climbs
<1>9. Placed(r) /\ Apart(r)
  BY <1>1, SettledAny
<1> QED BY <1>3, <1>5, <1>8, <1>9, Reading DEF PurgeCollected, Sound

\* All that was collected is deleted: the tree is settled again.
LEMMA GoPurgeRequery ==
  ASSUME NEW c \in Client, TypeInv, Sound(call[c]), PurgeRequery(c)
  PROVE  Sound(call[c])'
<1> DEFINE r == [call[c] EXCEPT !.at = "clear", !.kill = TrashOf(call[c].id)]
<1>1. call[c] \in Call /\ call[c].op = "purge" /\ call[c].at = "delete" /\ call[c].kill = {}
  BY DEF TypeInv, CallsOK, CallOK, PurgeRequery, At
<1>2. Settled
  BY <1>1 DEF Sound, Settled, Placed, Apart, Doomed, Awaits
<1>3. CASE TrashOf(call[c].id) = {}
  BY <1>2, <1>3, Ends DEF PurgeRequery, Sound
<1>4. CASE TrashOf(call[c].id) # {}
  <2>1. r.op = "purge" /\ r.at = "clear" /\ r.id = call[c].id /\ r.kill = TrashOf(call[c].id)
    BY <1>1 DEF Call
  <2>2. Becomes(c, r)
    BY <1>4 DEF PurgeRequery
  <2> HIDE DEF r
  <2>3. Purges(r)
    BY <1>1, <2>1 DEF Sound, Knows, Purges
  <2>4. Knows(r)
    BY <2>1, <2>3 DEF Knows, Creates, Updates, Trashes, Empties, Moves, Climbs
  <2>5. Placed(r) /\ Apart(r)
    BY <1>2, SettledAny
  <2> QED BY <2>1, <2>2, <2>4, <2>5, Reading DEF PurgeRequery, Sound
<1> QED BY <1>3, <1>4

LEMMA GoDeleteDrive ==
  ASSUME NEW c \in Client, TypeInv, Sound(call[c]),
         (\E q : DeleteDriveSecondQuery(c, q)) \/ DeleteDriveGet(c)
  PROVE  Sound(call[c])'
<1>1. call[c] \in Call /\ call[c].op = "delete_drive"
  BY DEF TypeInv, CallsOK, CallOK, DeleteDriveSecondQuery, DeleteDriveGet, At
<1>2. Settled
  BY <1>1, SettledFrom DEF Sound
<1>3. call[c].id \in Drive /\ (call[c].at # "children" => Children(call[c].id) = {})
  BY <1>1 DEF Sound, Knows, Empties
<1>4. ASSUME NEW step \in {"get", "unlink"}, Goto(c, step), Children(call[c].id) = {},
             live' = live, trash' = trash, drives' = drives, used' = used
      PROVE  Sound(call[c])'
  <2> DEFINE r == [call[c] EXCEPT !.at = step]
  <2>1. r.op = "delete_drive" /\ r.at = step /\ r.id = call[c].id
    BY <1>1 DEF Call
  <2>2. Becomes(c, r)
    BY <1>4 DEF Goto
  <2> HIDE DEF r
  <2>3. Knows(r)
    BY <1>3, <1>4, <2>1 DEF Knows, Creates, Updates, Trashes, Purges, Empties, Moves, Climbs
  <2>4. Placed(r) /\ Apart(r)
    BY <1>2, SettledAny
  <2> QED BY <1>4, <2>1, <2>2, <2>3, <2>4, Reading DEF Sound
<1>5. ASSUME NEW q, DeleteDriveSecondQuery(c, q) PROVE Sound(call[c])'
  <2>1. CASE DriveIsEmpty(call[c].id, q)
    <3>1. Children(call[c].id) = {}
      BY <1>3, <1>5, <2>1 DEF DeleteDriveSecondQuery, DriveIsEmpty, At
    <3> QED BY <1>4, <1>5, <2>1, <3>1 DEF DeleteDriveSecondQuery
  <2>2. CASE ~ DriveIsEmpty(call[c].id, q)
    BY <1>2, <1>5, <2>2, Ends DEF DeleteDriveSecondQuery, Sound
  <2> QED BY <2>1, <2>2
<1>6. ASSUME DeleteDriveGet(c) PROVE Sound(call[c])'
  <2>1. CASE call[c].id \in drives
    BY <1>3, <1>4, <1>6, <2>1 DEF DeleteDriveGet, At
  <2>2. CASE call[c].id \notin drives
    BY <1>2, <1>6, <2>2, Ends DEF DeleteDriveGet, Sound
  <2> QED BY <2>1, <2>2
<1> QED BY <1>5, <1>6

\* The climb is in the tree, from a folder to the one it is in.
LEMMA ClimbsOn ==
  ASSUME TypeInv, Settled, Solid, NEW f \in Folder, IsLive(f), Attached(f), ~ AtRoot(f)
  PROVE  live[f].parent \in Folder /\ IsLive(live[f].parent) /\ Attached(live[f].parent)
<1> DEFINE p == live[f].parent
<1>0. f \in Entity /\ live[f] \in Doc
  BY DEF Entity, TypeInv, TablesOK, IsLive
<1>1. p \in Folder
  <2>1. InDriveOf(f, p)
    BY <1>0, SettledIs DEF Follows, Solid
  <2> QED BY <2>1 DEF InDriveOf, AtRoot
<1>2. IsLive(p)
  <2>1. ASSUME ~ IsLive(p) PROVE FALSE
    <3>1. {f} \in SUBSET {x \in Entity : IsLive(x)}
      BY <1>0
    <3>2. \E x \in {f} : live[x].parent \in drives
      BY <2>1, <3>1 DEF Attached
    <3> QED BY <3>2, <1>1, IdsAssumption DEF TypeInv, TablesOK
  <2> QED BY <2>1
<1>3. Attached(p)
  <2> SUFFICES ASSUME NEW S \in SUBSET {x \in Entity : IsLive(x)}, p \in S,
                      \A x \in S : live[x].parent \in Folder /\ IsLive(live[x].parent)
                                     => live[x].parent \in S
               PROVE  \E x \in S : live[x].parent \in drives
    BY DEF Attached
  <2>1. S \cup {f} \in SUBSET {x \in Entity : IsLive(x)}
    BY <1>0
  <2>2. \A x \in S \cup {f} : live[x].parent \in Folder /\ IsLive(live[x].parent)
                                => live[x].parent \in S \cup {f}
    OBVIOUS
  <2>3. \E x \in S \cup {f} : live[x].parent \in drives
    BY <2>1, <2>2 DEF Attached
  <2>4. p \notin drives
    BY <1>1, IdsAssumption DEF TypeInv, TablesOK
  <2> QED BY <2>3, <2>4
<1> QED BY <1>1, <1>2, <1>3

LEMMA GoPath ==
  ASSUME NEW c \in Client, TypeInv, Sound(call[c]), PathGetDrive(c) \/ PathGetFolder(c)
  PROVE  Sound(call[c])'
<1>1. call[c] \in Call /\ call[c].op = "path"
  BY DEF TypeInv, CallsOK, CallOK, PathGetDrive, PathGetFolder, At
<1>2. Settled
  BY <1>1, SettledFrom DEF Sound
<1>3. Climbs(call[c])
  BY DEF Sound, Knows
<1>4. ASSUME NEW r, Becomes(c, r), r.op = "path", Climbs(r), live' = live, trash' = trash,
             drives' = drives, used' = used
      PROVE  Sound(call[c])'
  <2>1. Knows(r)
    BY <1>4 DEF Knows, Creates, Updates, Trashes, Purges, Empties, Moves
  <2>2. Placed(r) /\ Apart(r)
    BY <1>2, SettledAny
  <2> QED BY <1>4, <2>1, <2>2, Reading DEF Sound
<1>5. CASE PathGetDrive(c)
  <2> DEFINE r == [call[c] EXCEPT !.at = "climb"]
  <2>1. CASE call[c].doc.drive \in drives
    <3>1. r.op = "path" /\ r.at = "climb" /\ r.id = call[c].id /\ r.to = call[c].to
      BY <1>1 DEF Call
    <3>2. Becomes(c, r)
      BY <1>5, <2>1 DEF PathGetDrive, Goto
    <3> HIDE DEF r
    <3>3. Climbs(r)
      BY <1>1, <1>3, <3>1 DEF Climbs
    <3> QED BY <1>4, <1>5, <3>1, <3>2, <3>3 DEF PathGetDrive
  <2>2. CASE call[c].doc.drive \notin drives
    BY <1>2, <1>5, <2>2, Ends DEF PathGetDrive, Sound
  <2> QED BY <2>1, <2>2
<1>6. CASE PathGetFolder(c)
  <2> DEFINE f == call[c].to
             r == [call[c] EXCEPT !.to = live[f].parent]
  <2>1. CASE f \in Folder /\ IsLive(f) /\ ~ AtRoot(f)
    <3>1. /\ r.op = "path" /\ r.at = call[c].at /\ r.id = call[c].id /\ r.to = live[f].parent
          /\ call[c].at = "climb"
      BY <1>1, <1>6 DEF Call, PathGetFolder, At
    <3>2. Becomes(c, r)
      BY <1>6, <2>1 DEF PathGetFolder
    <3>3. r.id \in Folder /\ Attached(r.id)
            => r.to \in Folder /\ IsLive(r.to) /\ Attached(r.to)
      BY <1>1, <1>2, <1>3, <2>1, <3>1, ClimbsOn DEF Climbs, Sound
    <3> HIDE DEF r
    <3>4. Climbs(r)
      BY <1>1, <1>3, <3>1, <3>3 DEF Climbs
    <3> QED BY <1>4, <1>6, <3>1, <3>2, <3>4 DEF PathGetFolder
  <2>2. CASE ~ (f \in Folder /\ IsLive(f) /\ ~ AtRoot(f))
    BY <1>2, <1>6, <2>2, Ends DEF PathGetFolder, Sound
  <2> QED BY <2>1, <2>2
<1> QED BY <1>5, <1>6

-----------------------------------------------------------------------------
(* Moves *)

\* What remains to be moved after a step is all that is not where it should be.
LEMMA MoveOnSound ==
  ASSUME NEW c \in Client, TypeInv, NEW todo \in SUBSET (Entity \X Folder), MoveOn(c, todo),
         Numbered', Solid', Apart(Idle)',
         \A t \in todo : IsLive(t[1])' /\ IsLive(t[2])' /\ live'[t[1]].parent = t[2],
         \A e \in Entity : IsLive(e)' =>
           Filed(live[e].parent)' /\ (Follows(e)' \/ <<e, live'[e].parent>> \in todo)
  PROVE  Sound(call[c])'
<1> DEFINE r == IF todo = {} THEN Idle ELSE Doing("move", "next", NoId, NoId, NoDoc, todo, {})
<1>1. call'[c] = r
  BY DEF MoveOn, Finish, Becomes, TypeInv, CallsOK
<1>2. /\ r.op \in {"none", "move"} /\ (r.op = "move" => r.at = "next" /\ todo # {})
      /\ r.todo = todo
  BY DEF Idle, Doing
<1>3. todo # {} => r.op = "move" /\ r.at = "next"
  BY DEF Doing
<1> HIDE DEF r
<1>4. Placed(call[c])'
  BY <1>1, <1>2, <1>3 DEF Placed, Awaits
<1>5. Apart(call[c])'
  BY <1>1, <1>2 DEF Apart, Idle, Doing
<1>6. Moves(call[c])'
  BY <1>1, <1>2 DEF Moves
<1>7. Knows(call[c])' /\ Drawn(call[c])'
  BY <1>1, <1>2, <1>6 DEF Knows, Drawn, Creates, Updates, Trashes, Purges, Empties, Climbs
<1> QED BY <1>4, <1>5, <1>7 DEF Sound

LEMMA MoveTodo ==
  ASSUME NEW c \in Client, Sound(call[c]), call[c].op = "move"
  PROVE  /\ call[c].todo \in SUBSET (Entity \X Folder) /\ Apart(Idle)
         /\ \A t \in call[c].todo : IsLive(t[1]) /\ IsLive(t[2]) /\ live[t[1]].parent = t[2]
BY DEF Sound, Knows, Moves, Apart

\* A step that reads nothing but the tables leaves what the tables say.
LEMMA SameTables ==
  ASSUME live' = live, trash' = trash, drives' = drives, used' = used, Numbered, Solid, Apart(Idle)
  PROVE  Numbered' /\ Solid' /\ Apart(Idle)'
BY DEF Numbered, Solid, Apart, IsLive, IsTrashed, Idle, Doing

LEMMA SamePlace ==
  ASSUME live' = live, trash' = trash, drives' = drives, NEW e, Filed(live[e].parent)
  PROVE  Filed(live[e].parent)' /\ (Follows(e) => Follows(e)')
<1>1. Follows(e)' <=> Follows(e)
  BY DEF Follows, InDriveOf
<1>2. Filed(live[e].parent)'
  BY DEF Filed, IsLive, IsTrashed
<1> QED BY <1>1, <1>2

LEMMA GoMoveChildren ==
  ASSUME NEW c \in Client, TypeInv, Sound(call[c]), MoveChildren(c)
  PROVE  Sound(call[c])'
<1> DEFINE f == call[c].id
           followers == {e \in Children(f) : e \in Item => ~ live[e].borrowed}
           todo == call[c].todo \cup (followers \X {f})
<1>1. call[c].op = "move" /\ call[c].at = "children" /\ f \in Folder /\ IsLive(f)
  BY DEF MoveChildren, At, Sound, Knows, Moves
<1>2. MoveOn(c, todo)
  BY DEF MoveChildren
<1>3. \A e \in followers : e \in Entity /\ IsLive(e) /\ live[e].parent = f
  BY DEF Children
<1>4. /\ todo \in SUBSET (Entity \X Folder)
      /\ \A t \in todo : IsLive(t[1]) /\ IsLive(t[2]) /\ live[t[1]].parent = t[2]
  BY <1>1, <1>3, MoveTodo
<1>5. ASSUME NEW e \in Entity, IsLive(e)
      PROVE  Filed(live[e].parent) /\ (Follows(e) \/ <<e, live[e].parent>> \in todo)
  <2>1. Filed(live[e].parent) /\ (Follows(e) \/ Awaits(call[c], e))
    BY <1>1, <1>5 DEF Sound, Placed, Doomed
  <2>2. ASSUME live[e].parent = f, ~ Follows(e) PROVE e \in followers
    BY <1>5, <2>2 DEF Follows, Children
  <2> QED BY <1>1, <2>1, <2>2 DEF Awaits
<1>6. live' = live /\ trash' = trash /\ drives' = drives /\ used' = used
  BY DEF MoveChildren
<1>7. Numbered /\ Solid /\ Apart(Idle)
  BY <1>1, MoveTodo DEF Sound
<1>8. PICK left : left = todo
  OBVIOUS
<1> HIDE DEF todo
<1>9. ASSUME NEW e \in Entity, IsLive(e)'
      PROVE  Filed(live[e].parent)' /\ (Follows(e)' \/ <<e, live'[e].parent>> \in left)
  <2>1. IsLive(e)
    BY <1>6, <1>9 DEF IsLive
  <2>2. Filed(live[e].parent) /\ (Follows(e) \/ <<e, live[e].parent>> \in left)
    BY <1>5, <1>8, <2>1
  <2>3. Filed(live[e].parent)' /\ (Follows(e) => Follows(e)')
    BY <1>6, <2>2, SamePlace
  <2> QED BY <1>6, <2>2, <2>3
<1>10. Numbered' /\ Solid' /\ Apart(Idle)'
  BY <1>6, <1>7, SameTables
<1>11. /\ left \in SUBSET (Entity \X Folder) /\ MoveOn(c, left)
       /\ \A t \in left : IsLive(t[1])' /\ IsLive(t[2])' /\ live'[t[1]].parent = t[2]
  BY <1>2, <1>4, <1>6, <1>8 DEF IsLive
<1> QED BY <1>9, <1>10, <1>11, MoveOnSound

LEMMA GoMoveNext ==
  ASSUME NEW c \in Client, TypeInv, Sound(call[c]), NEW e \in Entity, NEW f \in Folder,
         MoveNext(c, e, f)
  PROVE  Sound(call[c])'
<1> DEFINE left == call[c].todo \ {<<e, f>>}
           r == Doing("move", Place(e, f).at, e, f, Place(e, f).doc, left, {})
<1>1. call[c].op = "move" /\ call[c].at = "next" /\ <<e, f>> \in call[c].todo
  BY DEF MoveNext, At
<1>2. IsLive(e) /\ IsLive(f) /\ Exists(f) /\ live[e].parent = f
  BY <1>1, MoveTodo DEF Exists
<1>3. Becomes(c, r)
  BY <1>2 DEF MoveNext
<1>4. f \in Container
  BY DEF Container
<1>5. Knows(r)
  BY <1>1, <1>2, <1>4, MoveTodo, PlacingKnows
<1>6. r.op = "move" /\ r.at \in {"place", "placeAll"} /\ r.id = e /\ r.todo = left
  BY <1>2, PlaceType DEF Doing, TypeInv
<1> HIDE DEF r
<1>7. Placed(r)
  <2> SUFFICES ASSUME NEW x \in Entity, IsLive(x)
               PROVE  Filed(live[x].parent) /\ (Follows(x) \/ Awaits(r, x))
    BY DEF Placed
  <2>1. Filed(live[x].parent) /\ (Follows(x) \/ Awaits(call[c], x))
    BY <1>1 DEF Sound, Placed, Doomed
  <2> QED BY <2>1, <1>1, <1>6 DEF Awaits
<1>8. Apart(r)
  BY <1>1, <1>6 DEF Sound, Apart
<1> QED BY <1>3, <1>5, <1>6, <1>7, <1>8, Reading DEF MoveNext, Sound

\* The document written is in the drive of its container, also when that is itself.
LEMMA GoMovePlace ==
  ASSUME NEW c \in Client, TypeInv, Sound(call[c]), MovePlace(c)
  PROVE  Sound(call[c])'
<1>0. PICK m, d, p : m = call[c].id /\ d = call[c].doc /\ p = call[c].to
  OBVIOUS
<1>1. /\ call[c] \in Call /\ call[c].op = "move" /\ call[c].at \in {"place", "placeAll"}
      /\ m \in Entity /\ IsLive(m) /\ d \in Doc /\ d.parent = p /\ d.borrowed = live[m].borrowed
      /\ Exists(p) /\ d.drive = DriveOf(p)
      /\ call[c].todo = {} \/ live[m].parent = p
      /\ call[c].at = "place" /\ m \in Folder => d.drive = live[m].drive
  BY <1>0 DEF MovePlace, At, TypeInv, CallsOK, CallOK, Sound, Knows, Moves
<1>2. /\ live \in [Entity -> Doc \cup {NoDoc}] /\ live' = [live EXCEPT ![m] = d]
      /\ trash' = trash /\ drives' = drives /\ used' = used /\ drives \in SUBSET Drive
  BY <1>0 DEF MovePlace, TypeInv, TablesOK
<1>3. /\ live'[m] = d /\ d # NoDoc /\ \A e \in Entity : e # m => live'[e] = live[e]
      /\ \A e \in Entity : IsLive(e)' <=> IsLive(e)
  BY <1>1, <1>2, NoDocAssumption DEF IsLive
<1>4. p \in drives \/ (p \in Folder /\ p \in Entity /\ IsLive(p))
  BY <1>1 DEF Exists, Entity
<1>5. \A e \in Entity : IsTrashed(e)' <=> IsTrashed(e)
  BY <1>2 DEF IsTrashed
<1>6. Apart(Idle) /\ Apart(Idle)'
  BY <1>3, <1>5, <1>1, MoveTodo DEF Apart, Idle, Doing
<1>7. Solid'
  BY <1>1, <1>3 DEF Sound, Solid, Entity
<1>8. Numbered'
  BY <1>1, <1>2, <1>3, <1>4, <1>5, IdsAssumption DEF Sound, Numbered
<1>9. \A q : Filed(q) => Filed(q)'
  BY <1>2, <1>3, <1>5 DEF Filed, Entity
<1>10. Filed(p)'
  BY <1>4, <1>9 DEF Filed
<1>11. ASSUME NEW e \in Entity, e # m, InDriveOf(e, live[e].parent),
              call[c].at = "place" \/ live[e].parent # m
       PROVE  InDriveOf(e, live[e].parent)'
  <2> DEFINE q == live[e].parent
  <2>1. live'[e] = live[e]
    BY <1>3, <1>11
  <2>2. CASE q \in Drive
    BY <1>11, <2>1, <2>2, IdsAssumption DEF InDriveOf
  <2>3. CASE q \in Folder
    <3>1. PICK doc \in {live[q], trash[q]} : doc # NoDoc /\ doc.drive = live[e].drive
      BY <1>11, <2>3, IdsAssumption DEF InDriveOf
    <3>2. CASE q # m \/ doc = trash[q]
      <4>1. doc \in {live'[q], trash'[q]}
        BY <1>2, <1>3, <2>3, <3>1, <3>2 DEF Entity
      <4> QED BY <2>1, <2>3, <3>1, <4>1 DEF InDriveOf
    <3>3. CASE q = m /\ doc = live[m]
      <4>1. d.drive = live[e].drive
        BY <1>1, <1>11, <2>3, <3>1, <3>3
      <4> QED BY <1>3, <2>1, <2>3, <3>3, <4>1 DEF InDriveOf
    <3> QED BY <3>1, <3>2, <3>3
  <2> QED BY <2>2, <2>3, <1>11 DEF InDriveOf
<1>12. InDriveOf(m, live[m].parent)'
  <2>1. live'[m].parent = p /\ live'[m].drive = d.drive
    BY <1>1, <1>3
  <2>2. CASE p \in drives
    BY <1>1, <1>2, <2>1, <2>2 DEF InDriveOf, DriveOf
  <2>3. CASE p \in Folder /\ IsLive(p)
    <3>1. p \in Entity /\ p \notin Drive
      BY <2>3, IdsAssumption DEF Entity
    <3>2. live'[p] # NoDoc /\ live'[p].drive = d.drive
      <4>1. CASE p = m
        BY <4>1, <1>3
      <4>2. CASE p # m
        BY <4>2, <1>1, <1>3, <2>3, <3>1 DEF DriveOf, IsLive
      <4> QED BY <4>1, <4>2
    <3> QED BY <2>1, <2>3, <3>2 DEF InDriveOf
  <2> QED BY <1>4, <2>2, <2>3
<1>13. ASSUME NEW e \in Entity, IsLive(e)'
       PROVE  /\ Filed(live[e].parent)'
              /\ \/ Follows(e)' \/ (<<e, live'[e].parent>> \in call[c].todo /\ e # m)
                 \/ call[c].at = "placeAll" /\ live'[e].parent = m
  <2>1. CASE e = m
    BY <1>1, <1>3, <1>10, <1>12, <2>1 DEF Follows
  <2>2. CASE e # m
    <3>1. IsLive(e) /\ live'[e] = live[e]
      BY <1>3, <1>13, <2>2
    <3>2. Filed(live[e].parent) /\ (Follows(e) \/ Awaits(call[c], e))
      BY <1>1, <3>1 DEF Sound, Placed, Doomed
    <3>3. Filed(live[e].parent)'
      BY <1>9, <3>1, <3>2
    <3>4. Awaits(call[c], e) => <<e, live'[e].parent>> \in call[c].todo
      BY <1>0, <1>1, <2>2, <3>1 DEF Awaits
    <3>5. Follows(e) => Follows(e)' \/ (call[c].at = "placeAll" /\ live'[e].parent = m)
      BY <1>1, <1>11, <2>2, <3>1 DEF Follows
    <3> QED BY <2>2, <3>2, <3>3, <3>4, <3>5
  <2> QED BY <2>1, <2>2
<1>14. \A t \in call[c].todo : IsLive(t[1])' /\ IsLive(t[2])' /\ live'[t[1]].parent = t[2]
  <2> SUFFICES ASSUME NEW t \in call[c].todo
               PROVE  IsLive(t[1])' /\ IsLive(t[2])' /\ live'[t[1]].parent = t[2]
    OBVIOUS
  <2>1. t[1] \in Entity /\ t[2] \in Entity /\ IsLive(t[1]) /\ IsLive(t[2]) /\ live[t[1]].parent = t[2]
    BY <1>1, MoveTodo DEF Entity
  <2> QED BY <2>1, <1>1, <1>3
<1>15. CASE call[c].at = "place"
  <2>1. MoveOn(c, call[c].todo)
    BY <1>15 DEF MovePlace
  <2>2. call[c].todo \in SUBSET (Entity \X Folder)
    BY <1>1, MoveTodo
  <2> QED BY <2>1, <2>2, <1>6, <1>7, <1>8, <1>13, <1>14, <1>15, MoveOnSound
<1>16. CASE call[c].at = "placeAll"
  <2> DEFINE r == [call[c] EXCEPT !.at = "children"]
  <2>1. r.op = "move" /\ r.at = "children" /\ r.id = m /\ r.todo = call[c].todo
    BY <1>0, <1>1 DEF Call
  <2>2. call'[c] = r
    BY <1>16 DEF MovePlace, Goto, Becomes, TypeInv, CallsOK
  <2> HIDE DEF r
  <2>3. m \in Folder
    BY <1>0, <1>1, <1>16 DEF TypeInv, CallsOK, CallOK
  <2>4. Moves(call[c])'
    BY <2>1, <2>2, <2>3, <1>1, <1>3, <1>14, MoveTodo DEF Moves
  <2>5. Placed(call[c])'
    BY <2>1, <2>2, <1>13 DEF Placed, Awaits
  <2>6. Apart(call[c])'
    BY <2>1, <2>2, <1>6 DEF Apart, Idle, Doing
  <2>7. Knows(call[c])' /\ Drawn(call[c])'
    BY <2>1, <2>2, <2>4 DEF Knows, Drawn, Creates, Updates, Trashes, Purges, Empties, Climbs
  <2> QED BY <2>5, <2>6, <2>7, <1>7, <1>8 DEF Sound
<1> QED BY <1>1, <1>15, <1>16

-----------------------------------------------------------------------------
(* Steps that write *)

LEMMA EndsSettled ==
  ASSUME NEW c \in Client, call'[c] = Idle, Settled', Numbered', Solid'
  PROVE  Sound(call[c])'
<1>1. Placed(call[c])' /\ Apart(call[c])'
  BY DEF Settled, Placed, Apart, Idle, Doing, Doomed, Awaits
<1>2. Knows(call[c])' /\ Drawn(call[c])'
  BY DEF Knows, Drawn, Creates, Updates, Trashes, Purges, Empties, Moves, Climbs, Idle, Doing
<1> QED BY <1>1, <1>2 DEF Sound

\* Drives that come and go: one goes when nothing is in it.
LEMMA GoDrives ==
  ASSUME NEW c \in Client, TypeInv, Sound(call[c]), Settled, call'[c] = Idle,
         live' = live, trash' = trash, used' = used,
         \A d \in drives \ drives' : \A e \in Entity : IsLive(e) => live[e].parent # d
  PROVE  Sound(call[c])'
<1>1. Numbered' /\ Solid'
  BY DEF Sound, Numbered, Solid, IsLive, IsTrashed
<1>2. ASSUME NEW e \in Entity, IsLive(e)'
      PROVE  Filed(live[e].parent)' /\ Follows(e)' /\ ~ IsTrashed(e)'
  <2>1. IsLive(e)
    BY <1>2 DEF IsLive
  <2>2. Filed(live[e].parent) /\ Follows(e) /\ ~ IsTrashed(e)
    BY <2>1, SettledIs
  <2>3. Filed(live[e].parent)'
    BY <2>1, <2>2 DEF Filed, IsLive, IsTrashed
  <2>4. Follows(e)'
    BY <2>2 DEF Follows, InDriveOf
  <2> QED BY <2>2, <2>3, <2>4 DEF IsTrashed
<1>3. Settled'
  BY <1>2 DEF Settled, Placed, Apart
<1> QED BY <1>1, <1>3, EndsSettled

LEMMA GoCreateDrive ==
  ASSUME NEW c \in Client, TypeInv, Sound(call[c]), NEW d, NEW g, CreateDrive(c, d, g)
  PROVE  Sound(call[c])'
<1>1. Settled
  BY SettledFrom DEF Sound, CreateDrive, Idle, Doing
<1> QED BY <1>1, GoDrives DEF CreateDrive, PostDrive

LEMMA GoUpdateDrive ==
  ASSUME NEW c \in Client, TypeInv, Sound(call[c]), UpdateDrivePost(c)
  PROVE  Sound(call[c])'
<1>1. Settled
  BY SettledFrom DEF Sound, UpdateDrivePost, At
<1>2. call'[c] = Idle
  BY DEF UpdateDrivePost, Finish, Becomes, TypeInv, CallsOK
<1> QED BY <1>1, <1>2, GoDrives DEF UpdateDrivePost, PostDrive

LEMMA GoDeleteDriveDelete ==
  ASSUME NEW c \in Client, TypeInv, Sound(call[c]), DeleteDriveDelete(c)
  PROVE  Sound(call[c])'
<1>1. Settled
  BY SettledFrom DEF Sound, DeleteDriveDelete, At
<1>2. call'[c] = Idle
  BY DEF DeleteDriveDelete, Finish, Becomes, TypeInv, CallsOK
<1>3. Children(call[c].id) = {}
  BY DEF Sound, Knows, Empties, DeleteDriveDelete, At
<1>4. \A e \in Entity : IsLive(e) => live[e].parent # call[c].id
  BY <1>3 DEF Children
<1> QED BY <1>1, <1>2, <1>4, GoDrives DEF DeleteDriveDelete

\* An entity that is new takes its place; one that is renamed keeps its own.
LEMMA GoPost ==
  ASSUME NEW c \in Client, TypeInv, Sound(call[c]), Post(c)
  PROVE  Sound(call[c])'
<1>0. PICK m, d : m = call[c].id /\ d = call[c].doc
  OBVIOUS
<1>1. Settled /\ call'[c] = Idle
  BY SettledFrom DEF Sound, Post, At, Finish, Becomes, TypeInv, CallsOK
<1>2. /\ live \in [Entity -> Doc \cup {NoDoc}] /\ live' = [live EXCEPT ![m] = d]
      /\ trash' = trash /\ drives' = drives /\ used' = used /\ drives \in SUBSET Drive
  BY <1>0 DEF Post, TypeInv, TablesOK
<1>3. CASE call[c].op = "update"
  <2>1. live' = live
    BY <1>0, <1>2, <1>3 DEF Sound, Knows, Updates
  <2>2. \A e \in drives \ drives' : FALSE
    BY <1>2
  <2> QED BY <1>1, <1>2, <2>1, <2>2, GoDrives
<1>4. CASE call[c].op \in {"create_folder", "create_item", "borrow"}
  <2>1. /\ m \in Entity /\ New(m) /\ m \in used /\ d \in Doc /\ Exists(d.parent)
        /\ d.drive = DriveOf(d.parent) /\ (m \in Folder => ~ d.borrowed)
    BY <1>0, <1>4 DEF Sound, Knows, Creates, Drawn, Post, At
  <2>2. /\ live'[m] = d /\ d # NoDoc /\ \A e \in Entity : e # m => live'[e] = live[e]
        /\ \A e \in Entity : IsLive(e) => IsLive(e)'
    BY <1>2, <2>1, NoDocAssumption DEF IsLive
  <2>3. \A q : Filed(q) => Filed(q)'
    BY <1>2, <2>2 DEF Filed, Entity, IsTrashed
  <2>4. d.parent \in drives \/ (d.parent \in Folder /\ d.parent \in Entity /\ IsLive(d.parent))
    BY <2>1 DEF Exists, Entity
  <2>5. Filed(d.parent)'
    BY <2>3, <2>4 DEF Filed
  <2>6. ASSUME NEW e \in Entity, IsLive(e)'
        PROVE  Filed(live[e].parent)' /\ Follows(e)' /\ ~ IsTrashed(e)'
    <3>1. CASE e = m
      <4>1. InDriveOf(m, d.parent)'
        <5>1. CASE d.parent \in drives
          BY <1>2, <2>1, <2>2, <5>1 DEF InDriveOf, DriveOf
        <5>2. CASE d.parent \in Folder /\ d.parent \in Entity /\ IsLive(d.parent)
          <6>1. d.parent # m
            BY <2>1, <5>2 DEF New
          <6>2. live'[d.parent] # NoDoc /\ live'[d.parent].drive = d.drive
            BY <2>1, <2>2, <5>2, <6>1, IdsAssumption DEF DriveOf, IsLive
          <6> QED BY <2>2, <5>2, <6>2 DEF InDriveOf
        <5> QED BY <2>4, <5>1, <5>2
      <4> QED BY <1>2, <2>1, <2>2, <2>5, <3>1, <4>1 DEF Follows, New, IsTrashed
    <3>2. CASE e # m
      <4>1. IsLive(e) /\ live'[e] = live[e]
        BY <2>2, <2>6, <3>2 DEF IsLive
      <4>2. Filed(live[e].parent) /\ Follows(e) /\ ~ IsTrashed(e)
        BY <1>1, <4>1, SettledIs
      <4>3. InDriveOf(e, live[e].parent) => InDriveOf(e, live[e].parent)'
        <5>1. live[e].parent # m
          BY <2>1, <4>1 DEF New
        <5>2. live[e].parent \in Folder => live'[live[e].parent] = live[live[e].parent]
          BY <2>2, <5>1 DEF Entity
        <5> QED BY <1>2, <4>1, <5>2 DEF InDriveOf
      <4> QED BY <1>2, <2>3, <4>1, <4>2, <4>3 DEF Follows, IsTrashed
    <3> QED BY <3>1, <3>2
  <2>7. Numbered'
    <3>1. \A e \in Entity : IsTrashed(e)' <=> IsTrashed(e)
      BY <1>2 DEF IsTrashed
    <3>2. d.parent \in Folder => d.parent \in used
      BY <2>4, IdsAssumption DEF Sound, Numbered, TypeInv, TablesOK
    <3> QED BY <1>2, <2>1, <2>2, <3>1, <3>2 DEF Sound, Numbered, IsLive
  <2>8. Solid'
    BY <2>1, <2>2 DEF Sound, Solid, IsLive, Entity
  <2>9. Settled'
    BY <2>6 DEF Settled, Placed, Apart
  <2> QED BY <1>1, <2>7, <2>8, <2>9, EndsSettled
<1> QED BY <1>3, <1>4 DEF Post, At

\* Its copy in the trash is of the same drive as what is in it.
LEMMA GoQueueDeletePost ==
  ASSUME NEW c \in Client, TypeInv, Sound(call[c]), QueueDeletePost(c)
  PROVE  Sound(call[c])'
<1>0. PICK m, d : m = call[c].id /\ d = call[c].doc
  OBVIOUS
<1>1. /\ Settled /\ call[c] \in Call /\ call[c].op = "queue_delete" /\ call[c].at = "trash"
      /\ m \in Entity /\ IsLive(m) /\ d = live[m] /\ ~ IsTrashed(m)
  BY <1>0, SettledFrom DEF Sound, Knows, Trashes, QueueDeletePost, At, TypeInv, CallsOK, CallOK
<1>2. /\ trash \in [Entity -> Doc \cup {NoDoc}] /\ trash' = [trash EXCEPT ![m] = d]
      /\ live' = live /\ drives' = drives /\ used' = used
  BY <1>0 DEF QueueDeletePost, TypeInv, TablesOK
<1> DEFINE r == [call[c] EXCEPT !.at = "unlink"]
<1>3. r.op = "queue_delete" /\ r.at = "unlink" /\ r.id = m /\ r.doc = d
  BY <1>0, <1>1 DEF Call
<1>4. call'[c] = r
  BY DEF QueueDeletePost, Goto, Becomes, TypeInv, CallsOK
<1> HIDE DEF r
<1>5. /\ trash'[m] = d /\ d # NoDoc /\ \A e \in Entity : e # m => trash'[e] = trash[e]
      /\ \A e \in Entity : IsLive(e)' <=> IsLive(e)
      /\ \A e \in Entity : IsTrashed(e) => IsTrashed(e)'
  BY <1>1, <1>2 DEF IsLive, IsTrashed
<1>6. Trashes(call[c])'
  BY <1>1, <1>2, <1>3, <1>4, <1>5 DEF Trashes
<1>7. Knows(call[c])' /\ Drawn(call[c])'
  BY <1>3, <1>4, <1>6 DEF Knows, Drawn, Creates, Updates, Purges, Empties, Moves, Climbs
<1>8. ASSUME NEW e \in Entity, IsLive(e)
      PROVE  Filed(live[e].parent)' /\ Follows(e)' /\ (IsTrashed(e)' => e = m)
  <2>1. Filed(live[e].parent) /\ Follows(e) /\ ~ IsTrashed(e)
    BY <1>1, <1>8, SettledIs
  <2>2. Filed(live[e].parent)'
    BY <1>2, <1>5, <2>1 DEF Filed, Entity
  <2>3. Follows(e)'
    <3>1. CASE live[e].parent \in Folder /\ live[e].parent # m
      BY <1>2, <1>5, <2>1, <3>1 DEF Follows, InDriveOf, Entity
    <3>2. CASE live[e].parent = m
      <4>1. \A doc \in {live[m], trash[m]} : doc # NoDoc => doc = live[m]
        BY <1>1 DEF IsTrashed
      <4>2. m \in Folder => live[m] \in {live'[m], trash'[m]}
        BY <1>2
      <4> QED BY <1>2, <2>1, <3>2, <4>1, <4>2 DEF Follows, InDriveOf
    <3>3. CASE live[e].parent \notin Folder
      BY <1>2, <2>1, <3>3 DEF Follows, InDriveOf
    <3> QED BY <3>1, <3>2, <3>3
  <2>4. IsTrashed(e)' => e = m
    BY <1>5, <2>1 DEF IsTrashed
  <2> QED BY <2>2, <2>3, <2>4
<1>9. Placed(call[c])' /\ Apart(call[c])'
  BY <1>3, <1>4, <1>5, <1>8 DEF Placed, Apart
<1>10. Solid'
  BY <1>2 DEF Sound, Solid, IsLive
<1>11. Numbered'
  BY <1>1, <1>2, <1>5 DEF Sound, Numbered, IsLive, IsTrashed
<1> QED BY <1>7, <1>9, <1>10, <1>11 DEF Sound

\* What is in a folder stays filed under its copy in the trash; nothing is in an item.
LEMMA GoUnlink ==
  ASSUME NEW c \in Client, TypeInv, Sound(call[c]), Unlink(c)
  PROVE  Sound(call[c])'
<1>0. PICK m : m = call[c].id
  OBVIOUS
<1>1. /\ m \in Entity /\ call[c].op \in {"queue_delete", "erase"} /\ call[c].at = "unlink"
      /\ call[c].op = "queue_delete" => IsLive(m) /\ trash[m] = live[m]
      /\ call[c].op = "erase" => m \in Item
  BY <1>0 DEF Sound, Knows, Trashes, Unlink, At, TypeInv, CallsOK, CallOK, Entity
<1>2. /\ live \in [Entity -> Doc \cup {NoDoc}] /\ live' = [live EXCEPT ![m] = NoDoc]
      /\ trash' = trash /\ drives' = drives /\ used' = used /\ call'[c] = Idle
  BY <1>0 DEF Unlink, Finish, Becomes, TypeInv, TablesOK, CallsOK
<1>3. /\ \A e \in Entity : IsLive(e)' => IsLive(e) /\ e # m /\ live'[e] = live[e]
      /\ \A e \in Entity : IsTrashed(e)' <=> IsTrashed(e)
  BY <1>1, <1>2 DEF IsLive, IsTrashed
<1>4. ASSUME NEW e \in Entity, IsLive(e)'
      PROVE  Filed(live[e].parent)' /\ Follows(e)' /\ ~ IsTrashed(e)'
  <2>1. IsLive(e) /\ e # m /\ live'[e] = live[e] /\ live[e] \in Doc
    BY <1>2, <1>3, <1>4 DEF IsLive
  <2>2. Filed(live[e].parent) /\ Follows(e) /\ ~ IsTrashed(e)
    BY <1>0, <1>1, <2>1 DEF Sound, Placed, Apart, Doomed, Awaits
  <2>3. live[e].parent = m => call[c].op = "queue_delete"
    BY <1>1, <2>1, IdsAssumption DEF Doc, Container
  <2>4. Filed(live[e].parent)'
    <3>1. CASE live[e].parent # m
      BY <1>2, <2>1, <2>2, <3>1 DEF Filed, IsLive, IsTrashed, Entity
    <3>2. CASE live[e].parent = m
      BY <1>1, <1>2, <2>1, <2>2, <2>3, <3>2 DEF Filed, IsLive, IsTrashed
    <3> QED BY <3>1, <3>2
  <2>5. Follows(e)'
    <3>1. CASE live[e].parent # m
      BY <1>2, <2>1, <2>2, <3>1 DEF Follows, InDriveOf, Entity
    <3>2. CASE live[e].parent = m
      BY <1>1, <1>2, <2>1, <2>2, <2>3, <3>2 DEF Follows, InDriveOf
    <3> QED BY <3>1, <3>2
  <2> QED BY <1>3, <2>2, <2>4, <2>5
<1>5. Settled'
  BY <1>4 DEF Settled, Placed, Apart
<1>6. Solid'
  BY <1>3 DEF Sound, Solid, Entity
<1>7. Numbered'
  BY <1>2, <1>3 DEF Sound, Numbered
<1> QED BY <1>2, <1>5, <1>6, <1>7, EndsSettled

\* What is deleted is collected, and all that is in what is collected is too.
LEMMA GoPurgeDelete ==
  ASSUME NEW c \in Client, TypeInv, Sound(call[c]), NEW m, PurgeDelete(c, m)
  PROVE  Sound(call[c])'
<1>0. PICK d, kill : d = call[c].id /\ kill = call[c].kill
  OBVIOUS
<1>1. /\ call[c] \in Call /\ call[c].op = "purge" /\ call[c].at = "delete" /\ m \in kill
      /\ kill \in SUBSET Entity /\ d \in Drive /\ Collected(kill) /\ Cut(d, kill)
  BY <1>0 DEF Sound, Knows, Purges, PurgeDelete, At, TypeInv, CallsOK, CallOK, Call
<1>2. /\ live \in [Entity -> Doc \cup {NoDoc}] /\ live' = [live EXCEPT ![m] = NoDoc]
      /\ trash' = trash /\ drives' = drives /\ used' = used
  BY DEF PurgeDelete, TypeInv, TablesOK
<1> DEFINE r == [call[c] EXCEPT !.kill = @ \ {m}]
<1>3. r.op = "purge" /\ r.at = "delete" /\ r.id = d /\ r.kill = kill \ {m}
  BY <1>0, <1>1 DEF Call
<1>4. call'[c] = r
  BY DEF PurgeDelete, Becomes, TypeInv, CallsOK
<1> HIDE DEF r
<1>5. /\ \A e \in Entity : IsLive(e)' <=> IsLive(e) /\ e # m
      /\ \A e \in Entity : e # m => live'[e] = live[e]
      /\ \A e \in Entity : IsTrashed(e)' <=> IsTrashed(e)
  BY <1>1, <1>2 DEF IsLive, IsTrashed
<1>6. Collected(kill \ {m})'
  <2> SUFFICES ASSUME NEW x \in kill \ {m}, IsLive(x)'
               PROVE  live'[x].parent \in Folder /\ (IsLive(live[x].parent)' => live'[x].parent \in kill \ {m})
    BY DEF Collected
  <2>1. IsLive(x) /\ live'[x] = live[x]
    BY <1>1, <1>5
  <2>2. live[x].parent \in Folder /\ (IsLive(live[x].parent) => live[x].parent \in kill)
    BY <1>1, <2>1 DEF Collected
  <2>3. IsLive(live[x].parent)' => IsLive(live[x].parent) /\ live[x].parent # m
    BY <1>5, <2>1, <2>2 DEF Entity, IsLive
  <2> QED BY <2>1, <2>2, <2>3
<1>7. ASSUME NEW e \in Entity, IsLive(e), e \notin kill, live[e].parent \in Folder
      PROVE  LET p == live[e].parent
             IN  /\ p \in Entity
                 /\ \/ IsLive(p) /\ p \notin kill /\ p # m /\ live'[p] = live[p]
                    \/ IsTrashed(p) /\ trash[p].drive # d
  BY <1>1, <1>5, <1>7 DEF Cut, Entity
<1>8. Cut(d, kill \ {m})'
  <2> SUFFICES ASSUME NEW e \in Entity, IsLive(e)', e \notin kill \ {m}, live'[e].parent \in Folder
               PROVE  LET p == live'[e].parent
                      IN  \/ live'[p] # NoDoc /\ p \notin kill \ {m}
                          \/ trash'[p] # NoDoc /\ trash'[p].drive # d
    BY DEF Cut, IsLive, IsTrashed
  <2>1. IsLive(e) /\ e \notin kill /\ live'[e] = live[e]
    BY <1>5
  <2> QED BY <1>2, <1>7, <2>1 DEF IsLive, IsTrashed
<1>9. Purges(call[c])'
  BY <1>1, <1>3, <1>4, <1>6, <1>8 DEF Purges
<1>10. Knows(call[c])' /\ Drawn(call[c])'
  BY <1>3, <1>4, <1>9 DEF Knows, Drawn, Creates, Updates, Trashes, Empties, Moves, Climbs
<1>11. Apart(Idle)
  BY <1>1 DEF Sound, Apart
<1>12. Apart(call[c])'
  BY <1>5, <1>11 DEF Apart, Idle, Doing
<1>13. ASSUME NEW e \in Entity, IsLive(e), e \notin kill, live[e].parent \notin Folder
       PROVE  live[e].parent \in drives
  BY <1>0, <1>1, <1>13 DEF Sound, Placed, Awaits, Doomed, Filed
<1>14. ASSUME NEW e \in Entity, IsLive(e)', e \notin kill
       PROVE  Filed(live[e].parent)' /\ Follows(e)'
  <2>1. IsLive(e) /\ live'[e] = live[e] /\ e # m
    BY <1>5, <1>14
  <2>2. Follows(e)
    BY <1>0, <1>1, <1>14, <2>1 DEF Sound, Placed, Awaits, Doomed
  <2>3. CASE live[e].parent \notin Folder
    <3>1. Filed(live[e].parent)'
      BY <1>2, <1>13, <1>14, <2>1, <2>3 DEF Filed
    <3>2. Follows(e)'
      BY <2>1, <2>2, <2>3 DEF Follows, InDriveOf
    <3> QED BY <3>1, <3>2
  <2>4. CASE live[e].parent \in Folder
    <3> DEFINE p == live[e].parent
    <3>1. /\ p \in Entity
          /\ \/ IsLive(p) /\ p \notin kill /\ p # m /\ live'[p] = live[p]
             \/ IsTrashed(p) /\ trash[p].drive # d
      BY <1>7, <1>14, <2>1, <2>4
    <3>2. Filed(live[e].parent)'
      BY <1>2, <2>1, <2>4, <3>1 DEF Filed, IsLive, IsTrashed
    <3>3. Follows(e)'
      <4>1. IsTrashed(p) => ~ IsLive(p)
        BY <3>1, <1>11 DEF Apart, Idle, Doing
      <4> QED BY <1>2, <2>1, <2>2, <2>4, <3>1, <4>1, IdsAssumption DEF Follows, InDriveOf, IsLive, IsTrashed
    <3> QED BY <3>2, <3>3
  <2> QED BY <2>3, <2>4
<1>15. Placed(call[c])'
  BY <1>0, <1>3, <1>4, <1>5, <1>14 DEF Placed, Doomed
<1>16. Solid' /\ Numbered'
  BY <1>2, <1>5 DEF Sound, Solid, Numbered, Entity
<1> QED BY <1>10, <1>12, <1>15, <1>16 DEF Sound

\* Nothing is in what leaves the trash.
LEMMA GoPurgeClear ==
  ASSUME NEW c \in Client, TypeInv, Sound(call[c]), NEW m, PurgeClear(c, m)
  PROVE  Sound(call[c])'
<1>0. PICK d, kill : d = call[c].id /\ kill = call[c].kill
  OBVIOUS
<1>1. /\ call[c] \in Call /\ call[c].op = "purge" /\ call[c].at = "clear" /\ m \in kill
      /\ kill \in SUBSET Entity /\ d \in Drive /\ kill \subseteq TrashOf(d) /\ Cut(d, {}) /\ Settled
  BY <1>0, SettledFrom DEF Sound, Knows, Purges, PurgeClear, At, TypeInv, CallsOK, CallOK, Call
<1>2. /\ trash \in [Entity -> Doc \cup {NoDoc}] /\ trash' = [trash EXCEPT ![m] = NoDoc]
      /\ live' = live /\ drives' = drives /\ used' = used
  BY DEF PurgeClear, TypeInv, TablesOK
<1>3. m \in Entity /\ IsTrashed(m) /\ trash[m].drive = d
  BY <1>1 DEF TrashOf
<1>4. /\ \A e \in Entity : IsTrashed(e)' <=> IsTrashed(e) /\ e # m
      /\ \A e \in Entity : e # m => trash'[e] = trash[e]
      /\ \A e \in Entity : IsLive(e)' <=> IsLive(e)
  BY <1>2, <1>3 DEF IsLive, IsTrashed
<1>5. ASSUME NEW e \in Entity, IsLive(e), live[e].parent \in Folder
      PROVE  LET p == live[e].parent
             IN  /\ p \in Entity /\ p # m
                 /\ IsLive(p) \/ (IsTrashed(p) /\ trash[p].drive # d)
  <2> DEFINE p == live[e].parent
  <2>1. p \in Entity /\ (IsLive(p) \/ (IsTrashed(p) /\ trash[p].drive # d))
    BY <1>1, <1>5 DEF Cut, Entity
  <2>2. p # m
    BY <1>1, <1>3, <2>1, SettledIs
  <2> QED BY <2>1, <2>2
<1>6. ASSUME NEW e \in Entity, IsLive(e)'
      PROVE  Filed(live[e].parent)' /\ Follows(e)' /\ ~ IsTrashed(e)'
  <2>1. IsLive(e)
    BY <1>4, <1>6
  <2>2. Filed(live[e].parent) /\ Follows(e) /\ ~ IsTrashed(e)
    BY <1>1, <2>1, SettledIs
  <2>3. CASE live[e].parent \in Folder
    <3>1. /\ live[e].parent \in Entity /\ live[e].parent # m
          /\ trash'[live[e].parent] = trash[live[e].parent]
      BY <1>4, <1>5, <2>1, <2>3
    <3> QED BY <1>2, <1>4, <2>2, <2>3, <3>1 DEF Filed, Follows, InDriveOf, IsLive, IsTrashed
  <2>4. CASE live[e].parent \notin Folder
    BY <1>2, <1>4, <2>2, <2>4 DEF Filed, Follows, InDriveOf
  <2> QED BY <2>3, <2>4
<1>7. Settled'
  BY <1>6 DEF Settled, Placed, Apart
<1>8. Solid' /\ Numbered'
  BY <1>2, <1>4 DEF Sound, Solid, Numbered, IsLive
<1>9. CASE kill = {m}
  <2>1. call'[c] = Idle
    BY <1>0, <1>9 DEF PurgeClear, Finish, Becomes, TypeInv, CallsOK
  <2> QED BY <1>7, <1>8, <2>1, EndsSettled
<1>10. CASE kill # {m}
  <2> DEFINE r == [call[c] EXCEPT !.kill = @ \ {m}]
  <2>1. r.op = "purge" /\ r.at = "clear" /\ r.id = d /\ r.kill = kill \ {m}
    BY <1>0, <1>1 DEF Call
  <2>2. call'[c] = r
    BY <1>0, <1>10 DEF PurgeClear, Becomes, TypeInv, CallsOK
  <2> HIDE DEF r
  <2>3. kill \ {m} \subseteq TrashOf(d)'
    <3>1. \A x \in kill \ {m} : x \in Entity /\ IsTrashed(x)' /\ trash'[x].drive = d
      BY <1>1, <1>4 DEF TrashOf
    <3> QED BY <3>1 DEF TrashOf
  <2>4. Cut(d, {})'
    <3> SUFFICES ASSUME NEW e \in Entity, IsLive(e)', live'[e].parent \in Folder
                 PROVE  LET p == live'[e].parent
                        IN  live'[p] # NoDoc \/ (trash'[p] # NoDoc /\ trash'[p].drive # d)
      BY DEF Cut, IsLive, IsTrashed
    <3> QED BY <1>2, <1>4, <1>5 DEF IsLive, IsTrashed
  <2>5. Purges(call[c])'
    BY <1>1, <2>1, <2>2, <2>3, <2>4 DEF Purges
  <2>6. Knows(call[c])' /\ Drawn(call[c])'
    BY <2>1, <2>2, <2>5 DEF Knows, Drawn, Creates, Updates, Trashes, Empties, Moves, Climbs
  <2>7. Placed(call[c])' /\ Apart(call[c])'
    BY <1>7 DEF Settled, Placed, Apart, Idle, Doing, Doomed, Awaits
  <2> QED BY <1>8, <2>6, <2>7 DEF Sound
<1> QED BY <1>9, <1>10

-----------------------------------------------------------------------------
(* The theorems about requests one at a time *)

LEMMA SequentialInit == Sequential /\ Init => SequentialInv
<1> SUFFICES ASSUME Init PROVE SequentialInv
  OBVIOUS
<1>1. TypeInv
  BY TypeInit
<1>2. ASSUME NEW c \in Client PROVE Sound(call[c])
  <2>1. call[c] = Idle
    BY <1>2 DEF Init
  <2>2. \A e \in Entity : ~ IsLive(e) /\ ~ IsTrashed(e)
    BY DEF Init, IsLive, IsTrashed
  <2>3. Placed(Idle) /\ Apart(Idle) /\ Numbered /\ Solid
    BY <2>2 DEF Placed, Apart, Numbered, Solid, Entity
  <2> QED BY <2>1, <2>3, IdleKnows DEF Sound, Drawn, Idle, Doing
<1> QED BY <1>1, <1>2 DEF SequentialInv

LEMMA SequentialStep == Sequential /\ SequentialInv /\ [Next]_vars => SequentialInv'
<1> SUFFICES ASSUME Sequential, SequentialInv, [Next]_vars PROVE SequentialInv'
  OBVIOUS
<1> TypeInv
  BY DEF SequentialInv
<1>1. TypeInv'
  BY TypeStep
<1>2. ASSUME NEW c \in Client, Request(c) \/ Progress(c) PROVE SequentialInv'
  <2> Sound(call[c])
    BY DEF SequentialInv
  <2>1. ASSUME Request(c) PROVE Sound(call[c])'
    <3>1. CASE \/ \E d \in Drive : \E g \in DriveGroups[d] : CreateDrive(c, d, g)
               \/ \E d \in Drive : UpdateDriveGet(c, d) \/ PurgeList(c, d)
      BY <3>1, GoCreateDrive, BeginUpdateDrive, BeginPurge
    <3>2. CASE \E d \in Drive : \/ DeleteDriveFirstQuery(c, d, "children", "trash")
                                \/ DeleteDriveFirstQuery(c, d, "trash", "children")
      BY <3>2, BeginDeleteDrive
    <3>3. CASE \E e \in Entity : UpdateGet(c, e) \/ QueueDeleteGet(c, e) \/ PathGet(c, e)
      BY <3>3, BeginUpdate, BeginQueueDelete, BeginPath
    <3>4. CASE \E e \in Entity, p \in Container : CreateGetParent(c, e, p, FALSE) \/ MoveRead(c, e, p)
      BY <3>4, BeginCreate, BeginMove
    <3>5. CASE \E i \in Item, p \in Container : CreateGetParent(c, i, p, TRUE)
      <4>1. \A i \in Item : i \in Entity
        BY DEF Entity
      <4> QED BY <3>5, <4>1, BeginCreate
    <3>6. CASE \E i, link \in Item, p \in Container : BorrowGetItem(c, i, link, p)
      BY <3>6, BeginBorrow
    <3>7. CASE \E i \in Item : EraseGet(c, i)
      BY <3>7, BeginErase
    <3>8. CASE DefaultGetDrive(c)
      BY <3>8 DEF DefaultGetDrive, Sequential
    <3> QED BY <2>1, <3>1, <3>2, <3>3, <3>4, <3>5, <3>6, <3>7, <3>8 DEF Request
  <2>2. ASSUME Progress(c) PROVE Sound(call[c])'
    <3>1. call[c].op # "default"
      BY DEF Sound, Knows
    <3>2. CASE UpdateDrivePost(c) \/ BorrowGetParent(c) \/ Post(c) \/ QueueDeletePost(c) \/ Unlink(c)
      BY <3>2, GoUpdateDrive, GoBorrow, GoPost, GoQueueDeletePost, GoUnlink
    <3>3. CASE \/ \E f \in Folder : PurgeFolder(c, f)
               \/ \E e \in Entity : PurgeDelete(c, e) \/ PurgeClear(c, e)
               \/ PurgeCollected(c) \/ PurgeRequery(c)
      BY <3>3, GoPurgeFolder, GoPurgeDelete, GoPurgeClear, GoPurgeCollected, GoPurgeRequery
    <3>4. CASE \/ DeleteDriveSecondQuery(c, "children") \/ DeleteDriveSecondQuery(c, "trash")
               \/ DeleteDriveGet(c) \/ DeleteDriveDelete(c)
      BY <3>4, GoDeleteDrive, GoDeleteDriveDelete
    <3>5. CASE \/ MovePlace(c) \/ MoveChildren(c)
               \/ \E e \in Entity, f \in Folder : MoveNext(c, e, f)
      BY <3>5, GoMovePlace, GoMoveChildren, GoMoveNext
    <3>6. CASE PathGetDrive(c) \/ PathGetFolder(c)
      BY <3>6, GoPath
    <3>7. CASE \/ \E f \in Folder : DefaultGetFolder(c, f)
               \/ DefaultCreateDrive(c) \/ DefaultGetParent(c) \/ DefaultPost(c)
      BY <3>1, <3>7 DEF DefaultGetFolder, DefaultCreateDrive, DefaultGetParent, DefaultPost, At
    <3> QED BY <2>2, <3>2, <3>3, <3>4, <3>5, <3>6, <3>7 DEF Progress
  <2>3. Sound(call[c])'
    BY <1>2, <2>1, <2>2
  <2> QED BY <1>1, <2>3 DEF SequentialInv, Sequential
<1>3. CASE UNCHANGED vars
  <2>1. ASSUME NEW c \in Client PROVE Sound(call[c])'
    <3>1. Sound(call[c]) /\ call[c] = call[c] /\ Becomes(c, call[c])
      BY <1>3 DEF SequentialInv, Becomes, vars, TypeInv, CallsOK
    <3> QED BY <1>3, <3>1, Reading DEF vars, Sound, Drawn
  <2> QED BY <1>1, <2>1 DEF SequentialInv
<1> QED BY <1>2, <1>3 DEF Next

LEMMA QuietIsSettled ==
  ASSUME Sequential, SequentialInv, Quiet
  PROVE  Settled
<1>1. PICK c \in Client : TRUE
  BY DEF Sequential
<1> QED BY <1>1 DEF Quiet, SequentialInv, Sound, Settled

\* One request at a time, each entity is in the drive of the folder it is in, after any
\* moves of any subtrees between drives, folders moved into themselves included.
THEOREM TreesFollow == ASSUME Sequential PROVE Spec => []FollowsItsParent
<1>1. SequentialInv => FollowsItsParent
  <2> SUFFICES ASSUME SequentialInv, Quiet, NEW e \in Entity, IsLive(e), ~ live[e].borrowed
               PROVE  InDriveOf(e, live[e].parent)
    BY DEF FollowsItsParent, InDriveOf
  <2>1. Follows(e)
    BY QuietIsSettled, SettledIs, Sequential
  <2> QED BY <2>1 DEF Follows
<1>2. QED BY <1>1, Sequential, SequentialInit, SequentialStep, PTL DEF Spec

\* One request at a time, nothing is left in a container that is gone, also when drives
\* are purged and deleted.
THEOREM NothingLeftWhenQuiet == ASSUME Sequential PROVE Spec => []NoOrphanWhenQuiet
<1>1. SequentialInv => NoOrphanWhenQuiet
  BY QuietIsSettled, SettledIs, Sequential DEF NoOrphanWhenQuiet, NoOrphan
<1>2. QED BY <1>1, Sequential, SequentialInit, SequentialStep, PTL DEF Spec

\* One request at a time, purge_drive destroys nothing that can be reached from a drive:
\* what it has collected and that is live is closed under "is in", and in no drive.
THEOREM BystandersAreSafe == ASSUME Sequential PROVE Spec => PurgeDestroysNoBystander
<1>1. SequentialInv /\ [Next]_vars =>
        [\A c \in Client, e \in Entity :
           PurgeDelete(c, e) /\ IsLive(e) => ~Attached(e) \/ IsTrashed(e)]_vars
  <2> SUFFICES ASSUME SequentialInv, NEW c \in Client, NEW e \in Entity,
                      PurgeDelete(c, e), IsLive(e), Attached(e)
               PROVE  FALSE
    OBVIOUS
  <2> DEFINE S == {x \in call[c].kill : IsLive(x)}
  <2>1. Collected(call[c].kill) /\ e \in call[c].kill /\ call[c].kill \in SUBSET Entity
    BY DEF SequentialInv, Sound, Knows, Purges, PurgeDelete, At, TypeInv, CallsOK, CallOK, Call
  <2>2. S \in SUBSET {x \in Entity : IsLive(x)} /\ e \in S
    BY <2>1
  <2>3. \A x \in S : live[x].parent \in Folder /\ (IsLive(live[x].parent) => live[x].parent \in S)
    BY <2>1 DEF Collected
  <2> HIDE DEF S
  <2>4. \E x \in S : live[x].parent \in drives
    BY <2>2, <2>3 DEF Attached
  <2> QED BY <2>3, <2>4, IdsAssumption DEF SequentialInv, TypeInv, TablesOK
<1>2. QED BY <1>1, Sequential, SequentialInit, SequentialStep, PTL DEF Spec, PurgeDestroysNoBystander

\* The steps of a request for a path are the two of its handler.
LEMMA PathSteps ==
  ASSUME NEW c \in Client, call[c].op = "path", Request(c) \/ Progress(c)
  PROVE  PathGetDrive(c) \/ PathGetFolder(c)
<1>1. call[c] # Idle
  BY DEF Idle, Doing
<1>2. ~ Request(c)
  BY <1>1 DEF Request, CreateDrive, UpdateDriveGet, PurgeList, DeleteDriveFirstQuery, UpdateGet,
     QueueDeleteGet, PathGet, CreateGetParent, MoveRead, BorrowGetItem, EraseGet, DefaultGetDrive,
     Arrive
<1>3. Progress(c) => PathGetDrive(c) \/ PathGetFolder(c)
  BY DEF Progress, UpdateDrivePost, BorrowGetParent, Post, QueueDeletePost, Unlink, PurgeFolder,
     DefaultGetFolder, PurgeDelete, PurgeClear, PurgeCollected, PurgeRequery, DeleteDriveSecondQuery,
     DeleteDriveGet, DeleteDriveDelete, MovePlace, MoveChildren, MoveNext, DefaultCreateDrive,
     DefaultGetParent, DefaultPost, At
<1> QED BY <1>2, <1>3

\* A folder that is in the tree is in a drive there is.
LEMMA DriveIsThere ==
  ASSUME TypeInv, Settled, Solid, NEW f \in Folder, IsLive(f), Attached(f)
  PROVE  live[f].drive \in drives
<1> DEFINE S == {x \in Folder : IsLive(x) /\ live[x].drive = live[f].drive}
<1>1. \A x \in S : x \in Entity /\ IsLive(x) /\ InDriveOf(x, live[x].parent)
  BY SettledIs DEF Entity, Solid, Follows
<1>2. S \in SUBSET {x \in Entity : IsLive(x)} /\ f \in S
  BY <1>1
<1>3. ASSUME NEW x \in S, live[x].parent \in Folder, IsLive(live[x].parent)
      PROVE  live[x].parent \in S
  <2> DEFINE p == live[x].parent
  <2>1. p \in Entity /\ ~ IsTrashed(p)
    BY <1>3, SettledIs DEF Entity
  <2>2. live[p].drive = live[x].drive
    BY <1>1, <1>3, <2>1, IdsAssumption DEF InDriveOf, IsTrashed
  <2> QED BY <1>3, <2>2
<1>4. PICK x \in S : live[x].parent \in drives
  <2> HIDE DEF S
  <2> QED BY <1>2, <1>3 DEF Attached
<1> QED BY <1>1, <1>4, IdsAssumption DEF InDriveOf, TypeInv, TablesOK

\* One request at a time, the path of a folder in the tree is found: its drive is there,
\* and the climb, that stays in the tree, can only end at the root of the drive.
THEOREM PathsAreFound == ASSUME Sequential PROVE Spec => PathIsFound
<1>1. SequentialInv /\ [Next]_vars =>
        [\A c \in Client :
           /\ call[c].op = "path" /\ call[c].id \in Folder /\ Attached(call[c].id)
           /\ call'[c] = Idle
           => call[c].at = "climb" /\ AtRoot(call[c].to)]_vars
  <2> SUFFICES ASSUME SequentialInv, Next, NEW c \in Client, call[c].op = "path",
                      call[c].id \in Folder, Attached(call[c].id), call'[c] = Idle
               PROVE  call[c].at = "climb" /\ AtRoot(call[c].to)
    BY DEF vars
  <2>0. Request(c) \/ Progress(c)
    BY Sequential DEF Next, Sequential
  <2>1. PathGetDrive(c) \/ PathGetFolder(c)
    BY <2>0, PathSteps
  <2>2. TypeInv /\ Sound(call[c]) /\ Solid /\ Climbs(call[c]) /\ call[c] \in Call
    BY DEF SequentialInv, Sound, Knows, TypeInv, CallsOK, CallOK
  <2>3. Settled
    BY <2>2, SettledFrom DEF Sound
  <2>4. \A step : call'[c] = [call[c] EXCEPT !.at = step] => call'[c].op = "path"
    BY <2>2 DEF Call
  <2>5. call'[c].op # "path"
    BY DEF Idle, Doing
  <2>6. CASE PathGetDrive(c)
    <3>1. call[c].at = "drive" /\ IsLive(call[c].id) /\ call[c].doc = live[call[c].id]
      BY <2>2, <2>6 DEF Climbs, PathGetDrive, At
    <3>2. call[c].doc.drive \in drives
      BY <2>2, <2>3, <3>1, DriveIsThere
    <3>3. call'[c] = [call[c] EXCEPT !.at = "climb"]
      BY <2>6, <3>2, <2>2 DEF PathGetDrive, Goto, Becomes, TypeInv, CallsOK
    <3> QED BY <2>4, <2>5, <3>3
  <2>7. CASE PathGetFolder(c)
    <3>1. call[c].at = "climb" /\ call[c].to \in Folder /\ IsLive(call[c].to)
      BY <2>2, <2>7 DEF Climbs, PathGetFolder, At
    <3>2. ASSUME ~ AtRoot(call[c].to) PROVE FALSE
      <4>1. call'[c] = [call[c] EXCEPT !.to = live[call[c].to].parent]
        BY <2>2, <2>7, <3>1, <3>2 DEF PathGetFolder, Becomes, TypeInv, CallsOK
      <4> QED BY <2>2, <2>5, <4>1 DEF Call
    <3> QED BY <3>1, <3>2
  <2> QED BY <2>1, <2>6, <2>7
<1>2. QED BY <1>1, Sequential, SequentialInit, SequentialStep, PTL DEF Spec, PathIsFound
=============================================================================
