----------------------------- MODULE Gateway_proofs -----------------------------
(* Proofs about Gateway, for every set of assets, symlinks, groups, folders  *)
(* and clients, and any number of lapses.                                    *)
EXTENDS Gateway, FiniteSetTheorems, TLAPS

\* What a request holds beside the type of its fields, at each of its steps.
RequestOK(c, r) ==
  /\ r.at \in {"post asset", "post item"} =>
       r.asset \in Asset /\ r.place \in Place /\ r.to \in Group
  /\ r.at = "move" => r.item \in Item \cup Folder /\ r.place \in Place /\ r.to \in Group
  /\ r.at = "sync" => r.to \in Group
  /\ r.at = "borrow" =>
       /\ r.item \in Item /\ r.link \in Symlink /\ r.asset \in Asset
       /\ r.place \in Place /\ r.to \in Group
  /\ r.at = "put policy" => r.asset \in Asset /\ r.to \in Group /\ r.link \in Symlink
  /\ r.at \in {"purge", "originals", "asset", "lent"} => r.to \in Member[c]
  /\ r.at \in {"asset", "erase", "delete asset"} => r.asset \in Asset

RequestsOK ==
  /\ req \in [Client -> Requests]
  /\ \A c \in Client : RequestOK(c, req[c])

ServicesOK ==
  /\ assets \in [Asset -> Group \cup {NoGroup}]
  /\ policy \in [Asset -> [Consumer -> Policies]]
  /\ kind \in [Asset -> Kinds]
  /\ raw \subseteq Asset /\ \A a \in raw : kind[a] = "affiliated"
  /\ lapses \subseteq Lapses

TreeOK ==
  /\ items \in [Item -> Items \cup {NoItem}]
  /\ home \in [Folder -> Group \cup {NoGroup}]
  /\ \A x \in trash : \/ x \in Item /\ items[x] # NoItem
                      \/ x \in Folder /\ home[x] # NoGroup

TypeInv == ServicesOK /\ TreeOK /\ RequestsOK

\* The requests of the others stay as they are.
Others(c) == \A d \in Client \ {c} : req'[d] = req[d]

-----------------------------------------------------------------------------
(* Lemmas about the operators *)

\* The requests are well typed when none is in progress.
LEMMA IdleType ==
  /\ Idle \in Requests /\ \A c \in Client : RequestOK(c, Idle)
  /\ Idle.at = "idle" /\ Idle.todo = {} /\ Idle.errors = {} /\ Idle.lent = {} /\ Idle.purged = {}
  BY DEF Idle, Requests, Steps, RequestOK

\* A request moves to another record: only it does.
LEMMA Moves ==
  ASSUME RequestsOK, NEW c \in Client, NEW q, q \in Requests, RequestOK(c, q), Becomes(c, q)
  PROVE  RequestsOK' /\ req'[c] = q /\ Others(c)
<1>1. req' = [req EXCEPT ![c] = q]
  BY DEF Becomes
<1>2. req' \in [Client -> Requests] /\ req'[c] = q /\ Others(c)
  BY <1>1 DEF RequestsOK, Others
<1>3. ASSUME NEW d \in Client PROVE RequestOK(d, req'[d])
  <2>1. CASE d = c
    BY <2>1, <1>2
  <2>2. CASE d # c
    BY <2>2, <1>2 DEF Others, RequestsOK
  <2> QED
    BY <2>1, <2>2
<1> QED
  BY <1>2, <1>3 DEF RequestsOK

\* A request ends.
LEMMA Finishes ==
  ASSUME RequestsOK, NEW c \in Client, Finish(c)
  PROVE  RequestsOK' /\ req'[c] = Idle /\ Others(c) /\ req'[c].at = "idle"
  BY IdleType, Moves DEF Finish

\* A request stays as it is but for its step.
Onwards(r, q) ==
  /\ q.item = r.item /\ q.place = r.place /\ q.to = r.to /\ q.changes = r.changes
  /\ q.link = r.link /\ q.asset = r.asset /\ q.todo = r.todo /\ q.lent = r.lent
  /\ q.purged = r.purged /\ q.errors = r.errors

\* A request whose next step needs no more than what it holds moves on.
LEMMA Goes ==
  ASSUME RequestsOK, NEW c \in Client, NEW s \in Steps, Goto(c, s),
         RequestOK(c, [req[c] EXCEPT !.at = s])
  PROVE  /\ RequestsOK' /\ Others(c)
         /\ req'[c].at = s /\ Onwards(req[c], req'[c])
<1> DEFINE q == [req[c] EXCEPT !.at = s]
<1>1. req[c] \in Requests
  BY DEF RequestsOK
<1>2. q \in Requests /\ q.at = s /\ Onwards(req[c], q)
  BY <1>1 DEF Requests, Onwards
<1>3. RequestOK(c, q) /\ Becomes(c, q)
  BY DEF Goto
<1> HIDE DEF q
<1> QED
  BY <1>2, <1>3, Moves

\* A folder of the explorer is in a group.
LEMMA Destination ==
  ASSUME TreeOK, NEW p \in Place, IsFolder(p)
  PROVE  GroupOf(p) \in Group
  BY DEF TreeOK, IsFolder, GroupOf, Place

\* An asset is deleted, with its policies.
LEMMA Deletes ==
  ASSUME ServicesOK, NEW a \in Asset, Delete(a)
  PROVE  /\ assets' \in [Asset -> Group \cup {NoGroup}]
         /\ policy' \in [Asset -> [Consumer -> Policies]]
         /\ assets'[a] \notin Group
         /\ \A b \in Asset : b # a => assets'[b] = assets[b]
         /\ \A g \in Consumer : policy'[a][g] = "none"
         /\ \A b \in Asset, g \in Consumer : b # a => policy'[b][g] = policy[b][g]
<1>1. "none" \in Policies
  BY DEF Policies
<1> QED
  BY <1>1, GatewayAssumption DEF Delete, NoPolicyOf, ServicesOK, Exists

\* A policy changes, and no other.
LEMMA Permits ==
  ASSUME ServicesOK, NEW a \in Asset, NEW g \in Consumer, NEW p \in Policies,
         policy' = [policy EXCEPT ![a][g] = p]
  PROVE  /\ policy' \in [Asset -> [Consumer -> Policies]]
         /\ policy'[a][g] = p
         /\ \A b \in Asset, h \in Consumer : <<b, h>> # <<a, g>> => policy'[b][h] = policy[b][h]
  BY DEF ServicesOK

\* An item is posted.
LEMMA Posts ==
  ASSUME TreeOK, NEW i \in Item, NEW a \in Asset, NEW p \in Place, IsFolder(p),
         NEW b \in BOOLEAN,
         items' = [items EXCEPT ![i] = [asset |-> a, place |-> p, group |-> GroupOf(p),
                                        borrowed |-> b]]
  PROVE  /\ items' \in [Item -> Items \cup {NoItem}] /\ items'[i] # NoItem
         /\ items'[i].asset = a /\ items'[i].place = p /\ items'[i].group = GroupOf(p)
         /\ items'[i].borrowed = b
         /\ \A j \in Item : j # i => items'[j] = items[j]
<1> DEFINE doc == [asset |-> a, place |-> p, group |-> GroupOf(p), borrowed |-> b]
<1>1. doc \in Items /\ doc # NoItem
  BY Destination, GatewayAssumption DEF Items
<1>2. items' = [items EXCEPT ![i] = doc]
  OBVIOUS
<1>3. doc.asset = a /\ doc.place = p /\ doc.group = GroupOf(p) /\ doc.borrowed = b
  OBVIOUS
<1> HIDE DEF doc
<1> QED
  BY <1>1, <1>2, <1>3 DEF TreeOK

\* A lapse is one of those that have a name.
LEMMA Lapse ==
  ASSUME ServicesOK, NEW l \in Lapses, Allows(l)
  PROVE  lapses' \subseteq Lapses /\ l \in lapses' /\ lapses \subseteq lapses'
  BY DEF ServicesOK, Allows

-----------------------------------------------------------------------------
(* Types: requests of creation, move and borrow *)

\* The state that no request has changed yet is well typed.
LEMMA TypeInit == Init => TypeInv
  BY IdleType DEF Init, TypeInv, ServicesOK, TreeOK, RequestsOK, Policies, Kinds

\* The invariant has the types, and folders in the trash are folders.
LEMMA TypeInvType == TypeInv => TypeOK
  BY DEF TypeInv, TypeOK, ServicesOK, TreeOK, RequestsOK

\* A folder is created in a group.
LEMMA CreateFolderType ==
  ASSUME TypeInv, NEW c \in Client, NEW f \in Folder, NEW g \in Group, CreateFolder(c, f, g)
  PROVE  TypeInv'
<1>1. ServicesOK' /\ RequestsOK'
  BY DEF CreateFolder, TypeInv, ServicesOK, RequestsOK
<1>2. TreeOK'
  BY DEF CreateFolder, TypeInv, TreeOK
<1> QED
  BY <1>1, <1>2 DEF TypeInv

\* An asset is begun: its raw data, and the request that posts the asset and its item.
LEMMA CreateRawType ==
  ASSUME TypeInv, NEW c \in Client, NEW a \in Asset, NEW k \in Kinds \ {"none"},
         NEW p \in Place, CreateRaw(c, a, k, p)
  PROVE  /\ TypeInv' /\ Others(c)
         /\ \/ /\ IsFolder(p) /\ req'[c].at = "post asset" /\ req'[c].asset = a
               /\ req'[c].place = p /\ req'[c].to = GroupOf(p) /\ lapses' = lapses
            \/ /\ req'[c].at = "idle" /\ req'[c] = Idle /\ "failure" \in lapses'
               /\ lapses \subseteq lapses'
<1>1. TreeOK' /\ assets' = assets /\ policy' = policy
  BY DEF CreateRaw, TypeInv, TreeOK, tree
<1>2. /\ kind' \in [Asset -> Kinds] /\ raw' \subseteq Asset
      /\ \A b \in raw' : kind'[b] = "affiliated"
  BY DEF CreateRaw, TypeInv, ServicesOK
<1>3. CASE IsFolder(p) /\ GroupOf(p) \in Member[c]
  <2> DEFINE q == [Idle EXCEPT !.at = "post asset", !.asset = a, !.place = p, !.to = GroupOf(p)]
  <2>1. /\ q.at = "post asset" /\ q.asset = a /\ q.place = p /\ q.to = GroupOf(p)
        /\ q \in Requests
    BY <1>3, IdleType, Destination DEF TypeInv, Idle, Requests, Steps
  <2>2. RequestOK(c, q)
    BY <1>3, <2>1, Destination DEF TypeInv, RequestOK
  <2>3. Becomes(c, q) /\ lapses' = lapses
    BY <1>3 DEF CreateRaw
  <2> HIDE DEF q
  <2>4. RequestsOK' /\ req'[c] = q /\ Others(c)
    BY <2>1, <2>2, <2>3, Moves DEF TypeInv
  <2>5. ServicesOK'
    BY <1>1, <1>2, <2>3 DEF TypeInv, ServicesOK
  <2> QED
    BY <1>1, <1>3, <2>1, <2>3, <2>4, <2>5 DEF TypeInv
<1>4. CASE ~(IsFolder(p) /\ GroupOf(p) \in Member[c])
  <2>1. Finish(c) /\ Allows("failure")
    BY <1>4 DEF CreateRaw
  <2>2. lapses' \subseteq Lapses /\ "failure" \in lapses' /\ lapses \subseteq lapses'
    BY <2>1, Lapse DEF TypeInv, Lapses
  <2>3. RequestsOK' /\ req'[c] = Idle /\ Others(c) /\ req'[c].at = "idle"
    BY <2>1, Finishes DEF TypeInv
  <2>4. ServicesOK'
    BY <1>1, <1>2, <2>2 DEF TypeInv, ServicesOK
  <2> QED
    BY <1>1, <2>2, <2>3, <2>4 DEF TypeInv
<1> QED
  BY <1>3, <1>4

\* The asset is posted.
LEMMA PostAssetType ==
  ASSUME TypeInv, NEW c \in Client, PostAsset(c)
  PROVE  /\ TypeInv' /\ Others(c)
         /\ req[c].asset \in Asset /\ req[c].to \in Group
         /\ assets'[req[c].asset] = req[c].to
         /\ \A b \in Asset : b # req[c].asset => assets'[b] = assets[b]
         /\ req'[c].at = "post item" /\ Onwards(req[c], req'[c])
<1>1. req[c].asset \in Asset /\ req[c].place \in Place /\ req[c].to \in Group
  BY DEF PostAsset, At, TypeInv, RequestsOK, RequestOK
<1>2. RequestOK(c, [req[c] EXCEPT !.at = "post item"])
  <2> DEFINE q == [req[c] EXCEPT !.at = "post item"]
  <2>1. q.at = "post item" /\ q.asset \in Asset /\ q.place \in Place /\ q.to \in Group
    BY <1>1 DEF TypeInv, RequestsOK, Requests
  <2> HIDE DEF q
  <2>2. RequestOK(c, q)
    BY <2>1 DEF RequestOK
  <2> QED
    BY <2>2 DEF q
<1>3. RequestsOK' /\ Others(c) /\ req'[c].at = "post item" /\ Onwards(req[c], req'[c])
  BY <1>2, Goes DEF PostAsset, TypeInv, Steps
<1>4. /\ ServicesOK'
      /\ assets'[req[c].asset] = req[c].to
      /\ \A b \in Asset : b # req[c].asset => assets'[b] = assets[b]
  BY <1>1 DEF PostAsset, TypeInv, ServicesOK
<1>5. TreeOK'
  BY DEF PostAsset, TypeInv, TreeOK, tree
<1> QED
  BY <1>1, <1>3, <1>4, <1>5 DEF TypeInv

\* Its item is posted, if the folder is still there.
LEMMA CreateItemType ==
  ASSUME TypeInv, NEW c \in Client, CreateItem(c)
  PROVE  /\ TypeInv' /\ Others(c) /\ req'[c] = Idle
         /\ req[c].asset \in Asset /\ req[c].place \in Place /\ req[c].to \in Group
         /\ \A j \in Item : j # req[c].asset => items'[j] = items[j]
         /\ IF IsFolder(req[c].place)
              THEN /\ items'[req[c].asset] # NoItem
                   /\ items'[req[c].asset].asset = req[c].asset
                   /\ items'[req[c].asset].place = req[c].place
                   /\ items'[req[c].asset].group = GroupOf(req[c].place)
                   /\ items'[req[c].asset].borrowed = FALSE
              ELSE items' = items
<1>1. req[c].asset \in Asset /\ req[c].place \in Place /\ req[c].to \in Group
  BY DEF CreateItem, At, TypeInv, RequestsOK, RequestOK
<1>2. RequestsOK' /\ Others(c) /\ req'[c] = Idle
  BY Finishes DEF CreateItem, TypeInv
<1>3. ServicesOK'
  BY DEF CreateItem, TypeInv, ServicesOK
<1>4. CASE IsFolder(req[c].place)
  <2>1. items' = [items EXCEPT ![req[c].asset] =
                    [asset |-> req[c].asset, place |-> req[c].place,
                     group |-> GroupOf(req[c].place), borrowed |-> FALSE]]
    BY <1>4 DEF CreateItem, PostItem
  <2>2. req[c].asset \in Item /\ FALSE \in BOOLEAN
    BY <1>1 DEF Item
  <2>3. /\ items' \in [Item -> Items \cup {NoItem}] /\ items'[req[c].asset] # NoItem
        /\ items'[req[c].asset].asset = req[c].asset
        /\ items'[req[c].asset].place = req[c].place
        /\ items'[req[c].asset].group = GroupOf(req[c].place)
        /\ items'[req[c].asset].borrowed = FALSE
        /\ \A j \in Item : j # req[c].asset => items'[j] = items[j]
    <3>1. TreeOK
      BY DEF TypeInv
    <3> QED
      BY <1>1, <1>4, <2>1, <2>2, <3>1, Posts
  <2>4. TreeOK'
    BY <2>3 DEF CreateItem, TypeInv, TreeOK
  <2> QED
    BY <1>1, <1>2, <1>3, <1>4, <2>3, <2>4 DEF TypeInv
<1>5. CASE ~IsFolder(req[c].place)
  <2>1. TreeOK' /\ items' = items
    BY <1>5 DEF CreateItem, TypeInv, TreeOK
  <2> QED
    BY <1>1, <1>2, <1>3, <1>5, <2>1 DEF TypeInv
<1> QED
  BY <1>4, <1>5

\* A move is asked for.
LEMMA MoveType ==
  ASSUME TypeInv, NEW c \in Client, NEW x \in Item \cup Folder, NEW p \in Place, Move(c, x, p)
  PROVE  /\ TypeInv' /\ Others(c) /\ IsFolder(p) /\ lapses \subseteq lapses'
         /\ req'[c].at = "move" /\ req'[c].item = x /\ req'[c].place = p
         /\ req'[c].to = GroupOf(p)
         /\ x \in Folder => /\ IsFolder(x) /\ p \in Group
                            /\ req'[c].changes = (home[x] # GroupOf(p))
         /\ x \notin Folder => /\ IsItem(x)
                               /\ req'[c].changes = (items[x].group # GroupOf(p))
         /\ x \in Symlink /\ req'[c].changes => "symlink moved" \in lapses'
<1> DEFINE from == IF x \in Folder THEN home[x] ELSE items[x].group
           q == [Idle EXCEPT !.at = "move", !.item = x, !.place = p,
                             !.to = GroupOf(p), !.changes = from # GroupOf(p)]
<1>1. /\ q \in Requests /\ q.at = "move" /\ q.item = x /\ q.place = p /\ q.to = GroupOf(p)
      /\ q.changes = (from # GroupOf(p))
  <2>1. GroupOf(p) \in Group /\ (from # GroupOf(p)) \in BOOLEAN
    BY Destination DEF Move, TypeInv
  <2> HIDE DEF from
  <2> QED
    BY <2>1 DEF Idle, Requests, Steps
<1>2. RequestOK(c, q)
  <2>1. GroupOf(p) \in Group
    BY Destination DEF Move, TypeInv
  <2> HIDE DEF q
  <2> QED
    BY <1>1, <2>1 DEF RequestOK
<1>3. Becomes(c, q)
  BY DEF Move
<1>4. RequestsOK' /\ req'[c] = q /\ Others(c)
  <2> HIDE DEF q
  <2> QED
    BY <1>1, <1>2, <1>3, Moves DEF TypeInv
<1>5. TreeOK' /\ IsFolder(p)
  BY DEF Move, TypeInv, TreeOK, tree
<1>6. /\ lapses' \subseteq Lapses /\ lapses \subseteq lapses'
      /\ x \in Symlink /\ from # GroupOf(p) => "symlink moved" \in lapses'
  <2>1. CASE x \in Symlink /\ from # GroupOf(p)
    <3>1. Allows("symlink moved")
      BY <2>1 DEF Move
    <3> QED
      BY <3>1, Lapse DEF TypeInv, Lapses
  <2>2. CASE ~(x \in Symlink /\ from # GroupOf(p))
    BY <2>2 DEF Move, TypeInv, ServicesOK
  <2> QED
    BY <2>1, <2>2
<1>7. ServicesOK'
  BY <1>6 DEF Move, TypeInv, ServicesOK
<1>8. /\ x \in Folder => IsFolder(x) /\ p \in Group /\ from = home[x]
      /\ x \notin Folder => IsItem(x) /\ from = items[x].group
  BY DEF Move
<1> HIDE DEF q, from
<1> QED
  BY <1>1, <1>4, <1>5, <1>6, <1>7, <1>8 DEF TypeInv

\* The items that the move of a request takes along.
MovedBy(c) == Follow(req[c].item, GroupOf(req[c].place))

\* The documents after a move: those moved have the group of the destination.
Relocates(c) ==
  /\ \A i \in Item :
       IF i \in MovedBy(c)
         THEN /\ IsItem(i) /\ items'[i] # NoItem
              /\ items'[i].asset = items[i].asset /\ items'[i].borrowed = items[i].borrowed
              /\ items'[i].group = GroupOf(req[c].place)
              /\ items'[i].place = IF i = req[c].item THEN req[c].place ELSE items[i].place
         ELSE items'[i] = items[i]
  /\ \A f \in Folder : home'[f] = IF f = req[c].item THEN GroupOf(req[c].place) ELSE home[f]

\* The explorer moves an item, or a folder with the items that follow.
LEMMA TreeMoveType ==
  ASSUME TypeInv, NEW c \in Client, TreeMove(c)
  PROVE  /\ TypeInv' /\ Others(c)
         /\ req[c].item \in Item \cup Folder /\ req[c].place \in Place /\ req[c].to \in Group
         /\ req'[c].at \in {"idle", "sync"}
         /\ \/ Relocates(c) /\ IsFolder(req[c].place)
            \/ items' = items /\ home' = home
         /\ req'[c].at = "sync" =>
              /\ Relocates(c) /\ req[c].changes /\ req'[c].to = req[c].to
              /\ req'[c].todo = Regroup(req[c].item, MovedBy(c))
         /\ req'[c].at = "idle" =>
              /\ req'[c] = Idle
              /\ req[c].changes => items' = items /\ home' = home
<1> DEFINE x == req[c].item
           p == req[c].place
           there == IsFolder(p) /\ (IF x \in Folder THEN IsFolder(x) ELSE IsItem(x))
<1>1. x \in Item \cup Folder /\ p \in Place /\ req[c].to \in Group
  BY DEF TreeMove, At, TypeInv, RequestsOK, RequestOK
<1>2. ServicesOK'
  BY DEF TreeMove, TypeInv, ServicesOK
<1>3. CASE there
  <2> DEFINE doc(i) == [items[i] EXCEPT !.group = GroupOf(p), !.place = IF i = x THEN p ELSE @]
  <2>1. GroupOf(p) \in Group
    BY <1>1, <1>3, Destination DEF TypeInv
  <2>2. \A i \in MovedBy(c) : i \in Item /\ IsItem(i)
    BY <1>1, <1>3, GatewayAssumption DEF MovedBy, Follow, Place
  <2>3. ASSUME NEW i \in MovedBy(c)
        PROVE  /\ doc(i) \in Items /\ doc(i) # NoItem
               /\ doc(i).asset = items[i].asset /\ doc(i).borrowed = items[i].borrowed
               /\ doc(i).group = GroupOf(p)
               /\ doc(i).place = IF i = x THEN p ELSE items[i].place
    <3>1. items[i] \in Items
      BY <2>2 DEF TypeInv, TreeOK, IsItem
    <3> QED
      BY <1>1, <2>1, <3>1, GatewayAssumption DEF Items
  <2>4. /\ items' = [i \in Item |-> IF i \notin MovedBy(c) THEN items[i] ELSE doc(i)]
        /\ home' = IF x \in Folder THEN [home EXCEPT ![x] = GroupOf(p)] ELSE home
        /\ IF req[c].changes
             THEN Becomes(c, [req[c] EXCEPT !.at = "sync", !.todo = Regroup(x, MovedBy(c))])
             ELSE Finish(c)
    BY <1>3 DEF TreeMove, MovedBy
  <2>5. /\ Relocates(c)
        /\ items' \in [Item -> Items \cup {NoItem}]
        /\ \A i \in Item : items[i] # NoItem => items'[i] # NoItem
        /\ \A f \in Folder : home[f] # NoGroup => home'[f] # NoGroup
    <3>1. \A i \in Item : items'[i] = IF i \notin MovedBy(c) THEN items[i] ELSE doc(i)
      BY <2>4
    <3>2. \A f \in Folder : home'[f] = IF f = x THEN GroupOf(p) ELSE home[f]
      BY <2>4 DEF TypeInv, TreeOK
    <3>3. GroupOf(p) # NoGroup
      BY <2>1, GatewayAssumption
    <3>4. DOMAIN items' = Item /\ items' = [i \in Item |-> items'[i]]
      BY <2>4
    <3> HIDE DEF doc
    <3>5. \A i \in Item : items[i] \in Items \cup {NoItem}
      BY DEF TypeInv, TreeOK
    <3>6. items' \in [Item -> Items \cup {NoItem}]
      BY <2>3, <3>1, <3>4, <3>5
    <3> QED
      BY <2>2, <2>3, <3>1, <3>2, <3>3, <3>6 DEF Relocates
  <2>6. home' \in [Folder -> Group \cup {NoGroup}]
    BY <2>1, <2>4 DEF TypeInv, TreeOK
  <2>7. TreeOK'
    BY <2>5, <2>6 DEF TreeMove, TypeInv, TreeOK
  <2>8. CASE req[c].changes
    <3> DEFINE q == [req[c] EXCEPT !.at = "sync", !.todo = Regroup(x, MovedBy(c))]
    <3>1. Regroup(x, MovedBy(c)) \subseteq Asset
      BY <2>2 DEF Regroup, TypeInv, TreeOK, IsItem, Items
    <3>2. req[c] \in Requests
      BY DEF TypeInv, RequestsOK
    <3>3. /\ q \in Requests /\ q.at = "sync" /\ q.to = req[c].to
          /\ q.todo = Regroup(x, MovedBy(c))
      <4> HIDE DEF x, p
      <4> QED
        BY <3>1, <3>2 DEF Requests, Steps
    <3>4. Becomes(c, q)
      BY <2>4, <2>8
    <3> HIDE DEF q
    <3>5. RequestOK(c, q)
      BY <1>1, <3>3 DEF RequestOK
    <3>6. RequestsOK' /\ req'[c] = q /\ Others(c)
      BY <3>3, <3>4, <3>5, Moves DEF TypeInv
    <3> QED
      BY <1>1, <1>2, <1>3, <2>5, <2>7, <2>8, <3>3, <3>6 DEF TypeInv
  <2>9. CASE ~req[c].changes
    <3>1. RequestsOK' /\ Others(c) /\ req'[c] = Idle /\ req'[c].at = "idle"
      BY <2>4, <2>9, Finishes DEF TypeInv
    <3> QED
      BY <1>1, <1>2, <1>3, <2>5, <2>7, <2>9, <3>1 DEF TypeInv
  <2> QED
    BY <2>8, <2>9
<1>4. CASE ~there
  <2>1. Finish(c) /\ items' = items /\ home' = home
    BY <1>4 DEF TreeMove
  <2>2. RequestsOK' /\ Others(c) /\ req'[c] = Idle /\ req'[c].at = "idle"
    BY <2>1, Finishes DEF TypeInv
  <2>3. TreeOK'
    BY <2>1 DEF TreeMove, TypeInv, TreeOK
  <2> QED
    BY <1>1, <1>2, <2>1, <2>2, <2>3 DEF TypeInv
<1> QED
  BY <1>3, <1>4

\* An asset takes its new group.
LEMMA SyncType ==
  ASSUME TypeInv, NEW c \in Client, NEW a \in Asset, Sync(c, a)
  PROVE  /\ TypeInv' /\ Others(c) /\ req[c].to \in Group
         /\ IF Exists(a)
              THEN /\ assets'[a] = req[c].to
                   /\ \A b \in Asset : b # a => assets'[b] = assets[b]
                   /\ req'[c].at = "sync" /\ req'[c].to = req[c].to
                   /\ req'[c].todo = req[c].todo \ {a}
              ELSE req'[c] = Idle /\ assets' = assets
<1>1. req[c].to \in Group
  BY DEF Sync, At, TypeInv, RequestsOK, RequestOK
<1>2. TreeOK'
  BY DEF Sync, TypeInv, TreeOK, tree
<1>3. CASE Exists(a)
  <2> DEFINE q == [req[c] EXCEPT !.todo = @ \ {a}]
  <2>1. req[c] \in Requests /\ req[c].at = "sync"
    BY DEF Sync, At, TypeInv, RequestsOK
  <2>2. q \in Requests /\ q.at = "sync" /\ q.to = req[c].to /\ q.todo = req[c].todo \ {a}
    BY <2>1 DEF Requests
  <2>3. Becomes(c, q)
    BY <1>3 DEF Sync
  <2> HIDE DEF q
  <2>4. RequestOK(c, q)
    BY <1>1, <2>2 DEF RequestOK
  <2>5. RequestsOK' /\ req'[c] = q /\ Others(c)
    BY <2>2, <2>3, <2>4, Moves DEF TypeInv
  <2>6. /\ ServicesOK' /\ assets'[a] = req[c].to
        /\ \A b \in Asset : b # a => assets'[b] = assets[b]
    BY <1>1, <1>3 DEF Sync, TypeInv, ServicesOK
  <2> QED
    BY <1>1, <1>2, <1>3, <2>2, <2>5, <2>6 DEF TypeInv
<1>4. CASE ~Exists(a)
  <2>1. RequestsOK' /\ Others(c) /\ req'[c] = Idle
    BY <1>4, Finishes DEF Sync, TypeInv
  <2>2. ServicesOK' /\ assets' = assets
    BY <1>4 DEF Sync, TypeInv, ServicesOK
  <2> QED
    BY <1>1, <1>2, <1>4, <2>1, <2>2 DEF TypeInv
<1> QED
  BY <1>3, <1>4

\* All the assets moved have their group.
LEMMA SyncEndsType ==
  ASSUME TypeInv, NEW c \in Client, SyncEnds(c)
  PROVE  TypeInv' /\ Others(c) /\ req'[c] = Idle
<1>1. ServicesOK' /\ TreeOK'
  BY DEF SyncEnds, TypeInv, ServicesOK, TreeOK, tree
<1>2. RequestsOK' /\ Others(c) /\ req'[c] = Idle
  BY Finishes DEF SyncEnds, TypeInv
<1> QED
  BY <1>1, <1>2 DEF TypeInv

\* An item is to be borrowed.
LEMMA BorrowType ==
  ASSUME TypeInv, NEW c \in Client, NEW i \in Item, NEW p \in Place, NEW s \in Symlink,
         Borrow(c, i, p, s)
  PROVE  /\ TypeInv' /\ Others(c) /\ IsFolder(p) /\ IsItem(i) /\ items[s] = NoItem
         /\ Exists(items[i].asset)
         /\ req'[c].at = "borrow" /\ req'[c].item = i /\ req'[c].place = p
         /\ req'[c].link = s /\ req'[c].asset = items[i].asset /\ req'[c].to = GroupOf(p)
         /\ req'[c].changes = (policy[items[i].asset][GroupOf(p)] = "none")
<1> DEFINE new == policy[items[i].asset][GroupOf(p)] = "none"
           q == [Idle EXCEPT !.at = "borrow", !.item = i, !.place = p, !.link = s,
                             !.asset = items[i].asset, !.to = GroupOf(p), !.changes = new]
<1>1. IsFolder(p) /\ IsItem(i) /\ items[s] = NoItem /\ Exists(items[i].asset)
  BY DEF Borrow
<1>2. items[i].asset \in Asset /\ GroupOf(p) \in Group
  BY <1>1, Destination DEF TypeInv, TreeOK, IsItem, Items
<1>3. /\ q \in Requests /\ q.at = "borrow" /\ q.item = i /\ q.place = p /\ q.link = s
      /\ q.asset = items[i].asset /\ q.to = GroupOf(p) /\ q.changes = new
  <2>1. new \in BOOLEAN
    OBVIOUS
  <2> HIDE DEF new
  <2> QED
    BY <1>2, <2>1 DEF Idle, Requests, Steps
<1>4. Becomes(c, q)
  BY DEF Borrow
<1>5. ServicesOK' /\ TreeOK'
  BY DEF Borrow, TypeInv, ServicesOK, TreeOK, tree
<1> HIDE DEF q, new
<1>6. RequestOK(c, q)
  BY <1>2, <1>3 DEF RequestOK
<1>7. RequestsOK' /\ req'[c] = q /\ Others(c)
  BY <1>3, <1>4, <1>6, Moves DEF TypeInv
<1> QED
  BY <1>1, <1>3, <1>5, <1>7 DEF TypeInv, new

\* The symlink is posted, if the item and the folder are still there.
LEMMA TreeBorrowType ==
  ASSUME TypeInv, NEW c \in Client, TreeBorrow(c)
  PROVE  /\ TypeInv' /\ Others(c) /\ req'[c].at \in {"idle", "put policy"}
         /\ req[c].item \in Item /\ req[c].link \in Symlink /\ req[c].asset \in Asset
         /\ req[c].place \in Place /\ req[c].to \in Group
         /\ \A j \in Item : j # req[c].link => items'[j] = items[j]
         /\ IF IsItem(req[c].item) /\ IsFolder(req[c].place)
              THEN /\ items'[req[c].link] # NoItem
                   /\ items'[req[c].link].asset = req[c].asset
                   /\ items'[req[c].link].place = req[c].place
                   /\ items'[req[c].link].group = GroupOf(req[c].place)
                   /\ items'[req[c].link].borrowed = TRUE
                   /\ IF req[c].changes THEN req'[c].at = "put policy" ELSE req'[c] = Idle
              ELSE items' = items /\ req'[c] = Idle
         /\ req'[c].at = "put policy" => Onwards(req[c], req'[c])
<1>1. /\ req[c].item \in Item /\ req[c].link \in Symlink /\ req[c].asset \in Asset
      /\ req[c].place \in Place /\ req[c].to \in Group
  BY DEF TreeBorrow, At, TypeInv, RequestsOK, RequestOK
<1>2. ServicesOK'
  BY DEF TreeBorrow, TypeInv, ServicesOK
<1>3. CASE IsItem(req[c].item) /\ IsFolder(req[c].place)
  <2>1. items' = [items EXCEPT ![req[c].link] =
                    [asset |-> req[c].asset, place |-> req[c].place,
                     group |-> GroupOf(req[c].place), borrowed |-> TRUE]]
    BY <1>3 DEF TreeBorrow, PostItem
  <2>2. req[c].link \in Item /\ TRUE \in BOOLEAN
    BY <1>1 DEF Item
  <2>3. /\ items' \in [Item -> Items \cup {NoItem}] /\ items'[req[c].link] # NoItem
        /\ items'[req[c].link].asset = req[c].asset
        /\ items'[req[c].link].place = req[c].place
        /\ items'[req[c].link].group = GroupOf(req[c].place)
        /\ items'[req[c].link].borrowed = TRUE
        /\ \A j \in Item : j # req[c].link => items'[j] = items[j]
    <3>1. TreeOK
      BY DEF TypeInv
    <3> QED
      BY <1>1, <1>3, <2>1, <2>2, <3>1, Posts
  <2>4. TreeOK'
    BY <2>3 DEF TreeBorrow, TypeInv, TreeOK
  <2>5. CASE req[c].changes
    <3> DEFINE q == [req[c] EXCEPT !.at = "put policy"]
    <3>1. Goto(c, "put policy")
      BY <1>3, <2>5 DEF TreeBorrow
    <3>2. q.at = "put policy" /\ q.asset \in Asset /\ q.to \in Group /\ q.link \in Symlink
      BY <1>1 DEF TypeInv, RequestsOK, Requests
    <3> HIDE DEF q
    <3>3. RequestOK(c, q)
      BY <3>2 DEF RequestOK
    <3>4. /\ RequestsOK' /\ Others(c) /\ req'[c].at = "put policy"
          /\ Onwards(req[c], req'[c])
      BY <3>1, <3>3, Goes DEF TypeInv, Steps, q
    <3> QED
      BY <1>1, <1>2, <1>3, <2>3, <2>4, <2>5, <3>4 DEF TypeInv
  <2>6. CASE ~req[c].changes
    <3>1. RequestsOK' /\ Others(c) /\ req'[c] = Idle /\ req'[c].at = "idle"
      BY <1>3, <2>6, Finishes DEF TreeBorrow, TypeInv
    <3> QED
      BY <1>1, <1>2, <1>3, <2>3, <2>4, <2>6, <3>1 DEF TypeInv
  <2> QED
    BY <2>5, <2>6
<1>4. CASE ~(IsItem(req[c].item) /\ IsFolder(req[c].place))
  <2>1. RequestsOK' /\ Others(c) /\ req'[c] = Idle /\ req'[c].at = "idle"
    BY <1>4, Finishes DEF TreeBorrow, TypeInv
  <2>2. TreeOK' /\ items' = items
    BY <1>4 DEF TreeBorrow, TypeInv, TreeOK
  <2> QED
    BY <1>1, <1>2, <1>4, <2>1, <2>2 DEF TypeInv
<1> QED
  BY <1>3, <1>4

\* What is borrowed is opened to the group.
LEMMA PutPolicyOfBorrowType ==
  ASSUME TypeInv, NEW c \in Client, PutPolicyOfBorrow(c)
  PROVE  /\ TypeInv' /\ Others(c) /\ req'[c] = Idle
         /\ req[c].asset \in Asset /\ req[c].to \in Group /\ req[c].link \in Symlink
         /\ \A b \in Asset, h \in Consumer :
              <<b, h>> # <<req[c].asset, req[c].to>> => policy'[b][h] = policy[b][h]
         /\ IF Exists(req[c].asset) THEN policy'[req[c].asset][req[c].to] = "open"
            ELSE policy' = policy
<1>1. req[c].asset \in Asset /\ req[c].to \in Group /\ req[c].link \in Symlink
  BY DEF PutPolicyOfBorrow, At, TypeInv, RequestsOK, RequestOK
<1>2. RequestsOK' /\ Others(c) /\ req'[c] = Idle
  BY Finishes DEF PutPolicyOfBorrow, TypeInv
<1>3. TreeOK'
  BY DEF PutPolicyOfBorrow, TypeInv, TreeOK, tree
<1>4. CASE Exists(req[c].asset)
  <2>1. policy' = [policy EXCEPT ![req[c].asset][req[c].to] = "open"]
    BY <1>4 DEF PutPolicyOfBorrow
  <2>2. req[c].to \in Consumer /\ "open" \in Policies /\ ServicesOK
    BY <1>1 DEF Consumer, Policies, TypeInv
  <2>3. /\ policy' \in [Asset -> [Consumer -> Policies]]
        /\ policy'[req[c].asset][req[c].to] = "open"
        /\ \A b \in Asset, h \in Consumer :
             <<b, h>> # <<req[c].asset, req[c].to>> => policy'[b][h] = policy[b][h]
    BY <1>1, <2>1, <2>2, Permits
  <2>4. ServicesOK'
    BY <2>3 DEF PutPolicyOfBorrow, TypeInv, ServicesOK
  <2> QED
    BY <1>1, <1>2, <1>3, <1>4, <2>3, <2>4 DEF TypeInv
<1>5. CASE ~Exists(req[c].asset)
  <2>1. ServicesOK' /\ policy' = policy
    BY <1>5 DEF PutPolicyOfBorrow, TypeInv, ServicesOK
  <2> QED
    BY <1>1, <1>2, <1>3, <1>5, <2>1 DEF TypeInv
<1> QED
  BY <1>4, <1>5

\* An item or a folder is queued for deletion.
LEMMA DeleteEntityType ==
  ASSUME TypeInv, NEW c \in Client, NEW x \in Item \cup Folder, DeleteEntity(c, x)
  PROVE  TypeInv'
<1>1. ServicesOK' /\ RequestsOK'
  BY DEF DeleteEntity, TypeInv, ServicesOK, RequestsOK
<1>2. TreeOK'
  <2>1. (x \in Folder /\ home[x] # NoGroup) \/ (x \in Item /\ items[x] # NoItem)
    BY GatewayAssumption DEF DeleteEntity, IsFolder, IsItem
  <2> QED
    BY <2>1 DEF DeleteEntity, TypeInv, TreeOK
<1> QED
  BY <1>1, <1>2 DEF TypeInv

-----------------------------------------------------------------------------
(* Types: purges *)

\* A purge of the drive of a group is asked for.
LEMMA PurgeType ==
  ASSUME TypeInv, NEW c \in Client, NEW g \in Group, Purge(c, g)
  PROVE  /\ TypeInv' /\ Others(c) /\ req'[c].at = "purge" /\ req'[c].to = g
<1> DEFINE q == [Idle EXCEPT !.at = "purge", !.to = g]
<1>1. q \in Requests /\ q.at = "purge" /\ q.to = g
  BY DEF Idle, Requests, Steps
<1>2. Becomes(c, q) /\ g \in Member[c]
  BY DEF Purge
<1>3. ServicesOK' /\ TreeOK'
  BY DEF Purge, TypeInv, ServicesOK, TreeOK, tree
<1> HIDE DEF q
<1>4. RequestOK(c, q)
  BY <1>1, <1>2 DEF RequestOK
<1> QED
  BY <1>1, <1>2, <1>3, <1>4, Moves DEF TypeInv

\* What a purge of the drive of g removes: what is in its trash, and the items in the
\* folders of its trash.
FoldersOf(g) == {f \in Folder \cap trash : home[f] = g}

GoneFrom(g) ==
  {i \in Item : /\ items[i] # NoItem
                /\ \/ i \in trash /\ items[i].group = g
                   \/ i \notin trash /\ items[i].place \in FoldersOf(g)}

\* The trash is emptied.
LEMMA TreePurgeType ==
  ASSUME TypeInv, NEW c \in Client, TreePurge(c)
  PROVE  /\ TypeInv' /\ Others(c) /\ req[c].to \in Member[c] /\ req[c].to \in Group
         /\ \A i \in Item : items'[i] = IF i \in GoneFrom(req[c].to) THEN NoItem ELSE items[i]
         /\ \A f \in Folder :
              home'[f] = IF f \in FoldersOf(req[c].to) THEN NoGroup ELSE home[f]
         /\ trash' = trash \ (GoneFrom(req[c].to) \cup FoldersOf(req[c].to))
         /\ req'[c].at = "originals" /\ req'[c].to = req[c].to
         /\ req'[c].purged = {items[i] : i \in GoneFrom(req[c].to)}
         /\ req'[c].todo = {d.asset : d \in {d \in req'[c].purged : ~d.borrowed}}
         /\ req'[c].lent = {<<d.asset, d.group>> : d \in {d \in req'[c].purged : d.borrowed}}
<1> DEFINE g == req[c].to
           docs == {items[i] : i \in GoneFrom(g)}
           left == {d.asset : d \in {d \in docs : ~d.borrowed}}
           lent == {<<d.asset, d.group>> : d \in {d \in docs : d.borrowed}}
           q == [req[c] EXCEPT !.at = "originals", !.purged = docs, !.todo = left, !.lent = lent]
<1>1. g \in Member[c] /\ g \in Group
  BY GatewayAssumption DEF TreePurge, At, TypeInv, RequestsOK, RequestOK
<1>2. /\ items' = [i \in Item |-> IF i \in GoneFrom(g) THEN NoItem ELSE items[i]]
      /\ home' = [f \in Folder |-> IF f \in FoldersOf(g) THEN NoGroup ELSE home[f]]
      /\ trash' = trash \ (GoneFrom(g) \cup FoldersOf(g))
      /\ Becomes(c, q)
  BY DEF TreePurge, GoneFrom, FoldersOf
<1>3. ServicesOK'
  BY DEF TreePurge, TypeInv, ServicesOK
<1>4. /\ GoneFrom(g) \subseteq Item /\ FoldersOf(g) \subseteq Folder
      /\ \A i \in GoneFrom(g) : items[i] \in Items
  BY DEF GoneFrom, FoldersOf, TypeInv, TreeOK
<1>5. docs \subseteq Items /\ left \subseteq Asset /\ lent \subseteq Asset \X Group
  BY <1>4 DEF Items
<1>6. TreeOK'
  <2>1. items' \in [Item -> Items \cup {NoItem}] /\ home' \in [Folder -> Group \cup {NoGroup}]
    BY <1>2 DEF TypeInv, TreeOK
  <2>2. ASSUME NEW y \in trash'
        PROVE  (y \in Item /\ items'[y] # NoItem) \/ (y \in Folder /\ home'[y] # NoGroup)
    <3>1. y \in trash /\ y \notin GoneFrom(g) /\ y \notin FoldersOf(g)
      BY <1>2
    <3>2. (y \in Item /\ items[y] # NoItem) \/ (y \in Folder /\ home[y] # NoGroup)
      BY <3>1 DEF TypeInv, TreeOK
    <3>3. CASE y \in Item /\ items[y] # NoItem
      BY <1>2, <3>1, <3>3
    <3>4. CASE y \in Folder /\ home[y] # NoGroup
      BY <1>2, <3>1, <3>4
    <3> QED
      BY <3>2, <3>3, <3>4
  <2> QED
    BY <2>1, <2>2 DEF TreeOK
<1>7. /\ q \in Requests /\ q.at = "originals" /\ q.to = g /\ q.purged = docs
      /\ q.todo = left /\ q.lent = lent
  <2>1. req[c] \in Requests
    BY DEF TypeInv, RequestsOK
  <2> HIDE DEF docs, left, lent, g
  <2>2. q \in Requests /\ q.at = "originals" /\ q.purged = docs
    BY <1>5, <2>1 DEF Requests, Steps
  <2>3. q.to = req[c].to /\ q.todo = left /\ q.lent = lent
    BY <2>1 DEF Requests
  <2> QED
    BY <2>2, <2>3 DEF g
<1>8. RequestsOK' /\ req'[c] = q /\ Others(c)
  <2> HIDE DEF q, docs, left, lent
  <2>1. RequestOK(c, q)
    BY <1>1, <1>7 DEF RequestOK
  <2> QED
    BY <1>2, <1>7, <2>1, Moves DEF TypeInv
<1>9. /\ \A i \in Item : items'[i] = IF i \in GoneFrom(g) THEN NoItem ELSE items[i]
      /\ \A f \in Folder : home'[f] = IF f \in FoldersOf(g) THEN NoGroup ELSE home[f]
  BY <1>2
<1>10. TypeInv'
  BY <1>3, <1>6, <1>8 DEF TypeInv
<1>11. /\ req'[c].at = "originals" /\ req'[c].to = g /\ req'[c].purged = docs
       /\ req'[c].todo = left /\ req'[c].lent = lent
  <2> HIDE DEF q, docs, left, lent
  <2> QED
    BY <1>7, <1>8
<1> QED
  BY <1>1, <1>2, <1>8, <1>9, <1>10, <1>11

\* An original whose raw data is erased or skipped: its document is next.
ToAsset(r, q, a) ==
  /\ q.at = "asset" /\ q.asset = a /\ q.todo = r.todo \ {a} /\ q.to = r.to
  /\ q.purged = r.purged /\ q.lent = r.lent

\* The raw data of an original is erased, or an error is noted.
LEMMA EraseRawType ==
  ASSUME TypeInv, NEW c \in Client, NEW a \in Asset, EraseRaw(c, a)
  PROVE  /\ TypeInv' /\ Others(c) /\ req[c].to \in Member[c] /\ lapses \subseteq lapses'
         /\ raw' \subseteq raw /\ raw \ {a} \subseteq raw'
         /\ ToAsset(req[c], req'[c], a)
         /\ \/ a \notin raw' /\ req'[c].errors = req[c].errors
            \/ /\ req'[c].errors = req[c].errors \cup {a}
               /\ \/ ~(Owns(c, a) /\ a \in raw) /\ lapses' = lapses /\ raw' = raw
                  \/ "failure" \in lapses'
<1> DEFINE next == [req[c] EXCEPT !.at = "asset", !.asset = a, !.todo = @ \ {a}]
           noted == [next EXCEPT !.errors = @ \cup {a}]
           possible == Owns(c, a) /\ a \in raw
<1>1. req[c] \in Requests /\ req[c].to \in Member[c]
  BY DEF EraseRaw, At, TypeInv, RequestsOK, RequestOK
<1>2. /\ next \in Requests /\ ToAsset(req[c], next, a) /\ next.errors = req[c].errors
  BY <1>1 DEF Requests, Steps, ToAsset
<1>3. noted \in Requests /\ ToAsset(req[c], noted, a) /\ noted.errors = req[c].errors \cup {a}
  <2> HIDE DEF next
  <2> QED
    BY <1>2 DEF Requests, ToAsset
<1>4. RequestOK(c, next) /\ RequestOK(c, noted)
  <2> HIDE DEF next, noted
  <2> QED
    BY <1>1, <1>2, <1>3 DEF RequestOK, ToAsset
<1>5. TreeOK'
  BY DEF EraseRaw, TypeInv, TreeOK, tree
<1>6. CASE possible /\ raw' = raw \ {a} /\ Becomes(c, next) /\ lapses' = lapses
  <2> HIDE DEF next, noted
  <2>1. RequestsOK' /\ req'[c] = next /\ Others(c)
    BY <1>2, <1>4, <1>6, Moves DEF TypeInv
  <2>2. ServicesOK'
    BY <1>6 DEF EraseRaw, TypeInv, ServicesOK
  <2> QED
    BY <1>1, <1>2, <1>5, <1>6, <2>1, <2>2 DEF TypeInv
<1>7. CASE /\ Error(~possible) /\ raw' \in {raw, IF possible THEN raw \ {a} ELSE raw}
           /\ Becomes(c, noted)
  <2>1. \/ ~possible /\ lapses' = lapses
        \/ Allows("failure")
    BY <1>7 DEF Error
  <2>2. /\ lapses' \subseteq Lapses /\ lapses \subseteq lapses'
        /\ \/ ~possible /\ lapses' = lapses
           \/ "failure" \in lapses'
    <3>1. ServicesOK /\ "failure" \in Lapses
      BY DEF TypeInv, Lapses
    <3>2. CASE ~possible /\ lapses' = lapses
      BY <3>1, <3>2 DEF ServicesOK
    <3>3. CASE Allows("failure")
      BY <3>1, <3>3, Lapse
    <3> QED
      BY <2>1, <3>2, <3>3
  <2>3. raw' \subseteq raw /\ raw \ {a} \subseteq raw' /\ (~possible => raw' = raw)
    BY <1>7
  <2> HIDE DEF next, noted
  <2>4. RequestsOK' /\ req'[c] = noted /\ Others(c)
    BY <1>3, <1>4, <1>7, Moves DEF TypeInv
  <2>5. ServicesOK'
    BY <2>2, <2>3 DEF EraseRaw, TypeInv, ServicesOK
  <2> HIDE DEF possible
  <2>6. req'[c].errors = req[c].errors \cup {a} /\ ToAsset(req[c], req'[c], a)
    BY <1>3, <2>4
  <2>7. \/ ~possible /\ lapses' = lapses /\ raw' = raw
        \/ "failure" \in lapses'
    BY <2>2, <2>3
  <2> QED
    BY <1>1, <1>5, <2>2, <2>3, <2>4, <2>5, <2>6, <2>7 DEF TypeInv, possible
<1> QED
  BY <1>6, <1>7 DEF EraseRaw

\* An original without raw data that the gateway can erase.
LEMMA SkipRawType ==
  ASSUME TypeInv, NEW c \in Client, NEW a \in Asset, SkipRaw(c, a)
  PROVE  /\ TypeInv' /\ Others(c) /\ a \notin raw
         /\ ToAsset(req[c], req'[c], a) /\ req'[c].errors = req[c].errors
<1> DEFINE q == [req[c] EXCEPT !.at = "asset", !.asset = a, !.todo = @ \ {a}]
<1>1. req[c] \in Requests /\ req[c].to \in Member[c]
  BY DEF SkipRaw, At, TypeInv, RequestsOK, RequestOK
<1>2. q \in Requests /\ ToAsset(req[c], q, a) /\ q.errors = req[c].errors
  BY <1>1 DEF Requests, Steps, ToAsset
<1>3. Becomes(c, q) /\ a \notin raw
  BY DEF SkipRaw, TypeInv, ServicesOK
<1>4. ServicesOK' /\ TreeOK'
  BY DEF SkipRaw, TypeInv, ServicesOK, TreeOK, tree
<1> HIDE DEF q
<1>5. RequestOK(c, q)
  BY <1>1, <1>2 DEF RequestOK, ToAsset
<1> QED
  BY <1>2, <1>3, <1>4, <1>5, Moves DEF TypeInv

\* The document of an original and its policies are deleted, or an error is noted.
LEMMA PurgeAssetType ==
  ASSUME TypeInv, NEW c \in Client, PurgeAsset(c)
  PROVE  /\ TypeInv' /\ Others(c) /\ req[c].asset \in Asset /\ lapses \subseteq lapses'
         /\ req'[c].at = "originals" /\ req'[c].todo = req[c].todo /\ req'[c].to = req[c].to
         /\ req'[c].purged = req[c].purged /\ req'[c].lent = req[c].lent
         /\ \A b \in Asset : b # req[c].asset => assets'[b] = assets[b]
         /\ \/ Delete(req[c].asset) /\ req'[c].errors = req[c].errors
            \/ /\ req'[c].errors = req[c].errors \cup {req[c].asset} /\ policy' = policy
               /\ \/ ~Exists(req[c].asset) /\ assets'[req[c].asset] \notin Group
                  \/ "failure" \in lapses'
<1> DEFINE a == req[c].asset
           next == [req[c] EXCEPT !.at = "originals", !.asset = NoItem]
           noted == [next EXCEPT !.errors = @ \cup {a}]
<1>1. req[c] \in Requests /\ req[c].to \in Member[c] /\ a \in Asset
  BY DEF PurgeAsset, At, TypeInv, RequestsOK, RequestOK
<1>2. /\ next \in Requests /\ next.at = "originals" /\ next.todo = req[c].todo
      /\ next.to = req[c].to /\ next.purged = req[c].purged /\ next.lent = req[c].lent
      /\ next.errors = req[c].errors
  BY <1>1 DEF Requests, Steps
<1>3. /\ noted \in Requests /\ noted.at = "originals" /\ noted.todo = req[c].todo
      /\ noted.to = req[c].to /\ noted.purged = req[c].purged /\ noted.lent = req[c].lent
      /\ noted.errors = req[c].errors \cup {a}
  <2> HIDE DEF next
  <2> QED
    BY <1>1, <1>2 DEF Requests
<1>4. RequestOK(c, next) /\ RequestOK(c, noted)
  <2> HIDE DEF next, noted
  <2> QED
    BY <1>1, <1>2, <1>3 DEF RequestOK
<1>5. TreeOK'
  BY DEF PurgeAsset, TypeInv, TreeOK, tree
<1>6. CASE Exists(a) /\ Delete(a) /\ Becomes(c, next) /\ lapses' = lapses
  <2> HIDE DEF next, noted
  <2>1. RequestsOK' /\ req'[c] = next /\ Others(c)
    BY <1>2, <1>4, <1>6, Moves DEF TypeInv
  <2>2. /\ assets' \in [Asset -> Group \cup {NoGroup}]
        /\ policy' \in [Asset -> [Consumer -> Policies]]
        /\ \A b \in Asset : b # a => assets'[b] = assets[b]
    BY <1>1, <1>6, Deletes DEF TypeInv
  <2>3. ServicesOK'
    BY <1>6, <2>2 DEF PurgeAsset, TypeInv, ServicesOK
  <2> QED
    BY <1>1, <1>2, <1>5, <1>6, <2>1, <2>2, <2>3 DEF TypeInv
<1>7. CASE /\ Error(~Exists(a)) /\ assets' \in {assets, [assets EXCEPT ![a] = NoGroup]}
           /\ Becomes(c, noted) /\ policy' = policy
  <2>1. /\ lapses' \subseteq Lapses /\ lapses \subseteq lapses'
        /\ ~Exists(a) \/ "failure" \in lapses'
    <3>1. ServicesOK /\ "failure" \in Lapses
      BY DEF TypeInv, Lapses
    <3>2. CASE ~Exists(a) /\ lapses' = lapses
      BY <3>1, <3>2 DEF ServicesOK
    <3>3. CASE Allows("failure")
      BY <3>1, <3>3, Lapse
    <3> QED
      BY <1>7, <3>2, <3>3 DEF Error
  <2>2. /\ assets' \in [Asset -> Group \cup {NoGroup}]
        /\ \A b \in Asset : b # a => assets'[b] = assets[b]
        /\ ~Exists(a) => assets'[a] \notin Group
    BY <1>1, <1>7, GatewayAssumption DEF TypeInv, ServicesOK, Exists
  <2> HIDE DEF next, noted
  <2>3. RequestsOK' /\ req'[c] = noted /\ Others(c)
    BY <1>3, <1>4, <1>7, Moves DEF TypeInv
  <2>4. ServicesOK'
    BY <1>7, <2>1, <2>2 DEF PurgeAsset, TypeInv, ServicesOK
  <2> QED
    BY <1>1, <1>3, <1>5, <1>7, <2>1, <2>2, <2>3, <2>4 DEF TypeInv
<1>8. \/ Exists(a) /\ Delete(a) /\ Becomes(c, next) /\ lapses' = lapses
      \/ /\ Error(~Exists(a)) /\ assets' \in {assets, [assets EXCEPT ![a] = NoGroup]}
         /\ Becomes(c, noted) /\ policy' = policy
  BY DEF PurgeAsset, Collect
<1> QED
  BY <1>6, <1>7, <1>8

\* All the originals have been dealt with.
LEMMA PurgeOriginalsEndType ==
  ASSUME TypeInv, NEW c \in Client, PurgeOriginalsEnd(c)
  PROVE  TypeInv' /\ Others(c) /\ req'[c].at = "lent" /\ Onwards(req[c], req'[c])
<1> DEFINE q == [req[c] EXCEPT !.at = "lent"]
<1>1. req[c] \in Requests /\ req[c].to \in Member[c]
  BY DEF PurgeOriginalsEnd, At, TypeInv, RequestsOK, RequestOK
<1>2. q.at = "lent" /\ q.to = req[c].to
  BY <1>1 DEF Requests
<1>3. ServicesOK' /\ TreeOK'
  BY DEF PurgeOriginalsEnd, TypeInv, ServicesOK, TreeOK, tree
<1>4. Goto(c, "lent") /\ "lent" \in Steps
  BY DEF PurgeOriginalsEnd, Steps
<1> HIDE DEF q
<1>5. RequestOK(c, q)
  BY <1>1, <1>2 DEF RequestOK
<1> QED
  BY <1>3, <1>4, <1>5, Goes DEF TypeInv, q

\* The access that borrowing gave is removed with the last symlink.
LEMMA PurgeLentType ==
  ASSUME TypeInv, NEW c \in Client, NEW a \in Asset, NEW g \in Group, PurgeLent(c, a, g)
  PROVE  /\ TypeInv' /\ Others(c)
         /\ req'[c].at = "lent" /\ req'[c].todo = req[c].todo /\ req'[c].to = req[c].to
         /\ req'[c].purged = req[c].purged /\ req'[c].errors = req[c].errors
         /\ req'[c].lent = req[c].lent \ {<<a, g>>} /\ req'[c].asset = req[c].asset
         /\ \A b \in Asset, h \in Consumer :
              <<b, h>> # <<a, g>> => policy'[b][h] = policy[b][h]
         /\ Lent(a, g) = {} => policy'[a][g] = "none"
         /\ Lent(a, g) # {} => policy' = policy
<1> DEFINE q == [req[c] EXCEPT !.lent = @ \ {<<a, g>>}]
<1>1. req[c] \in Requests /\ req[c].to \in Member[c] /\ req[c].at = "lent"
  BY DEF PurgeLent, At, TypeInv, RequestsOK, RequestOK
<1>2. /\ q \in Requests /\ q.at = "lent" /\ q.todo = req[c].todo /\ q.to = req[c].to
      /\ q.purged = req[c].purged /\ q.errors = req[c].errors
      /\ q.lent = req[c].lent \ {<<a, g>>} /\ q.asset = req[c].asset
  BY <1>1 DEF Requests
<1>3. Becomes(c, q) /\ TreeOK'
  BY DEF PurgeLent, TypeInv, TreeOK, tree
<1> HIDE DEF q
<1>4. RequestsOK' /\ Others(c) /\ req'[c] = q
  <2>1. RequestOK(c, q)
    BY <1>1, <1>2 DEF RequestOK
  <2> QED
    BY <1>2, <1>3, <2>1, Moves DEF TypeInv
<1>5. /\ policy' \in [Asset -> [Consumer -> Policies]]
      /\ \A b \in Asset, h \in Consumer :
           <<b, h>> # <<a, g>> => policy'[b][h] = policy[b][h]
      /\ Lent(a, g) = {} => policy'[a][g] = "none"
      /\ Lent(a, g) # {} => policy' = policy
  <2>1. CASE Lent(a, g) = {}
    <3>1. policy' = [policy EXCEPT ![a][g] = "none"]
      BY <2>1 DEF PurgeLent
    <3>2. g \in Consumer /\ "none" \in Policies /\ ServicesOK
      BY DEF Consumer, Policies, TypeInv
    <3>3. /\ policy' \in [Asset -> [Consumer -> Policies]] /\ policy'[a][g] = "none"
          /\ \A b \in Asset, h \in Consumer :
               <<b, h>> # <<a, g>> => policy'[b][h] = policy[b][h]
      BY <3>1, <3>2, Permits
    <3> QED
      BY <2>1, <3>3
  <2>2. CASE Lent(a, g) # {}
    BY <2>2 DEF PurgeLent, TypeInv, ServicesOK
  <2> QED
    BY <2>1, <2>2
<1>6. ServicesOK'
  BY <1>5 DEF PurgeLent, TypeInv, ServicesOK
<1> QED
  BY <1>2, <1>3, <1>4, <1>5, <1>6 DEF TypeInv

\* A purge ends.
LEMMA PurgeEndsType ==
  ASSUME TypeInv, NEW c \in Client, PurgeEnds(c)
  PROVE  TypeInv' /\ Others(c) /\ req'[c] = Idle
<1>1. ServicesOK' /\ TreeOK'
  BY DEF PurgeEnds, TypeInv, ServicesOK, TreeOK, tree
<1>2. RequestsOK' /\ Others(c) /\ req'[c] = Idle
  BY Finishes DEF PurgeEnds, TypeInv
<1> QED
  BY <1>1, <1>2 DEF TypeInv

-----------------------------------------------------------------------------
(* Types: deletions and updates of assets *)

\* An asset is deleted in its service.
LEMMA DeleteAssetType ==
  ASSUME TypeInv, NEW c \in Client, NEW a \in Asset, DeleteAsset(c, a)
  PROVE  TypeInv' /\ "asset deleted" \in lapses' /\ lapses \subseteq lapses'
<1>1. TreeOK' /\ RequestsOK'
  BY DEF DeleteAsset, TypeInv, TreeOK, RequestsOK, tree
<1>2. /\ assets' \in [Asset -> Group \cup {NoGroup}]
      /\ policy' \in [Asset -> [Consumer -> Policies]]
  BY Deletes DEF DeleteAsset, TypeInv
<1>3. "asset deleted" \in lapses' /\ lapses \subseteq lapses' /\ lapses' \subseteq Lapses
  BY Lapse DEF DeleteAsset, TypeInv, Lapses
<1>4. ServicesOK'
  BY <1>2, <1>3 DEF DeleteAsset, TypeInv, ServicesOK
<1> QED
  BY <1>1, <1>3, <1>4 DEF TypeInv

\* The raw data of an asset is deleted, and with purge the asset is next.
LEMMA DeleteRawType ==
  ASSUME TypeInv, NEW c \in Client, NEW a \in Asset, NEW purge \in BOOLEAN,
         DeleteRaw(c, a, purge)
  PROVE  /\ TypeInv' /\ Others(c) /\ lapses \subseteq lapses' /\ raw' = raw \ {a}
         /\ \/ /\ req'[c].at = "erase" /\ req'[c].asset = a
               /\ \/ \A i \in trash \cap Item : items[i].asset # a
                  \/ "asset deleted" \in lapses'
            \/ req'[c] = Idle
<1>1. TreeOK' /\ raw' = raw \ {a}
  BY DEF DeleteRaw, TypeInv, TreeOK, tree
<1>2. /\ lapses' \subseteq Lapses /\ lapses \subseteq lapses'
      /\ purge => \/ \A i \in trash \cap Item : items[i].asset # a
                  \/ "asset deleted" \in lapses'
  <2>1. CASE ~purge
    <3>1. Allows("raw deleted")
      BY <2>1 DEF DeleteRaw
    <3> QED
      BY <2>1, <3>1, Lapse DEF TypeInv, Lapses
  <2>2. CASE purge /\ \E i \in trash \cap Item : items[i].asset = a
    <3>1. Allows("asset deleted")
      BY <2>2 DEF DeleteRaw
    <3> QED
      BY <3>1, Lapse DEF TypeInv, Lapses
  <2>3. CASE purge /\ ~ \E i \in trash \cap Item : items[i].asset = a
    <3>1. lapses' = lapses
      BY <2>3 DEF DeleteRaw
    <3> QED
      BY <2>3, <3>1 DEF TypeInv, ServicesOK
  <2> QED
    BY <2>1, <2>2, <2>3
<1>3. ServicesOK'
  BY <1>2 DEF DeleteRaw, TypeInv, ServicesOK
<1>4. CASE purge
  <2> DEFINE q == [Idle EXCEPT !.at = "erase", !.asset = a]
  <2>1. q \in Requests /\ q.at = "erase" /\ q.asset = a
    BY DEF Idle, Requests, Steps
  <2>2. Becomes(c, q)
    BY <1>4 DEF DeleteRaw
  <2> HIDE DEF q
  <2>3. RequestOK(c, q)
    BY <2>1 DEF RequestOK
  <2>4. RequestsOK' /\ Others(c) /\ req'[c] = q
    BY <2>1, <2>2, <2>3, Moves DEF TypeInv
  <2> QED
    BY <1>1, <1>2, <1>3, <1>4, <2>1, <2>4 DEF TypeInv
<1>5. CASE ~purge
  <2>1. Finish(c)
    BY <1>5 DEF DeleteRaw, Finish
  <2>2. RequestsOK' /\ Others(c) /\ req'[c] = Idle
    BY <2>1, Finishes DEF TypeInv
  <2> QED
    BY <1>1, <1>2, <1>3, <1>5, <2>2 DEF TypeInv
<1> QED
  BY <1>4, <1>5

\* The items of the asset are erased.
LEMMA EraseItemsType ==
  ASSUME TypeInv, NEW c \in Client, EraseItems(c)
  PROVE  /\ TypeInv' /\ Others(c) /\ req[c].asset \in Asset
         /\ req'[c].at = "delete asset" /\ Onwards(req[c], req'[c])
         /\ \A i \in Item : items'[i] = IF IsItem(i) /\ items[i].asset = req[c].asset THEN NoItem
                                        ELSE items[i]
<1> DEFINE q == [req[c] EXCEPT !.at = "delete asset"]
<1>1. req[c] \in Requests /\ req[c].asset \in Asset
  BY DEF EraseItems, At, TypeInv, RequestsOK, RequestOK
<1>2. q.at = "delete asset" /\ q.asset = req[c].asset
  BY <1>1 DEF Requests
<1>3. /\ items' \in [Item -> Items \cup {NoItem}]
      /\ \A i \in Item : items'[i] = IF IsItem(i) /\ items[i].asset = req[c].asset THEN NoItem
                                     ELSE items[i]
  BY DEF EraseItems, TypeInv, TreeOK
<1>4. TreeOK'
  BY <1>3 DEF EraseItems, TypeInv, TreeOK, IsItem
<1>5. ServicesOK' /\ Goto(c, "delete asset") /\ "delete asset" \in Steps
  BY DEF EraseItems, TypeInv, ServicesOK, Steps
<1> HIDE DEF q
<1>6. RequestOK(c, q)
  BY <1>1, <1>2 DEF RequestOK
<1>7. /\ RequestsOK' /\ Others(c) /\ req'[c].at = "delete asset" /\ Onwards(req[c], req'[c])
  BY <1>5, <1>6, Goes DEF TypeInv, q
<1> QED
  BY <1>1, <1>3, <1>4, <1>5, <1>7 DEF TypeInv

\* Then the asset and its policies, if the asset exists.
LEMMA EraseAssetType ==
  ASSUME TypeInv, NEW c \in Client, EraseAsset(c)
  PROVE  /\ TypeInv' /\ Others(c) /\ req'[c] = Idle /\ req[c].asset \in Asset
         /\ assets'[req[c].asset] \notin Group
         /\ \A b \in Asset : b # req[c].asset =>
              assets'[b] = assets[b] /\ \A g \in Consumer : policy'[b][g] = policy[b][g]
         /\ IF Exists(req[c].asset) THEN \A g \in Consumer : policy'[req[c].asset][g] = "none"
            ELSE policy' = policy
<1>1. req[c].asset \in Asset
  BY DEF EraseAsset, At, TypeInv, RequestsOK, RequestOK
<1>2. TreeOK' /\ RequestsOK' /\ Others(c) /\ req'[c] = Idle
  BY Finishes DEF EraseAsset, TypeInv, TreeOK, tree
<1>3. CASE Exists(req[c].asset)
  <2>1. Delete(req[c].asset) /\ ServicesOK
    BY <1>3 DEF EraseAsset, TypeInv
  <2>2. /\ assets' \in [Asset -> Group \cup {NoGroup}]
        /\ policy' \in [Asset -> [Consumer -> Policies]]
        /\ assets'[req[c].asset] \notin Group
        /\ \A b \in Asset : b # req[c].asset => assets'[b] = assets[b]
        /\ \A g \in Consumer : policy'[req[c].asset][g] = "none"
        /\ \A b \in Asset, g \in Consumer : b # req[c].asset => policy'[b][g] = policy[b][g]
    <3>1. ASSUME NEW a \in Asset, Delete(a), ServicesOK
          PROVE  /\ assets' \in [Asset -> Group \cup {NoGroup}]
                 /\ policy' \in [Asset -> [Consumer -> Policies]]
                 /\ assets'[a] \notin Group
                 /\ \A b \in Asset : b # a => assets'[b] = assets[b]
                 /\ \A g \in Consumer : policy'[a][g] = "none"
                 /\ \A b \in Asset, g \in Consumer : b # a => policy'[b][g] = policy[b][g]
      BY <3>1, Deletes DEF Exists
    <3> QED
      BY <1>1, <2>1, <3>1 DEF Exists
  <2>3. ServicesOK'
    BY <2>2 DEF EraseAsset, TypeInv, ServicesOK
  <2> QED
    BY <1>1, <1>2, <1>3, <2>2, <2>3 DEF TypeInv
<1>4. CASE ~Exists(req[c].asset)
  <2>1. assets' = assets /\ policy' = policy /\ ServicesOK'
    BY <1>4 DEF EraseAsset, TypeInv, ServicesOK
  <2> QED
    BY <1>1, <1>2, <1>4, <2>1 DEF TypeInv, Exists
<1> QED
  BY <1>3, <1>4

\* An asset is given another group.
LEMMA UpdateAssetType ==
  ASSUME TypeInv, NEW c \in Client, NEW a \in Asset, NEW g \in Group, UpdateAsset(c, a, g)
  PROVE  /\ TypeInv' /\ "regrouped" \in lapses' /\ lapses \subseteq lapses'
         /\ \A b \in Asset : Exists(b)' <=> Exists(b)
<1>1. TreeOK' /\ RequestsOK'
  BY DEF UpdateAsset, TypeInv, TreeOK, RequestsOK, tree
<1>2. "regrouped" \in lapses' /\ lapses \subseteq lapses' /\ lapses' \subseteq Lapses
  BY Lapse DEF UpdateAsset, TypeInv, Lapses
<1>3. ServicesOK' /\ \A b \in Asset : Exists(b)' <=> Exists(b)
  BY <1>2 DEF UpdateAsset, TypeInv, ServicesOK, Owns, Exists
<1> QED
  BY <1>1, <1>2, <1>3 DEF TypeInv

\* A policy is put or deleted by hand.
LEMMA SetPolicyType ==
  ASSUME TypeInv, NEW c \in Client, NEW a \in Asset, NEW consumer \in Consumer,
         NEW p \in Levels, SetPolicy(c, a, consumer, p)
  PROVE  /\ TypeInv' /\ lapses \subseteq lapses' /\ Exists(a)
         /\ "policy put" \in lapses' \/ "policy deleted" \in lapses'
         /\ \A b \in Asset, h \in Consumer : b # a => policy'[b][h] = policy[b][h]
<1>1. TreeOK' /\ RequestsOK' /\ Exists(a)
  BY DEF SetPolicy, TypeInv, TreeOK, RequestsOK, tree, Owns
<1>2. /\ lapses \subseteq lapses' /\ lapses' \subseteq Lapses
      /\ "policy put" \in lapses' \/ "policy deleted" \in lapses'
  <2>1. Allows("policy put") \/ Allows("policy deleted")
    BY DEF SetPolicy
  <2> QED
    BY <2>1, Lapse DEF TypeInv, Lapses
<1>3. /\ policy' \in [Asset -> [Consumer -> Policies]]
      /\ \A b \in Asset, h \in Consumer : b # a => policy'[b][h] = policy[b][h]
  BY GatewayAssumption, Permits DEF SetPolicy, TypeInv
<1>4. ServicesOK'
  BY <1>2, <1>3 DEF SetPolicy, TypeInv, ServicesOK
<1> QED
  BY <1>1, <1>2, <1>3, <1>4 DEF TypeInv

\* A call fails.
LEMMA FailsType ==
  ASSUME TypeInv, NEW c \in Client, Fails(c)
  PROVE  /\ TypeInv' /\ Others(c) /\ req'[c] = Idle
         /\ "failure" \in lapses' /\ lapses \subseteq lapses'
<1>1. TreeOK' /\ RequestsOK' /\ Others(c) /\ req'[c] = Idle
  BY Finishes DEF Fails, TypeInv, TreeOK, tree
<1>2. "failure" \in lapses' /\ lapses \subseteq lapses' /\ lapses' \subseteq Lapses
  BY Lapse DEF Fails, TypeInv, Lapses
<1>3. ServicesOK'
  BY <1>2 DEF Fails, TypeInv, ServicesOK
<1> QED
  BY <1>1, <1>2, <1>3 DEF TypeInv

-----------------------------------------------------------------------------
(* Types: every step *)

\* What a client may do.
Acts(c) ==
  \/ Continues(c)
  \/ \E f \in Folder, g \in Group : CreateFolder(c, f, g)
  \/ \E p \in Place :
       \/ \E a \in Asset, k \in Kinds \ {"none"} : CreateRaw(c, a, k, p)
       \/ \E x \in Item \cup Folder : Move(c, x, p)
       \/ \E i \in Item, s \in Symlink : Borrow(c, i, p, s)
  \/ \E x \in Item \cup Folder : DeleteEntity(c, x)
  \/ \E g \in Group : Purge(c, g)
  \/ \E a \in Asset :
       \/ DeleteAsset(c, a)
       \/ \E purge \in BOOLEAN : DeleteRaw(c, a, purge)
       \/ \E g \in Group : UpdateAsset(c, a, g)
       \/ \E consumer \in Consumer, p \in Levels : SetPolicy(c, a, consumer, p)

\* Every action keeps the types.
LEMMA ActsType ==
  ASSUME TypeInv, NEW c \in Client, Acts(c)
  PROVE  TypeInv'
<1>1. ASSUME NEW f \in Folder, NEW g \in Group, CreateFolder(c, f, g) PROVE TypeInv'
  BY <1>1, CreateFolderType
<1>2. ASSUME NEW a \in Asset, NEW k \in Kinds \ {"none"}, NEW p \in Place,
              CreateRaw(c, a, k, p)
       PROVE  TypeInv'
  BY <1>2, CreateRawType
<1>3. ASSUME PostAsset(c) PROVE TypeInv'
  BY <1>3, PostAssetType
<1>4. ASSUME CreateItem(c) PROVE TypeInv'
  BY <1>4, CreateItemType
<1>5. ASSUME NEW x \in Item \cup Folder, NEW p \in Place, Move(c, x, p) PROVE TypeInv'
  BY <1>5, MoveType
<1>6. ASSUME TreeMove(c) PROVE TypeInv'
  BY <1>6, TreeMoveType
<1>7. ASSUME NEW a \in Asset, Sync(c, a) PROVE TypeInv'
  BY <1>7, SyncType
<1>8. ASSUME SyncEnds(c) PROVE TypeInv'
  BY <1>8, SyncEndsType
<1>9. ASSUME NEW i \in Item, NEW p \in Place, NEW s \in Symlink,
              Borrow(c, i, p, s)
       PROVE  TypeInv'
  BY <1>9, BorrowType
<1>10. ASSUME TreeBorrow(c) PROVE TypeInv'
  BY <1>10, TreeBorrowType
<1>11. ASSUME PutPolicyOfBorrow(c) PROVE TypeInv'
  BY <1>11, PutPolicyOfBorrowType
<1>12. ASSUME NEW x \in Item \cup Folder, DeleteEntity(c, x) PROVE TypeInv'
  BY <1>12, DeleteEntityType
<1>13. ASSUME NEW g \in Group, Purge(c, g) PROVE TypeInv'
  BY <1>13, PurgeType
<1>14. ASSUME TreePurge(c) PROVE TypeInv'
  BY <1>14, TreePurgeType
<1>15. ASSUME NEW a \in Asset, EraseRaw(c, a) PROVE TypeInv'
  BY <1>15, EraseRawType
<1>16. ASSUME NEW a \in Asset, SkipRaw(c, a) PROVE TypeInv'
  BY <1>16, SkipRawType
<1>17. ASSUME PurgeAsset(c) PROVE TypeInv'
  BY <1>17, PurgeAssetType
<1>18. ASSUME PurgeOriginalsEnd(c) PROVE TypeInv'
  BY <1>18, PurgeOriginalsEndType
<1>19. ASSUME NEW a \in Asset, NEW g \in Group, PurgeLent(c, a, g) PROVE TypeInv'
  BY <1>19, PurgeLentType
<1>20. ASSUME PurgeEnds(c) PROVE TypeInv'
  BY <1>20, PurgeEndsType
<1>21. ASSUME NEW a \in Asset, DeleteAsset(c, a) PROVE TypeInv'
  BY <1>21, DeleteAssetType
<1>22. ASSUME NEW a \in Asset, NEW purge \in BOOLEAN, DeleteRaw(c, a, purge) PROVE TypeInv'
  BY <1>22, DeleteRawType
<1>23. ASSUME EraseItems(c) PROVE TypeInv'
  BY <1>23, EraseItemsType
<1>24. ASSUME EraseAsset(c) PROVE TypeInv'
  BY <1>24, EraseAssetType
<1>25. ASSUME NEW a \in Asset, NEW g \in Group, UpdateAsset(c, a, g) PROVE TypeInv'
  BY <1>25, UpdateAssetType
<1>26. ASSUME NEW a \in Asset, NEW consumer \in Consumer, NEW p \in Levels,
               SetPolicy(c, a, consumer, p)
        PROVE  TypeInv'
  BY <1>26, SetPolicyType
<1>27. ASSUME Fails(c) PROVE TypeInv'
  BY <1>27, FailsType
<1> QED
  BY <1>1, <1>2, <1>3, <1>4, <1>5, <1>6, <1>7, <1>8, <1>9, <1>10, <1>11, <1>12, <1>13,
     <1>14, <1>15, <1>16, <1>17, <1>18, <1>19, <1>20, <1>21, <1>22, <1>23, <1>24,
     <1>25, <1>26, <1>27 DEF Acts, Continues

\* So does every step.
LEMMA TypeStep == TypeInv /\ [Next]_vars => TypeInv'
<1>1. ASSUME TypeInv, Next PROVE TypeInv'
  BY <1>1, ActsType DEF Next, Acts
<1>2. ASSUME TypeInv, UNCHANGED vars PROVE TypeInv'
  BY <1>2 DEF vars, tree, TypeInv, ServicesOK, TreeOK, RequestsOK
<1> QED
  BY <1>1, <1>2

LEMMA TypeInvAlways == Spec => []TypeInv
  BY TypeInit, TypeStep, PTL DEF Spec

\* The services, the explorer and the requests keep their types, and an entry of the
\* trash is an item or a folder that is there: for any number of requests at once.
THEOREM TypeCorrect == Spec => []TypeOK
  BY TypeInvAlways, TypeInvType, PTL

-----------------------------------------------------------------------------
(* The explorer: what its documents say of one another, for any number of    *)
(* requests at once.                                                         *)

\* The group of a place, as the folders are in h.
Within(h, p) == IF p \in Group THEN p ELSE h[p]

\* The original item of an asset is that of the asset, symlinks are borrowed, and an
\* original that is not in the trash is in the group of its folder.
DocsInv ==
  /\ \A a \in Asset : items[a] # NoItem => items[a].asset = a /\ ~items[a].borrowed
  /\ \A s \in Symlink : items[s] # NoItem => items[s].borrowed
  /\ \A a \in Asset :
       items[a] # NoItem /\ a \notin trash => Within(home, items[a].place) = items[a].group

\* Assets and symlinks are items, and no item is a folder.
LEMMA ItemKinds ==
  /\ \A a \in Asset : a \in Item /\ a \notin Symlink /\ a \notin Place /\ a \notin Folder
  /\ \A s \in Symlink : s \in Item /\ s \notin Asset /\ s \notin Place /\ s \notin Folder
  /\ \A i \in Item : i \in Asset \/ i \in Symlink
  /\ \A f \in Folder : f \in Place /\ f \notin Item /\ f \notin Group
  /\ \A p \in Place : p \in Group \/ p \in Folder
  BY GatewayAssumption DEF Item, Place

\* A document is well typed.
LEMMA DocType ==
  ASSUME TypeInv, NEW i \in Item, items[i] # NoItem
  PROVE  /\ items[i] \in Items /\ items[i].asset \in Asset /\ items[i].place \in Place
         /\ items[i].group \in Group /\ items[i].borrowed \in BOOLEAN
  BY DEF TypeInv, TreeOK, Items

\* A new folder holds nothing yet.
LEMMA CreateFolderDocs ==
  ASSUME TypeInv, DocsInv, NEW c \in Client, NEW f \in Folder, NEW g \in Group,
         CreateFolder(c, f, g)
  PROVE  DocsInv'
<1>1. items' = items /\ trash' = trash /\ home[f] = NoGroup
  BY DEF CreateFolder
<1>2. \A h \in Folder : h # f => home'[h] = home[h]
  BY DEF CreateFolder, TypeInv, TreeOK
<1>3. ASSUME NEW a \in Asset, items[a] # NoItem, a \notin trash
      PROVE  Within(home', items[a].place) = items[a].group
  <2>1. Within(home, items[a].place) = items[a].group /\ items[a].group \in Group
    BY <1>3, ItemKinds, DocType DEF DocsInv
  <2>2. items[a].place # f
    BY <1>1, <2>1, ItemKinds, GatewayAssumption DEF Within
  <2>3. items[a].place \in Place
    BY <1>3, ItemKinds, DocType
  <2> QED
    BY <1>1, <1>2, <2>1, <2>2, <2>3, ItemKinds DEF Within
<1> QED
  BY <1>1, <1>3 DEF DocsInv

\* A move takes the originals of a folder along, so they stay in the group of the folder.
LEMMA TreeMoveDocs ==
  ASSUME TypeInv, DocsInv, NEW c \in Client, TreeMove(c)
  PROVE  DocsInv'
<1> DEFINE x == req[c].item
           p == req[c].place
<1>1. /\ x \in Item \cup Folder /\ p \in Place /\ trash' = trash
      /\ (Relocates(c) /\ IsFolder(p)) \/ (items' = items /\ home' = home)
  BY TreeMoveType DEF TreeMove
<1>2. CASE items' = items /\ home' = home
  BY <1>1, <1>2 DEF DocsInv, Within
<1>3. CASE Relocates(c) /\ IsFolder(p)
  <2>1. \A i \in Item :
          IF i \in MovedBy(c)
            THEN /\ IsItem(i) /\ items'[i] # NoItem
                 /\ items'[i].asset = items[i].asset /\ items'[i].borrowed = items[i].borrowed
                 /\ items'[i].group = GroupOf(p)
                 /\ items'[i].place = IF i = x THEN p ELSE items[i].place
            ELSE items'[i] = items[i]
    BY <1>3 DEF Relocates
  <2>2. \A f \in Folder : home'[f] = IF f = x THEN GroupOf(p) ELSE home[f]
    BY <1>3 DEF Relocates
  <2>3. \A s \in Symlink : items'[s] # NoItem => items'[s].borrowed
    BY <2>1, ItemKinds DEF DocsInv, IsItem
  <2>4. \A a \in Asset : items'[a] # NoItem => items'[a].asset = a /\ ~items'[a].borrowed
    BY <2>1, ItemKinds DEF DocsInv, IsItem
  <2>5. ASSUME NEW q \in Place
        PROVE  Within(home', q) = IF q \in Folder /\ q = x THEN GroupOf(p) ELSE Within(home, q)
    BY <2>2, ItemKinds DEF Within, GroupOf
  <2>6. ASSUME NEW a \in Asset, items'[a] # NoItem, a \notin trash
        PROVE  Within(home', items'[a].place) = items'[a].group
    <3>1. CASE a \in MovedBy(c)
      <4>1. items'[a].group = GroupOf(p)
            /\ items'[a].place = IF a = x THEN p ELSE items[a].place
        BY <2>1, <3>1, ItemKinds
      <4>2. CASE a = x
        <5>1. x \notin Folder /\ items'[a].place = p
          BY <4>1, <4>2, ItemKinds
        <5> QED
          BY <1>1, <2>5, <4>1, <5>1 DEF Within, GroupOf
      <4>3. CASE a # x
        <5>1. x \in Folder /\ items[a].place = x /\ items'[a].place = x
          BY <1>1, <3>1, <4>1, <4>3, ItemKinds DEF MovedBy, Follow
        <5> QED
          BY <2>5, <4>1, <5>1, ItemKinds
      <4> QED
        BY <4>2, <4>3
    <3>2. CASE a \notin MovedBy(c)
      <4>1. items'[a] = items[a] /\ items[a] # NoItem
        BY <2>1, <2>6, <3>2, ItemKinds
      <4>2. Within(home, items[a].place) = items[a].group /\ ~items[a].borrowed
        BY <2>6, <4>1 DEF DocsInv
      <4>3. items[a].place \in Place
        BY <4>1, ItemKinds, DocType
      <4>4. CASE items[a].place \in Folder /\ items[a].place = x
        <5>1. IsItem(a)
          BY <2>6, <4>1, ItemKinds DEF IsItem
        <5>2. home[x] = GroupOf(p)
          BY <3>2, <4>2, <4>4, <5>1, ItemKinds DEF MovedBy, Follow
        <5>3. Within(home, items[a].place) = GroupOf(p)
          BY <4>4, <5>2, ItemKinds DEF Within, GroupOf
        <5> QED
          BY <2>5, <4>1, <4>2, <4>3, <4>4, <5>3
      <4>5. CASE ~(items[a].place \in Folder /\ items[a].place = x)
        BY <2>5, <4>1, <4>2, <4>3, <4>5
      <4> QED
        BY <4>4, <4>5
    <3> QED
      BY <3>1, <3>2
  <2> QED
    BY <1>1, <2>3, <2>4, <2>6 DEF DocsInv
<1> QED
  BY <1>1, <1>2, <1>3

\* A purge takes the content of the folders it removes.
LEMMA TreePurgeDocs ==
  ASSUME TypeInv, DocsInv, NEW c \in Client, TreePurge(c)
  PROVE  DocsInv'
<1> DEFINE g == req[c].to
<1>1. /\ \A i \in Item : items'[i] = IF i \in GoneFrom(g) THEN NoItem ELSE items[i]
      /\ \A f \in Folder : home'[f] = IF f \in FoldersOf(g) THEN NoGroup ELSE home[f]
      /\ trash' = trash \ (GoneFrom(g) \cup FoldersOf(g))
  BY TreePurgeType
<1>2. ASSUME NEW i \in Item, items'[i] # NoItem
      PROVE  items'[i] = items[i] /\ items[i] # NoItem /\ i \notin GoneFrom(g)
  BY <1>1, <1>2
<1>3. ASSUME NEW a \in Asset, items'[a] # NoItem, a \notin trash'
      PROVE  Within(home', items'[a].place) = items'[a].group
  <2>1. items'[a] = items[a] /\ items[a] # NoItem /\ a \notin GoneFrom(g) /\ a \in Item
    BY <1>2, <1>3, ItemKinds
  <2>2. a \notin trash
    BY <1>1, <1>3, <2>1, ItemKinds DEF FoldersOf
  <2>3. items[a].place \notin FoldersOf(g) /\ items[a].place \in Place
    BY <2>1, <2>2, DocType DEF GoneFrom
  <2>4. Within(home', items[a].place) = Within(home, items[a].place)
    <3>1. items'[a].place \in Folder \/ items'[a].place \in Group
      BY <2>1, <2>3, ItemKinds
    <3> QED
      BY <1>1, <2>1, <2>3, <3>1, ItemKinds DEF Within
  <2> QED
    BY <2>1, <2>2, <2>4 DEF DocsInv
<1> QED
  BY <1>2, <1>3, ItemKinds DEF DocsInv

\* An original is posted in the group of its folder.
LEMMA CreateItemDocs ==
  ASSUME TypeInv, DocsInv, NEW c \in Client, CreateItem(c)
  PROVE  DocsInv'
<1>1. home' = home /\ trash' = trash
  BY DEF CreateItem
<1>2. /\ req[c].asset \in Asset
      /\ \A j \in Item : j # req[c].asset => items'[j] = items[j]
      /\ \/ /\ items'[req[c].asset].asset = req[c].asset /\ ~items'[req[c].asset].borrowed
            /\ items'[req[c].asset].group = Within(home, items'[req[c].asset].place)
         \/ items' = items
  BY CreateItemType DEF Within, GroupOf
<1>3. CASE items' = items
  BY <1>1, <1>3 DEF DocsInv, Within
<1>4. CASE /\ items'[req[c].asset].asset = req[c].asset /\ ~items'[req[c].asset].borrowed
           /\ items'[req[c].asset].group = Within(home, items'[req[c].asset].place)
  <2>1. \A s \in Symlink : items'[s] = items[s]
    BY <1>2, ItemKinds
  <2>2. ASSUME NEW a \in Asset, items'[a] # NoItem
        PROVE  /\ items'[a].asset = a /\ ~items'[a].borrowed
               /\ a \notin trash => Within(home, items'[a].place) = items'[a].group
    BY <1>2, <1>4, <2>2, ItemKinds DEF DocsInv
  <2> QED
    BY <1>1, <2>1, <2>2 DEF DocsInv
<1> QED
  BY <1>2, <1>3, <1>4

\* A symlink is posted as borrowed.
LEMMA TreeBorrowDocs ==
  ASSUME TypeInv, DocsInv, NEW c \in Client, TreeBorrow(c)
  PROVE  DocsInv'
<1>1. home' = home /\ trash' = trash
  BY DEF TreeBorrow
<1>2. /\ req[c].link \in Symlink
      /\ \A j \in Item : j # req[c].link => items'[j] = items[j]
      /\ items'[req[c].link].borrowed \/ items' = items
  BY TreeBorrowType
<1>3. \A a \in Asset : items'[a] = items[a]
  BY <1>2, ItemKinds
<1>4. \A s \in Symlink : items'[s] # NoItem => items'[s].borrowed
  BY <1>2, ItemKinds DEF DocsInv
<1> QED
  BY <1>1, <1>3, <1>4 DEF DocsInv

\* Every action keeps the documents so.
LEMMA ActsDocs ==
  ASSUME TypeInv, DocsInv, NEW c \in Client, Acts(c)
  PROVE  DocsInv'
<1>1. ASSUME NEW f \in Folder, NEW g \in Group, CreateFolder(c, f, g) PROVE DocsInv'
  BY <1>1, CreateFolderDocs
<1>2. ASSUME NEW a \in Asset, NEW k \in Kinds \ {"none"}, NEW p \in Place,
              CreateRaw(c, a, k, p)
       PROVE  DocsInv'
  BY <1>2 DEF CreateRaw, tree, DocsInv, Within
<1>3. ASSUME PostAsset(c) PROVE DocsInv'
  BY <1>3 DEF PostAsset, tree, DocsInv, Within
<1>4. ASSUME CreateItem(c) PROVE DocsInv'
  BY <1>4, CreateItemDocs
<1>5. ASSUME NEW x \in Item \cup Folder, NEW p \in Place, Move(c, x, p) PROVE DocsInv'
  BY <1>5 DEF Move, tree, DocsInv, Within
<1>6. ASSUME TreeMove(c) PROVE DocsInv'
  BY <1>6, TreeMoveDocs
<1>7. ASSUME NEW a \in Asset, Sync(c, a) PROVE DocsInv'
  BY <1>7 DEF Sync, tree, DocsInv, Within
<1>8. ASSUME SyncEnds(c) PROVE DocsInv'
  BY <1>8 DEF SyncEnds, tree, DocsInv, Within
<1>9. ASSUME NEW i \in Item, NEW p \in Place, NEW s \in Symlink,
              Borrow(c, i, p, s)
       PROVE  DocsInv'
  BY <1>9 DEF Borrow, tree, DocsInv, Within
<1>10. ASSUME TreeBorrow(c) PROVE DocsInv'
  BY <1>10, TreeBorrowDocs
<1>11. ASSUME PutPolicyOfBorrow(c) PROVE DocsInv'
  BY <1>11 DEF PutPolicyOfBorrow, tree, DocsInv, Within
<1>12. ASSUME NEW x \in Item \cup Folder, DeleteEntity(c, x) PROVE DocsInv'
  BY <1>12 DEF DeleteEntity, DocsInv, Within
<1>13. ASSUME NEW g \in Group, Purge(c, g) PROVE DocsInv'
  BY <1>13 DEF Purge, tree, DocsInv, Within
<1>14. ASSUME TreePurge(c) PROVE DocsInv'
  BY <1>14, TreePurgeDocs
<1>15. ASSUME NEW a \in Asset, EraseRaw(c, a) PROVE DocsInv'
  BY <1>15 DEF EraseRaw, tree, DocsInv, Within
<1>16. ASSUME NEW a \in Asset, SkipRaw(c, a) PROVE DocsInv'
  BY <1>16 DEF SkipRaw, tree, DocsInv, Within
<1>17. ASSUME PurgeAsset(c) PROVE DocsInv'
  BY <1>17 DEF PurgeAsset, tree, DocsInv, Within
<1>18. ASSUME PurgeOriginalsEnd(c) PROVE DocsInv'
  BY <1>18 DEF PurgeOriginalsEnd, tree, DocsInv, Within
<1>19. ASSUME NEW a \in Asset, NEW g \in Group, PurgeLent(c, a, g) PROVE DocsInv'
  BY <1>19 DEF PurgeLent, tree, DocsInv, Within
<1>20. ASSUME PurgeEnds(c) PROVE DocsInv'
  BY <1>20 DEF PurgeEnds, tree, DocsInv, Within
<1>21. ASSUME NEW a \in Asset, DeleteAsset(c, a) PROVE DocsInv'
  BY <1>21 DEF DeleteAsset, tree, DocsInv, Within
<1>22. ASSUME NEW a \in Asset, NEW purge \in BOOLEAN, DeleteRaw(c, a, purge) PROVE DocsInv'
  BY <1>22 DEF DeleteRaw, tree, DocsInv, Within
<1>23. ASSUME EraseItems(c) PROVE DocsInv'
  <2>1. home' = home /\ trash' = trash
    BY <1>23 DEF EraseItems
  <2> QED
    BY <1>23, <2>1, EraseItemsType, ItemKinds DEF DocsInv, Within, GroupOf
<1>24. ASSUME EraseAsset(c) PROVE DocsInv'
  BY <1>24 DEF EraseAsset, tree, DocsInv, Within
<1>25. ASSUME NEW a \in Asset, NEW g \in Group, UpdateAsset(c, a, g) PROVE DocsInv'
  BY <1>25 DEF UpdateAsset, tree, DocsInv, Within
<1>26. ASSUME NEW a \in Asset, NEW consumer \in Consumer, NEW p \in Levels,
               SetPolicy(c, a, consumer, p)
        PROVE  DocsInv'
  BY <1>26 DEF SetPolicy, tree, DocsInv, Within
<1>27. ASSUME Fails(c) PROVE DocsInv'
  BY <1>27 DEF Fails, tree, DocsInv, Within
<1> QED
  BY <1>1, <1>2, <1>3, <1>4, <1>5, <1>6, <1>7, <1>8, <1>9, <1>10, <1>11, <1>12, <1>13,
     <1>14, <1>15, <1>16, <1>17, <1>18, <1>19, <1>20, <1>21, <1>22, <1>23, <1>24,
     <1>25, <1>26, <1>27 DEF Acts, Continues

\* So does every step.
LEMMA DocsStep == TypeInv /\ DocsInv /\ [Next]_vars => DocsInv'
<1>1. ASSUME TypeInv, DocsInv, Next PROVE DocsInv'
  BY <1>1, ActsDocs DEF Next, Acts
<1>2. ASSUME DocsInv, UNCHANGED vars PROVE DocsInv'
  BY <1>2 DEF vars, tree, DocsInv, Within
<1> QED
  BY <1>1, <1>2

-----------------------------------------------------------------------------
(* An asset that has not been begun leaves no trace, for any number of       *)
(* requests at once.                                                         *)

\* The steps of a request that posts an asset, or an item for one.
Posting == {"post asset", "post item", "borrow"}

\* Items and the requests that post are those of assets begun; there is nothing else.
KindInv ==
  /\ \A i \in Item : items[i] # NoItem => kind[items[i].asset] # "none"
  /\ \A d \in Client : req[d].at \in Posting => kind[req[d].asset] # "none"
  /\ \A a \in Asset : kind[a] = "none" =>
       /\ assets[a] \notin Group /\ a \notin raw
       /\ \A g \in Consumer : policy[a][g] = "none"

\* An asset that is begun keeps its kind.
LEMMA KindStays ==
  ASSUME TypeInv, NEW c \in Client, Acts(c)
  PROVE  \A a \in Asset : kind[a] # "none" => kind'[a] = kind[a]
<1>1. ASSUME NEW f \in Folder, NEW g \in Group,
              CreateFolder(c, f, g)
       PROVE  \A b \in Asset : kind[b] # "none" => kind'[b] = kind[b]
  BY <1>1 DEF CreateFolder
<1>2. ASSUME NEW a \in Asset, NEW k \in Kinds \ {"none"}, NEW p \in Place,
              CreateRaw(c, a, k, p)
       PROVE  \A b \in Asset : kind[b] # "none" => kind'[b] = kind[b]
  BY <1>2 DEF CreateRaw, TypeInv, ServicesOK
<1>3. ASSUME PostAsset(c) PROVE \A b \in Asset : kind[b] # "none" => kind'[b] = kind[b]
  BY <1>3 DEF PostAsset
<1>4. ASSUME CreateItem(c) PROVE \A b \in Asset : kind[b] # "none" => kind'[b] = kind[b]
  BY <1>4 DEF CreateItem
<1>5. ASSUME NEW x \in Item \cup Folder, NEW p \in Place,
              Move(c, x, p)
       PROVE  \A b \in Asset : kind[b] # "none" => kind'[b] = kind[b]
  BY <1>5 DEF Move
<1>6. ASSUME TreeMove(c) PROVE \A b \in Asset : kind[b] # "none" => kind'[b] = kind[b]
  BY <1>6 DEF TreeMove
<1>7. ASSUME NEW a \in Asset,
              Sync(c, a)
       PROVE  \A b \in Asset : kind[b] # "none" => kind'[b] = kind[b]
  BY <1>7 DEF Sync
<1>8. ASSUME SyncEnds(c) PROVE \A b \in Asset : kind[b] # "none" => kind'[b] = kind[b]
  BY <1>8 DEF SyncEnds
<1>9. ASSUME NEW i \in Item, NEW p \in Place, NEW s \in Symlink,
              Borrow(c, i, p, s)
       PROVE  \A b \in Asset : kind[b] # "none" => kind'[b] = kind[b]
  BY <1>9 DEF Borrow
<1>10. ASSUME TreeBorrow(c) PROVE \A b \in Asset : kind[b] # "none" => kind'[b] = kind[b]
  BY <1>10 DEF TreeBorrow
<1>11. ASSUME PutPolicyOfBorrow(c) PROVE \A b \in Asset : kind[b] # "none" => kind'[b] = kind[b]
  BY <1>11 DEF PutPolicyOfBorrow
<1>12. ASSUME NEW x \in Item \cup Folder,
               DeleteEntity(c, x)
        PROVE  \A b \in Asset : kind[b] # "none" => kind'[b] = kind[b]
  BY <1>12 DEF DeleteEntity
<1>13. ASSUME NEW g \in Group,
               Purge(c, g)
        PROVE  \A b \in Asset : kind[b] # "none" => kind'[b] = kind[b]
  BY <1>13 DEF Purge
<1>14. ASSUME TreePurge(c) PROVE \A b \in Asset : kind[b] # "none" => kind'[b] = kind[b]
  BY <1>14 DEF TreePurge
<1>15. ASSUME NEW a \in Asset,
               EraseRaw(c, a)
        PROVE  \A b \in Asset : kind[b] # "none" => kind'[b] = kind[b]
  BY <1>15 DEF EraseRaw
<1>16. ASSUME NEW a \in Asset,
               SkipRaw(c, a)
        PROVE  \A b \in Asset : kind[b] # "none" => kind'[b] = kind[b]
  BY <1>16 DEF SkipRaw
<1>17. ASSUME PurgeAsset(c) PROVE \A b \in Asset : kind[b] # "none" => kind'[b] = kind[b]
  BY <1>17 DEF PurgeAsset
<1>18. ASSUME PurgeOriginalsEnd(c) PROVE \A b \in Asset : kind[b] # "none" => kind'[b] = kind[b]
  BY <1>18 DEF PurgeOriginalsEnd
<1>19. ASSUME NEW a \in Asset, NEW g \in Group,
               PurgeLent(c, a, g)
        PROVE  \A b \in Asset : kind[b] # "none" => kind'[b] = kind[b]
  BY <1>19 DEF PurgeLent
<1>20. ASSUME PurgeEnds(c) PROVE \A b \in Asset : kind[b] # "none" => kind'[b] = kind[b]
  BY <1>20 DEF PurgeEnds
<1>21. ASSUME NEW a \in Asset,
               DeleteAsset(c, a)
        PROVE  \A b \in Asset : kind[b] # "none" => kind'[b] = kind[b]
  BY <1>21 DEF DeleteAsset
<1>22. ASSUME NEW a \in Asset, NEW purge \in BOOLEAN,
               DeleteRaw(c, a, purge)
        PROVE  \A b \in Asset : kind[b] # "none" => kind'[b] = kind[b]
  BY <1>22 DEF DeleteRaw
<1>23. ASSUME EraseItems(c) PROVE \A b \in Asset : kind[b] # "none" => kind'[b] = kind[b]
  BY <1>23 DEF EraseItems
<1>24. ASSUME EraseAsset(c) PROVE \A b \in Asset : kind[b] # "none" => kind'[b] = kind[b]
  BY <1>24 DEF EraseAsset
<1>25. ASSUME NEW a \in Asset, NEW g \in Group,
               UpdateAsset(c, a, g)
        PROVE  \A b \in Asset : kind[b] # "none" => kind'[b] = kind[b]
  BY <1>25 DEF UpdateAsset
<1>26. ASSUME NEW a \in Asset, NEW consumer \in Consumer, NEW p \in Levels,
               SetPolicy(c, a, consumer, p)
        PROVE  \A b \in Asset : kind[b] # "none" => kind'[b] = kind[b]
  BY <1>26 DEF SetPolicy
<1>27. ASSUME Fails(c) PROVE \A b \in Asset : kind[b] # "none" => kind'[b] = kind[b]
  BY <1>27 DEF Fails
<1> QED
  BY <1>1, <1>2, <1>3, <1>4, <1>5, <1>6, <1>7, <1>8, <1>9, <1>10, <1>11, <1>12, <1>13,
     <1>14, <1>15, <1>16, <1>17, <1>18, <1>19, <1>20, <1>21, <1>22, <1>23, <1>24,
     <1>25, <1>26, <1>27 DEF Acts, Continues

\* The items are those of assets begun.
LEMMA ActsItems ==
  ASSUME TypeInv, KindInv, NEW c \in Client, Acts(c)
  PROVE  \A i \in Item : items'[i] # NoItem => kind'[items'[i].asset] # "none"
<1> DEFINE Begun == \A i \in Item : items'[i] # NoItem => kind'[items'[i].asset] # "none"
<1>0. ASSUME \A i \in Item : items'[i] # NoItem =>
                \/ items[i] # NoItem /\ items'[i].asset = items[i].asset
                \/ items'[i].asset \in Asset /\ kind[items'[i].asset] # "none"
      PROVE  Begun
  BY <1>0, KindStays, DocType DEF KindInv
<1>1. ASSUME NEW f \in Folder, NEW g \in Group, CreateFolder(c, f, g) PROVE Begun
  BY <1>1, <1>0 DEF CreateFolder, tree
<1>2. ASSUME NEW a \in Asset, NEW k \in Kinds \ {"none"}, NEW p \in Place,
              CreateRaw(c, a, k, p)
       PROVE  Begun
  BY <1>2, <1>0 DEF CreateRaw, tree
<1>3. ASSUME PostAsset(c) PROVE Begun
  BY <1>3, <1>0 DEF PostAsset, tree
<1>4. ASSUME CreateItem(c) PROVE Begun
  <2>1. kind[req[c].asset] # "none"
    BY <1>4 DEF CreateItem, At, Posting, KindInv
  <2> QED
    BY <1>4, <1>0, <2>1, CreateItemType
<1>5. ASSUME NEW x \in Item \cup Folder, NEW p \in Place, Move(c, x, p) PROVE Begun
  BY <1>5, <1>0 DEF Move, tree
<1>6. ASSUME TreeMove(c) PROVE Begun
  BY <1>6, <1>0, TreeMoveType DEF Relocates, IsItem
<1>7. ASSUME NEW a \in Asset, Sync(c, a) PROVE Begun
  BY <1>7, <1>0 DEF Sync, tree
<1>8. ASSUME SyncEnds(c) PROVE Begun
  BY <1>8, <1>0 DEF SyncEnds, tree
<1>9. ASSUME NEW i \in Item, NEW p \in Place, NEW s \in Symlink,
              Borrow(c, i, p, s)
       PROVE  Begun
  BY <1>9, <1>0 DEF Borrow, tree
<1>10. ASSUME TreeBorrow(c) PROVE Begun
  <2>1. kind[req[c].asset] # "none"
    BY <1>10 DEF TreeBorrow, At, Posting, KindInv
  <2> QED
    BY <1>10, <1>0, <2>1, TreeBorrowType
<1>11. ASSUME PutPolicyOfBorrow(c) PROVE Begun
  BY <1>11, <1>0 DEF PutPolicyOfBorrow, tree
<1>12. ASSUME NEW x \in Item \cup Folder, DeleteEntity(c, x) PROVE Begun
  BY <1>12, <1>0 DEF DeleteEntity, tree
<1>13. ASSUME NEW g \in Group, Purge(c, g) PROVE Begun
  BY <1>13, <1>0 DEF Purge, tree
<1>14. ASSUME TreePurge(c) PROVE Begun
  BY <1>14, <1>0, TreePurgeType
<1>15. ASSUME NEW a \in Asset, EraseRaw(c, a) PROVE Begun
  BY <1>15, <1>0 DEF EraseRaw, tree
<1>16. ASSUME NEW a \in Asset, SkipRaw(c, a) PROVE Begun
  BY <1>16, <1>0 DEF SkipRaw, tree
<1>17. ASSUME PurgeAsset(c) PROVE Begun
  BY <1>17, <1>0 DEF PurgeAsset, tree
<1>18. ASSUME PurgeOriginalsEnd(c) PROVE Begun
  BY <1>18, <1>0 DEF PurgeOriginalsEnd, tree
<1>19. ASSUME NEW a \in Asset, NEW g \in Group, PurgeLent(c, a, g) PROVE Begun
  BY <1>19, <1>0 DEF PurgeLent, tree
<1>20. ASSUME PurgeEnds(c) PROVE Begun
  BY <1>20, <1>0 DEF PurgeEnds, tree
<1>21. ASSUME NEW a \in Asset, DeleteAsset(c, a) PROVE Begun
  BY <1>21, <1>0 DEF DeleteAsset, tree
<1>22. ASSUME NEW a \in Asset, NEW purge \in BOOLEAN, DeleteRaw(c, a, purge) PROVE Begun
  BY <1>22, <1>0 DEF DeleteRaw, tree
<1>23. ASSUME EraseItems(c) PROVE Begun
  BY <1>23, <1>0, EraseItemsType
<1>24. ASSUME EraseAsset(c) PROVE Begun
  BY <1>24, <1>0 DEF EraseAsset, tree
<1>25. ASSUME NEW a \in Asset, NEW g \in Group, UpdateAsset(c, a, g) PROVE Begun
  BY <1>25, <1>0 DEF UpdateAsset, tree
<1>26. ASSUME NEW a \in Asset, NEW consumer \in Consumer, NEW p \in Levels,
               SetPolicy(c, a, consumer, p)
        PROVE  Begun
  BY <1>26, <1>0 DEF SetPolicy, tree
<1>27. ASSUME Fails(c) PROVE Begun
  BY <1>27, <1>0 DEF Fails, tree
<1> QED
  BY <1>1, <1>2, <1>3, <1>4, <1>5, <1>6, <1>7, <1>8, <1>9, <1>10, <1>11, <1>12, <1>13,
     <1>14, <1>15, <1>16, <1>17, <1>18, <1>19, <1>20, <1>21, <1>22, <1>23, <1>24,
     <1>25, <1>26, <1>27 DEF Acts, Continues

\* The requests that post are those of assets begun.
LEMMA ActsPosting ==
  ASSUME TypeInv, KindInv, NEW c \in Client, Acts(c)
  PROVE  \A d \in Client : req'[d].at \in Posting => kind'[req'[d].asset] # "none"
<1> DEFINE Begun == \A d \in Client : req'[d].at \in Posting => kind'[req'[d].asset] # "none"
<1>a. ASSUME NEW d \in Client, req'[d] = req[d], req'[d].at \in Posting
      PROVE  kind'[req'[d].asset] # "none"
  <2>1. kind[req[d].asset] # "none" /\ req[d].asset \in Asset
    BY <1>a DEF KindInv, Posting, TypeInv, RequestsOK, RequestOK
  <2> QED
    BY <1>a, <2>1, KindStays
<1>0. ASSUME Others(c), req'[c].at \in Posting => kind'[req'[c].asset] # "none"
      PROVE  Begun
  BY <1>0, <1>a DEF Others
<1>00. ASSUME req' = req PROVE Begun
  BY <1>00, <1>a
<1>1. ASSUME NEW f \in Folder, NEW g \in Group, CreateFolder(c, f, g) PROVE Begun
  BY <1>1, <1>00 DEF CreateFolder
<1>2. ASSUME NEW a \in Asset, NEW k \in Kinds \ {"none"}, NEW p \in Place,
              CreateRaw(c, a, k, p)
       PROVE  Begun
  <2>1. kind'[a] # "none"
    BY <1>2 DEF CreateRaw, TypeInv, ServicesOK
  <2> QED
    BY <1>2, <1>0, <2>1, CreateRawType DEF Posting
<1>3. ASSUME PostAsset(c) PROVE Begun
  <2>1. kind[req[c].asset] # "none"
    BY <1>3 DEF PostAsset, At, Posting, KindInv
  <2> QED
    BY <1>3, <1>0, <2>1, PostAssetType, KindStays DEF Onwards
<1>4. ASSUME CreateItem(c) PROVE Begun
  BY <1>4, <1>0, CreateItemType, IdleType DEF Posting, ToAsset
<1>5. ASSUME NEW x \in Item \cup Folder, NEW p \in Place, Move(c, x, p) PROVE Begun
  BY <1>5, <1>0, MoveType, IdleType DEF Posting, ToAsset
<1>6. ASSUME TreeMove(c) PROVE Begun
  BY <1>6, <1>0, TreeMoveType, IdleType DEF Posting, ToAsset
<1>7. ASSUME NEW a \in Asset, Sync(c, a) PROVE Begun
  BY <1>7, <1>0, SyncType, IdleType DEF Posting, ToAsset
<1>8. ASSUME SyncEnds(c) PROVE Begun
  BY <1>8, <1>0, SyncEndsType, IdleType DEF Posting, ToAsset
<1>9. ASSUME NEW i \in Item, NEW p \in Place, NEW s \in Symlink,
              Borrow(c, i, p, s)
       PROVE  Begun
  <2>1. items[i].asset \in Asset /\ kind[items[i].asset] # "none"
    BY <1>9, BorrowType, DocType DEF IsItem, KindInv
  <2> QED
    BY <1>9, <1>0, <2>1, BorrowType, KindStays
<1>10. ASSUME TreeBorrow(c) PROVE Begun
  BY <1>10, <1>0, TreeBorrowType, IdleType DEF Posting, ToAsset
<1>11. ASSUME PutPolicyOfBorrow(c) PROVE Begun
  BY <1>11, <1>0, PutPolicyOfBorrowType, IdleType DEF Posting, ToAsset
<1>12. ASSUME NEW x \in Item \cup Folder, DeleteEntity(c, x) PROVE Begun
  BY <1>12, <1>00 DEF DeleteEntity
<1>13. ASSUME NEW g \in Group, Purge(c, g) PROVE Begun
  BY <1>13, <1>0, PurgeType, IdleType DEF Posting, ToAsset
<1>14. ASSUME TreePurge(c) PROVE Begun
  BY <1>14, <1>0, TreePurgeType, IdleType DEF Posting, ToAsset
<1>15. ASSUME NEW a \in Asset, EraseRaw(c, a) PROVE Begun
  BY <1>15, <1>0, EraseRawType, IdleType DEF Posting, ToAsset
<1>16. ASSUME NEW a \in Asset, SkipRaw(c, a) PROVE Begun
  BY <1>16, <1>0, SkipRawType, IdleType DEF Posting, ToAsset
<1>17. ASSUME PurgeAsset(c) PROVE Begun
  BY <1>17, <1>0, PurgeAssetType, IdleType DEF Posting, ToAsset
<1>18. ASSUME PurgeOriginalsEnd(c) PROVE Begun
  BY <1>18, <1>0, PurgeOriginalsEndType, IdleType DEF Posting, ToAsset
<1>19. ASSUME NEW a \in Asset, NEW g \in Group, PurgeLent(c, a, g) PROVE Begun
  BY <1>19, <1>0, PurgeLentType, IdleType DEF Posting, ToAsset
<1>20. ASSUME PurgeEnds(c) PROVE Begun
  BY <1>20, <1>0, PurgeEndsType, IdleType DEF Posting, ToAsset
<1>21. ASSUME NEW a \in Asset, DeleteAsset(c, a) PROVE Begun
  BY <1>21, <1>00 DEF DeleteAsset
<1>22. ASSUME NEW a \in Asset, NEW purge \in BOOLEAN, DeleteRaw(c, a, purge) PROVE Begun
  BY <1>22, <1>0, DeleteRawType, IdleType DEF Posting, ToAsset
<1>23. ASSUME EraseItems(c) PROVE Begun
  BY <1>23, <1>0, EraseItemsType, IdleType DEF Posting, ToAsset
<1>24. ASSUME EraseAsset(c) PROVE Begun
  BY <1>24, <1>0, EraseAssetType, IdleType DEF Posting, ToAsset
<1>25. ASSUME NEW a \in Asset, NEW g \in Group, UpdateAsset(c, a, g) PROVE Begun
  BY <1>25, <1>00 DEF UpdateAsset
<1>26. ASSUME NEW a \in Asset, NEW consumer \in Consumer, NEW p \in Levels,
               SetPolicy(c, a, consumer, p)
        PROVE  Begun
  BY <1>26, <1>00 DEF SetPolicy
<1>27. ASSUME Fails(c) PROVE Begun
  BY <1>27, <1>0, FailsType, IdleType DEF Posting, ToAsset
<1> QED
  BY <1>1, <1>2, <1>3, <1>4, <1>5, <1>6, <1>7, <1>8, <1>9, <1>10, <1>11, <1>12, <1>13,
     <1>14, <1>15, <1>16, <1>17, <1>18, <1>19, <1>20, <1>21, <1>22, <1>23, <1>24,
     <1>25, <1>26, <1>27 DEF Acts, Continues

\* There is nothing of the others.
LEMMA ActsBlank ==
  ASSUME TypeInv, KindInv, NEW c \in Client, Acts(c)
  PROVE  \A a \in Asset : kind'[a] = "none" =>
           /\ assets'[a] \notin Group /\ a \notin raw'
           /\ \A g \in Consumer : policy'[a][g] = "none"
<1> DEFINE Blank == \A a \in Asset : kind'[a] = "none" =>
                      /\ assets'[a] \notin Group /\ a \notin raw'
                      /\ \A g \in Consumer : policy'[a][g] = "none"
<1>0. ASSUME \A a \in Asset : kind[a] = "none" /\ kind'[a] = "none" =>
                /\ assets'[a] = assets[a] \/ assets'[a] \notin Group
                /\ a \in raw' => a \in raw
                /\ \A g \in Consumer : policy'[a][g] = policy[a][g] \/ policy'[a][g] = "none"
      PROVE  Blank
  BY <1>0, KindStays DEF KindInv
<1>1. ASSUME NEW f \in Folder, NEW g \in Group, CreateFolder(c, f, g) PROVE Blank
  BY <1>1, <1>0 DEF CreateFolder
<1>2. ASSUME NEW a \in Asset, NEW k \in Kinds \ {"none"}, NEW p \in Place,
              CreateRaw(c, a, k, p)
       PROVE  Blank
  <2>1. /\ assets' = assets /\ policy' = policy
        /\ \A b \in Asset : kind'[b] = "none" /\ b \in raw' => b \in raw
    BY <1>2 DEF CreateRaw, TypeInv, ServicesOK
  <2> QED
    BY <1>0, <2>1
<1>3. ASSUME PostAsset(c) PROVE Blank
  <2>1. policy' = policy /\ raw' = raw /\ kind[req[c].asset] # "none"
    BY <1>3 DEF PostAsset, At, Posting, KindInv
  <2> QED
    BY <1>3, <1>0, <2>1, PostAssetType
<1>4. ASSUME CreateItem(c) PROVE Blank
  BY <1>4, <1>0 DEF CreateItem
<1>5. ASSUME NEW x \in Item \cup Folder, NEW p \in Place, Move(c, x, p) PROVE Blank
  BY <1>5, <1>0 DEF Move
<1>6. ASSUME TreeMove(c) PROVE Blank
  BY <1>6, <1>0 DEF TreeMove
<1>7. ASSUME NEW a \in Asset, Sync(c, a) PROVE Blank
  <2>1. policy' = policy /\ raw' = raw /\ (Exists(a) => kind[a] # "none")
    BY <1>7 DEF Sync, Exists, KindInv
  <2> QED
    BY <1>7, <1>0, <2>1, SyncType
<1>8. ASSUME SyncEnds(c) PROVE Blank
  BY <1>8, <1>0 DEF SyncEnds
<1>9. ASSUME NEW i \in Item, NEW p \in Place, NEW s \in Symlink,
              Borrow(c, i, p, s)
       PROVE  Blank
  BY <1>9, <1>0 DEF Borrow
<1>10. ASSUME TreeBorrow(c) PROVE Blank
  BY <1>10, <1>0 DEF TreeBorrow
<1>11. ASSUME PutPolicyOfBorrow(c) PROVE Blank
  <2>1. assets' = assets /\ raw' = raw /\ (Exists(req[c].asset) => kind[req[c].asset] # "none")
    BY <1>11, PutPolicyOfBorrowType DEF PutPolicyOfBorrow, Exists, KindInv
  <2> QED
    BY <1>11, <1>0, <2>1, PutPolicyOfBorrowType
<1>12. ASSUME NEW x \in Item \cup Folder, DeleteEntity(c, x) PROVE Blank
  BY <1>12, <1>0 DEF DeleteEntity
<1>13. ASSUME NEW g \in Group, Purge(c, g) PROVE Blank
  BY <1>13, <1>0 DEF Purge
<1>14. ASSUME TreePurge(c) PROVE Blank
  BY <1>14, <1>0 DEF TreePurge
<1>15. ASSUME NEW a \in Asset, EraseRaw(c, a) PROVE Blank
  <2>1. assets' = assets /\ policy' = policy
    BY <1>15 DEF EraseRaw
  <2> QED
    BY <1>15, <1>0, <2>1, EraseRawType
<1>16. ASSUME NEW a \in Asset, SkipRaw(c, a) PROVE Blank
  BY <1>16, <1>0 DEF SkipRaw
<1>17. ASSUME PurgeAsset(c) PROVE Blank
  <2>1. raw' = raw
    BY <1>17 DEF PurgeAsset
  <2>2. /\ req[c].asset \in Asset
        /\ \A b \in Asset : b # req[c].asset => assets'[b] = assets[b]
        /\ \/ Delete(req[c].asset)
           \/ assets'[req[c].asset] \in {assets[req[c].asset], NoGroup} /\ policy' = policy
    BY <1>17, PurgeAssetType DEF PurgeAsset, TypeInv, ServicesOK
  <2>3. CASE Delete(req[c].asset)
    BY <1>0, <2>1, <2>2, <2>3, Deletes DEF TypeInv
  <2>4. CASE assets'[req[c].asset] \in {assets[req[c].asset], NoGroup} /\ policy' = policy
    BY <1>0, <2>1, <2>2, <2>4, GatewayAssumption
  <2> QED
    BY <2>2, <2>3, <2>4
<1>18. ASSUME PurgeOriginalsEnd(c) PROVE Blank
  BY <1>18, <1>0 DEF PurgeOriginalsEnd
<1>19. ASSUME NEW a \in Asset, NEW g \in Group, PurgeLent(c, a, g) PROVE Blank
  <2>1. assets' = assets /\ raw' = raw
    BY <1>19 DEF PurgeLent
  <2> QED
    BY <1>19, <1>0, <2>1, PurgeLentType
<1>20. ASSUME PurgeEnds(c) PROVE Blank
  BY <1>20, <1>0 DEF PurgeEnds
<1>21. ASSUME NEW a \in Asset, DeleteAsset(c, a) PROVE Blank
  <2>1. raw' = raw /\ Delete(a) /\ ServicesOK
    BY <1>21 DEF DeleteAsset, TypeInv
  <2> QED
    BY <1>0, <2>1, Deletes
<1>22. ASSUME NEW a \in Asset, NEW purge \in BOOLEAN, DeleteRaw(c, a, purge) PROVE Blank
  <2>1. assets' = assets /\ policy' = policy
    BY <1>22 DEF DeleteRaw
  <2> QED
    BY <1>22, <1>0, <2>1, DeleteRawType
<1>23. ASSUME EraseItems(c) PROVE Blank
  BY <1>23, <1>0 DEF EraseItems
<1>24. ASSUME EraseAsset(c) PROVE Blank
  <2>1. raw' = raw
    BY <1>24 DEF EraseAsset
  <2> QED
    BY <1>24, <1>0, <2>1, EraseAssetType
<1>25. ASSUME NEW a \in Asset, NEW g \in Group, UpdateAsset(c, a, g) PROVE Blank
  <2>1. policy' = policy /\ raw' = raw /\ kind[a] # "none"
    BY <1>25 DEF UpdateAsset, Owns, Exists, KindInv
  <2>2. \A b \in Asset : b # a => assets'[b] = assets[b]
    BY <1>25 DEF UpdateAsset, TypeInv, ServicesOK
  <2> QED
    BY <1>0, <2>1, <2>2
<1>26. ASSUME NEW a \in Asset, NEW consumer \in Consumer, NEW p \in Levels,
               SetPolicy(c, a, consumer, p)
        PROVE  Blank
  <2>1. assets' = assets /\ raw' = raw /\ kind[a] # "none"
    BY <1>26 DEF SetPolicy, Owns, Exists, KindInv
  <2>2. \A b \in Asset, h \in Consumer : b # a => policy'[b][h] = policy[b][h]
    BY <1>26, SetPolicyType
  <2> QED
    BY <1>0, <2>1, <2>2
<1>27. ASSUME Fails(c) PROVE Blank
  BY <1>27, <1>0 DEF Fails
<1> QED
  BY <1>1, <1>2, <1>3, <1>4, <1>5, <1>6, <1>7, <1>8, <1>9, <1>10, <1>11, <1>12, <1>13,
     <1>14, <1>15, <1>16, <1>17, <1>18, <1>19, <1>20, <1>21, <1>22, <1>23, <1>24,
     <1>25, <1>26, <1>27 DEF Acts, Continues

\* Every step keeps it so.
LEMMA KindStep == TypeInv /\ KindInv /\ [Next]_vars => KindInv'
<1>1. ASSUME TypeInv, KindInv, Next PROVE KindInv'
  <2>1. PICK c \in Client : Acts(c)
    BY <1>1 DEF Next, Acts
  <2> QED
    BY <1>1, <2>1, ActsItems, ActsPosting, ActsBlank DEF KindInv
<1>2. ASSUME KindInv, UNCHANGED vars PROVE KindInv'
  BY <1>2 DEF vars, tree, KindInv
<1> QED
  BY <1>1, <1>2

-----------------------------------------------------------------------------
(* One request at a time: nothing changes between the calls of a request.    *)
(* With more the properties below are false in the code, which reads in one  *)
(* call and writes in another.                                               *)

OneRequest == MaxRequests = 1

\* No request is in progress, except that of c.
Sole(c) == \A d \in Client \ {c} : req[d] = Idle

Alone == \E c \in Client : Sole(c)

\* A request is accepted when there is none.
LEMMA AskedIsQuiet ==
  ASSUME TypeInv, OneRequest, NEW c \in Client, NEW op, Asked(c, op)
  PROVE  Quiet /\ req[c] = Idle
<1> DEFINE Busy == {d \in Client : req[d] # Idle}
<1>1. IsFiniteSet(Busy)
  BY GatewayAssumption, FS_Subset
<1>2. Cardinality(Busy) \in Nat /\ Cardinality(Busy) < 1 /\ req[c] = Idle
  BY <1>1, FS_CardinalityType DEF Asked, OneRequest
<1>3. Busy = {}
  <2> HIDE DEF Busy
  <2> QED
    BY <1>1, <1>2, FS_EmptySet
<1> QED
  BY <1>2, <1>3 DEF Quiet

\* The client that acts is the only one with a request.
LEMMA ActorIsSole ==
  ASSUME TypeInv, OneRequest, Alone, NEW c \in Client, Acts(c)
  PROVE  Sole(c)
<1>a. ASSUME NEW op, Asked(c, op) PROVE Sole(c)
  BY <1>a, AskedIsQuiet DEF Quiet, Sole
<1>b. ASSUME req[c].at # "idle" PROVE Sole(c)
  BY <1>b, IdleType DEF Alone, Sole
<1>1. ASSUME NEW f \in Folder, NEW g \in Group, CreateFolder(c, f, g) PROVE Sole(c)
  <2>1. Asked(c, "folder")
    BY <1>1 DEF CreateFolder
  <2> QED
    BY <1>a, <2>1
<1>2. ASSUME NEW a \in Asset, NEW k \in Kinds \ {"none"}, NEW p \in Place,
              CreateRaw(c, a, k, p)
       PROVE  Sole(c)
  <2>1. Asked(c, "asset")
    BY <1>2 DEF CreateRaw
  <2> QED
    BY <1>a, <2>1
<1>3. ASSUME PostAsset(c) PROVE Sole(c)
  BY <1>3, <1>b DEF PostAsset, At
<1>4. ASSUME CreateItem(c) PROVE Sole(c)
  BY <1>4, <1>b DEF CreateItem, At
<1>5. ASSUME NEW x \in Item \cup Folder, NEW p \in Place, Move(c, x, p) PROVE Sole(c)
  <2>1. Asked(c, "move")
    BY <1>5 DEF Move
  <2> QED
    BY <1>a, <2>1
<1>6. ASSUME TreeMove(c) PROVE Sole(c)
  BY <1>6, <1>b DEF TreeMove, At
<1>7. ASSUME NEW a \in Asset, Sync(c, a) PROVE Sole(c)
  BY <1>7, <1>b DEF Sync, At
<1>8. ASSUME SyncEnds(c) PROVE Sole(c)
  BY <1>8, <1>b DEF SyncEnds, At
<1>9. ASSUME NEW i \in Item, NEW p \in Place, NEW s \in Symlink,
              Borrow(c, i, p, s)
       PROVE  Sole(c)
  <2>1. Asked(c, "borrow")
    BY <1>9 DEF Borrow
  <2> QED
    BY <1>a, <2>1
<1>10. ASSUME TreeBorrow(c) PROVE Sole(c)
  BY <1>10, <1>b DEF TreeBorrow, At
<1>11. ASSUME PutPolicyOfBorrow(c) PROVE Sole(c)
  BY <1>11, <1>b DEF PutPolicyOfBorrow, At
<1>12. ASSUME NEW x \in Item \cup Folder, DeleteEntity(c, x) PROVE Sole(c)
  <2>1. Asked(c, "delete")
    BY <1>12 DEF DeleteEntity
  <2> QED
    BY <1>a, <2>1
<1>13. ASSUME NEW g \in Group, Purge(c, g) PROVE Sole(c)
  <2>1. Asked(c, "purge")
    BY <1>13 DEF Purge
  <2> QED
    BY <1>a, <2>1
<1>14. ASSUME TreePurge(c) PROVE Sole(c)
  BY <1>14, <1>b DEF TreePurge, At
<1>15. ASSUME NEW a \in Asset, EraseRaw(c, a) PROVE Sole(c)
  BY <1>15, <1>b DEF EraseRaw, At
<1>16. ASSUME NEW a \in Asset, SkipRaw(c, a) PROVE Sole(c)
  BY <1>16, <1>b DEF SkipRaw, At
<1>17. ASSUME PurgeAsset(c) PROVE Sole(c)
  BY <1>17, <1>b DEF PurgeAsset, At
<1>18. ASSUME PurgeOriginalsEnd(c) PROVE Sole(c)
  BY <1>18, <1>b DEF PurgeOriginalsEnd, At
<1>19. ASSUME NEW a \in Asset, NEW g \in Group, PurgeLent(c, a, g) PROVE Sole(c)
  BY <1>19, <1>b DEF PurgeLent, At
<1>20. ASSUME PurgeEnds(c) PROVE Sole(c)
  BY <1>20, <1>b DEF PurgeEnds, At
<1>21. ASSUME NEW a \in Asset, DeleteAsset(c, a) PROVE Sole(c)
  <2>1. Asked(c, "delete asset")
    BY <1>21 DEF DeleteAsset
  <2> QED
    BY <1>a, <2>1
<1>22. ASSUME NEW a \in Asset, NEW purge \in BOOLEAN, DeleteRaw(c, a, purge) PROVE Sole(c)
  <2>1. Asked(c, "delete raw")
    BY <1>22 DEF DeleteRaw
  <2> QED
    BY <1>a, <2>1
<1>23. ASSUME EraseItems(c) PROVE Sole(c)
  BY <1>23, <1>b DEF EraseItems, At
<1>24. ASSUME EraseAsset(c) PROVE Sole(c)
  BY <1>24, <1>b DEF EraseAsset, At
<1>25. ASSUME NEW a \in Asset, NEW g \in Group, UpdateAsset(c, a, g) PROVE Sole(c)
  <2>1. Asked(c, "update")
    BY <1>25 DEF UpdateAsset
  <2> QED
    BY <1>a, <2>1
<1>26. ASSUME NEW a \in Asset, NEW consumer \in Consumer, NEW p \in Levels,
               SetPolicy(c, a, consumer, p)
        PROVE  Sole(c)
  <2>1. Asked(c, "policy")
    BY <1>26 DEF SetPolicy
  <2> QED
    BY <1>a, <2>1
<1>27. ASSUME Fails(c) PROVE Sole(c)
  BY <1>27, <1>b DEF Fails, At
<1> QED
  BY <1>1, <1>2, <1>3, <1>4, <1>5, <1>6, <1>7, <1>8, <1>9, <1>10, <1>11, <1>12, <1>13,
     <1>14, <1>15, <1>16, <1>17, <1>18, <1>19, <1>20, <1>21, <1>22, <1>23, <1>24,
     <1>25, <1>26, <1>27 DEF Acts, Continues

\* Only the request of the actor changes.
LEMMA ActsOthers ==
  ASSUME TypeInv, NEW c \in Client, Acts(c)
  PROVE  Others(c)
<1>1. ASSUME NEW f \in Folder, NEW g \in Group, CreateFolder(c, f, g) PROVE Others(c)
  BY <1>1 DEF CreateFolder, Others
<1>2. ASSUME NEW a \in Asset, NEW k \in Kinds \ {"none"}, NEW p \in Place,
              CreateRaw(c, a, k, p)
       PROVE  Others(c)
  BY <1>2, CreateRawType
<1>3. ASSUME PostAsset(c) PROVE Others(c)
  BY <1>3, PostAssetType
<1>4. ASSUME CreateItem(c) PROVE Others(c)
  BY <1>4, CreateItemType
<1>5. ASSUME NEW x \in Item \cup Folder, NEW p \in Place, Move(c, x, p) PROVE Others(c)
  BY <1>5, MoveType
<1>6. ASSUME TreeMove(c) PROVE Others(c)
  BY <1>6, TreeMoveType
<1>7. ASSUME NEW a \in Asset, Sync(c, a) PROVE Others(c)
  BY <1>7, SyncType
<1>8. ASSUME SyncEnds(c) PROVE Others(c)
  BY <1>8, SyncEndsType
<1>9. ASSUME NEW i \in Item, NEW p \in Place, NEW s \in Symlink,
              Borrow(c, i, p, s)
       PROVE  Others(c)
  BY <1>9, BorrowType
<1>10. ASSUME TreeBorrow(c) PROVE Others(c)
  BY <1>10, TreeBorrowType
<1>11. ASSUME PutPolicyOfBorrow(c) PROVE Others(c)
  BY <1>11, PutPolicyOfBorrowType
<1>12. ASSUME NEW x \in Item \cup Folder, DeleteEntity(c, x) PROVE Others(c)
  BY <1>12 DEF DeleteEntity, Others
<1>13. ASSUME NEW g \in Group, Purge(c, g) PROVE Others(c)
  BY <1>13, PurgeType
<1>14. ASSUME TreePurge(c) PROVE Others(c)
  BY <1>14, TreePurgeType
<1>15. ASSUME NEW a \in Asset, EraseRaw(c, a) PROVE Others(c)
  BY <1>15, EraseRawType
<1>16. ASSUME NEW a \in Asset, SkipRaw(c, a) PROVE Others(c)
  BY <1>16, SkipRawType
<1>17. ASSUME PurgeAsset(c) PROVE Others(c)
  BY <1>17, PurgeAssetType
<1>18. ASSUME PurgeOriginalsEnd(c) PROVE Others(c)
  BY <1>18, PurgeOriginalsEndType
<1>19. ASSUME NEW a \in Asset, NEW g \in Group, PurgeLent(c, a, g) PROVE Others(c)
  BY <1>19, PurgeLentType
<1>20. ASSUME PurgeEnds(c) PROVE Others(c)
  BY <1>20, PurgeEndsType
<1>21. ASSUME NEW a \in Asset, DeleteAsset(c, a) PROVE Others(c)
  BY <1>21 DEF DeleteAsset, Others
<1>22. ASSUME NEW a \in Asset, NEW purge \in BOOLEAN, DeleteRaw(c, a, purge) PROVE Others(c)
  BY <1>22, DeleteRawType
<1>23. ASSUME EraseItems(c) PROVE Others(c)
  BY <1>23, EraseItemsType
<1>24. ASSUME EraseAsset(c) PROVE Others(c)
  BY <1>24, EraseAssetType
<1>25. ASSUME NEW a \in Asset, NEW g \in Group, UpdateAsset(c, a, g) PROVE Others(c)
  BY <1>25 DEF UpdateAsset, Others
<1>26. ASSUME NEW a \in Asset, NEW consumer \in Consumer, NEW p \in Levels,
               SetPolicy(c, a, consumer, p)
        PROVE  Others(c)
  BY <1>26 DEF SetPolicy, Others
<1>27. ASSUME Fails(c) PROVE Others(c)
  BY <1>27, FailsType
<1> QED
  BY <1>1, <1>2, <1>3, <1>4, <1>5, <1>6, <1>7, <1>8, <1>9, <1>10, <1>11, <1>12, <1>13,
     <1>14, <1>15, <1>16, <1>17, <1>18, <1>19, <1>20, <1>21, <1>22, <1>23, <1>24,
     <1>25, <1>26, <1>27 DEF Acts, Continues

\* There is always one client that may have a request.
LEMMA AloneStep ==
  ASSUME OneRequest
  PROVE  TypeInv /\ Alone /\ [Next]_vars => Alone'
<1>1. ASSUME TypeInv, Alone, NEW c \in Client, Acts(c) PROVE Alone'
  <2>1. Sole(c) /\ Others(c)
    BY <1>1, ActorIsSole, ActsOthers
  <2> QED
    BY <2>1 DEF Sole, Others, Alone
<1>2. ASSUME Alone, UNCHANGED vars PROVE Alone'
  BY <1>2 DEF vars, Alone, Sole
<1> QED
  BY <1>1, <1>2 DEF Next, Acts

-----------------------------------------------------------------------------
(* What a request still knows of what it has read *)

Found(p, g) == IsFolder(p) /\ GroupOf(p) = g

Absent(a) == \A i \in Item : items[i] # NoItem => items[i].asset # a

Knowing == {"post asset", "post item", "move", "borrow", "put policy"}

Knows(c) ==
  LET r == req[c] IN
    /\ r.at \in {"post asset", "post item"} => Found(r.place, r.to) /\ Absent(r.asset)
    /\ r.at = "post asset" => \A g \in Consumer : policy[r.asset][g] = "none"
    /\ r.at = "post item" => assets[r.asset] = r.to
    /\ r.at = "move" =>
         /\ Found(r.place, r.to)
         /\ r.item \in Folder => /\ IsFolder(r.item) /\ r.place \in Group
                                 /\ r.changes = (home[r.item] # r.to)
         /\ r.item \notin Folder => /\ IsItem(r.item)
                                    /\ r.changes = (items[r.item].group # r.to)
    /\ r.at = "borrow" =>
         /\ Found(r.place, r.to) /\ IsItem(r.item) /\ items[r.item].asset = r.asset
         /\ items[r.link] = NoItem
         /\ r.changes = (policy[r.asset][r.to] = "none")
    /\ r.at = "put policy" =>
         items[r.link] # NoItem /\ items[r.link].asset = r.asset /\ items[r.link].group = r.to

\* A request knows what its own calls have left.
LEMMA ActsKnows ==
  ASSUME TypeInv, KindInv, OneRequest, NEW c \in Client, Knows(c), Acts(c)
  PROVE  Knows(c)'
<1>0. ASSUME req'[c].at \notin Knowing PROVE Knows(c)'
  BY <1>0 DEF Knows, Knowing
<1>1. ASSUME NEW f \in Folder, NEW g \in Group, CreateFolder(c, f, g) PROVE Knows(c)'
  <2>1. req'[c] = Idle
    BY <1>1 DEF CreateFolder, Asked
  <2> QED
    BY <1>0, <2>1, IdleType DEF Knowing
<1>2. ASSUME NEW a \in Asset, NEW k \in Kinds \ {"none"}, NEW p \in Place,
              CreateRaw(c, a, k, p)
       PROVE  Knows(c)'
  <2>1. /\ items' = items /\ home' = home /\ trash' = trash /\ policy' = policy
        /\ kind[a] = "none"
    BY <1>2 DEF CreateRaw, tree
  <2>2. Absent(a) /\ \A g \in Consumer : policy[a][g] = "none"
    BY <2>1 DEF KindInv, Absent
  <2>3. CASE /\ IsFolder(p) /\ req'[c].at = "post asset" /\ req'[c].asset = a
             /\ req'[c].place = p /\ req'[c].to = GroupOf(p)
    BY <2>1, <2>2, <2>3 DEF Knows, Found, IsFolder, GroupOf, Absent
  <2>4. CASE req'[c].at = "idle"
    BY <1>0, <2>4 DEF Knowing
  <2> QED
    BY <1>2, <2>3, <2>4, CreateRawType
<1>3. ASSUME PostAsset(c) PROVE Knows(c)'
  <2>1. items' = items /\ home' = home /\ trash' = trash
    BY <1>3 DEF PostAsset, tree
  <2>2. Found(req[c].place, req[c].to) /\ Absent(req[c].asset)
    BY <1>3 DEF PostAsset, At, Knows
  <2>3. /\ req'[c].at = "post item" /\ req'[c].place = req[c].place /\ req'[c].to = req[c].to
        /\ req'[c].asset = req[c].asset /\ assets'[req[c].asset] = req[c].to
    BY <1>3, PostAssetType DEF Onwards
  <2>4. (Found(req[c].place, req[c].to) /\ Absent(req[c].asset))'
    BY <2>1, <2>2, <2>3 DEF Found, IsFolder, GroupOf, Absent
  <2> QED
    BY <2>3, <2>4 DEF Knows
<1>4. ASSUME CreateItem(c) PROVE Knows(c)'
  BY <1>4, <1>0, CreateItemType, IdleType DEF Knowing, ToAsset
<1>5. ASSUME NEW x \in Item \cup Folder, NEW p \in Place, Move(c, x, p) PROVE Knows(c)'
  <2>1. items' = items /\ home' = home /\ trash' = trash
    BY <1>5 DEF Move, tree
  <2>2. /\ req'[c].at = "move" /\ req'[c].item = x /\ req'[c].place = p
        /\ req'[c].to = GroupOf(p) /\ IsFolder(p)
    BY <1>5, MoveType
  <2>3. /\ x \in Folder => IsFolder(x) /\ p \in Group /\ req'[c].changes = (home[x] # GroupOf(p))
        /\ x \notin Folder => IsItem(x) /\ req'[c].changes = (items[x].group # GroupOf(p))
    BY <1>5, MoveType
  <2>4. Found(req[c].place, req[c].to)'
    BY <2>1, <2>2 DEF Found, IsFolder, GroupOf
  <2>5. (req[c].item \in Folder => /\ IsFolder(req[c].item) /\ req[c].place \in Group
                                   /\ req[c].changes = (home[req[c].item] # req[c].to))'
    BY <2>1, <2>2, <2>3 DEF IsFolder
  <2>6. (req[c].item \notin Folder => /\ IsItem(req[c].item)
                                      /\ req[c].changes = (items[req[c].item].group # req[c].to))'
    BY <2>1, <2>2, <2>3 DEF IsItem
  <2> QED
    BY <2>2, <2>4, <2>5, <2>6 DEF Knows
<1>6. ASSUME TreeMove(c) PROVE Knows(c)'
  BY <1>6, <1>0, TreeMoveType, IdleType DEF Knowing, ToAsset
<1>7. ASSUME NEW a \in Asset, Sync(c, a) PROVE Knows(c)'
  BY <1>7, <1>0, SyncType, IdleType DEF Knowing, ToAsset
<1>8. ASSUME SyncEnds(c) PROVE Knows(c)'
  BY <1>8, <1>0, SyncEndsType, IdleType DEF Knowing, ToAsset
<1>9. ASSUME NEW i \in Item, NEW p \in Place, NEW s \in Symlink,
              Borrow(c, i, p, s)
       PROVE  Knows(c)'
  <2>1. items' = items /\ home' = home /\ trash' = trash /\ policy' = policy
    BY <1>9 DEF Borrow, tree
  <2>2. /\ req'[c].at = "borrow" /\ req'[c].item = i /\ req'[c].place = p
        /\ req'[c].link = s /\ req'[c].asset = items[i].asset
        /\ req'[c].to = GroupOf(p) /\ IsFolder(p) /\ IsItem(i) /\ items[s] = NoItem
        /\ req'[c].changes = (policy[items[i].asset][GroupOf(p)] = "none")
    BY <1>9, BorrowType
  <2>3. (Found(req[c].place, req[c].to) /\ IsItem(req[c].item))'
    BY <2>1, <2>2 DEF Found, IsFolder, GroupOf, IsItem
  <2>4. (/\ items[req[c].item].asset = req[c].asset /\ items[req[c].link] = NoItem
         /\ req[c].changes = (policy[req[c].asset][req[c].to] = "none"))'
    BY <2>1, <2>2
  <2> QED
    BY <2>2, <2>3, <2>4 DEF Knows
<1>10. ASSUME TreeBorrow(c) PROVE Knows(c)'
  <2>1. home' = home
    BY <1>10 DEF TreeBorrow
  <2>2. CASE req'[c].at = "put policy"
    <3>1. /\ items'[req[c].link] # NoItem /\ items'[req[c].link].asset = req[c].asset
          /\ items'[req[c].link].group = GroupOf(req[c].place)
          /\ req'[c].link = req[c].link /\ req'[c].asset = req[c].asset
          /\ req'[c].to = req[c].to
      BY <1>10, <2>2, TreeBorrowType, IdleType DEF Onwards
    <3>2. GroupOf(req[c].place) = req[c].to
      BY <1>10 DEF TreeBorrow, At, Knows, Found
    <3>3. (/\ items[req[c].link] # NoItem /\ items[req[c].link].asset = req[c].asset
           /\ items[req[c].link].group = req[c].to)'
      BY <3>1, <3>2
    <3> QED
      BY <2>2, <3>3 DEF Knows
  <2> QED
    BY <1>10, <1>0, <2>2, TreeBorrowType DEF Knowing
<1>11. ASSUME PutPolicyOfBorrow(c) PROVE Knows(c)'
  BY <1>11, <1>0, PutPolicyOfBorrowType, IdleType DEF Knowing, ToAsset
<1>12. ASSUME NEW x \in Item \cup Folder, DeleteEntity(c, x) PROVE Knows(c)'
  <2>1. req'[c] = Idle
    BY <1>12 DEF DeleteEntity, Asked
  <2> QED
    BY <1>0, <2>1, IdleType DEF Knowing
<1>13. ASSUME NEW g \in Group, Purge(c, g) PROVE Knows(c)'
  BY <1>13, <1>0, PurgeType, IdleType DEF Knowing, ToAsset
<1>14. ASSUME TreePurge(c) PROVE Knows(c)'
  BY <1>14, <1>0, TreePurgeType, IdleType DEF Knowing, ToAsset
<1>15. ASSUME NEW a \in Asset, EraseRaw(c, a) PROVE Knows(c)'
  BY <1>15, <1>0, EraseRawType, IdleType DEF Knowing, ToAsset
<1>16. ASSUME NEW a \in Asset, SkipRaw(c, a) PROVE Knows(c)'
  BY <1>16, <1>0, SkipRawType, IdleType DEF Knowing, ToAsset
<1>17. ASSUME PurgeAsset(c) PROVE Knows(c)'
  BY <1>17, <1>0, PurgeAssetType, IdleType DEF Knowing, ToAsset
<1>18. ASSUME PurgeOriginalsEnd(c) PROVE Knows(c)'
  BY <1>18, <1>0, PurgeOriginalsEndType, IdleType DEF Knowing, ToAsset
<1>19. ASSUME NEW a \in Asset, NEW g \in Group, PurgeLent(c, a, g) PROVE Knows(c)'
  BY <1>19, <1>0, PurgeLentType, IdleType DEF Knowing, ToAsset
<1>20. ASSUME PurgeEnds(c) PROVE Knows(c)'
  BY <1>20, <1>0, PurgeEndsType, IdleType DEF Knowing, ToAsset
<1>21. ASSUME NEW a \in Asset, DeleteAsset(c, a) PROVE Knows(c)'
  <2>1. req'[c] = Idle
    BY <1>21 DEF DeleteAsset, Asked
  <2> QED
    BY <1>0, <2>1, IdleType DEF Knowing
<1>22. ASSUME NEW a \in Asset, NEW purge \in BOOLEAN, DeleteRaw(c, a, purge) PROVE Knows(c)'
  <2>1. req'[c].at = "erase" \/ req'[c] = Idle
    BY <1>22, DeleteRawType, Zenon
  <2> QED
    BY <1>0, <2>1, IdleType DEF Knowing
<1>23. ASSUME EraseItems(c) PROVE Knows(c)'
  BY <1>23, <1>0, EraseItemsType, IdleType DEF Knowing, ToAsset
<1>24. ASSUME EraseAsset(c) PROVE Knows(c)'
  BY <1>24, <1>0, EraseAssetType, IdleType DEF Knowing, ToAsset
<1>25. ASSUME NEW a \in Asset, NEW g \in Group, UpdateAsset(c, a, g) PROVE Knows(c)'
  <2>1. req'[c] = Idle
    BY <1>25 DEF UpdateAsset, Asked
  <2> QED
    BY <1>0, <2>1, IdleType DEF Knowing
<1>26. ASSUME NEW a \in Asset, NEW consumer \in Consumer, NEW p \in Levels,
               SetPolicy(c, a, consumer, p)
        PROVE  Knows(c)'
  <2>1. req'[c] = Idle
    BY <1>26 DEF SetPolicy, Asked
  <2> QED
    BY <1>0, <2>1, IdleType DEF Knowing
<1>27. ASSUME Fails(c) PROVE Knows(c)'
  BY <1>27, <1>0, FailsType, IdleType DEF Knowing, ToAsset
<1> QED
  BY <1>1, <1>2, <1>3, <1>4, <1>5, <1>6, <1>7, <1>8, <1>9, <1>10, <1>11, <1>12, <1>13,
     <1>14, <1>15, <1>16, <1>17, <1>18, <1>19, <1>20, <1>21, <1>22, <1>23, <1>24,
     <1>25, <1>26, <1>27 DEF Acts, Continues

-----------------------------------------------------------------------------
(* Purges *)

\* The originals whose asset a purge has not deleted yet.
Leaving(r, a) ==
  \/ r.at \in {"originals", "asset"} /\ a \in r.todo
  \/ r.at = "asset" /\ a = r.asset

\* What has become of a document that a purge has removed from the explorer.
Settled(r, d) ==
  IF d.borrowed
    THEN \/ <<d.asset, d.group>> \in r.lent
         \/ policy[d.asset][d.group] = "none" \/ Lent(d.asset, d.group) # {}
    ELSE Leaving(r, d.asset) \/ (assets[d.asset] \notin Group /\ d.asset \notin raw)

Purging == {"originals", "asset", "lent"}

\* As long as a purge has noted no error, it has still to do what it has not done.
PurgeInv(c) ==
  req[c].at \in Purging /\ req[c].errors = {} =>
    /\ req[c].at = "asset" => req[c].asset \notin raw
    /\ req[c].at = "lent" => req[c].todo = {}
    /\ \A d \in req[c].purged : Settled(req[c], d)

\* The documents removed are well typed.
LEMMA PurgedType ==
  ASSUME TypeInv, NEW c \in Client, NEW d \in req[c].purged
  PROVE  d.asset \in Asset /\ d.group \in Group /\ d.group \in Consumer /\ d.borrowed \in BOOLEAN
  BY DEF TypeInv, RequestsOK, Requests, Items, Consumer

\* Each call of a purge keeps it so.
LEMMA ActsPurge ==
  ASSUME TypeInv, OneRequest, NEW c \in Client, PurgeInv(c), Acts(c)
  PROVE  PurgeInv(c)'
<1>0. ASSUME req'[c].at \notin Purging PROVE PurgeInv(c)'
  BY <1>0 DEF PurgeInv
<1>1. ASSUME NEW f \in Folder, NEW g \in Group, CreateFolder(c, f, g) PROVE PurgeInv(c)'
  <2>1. req'[c] = Idle
    BY <1>1 DEF CreateFolder, Asked
  <2> QED
    BY <1>0, <2>1, IdleType DEF Purging
<1>2. ASSUME NEW a \in Asset, NEW k \in Kinds \ {"none"}, NEW p \in Place,
              CreateRaw(c, a, k, p)
       PROVE  PurgeInv(c)'
  BY <1>2, <1>0, CreateRawType, IdleType DEF Purging, ToAsset
<1>3. ASSUME PostAsset(c) PROVE PurgeInv(c)'
  BY <1>3, <1>0, PostAssetType, IdleType DEF Purging, ToAsset
<1>4. ASSUME CreateItem(c) PROVE PurgeInv(c)'
  BY <1>4, <1>0, CreateItemType, IdleType DEF Purging, ToAsset
<1>5. ASSUME NEW x \in Item \cup Folder, NEW p \in Place, Move(c, x, p) PROVE PurgeInv(c)'
  BY <1>5, <1>0, MoveType, IdleType DEF Purging, ToAsset
<1>6. ASSUME TreeMove(c) PROVE PurgeInv(c)'
  BY <1>6, <1>0, TreeMoveType, IdleType DEF Purging, ToAsset
<1>7. ASSUME NEW a \in Asset, Sync(c, a) PROVE PurgeInv(c)'
  BY <1>7, <1>0, SyncType, IdleType DEF Purging, ToAsset
<1>8. ASSUME SyncEnds(c) PROVE PurgeInv(c)'
  BY <1>8, <1>0, SyncEndsType, IdleType DEF Purging, ToAsset
<1>9. ASSUME NEW i \in Item, NEW p \in Place, NEW s \in Symlink,
              Borrow(c, i, p, s)
       PROVE  PurgeInv(c)'
  BY <1>9, <1>0, BorrowType, IdleType DEF Purging, ToAsset
<1>10. ASSUME TreeBorrow(c) PROVE PurgeInv(c)'
  BY <1>10, <1>0, TreeBorrowType, IdleType DEF Purging, ToAsset
<1>11. ASSUME PutPolicyOfBorrow(c) PROVE PurgeInv(c)'
  BY <1>11, <1>0, PutPolicyOfBorrowType, IdleType DEF Purging, ToAsset
<1>12. ASSUME NEW x \in Item \cup Folder, DeleteEntity(c, x) PROVE PurgeInv(c)'
  <2>1. req'[c] = Idle
    BY <1>12 DEF DeleteEntity, Asked
  <2> QED
    BY <1>0, <2>1, IdleType DEF Purging
<1>13. ASSUME NEW g \in Group, Purge(c, g) PROVE PurgeInv(c)'
  BY <1>13, <1>0, PurgeType, IdleType DEF Purging, ToAsset
<1>14. ASSUME TreePurge(c) PROVE PurgeInv(c)'
  <2>1. /\ req'[c].at = "originals"
        /\ req'[c].todo = {d.asset : d \in {d \in req'[c].purged : ~d.borrowed}}
        /\ req'[c].lent = {<<d.asset, d.group>> : d \in {d \in req'[c].purged : d.borrowed}}
    BY <1>14, TreePurgeType
  <2>2. ASSUME NEW d \in req'[c].purged PROVE Settled(req[c], d)'
    <3>1. d.borrowed => <<d.asset, d.group>> \in req'[c].lent
      BY <2>1
    <3>2. ~d.borrowed => d.asset \in req'[c].todo
      BY <2>1
    <3> QED
      BY <2>1, <3>1, <3>2 DEF Settled, Leaving
  <2> QED
    BY <2>1, <2>2 DEF PurgeInv
<1>15. ASSUME NEW a \in Asset, EraseRaw(c, a) PROVE PurgeInv(c)'
  <2>1. /\ assets' = assets /\ policy' = policy /\ items' = items /\ trash' = trash
        /\ req[c].at = "originals" /\ raw' \subseteq raw
    BY <1>15, EraseRawType DEF EraseRaw, tree, At
  <2>2. ToAsset(req[c], req'[c], a)
    BY <1>15, EraseRawType
  <2>3. ASSUME req'[c].errors = {} PROVE req[c].errors = {} /\ a \notin raw'
    BY <1>15, <2>1, <2>3, EraseRawType
  <2>4. ASSUME req'[c].errors = {}, NEW d \in req'[c].purged PROVE Settled(req[c], d)'
    <3>1. Settled(req[c], d)
      BY <2>1, <2>2, <2>3, <2>4 DEF PurgeInv, ToAsset, Purging
    <3>2. Lent(d.asset, d.group)' = Lent(d.asset, d.group)
      BY <2>1 DEF Lent, IsItem
    <3>3. CASE d.borrowed
      BY <2>1, <2>2, <3>1, <3>2, <3>3 DEF Settled, ToAsset
    <3>4. CASE ~d.borrowed
      <4>1. Leaving(req[c], d.asset) => Leaving(req[c], d.asset)'
        BY <2>1, <2>2 DEF Leaving, ToAsset
      <4> QED
        BY <2>1, <3>1, <3>4, <4>1 DEF Settled
    <3> QED
      BY <3>3, <3>4
  <2> QED
    BY <2>2, <2>3, <2>4 DEF PurgeInv, ToAsset
<1>16. ASSUME NEW a \in Asset, SkipRaw(c, a) PROVE PurgeInv(c)'
  <2>1. /\ assets' = assets /\ policy' = policy /\ items' = items /\ trash' = trash
        /\ req[c].at = "originals" /\ raw' \subseteq raw
    BY <1>16, SkipRawType DEF SkipRaw, tree, At
  <2>2. ToAsset(req[c], req'[c], a)
    BY <1>16, SkipRawType
  <2>3. ASSUME req'[c].errors = {} PROVE req[c].errors = {} /\ a \notin raw'
    BY <1>16, <2>1, <2>3, SkipRawType
  <2>4. ASSUME req'[c].errors = {}, NEW d \in req'[c].purged PROVE Settled(req[c], d)'
    <3>1. Settled(req[c], d)
      BY <2>1, <2>2, <2>3, <2>4 DEF PurgeInv, ToAsset, Purging
    <3>2. Lent(d.asset, d.group)' = Lent(d.asset, d.group)
      BY <2>1 DEF Lent, IsItem
    <3>3. CASE d.borrowed
      BY <2>1, <2>2, <3>1, <3>2, <3>3 DEF Settled, ToAsset
    <3>4. CASE ~d.borrowed
      <4>1. Leaving(req[c], d.asset) => Leaving(req[c], d.asset)'
        BY <2>1, <2>2 DEF Leaving, ToAsset
      <4> QED
        BY <2>1, <3>1, <3>4, <4>1 DEF Settled
    <3> QED
      BY <3>3, <3>4
  <2> QED
    BY <2>2, <2>3, <2>4 DEF PurgeInv, ToAsset
<1>17. ASSUME PurgeAsset(c) PROVE PurgeInv(c)'
  <2>1. /\ raw' = raw /\ items' = items /\ trash' = trash /\ req[c].at = "asset"
        /\ req[c].asset \in Asset
        /\ req'[c].at = "originals" /\ req'[c].todo = req[c].todo
        /\ req'[c].purged = req[c].purged /\ req'[c].lent = req[c].lent
        /\ \A b \in Asset : b # req[c].asset => assets'[b] = assets[b]
    BY <1>17, PurgeAssetType DEF PurgeAsset, tree, At
  <2>2. ASSUME req'[c].errors = {}
        PROVE  /\ req[c].errors = {} /\ assets'[req[c].asset] \notin Group
               /\ \A b \in Asset, g \in Consumer : policy[b][g] = "none" => policy'[b][g] = "none"
    <3>1. Delete(req[c].asset) /\ req[c].errors = {}
      BY <1>17, <2>2, PurgeAssetType
    <3> QED
      BY <2>1, <3>1, Deletes DEF TypeInv
  <2>3. ASSUME req'[c].errors = {}, NEW d \in req'[c].purged PROVE Settled(req[c], d)'
    <3>1. Settled(req[c], d) /\ req[c].asset \notin raw
      BY <2>1, <2>2, <2>3 DEF PurgeInv, Purging
    <3>2. d.asset \in Asset /\ d.group \in Consumer
      BY <2>1, PurgedType
    <3>3. Lent(d.asset, d.group)' = Lent(d.asset, d.group)
      BY <2>1 DEF Lent, IsItem
    <3>4. CASE d.borrowed
      BY <2>1, <2>2, <2>3, <3>1, <3>2, <3>3, <3>4 DEF Settled
    <3>5. CASE ~d.borrowed
      BY <2>1, <2>2, <2>3, <3>1, <3>2, <3>5 DEF Settled, Leaving
    <3> QED
      BY <3>4, <3>5
  <2> QED
    BY <2>1, <2>3 DEF PurgeInv
<1>18. ASSUME PurgeOriginalsEnd(c) PROVE PurgeInv(c)'
  <2>1. /\ assets' = assets /\ policy' = policy /\ items' = items /\ trash' = trash
        /\ raw' = raw /\ req[c].at = "originals" /\ req[c].todo = {}
    BY <1>18 DEF PurgeOriginalsEnd, tree, At
  <2>2. /\ req'[c].at = "lent" /\ req'[c].todo = req[c].todo /\ req'[c].lent = req[c].lent
        /\ req'[c].purged = req[c].purged /\ req'[c].errors = req[c].errors
    BY <1>18, PurgeOriginalsEndType DEF Onwards
  <2>3. ASSUME req'[c].errors = {}, NEW d \in req'[c].purged PROVE Settled(req[c], d)'
    <3>1. Settled(req[c], d)
      BY <2>1, <2>2, <2>3 DEF PurgeInv, Purging
    <3>2. Lent(d.asset, d.group)' = Lent(d.asset, d.group)
      BY <2>1 DEF Lent, IsItem
    <3> QED
      BY <2>1, <2>2, <3>1, <3>2 DEF Settled, Leaving
  <2> QED
    BY <2>1, <2>2, <2>3 DEF PurgeInv
<1>19. ASSUME NEW a \in Asset, NEW g \in Group, PurgeLent(c, a, g) PROVE PurgeInv(c)'
  <2>1. /\ assets' = assets /\ items' = items /\ trash' = trash /\ raw' = raw
        /\ req[c].at = "lent"
    BY <1>19 DEF PurgeLent, tree, At
  <2>2. /\ req'[c].at = "lent" /\ req'[c].todo = req[c].todo
        /\ req'[c].lent = req[c].lent \ {<<a, g>>}
        /\ req'[c].purged = req[c].purged /\ req'[c].errors = req[c].errors
    BY <1>19, PurgeLentType
  <2>3. /\ \A b \in Asset, h \in Consumer : <<b, h>> # <<a, g>> => policy'[b][h] = policy[b][h]
        /\ Lent(a, g) = {} => policy'[a][g] = "none"
        /\ Lent(a, g) # {} => policy' = policy
    BY <1>19, PurgeLentType
  <2>4. ASSUME req'[c].errors = {}, NEW d \in req'[c].purged PROVE Settled(req[c], d)'
    <3>1. Settled(req[c], d)
      BY <2>1, <2>2, <2>4 DEF PurgeInv, Purging
    <3>2. d.asset \in Asset /\ d.group \in Consumer
      BY <2>2, PurgedType
    <3>3. Lent(d.asset, d.group)' = Lent(d.asset, d.group)
      BY <2>1 DEF Lent, IsItem
    <3>4. CASE ~d.borrowed
      BY <2>1, <2>2, <3>1, <3>4 DEF Settled, Leaving
    <3>5. CASE d.borrowed /\ d.asset = a /\ d.group = g
      BY <2>3, <3>3, <3>5 DEF Settled
    <3>6. CASE d.borrowed /\ <<d.asset, d.group>> # <<a, g>>
      BY <2>2, <2>3, <3>1, <3>2, <3>3, <3>6 DEF Settled
    <3> QED
      BY <3>4, <3>5, <3>6
  <2>5. req'[c].errors = {} => req[c].errors = {} /\ req'[c].todo = {}
    BY <2>1, <2>2 DEF PurgeInv, Purging
  <2> QED
    BY <2>2, <2>4, <2>5 DEF PurgeInv
<1>20. ASSUME PurgeEnds(c) PROVE PurgeInv(c)'
  BY <1>20, <1>0, PurgeEndsType, IdleType DEF Purging, ToAsset
<1>21. ASSUME NEW a \in Asset, DeleteAsset(c, a) PROVE PurgeInv(c)'
  <2>1. req'[c] = Idle
    BY <1>21 DEF DeleteAsset, Asked
  <2> QED
    BY <1>0, <2>1, IdleType DEF Purging
<1>22. ASSUME NEW a \in Asset, NEW purge \in BOOLEAN,
               DeleteRaw(c, a, purge)
        PROVE  PurgeInv(c)'
  <2>1. req'[c].at = "erase" \/ req'[c] = Idle
    BY <1>22, DeleteRawType, Zenon
  <2> QED
    BY <1>0, <2>1, IdleType DEF Purging
<1>23. ASSUME EraseItems(c) PROVE PurgeInv(c)'
  BY <1>23, <1>0, EraseItemsType, IdleType DEF Purging, ToAsset
<1>24. ASSUME EraseAsset(c) PROVE PurgeInv(c)'
  BY <1>24, <1>0, EraseAssetType, IdleType DEF Purging, ToAsset
<1>25. ASSUME NEW a \in Asset, NEW g \in Group, UpdateAsset(c, a, g) PROVE PurgeInv(c)'
  <2>1. req'[c] = Idle
    BY <1>25 DEF UpdateAsset, Asked
  <2> QED
    BY <1>0, <2>1, IdleType DEF Purging
<1>26. ASSUME NEW a \in Asset, NEW consumer \in Consumer, NEW p \in Levels,
               SetPolicy(c, a, consumer, p)
        PROVE  PurgeInv(c)'
  <2>1. req'[c] = Idle
    BY <1>26 DEF SetPolicy, Asked
  <2> QED
    BY <1>0, <2>1, IdleType DEF Purging
<1>27. ASSUME Fails(c) PROVE PurgeInv(c)'
  BY <1>27, <1>0, FailsType, IdleType DEF Purging, ToAsset
<1> QED
  BY <1>1, <1>2, <1>3, <1>4, <1>5, <1>6, <1>7, <1>8, <1>9, <1>10, <1>11, <1>12, <1>13,
     <1>14, <1>15, <1>16, <1>17, <1>18, <1>19, <1>20, <1>21, <1>22, <1>23, <1>24,
     <1>25, <1>26, <1>27 DEF Acts, Continues

\* At its end there is nothing left to do.
LEMMA PurgeSettles ==
  ASSUME TypeInv, NEW c \in Client, PurgeInv(c), PurgeEnds(c), req[c].errors = {},
         NEW d \in req[c].purged
  PROVE  IF d.borrowed
           THEN policy'[d.asset][d.group] = "none" \/ Lent(d.asset, d.group) # {}
           ELSE ~Exists(d.asset) /\ d.asset \notin raw
<1>1. req[c].at = "lent" /\ req[c].lent = {} /\ policy' = policy
  BY DEF PurgeEnds, At
<1>2. Settled(req[c], d) /\ req[c].todo = {}
  BY <1>1 DEF PurgeInv, Purging
<1> QED
  BY <1>1, <1>2 DEF Settled, Leaving, Exists

-----------------------------------------------------------------------------
(* Moves, creations and deletions keep the services together *)

\* No lapse that separates an asset from its original item.
Kept == lapses \cap {"failure", "symlink moved", "asset deleted", "regrouped"} = {}

\* What a request leaves for its next calls.
Held(c) ==
  LET r == req[c] IN
    /\ r.at = "move" => ~(r.item \in Symlink /\ r.changes)
    /\ r.at = "sync" => \A a \in r.todo : items[a] # NoItem /\ items[a].group = r.to
    /\ \A a \in Asset : Leaving(r, a) =>
         items[a] = NoItem /\ (assets[a] \in Group => assets[a] = r.to)
    /\ r.at \in {"asset", "erase", "delete asset"} => r.asset \notin raw
    /\ r.at = "erase" => \A i \in trash \cap Item : items[i].asset # r.asset
    /\ r.at = "delete asset" => items[r.asset] = NoItem

\* An asset, its item, its raw data and its policies, while a request is at r.
Owned(r, a) ==
  /\ items[a] # NoItem => /\ assets[a] \in Group
                          /\ assets[a] = items[a].group \/ (r.at = "sync" /\ a \in r.todo)
  /\ a \in raw => assets[a] \in Group \/ (r.at = "post asset" /\ r.asset = a)
  /\ assets[a] \in Group =>
       \/ items[a] # NoItem
       \/ r.at \in {"post item", "delete asset"} /\ r.asset = a
       \/ Leaving(r, a)
  /\ assets[a] \notin Group => \A g \in Consumer : policy[a][g] = "none"

OwnerInv(c) == Kept => Held(c) /\ \A a \in Asset : Owned(req[c], a)

\* What has lapsed stays so.
LEMMA LapsesGrow ==
  ASSUME TypeInv, NEW c \in Client, Acts(c)
  PROVE  lapses \subseteq lapses'
<1>1. ASSUME NEW f \in Folder, NEW g \in Group,
              CreateFolder(c, f, g)
       PROVE  lapses \subseteq lapses'
  BY <1>1 DEF CreateFolder
<1>2. ASSUME NEW a \in Asset, NEW k \in Kinds \ {"none"}, NEW p \in Place,
              CreateRaw(c, a, k, p)
       PROVE  lapses \subseteq lapses'
  BY <1>2, CreateRawType
<1>3. ASSUME PostAsset(c) PROVE lapses \subseteq lapses'
  BY <1>3 DEF PostAsset
<1>4. ASSUME CreateItem(c) PROVE lapses \subseteq lapses'
  BY <1>4 DEF CreateItem
<1>5. ASSUME NEW x \in Item \cup Folder, NEW p \in Place,
              Move(c, x, p)
       PROVE  lapses \subseteq lapses'
  BY <1>5, MoveType
<1>6. ASSUME TreeMove(c) PROVE lapses \subseteq lapses'
  BY <1>6 DEF TreeMove
<1>7. ASSUME NEW a \in Asset, Sync(c, a) PROVE lapses \subseteq lapses'
  BY <1>7 DEF Sync
<1>8. ASSUME SyncEnds(c) PROVE lapses \subseteq lapses'
  BY <1>8 DEF SyncEnds
<1>9. ASSUME NEW i \in Item, NEW p \in Place, NEW s \in Symlink,
              Borrow(c, i, p, s)
       PROVE  lapses \subseteq lapses'
  BY <1>9 DEF Borrow
<1>10. ASSUME TreeBorrow(c) PROVE lapses \subseteq lapses'
  BY <1>10 DEF TreeBorrow
<1>11. ASSUME PutPolicyOfBorrow(c) PROVE lapses \subseteq lapses'
  BY <1>11 DEF PutPolicyOfBorrow
<1>12. ASSUME NEW x \in Item \cup Folder, DeleteEntity(c, x) PROVE lapses \subseteq lapses'
  BY <1>12 DEF DeleteEntity
<1>13. ASSUME NEW g \in Group, Purge(c, g) PROVE lapses \subseteq lapses'
  BY <1>13 DEF Purge
<1>14. ASSUME TreePurge(c) PROVE lapses \subseteq lapses'
  BY <1>14 DEF TreePurge
<1>15. ASSUME NEW a \in Asset, EraseRaw(c, a) PROVE lapses \subseteq lapses'
  BY <1>15, EraseRawType
<1>16. ASSUME NEW a \in Asset, SkipRaw(c, a) PROVE lapses \subseteq lapses'
  BY <1>16 DEF SkipRaw
<1>17. ASSUME PurgeAsset(c) PROVE lapses \subseteq lapses'
  BY <1>17, PurgeAssetType
<1>18. ASSUME PurgeOriginalsEnd(c) PROVE lapses \subseteq lapses'
  BY <1>18 DEF PurgeOriginalsEnd
<1>19. ASSUME NEW a \in Asset, NEW g \in Group,
               PurgeLent(c, a, g)
        PROVE  lapses \subseteq lapses'
  BY <1>19 DEF PurgeLent
<1>20. ASSUME PurgeEnds(c) PROVE lapses \subseteq lapses'
  BY <1>20 DEF PurgeEnds
<1>21. ASSUME NEW a \in Asset, DeleteAsset(c, a) PROVE lapses \subseteq lapses'
  BY <1>21, DeleteAssetType
<1>22. ASSUME NEW a \in Asset, NEW purge \in BOOLEAN,
               DeleteRaw(c, a, purge)
        PROVE  lapses \subseteq lapses'
  BY <1>22, DeleteRawType
<1>23. ASSUME EraseItems(c) PROVE lapses \subseteq lapses'
  BY <1>23 DEF EraseItems
<1>24. ASSUME EraseAsset(c) PROVE lapses \subseteq lapses'
  BY <1>24 DEF EraseAsset
<1>25. ASSUME NEW a \in Asset, NEW g \in Group,
               UpdateAsset(c, a, g)
        PROVE  lapses \subseteq lapses'
  BY <1>25, UpdateAssetType
<1>26. ASSUME NEW a \in Asset, NEW consumer \in Consumer, NEW p \in Levels,
               SetPolicy(c, a, consumer, p)
        PROVE  lapses \subseteq lapses'
  BY <1>26, SetPolicyType
<1>27. ASSUME Fails(c) PROVE lapses \subseteq lapses'
  BY <1>27, FailsType
<1> QED
  BY <1>1, <1>2, <1>3, <1>4, <1>5, <1>6, <1>7, <1>8, <1>9, <1>10, <1>11, <1>12, <1>13,
     <1>14, <1>15, <1>16, <1>17, <1>18, <1>19, <1>20, <1>21, <1>22, <1>23, <1>24,
     <1>25, <1>26, <1>27 DEF Acts, Continues

\* The move of an item, or of a folder that changes group, moves the originals whose
\* assets it then regroups.
LEMMA MoveRegroups ==
  ASSUME TypeInv, DocsInv, NEW c \in Client, TreeMove(c), Knows(c), Held(c)
  PROVE  /\ req'[c].at = "sync" =>
              /\ req'[c].to = req[c].to
              /\ \A a \in req'[c].todo : a \in Asset /\ items'[a] # NoItem
                                         /\ items'[a].group = req[c].to
         /\ \A a \in Asset :
              /\ items'[a] # NoItem <=> items[a] # NoItem
              /\ items'[a] # NoItem => \/ items'[a].group = items[a].group
                                       \/ req'[c].at = "sync" /\ a \in req'[c].todo
<1> DEFINE x == req[c].item
           p == req[c].place
<1>1. /\ GroupOf(p) = req[c].to
      /\ x \in Folder => req[c].changes = (home[x] # req[c].to)
      /\ x \notin Folder => req[c].changes = (items[x].group # req[c].to)
      /\ ~(x \in Symlink /\ req[c].changes)
      /\ x \in Item \cup Folder
  BY TreeMoveType DEF TreeMove, At, Knows, Found, Held
<1>2. CASE items' = items /\ home' = home /\ req'[c].at = "idle"
  BY <1>2
<1>3. CASE Relocates(c)
  <2>1. \A i \in Item :
          IF i \in MovedBy(c)
            THEN /\ items[i] # NoItem /\ items'[i] # NoItem
                 /\ items'[i].asset = items[i].asset /\ items'[i].group = req[c].to
            ELSE items'[i] = items[i]
    BY <1>1, <1>3 DEF Relocates, IsItem
  <2>2. \A i \in MovedBy(c) : i \in Item
    BY <1>1, ItemKinds DEF MovedBy, Follow
  <2>3. CASE req'[c].at = "sync"
    <3>1. /\ req'[c].to = req[c].to /\ req[c].changes
          /\ req'[c].todo = Regroup(x, MovedBy(c))
      BY <2>3, TreeMoveType
    <3>2. \A i \in MovedBy(c) : i \in Asset /\ items[i].asset = i
      <4>1. ASSUME NEW i \in MovedBy(c) PROVE i \in Asset
        <5>1. x \notin Symlink
          BY <1>1, <3>1
        <5>2. CASE x \in Item
          <6>1. i = x
            BY <4>1, <5>2 DEF MovedBy, Follow
          <6> QED
            BY <5>1, <5>2, <6>1, ItemKinds
        <5>3. CASE x \notin Item
          <6>1. i \in Item /\ items[i] # NoItem /\ ~items[i].borrowed
            BY <4>1, <5>3, <2>1, <2>2 DEF MovedBy, Follow
          <6> QED
            BY <6>1, ItemKinds DEF DocsInv
        <5> QED
          BY <5>2, <5>3
      <4>2. ASSUME NEW i \in MovedBy(c) PROVE items[i].asset = i
        BY <2>1, <2>2, <4>1, <4>2 DEF DocsInv
      <4> QED
        BY <4>1, <4>2
    <3>3. req'[c].todo = MovedBy(c)
      BY <3>1, <3>2 DEF Regroup
    <3> QED
      BY <2>1, <2>2, <2>3, <3>1, <3>2, <3>3, ItemKinds
  <2>4. CASE req'[c].at = "idle"
    <3>1. ~req[c].changes \/ items' = items
      BY <2>4, TreeMoveType
    <3>2. ASSUME ~req[c].changes, NEW i \in MovedBy(c) PROVE items[i].group = req[c].to
      <4>1. CASE x \in Folder
        BY <1>1, <3>2, <4>1, ItemKinds DEF MovedBy, Follow
      <4>2. CASE x \notin Folder
        <5>1. i = x
          BY <1>1, <3>2, <4>2 DEF MovedBy, Follow
        <5> QED
          BY <1>1, <3>2, <4>2, <5>1
      <4> QED
        BY <4>1, <4>2
    <3> QED
      BY <2>1, <2>2, <2>4, <3>1, <3>2, ItemKinds
  <2> QED
    BY <2>3, <2>4, TreeMoveType
<1>4. \/ Relocates(c)
      \/ items' = items /\ home' = home /\ req'[c].at = "idle"
  BY TreeMoveType
<1> QED
  BY <1>2, <1>3, <1>4

\* A purge that goes from one call to the next leaves fewer originals.
LEMMA TreePurgeLeaves ==
  ASSUME TypeInv, DocsInv, NEW c \in Client, TreePurge(c)
  PROVE  /\ req'[c].at = "originals" /\ req'[c].to = req[c].to
         /\ \A a \in Asset :
              /\ a \in req'[c].todo <=> items[a] # NoItem /\ items'[a] = NoItem
              /\ a \in req'[c].todo => items[a].group = req[c].to
              /\ items'[a] = NoItem \/ items'[a] = items[a]
<1> DEFINE g == req[c].to
<1>1. /\ \A i \in Item : items'[i] = IF i \in GoneFrom(g) THEN NoItem ELSE items[i]
      /\ req'[c].at = "originals" /\ req'[c].to = g
      /\ req'[c].purged = {items[i] : i \in GoneFrom(g)}
      /\ req'[c].todo = {d.asset : d \in {d \in req'[c].purged : ~d.borrowed}}
  BY TreePurgeType
<1>2. \A i \in GoneFrom(g) : i \in Item /\ items[i] # NoItem
  BY DEF GoneFrom
<1>3. ASSUME NEW a \in Asset PROVE a \in req'[c].todo <=> a \in GoneFrom(g)
  <2>1. ASSUME a \in req'[c].todo PROVE a \in GoneFrom(g)
    <3>1. PICK i \in GoneFrom(g) : ~items[i].borrowed /\ items[i].asset = a
      BY <1>1, <2>1
    <3>2. i = a
      BY <1>2, <3>1, ItemKinds DEF DocsInv
    <3> QED
      BY <3>1, <3>2
  <2>2. ASSUME a \in GoneFrom(g) PROVE a \in req'[c].todo
    <3>1. items[a] \in req'[c].purged /\ ~items[a].borrowed /\ items[a].asset = a
      BY <1>1, <1>2, <2>2 DEF DocsInv
    <3> QED
      BY <1>1, <3>1
  <2> QED
    BY <2>1, <2>2
<1>4. ASSUME NEW a \in Asset, a \in GoneFrom(g) PROVE items[a].group = g
  <2>1. CASE a \in trash
    BY <1>4, <2>1 DEF GoneFrom
  <2>2. CASE a \notin trash
    <3>1. items[a].place \in FoldersOf(g) /\ items[a] # NoItem
      BY <1>4, <2>2 DEF GoneFrom
    <3>2. items[a].place \in Folder /\ home[items[a].place] = g
      BY <3>1 DEF FoldersOf
    <3> QED
      BY <2>2, <3>1, <3>2, ItemKinds DEF DocsInv, Within
  <2> QED
    BY <2>1, <2>2
<1> QED
  BY <1>1, <1>2, <1>3, <1>4, ItemKinds

Holding == {"move", "sync", "originals", "asset", "erase", "delete asset"}

\* What a request leaves for its next calls is left by each of them.
LEMMA ActsHeld ==
  ASSUME TypeInv, DocsInv, OneRequest, NEW c \in Client, Knows(c), Held(c),
         \A b \in Asset : Owned(req[c], b), Kept', Acts(c)
  PROVE  Held(c)'
<1>0. ASSUME req'[c].at \notin Holding PROVE Held(c)'
  BY <1>0 DEF Held, Holding, Leaving
<1>1. ASSUME NEW f \in Folder, NEW g \in Group, CreateFolder(c, f, g) PROVE Held(c)'
  <2>1. req'[c] = Idle
    BY <1>1 DEF CreateFolder, Asked
  <2> QED
    BY <1>0, <2>1, IdleType DEF Holding
<1>2. ASSUME NEW a \in Asset, NEW k \in Kinds \ {"none"}, NEW p \in Place,
              CreateRaw(c, a, k, p)
       PROVE  Held(c)'
  BY <1>2, <1>0, CreateRawType, IdleType DEF Holding, ToAsset
<1>3. ASSUME PostAsset(c) PROVE Held(c)'
  BY <1>3, <1>0, PostAssetType, IdleType DEF Holding, ToAsset
<1>4. ASSUME CreateItem(c) PROVE Held(c)'
  BY <1>4, <1>0, CreateItemType, IdleType DEF Holding, ToAsset
<1>5. ASSUME NEW x \in Item \cup Folder, NEW p \in Place, Move(c, x, p) PROVE Held(c)'
  <2>1. /\ req'[c].at = "move" /\ req'[c].item = x
        /\ x \in Symlink /\ req'[c].changes => "symlink moved" \in lapses'
    BY <1>5, MoveType
  <2>2. ~(x \in Symlink /\ req'[c].changes)
    BY <2>1 DEF Kept
  <2> QED
    BY <2>1, <2>2 DEF Held, Leaving
<1>6. ASSUME TreeMove(c) PROVE Held(c)'
  <2>1. CASE req'[c].at = "sync"
    <3>1. \A a \in req'[c].todo : items'[a] # NoItem /\ items'[a].group = req'[c].to
      BY <1>6, <2>1, MoveRegroups
    <3> QED
      BY <2>1, <3>1 DEF Held, Leaving
  <2> QED
    BY <1>6, <1>0, <2>1, TreeMoveType DEF Holding
<1>7. ASSUME NEW a \in Asset, Sync(c, a) PROVE Held(c)'
  <2>1. req[c].at = "sync" /\ items' = items
    BY <1>7 DEF Sync, At, tree
  <2>2. CASE Exists(a)
    <3>1. /\ req'[c].at = "sync" /\ req'[c].to = req[c].to
          /\ req'[c].todo = req[c].todo \ {a}
      BY <1>7, <2>2, SyncType
    <3> QED
      BY <2>1, <3>1 DEF Held, Leaving
  <2>3. CASE ~Exists(a)
    BY <1>7, <1>0, <2>3, SyncType, IdleType DEF Holding
  <2> QED
    BY <2>2, <2>3
<1>8. ASSUME SyncEnds(c) PROVE Held(c)'
  BY <1>8, <1>0, SyncEndsType, IdleType DEF Holding, ToAsset
<1>9. ASSUME NEW i \in Item, NEW p \in Place, NEW s \in Symlink,
              Borrow(c, i, p, s)
       PROVE  Held(c)'
  BY <1>9, <1>0, BorrowType, IdleType DEF Holding, ToAsset
<1>10. ASSUME TreeBorrow(c) PROVE Held(c)'
  BY <1>10, <1>0, TreeBorrowType, IdleType DEF Holding, ToAsset
<1>11. ASSUME PutPolicyOfBorrow(c) PROVE Held(c)'
  BY <1>11, <1>0, PutPolicyOfBorrowType, IdleType DEF Holding, ToAsset
<1>12. ASSUME NEW x \in Item \cup Folder, DeleteEntity(c, x) PROVE Held(c)'
  <2>1. req'[c] = Idle
    BY <1>12 DEF DeleteEntity, Asked
  <2> QED
    BY <1>0, <2>1, IdleType DEF Holding
<1>13. ASSUME NEW g \in Group, Purge(c, g) PROVE Held(c)'
  BY <1>13, <1>0, PurgeType, IdleType DEF Holding, ToAsset
<1>14. ASSUME TreePurge(c) PROVE Held(c)'
  <2>1. assets' = assets /\ req[c].at = "purge"
    BY <1>14 DEF TreePurge, At
  <2>2. ASSUME NEW a \in Asset, a \in req'[c].todo
        PROVE  items'[a] = NoItem /\ assets'[a] = req[c].to
    BY <1>14, <2>1, <2>2, TreePurgeLeaves DEF Owned
  <2> QED
    BY <1>14, <2>2, TreePurgeLeaves DEF Held, Leaving
<1>15. ASSUME NEW a \in Asset, EraseRaw(c, a) PROVE Held(c)'
  <2>1. /\ assets' = assets /\ items' = items /\ req[c].at = "originals" /\ a \in req[c].todo
    BY <1>15 DEF EraseRaw, At, tree
  <2>2. ToAsset(req[c], req'[c], a) /\ req[c].to \in Member[c]
    BY <1>15, EraseRawType
  <2>3. a \notin raw'
    <3>1. \/ a \notin raw' \/ (~(Owns(c, a) /\ a \in raw) /\ raw' = raw)
      BY <1>15, EraseRawType DEF Kept
    <3>2. ASSUME a \in raw PROVE Owns(c, a)
      <4>1. assets[a] \in Group /\ assets[a] = req[c].to
        BY <2>1, <3>2 DEF Owned, Held, Leaving
      <4> QED
        BY <2>2, <4>1 DEF Owns, Exists
    <3> QED
      BY <3>1, <3>2
  <2>4. \A b \in Asset : Leaving(req[c], b)' => Leaving(req[c], b)
    BY <2>1, <2>2 DEF Leaving, ToAsset
  <2> QED
    BY <2>1, <2>2, <2>3, <2>4 DEF Held, ToAsset
<1>16. ASSUME NEW a \in Asset, SkipRaw(c, a) PROVE Held(c)'
  <2>1. /\ assets' = assets /\ items' = items /\ req[c].at = "originals" /\ a \in req[c].todo
        /\ raw' = raw
    BY <1>16 DEF SkipRaw, At, tree
  <2>2. ToAsset(req[c], req'[c], a) /\ a \notin raw
    BY <1>16, SkipRawType
  <2>3. \A b \in Asset : Leaving(req[c], b)' => Leaving(req[c], b)
    BY <2>1, <2>2 DEF Leaving, ToAsset
  <2> QED
    BY <2>1, <2>2, <2>3 DEF Held, ToAsset
<1>17. ASSUME PurgeAsset(c) PROVE Held(c)'
  <2>1. items' = items /\ req[c].at = "asset"
    BY <1>17 DEF PurgeAsset, At, tree
  <2>2. /\ req'[c].at = "originals" /\ req'[c].todo = req[c].todo /\ req'[c].to = req[c].to
        /\ req[c].asset \in Asset
        /\ \A b \in Asset : b # req[c].asset => assets'[b] = assets[b]
    BY <1>17, PurgeAssetType
  <2>3. assets'[req[c].asset] \notin Group
    <3>1. Delete(req[c].asset) \/ assets'[req[c].asset] \notin Group
      BY <1>17, PurgeAssetType DEF Kept
    <3> QED
      BY <2>2, <3>1, Deletes DEF TypeInv
  <2>4. \A b \in Asset : Leaving(req[c], b)' => Leaving(req[c], b)
    BY <2>1, <2>2 DEF Leaving
  <2> QED
    BY <2>1, <2>2, <2>3, <2>4 DEF Held
<1>18. ASSUME PurgeOriginalsEnd(c) PROVE Held(c)'
  BY <1>18, <1>0, PurgeOriginalsEndType, IdleType DEF Holding, ToAsset
<1>19. ASSUME NEW a \in Asset, NEW g \in Group, PurgeLent(c, a, g) PROVE Held(c)'
  BY <1>19, <1>0, PurgeLentType, IdleType DEF Holding, ToAsset
<1>20. ASSUME PurgeEnds(c) PROVE Held(c)'
  BY <1>20, <1>0, PurgeEndsType, IdleType DEF Holding, ToAsset
<1>21. ASSUME NEW a \in Asset, DeleteAsset(c, a) PROVE Held(c)'
  <2>1. req'[c] = Idle
    BY <1>21 DEF DeleteAsset, Asked
  <2> QED
    BY <1>0, <2>1, IdleType DEF Holding
<1>22. ASSUME NEW a \in Asset, NEW purge \in BOOLEAN, DeleteRaw(c, a, purge) PROVE Held(c)'
  <2>1. items' = items /\ trash' = trash /\ raw' = raw \ {a}
    BY <1>22 DEF DeleteRaw, tree
  <2>2. \/ /\ req'[c].at = "erase" /\ req'[c].asset = a
           /\ \A i \in trash \cap Item : items[i].asset # a
        \/ req'[c] = Idle
    BY <1>22, DeleteRawType, Zenon DEF Kept
  <2>3. CASE /\ req'[c].at = "erase" /\ req'[c].asset = a
             /\ \A i \in trash \cap Item : items[i].asset # a
    BY <2>1, <2>3 DEF Held, Leaving
  <2>4. CASE req'[c] = Idle
    BY <1>0, <2>4, IdleType DEF Holding
  <2> QED
    BY <2>2, <2>3, <2>4
<1>23. ASSUME EraseItems(c) PROVE Held(c)'
  <2>1. raw' = raw /\ req[c].at = "erase"
    BY <1>23 DEF EraseItems, At
  <2>2. /\ req[c].asset \in Asset /\ req'[c].at = "delete asset" /\ req'[c].asset = req[c].asset
        /\ \A i \in Item : items'[i] = IF IsItem(i) /\ items[i].asset = req[c].asset THEN NoItem
                                       ELSE items[i]
    BY <1>23, EraseItemsType DEF Onwards
  <2>3. items'[req[c].asset] = NoItem
    <3>1. CASE items[req[c].asset] = NoItem
      BY <2>2, <3>1, ItemKinds
    <3>2. CASE items[req[c].asset] # NoItem
      <4>1. items[req[c].asset].asset = req[c].asset /\ req[c].asset \notin trash
        BY <2>1, <2>2, <3>2, ItemKinds DEF DocsInv, Held
      <4> QED
        BY <2>2, <3>2, <4>1, ItemKinds DEF IsItem
    <3> QED
      BY <3>1, <3>2
  <2> QED
    BY <2>1, <2>2, <2>3 DEF Held, Leaving
<1>24. ASSUME EraseAsset(c) PROVE Held(c)'
  BY <1>24, <1>0, EraseAssetType, IdleType DEF Holding, ToAsset
<1>25. ASSUME NEW a \in Asset, NEW g \in Group, UpdateAsset(c, a, g) PROVE Held(c)'
  <2>1. req'[c] = Idle
    BY <1>25 DEF UpdateAsset, Asked
  <2> QED
    BY <1>0, <2>1, IdleType DEF Holding
<1>26. ASSUME NEW a \in Asset, NEW consumer \in Consumer, NEW p \in Levels,
               SetPolicy(c, a, consumer, p)
        PROVE  Held(c)'
  <2>1. req'[c] = Idle
    BY <1>26 DEF SetPolicy, Asked
  <2> QED
    BY <1>0, <2>1, IdleType DEF Holding
<1>27. ASSUME Fails(c) PROVE Held(c)'
  BY <1>27, <1>0, FailsType, IdleType DEF Holding, ToAsset
<1> QED
  BY <1>1, <1>2, <1>3, <1>4, <1>5, <1>6, <1>7, <1>8, <1>9, <1>10, <1>11, <1>12, <1>13,
     <1>14, <1>15, <1>16, <1>17, <1>18, <1>19, <1>20, <1>21, <1>22, <1>23, <1>24,
     <1>25, <1>26, <1>27 DEF Acts, Continues

Excepting == {"sync", "post asset", "post item", "delete asset", "originals", "asset"}

\* An asset, its item, its raw data and its policies stay together through each call.
LEMMA ActsOwned ==
  ASSUME TypeInv, DocsInv, KindInv, OneRequest, NEW c \in Client, Knows(c), Held(c),
         \A b \in Asset : Owned(req[c], b), Kept', Acts(c)
  PROVE  \A b \in Asset : Owned(req[c], b)'
<1> DEFINE Together == \A b \in Asset : Owned(req[c], b)'
<1>0. ASSUME req[c].at \notin Excepting, assets' = assets, policy' = policy, raw' \subseteq raw,
             \A b \in Asset : items'[b] = items[b]
      PROVE  Together
  BY <1>0 DEF Owned, Leaving, Excepting
<1>1. ASSUME NEW f \in Folder, NEW g \in Group, CreateFolder(c, f, g) PROVE Together
  <2>1. assets' = assets /\ policy' = policy /\ raw' = raw /\ items' = items /\ req[c] = Idle
    BY <1>1 DEF CreateFolder, tree, Asked
  <2> QED
    BY <1>0, <2>1, IdleType DEF Excepting
<1>2. ASSUME NEW a \in Asset, NEW k \in Kinds \ {"none"}, NEW p \in Place,
              CreateRaw(c, a, k, p)
       PROVE  Together
  <2>1. /\ assets' = assets /\ policy' = policy /\ items' = items /\ req[c] = Idle
        /\ raw' \subseteq raw \cup {a}
    BY <1>2 DEF CreateRaw, tree, Asked
  <2>2. req'[c].at = "post asset" /\ req'[c].asset = a
    BY <1>2, CreateRawType DEF Kept
  <2> QED
    BY <2>1, <2>2, IdleType DEF Owned, Leaving
<1>3. ASSUME PostAsset(c) PROVE Together
  <2>1. /\ policy' = policy /\ items' = items /\ raw' = raw /\ req[c].at = "post asset"
    BY <1>3 DEF PostAsset, tree, At
  <2>2. /\ req[c].asset \in Asset /\ req[c].to \in Group /\ assets'[req[c].asset] = req[c].to
        /\ \A b \in Asset : b # req[c].asset => assets'[b] = assets[b]
        /\ req'[c].at = "post item" /\ req'[c].asset = req[c].asset
    BY <1>3, PostAssetType DEF Onwards
  <2>3. items[req[c].asset] = NoItem
    BY <2>1, <2>2, ItemKinds DEF DocsInv, Knows, Absent
  <2>4. Owned(req[c], req[c].asset)'
    BY <2>1, <2>2, <2>3 DEF Owned, Leaving
  <2>5. ASSUME NEW b \in Asset, b # req[c].asset PROVE Owned(req[c], b)'
    BY <2>1, <2>2, <2>5 DEF Owned, Leaving
  <2> QED
    BY <2>2, <2>4, <2>5
<1>4. ASSUME CreateItem(c) PROVE Together
  <2>1. assets' = assets /\ policy' = policy /\ raw' = raw /\ req[c].at = "post item"
    BY <1>4 DEF CreateItem, At
  <2>2. /\ req[c].asset \in Asset /\ assets[req[c].asset] = req[c].to
        /\ IsFolder(req[c].place) /\ GroupOf(req[c].place) = req[c].to /\ req[c].to \in Group
    BY <1>4, <2>1, CreateItemType DEF Knows, Found
  <2>3. /\ items'[req[c].asset] # NoItem /\ items'[req[c].asset].group = req[c].to
        /\ \A b \in Asset : b # req[c].asset => items'[b] = items[b]
    BY <1>4, <2>2, CreateItemType, ItemKinds
  <2>4. Owned(req[c], req[c].asset)
    BY <2>2
  <2>5. ASSUME NEW b \in Asset PROVE Owned(req[c], b)'
    BY <2>1, <2>2, <2>3, <2>5 DEF Owned, Leaving
  <2> QED
    BY <2>5
<1>5. ASSUME NEW x \in Item \cup Folder, NEW p \in Place, Move(c, x, p) PROVE Together
  <2>1. assets' = assets /\ policy' = policy /\ raw' = raw /\ items' = items /\ req[c] = Idle
    BY <1>5 DEF Move, tree, Asked
  <2> QED
    BY <1>0, <2>1, IdleType DEF Excepting
<1>6. ASSUME TreeMove(c) PROVE Together
  <2>1. assets' = assets /\ policy' = policy /\ raw' = raw /\ req[c].at = "move"
    BY <1>6 DEF TreeMove, At
  <2>2. \A b \in Asset :
          /\ items'[b] # NoItem <=> items[b] # NoItem
          /\ items'[b] # NoItem => \/ items'[b].group = items[b].group
                                   \/ req'[c].at = "sync" /\ b \in req'[c].todo
    BY <1>6, MoveRegroups
  <2> QED
    BY <2>1, <2>2 DEF Owned, Leaving
<1>7. ASSUME NEW a \in Asset, Sync(c, a) PROVE Together
  <2>1. /\ policy' = policy /\ items' = items /\ raw' = raw /\ req[c].at = "sync"
        /\ a \in req[c].todo
    BY <1>7 DEF Sync, tree, At
  <2>2. items[a] # NoItem /\ items[a].group = req[c].to /\ Exists(a)
    BY <2>1 DEF Held, Owned, Exists
  <2>3. /\ assets'[a] = req[c].to /\ req[c].to \in Group
        /\ \A b \in Asset : b # a => assets'[b] = assets[b]
        /\ req'[c].at = "sync" /\ req'[c].todo = req[c].todo \ {a}
    BY <1>7, <2>2, SyncType
  <2>4. Owned(req[c], a)'
    BY <2>1, <2>2, <2>3 DEF Owned, Leaving
  <2>5. ASSUME NEW b \in Asset, b # a PROVE Owned(req[c], b)'
    BY <2>1, <2>3, <2>5 DEF Owned, Leaving
  <2> QED
    BY <2>4, <2>5
<1>8. ASSUME SyncEnds(c) PROVE Together
  <2>1. /\ assets' = assets /\ policy' = policy /\ items' = items /\ raw' = raw
        /\ req[c].at = "sync" /\ req[c].todo = {}
    BY <1>8 DEF SyncEnds, tree, At
  <2> QED
    BY <2>1 DEF Owned, Leaving
<1>9. ASSUME NEW i \in Item, NEW p \in Place, NEW s \in Symlink,
              Borrow(c, i, p, s)
       PROVE  Together
  <2>1. assets' = assets /\ policy' = policy /\ raw' = raw /\ items' = items /\ req[c] = Idle
    BY <1>9 DEF Borrow, tree, Asked
  <2> QED
    BY <1>0, <2>1, IdleType DEF Excepting
<1>10. ASSUME TreeBorrow(c) PROVE Together
  <2>1. assets' = assets /\ policy' = policy /\ raw' = raw /\ req[c].at = "borrow"
    BY <1>10 DEF TreeBorrow, At
  <2>2. req[c].link \in Symlink /\ \A j \in Item : j # req[c].link => items'[j] = items[j]
    BY <1>10, TreeBorrowType
  <2>3. \A b \in Asset : items'[b] = items[b]
    BY <2>2, ItemKinds
  <2> QED
    BY <1>0, <2>1, <2>3 DEF Excepting
<1>11. ASSUME PutPolicyOfBorrow(c) PROVE Together
  <2>1. assets' = assets /\ items' = items /\ raw' = raw /\ req[c].at = "put policy"
    BY <1>11 DEF PutPolicyOfBorrow, tree, At
  <2>2. \A b \in Asset : assets[b] \notin Group => \A g \in Consumer : policy'[b][g] = policy[b][g]
    BY <1>11, PutPolicyOfBorrowType DEF Exists
  <2> QED
    BY <2>1, <2>2 DEF Owned, Leaving
<1>12. ASSUME NEW x \in Item \cup Folder, DeleteEntity(c, x) PROVE Together
  <2>1. assets' = assets /\ policy' = policy /\ raw' = raw /\ items' = items /\ req[c] = Idle
    BY <1>12 DEF DeleteEntity, tree, Asked
  <2> QED
    BY <1>0, <2>1, IdleType DEF Excepting
<1>13. ASSUME NEW g \in Group, Purge(c, g) PROVE Together
  <2>1. assets' = assets /\ policy' = policy /\ raw' = raw /\ items' = items /\ req[c] = Idle
    BY <1>13 DEF Purge, tree, Asked
  <2> QED
    BY <1>0, <2>1, IdleType DEF Excepting
<1>14. ASSUME TreePurge(c) PROVE Together
  <2>1. assets' = assets /\ policy' = policy /\ raw' = raw /\ req[c].at = "purge"
    BY <1>14 DEF TreePurge, At
  <2>2. req'[c].at = "originals"
    BY <1>14, TreePurgeLeaves
  <2>3. \A b \in Asset : /\ b \in req'[c].todo <=> (items[b] # NoItem /\ items'[b] = NoItem)
                        /\ (items'[b] = NoItem \/ items'[b] = items[b])
    BY <1>14, TreePurgeLeaves
  <2>4. ASSUME NEW b \in Asset PROVE Owned(req[c], b)'
    <3>1. Owned(req[c], b)
      OBVIOUS
    <3>2. Leaving(req[c], b)' <=> b \in req'[c].todo
      BY <2>2 DEF Leaving
    <3> QED
      BY <2>1, <2>2, <2>3, <3>1, <3>2 DEF Owned, Leaving
  <2> QED
    BY <2>4
<1>15. ASSUME NEW a \in Asset, EraseRaw(c, a) PROVE Together
  <2>1. /\ assets' = assets /\ items' = items /\ policy' = policy
        /\ req[c].at = "originals" /\ a \in req[c].todo
    BY <1>15 DEF EraseRaw, At, tree
  <2>2. ToAsset(req[c], req'[c], a) /\ raw' \subseteq raw
    BY <1>15, EraseRawType DEF EraseRaw
  <2>3. \A b \in Asset : Leaving(req[c], b)' <=> Leaving(req[c], b)
    BY <2>1, <2>2 DEF Leaving, ToAsset
  <2>4. ASSUME NEW b \in Asset PROVE Owned(req[c], b)'
    <3>1. Owned(req[c], b)
      OBVIOUS
    <3> QED
      BY <2>1, <2>2, <2>3, <3>1 DEF Owned, ToAsset
  <2> QED
    BY <2>4
<1>16. ASSUME NEW a \in Asset, SkipRaw(c, a) PROVE Together
  <2>1. /\ assets' = assets /\ items' = items /\ policy' = policy
        /\ req[c].at = "originals" /\ a \in req[c].todo
    BY <1>16 DEF SkipRaw, At, tree
  <2>2. ToAsset(req[c], req'[c], a) /\ raw' \subseteq raw
    BY <1>16, SkipRawType DEF SkipRaw
  <2>3. \A b \in Asset : Leaving(req[c], b)' <=> Leaving(req[c], b)
    BY <2>1, <2>2 DEF Leaving, ToAsset
  <2>4. ASSUME NEW b \in Asset PROVE Owned(req[c], b)'
    <3>1. Owned(req[c], b)
      OBVIOUS
    <3> QED
      BY <2>1, <2>2, <2>3, <3>1 DEF Owned, ToAsset
  <2> QED
    BY <2>4
<1>17. ASSUME PurgeAsset(c) PROVE Together
  <2>1. items' = items /\ raw' = raw /\ req[c].at = "asset"
    BY <1>17 DEF PurgeAsset, At, tree
  <2>2. /\ req'[c].at = "originals" /\ req'[c].todo = req[c].todo /\ req[c].asset \in Asset
        /\ \A b \in Asset : b # req[c].asset => assets'[b] = assets[b]
    BY <1>17, PurgeAssetType
  <2>3. items[req[c].asset] = NoItem /\ req[c].asset \notin raw
    BY <2>1, <2>2 DEF Held, Leaving
  <2>4. /\ assets'[req[c].asset] \notin Group
        /\ \A g \in Consumer : policy'[req[c].asset][g] = "none"
        /\ \A b \in Asset, g \in Consumer : b # req[c].asset => policy'[b][g] = policy[b][g]
    <3>1. \/ Delete(req[c].asset)
          \/ /\ assets[req[c].asset] \notin Group /\ assets'[req[c].asset] \notin Group
             /\ policy' = policy
      BY <1>17, PurgeAssetType DEF Kept, Exists
    <3>2. CASE Delete(req[c].asset)
      BY <2>2, <3>2, Deletes DEF TypeInv
    <3>3. CASE /\ assets[req[c].asset] \notin Group /\ assets'[req[c].asset] \notin Group
               /\ policy' = policy
      <4>1. Owned(req[c], req[c].asset)
        BY <2>2
      <4> QED
        BY <3>3, <4>1 DEF Owned
    <3> QED
      BY <3>1, <3>2, <3>3
  <2>5. ASSUME NEW b \in Asset, b = req[c].asset PROVE Owned(req[c], b)'
    BY <2>1, <2>2, <2>3, <2>4, <2>5 DEF Owned
  <2>6. ASSUME NEW b \in Asset, b # req[c].asset PROVE Owned(req[c], b)'
    <3>1. Leaving(req[c], b)' <=> Leaving(req[c], b)
      BY <2>1, <2>2, <2>6 DEF Leaving
    <3>2. Owned(req[c], b)
      OBVIOUS
    <3> QED
      BY <2>1, <2>2, <2>4, <2>6, <3>1, <3>2 DEF Owned
  <2> QED
    BY <2>5, <2>6
<1>18. ASSUME PurgeOriginalsEnd(c) PROVE Together
  <2>1. /\ assets' = assets /\ policy' = policy /\ items' = items /\ raw' = raw
        /\ req[c].at = "originals" /\ req[c].todo = {}
    BY <1>18 DEF PurgeOriginalsEnd, tree, At
  <2> QED
    BY <2>1 DEF Owned, Leaving
<1>19. ASSUME NEW a \in Asset, NEW g \in Group, PurgeLent(c, a, g) PROVE Together
  <2>1. assets' = assets /\ items' = items /\ raw' = raw /\ req[c].at = "lent"
    BY <1>19 DEF PurgeLent, tree, At
  <2>2. \A b \in Asset, h \in Consumer : policy[b][h] = "none" => policy'[b][h] = "none"
    BY <1>19, PurgeLentType
  <2> QED
    BY <2>1, <2>2 DEF Owned, Leaving
<1>20. ASSUME PurgeEnds(c) PROVE Together
  <2>1. assets' = assets /\ policy' = policy /\ raw' = raw /\ items' = items /\ req[c].at = "lent"
    BY <1>20 DEF PurgeEnds, tree, At
  <2> QED
    BY <1>0, <2>1 DEF Excepting
<1>21. ASSUME NEW a \in Asset, DeleteAsset(c, a) PROVE Together
  BY <1>21, DeleteAssetType DEF Kept
<1>22. ASSUME NEW a \in Asset, NEW purge \in BOOLEAN, DeleteRaw(c, a, purge) PROVE Together
  <2>1. /\ assets' = assets /\ policy' = policy /\ raw' \subseteq raw /\ items' = items
        /\ req[c] = Idle
    BY <1>22 DEF DeleteRaw, tree, Asked
  <2> QED
    BY <1>0, <2>1, IdleType DEF Excepting
<1>23. ASSUME EraseItems(c) PROVE Together
  <2>1. assets' = assets /\ policy' = policy /\ raw' = raw /\ req[c].at = "erase"
    BY <1>23 DEF EraseItems, At
  <2>2. /\ req'[c].at = "delete asset" /\ req'[c].asset = req[c].asset
        /\ \A i \in Item : items'[i] = IF IsItem(i) /\ items[i].asset = req[c].asset THEN NoItem
                                       ELSE items[i]
    BY <1>23, EraseItemsType DEF Onwards
  <2>3. items'[req[c].asset] = NoItem
    BY <1>23, <2>2, ActsHeld DEF Held
  <2>4. \A b \in Asset : b # req[c].asset => items'[b] = items[b]
    BY <2>2, ItemKinds DEF DocsInv, IsItem
  <2> QED
    BY <2>1, <2>2, <2>3, <2>4 DEF Owned, Leaving
<1>24. ASSUME EraseAsset(c) PROVE Together
  <2>1. raw' = raw /\ items' = items /\ req[c].at = "delete asset"
    BY <1>24 DEF EraseAsset, At, tree
  <2>2. /\ req[c].asset \in Asset /\ assets'[req[c].asset] \notin Group
        /\ \A b \in Asset : b # req[c].asset =>
             assets'[b] = assets[b] /\ \A g \in Consumer : policy'[b][g] = policy[b][g]
        /\ assets[req[c].asset] \notin Group => policy' = policy
        /\ assets[req[c].asset] \in Group =>
             \A g \in Consumer : policy'[req[c].asset][g] = "none"
    BY <1>24, EraseAssetType DEF Exists
  <2>3. items[req[c].asset] = NoItem /\ req[c].asset \notin raw
    BY <2>1 DEF Held
  <2>4. ASSUME NEW b \in Asset, b = req[c].asset PROVE Owned(req[c], b)'
    <3>1. Owned(req[c], b)
      OBVIOUS
    <3>2. CASE assets[b] \in Group
      BY <2>1, <2>2, <2>3, <2>4, <3>2 DEF Owned
    <3>3. CASE assets[b] \notin Group
      BY <2>1, <2>2, <2>3, <2>4, <3>1, <3>3 DEF Owned
    <3> QED
      BY <3>2, <3>3
  <2>5. ASSUME NEW b \in Asset, b # req[c].asset PROVE Owned(req[c], b)'
    <3>1. Owned(req[c], b)
      OBVIOUS
    <3>2. /\ assets'[b] = assets[b] /\ raw' = raw /\ items' = items
          /\ \A g \in Consumer : policy'[b][g] = policy[b][g]
      BY <2>1, <2>2, <2>5
    <3> QED
      BY <2>1, <2>5, <3>1, <3>2 DEF Owned, Leaving
  <2> QED
    BY <2>4, <2>5
<1>25. ASSUME NEW a \in Asset, NEW g \in Group, UpdateAsset(c, a, g) PROVE Together
  BY <1>25, UpdateAssetType DEF Kept
<1>26. ASSUME NEW a \in Asset, NEW consumer \in Consumer, NEW p \in Levels,
               SetPolicy(c, a, consumer, p)
        PROVE  Together
  <2>1. /\ assets' = assets /\ raw' = raw /\ items' = items /\ req[c] = Idle /\ Exists(a)
    BY <1>26 DEF SetPolicy, tree, Asked, Owns
  <2>2. \A b \in Asset, h \in Consumer : b # a => policy'[b][h] = policy[b][h]
    BY <1>26, SetPolicyType
  <2>3. ASSUME NEW b \in Asset PROVE Owned(req[c], b)'
    <3>1. Owned(req[c], b)
      OBVIOUS
    <3>2. CASE b = a
      BY <2>1, <3>1, <3>2, IdleType DEF Owned, Leaving, Exists
    <3>3. CASE b # a
      <4>1. \A g \in Consumer : policy'[b][g] = policy[b][g]
        BY <2>2, <3>3
      <4> QED
        BY <2>1, <3>1, <4>1, IdleType DEF Owned, Leaving
    <3> QED
      BY <3>2, <3>3
  <2> QED
    BY <2>3
<1>27. ASSUME Fails(c) PROVE Together
  BY <1>27, FailsType DEF Kept
<1> QED
  BY <1>1, <1>2, <1>3, <1>4, <1>5, <1>6, <1>7, <1>8, <1>9, <1>10, <1>11, <1>12, <1>13,
     <1>14, <1>15, <1>16, <1>17, <1>18, <1>19, <1>20, <1>21, <1>22, <1>23, <1>24,
     <1>25, <1>26, <1>27 DEF Acts, Continues

\* So the invariant is kept.
LEMMA ActsOwner ==
  ASSUME TypeInv, DocsInv, KindInv, OneRequest, NEW c \in Client, Knows(c), OwnerInv(c), Acts(c)
  PROVE  OwnerInv(c)'
<1>1. Kept' => Kept
  BY LapsesGrow DEF Kept
<1> QED
  BY <1>1, ActsHeld, ActsOwned DEF OwnerInv

-----------------------------------------------------------------------------
(* Access follows the symlinks *)

\* No lapse that separates the policies of a group from its symlinks.
Lawful == lapses \cap {"failure", "symlink moved", "policy put", "policy deleted"} = {}

\* A symlink of a in group g, be it in the trash.
Lends(a, g) ==
  \E s \in Symlink : items[s] # NoItem /\ items[s].asset = a /\ items[s].group = g

\* A policy and the symlinks it is for, while a request is at r.
Granted(r, a, g) ==
  /\ Lent(a, g) # {} => \/ policy[a][g] # "none"
                        \/ r.at = "put policy" /\ r.asset = a /\ r.to = g
  /\ policy[a][g] # "none" => \/ Lends(a, g)
                              \/ r.at \in Purging /\ <<a, g>> \in r.lent
                              \/ r.at = "delete asset" /\ r.asset = a

MovesNoLink(r) == r.at = "move" => ~(r.item \in Symlink /\ r.changes)

PolicyInv(c) ==
  Lawful =>
    /\ MovesNoLink(req[c])
    /\ \A a \in Asset, g \in Group : Exists(a) => Granted(req[c], a, g)

\* A symlink that is the same but for its place.
Alike(s) ==
  /\ items'[s] # NoItem <=> items[s] # NoItem
  /\ items[s] # NoItem => /\ items'[s].asset = items[s].asset
                          /\ items'[s].group = items[s].group
                          /\ items'[s].borrowed = items[s].borrowed

\* As long as they are, they lend the same.
LEMMA LinksAlike ==
  ASSUME \A s \in Symlink : Alike(s), trash \subseteq trash', NEW a \in Asset, NEW g \in Group
  PROVE  (Lends(a, g)' <=> Lends(a, g)) /\ (Lent(a, g)' # {} => Lent(a, g) # {})
<1>1. Lends(a, g)' <=> Lends(a, g)
  BY DEF Lends, Alike
<1>2. ASSUME NEW s \in Lent(a, g)' PROVE s \in Lent(a, g)
  BY <1>2 DEF Lent, Alike, IsItem
<1> QED
  BY <1>1, <1>2

\* A step that takes nothing away from the requests, and no policy from an asset.
LEMMA GrantsStay ==
  ASSUME NEW c \in Client, req[c].at # "put policy",
         \A s \in Symlink : Alike(s), trash \subseteq trash',
         req[c].at \in Purging =>
           req[c].lent = {} \/ (req'[c].at \in Purging /\ req'[c].lent = req[c].lent),
         req[c].at = "delete asset" => assets'[req[c].asset] \notin Group,
         NEW a \in Asset, NEW g \in Group, Granted(req[c], a, g), assets'[a] \in Group,
         policy'[a][g] = policy[a][g]
  PROVE  Granted(req[c], a, g)'
<1>1. (Lends(a, g)' <=> Lends(a, g)) /\ (Lent(a, g)' # {} => Lent(a, g) # {})
  BY LinksAlike
<1>2. Lent(a, g)' # {} => policy'[a][g] # "none"
  BY <1>1 DEF Granted
<1>3. ASSUME policy'[a][g] # "none"
      PROVE  Lends(a, g)' \/ (req'[c].at \in Purging /\ <<a, g>> \in req'[c].lent)
  BY <1>1, <1>3 DEF Granted
<1> QED
  BY <1>2, <1>3 DEF Granted

\* The policies follow the symlinks through each call.
LEMMA ActsGranted ==
  ASSUME TypeInv, DocsInv, OneRequest, NEW c \in Client, Knows(c), MovesNoLink(req[c]),
         \A a \in Asset, g \in Group : assets[a] \in Group => Granted(req[c], a, g),
         Lawful', Acts(c)
  PROVE  /\ MovesNoLink(req[c])'
         /\ \A a \in Asset, g \in Group : assets'[a] \in Group => Granted(req[c], a, g)'
<1> DEFINE Good ==
             /\ MovesNoLink(req[c])'
             /\ \A a \in Asset, g \in Group : assets'[a] \in Group => Granted(req[c], a, g)'
<1>a. ASSUME req'[c].at # "move", req[c].at # "put policy",
             \A s \in Symlink : Alike(s), trash \subseteq trash',
             req[c].at \in Purging =>
               req[c].lent = {} \/ (req'[c].at \in Purging /\ req'[c].lent = req[c].lent),
             req[c].at = "delete asset" => assets'[req[c].asset] \notin Group,
             \A a \in Asset, g \in Group : assets'[a] \in Group =>
               assets[a] \in Group /\ policy'[a][g] = policy[a][g]
      PROVE  Good
  BY <1>a, GrantsStay DEF MovesNoLink
<1>b. ASSUME req[c] = Idle, req'[c].at # "move", items' = items, trash \subseteq trash',
             \A a \in Asset, g \in Group : assets'[a] \in Group =>
               assets[a] \in Group /\ policy'[a][g] = policy[a][g]
      PROVE  Good
  <2>1. \A s \in Symlink : Alike(s)
    BY <1>b DEF Alike
  <2> QED
    BY <1>a, <1>b, <2>1, IdleType DEF Purging
<1>c. Symlink \subseteq Item /\ Group \subseteq Consumer
  BY DEF Item, Consumer
<1>1. ASSUME NEW f \in Folder, NEW g \in Group, CreateFolder(c, f, g) PROVE Good
  <2>1. /\ assets' = assets /\ policy' = policy /\ items' = items /\ trash \subseteq trash'
        /\ req[c] = Idle /\ req' = req
    BY <1>1 DEF CreateFolder, tree, Asked
  <2> QED
    BY <1>b, <2>1, IdleType
<1>2. ASSUME NEW a \in Asset, NEW k \in Kinds \ {"none"}, NEW p \in Place,
              CreateRaw(c, a, k, p)
       PROVE  Good
  <2>1. /\ assets' = assets /\ policy' = policy /\ items' = items /\ trash' = trash
        /\ req[c] = Idle
    BY <1>2 DEF CreateRaw, tree, Asked
  <2>2. req'[c].at # "move"
    BY <1>2, CreateRawType, IdleType
  <2> QED
    BY <1>b, <2>1, <2>2
<1>3. ASSUME PostAsset(c) PROVE Good
  <2>1. /\ policy' = policy /\ items' = items /\ trash' = trash /\ req[c].at = "post asset"
    BY <1>3 DEF PostAsset, tree, At
  <2>2. /\ req[c].asset \in Asset /\ req'[c].at = "post item"
        /\ \A b \in Asset : b # req[c].asset => assets'[b] = assets[b]
    BY <1>3, PostAssetType
  <2>3. /\ \A i \in Item : items[i] # NoItem => items[i].asset # req[c].asset
        /\ \A g \in Consumer : policy[req[c].asset][g] = "none"
    BY <2>1 DEF Knows, Absent
  <2>4. \A s \in Symlink : Alike(s)
    BY <2>1 DEF Alike
  <2>5. ASSUME NEW a \in Asset, NEW g \in Group, assets'[a] \in Group PROVE Granted(req[c], a, g)'
    <3>1. CASE a = req[c].asset
      <4>1. Lent(a, g)' = {}
        BY <1>c, <2>1, <2>3, <3>1 DEF Lent, IsItem
      <4>2. policy'[a][g] = "none"
        BY <1>c, <2>1, <2>3, <3>1
      <4> QED
        BY <4>1, <4>2 DEF Granted
    <3>2. CASE a # req[c].asset
      BY <2>1, <2>2, <2>4, <2>5, <3>2, GrantsStay DEF Purging
    <3> QED
      BY <3>1, <3>2
  <2> QED
    BY <2>2, <2>5 DEF MovesNoLink
<1>4. ASSUME CreateItem(c) PROVE Good
  <2>1. /\ assets' = assets /\ policy' = policy /\ trash' = trash /\ req[c].at = "post item"
    BY <1>4 DEF CreateItem, At
  <2>2. /\ req'[c] = Idle /\ req[c].asset \in Asset
        /\ \A j \in Item : j # req[c].asset => items'[j] = items[j]
    BY <1>4, CreateItemType
  <2>3. \A s \in Symlink : Alike(s)
    BY <2>2, ItemKinds DEF Alike
  <2> QED
    BY <1>a, <2>1, <2>2, <2>3, IdleType DEF Purging
<1>5. ASSUME NEW x \in Item \cup Folder, NEW p \in Place, Move(c, x, p) PROVE Good
  <2>1. /\ assets' = assets /\ policy' = policy /\ items' = items /\ trash' = trash
        /\ req[c] = Idle
    BY <1>5 DEF Move, tree, Asked
  <2>2. ~(x \in Symlink /\ req'[c].changes) /\ req'[c].item = x
    BY <1>5, MoveType DEF Lawful
  <2>3. MovesNoLink(req[c])'
    BY <2>2 DEF MovesNoLink
  <2>4. ASSUME NEW a \in Asset, NEW g \in Group, assets'[a] \in Group PROVE Granted(req[c], a, g)'
    <3>1. \A s \in Symlink : Alike(s)
      BY <2>1 DEF Alike
    <3> QED
      BY <2>1, <2>4, <3>1, GrantsStay, IdleType DEF Purging
  <2> QED
    BY <2>3, <2>4
<1>6. ASSUME TreeMove(c) PROVE Good
  <2>1. /\ assets' = assets /\ policy' = policy /\ trash' = trash /\ req[c].at = "move"
    BY <1>6 DEF TreeMove, At
  <2>2. req'[c].at # "move"
    BY <1>6, TreeMoveType
  <2>3. ASSUME NEW s \in Symlink PROVE Alike(s)
    <3>1. CASE items' = items
      BY <3>1 DEF Alike
    <3>2. CASE Relocates(c) /\ s \notin MovedBy(c)
      BY <1>c, <3>2 DEF Alike, Relocates
    <3>3. CASE Relocates(c) /\ s \in MovedBy(c)
      <4>1. /\ items[s] # NoItem /\ items'[s] # NoItem
            /\ items'[s].asset = items[s].asset /\ items'[s].borrowed = items[s].borrowed
            /\ items'[s].group = GroupOf(req[c].place)
        BY <1>c, <3>3 DEF Relocates, IsItem
      <4>2. req[c].item \in Item /\ req[c].item = s
        <5>1. req[c].item \in Item \cup Folder
          BY <1>6, TreeMoveType
        <5>2. items[s].borrowed
          BY <4>1 DEF DocsInv
        <5> QED
          BY <3>3, <5>1, <5>2 DEF MovedBy, Follow
      <4>3. items[s].group = GroupOf(req[c].place)
        BY <2>1, <4>2, ItemKinds DEF Knows, Found, MovesNoLink
      <4> QED
        BY <4>1, <4>3 DEF Alike
    <3> QED
      BY <1>6, <3>1, <3>2, <3>3, TreeMoveType
  <2> QED
    BY <1>a, <2>1, <2>2, <2>3 DEF Purging
<1>7. ASSUME NEW a \in Asset, Sync(c, a) PROVE Good
  <2>1. /\ policy' = policy /\ items' = items /\ trash' = trash /\ req[c].at = "sync"
    BY <1>7 DEF Sync, tree, At
  <2>2. req'[c].at # "move" /\ \A b \in Asset : assets'[b] \in Group => assets[b] \in Group
    BY <1>7, SyncType, IdleType DEF Exists
  <2>3. \A s \in Symlink : Alike(s)
    BY <2>1 DEF Alike
  <2> QED
    BY <1>a, <2>1, <2>2, <2>3 DEF Purging
<1>8. ASSUME SyncEnds(c) PROVE Good
  <2>1. /\ assets' = assets /\ policy' = policy /\ items' = items /\ trash' = trash
        /\ req[c].at = "sync"
    BY <1>8 DEF SyncEnds, tree, At
  <2>2. req'[c].at # "move" /\ \A s \in Symlink : Alike(s)
    BY <1>8, <2>1, SyncEndsType, IdleType DEF Alike
  <2> QED
    BY <1>a, <2>1, <2>2 DEF Purging
<1>9. ASSUME NEW i \in Item, NEW p \in Place, NEW s \in Symlink,
              Borrow(c, i, p, s)
       PROVE  Good
  <2>1. /\ assets' = assets /\ policy' = policy /\ items' = items /\ trash' = trash
        /\ req[c] = Idle
    BY <1>9 DEF Borrow, tree, Asked
  <2>2. req'[c].at # "move"
    BY <1>9, BorrowType, IdleType
  <2> QED
    BY <1>b, <2>1, <2>2
<1>10. ASSUME TreeBorrow(c) PROVE Good
  <2>1. /\ assets' = assets /\ policy' = policy /\ trash' = trash /\ req[c].at = "borrow"
    BY <1>10 DEF TreeBorrow, At
  <2>2. req'[c].at # "move"
    BY <1>10, TreeBorrowType, IdleType
  <2>3. CASE items' = items
    <3>1. \A s \in Symlink : Alike(s)
      BY <2>3 DEF Alike
    <3> QED
      BY <1>a, <2>1, <2>2, <3>1 DEF Purging
  <2>4. CASE items' # items
    <3>1. /\ req[c].link \in Symlink /\ req[c].asset \in Asset
          /\ \A j \in Item : j # req[c].link => items'[j] = items[j]
          /\ items'[req[c].link] # NoItem /\ items'[req[c].link].asset = req[c].asset
          /\ items'[req[c].link].group = GroupOf(req[c].place)
      BY <1>10, <2>4, TreeBorrowType
    <3>2. /\ items[req[c].link] = NoItem /\ GroupOf(req[c].place) = req[c].to
          /\ req[c].changes = (policy[req[c].asset][req[c].to] = "none")
      BY <2>1 DEF Knows, Found
    <3>3. req[c].changes =>
            req'[c].at = "put policy" /\ req'[c].asset = req[c].asset /\ req'[c].to = req[c].to
      BY <1>10, <2>4, TreeBorrowType DEF Onwards
    <3>4. ASSUME NEW a \in Asset, NEW g \in Group, assets'[a] \in Group
          PROVE  Granted(req[c], a, g)'
      <4>1. Granted(req[c], a, g)
        BY <2>1, <3>4
      <4>2. Lends(a, g) => Lends(a, g)'
        BY <1>c, <3>1, <3>2 DEF Lends
      <4>3. policy'[a][g] # "none" => Lends(a, g)'
        BY <2>1, <4>1, <4>2 DEF Granted, Purging
      <4>4. CASE a = req[c].asset /\ g = req[c].to
        <5>1. \/ policy'[a][g] # "none"
              \/ req'[c].at = "put policy" /\ req'[c].asset = a /\ req'[c].to = g
          BY <2>1, <3>2, <3>3, <4>4
        <5> QED
          BY <4>3, <5>1 DEF Granted
      <4>5. CASE ~(a = req[c].asset /\ g = req[c].to)
        <5>1. ASSUME NEW s \in Lent(a, g)' PROVE s \in Lent(a, g)
          <6>1. s \in Symlink /\ s # req[c].link
            BY <3>1, <3>2, <4>5, <5>1 DEF Lent
          <6> QED
            BY <1>c, <2>1, <3>1, <5>1, <6>1 DEF Lent, IsItem
        <5>2. Lent(a, g)' # {} => policy'[a][g] # "none"
          BY <2>1, <4>1, <5>1 DEF Granted
        <5> QED
          BY <4>3, <5>2 DEF Granted
      <4> QED
        BY <4>4, <4>5
    <3> QED
      BY <2>2, <3>4 DEF MovesNoLink
  <2> QED
    BY <2>3, <2>4
<1>11. ASSUME PutPolicyOfBorrow(c) PROVE Good
  <2>1. /\ assets' = assets /\ items' = items /\ trash' = trash /\ req[c].at = "put policy"
    BY <1>11 DEF PutPolicyOfBorrow, tree, At
  <2>2. /\ req'[c] = Idle /\ req[c].asset \in Asset /\ req[c].to \in Group
        /\ req[c].link \in Symlink
        /\ \A b \in Asset, h \in Consumer :
             <<b, h>> # <<req[c].asset, req[c].to>> => policy'[b][h] = policy[b][h]
        /\ assets[req[c].asset] \in Group => policy'[req[c].asset][req[c].to] = "open"
    BY <1>11, PutPolicyOfBorrowType DEF Exists
  <2>3. Lends(req[c].asset, req[c].to)
    BY <2>1, <2>2 DEF Knows, Lends
  <2>4. ASSUME NEW a \in Asset, NEW g \in Group, assets'[a] \in Group PROVE Granted(req[c], a, g)'
    <3>1. Granted(req[c], a, g)
      BY <2>1, <2>4
    <3>2. (Lends(a, g)' <=> Lends(a, g)) /\ (Lent(a, g)' # {} => Lent(a, g) # {})
      BY <2>1, LinksAlike DEF Alike
    <3>3. CASE a = req[c].asset /\ g = req[c].to
      BY <2>1, <2>2, <2>3, <2>4, <3>2, <3>3 DEF Granted
    <3>4. CASE ~(a = req[c].asset /\ g = req[c].to)
      <4>1. policy'[a][g] = policy[a][g]
        BY <1>c, <2>2, <3>4
      <4> QED
        BY <2>1, <3>1, <3>2, <3>4, <4>1 DEF Granted, Purging
    <3> QED
      BY <3>3, <3>4
  <2> QED
    BY <2>2, <2>4, IdleType DEF MovesNoLink
<1>12. ASSUME NEW x \in Item \cup Folder, DeleteEntity(c, x) PROVE Good
  <2>1. /\ assets' = assets /\ policy' = policy /\ items' = items /\ trash \subseteq trash'
        /\ req[c] = Idle /\ req' = req
    BY <1>12 DEF DeleteEntity, tree, Asked
  <2> QED
    BY <1>b, <2>1, IdleType
<1>13. ASSUME NEW g \in Group, Purge(c, g) PROVE Good
  <2>1. /\ assets' = assets /\ policy' = policy /\ items' = items /\ trash' = trash
        /\ req[c] = Idle
    BY <1>13 DEF Purge, tree, Asked
  <2>2. req'[c].at # "move"
    BY <1>13, PurgeType, IdleType
  <2> QED
    BY <1>b, <2>1, <2>2
<1>14. ASSUME TreePurge(c) PROVE Good
  <2>1. assets' = assets /\ policy' = policy /\ req[c].at = "purge"
    BY <1>14 DEF TreePurge, At
  <2>2. /\ req'[c].at = "originals" /\ trash' = trash \ (GoneFrom(req[c].to) \cup FoldersOf(req[c].to))
        /\ \A i \in Item : items'[i] = IF i \in GoneFrom(req[c].to) THEN NoItem ELSE items[i]
        /\ req'[c].purged = {items[i] : i \in GoneFrom(req[c].to)}
        /\ req'[c].lent = {<<d.asset, d.group>> : d \in {d \in req'[c].purged : d.borrowed}}
    BY <1>14, TreePurgeType
  <2>3. ASSUME NEW a \in Asset, NEW g \in Group, assets'[a] \in Group PROVE Granted(req[c], a, g)'
    <3>1. Granted(req[c], a, g)
      BY <2>1, <2>3
    <3>2. ASSUME NEW s \in Lent(a, g)' PROVE s \in Lent(a, g)
      <4>1. s \in Symlink /\ s \in Item /\ s \notin FoldersOf(req[c].to)
        BY <3>2, ItemKinds DEF Lent, FoldersOf
      <4>2. s \notin GoneFrom(req[c].to) /\ items'[s] = items[s] /\ s \notin trash
        BY <2>2, <3>2, <4>1 DEF Lent, IsItem
      <4> QED
        BY <3>2, <4>1, <4>2 DEF Lent, IsItem
    <3>3. Lent(a, g)' # {} => policy'[a][g] # "none"
      BY <2>1, <3>1, <3>2 DEF Granted
    <3>4. ASSUME policy'[a][g] # "none"
          PROVE  Lends(a, g)' \/ <<a, g>> \in req'[c].lent
      <4>1. PICK s \in Symlink : items[s] # NoItem /\ items[s].asset = a /\ items[s].group = g
        BY <2>1, <3>1, <3>4 DEF Granted, Lends, Purging
      <4>2. CASE s \in GoneFrom(req[c].to)
        <5>1. items[s] \in req'[c].purged /\ items[s].borrowed
          BY <2>2, <4>1, <4>2 DEF DocsInv
        <5> QED
          BY <2>2, <4>1, <5>1
      <4>3. CASE s \notin GoneFrom(req[c].to)
        BY <1>c, <2>2, <4>1, <4>3 DEF Lends
      <4> QED
        BY <4>2, <4>3
    <3> QED
      BY <2>2, <3>3, <3>4 DEF Granted, Purging
  <2> QED
    BY <2>2, <2>3 DEF MovesNoLink
<1>15. ASSUME NEW a \in Asset, EraseRaw(c, a) PROVE Good
  <2>1. /\ assets' = assets /\ policy' = policy /\ items' = items /\ trash' = trash
        /\ req[c].at = "originals"
    BY <1>15 DEF EraseRaw, tree, At
  <2>2. req'[c].at = "asset" /\ req'[c].lent = req[c].lent
    BY <1>15, EraseRawType, IdleType DEF ToAsset
  <2>3. \A s \in Symlink : Alike(s)
    BY <2>1 DEF Alike
  <2> QED
    BY <1>a, <2>1, <2>2, <2>3 DEF Purging
<1>16. ASSUME NEW a \in Asset, SkipRaw(c, a) PROVE Good
  <2>1. /\ assets' = assets /\ policy' = policy /\ items' = items /\ trash' = trash
        /\ req[c].at = "originals"
    BY <1>16 DEF SkipRaw, tree, At
  <2>2. req'[c].at = "asset" /\ req'[c].lent = req[c].lent
    BY <1>16, SkipRawType, IdleType DEF ToAsset
  <2>3. \A s \in Symlink : Alike(s)
    BY <2>1 DEF Alike
  <2> QED
    BY <1>a, <2>1, <2>2, <2>3 DEF Purging
<1>17. ASSUME PurgeAsset(c) PROVE Good
  <2>1. items' = items /\ trash' = trash /\ req[c].at = "asset"
    BY <1>17 DEF PurgeAsset, tree, At
  <2>2. /\ req'[c].at = "originals" /\ req'[c].lent = req[c].lent /\ req[c].asset \in Asset
        /\ \A b \in Asset : b # req[c].asset => assets'[b] = assets[b]
    BY <1>17, PurgeAssetType
  <2>3. \A s \in Symlink : Alike(s)
    BY <2>1 DEF Alike
  <2>4. \/ Delete(req[c].asset)
        \/ policy' = policy /\ assets'[req[c].asset] \notin Group
    BY <1>17, PurgeAssetType DEF Lawful
  <2>5. \A a \in Asset, g \in Group : assets'[a] \in Group =>
          assets[a] \in Group /\ policy'[a][g] = policy[a][g]
    <3>1. CASE Delete(req[c].asset)
      BY <1>c, <2>2, <3>1, Deletes DEF TypeInv
    <3>2. CASE policy' = policy /\ assets'[req[c].asset] \notin Group
      BY <2>2, <3>2
    <3> QED
      BY <2>4, <3>1, <3>2
  <2> QED
    BY <1>a, <2>1, <2>2, <2>3, <2>5 DEF Purging
<1>18. ASSUME PurgeOriginalsEnd(c) PROVE Good
  <2>1. /\ assets' = assets /\ policy' = policy /\ items' = items /\ trash' = trash
        /\ req[c].at = "originals"
    BY <1>18 DEF PurgeOriginalsEnd, tree, At
  <2>2. req'[c].at = "lent" /\ req'[c].lent = req[c].lent
    BY <1>18, PurgeOriginalsEndType, IdleType DEF Onwards
  <2>3. \A s \in Symlink : Alike(s)
    BY <2>1 DEF Alike
  <2> QED
    BY <1>a, <2>1, <2>2, <2>3 DEF Purging
<1>19. ASSUME NEW a \in Asset, NEW g \in Group, PurgeLent(c, a, g) PROVE Good
  <2>1. assets' = assets /\ items' = items /\ trash' = trash /\ req[c].at = "lent"
    BY <1>19 DEF PurgeLent, tree, At
  <2>2. /\ req'[c].at = "lent" /\ req'[c].lent = req[c].lent \ {<<a, g>>}
        /\ \A b \in Asset, h \in Consumer : <<b, h>> # <<a, g>> => policy'[b][h] = policy[b][h]
        /\ Lent(a, g) = {} => policy'[a][g] = "none"
        /\ Lent(a, g) # {} => policy' = policy
    BY <1>19, PurgeLentType
  <2>3. ASSUME NEW b \in Asset, NEW h \in Group, assets'[b] \in Group PROVE Granted(req[c], b, h)'
    <3>1. Granted(req[c], b, h)
      BY <2>1, <2>3
    <3>2. (Lends(b, h)' <=> Lends(b, h)) /\ (Lent(b, h)' # {} => Lent(b, h) # {})
      BY <2>1, LinksAlike DEF Alike
    <3>3. CASE b = a /\ h = g /\ Lent(a, g) = {}
      BY <2>2, <3>2, <3>3 DEF Granted
    <3>4. CASE b = a /\ h = g /\ Lent(a, g) # {}
      <4>1. policy'[b][h] = policy[b][h] /\ policy[b][h] # "none"
        BY <2>1, <2>2, <3>1, <3>4 DEF Granted
      <4>2. Lends(b, h)
        BY <1>c, <3>4 DEF Lends, Lent, IsItem
      <4> QED
        BY <3>2, <4>1, <4>2 DEF Granted
    <3>5. CASE ~(b = a /\ h = g)
      <4>1. policy'[b][h] = policy[b][h] /\ (<<b, h>> \in req[c].lent => <<b, h>> \in req'[c].lent)
        BY <1>c, <2>2, <3>5
      <4> QED
        BY <2>1, <2>2, <3>1, <3>2, <4>1 DEF Granted, Purging
    <3> QED
      BY <3>3, <3>4, <3>5
  <2> QED
    BY <2>2, <2>3 DEF MovesNoLink
<1>20. ASSUME PurgeEnds(c) PROVE Good
  <2>1. /\ assets' = assets /\ policy' = policy /\ items' = items /\ trash' = trash
        /\ req[c].at = "lent" /\ req[c].lent = {}
    BY <1>20 DEF PurgeEnds, tree, At
  <2>2. req'[c].at = "idle"
    BY <1>20, PurgeEndsType, IdleType
  <2>3. \A s \in Symlink : Alike(s)
    BY <2>1 DEF Alike
  <2> QED
    BY <1>a, <2>1, <2>2, <2>3 DEF Purging
<1>21. ASSUME NEW a \in Asset, DeleteAsset(c, a) PROVE Good
  <2>1. items' = items /\ trash' = trash /\ req[c] = Idle /\ req' = req /\ Delete(a)
    BY <1>21 DEF DeleteAsset, tree, Asked
  <2>2. \A b \in Asset, g \in Group : assets'[b] \in Group =>
          assets[b] \in Group /\ policy'[b][g] = policy[b][g]
    BY <1>c, <2>1, Deletes DEF TypeInv
  <2> QED
    BY <1>b, <2>1, <2>2, IdleType
<1>22. ASSUME NEW a \in Asset, NEW purge \in BOOLEAN, DeleteRaw(c, a, purge) PROVE Good
  <2>1. /\ assets' = assets /\ policy' = policy /\ items' = items /\ trash' = trash
        /\ req[c] = Idle
    BY <1>22 DEF DeleteRaw, tree, Asked
  <2>2. req'[c].at = "erase" \/ req'[c] = Idle
    BY <1>22, DeleteRawType, Zenon
  <2>3. req'[c].at # "move"
    BY <2>2, IdleType
  <2> QED
    BY <1>b, <2>1, <2>3
<1>23. ASSUME EraseItems(c) PROVE Good
  <2>1. /\ assets' = assets /\ policy' = policy /\ trash' = trash /\ req[c].at = "erase"
    BY <1>23 DEF EraseItems, At
  <2>2. /\ req'[c].at = "delete asset" /\ req'[c].asset = req[c].asset
        /\ \A i \in Item : items'[i] = IF IsItem(i) /\ items[i].asset = req[c].asset THEN NoItem
                                       ELSE items[i]
    BY <1>23, EraseItemsType DEF Onwards
  <2>3. ASSUME NEW a \in Asset, NEW g \in Group, assets'[a] \in Group PROVE Granted(req[c], a, g)'
    <3>1. Granted(req[c], a, g)
      BY <2>1, <2>3
    <3>2. ASSUME NEW s \in Lent(a, g)' PROVE s \in Lent(a, g)
      BY <1>c, <2>1, <2>2, <3>2 DEF Lent, IsItem
    <3>3. Lent(a, g)' # {} => policy'[a][g] # "none"
      BY <2>1, <3>1, <3>2 DEF Granted
    <3>4. CASE a = req[c].asset
      BY <2>2, <3>3, <3>4 DEF Granted
    <3>5. CASE a # req[c].asset
      <4>1. Lends(a, g) => Lends(a, g)'
        BY <1>c, <2>2, <3>5 DEF Lends
      <4> QED
        BY <2>1, <3>1, <3>3, <4>1 DEF Granted, Purging
    <3> QED
      BY <3>4, <3>5
  <2> QED
    BY <2>2, <2>3 DEF MovesNoLink
<1>24. ASSUME EraseAsset(c) PROVE Good
  <2>1. items' = items /\ trash' = trash /\ req[c].at = "delete asset"
    BY <1>24 DEF EraseAsset, tree, At
  <2>2. /\ req'[c] = Idle /\ req[c].asset \in Asset /\ assets'[req[c].asset] \notin Group
        /\ \A b \in Asset : b # req[c].asset =>
             assets'[b] = assets[b] /\ \A g \in Consumer : policy'[b][g] = policy[b][g]
    BY <1>24, EraseAssetType
  <2>3. \A s \in Symlink : Alike(s)
    BY <2>1 DEF Alike
  <2>4. \A a \in Asset, g \in Group : assets'[a] \in Group =>
          assets[a] \in Group /\ policy'[a][g] = policy[a][g]
    BY <1>c, <2>2
  <2> QED
    BY <1>a, <2>1, <2>2, <2>3, <2>4, IdleType DEF Purging
<1>25. ASSUME NEW a \in Asset, NEW g \in Group, UpdateAsset(c, a, g) PROVE Good
  <2>1. /\ policy' = policy /\ items' = items /\ trash' = trash
        /\ req[c] = Idle /\ req' = req
    BY <1>25 DEF UpdateAsset, tree, Asked
  <2>2. \A b \in Asset : assets'[b] \in Group => assets[b] \in Group
    BY <1>25, UpdateAssetType DEF Exists
  <2> QED
    BY <1>b, <2>1, <2>2, IdleType
<1>26. ASSUME NEW a \in Asset, NEW consumer \in Consumer, NEW p \in Levels,
               SetPolicy(c, a, consumer, p)
        PROVE  Good
  BY <1>26, SetPolicyType DEF Lawful
<1>27. ASSUME Fails(c) PROVE Good
  BY <1>27, FailsType DEF Lawful
<1> QED
  BY <1>1, <1>2, <1>3, <1>4, <1>5, <1>6, <1>7, <1>8, <1>9, <1>10, <1>11, <1>12, <1>13,
     <1>14, <1>15, <1>16, <1>17, <1>18, <1>19, <1>20, <1>21, <1>22, <1>23, <1>24,
     <1>25, <1>26, <1>27 DEF Acts, Continues

\* So the invariant is kept.
LEMMA ActsPolicy ==
  ASSUME TypeInv, DocsInv, OneRequest, NEW c \in Client, Knows(c), PolicyInv(c), Acts(c)
  PROVE  PolicyInv(c)'
<1>1. Lawful' => Lawful
  BY LapsesGrow DEF Lawful
<1> QED
  BY <1>1, ActsGranted DEF PolicyInv, Exists

-----------------------------------------------------------------------------
(* The inductive invariant, and what it gives when no request is in progress *)

\* What is known of the request of c, if there is no other.
Accounts(c) == Knows(c) /\ PurgeInv(c) /\ OwnerInv(c) /\ PolicyInv(c)

Coherent == \A c \in Client : Sole(c) => Accounts(c)

IInv == TypeInv /\ DocsInv /\ KindInv /\ Alone /\ Coherent

\* Requests that are the same are accounted for alike.
LEMMA AccountsSame ==
  ASSUME NEW c \in Client, NEW d \in Client, req'[c] = req'[d], Accounts(c)'
  PROVE  Accounts(d)'
<1>1. Knows(d)'
  BY DEF Accounts, Knows
<1>2. PurgeInv(d)'
  BY DEF Accounts, PurgeInv
<1>3. OwnerInv(d)'
  BY DEF Accounts, OwnerInv, Held
<1>4. PolicyInv(d)'
  BY DEF Accounts, PolicyInv
<1> QED
  BY <1>1, <1>2, <1>3, <1>4 DEF Accounts

\* At first there is nothing to account for.
LEMMA InitCoherent == Init => IInv
<1> SUFFICES ASSUME Init PROVE IInv
  OBVIOUS
<1>1. TypeInv
  BY TypeInit
<1>2. /\ \A i \in Item : items[i] = NoItem
      /\ \A a \in Asset : assets[a] = NoGroup /\ assets[a] \notin Group
      /\ \A a \in Asset, g \in Consumer : policy[a][g] = "none"
      /\ \A c \in Client : req[c] = Idle
      /\ raw = {} /\ trash = {}
  BY GatewayAssumption DEF Init
<1>3. DocsInv
  BY <1>2, ItemKinds DEF DocsInv
<1>4. KindInv
  BY <1>2, IdleType DEF KindInv, Posting
<1>5. Alone
  BY <1>2, GatewayAssumption DEF Alone, Sole
<1>6. ASSUME NEW c \in Client PROVE Accounts(c)
  <2>1. Knows(c) /\ PurgeInv(c)
    BY <1>2, IdleType DEF Knows, PurgeInv, Purging
  <2>2. Held(c)
    BY <1>2, IdleType DEF Held, Leaving
  <2>3. \A a \in Asset : Owned(req[c], a)
    BY <1>2, ItemKinds DEF Owned
  <2>4. MovesNoLink(req[c]) /\ \A a \in Asset, g \in Group : ~Exists(a)
    BY <1>2, IdleType DEF MovesNoLink, Exists
  <2> QED
    BY <2>1, <2>2, <2>3, <2>4 DEF Accounts, OwnerInv, PolicyInv
<1> QED
  BY <1>1, <1>3, <1>4, <1>5, <1>6 DEF IInv, Coherent

\* The client that acts accounts for its request, and the others have none.
LEMMA CoherentStep ==
  ASSUME OneRequest
  PROVE  IInv /\ [Next]_vars => Coherent'
<1>1. ASSUME IInv, NEW c \in Client, Acts(c) PROVE Coherent'
  <2>1. TypeInv /\ DocsInv /\ KindInv /\ Alone /\ Coherent
    BY <1>1 DEF IInv
  <2>2. Sole(c) /\ Others(c)
    BY <1>1, <2>1, ActorIsSole, ActsOthers
  <2>3. Knows(c) /\ PurgeInv(c) /\ OwnerInv(c) /\ PolicyInv(c)
    BY <2>1, <2>2 DEF Coherent, Accounts
  <2>4. Knows(c)'
    BY <1>1, <2>1, <2>3, ActsKnows
  <2>5. PurgeInv(c)'
    BY <1>1, <2>1, <2>3, ActsPurge
  <2>6. OwnerInv(c)'
    BY <1>1, <2>1, <2>3, ActsOwner
  <2>7. PolicyInv(c)'
    BY <1>1, <2>1, <2>3, ActsPolicy
  <2>8. Accounts(c)'
    BY <2>4, <2>5, <2>6, <2>7 DEF Accounts
  <2>9. ASSUME NEW d \in Client, Sole(d)' PROVE Accounts(d)'
    <3>1. CASE d = c
      BY <2>8, <3>1
    <3>2. CASE d # c
      <4>1. req'[d] = Idle /\ req'[c] = Idle
        BY <2>2, <2>9, <3>2 DEF Sole, Others
      <4> QED
        BY <2>8, <4>1, AccountsSame
    <3> QED
      BY <3>1, <3>2
  <2> QED
    BY <2>9 DEF Coherent
<1>2. ASSUME Coherent, UNCHANGED vars PROVE Coherent'
  <2>1. /\ assets' = assets /\ policy' = policy /\ kind' = kind /\ raw' = raw /\ items' = items
        /\ home' = home /\ trash' = trash /\ req' = req /\ lapses' = lapses
    BY <1>2 DEF vars, tree
  <2>2. ASSUME NEW c \in Client, Sole(c)' PROVE Accounts(c)'
    <3>1. Knows(c) /\ PurgeInv(c) /\ OwnerInv(c) /\ PolicyInv(c)
      BY <1>2, <2>1, <2>2 DEF Coherent, Accounts, Sole
    <3>2. Knows(c)'
      BY <2>1, <3>1 DEF Knows, Found, Absent, IsFolder, IsItem, GroupOf
    <3>3. PurgeInv(c)'
      BY <2>1, <3>1 DEF PurgeInv, Settled, Leaving, Lent, IsItem
    <3>4. OwnerInv(c)'
      BY <2>1, <3>1 DEF OwnerInv, Kept, Held, Owned, Leaving
    <3>5. PolicyInv(c)'
      <4>1. (Lawful' <=> Lawful) /\ (MovesNoLink(req[c])' <=> MovesNoLink(req[c]))
        BY <2>1 DEF Lawful, MovesNoLink
      <4>2. ASSUME NEW a \in Asset, NEW g \in Group, Granted(req[c], a, g)
            PROVE  Granted(req[c], a, g)'
        <5>1. (Lends(a, g)' <=> Lends(a, g)) /\ Lent(a, g)' = Lent(a, g)
          BY <2>1 DEF Lends, Lent, IsItem
        <5> QED
          BY <2>1, <4>2, <5>1 DEF Granted
      <4> QED
        BY <2>1, <3>1, <4>1, <4>2 DEF PolicyInv, Exists
    <3> QED
      BY <3>2, <3>3, <3>4, <3>5 DEF Accounts
  <2> QED
    BY <2>2 DEF Coherent
<1> QED
  BY <1>1, <1>2 DEF IInv, Next, Acts

\* So the services stay coherent.
LEMMA CoherentAlways ==
  ASSUME OneRequest
  PROVE  Spec => []IInv
<1>1. Init => IInv
  BY InitCoherent
<1>2. IInv /\ [Next]_vars => IInv'
  BY TypeStep, DocsStep, KindStep, AloneStep, CoherentStep DEF IInv
<1> QED
  BY <1>1, <1>2, PTL DEF Spec

\* When no request is in progress, every client is the only one that may have one.
LEMMA QuietAccounts ==
  ASSUME IInv, Quiet
  PROVE  \E c \in Client : req[c] = Idle /\ OwnerInv(c) /\ PolicyInv(c)
<1>1. PICK c \in Client : Sole(c)
  BY DEF IInv, Alone
<1> QED
  BY <1>1 DEF IInv, Coherent, Accounts, Quiet

\* With one request at a time, an asset belongs to the group its original item is in,
\* whatever is moved, deleted or purged.
THEOREM OwnerFollows ==
  ASSUME OneRequest
  PROVE  Spec => []OwnerFollowsItem
<1>1. IInv => OwnerFollowsItem
  <2> SUFFICES ASSUME IInv, Quiet, Kept, NEW a \in Asset, items[a] # NoItem
               PROVE  assets[a] = items[a].group
    BY DEF OwnerFollowsItem, Kept
  <2>1. PICK c \in Client : req[c] = Idle /\ OwnerInv(c)
    BY QuietAccounts
  <2>2. Owned(req[c], a)
    BY <2>1 DEF OwnerInv
  <2> QED
    BY <2>1, <2>2, IdleType DEF Owned
<1> QED
  BY <1>1, CoherentAlways, PTL

\* With one request at a time, raw data has its asset, policies their asset, and an asset
\* its original item.
THEOREM NothingIsLeft ==
  ASSUME OneRequest
  PROVE  Spec => []NothingLeftBehind
<1>1. IInv => NothingLeftBehind
  <2> SUFFICES ASSUME IInv, Quiet, Kept, NEW a \in Asset
               PROVE  /\ a \in raw => Exists(a)
                      /\ Exists(a) => items[a] # NoItem
                      /\ ~Exists(a) => \A g \in Consumer : policy[a][g] = "none"
    BY DEF NothingLeftBehind, Kept
  <2>1. PICK c \in Client : req[c] = Idle /\ OwnerInv(c)
    BY QuietAccounts
  <2>2. Owned(req[c], a)
    BY <2>1 DEF OwnerInv
  <2> QED
    BY <2>1, <2>2, IdleType DEF Owned, Leaving, Exists
<1> QED
  BY <1>1, CoherentAlways, PTL

\* With one request at a time, what is borrowed in a group can be accessed there, and the
\* access does not outlive the symlinks.
THEOREM AccessFollowsSymlinks ==
  ASSUME OneRequest
  PROVE  Spec => []PoliciesFollowSymlinks
<1>1. IInv => PoliciesFollowSymlinks
  <2> SUFFICES ASSUME IInv, Quiet, Lawful, NEW a \in Asset, NEW g \in Group, Exists(a)
               PROVE  /\ Lent(a, g) # {} => policy[a][g] # "none"
                      /\ policy[a][g] # "none" =>
                           \E s \in Symlink : /\ items[s] # NoItem
                                              /\ items[s].asset = a /\ items[s].group = g
    BY DEF PoliciesFollowSymlinks, Lawful
  <2>1. PICK c \in Client : req[c] = Idle /\ PolicyInv(c)
    BY QuietAccounts
  <2>2. Granted(req[c], a, g)
    BY <2>1 DEF PolicyInv
  <2> QED
    BY <2>1, <2>2, IdleType DEF Granted, Purging, Lends
<1> QED
  BY <1>1, CoherentAlways, PTL

\* With one request at a time, a purge that answers without an error has left nothing of
\* what it removed from the tree, whatever failed or was deleted before.
THEOREM PurgesAreComplete ==
  ASSUME OneRequest
  PROVE  Spec => PurgeIsComplete
<1>1. ASSUME IInv, NEW c \in Client, PurgeEnds(c), req[c].errors = {}, NEW d \in req[c].purged
      PROVE  IF d.borrowed
               THEN policy'[d.asset][d.group] = "none" \/ Lent(d.asset, d.group) # {}
               ELSE ~Exists(d.asset) /\ d.asset \notin raw
  <2>1. Acts(c)
    BY <1>1 DEF Acts, Continues
  <2>2. TypeInv /\ PurgeInv(c)
    BY <1>1, <2>1, ActorIsSole DEF IInv, Coherent, Accounts
  <2> QED
    BY <1>1, <2>2, PurgeSettles
<1>2. IInv =>
        [\A c \in Client :
           PurgeEnds(c) /\ req[c].errors = {} =>
             \A d \in req[c].purged :
               IF d.borrowed
                 THEN policy'[d.asset][d.group] = "none" \/ Lent(d.asset, d.group) # {}
                 ELSE ~Exists(d.asset) /\ d.asset \notin raw]_vars
  BY <1>1
<1> QED
  BY <1>2, CoherentAlways, PTL DEF PurgeIsComplete
=================================================================================
