-------------------------------- MODULE Gateway --------------------------------
(***************************************************************************)
(* The assets gateway (backends/assets_gateway), which keeps three         *)
(* services together: the explorer (tree_db), the assets with their access *)
(* policies (backends/assets), and the raw data of the assets.             *)
(*                                                                         *)
(* An action is a call to one of the services, which is atomic here: what  *)
(* happens inside tree_db is the subject of TreeDb.  A group has one drive *)
(* with one top folder that stays, denoted by the group; other folders     *)
(* hold items only.  Groups have no subgroups.                             *)
(***************************************************************************)
EXTENDS Naturals, FiniteSets

CONSTANTS
  Asset,        \* assets, and their original items, which have the same ids
  Symlink,      \* ids of borrowed items
  Group, Folder, Client,
  Member,       \* the groups of each client
  Ops,          \* the operations asked for
  Levels,       \* the policies asked for
  MaxRequests,  \* bound: requests in progress
  MaxLapses,    \* bound: the lapses of a behaviour, of different kinds
  Everyone, NoGroup, NoItem

OpNames == {"asset", "folder", "move", "borrow", "delete", "purge", "delete asset",
            "delete raw", "update", "policy"}

\* "none": no document; the others: read and share forbidden, read, read and share.
Policies == {"none", "closed", "read", "open"}

Item     == Asset \cup Symlink
Place    == Group \cup Folder
Consumer == Group \cup {Everyone}

\* The documents of items in the explorer.
Items == [asset : Asset, place : Place, group : Group, borrowed : BOOLEAN]

ASSUME GatewayAssumption ==
  /\ Asset \cap Symlink = {} /\ Ops \subseteq OpNames
  /\ Member \in [Client -> SUBSET Group] /\ MaxRequests \in Nat /\ MaxLapses \in Nat
  /\ Levels \subseteq Policies
  /\ Item \cap Place = {} /\ Group \cap Folder = {}
  /\ NoGroup \notin Group /\ Everyone \notin Group /\ NoItem \notin Items
  /\ IsFiniteSet(Client) /\ Client # {}

VARIABLES
  assets,    \* assets_db: the owning group of each asset
  policy,    \* access_policy: what a group, or everyone, may do with an asset
  kind,      \* kinds of the assets created; ids are drawn, and not again
  raw,       \* the assets whose raw data exists
  items,     \* items_db, and the items of deleted_db
  home,      \* folders_db, and the folders of deleted_db: their groups
  trash,     \* deleted_db
  req,       \* what each request is doing
  lapses     \* what has happened that the services do not make up for

tree  == <<items, home, trash>>
vars  == <<assets, policy, kind, raw, tree, req, lapses>>

\* affiliated: with raw data that the gateway knows how to erase.
Kinds == {"none", "affiliated", "other"}

Lapses == {"failure", "symlink moved", "asset deleted", "raw deleted", "regrouped",
           "policy put", "policy deleted"}

Steps == {"idle", "post asset", "post item", "move", "sync", "borrow", "put policy",
          "purge", "originals", "asset", "lent", "delete asset", "erase"}

\* to: the group read for the destination, or of the drive; todo: assets to be
\* regrouped, or to be deleted; purged: the items a purge has removed.
Requests ==
  [at : Steps, item : Item \cup Folder \cup {NoItem}, place : Place \cup {NoGroup},
   to : Group \cup {NoGroup}, changes : BOOLEAN, link : Symlink \cup {NoItem},
   asset : Asset \cup {NoItem}, todo : SUBSET Asset, lent : SUBSET (Asset \X Group),
   purged : SUBSET Items, errors : SUBSET Asset]

Idle == [at |-> "idle", item |-> NoItem, place |-> NoGroup, to |-> NoGroup,
         changes |-> FALSE, link |-> NoItem, asset |-> NoItem, todo |-> {},
         lent |-> {}, purged |-> {}, errors |-> {}]

TypeOK ==
  /\ assets \in [Asset -> Group \cup {NoGroup}]
  /\ policy \in [Asset -> [Consumer -> Policies]]
  /\ kind \in [Asset -> Kinds]
  /\ \A a \in raw : kind[a] = "affiliated"
  /\ items \in [Item -> Items \cup {NoItem}]
  /\ home \in [Folder -> Group \cup {NoGroup}]
  /\ \A x \in trash : \/ x \in Item /\ items[x] # NoItem
                      \/ x \in Folder /\ home[x] # NoGroup
  /\ req \in [Client -> Requests]
  /\ lapses \subseteq Lapses

Init ==
  /\ assets = [a \in Asset |-> NoGroup]
  /\ policy = [a \in Asset |-> [g \in Consumer |-> "none"]]
  /\ kind = [a \in Asset |-> "none"] /\ raw = {}
  /\ items = [i \in Item |-> NoItem]
  /\ home = [f \in Folder |-> NoGroup]
  /\ trash = {}
  /\ req = [c \in Client |-> Idle]
  /\ lapses = {}

-----------------------------------------------------------------------------
(* The services *)

\* Mutant: the documents of deleted_db are found too.
IsAnyItem(i) == i \in Item /\ items[i] # NoItem

\* Documents of items_db and folders_db; an item in a deleted folder is one.
IsItem(i) == i \in Item /\ items[i] # NoItem /\ i \notin trash
IsFolder(p) == IF p \in Group THEN TRUE ELSE home[p] # NoGroup /\ p \notin trash

GroupOf(p) == IF p \in Group THEN p ELSE home[p]

Exists(a) == assets[a] \in Group

Owns(c, a) == Exists(a) /\ assets[a] \in Member[c]

\* get_permissions_implementation: what c may share.  The default policy counts if it
\* is open, and only then; of the others, one must let read and one share.
MayShare(c, a) ==
  \/ Owns(c, a)
  \/ policy[a][Everyone] = "open"
  \/ \E g \in Member[c] : policy[a][g] = "open"

NoPolicyOf(a) == [policy EXCEPT ![a] = [g \in Consumer |-> "none"]]

\* Mutant: the policies stay.
DeleteDocument(a) ==
  /\ assets' = [assets EXCEPT ![a] = NoGroup]
  /\ UNCHANGED policy

\* delete_asset of the assets service: the document, then the policies.
Delete(a) ==
  /\ assets' = [assets EXCEPT ![a] = NoGroup]
  /\ policy' = NoPolicyOf(a)

PostItem(i, a, p, borrowed) ==
  items' = [items EXCEPT ![i] = [asset |-> a, place |-> p, group |-> GroupOf(p),
                                 borrowed |-> borrowed]]

-----------------------------------------------------------------------------
(* Requests *)

Becomes(c, r) == req' = [req EXCEPT ![c] = r]

Goto(c, step) == Becomes(c, [req[c] EXCEPT !.at = step])

Finish(c) == Becomes(c, Idle)

At(c, step) == req[c].at = step

Asked(c, op) ==
  /\ req[c] = Idle /\ op \in Ops
  /\ Cardinality({d \in Client : req[d] # Idle}) < MaxRequests

Allows(lapse) ==
  /\ lapse \notin lapses /\ Cardinality(lapses) < MaxLapses
  /\ lapses' = lapses \cup {lapse}

\* A folder of the explorer, in the top folder of group g.
CreateFolder(c, f, g) ==
  /\ Asked(c, "folder") /\ g \in Member[c] /\ home[f] = NoGroup
  /\ home' = [home EXCEPT ![f] = g]
  /\ UNCHANGED <<assets, policy, kind, raw, items, trash, req, lapses>>

\* The raw data (a story, a project, a file); then create_asset finds the folder.
CreateRaw(c, a, k, p) ==
  /\ Asked(c, "asset") /\ kind[a] = "none"
  /\ kind' = [kind EXCEPT ![a] = k]
  /\ raw' = IF k = "affiliated" THEN raw \cup {a} ELSE raw
  /\ IF IsFolder(p) /\ GroupOf(p) \in Member[c]
       THEN Becomes(c, [Idle EXCEPT !.at = "post asset", !.asset = a, !.place = p,
                                    !.to = GroupOf(p)])
            /\ UNCHANGED lapses
       ELSE Finish(c) /\ Allows("failure")
  /\ UNCHANGED <<assets, policy, tree>>

PostAsset(c) ==
  /\ At(c, "post asset")
  /\ assets' = [assets EXCEPT ![req[c].asset] = req[c].to]
  /\ Goto(c, "post item")
  /\ UNCHANGED <<policy, kind, raw, tree, lapses>>

CreateItem(c) ==
  /\ At(c, "post item")
  /\ IF IsFolder(req[c].place)
       THEN PostItem(req[c].asset, req[c].asset, req[c].place, FALSE)
       ELSE UNCHANGED items
  /\ Finish(c)
  /\ UNCHANGED <<assets, policy, kind, raw, home, trash, lapses>>

\* x: an item or a folder.  A symlink is accepted.
Move(c, x, p) ==
  /\ Asked(c, "move") /\ IsFolder(p)
  /\ IF x \in Folder THEN IsFolder(x) /\ p \in Group ELSE IsItem(x)
  /\ LET from == IF x \in Folder THEN home[x] ELSE items[x].group
     IN /\ {from, GroupOf(p)} \subseteq Member[c]
        /\ Becomes(c, [Idle EXCEPT !.at = "move", !.item = x, !.place = p,
                                   !.to = GroupOf(p), !.changes = from # GroupOf(p)])
        /\ IF x \in Symlink /\ from # GroupOf(p)
             THEN Allows("symlink moved") ELSE UNCHANGED lapses
  /\ UNCHANGED <<assets, policy, kind, raw, tree>>

\* The items of a folder that changes group follow it, the borrowed ones excepted.
Follow(x, g) ==
  IF x \in Item THEN {x}
  ELSE IF home[x] = g THEN {}
  ELSE {i \in Item : IsItem(i) /\ items[i].place = x /\ ~items[i].borrowed}

\* Mutant: the assets of the items of a folder are forgotten.
RegroupItem(x, moved) == IF x \in Item THEN {items[x].asset} ELSE {}

\* "In this path (change in owning group)": the assets of the items moved.
Regroup(x, moved) == {items[i].asset : i \in moved}

TreeMove(c) ==
  /\ At(c, "move")
  /\ LET x == req[c].item
         p == req[c].place
         moved == Follow(x, GroupOf(p))
     IN IF IsFolder(p) /\ (IF x \in Folder THEN IsFolder(x) ELSE IsItem(x))
          THEN /\ items' = [i \in Item |->
                    IF i \notin moved THEN items[i]
                    ELSE [items[i] EXCEPT !.group = GroupOf(p),
                                          !.place = IF i = x THEN p ELSE @]]
               /\ home' = IF x \in Folder THEN [home EXCEPT ![x] = GroupOf(p)] ELSE home
               /\ IF req[c].changes
                    THEN Becomes(c, [req[c] EXCEPT !.at = "sync", !.todo = Regroup(x, moved)])
                    ELSE Finish(c)
          ELSE Finish(c) /\ UNCHANGED <<items, home>>
  /\ UNCHANGED <<assets, policy, kind, raw, trash, lapses>>

\* One of the assets moved takes its new group; the request ends at a missing one.
Sync(c, a) ==
  /\ At(c, "sync") /\ a \in req[c].todo
  /\ IF Exists(a)
       THEN /\ assets' = [assets EXCEPT ![a] = req[c].to]
            /\ Becomes(c, [req[c] EXCEPT !.todo = @ \ {a}])
       ELSE Finish(c) /\ UNCHANGED assets
  /\ UNCHANGED <<policy, kind, raw, tree, lapses>>

SyncEnds(c) ==
  /\ At(c, "sync") /\ req[c].todo = {}
  /\ Finish(c)
  /\ UNCHANGED <<assets, policy, kind, raw, tree, lapses>>

\* changes: no policy has been found for the destination's group.
Borrow(c, i, p, s) ==
  /\ Asked(c, "borrow") /\ IsItem(i) /\ IsFolder(p) /\ items[s] = NoItem
  /\ GroupOf(p) \in Member[c]
  /\ Exists(items[i].asset) /\ MayShare(c, items[i].asset)
  /\ Becomes(c, [Idle EXCEPT !.at = "borrow", !.item = i, !.place = p, !.link = s,
                             !.asset = items[i].asset, !.to = GroupOf(p),
                             !.changes = policy[items[i].asset][GroupOf(p)] = "none"])
  /\ UNCHANGED <<assets, policy, kind, raw, tree, lapses>>

TreeBorrow(c) ==
  /\ At(c, "borrow")
  /\ IF IsItem(req[c].item) /\ IsFolder(req[c].place)
       THEN /\ PostItem(req[c].link, req[c].asset, req[c].place, TRUE)
            /\ IF req[c].changes THEN Goto(c, "put policy") ELSE Finish(c)
       ELSE Finish(c) /\ UNCHANGED items
  /\ UNCHANGED <<assets, policy, kind, raw, home, trash, lapses>>

PutPolicyOfBorrow(c) ==
  /\ At(c, "put policy")
  /\ policy' = IF Exists(req[c].asset)
                 THEN [policy EXCEPT ![req[c].asset][req[c].to] = "open"] ELSE policy
  /\ Finish(c)
  /\ UNCHANGED <<assets, kind, raw, tree, lapses>>

\* queue_delete_item, queue_delete_folder
DeleteEntity(c, x) ==
  /\ Asked(c, "delete")
  /\ IF x \in Folder THEN IsFolder(x) /\ home[x] \in Member[c]
                     ELSE IsItem(x) /\ items[x].group \in Member[c]
  /\ trash' = trash \cup {x}
  /\ UNCHANGED <<assets, policy, kind, raw, items, home, req, lapses>>

-----------------------------------------------------------------------------
(* purge_drive *)

Purge(c, g) ==
  /\ Asked(c, "purge") /\ g \in Member[c]
  /\ Becomes(c, [Idle EXCEPT !.at = "purge", !.to = g])
  /\ UNCHANGED <<assets, policy, kind, raw, tree, lapses>>

\* Entries are in the trash of the drive they were in; folders take their items along.
TreePurge(c) ==
  /\ At(c, "purge")
  /\ LET g == req[c].to
         folders == {f \in Folder \cap trash : home[f] = g}
         gone == {i \in Item : /\ items[i] # NoItem
                               /\ \/ i \in trash /\ items[i].group = g
                                  \/ i \notin trash /\ items[i].place \in folders}
         docs == {items[i] : i \in gone}
     IN /\ items' = [i \in Item |-> IF i \in gone THEN NoItem ELSE items[i]]
        /\ home' = [f \in Folder |-> IF f \in folders THEN NoGroup ELSE home[f]]
        /\ trash' = trash \ (gone \cup folders)
        /\ Becomes(c, [req[c] EXCEPT
             !.at = "originals", !.purged = docs,
             !.todo = {d.asset : d \in {d \in docs : ~d.borrowed}},
             !.lent = {<<d.asset, d.group>> : d \in {d \in docs : d.borrowed}}])
  /\ UNCHANGED <<assets, policy, kind, raw, lapses>>

\* A call is refused, or fails.
Error(refused) == (refused /\ UNCHANGED lapses) \/ Allows("failure")

\* The erasure of the raw data of a checks that c may write a.  Errors are collected.
EraseRaw(c, a) ==
  /\ At(c, "originals") /\ a \in req[c].todo /\ kind[a] = "affiliated"
  /\ LET possible == Owns(c, a) /\ a \in raw
         next == [req[c] EXCEPT !.at = "asset", !.asset = a, !.todo = @ \ {a}]
     IN \/ /\ possible /\ raw' = raw \ {a}
           /\ Becomes(c, next)
           /\ UNCHANGED lapses
        \/ /\ Error(~possible)
           /\ raw' \in {raw, IF possible THEN raw \ {a} ELSE raw}
           /\ Becomes(c, [next EXCEPT !.errors = @ \cup {a}])
  /\ UNCHANGED <<assets, policy, kind, tree>>

\* An asset affiliated to no backend.
SkipRaw(c, a) ==
  /\ At(c, "originals") /\ a \in req[c].todo /\ kind[a] = "other"
  /\ Becomes(c, [req[c] EXCEPT !.at = "asset", !.asset = a, !.todo = @ \ {a}])
  /\ UNCHANGED <<assets, policy, kind, raw, tree, lapses>>

\* Mutant: the errors of the raw data only are kept.
CollectRawOnly(r, a) == r

Collect(r, a) == [r EXCEPT !.errors = @ \cup {a}]

\* It fails before or after the document is deleted; the policies stay.
PurgeAsset(c) ==
  /\ At(c, "asset")
  /\ LET a == req[c].asset
         next == [req[c] EXCEPT !.at = "originals", !.asset = NoItem]
     IN \/ /\ Exists(a) /\ Delete(a)
           /\ Becomes(c, next)
           /\ UNCHANGED lapses
        \/ /\ Error(~Exists(a))
           /\ assets' \in {assets, [assets EXCEPT ![a] = NoGroup]}
           /\ Becomes(c, Collect(next, a))
           /\ UNCHANGED policy
  /\ UNCHANGED <<kind, raw, tree>>

PurgeOriginalsEnd(c) ==
  /\ At(c, "originals") /\ req[c].todo = {}
  /\ Goto(c, "lent")
  /\ UNCHANGED <<assets, policy, kind, raw, tree, lapses>>

Lent(a, g) ==
  {s \in Symlink : IsItem(s) /\ items[s].asset = a /\ items[s].group = g /\ items[s].borrowed}

\* Mutant: the policy goes with the first symlink purged.
PurgeLentAnyway(c, a, g) ==
  /\ At(c, "lent") /\ <<a, g>> \in req[c].lent
  /\ policy' = [policy EXCEPT ![a][g] = "none"]
  /\ Becomes(c, [req[c] EXCEPT !.lent = @ \ {<<a, g>>}])
  /\ UNCHANGED <<assets, kind, raw, tree, lapses>>

\* The policy stays as long as items_db has a symlink of the asset in the group.
PurgeLent(c, a, g) ==
  /\ At(c, "lent") /\ <<a, g>> \in req[c].lent
  /\ policy' = IF Lent(a, g) = {} THEN [policy EXCEPT ![a][g] = "none"] ELSE policy
  /\ Becomes(c, [req[c] EXCEPT !.lent = @ \ {<<a, g>>}])
  /\ UNCHANGED <<assets, kind, raw, tree, lapses>>

\* 500 with the errors, if any.
PurgeEnds(c) ==
  /\ At(c, "lent") /\ req[c].lent = {}
  /\ Finish(c)
  /\ UNCHANGED <<assets, policy, kind, raw, tree, lapses>>

-----------------------------------------------------------------------------
(* Deletions and updates of assets *)

\* delete_asset of the gateway: the explorer is left as it is.
DeleteAsset(c, a) ==
  /\ Asked(c, "delete asset") /\ Owns(c, a)
  /\ Delete(a)
  /\ Allows("asset deleted")
  /\ UNCHANGED <<kind, raw, tree, req>>

\* delete_story, delete_project, remove_file; with purge, the rest follows.
DeleteRaw(c, a, purge) ==
  /\ Asked(c, "delete raw") /\ Owns(c, a) /\ a \in raw
  /\ raw' = raw \ {a}
  /\ Becomes(c, IF purge THEN [Idle EXCEPT !.at = "erase", !.asset = a] ELSE Idle)
  /\ IF ~purge THEN Allows("raw deleted")
     ELSE IF \E i \in trash \cap Item : items[i].asset = a THEN Allows("asset deleted")
     ELSE UNCHANGED lapses
  /\ UNCHANGED <<assets, policy, kind, tree>>

\* common.delete_asset erases the items of the asset, not those in the trash.
EraseItems(c) ==
  /\ At(c, "erase")
  /\ items' = [i \in Item |-> IF IsItem(i) /\ items[i].asset = req[c].asset THEN NoItem
                              ELSE items[i]]
  /\ Goto(c, "delete asset")
  /\ UNCHANGED <<assets, policy, kind, raw, home, trash, lapses>>

EraseAsset(c) ==
  /\ At(c, "delete asset")
  /\ IF Exists(req[c].asset) THEN Delete(req[c].asset) ELSE UNCHANGED <<assets, policy>>
  /\ Finish(c)
  /\ UNCHANGED <<kind, raw, tree, lapses>>

\* post_asset, with a group or a default policy.
UpdateAsset(c, a, g) ==
  /\ Asked(c, "update") /\ Owns(c, a)
  /\ g \in Member[c] \ {assets[a]}
  /\ assets' = [assets EXCEPT ![a] = g]
  /\ Allows("regrouped")
  /\ UNCHANGED <<policy, kind, raw, tree, req>>

SetPolicy(c, a, consumer, p) ==
  /\ Asked(c, "policy") /\ Owns(c, a) /\ policy[a][consumer] # p
  /\ p # "none" \/ consumer # Everyone
  /\ policy' = [policy EXCEPT ![a][consumer] = p]
  /\ Allows(IF p = "none" THEN "policy deleted" ELSE "policy put")
  /\ UNCHANGED <<assets, kind, raw, tree, req>>

\* A call fails, and nothing catches it.
Fails(c) ==
  /\ req[c].at \in Steps \ {"idle", "originals", "asset"}
  /\ Allows("failure") /\ Finish(c)
  /\ UNCHANGED <<assets, policy, kind, raw, tree>>

Continues(c) ==
  \/ PostAsset(c) \/ CreateItem(c)
  \/ TreeMove(c) \/ (\E a \in Asset : Sync(c, a)) \/ SyncEnds(c)
  \/ TreeBorrow(c) \/ PutPolicyOfBorrow(c)
  \/ TreePurge(c) \/ (\E a \in Asset : EraseRaw(c, a) \/ SkipRaw(c, a)) \/ PurgeAsset(c)
  \/ PurgeOriginalsEnd(c) \/ (\E a \in Asset, g \in Group : PurgeLent(c, a, g)) \/ PurgeEnds(c)
  \/ EraseItems(c) \/ EraseAsset(c) \/ Fails(c)

Next ==
  \E c \in Client :
    \/ Continues(c)
    \/ \E f \in Folder, g \in Group : CreateFolder(c, f, g)
    \/ \E p \in Place :
         \/ \E a \in Asset, k \in Kinds \ {"none"} : CreateRaw(c, a, k, p)
         \/ \E x \in Item \cup Folder : Move(c, x, p)
         \/ \E i \in Item, s \in Symlink : Borrow(c, i, p, s)
    \/ \E x \in Item \cup Folder : DeleteEntity(c, x)
    \/ \E g \in Group : Purge(c, g)
    \/ \E a \in Asset :
         \/ DeleteAsset(c, a)
         \/ \E purge \in BOOLEAN : DeleteRaw(c, a, purge)
         \/ \E g \in Group : UpdateAsset(c, a, g)
         \/ \E consumer \in Consumer, p \in Levels : SetPolicy(c, a, consumer, p)

Spec == Init /\ [][Next]_vars

-----------------------------------------------------------------------------
(* Properties *)

Quiet == \A c \in Client : req[c] = Idle

\* Whatever is moved, an asset belongs to the group its original item is in, in the
\* tree or in the trash: moves keep the two services together, folder after folder.
OwnerFollowsItem ==
  Quiet /\ lapses \cap {"failure", "symlink moved", "asset deleted", "regrouped"} = {} =>
    \A a \in Asset : items[a] # NoItem => assets[a] = items[a].group

\* Nothing outlives what it belongs to: raw data its asset, policies their asset, an
\* asset its original item.
NothingLeftBehind ==
  Quiet /\ lapses \cap {"failure", "asset deleted", "symlink moved", "regrouped"} = {} =>
    \A a \in Asset :
      /\ a \in raw => Exists(a)
      /\ Exists(a) => items[a] # NoItem
      /\ ~Exists(a) => \A g \in Consumer : policy[a][g] = "none"

\* What is borrowed in a group can be accessed there, and the access that borrowing
\* gave does not outlive the symlinks: a purge removes it with the last one.
PoliciesFollowSymlinks ==
  Quiet /\ lapses \cap {"failure", "symlink moved", "policy put", "policy deleted"} = {} =>
    \A a \in Asset, g \in Group :
      Exists(a) =>
        /\ Lent(a, g) # {} => policy[a][g] # "none"
        /\ policy[a][g] # "none" =>
             \E s \in Symlink : /\ items[s] # NoItem
                                /\ items[s].asset = a /\ items[s].group = g

\* A purge that answers without an error has left nothing of what it removed from the
\* tree, whatever failed or was deleted before: no asset, no raw data, no access.
PurgeIsComplete ==
  [][\A c \in Client :
       PurgeEnds(c) /\ req[c].errors = {} =>
         \A d \in req[c].purged :
           IF d.borrowed
             THEN policy'[d.asset][d.group] = "none" \/ Lent(d.asset, d.group) # {}
             ELSE ~Exists(d.asset) /\ d.asset \notin raw]_vars
=============================================================================
