------------------------------ MODULE DirBTree ------------------------------
(***************************************************************************)
(* DirBTree.cpp: the index from file names to metadata objects, a B-tree   *)
(* whose nodes are objects of mba_file_name.  The program links            *)
(* MetaBlkArea, whose read_by_obj_id returns a copy: InPlace is FALSE.     *)
(* The tree was written against DirBTree_stub.cpp, which returns the       *)
(* stored node itself and which nothing calls any more: InPlace is TRUE,   *)
(* for what the algorithm does by itself.                                  *)
(*                                                                         *)
(* add_new_file and del_file walk down from the root.  insert_not_full and *)
(* delete_not_half call themselves last of all: one call is one action,    *)
(* and `call' holds its arguments.  Nothing runs between two calls.        *)
(*                                                                         *)
(* The arrays fdes and mobj_id, changed together everywhere, are one       *)
(* sequence, as long as fcount; what a node holds behind it is never used. *)
(***************************************************************************)
EXTENDS Integers, FiniteSets, SequencesExt

CONSTANTS
    MaxId,          \* ids of mba_file_name; bounds the number of nodes
    Fhash,          \* hashes of file names
    Mobj,           \* ids of file metadata objects
    Dir_Node_Half_Degree,
    InPlace,        \* which object store
    NoFile,         \* DirBTreeNotFoundReturn
    Null

ASSUME TreeGeometry ==
    /\ MaxId \in Nat \ {0} /\ Dir_Node_Half_Degree \in Nat \ {0}
    /\ Fhash \subseteq Nat /\ InPlace \in BOOLEAN
    /\ NoFile \notin Mobj

H == Dir_Node_Half_Degree
Dir_Node_Degree == 2 * H + 1
Id == 1 .. MaxId

\* No walk down is longer: an inner node has at least two children.
Height == MaxId \div 2

VARIABLES
    store,                \* mba_file_name: a node or Null for each id
    root_dir_node_id,
    call                  \* the call that runs: what, for which request, where

vars == <<store, root_dir_node_id, call>>

Entry == [fhash : Fhash, mobj_id : Mobj]
Node  == [leaf : BOOLEAN, fdes : Seq(Entry), cobj : Seq(0 .. MaxId)]

ASSUME NullIsNoNode == Null \notin Node

NoCall == [op |-> "none"]
Crashed == [op |-> "crashed"]

(***************************************************************************)
(* The object store.                                                       *)
(***************************************************************************)

\* What alloc_obj leaves: an object that reads as zeros but for its id.
Zeroed == [leaf |-> FALSE, fdes |-> <<>>, cobj |-> <<0>>]

Free(S)    == {i \in Id : S[i] = Null}
FreshId(S) == CHOOSE i \in Free(S) : \A j \in Free(S) : i <= j

Read(S, id) == IF id \in Id THEN S[id] ELSE Null

Write(S, id, node) == [S EXCEPT ![id] = node]

\* A change through the pointer read_by_obj_id returned.
Poke(S, id, node) == IF InPlace THEN Write(S, id, node) ELSE S

DeAlloc(S, id) == [S EXCEPT ![id] = Null]

(***************************************************************************)
(* Nodes.                                                                  *)
(***************************************************************************)
Full(node) == Len(node.fdes) >= Dir_Node_Degree

\* Mutant: off by one, a node of half the degree lends an entry.
SparesAtHalf(node) == Len(node.fdes) >= H

\* The node can lose an entry.
Spares(node) == Len(node.fdes) > H

\* Places, from 1: where fhash is or would go, before and after its equals.
PlaceOf(node, fhash)    == 1 + Cardinality({i \in DOMAIN node.fdes : node.fdes[i].fhash < fhash})
PlaceAfter(node, fhash) == 1 + Cardinality({i \in DOMAIN node.fdes : node.fdes[i].fhash <= fhash})

Holds(node, i, fhash) == i <= Len(node.fdes) /\ node.fdes[i].fhash = fhash

Child(S, node, i) == Read(S, node.cobj[i])

\* split_child: the middle entry of child i moves up to the parent, what is
\* behind it to a new node.  No node is written.
SplitChild(S, id, parent, i) ==
    LET cid   == parent.cobj[i]
        nid   == FreshId(S)
        child == Read(S, cid)
        lower == [child EXCEPT !.fdes = SubSeq(@, 1, H),
                               !.cobj = IF child.leaf THEN @ ELSE SubSeq(@, 1, H + 1)]
        upper == [child EXCEPT !.fdes = SubSeq(@, H + 2, Len(@)),
                               !.cobj = SubSeq(@, H + 2, Len(@))]
        above == [parent EXCEPT !.fdes = InsertAt(@, i, child.fdes[H + 1]),
                                !.cobj = InsertAt(@, i + 1, nid)]
    IN  [store  |-> Poke(Poke(Poke(Write(S, nid, Zeroed), nid, upper), cid, lower), id, above),
         parent |-> above]

\* The calls of insert_not_full and delete_not_half: node is what the caller
\* passes for id; a null pointer is dereferenced at once.
Enter(op, file, fhash, id, node) ==
    IF node = Null THEN Crashed
    ELSE [op |-> op, file |-> file, fhash |-> fhash, id |-> id, dobj |-> node]

Go(S, op, fhash, id) == Enter(op, call.file, fhash, id, Read(S, id))

(***************************************************************************)
(* Adding.                                                                 *)
(***************************************************************************)

\* init(0).  The new root's fcount is not initialised: a fresh page of the
\* heap makes it 0, which is assumed here.
Init ==
    /\ root_dir_node_id = 1
    /\ store = [i \in Id |-> IF i = 1 THEN [leaf |-> TRUE, fdes |-> <<>>, cobj |-> <<>>]
                             ELSE Null]
    /\ call = NoCall

\* add_new_file: a full root is split below a new one, which is read again.
AddNewFile(file) ==
    /\ call = NoCall
    /\ LET root == root_dir_node_id
       IN  IF ~Full(store[root])
             THEN /\ call' = Enter("add", file, file.fhash, root, store[root])
                  /\ UNCHANGED <<store, root_dir_node_id>>
             ELSE LET father == FreshId(store)
                      S == SplitChild(Write(store, father, Zeroed), father,
                                      [Zeroed EXCEPT !.cobj = <<root>>], 1).store
                  IN  /\ store' = S
                      /\ root_dir_node_id' = father
                      /\ call' = Enter("add", file, file.fhash, father, S[father])

\* insert_not_full on a leaf.
InsertIntoLeaf ==
    /\ call.op = "add" /\ call.dobj.leaf
    /\ LET place == PlaceAfter(call.dobj, call.fhash)
       IN  store' = Write(store, call.id,
                          [call.dobj EXCEPT !.fdes = InsertAt(@, place, call.file)])
    /\ call' = NoCall
    /\ UNCHANGED root_dir_node_id

\* insert_not_full on an inner node: a full child is split on the way down.
InsertBelow ==
    /\ call.op = "add" /\ ~call.dobj.leaf
    /\ LET i     == PlaceAfter(call.dobj, call.fhash)
           child == Child(store, call.dobj, i)
           after == SplitChild(store, call.id, call.dobj, i)
           j     == IF call.fhash > after.parent.fdes[i].fhash THEN i + 1 ELSE i
       IN  IF child # Null /\ Full(child)
             THEN /\ store' = after.store
                  /\ call' = Go(after.store, "add", call.fhash, after.parent.cobj[j])
             ELSE /\ call' = Go(store, "add", call.fhash, call.dobj.cobj[i])
                  /\ UNCHANGED store
    /\ UNCHANGED root_dir_node_id

(***************************************************************************)
(* Deleting.                                                               *)
(***************************************************************************)

\* del_file
DelFile(file) ==
    /\ call = NoCall
    /\ call' = Enter("del", file, file.fhash, root_dir_node_id, store[root_dir_node_id])
    /\ UNCHANGED <<store, root_dir_node_id>>

Deleting == call.op = "del"
Place    == PlaceOf(call.dobj, call.fhash)
Found    == Holds(call.dobj, Place, call.fhash)

DeleteFromLeaf ==
    /\ Deleting /\ call.dobj.leaf
    /\ store' = IF Found
                  THEN Write(store, call.id, [call.dobj EXCEPT !.fdes = RemoveAt(@, Place)])
                  ELSE store
    /\ call' = NoCall
    /\ UNCHANGED root_dir_node_id

LastChild(node)  == IF node.leaf THEN node ELSE Child(store, node, Len(node.cobj))
FirstChild(node) == IF node.leaf THEN node ELSE Child(store, node, 1)

\* max_of_dobj and min_of_dobj: down the last and the first children.
MaxOf(id) ==
    LET down[d \in 0 .. Height] == IF d = 0 THEN store[id] ELSE LastChild(down[d - 1])
    IN  Last(down[Height].fdes)

MinOf(id) ==
    LET down[d \in 0 .. Height] == IF d = 0 THEN store[id] ELSE FirstChild(down[d - 1])
    IN  Head(down[Height].fdes)

\* Mutant: the search for the entry that moved up starts at the parent.
ReplaceAgain(entry, child) ==
    LET S == Write(store, call.id, [call.dobj EXCEPT !.fdes[Place] = entry])
    IN  store' = S /\ call' = Go(S, "del", entry.fhash, call.id)

\* An entry of a subtree takes the place of the one to delete, and is then
\* deleted from the subtree.
Replace(entry, child) ==
    LET S == Write(store, call.id, [call.dobj EXCEPT !.fdes[Place] = entry])
    IN  store' = S /\ call' = Go(S, "del", entry.fhash, child)

SparesChild(i) == Spares(Child(store, call.dobj, i))

ReplaceByMax ==
    /\ Deleting /\ ~call.dobj.leaf /\ Found
    /\ SparesChild(Place)
    /\ Replace(MaxOf(call.dobj.cobj[Place]), call.dobj.cobj[Place])
    /\ UNCHANGED root_dir_node_id

ReplaceByMin ==
    /\ Deleting /\ ~call.dobj.leaf /\ Found
    /\ ~SparesChild(Place) /\ SparesChild(Place + 1)
    /\ Replace(MinOf(call.dobj.cobj[Place + 1]), call.dobj.cobj[Place + 1])
    /\ UNCHANGED root_dir_node_id

DeleteBelow ==
    /\ Deleting /\ ~call.dobj.leaf /\ ~Found
    /\ SparesChild(Place)
    /\ call' = Go(store, "del", call.fhash, call.dobj.cobj[Place])
    /\ UNCHANGED <<store, root_dir_node_id>>

\* The child to delete from is at half its degree.
TooFew == Deleting /\ ~call.dobj.leaf /\ ~Found /\ ~SparesChild(Place)

LeftLends  == Place > 1 /\ SparesChild(Place - 1)
RightLends == Place <= Len(call.dobj.fdes) /\ SparesChild(Place + 1)

\* The lender and the node are written, the child that borrows is not.
Borrow(lender, lid, parent, child) ==
    LET cid == call.dobj.cobj[Place]
    IN  /\ store' = Write(Write(Poke(store, cid, child), lid, lender), call.id, parent)
        /\ call' = Enter("del", call.file, call.fhash, cid, child)
        /\ UNCHANGED root_dir_node_id

\* Mutant: the child gets the brother's entry, the parent keeps its own.
BorrowLeftDirectly ==
    /\ TooFew /\ LeftLends
    /\ LET left  == Child(store, call.dobj, Place - 1)
           child == Child(store, call.dobj, Place)
       IN  Borrow([left EXCEPT !.fdes = Front(@), !.cobj = IF left.leaf THEN @ ELSE Front(@)],
                  call.dobj.cobj[Place - 1],
                  call.dobj,
                  [child EXCEPT !.fdes = <<Last(left.fdes)>> \o @,
                                !.cobj = IF child.leaf THEN @ ELSE <<Last(left.cobj)>> \o @])

BorrowLeft ==
    /\ TooFew /\ LeftLends
    /\ LET left  == Child(store, call.dobj, Place - 1)
           child == Child(store, call.dobj, Place)
       IN  Borrow([left EXCEPT !.fdes = Front(@), !.cobj = IF left.leaf THEN @ ELSE Front(@)],
                  call.dobj.cobj[Place - 1],
                  [call.dobj EXCEPT !.fdes[Place - 1] = Last(left.fdes)],
                  [child EXCEPT !.fdes = <<call.dobj.fdes[Place - 1]>> \o @,
                                !.cobj = IF child.leaf THEN @ ELSE <<Last(left.cobj)>> \o @])

BorrowRight ==
    /\ TooFew /\ ~LeftLends /\ RightLends
    /\ LET right == Child(store, call.dobj, Place + 1)
           child == Child(store, call.dobj, Place)
       IN  Borrow([right EXCEPT !.fdes = Tail(@), !.cobj = IF right.leaf THEN @ ELSE Tail(@)],
                  call.dobj.cobj[Place + 1],
                  [call.dobj EXCEPT !.fdes[Place] = Head(right.fdes)],
                  [child EXCEPT !.fdes = @ \o <<call.dobj.fdes[Place]>>,
                                !.cobj = IF child.leaf THEN @ ELSE @ \o <<Head(right.cobj)>>])

\* Mutant: the parent's entry between the two is dropped.
UnitedWithout(left, entry, right) ==
    [left EXCEPT !.fdes = @ \o right.fdes, !.cobj = @ \o right.cobj]

United(left, entry, right) ==
    [left EXCEPT !.fdes = @ \o <<entry>> \o right.fdes, !.cobj = @ \o right.cobj]

\* Mutant: the right node stays allocated.
UnionChildLeaks(i) ==
    LET lid    == call.dobj.cobj[i]
        left   == United(store[lid], call.dobj.fdes[i], Child(store, call.dobj, i + 1))
        parent == [call.dobj EXCEPT !.fdes = RemoveAt(@, i), !.cobj = RemoveAt(@, i + 1)]
        S      == Write(Poke(store, lid, left), call.id, parent)
    IN  /\ store' = IF parent.fdes = <<>> THEN DeAlloc(S, call.id) ELSE S
        /\ root_dir_node_id' = IF parent.fdes = <<>> THEN lid ELSE root_dir_node_id
        /\ call' = Enter("del", call.file, call.fhash, lid, left)

\* union_child: child i takes entry i and what child i+1 holds; a parent that
\* is empty now was the root and goes.  The left node is not written.
UnionChild(i) ==
    LET lid    == call.dobj.cobj[i]
        left   == United(store[lid], call.dobj.fdes[i], Child(store, call.dobj, i + 1))
        parent == [call.dobj EXCEPT !.fdes = RemoveAt(@, i), !.cobj = RemoveAt(@, i + 1)]
        S      == DeAlloc(Write(Poke(store, lid, left), call.id, parent), call.dobj.cobj[i + 1])
    IN  /\ store' = IF parent.fdes = <<>> THEN DeAlloc(S, call.id) ELSE S
        /\ root_dir_node_id' = IF parent.fdes = <<>> THEN lid ELSE root_dir_node_id
        /\ call' = Enter("del", call.file, call.fhash, lid, left)

UnionFound ==
    /\ Deleting /\ ~call.dobj.leaf /\ Found
    /\ ~SparesChild(Place) /\ ~SparesChild(Place + 1)
    /\ UnionChild(Place)

UnionBelow ==
    /\ TooFew /\ ~LeftLends /\ ~RightLends
    /\ UnionChild(IF Place > Len(call.dobj.fdes) THEN Place - 1 ELSE Place)

Step ==
    \/ InsertIntoLeaf \/ InsertBelow
    \/ DeleteFromLeaf \/ ReplaceByMax \/ ReplaceByMin \/ DeleteBelow
    \/ BorrowLeft \/ BorrowRight \/ UnionFound \/ UnionBelow

(***************************************************************************)
(* Finding.                                                                *)
(***************************************************************************)

\* Mutant: the last child is not searched.
StepDownNotLast(node, fhash) ==
    LET i == PlaceOf(node, fhash)
    IN  IF node = Null THEN node
        ELSE IF node.leaf \/ Holds(node, i, fhash) \/ i > Len(node.fdes) THEN node
        ELSE Child(store, node, i)

\* One turn of the goto loop in get_file_meta_obj_id.
StepDown(node, fhash) ==
    LET i == PlaceOf(node, fhash)
    IN  IF node = Null THEN node
        ELSE IF node.leaf \/ Holds(node, i, fhash) THEN node
        ELSE Child(store, node, i)

get_file_meta_obj_id(fhash) ==
    LET down[d \in 0 .. Height] ==
          IF d = 0 THEN store[root_dir_node_id] ELSE StepDown(down[d - 1], fhash)
        node == down[Height]
        i    == PlaceOf(node, fhash)
    IN  IF node # Null /\ Holds(node, i, fhash) THEN node.fdes[i].mobj_id ELSE NoFile

(***************************************************************************)
(* The tree.                                                               *)
(***************************************************************************)

Children(ids) == UNION {Range(store[id].cobj) : id \in {i \in ids \cap Id : store[i] # Null}}

\* The nodes at each depth below the root, and all of them.
Level ==
    LET level[d \in 0 .. Height] ==
          IF d = 0 THEN {root_dir_node_id} ELSE Children(level[d - 1])
    IN  level

WithChildren(ids) == ids \cup Children(ids)

Tree ==
    LET down[d \in 0 .. Height] ==
          IF d = 0 THEN {root_dir_node_id} ELSE WithChildren(down[d - 1])
    IN  down[Height]

(***************************************************************************)
(* Verifying.                                                              *)
(***************************************************************************)

\* verify_node on a node and, unless it is the root, on its place under its
\* parent: at least half full, in order, between the parent's entries.
InOrder(node) ==
    \A i \in 1 .. Len(node.fdes) - 1 : node.fdes[i].fhash <= node.fdes[i + 1].fhash

FitsBelow(node, parent, i) ==
    /\ Len(node.fdes) \in H .. Dir_Node_Degree
    /\ i > 1 => Head(node.fdes).fhash >= parent.fdes[i - 1].fhash
    /\ i <= Len(parent.fdes) => Last(node.fdes).fhash <= parent.fdes[i].fhash

verify ==
    \A id \in Tree :
      /\ InOrder(store[id])
      /\ \A i \in DOMAIN store[id].cobj :
           LET child == Child(store, store[id], i)
           IN  child # Null /\ FitsBelow(child, store[id], i)

(***************************************************************************)
(* Clients give different files different names; they may delete a name    *)
(* that is not there.                                                      *)
(***************************************************************************)

Files == UNION {Range(store[id].fdes) : id \in {i \in Tree \cap Id : store[i] # Null}}
Names == {f.fhash : f \in Files}
New   == LET taken == Names IN {f \in Entry : f.fhash \notin taken}

Next ==
    \/ \E f \in New : AddNewFile(f)
    \/ \E fhash \in Fhash : DelFile([fhash |-> fhash, mobj_id |-> NoFile])
    \/ Step

Spec == Init /\ [][Next]_vars

(***************************************************************************)
(* Properties.                                                             *)
(***************************************************************************)
NodeOK(node) ==
    /\ node.leaf \in BOOLEAN
    /\ node.fdes \in Seq(Entry) /\ Len(node.fdes) <= Dir_Node_Degree
    /\ node.cobj \in Seq(Id)
    /\ Len(node.cobj) = IF node.leaf THEN 0 ELSE Len(node.fdes) + 1

TypeOK ==
    /\ DOMAIN store = Id /\ \A i \in Id : store[i] = Null \/ NodeOK(store[i])
    /\ root_dir_node_id \in Id
    /\ call.op \in {"none", "add", "del"}

\* The tree serves each request as a directory does: splitting, borrowing,
\* uniting and replacing entries on the way down neither lose nor make up a
\* file, and a call has had its effect when it returns.
Dir == INSTANCE Directory WITH
    files <- Files,
    asked <- IF call = NoCall THEN [op |-> "none"]
             ELSE [op |-> call.op, file |-> call.file]

ImplementsDirectory == Dir!Spec

\* Every file is found by its name and no other name is, also between two
\* calls on the way down (get_file_meta_obj_id against the tree's content).
FindsTheFiles ==
    /\ \A f \in Files : get_file_meta_obj_id(f.fhash) = f.mobj_id
    /\ \A fhash \in Fhash \ Names : get_file_meta_obj_id(fhash) = NoFile

\* What verify finds after every call, and more than it looks at: names in
\* strict order, and all leaves at one depth.
WellFormed ==
    call = NoCall =>
      /\ verify
      /\ \A id \in Tree : \A i \in 1 .. Len(store[id].fdes) - 1 :
           store[id].fdes[i].fhash # store[id].fdes[i + 1].fhash
      /\ \A d \in 0 .. Height : \A i, j \in Level[d] : store[i].leaf = store[j].leaf

\* The objects allocated are the nodes of the tree, each with one parent:
\* union_child and the splits leak no object and free none still in use.
NoNodeLost ==
    /\ Tree = Id \ Free(store)
    /\ \A i, j \in Tree : \A k \in DOMAIN store[i].cobj, l \in DOMAIN store[j].cobj :
         store[i].cobj[k] = store[j].cobj[l] => i = j /\ k = l

\* mba_file_name has an object for each node that is split off: with no more
\* names than trees of MaxId nodes are sure to hold, alloc_obj never fails.
HasRoom ==
    /\ call = NoCall /\ New # {} /\ Full(store[root_dir_node_id]) => \E i, j \in Free(store) : i # j
    /\ call.op = "add" => \A k \in DOMAIN call.dobj.cobj :
                            Full(Child(store, call.dobj, k)) => Free(store) # {}

\* "require dobj is not full" of insert_not_full, and its counterpart for
\* delete_not_half: on a way down the node can take or lose an entry, and a
\* node to be split finds an object for what is split off.
CallsHaveRoom ==
    /\ call.op = "add" => Len(call.dobj.fdes) < Dir_Node_Degree
    /\ call.op = "del" => call.id = root_dir_node_id \/ Len(call.dobj.fdes) > H
    /\ HasRoom

LevelsBelow(id) ==
    LET down[d \in 0 .. Height] == IF d = 0 THEN store[id] ELSE FirstChild(down[d - 1])
    IN  Cardinality({d \in 0 .. Height : ~down[d].leaf})

CallsToCome == IF call = NoCall THEN 0 ELSE 1 + LevelsBelow(call.id)

\* Every call is made for a node one level down, also when the tree loses a
\* level on the way: a request ends after as many calls as the tree is high.
CallsGoDown == [][call # NoCall => CallsToCome' = CallsToCome - 1]_vars

(***************************************************************************)
(* What the comments of the code say.                                      *)
(***************************************************************************)

\* DirBTree.cpp:117, "AND write them": what a split leaves can be read again;
\* in particular the root is no object fresh from alloc_obj.
SplitsAreWritten == store[root_dir_node_id] # Zeroed
=============================================================================
