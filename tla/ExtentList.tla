----------------------------- MODULE ExtentList -----------------------------
(***************************************************************************)
(* extent_list.cpp: the allocator of data extents of one channel.  A chain *)
(* of nodes, each an object of mba_extent, holds the extents of the        *)
(* channel in address order; an extent is free (free_vblk_num > 0), handed *)
(* out, or junk: given back, to be erased by GC.  Files hold descriptors.  *)
(*                                                                         *)
(* Addresses are positions in the channel (BlkAddr: BlkAddrAdd is linear). *)
(* The nodes are read and written through an object store.  The program    *)
(* links MetaBlkArea, whose read_by_obj_id returns a copy: InPlace is      *)
(* FALSE, and what is changed in a node and not written is lost.  The list *)
(* was written against extent_stub.cpp, which returns the stored object    *)
(* itself and which nothing calls any more: InPlace is TRUE, for what the  *)
(* algorithm does by itself.                                               *)
(*                                                                         *)
(* getNewExt and putExt are one action each.  GC, whose loop has several   *)
(* ways through, takes three steps per node; nothing interleaves with it.  *)
(***************************************************************************)
EXTENDS Integers, Sequences, FiniteSets, SequencesExt

CONSTANTS
    blk_st, blk_ed,          \* the channel's first and highest data block
    ext_size,                \* blocks per extent
    Ext_Node_Half_Degree,
    MaxId,                   \* ids of mba_extent; bounds the number of nodes
    File,                    \* each file holds at most one descriptor
    InPlace,                 \* read_by_obj_id returns the stored object
    NoFile, Null

ASSUME ExtentGeometry ==
    /\ blk_st \in Nat /\ blk_ed \in Nat /\ blk_st + ext_size <= blk_ed
    /\ ext_size \in Nat \ {0} /\ Ext_Node_Half_Degree \in Nat \ {0}
    /\ MaxId \in Nat \ {0} /\ InPlace \in BOOLEAN

H == Ext_Node_Half_Degree
Ext_Node_Degree == 2 * H
Id == 1 .. MaxId

VARIABLES
    store,     \* mba_extent: a node or Null for each id
    held,      \* the descriptor of each file, or NoFile
    pc,        \* GC: "idle", "sweep", "balance", "advance" or "crashed"
    prev, cur, next    \* GC's eobj_prev, eobj, eobj_next with their ids

gcvars == <<pc, prev, cur, next>>
vars   == <<store, held, gcvars>>

Pos   == blk_st .. blk_ed
Entry == [free : Nat, st : Pos, ed : Pos, junk : {0, 1}]
Node  == [ents : Seq(Entry), prev : 0 .. MaxId, next : 0 .. MaxId]
Desc  == [st : Pos, ed : Pos]

\* Null and NoFile are none of the values they stand in for.
ASSUME NullIsNoNode == Null \notin Node
ASSUME NoFileIsNoDesc == NoFile \notin Desc

Cursor == [id : 0 .. MaxId, node : Node \cup {Null}]
Nobody == [id |-> 0, node |-> Null]

TypeOK ==
    /\ \A i \in Id : store[i] # Null => store[i] \in Node
    /\ held \in [File -> Desc \cup {NoFile}]
    /\ pc \in {"idle", "sweep", "balance", "advance", "crashed"}

(***************************************************************************)
(* The object store and the chain.                                         *)
(***************************************************************************)
head == 1

\* read_by_obj_id; a read of an id without a node is not made.
Read(st, i) == IF i \in Id THEN [id |-> i, node |-> st[i]] ELSE Nobody

\* Mutant: eobj_next is the node itself.
FollowingItself(st, c) == Read(st, c.id)

Following(st, c) == Read(st, c.node.next)

FreeId == {i \in Id : store[i] = Null}
alloc_obj == CHOOSE i \in FreeId : \A j \in FreeId : i <= j

\* The id of the k-th node of the chain, 0 beyond its end.
NodeAt[k \in 1 .. MaxId + 1] ==
    IF k = 1 THEN head
    ELSE IF NodeAt[k - 1] = 0 \/ store[NodeAt[k - 1]] = Null THEN 0
    ELSE store[NodeAt[k - 1]].next

\* The first node of the chain that P picks, or 0.
FirstNode(P(_)) ==
    LET hit == {k \in 1 .. MaxId : NodeAt[k] # 0 /\ P(store[NodeAt[k]])}
    IN  IF hit = {} THEN 0
        ELSE NodeAt[CHOOSE k \in hit : \A l \in hit : k <= l]

\* Changes made through the pointer read_by_obj_id returned: to the node
\* itself, or to a copy that is gone with the call.
Poke(st, c) ==
    IF InPlace /\ c.node # Null THEN [st EXCEPT ![c.id] = c.node] ELSE st

\* write_by_obj_id.
Write(st, c) == IF c.node # Null THEN [st EXCEPT ![c.id] = c.node] ELSE st

(***************************************************************************)
(* getNewExt and putExt.                                                   *)
(***************************************************************************)
Init ==
    /\ store = [i \in Id |-> IF i # head THEN Null
                  ELSE [ents |-> << [free |-> (blk_ed - blk_st) \div ext_size,
                                     st |-> blk_st, ed |-> blk_ed, junk |-> 0] >>,
                        prev |-> 0, next |-> 0]]
    /\ held = [f \in File |-> NoFile]
    /\ pc = "idle" /\ prev = Nobody /\ cur = Nobody /\ next = Nobody

FreeIn(ents) == {i \in DOMAIN ents : ents[i].free > 0}

\* s with its i-th element replaced by the sequence t.
ReplaceBy(s, i, t) == SubSeq(s, 1, i - 1) \o t \o SubSeq(s, i + 1, Len(s))

HasFree(node) == FreeIn(node.ents) # {}

Cut(e) == IF e.st + ext_size <= blk_ed THEN e.st + ext_size ELSE e.st

\* The first ext_size blocks of an extent, handed out, and the rest.
Split(e) ==
    << [e EXCEPT !.free = 0, !.ed = Cut(e), !.junk = 0],
       [e EXCEPT !.free = @ - 1, !.st = Cut(e)] >>

\* Mutant: one extent too many is allowed.
NodeFullLate(ents) == Len(ents) > Ext_Node_Degree

NodeFull(ents) == Len(ents) >= Ext_Node_Degree

\* Mutant: the upper half is copied from one too far.
NewNodeDropsOne(id, node) ==
    [ents |-> SubSeq(node.ents, H + 2, 2 * H), prev |-> id, next |-> node.next]

\* Mutant: the rest of the chain is not linked to the new node.
NewNodeForgetsNext(id, node) ==
    [ents |-> SubSeq(node.ents, H + 1, 2 * H), prev |-> id, next |-> 0]

NewNode(id, node) ==
    [ents |-> SubSeq(node.ents, H + 1, 2 * H), prev |-> id, next |-> node.next]

\* A node that has reached Ext_Node_Degree gives its upper half to a new
\* node after it, and both are written.
SplitNode(id, node) ==
    [store EXCEPT
       ![id] = [node EXCEPT !.ents = SubSeq(@, 1, H), !.next = alloc_obj],
       ![alloc_obj] = NewNode(id, node)]

\* The first free extent, or the first ext_size blocks of it if it has room
\* for more than one.  Nothing free: nullptr, and nothing changes.
GetNewExt(f) ==
    /\ pc = "idle" /\ held[f] = NoFile
    /\ LET id == FirstNode(HasFree)
       IN  /\ id # 0
           /\ LET old  == store[id].ents
                  i    == CHOOSE k \in FreeIn(old) : \A l \in FreeIn(old) : k <= l
                  ents == IF old[i].free = 1 THEN [old EXCEPT ![i].free = 0]
                          ELSE ReplaceBy(old, i, Split(old[i]))
                  node == [store[id] EXCEPT !.ents = ents]
              IN  /\ held' = [held EXCEPT ![f] = [st |-> ents[i].st,
                                                  ed |-> ents[i].ed]]
                  /\ IF NodeFull(ents)
                       THEN FreeId # {} /\ store' = SplitNode(id, node)
                       ELSE store' = Poke(store, [id |-> id, node |-> node])
    /\ UNCHANGED gcvars

Covers(node, d) == node.ents[1].st <= d.st /\ d.ed <= Last(node.ents).ed

\* putExt looks for the node that covers the descriptor and in it for the
\* extent that starts where it does.  junk is the descriptor's junk_bitmap,
\* which getNewExt leaves uninitialised.
AfterPut(d, junk) ==
    LET id   == FirstNode(LAMBDA node : Covers(node, d))
        node == store[id]
        same == {i \in DOMAIN node.ents : node.ents[i].st = d.st}
        i    == CHOOSE k \in same : \A l \in same : k <= l
    IN  IF id = 0 \/ same = {} THEN store
        ELSE Poke(store, [id |-> id, node |-> [node EXCEPT !.ents[i].junk = junk]])

PutExt(f, junk) ==
    /\ pc = "idle" /\ held[f] # NoFile
    /\ held' = [held EXCEPT ![f] = NoFile]
    /\ store' = AfterPut(held[f], junk)
    /\ UNCHANGED gcvars

(***************************************************************************)
(* GC.                                                                     *)
(***************************************************************************)

\* Mutant: the extent taken in counts as one.
MergeCountsOne(a, b) == [a EXCEPT !.free = @ + 1, !.ed = b.ed]

Merge(a, b) == [a EXCEPT !.free = @ + b.free, !.ed = b.ed]

EndsFree(done) == done # <<>> /\ Last(done).free > 0

\* One extent of GC's pass over a node: done is what it made of the extents
\* before, and absorb says that the last of them has just become free and
\* takes the next extent in if that is free.
SweepExtent(acc, e) ==
    LET freed     == [e EXCEPT !.free = 1, !.junk = 0]
        merged(b) == Append(Front(acc.done), Merge(Last(acc.done), b))
    IN  IF acc.absorb /\ e.free > 0
          THEN [done |-> merged(e), absorb |-> FALSE]
        ELSE IF e.junk = 0
          THEN [done |-> Append(acc.done, e), absorb |-> FALSE]
        ELSE IF EndsFree(acc.done)
          THEN [done |-> merged(freed), absorb |-> FALSE]
        ELSE [done |-> Append(acc.done, freed), absorb |-> TRUE]

Sweep(ents) ==
    FoldLeft(SweepExtent, [done |-> <<>>, absorb |-> FALSE], ents).done

Count(c) == IF c.node = Null THEN 0 ELSE Len(c.node.ents)

GCStart ==
    /\ pc = "idle"
    /\ pc' = "sweep"
    /\ cur' = Read(store, head)
    /\ prev' = Nobody
    /\ next' = Following(store, cur')
    /\ UNCHANGED <<store, held>>

\* Junk extents of a node become free and merge with free neighbours.
GCSweep ==
    /\ pc = "sweep"
    /\ cur' = [cur EXCEPT !.node.ents = Sweep(@)]
    /\ store' = Poke(store, cur')
    /\ pc' = IF Count(cur') < H THEN "balance" ELSE "advance"
    /\ UNCHANGED <<held, prev, next>>

CanBorrowPrev == Count(prev) > H
CanMergePrev  == Count(prev) = H
CanBorrowNext == ~CanBorrowPrev /\ ~CanMergePrev /\ Count(next) > H
CanMergeNext  == ~CanBorrowPrev /\ ~CanMergePrev /\ Count(next) = H

\* The line that copies mobjs[0] is there twice and exts[0] is not copied:
\* the node gets the counter of the extent it borrows and a second copy of
\* its own first extent.
GCBorrowPrev ==
    /\ pc = "balance" /\ CanBorrowPrev
    /\ LET mine == cur.node.ents
       IN  cur' = [cur EXCEPT !.node.ents =
                     << [mine[1] EXCEPT !.free = Last(prev.node.ents).free] >> \o mine]
    /\ prev' = [prev EXCEPT !.node.ents = Front(@)]
    /\ store' = Poke(Poke(store, prev'), cur')
    /\ pc' = "advance"
    /\ UNCHANGED <<held, next>>

\* The node's extents move to the node before it, and GC goes on with the
\* node after it; if there is none, eobj_next is null and dereferenced.
GCMergePrev ==
    /\ pc = "balance" /\ CanMergePrev
    /\ IF next.node = Null
         THEN /\ pc' = "crashed"
              /\ UNCHANGED <<store, prev, cur, next>>
         ELSE /\ prev' = [prev EXCEPT !.node.ents = @ \o cur.node.ents,
                                      !.node.next = next.id]
              /\ cur' = [next EXCEPT !.node.prev = prev.id]
              /\ store' = [Poke(Poke(store, prev'), cur') EXCEPT ![cur.id] = Null]
              /\ next' = Following(store', cur')
              /\ pc' = "advance"
    /\ UNCHANGED held

GCBorrowNext ==
    /\ pc = "balance" /\ CanBorrowNext
    /\ cur' = [cur EXCEPT !.node.ents = Append(@, Head(next.node.ents))]
    /\ next' = [next EXCEPT !.node.ents = Tail(@)]
    /\ store' = Poke(Poke(store, cur'), next')
    /\ pc' = "advance"
    /\ UNCHANGED <<held, prev>>

\* The next node's extents move to this node, which is then swept again; the
\* null check is missing here, too.
GCMergeNext ==
    /\ pc = "balance" /\ CanMergeNext
    /\ LET after == Following(store, next)
       IN  IF after.node = Null
             THEN /\ pc' = "crashed"
                  /\ UNCHANGED <<store, cur, next>>
             ELSE /\ cur' = [cur EXCEPT !.node.ents = @ \o next.node.ents,
                                        !.node.next = next.node.next]
                  /\ next' = [after EXCEPT !.node.prev = cur.id]
                  /\ store' = [Poke(Poke(store, cur'), next') EXCEPT ![next.id] = Null]
                  /\ pc' = "sweep"
    /\ UNCHANGED <<held, prev>>

\* To the next node; only now is the node before written.  At the end of the
\* chain eobj is null, and the write after the loop does nothing.
GCAdvance ==
    /\ \/ pc = "advance"
       \/ /\ pc = "balance"
          /\ ~(CanBorrowPrev \/ CanMergePrev \/ CanBorrowNext \/ CanMergeNext)
    /\ store' = Write(store, prev)
    /\ IF next.node = Null
         THEN pc' = "idle" /\ prev' = Nobody /\ cur' = Nobody /\ next' = Nobody
         ELSE /\ pc' = "sweep"
              /\ prev' = cur
              /\ cur' = next
              /\ next' = Following(store', cur')
    /\ UNCHANGED held

GCStep == \/ GCSweep \/ GCBorrowPrev \/ GCMergePrev \/ GCBorrowNext
          \/ GCMergeNext \/ GCAdvance

GetOrPut ==
    \/ \E f \in File : GetNewExt(f)
    \/ \E f \in File, junk \in {0, 1} : PutExt(f, junk)

Next == GetOrPut \/ GCStart \/ GCStep

\* A GC once begun runs on, like any function.
Spec == Init /\ [][Next]_vars /\ WF_vars(GCStep)

(***************************************************************************)
(* Properties.                                                             *)
(***************************************************************************)

\* All extents in the order of the chain.
Listed ==
    LET length == Cardinality({k \in 1 .. MaxId : NodeAt[k] # 0})
    IN  FlattenSeq([k \in 1 .. length |-> store[NodeAt[k]].ents])

\* Between calls, the listed extents tile the channel in address order:
\* splitting, merging and moving extents loses no block and doubles none.
ListTilesChannel ==
    pc = "idle" =>
      /\ Listed[1].st = blk_st /\ Last(Listed).ed = blk_ed
      /\ \A i \in 1 .. Len(Listed) - 1 : Listed[i].ed = Listed[i + 1].st
      /\ \A i \in DOMAIN Listed : Listed[i].st < Listed[i].ed

Overlap(d, e) == d.st < e.ed /\ e.st < d.ed

\* No block is in two files, nor is it free or junk while a file has it.  It
\* needs the store the list was written against; over the one the program
\* links see FilesAreDisjoint.
NotHandedOutTwice ==
    pc = "idle" =>
      \A f \in {g \in File : held[g] # NoFile} :
        /\ \A g \in File \ {f} : held[g] # NoFile => ~Overlap(held[f], held[g])
        /\ \A i \in DOMAIN Listed :
             Overlap(held[f], Listed[i]) => Listed[i].free = 0 /\ Listed[i].junk = 0

\* free_vblk_num of a free extent is the number of extents it has room for.
FreeCountsFit ==
    pc = "idle" =>
      \A i \in DOMAIN Listed :
        Listed[i].free > 0 =>
          Listed[i].free = (Listed[i].ed - Listed[i].st) \div ext_size

\* No operation writes past a node's arrays or leaves a node empty.
NodesFit ==
    \A i \in Id :
      store[i] # Null => Len(store[i].ents) \in 1 .. Ext_Node_Degree - 1

\* Between calls the chain runs from the head to a node without a successor
\* through exactly the allocated nodes: GC's merges neither lose a node nor
\* leave one dangling.
ChainIsSound ==
    pc = "idle" =>
      LET linked == {NodeAt[k] : k \in 1 .. MaxId} \ {0}
      IN  /\ linked = Id \ FreeId
          /\ NodeAt[MaxId + 1] = 0
          /\ \A i, j \in linked : store[i].next = store[j].next => i = j

\* GC comes to an end, be it the crash.
GCEnds == pc # "idle" ~> pc \in {"idle", "crashed"}

(***************************************************************************)
(* What the comments of the code say.                                      *)
(***************************************************************************)

\* extent_list.cpp:78, "split extent": what a file gets is split off, so that
\* the next file gets something else.
FilesAreDisjoint ==
    \A f, g \in File :
      f # g /\ held[f] # NoFile /\ held[g] # NoFile => ~Overlap(held[f], held[g])
=============================================================================
