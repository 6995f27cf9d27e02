------------------------------ MODULE ObjStore ------------------------------
(***************************************************************************)
(* What a MetaBlkArea promises its clients (the directory B-tree, the file *)
(* metadata and the extent list): a table of objects addressed by id.      *)
(*                                                                         *)
(*   - alloc_obj hands out the lowest free id, which reads as a zeroed     *)
(*     object until it is written;                                         *)
(*   - read_by_obj_id returns what write_by_obj_id last wrote there;       *)
(*   - de_alloc_obj makes the id free again.                               *)
(*                                                                         *)
(* The area is log structured and the file system never calls its garbage  *)
(* collector, so the promise has a term: it stands as long as a slot is    *)
(* left on the medium (room), and taking the last slot ends it.            *)
(***************************************************************************)
EXTENDS Integers

CONSTANTS
    Id,       \* object ids a client can hold
    Value,    \* what a client can write
    Null,     \* read_by_obj_id's nullptr: the id is free
    Zeroed,   \* an allocated object nobody wrote yet
    Junk      \* any other bytes

VARIABLES
    store,    \* what read_by_obj_id returns for each id
    room      \* is a slot left

vars == <<store, room>>

Readable == Value \cup {Null, Zeroed, Junk}

TypeOK == store \in [Id -> Readable] /\ room \in BOOLEAN

Init == store = [id \in Id |-> Null] /\ room = TRUE

(* The step s goes through with a slot to spare, or takes the last one and *)
(* leaves the objects in any state.                                        *)
Settle(s) ==
    \/ room' = TRUE  /\ store' = s
    \/ room' = FALSE /\ store' \in [Id -> Readable]

Alloc(id) ==
    /\ room
    /\ store[id] = Null
    /\ \A i \in Id : i < id => store[i] # Null
    /\ store' = [store EXCEPT ![id] = Zeroed]
    /\ UNCHANGED room

DeAlloc(id) ==
    /\ room
    /\ store' = [store EXCEPT ![id] = Null]
    /\ UNCHANGED room

Write(id, v) ==
    /\ room
    /\ store[id] # Null
    /\ Settle([store EXCEPT ![id] = v])

\* Flushing pads the open page, which uses slots up and changes no object.
Flush == room /\ Settle(store)

Lapsed == ~room /\ room' = FALSE /\ store' \in [Id -> Readable]

Next ==
    \/ \E id \in Id : Alloc(id) \/ DeAlloc(id)
    \/ \E id \in Id, v \in Value : Write(id, v)
    \/ Flush
    \/ Lapsed

Spec == Init /\ [][Next]_vars
=============================================================================
