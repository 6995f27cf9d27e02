---------------------------- MODULE DurableStore ----------------------------
(***************************************************************************)
(* What a MetaBlkArea and the super block that saves its NAT promise       *)
(* together: an ObjStore that is found again, after a close or a crash, as *)
(* it was when it was last closed.  A close does not flush, so what was    *)
(* written since the last flush may be lost by it: it reads as Junk until  *)
(* it is written again.  The promise ends (room, as in ObjStore, becomes   *)
(* FALSE) when a crash interrupts the saving, which is not atomic.         *)
(***************************************************************************)
EXTENDS Integers

CONSTANTS Id, Value, Null, Zeroed, Junk

VARIABLES
    store, room,    \* as in ObjStore
    dirty,          \* the objects written since the last flush
    saved,          \* what the next session will find
    saving          \* the bitmap or the NAT is being rewritten

vars == <<store, room, dirty, saved, saving>>

Obj == INSTANCE ObjStore

Init == Obj!Init /\ dirty = {} /\ saved = store /\ saving = FALSE

Alloc(id) == Obj!Alloc(id) /\ UNCHANGED dirty

\* Deleting an object that was lost may take the last slot: the one it has in
\* the NAT is marked, and the bitmap called it free.
DeAlloc(id) ==
    /\ room
    /\ Obj!Settle([store EXCEPT ![id] = Null])
    /\ dirty' = dirty \ {id}

Write(id, v) == Obj!Write(id, v) /\ dirty' = dirty \cup {id}

Use ==
    /\ ~saving
    /\ \/ \E id \in Id : Alloc(id) \/ DeAlloc(id)
       \/ \E id \in Id, v \in Value : Write(id, v)
    /\ UNCHANGED <<saved, saving>>

\* A flush changes no object, a close makes durable what was flushed.
FlushBegin == ~saving /\ Obj!Flush /\ dirty' = {} /\ saving' = TRUE /\ UNCHANGED saved

CloseBegin ==
    /\ ~saving /\ room /\ saving' = TRUE
    /\ saved' = [id \in Id |-> IF id \in dirty THEN Junk ELSE store[id]]
    /\ UNCHANGED <<store, room, dirty>>

End == saving /\ saving' = FALSE /\ UNCHANGED <<store, room, dirty, saved>>

\* A restart, planned or not, ends in the state last saved, or in the middle
\* of the pages an earlier session wrote.
Restart == ~saving /\ room /\ Obj!Settle(saved) /\ dirty' = {} /\ UNCHANGED <<saved, saving>>

CrashWhileSaving == saving /\ room' = FALSE /\ saving' = FALSE

Next == Use \/ FlushBegin \/ CloseBegin \/ End \/ Restart \/ CrashWhileSaving

Spec == Init /\ [][Next]_vars
=============================================================================
