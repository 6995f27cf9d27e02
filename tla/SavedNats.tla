----------------------------- MODULE SavedNats ------------------------------
(***************************************************************************)
(* What the super block promises for the NATs of the three areas: they are *)
(* found as they were when the file system was last closed, all of one     *)
(* closing, or they are lost; and they can only be lost by formatting and  *)
(* by a crash while the file system is being closed.                       *)
(***************************************************************************)
CONSTANTS
    Area,
    Version,      \* what a NAT can contain
    Closed, Lost

VARIABLES
    mem,          \* the NATs in memory, or Closed
    closing,
    disk          \* the NATs that can be read from the device, or Lost

vars == <<mem, closing, disk>>

Nats == [Area -> Version]

Init == mem = Closed /\ closing = FALSE /\ disk = Lost

Format == mem = Closed /\ disk' = Lost /\ UNCHANGED <<mem, closing>>

\* What is lost may read as anything.
Open ==
    /\ mem = Closed
    /\ mem' \in Nats
    /\ disk # Lost => mem' = disk
    /\ UNCHANGED <<disk, closing>>

Use == mem # Closed /\ ~closing /\ mem' \in Nats /\ UNCHANGED <<disk, closing>>

CloseBegin == mem # Closed /\ closing' = TRUE /\ UNCHANGED <<mem, disk>>

Discard == closing /\ disk' = Lost /\ UNCHANGED <<mem, closing>>

CloseEnd == closing /\ disk = Lost /\ disk' = mem /\ mem' = Closed /\ closing' = FALSE

Crash ==
    /\ mem' = Closed /\ closing' = FALSE
    /\ \/ UNCHANGED disk
       \/ (closing \/ mem = Closed) /\ disk' = Lost

Next ==
    \/ Format \/ Open \/ Use
    \/ CloseBegin \/ Discard \/ CloseEnd
    \/ Crash

Spec == Init /\ [][Next]_vars
=============================================================================
