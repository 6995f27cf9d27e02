---------------------------- MODULE MCExtentList -----------------------------
(* Model checking of ExtentList.  GC's borrowing from the node before makes *)
(* two extents one; what the extents say is checked until then.             *)
EXTENDS ExtentList, TLC

FileSymmetry == Permutations(File)

VARIABLE borrowed    \* auxiliary: GCBorrowPrev has been taken

MCInit == Init /\ borrowed = FALSE

MCNext ==
    \/ /\ GetOrPut \/ GCStart \/ GCSweep \/ GCMergePrev \/ GCBorrowNext
                   \/ GCMergeNext \/ GCAdvance
       /\ UNCHANGED borrowed
    \/ GCBorrowPrev /\ borrowed' = TRUE

MCSpec == MCInit /\ [][MCNext]_<<vars, borrowed>> /\ WF_vars(GCStep)

\* However nodes are split, swept, merged and borrow from the node after them,
\* the extents tile the channel (getNewExt, putExt, GC).
TilesUntilBorrow == ~borrowed => ListTilesChannel

\* The counter of a free extent fits its length, whatever was merged (GC).
CountsUntilBorrow == ~borrowed => FreeCountsFit
=============================================================================
