--------------------------- MODULE ConnectionLease ---------------------------
(***************************************************************************)
(* What the execution pool promises: a connection is either free or leased *)
(* to one holder.  A lease starts on a free connection and ends in the     *)
(* hands of a thread.  Sessions and services hold connections for longer   *)
(* than a thread does; a thread passes its lease to one of them, or takes  *)
(* it from one of them, and never from another thread.                     *)
(***************************************************************************)
CONSTANTS Connections, Frames, Keepers, Free

VARIABLE holder

Init == holder = [c \in Connections |-> Free]

Moves(c, from, to) ==
    /\ holder[c] \in from /\ holder'[c] \in to
    /\ \A d \in Connections \ {c} : holder'[d] = holder[d]

Lease(c) == Moves(c, {Free}, Frames \cup Keepers)
Return(c) == Moves(c, Frames, {Free})
PassToKeeper(c) == Moves(c, Frames, Keepers)
TakeFromKeeper(c) == Moves(c, Keepers, Frames)

Next == \E c \in Connections : Lease(c) \/ Return(c) \/ PassToKeeper(c) \/ TakeFromKeeper(c)

Spec == Init /\ [][Next]_holder

=============================================================================
