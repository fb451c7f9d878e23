---------------------------- MODULE MCRepService ----------------------------
(* Instances of RepService: a call that is resent, and one without identity. *)
EXTENDS RepService

CONSTANTS r1, r2, alice

Mixed == [r \in Reqs |-> IF r = r1 THEN alice ELSE None]

ThreeCopies == [r \in Reqs |-> IF r = r1 THEN 2 ELSE 1]

TightLimits == {[inflight |-> 2, perPeer |-> 1, bytes |-> 1],
                [inflight |-> 1, perPeer |-> 1, bytes |-> 1]}

=============================================================================
