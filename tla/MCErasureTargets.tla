-------------------------- MODULE MCErasureTargets --------------------------
(***************************************************************************)
(* AccountErasure under its fairness, in two scenes: a member with a       *)
(* social link, one fault and no operator takeover, and a member without a *)
(* link and as many faults as the instance allows.  Both start without     *)
(* donations to review.                                                    *)
(***************************************************************************)
EXTENDS AccountErasure

VARIABLE linked

MCInit ==
    /\ Init
    /\ linked = \E m \in Members : social[m] # {}
    /\ \A m \in Members : ~donor[m] /\ ~hold[m]

MCNext ==
    /\ Next /\ UNCHANGED linked
    /\ linked => faults' <= 1 /\ mode' = mode

MCSpec == MCInit /\ [][MCNext]_<<linked, vars>> /\ Fairness
=============================================================================
