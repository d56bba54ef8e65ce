--------------------------- MODULE UploadPromise ----------------------------
(***************************************************************************)
(* What the school is promised about one photograph, with no browser, no   *)
(* bucket, no worker and no nightly job in sight (the UploadState          *)
(* docstring in apps/activities/models.py and the notes in services.py):   *)
(*                                                                         *)
(*   an upload is pending until it is settled, once and for good, as kept  *)
(*   or failed; what was kept is never reported failed, and what was       *)
(*   reported failed never turns out to have been kept; only a deliberate  *)
(*   deletion takes a photograph away, and what was erased stays erased.   *)
(***************************************************************************)
CONSTANT Photos

VARIABLE status    \* what anyone may rely on, for each photograph

Statuses == {"absent", "pending", "kept", "failed", "erasing", "erased"}

Init == status = [m \in Photos |-> "absent"]

Becomes(m, from, to) ==
    /\ status[m] \in from
    /\ status' = [status EXCEPT ![m] = to]

Register(m) == Becomes(m, {"absent"}, "pending")
Keep(m)     == Becomes(m, {"pending"}, "kept")
GiveUp(m)   == Becomes(m, {"pending"}, "failed")

\* Deletion may be interrupted and taken up again, but never taken back.
BeginErasure(m)  == Becomes(m, {"pending", "kept", "failed"}, "erasing")
FinishErasure(m) == Becomes(m, {"erasing"}, "erased")

Next ==
    \E m \in Photos :
        \/ Register(m)
        \/ Keep(m)
        \/ GiveUp(m)
        \/ BeginErasure(m)
        \/ FinishErasure(m)

Spec == Init /\ [][Next]_status
=============================================================================
