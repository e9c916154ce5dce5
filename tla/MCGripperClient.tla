--------------------------- MODULE MCGripperClient ---------------------------
(* Instances of GripperClient for TLC. *)
EXTENDS GripperRefinement

\* Angles: below the range, inside, above the range, beyond the filter, INT32_MIN
MCRaw == {0, 2, 4, -5}
MCIntMin == -5

Cfg(l, lo, hi, f) == [limit |-> l, lo |-> lo, hi |-> hi, filter |-> f]

\* The shipped default: no limit, filter on
DefaultConfig == {Cfg(FALSE, 0, 1, TRUE)}

\* All switches, and two ranges, one of them wider than the filter
AllConfigs == {Cfg(l, 0, r, f) : l, f \in BOOLEAN, r \in {1, 4}}
ZeroOnly == {0}

\* The run on the data path leaves failing starts and error returns to the other run
Undisturbed == ~dirty /\ ctl \notin FailSteps /\ bus = "traffic" /\ rd # "error"
=============================================================================
