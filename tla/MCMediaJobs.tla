---------------------------- MODULE MCMediaJobs ----------------------------
(* An image; and a video for the same server, or the same directory for    *)
(* its successor.                                                          *)
EXTENDS MediaJobs
CONSTANTS p, v
Asked == [r \in Requests |-> IF r = 1 THEN {<<First, p>>}
                             ELSE {<<First, v>>, <<Second, p>>}]
=============================================================================
