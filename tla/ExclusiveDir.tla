---------------------------- MODULE ExclusiveDir ----------------------------
(***************************************************************************)
(* What --debug_cache_dir_conflict promises, without the tags, the file and *)
(* the flock: users try to get a directory, at most one uses it at a time,  *)
(* and whoever uses it leaves it in the end.                                *)
(***************************************************************************)
CONSTANTS User, Place, PlaceOf

VARIABLE phase

TypeOK == phase \in [User -> {"idle", "trying", "using"}]

Init == phase = [u \in User |-> "idle"]

Try(u) == phase[u] = "idle" /\ phase' = [phase EXCEPT ![u] = "trying"]

Free(p) == \A u \in User : PlaceOf[u] = p => phase[u] # "using"

Enter(u) ==
    /\ phase[u] = "trying"
    /\ Free(PlaceOf[u])
    /\ phase' = [phase EXCEPT ![u] = "using"]

\* The attempt fails, or the user is killed.
GiveUp(u) == phase[u] = "trying" /\ phase' = [phase EXCEPT ![u] = "idle"]

Leave(u) == phase[u] = "using" /\ phase' = [phase EXCEPT ![u] = "idle"]

Next == \E u \in User : Try(u) \/ Enter(u) \/ GiveUp(u) \/ Leave(u)

SafeSpec == Init /\ [][Next]_phase

Spec ==
    /\ SafeSpec
    /\ \A u \in User : WF_phase(Leave(u)) /\ WF_phase(Enter(u) \/ GiveUp(u))

\* At most one user of each place.
AtMostOne ==
    \A u, v \in User :
        PlaceOf[u] = PlaceOf[v] /\ phase[u] = "using" /\ phase[v] = "using" => u = v
=============================================================================
