--------------------------- MODULE MCSessionCache ---------------------------
(* The memory of an analyzer session: the trees and analyses of one file
   (ParseCache) and the probes, resolutions and models (FileProbes).  The two
   halves are under different locks and share no variable, so each is explored
   while the other rests. *)
EXTENDS FileProbes, TLC

VARIABLE half \* the half that is used: "trees" or "files"

session == <<half, vars, probeVars>>

SessionInit ==
    /\ half \in {"trees", "files"}
    /\ Init /\ ProbesInit
    /\ half = "trees" => Present = {}

SessionNext ==
    \/ half = "trees" /\ Next /\ UNCHANGED <<half, probeVars>>
    \/ half = "files" /\ ProbesNext /\ UNCHANGED <<half, vars>>

SessionSpec == SessionInit /\ [][SessionNext]_session

BothProfiles == {TRUE, FALSE}
Symmetry == Permutations(Builders) \cup Permutations(Contents)
=============================================================================
