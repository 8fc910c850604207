--------------------------- MODULE MCReleaseNews ---------------------------
(* A series from its first to its first point release; two modules    *)
(* that there were, one of them with a tarball that lacks its NEWS file,    *)
(* and one that may come with the series.                                   *)
EXTENDS ReleaseNews

V(M, m) == [major |-> M, minor |-> m]
MCModules == {"mutter", "gtk", "papers"}
MCEarlier == [v \in {V(47, Rc), V(47, 0)} |-> 
              [m \in MCModules |-> IF m = "papers" THEN Absent
                                   ELSE IF v.minor = 0 /\ m = "gtk" THEN 2 ELSE 1]]
Whole == {<<V(48, Alpha), V(48, Beta), V(48, Rc), V(48, 0), V(48, 1)>>}
MCSilent == {<<"gtk", 3>>}
=============================================================================
