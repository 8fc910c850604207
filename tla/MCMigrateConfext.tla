--------------------------- MODULE MCMigrateConfext ---------------------------
(* A file and a link of the confext, the link in a directory in a           *)
(* directory, and a file that only the user may have.                       *)
EXTENDS MigrateConfext, TLC

CONSTANTS shipped, linked, own, outer, inner

MCParents == shipped :> {} @@ linked :> {outer, inner} @@ own :> {outer}
             @@ outer :> {} @@ inner :> {outer}
MCConfextType == shipped :> "file" @@ linked :> "link" @@ own :> "none"

=============================================================================
