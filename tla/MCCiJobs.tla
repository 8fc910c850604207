------------------------------ MODULE MCCiJobs ------------------------------
(***************************************************************************)
(* Small inputs of the three jobs.                                          *)
(***************************************************************************)
EXTENDS CiJobs, TLC

(* One year; the feed of recent modifications is the second.                *)
MCYears == {"2002"}
MCOrder == <<"2002">>

(* A module of GNOME that has its source from an include, one that is       *)
(* ignored, and a dependency that also includes the first one's source.     *)
MCSource == "included" :> "none" @@ "own" :> "gnome" @@ "inc" :> "gnome"
            @@ "sdk" :> "archive" @@ "dep" :> "git"
MCIncludes == "included" :> <<"sdk", "inc">> @@ "own" :> <<>> @@ "inc" :> <<>>
              @@ "sdk" :> <<>> @@ "dep" :> <<"inc">>
MCFiles == DOMAIN MCSource

(* Four pushes with two differences or none; reviewers do what they like.   *)
MCHistories == [1..4 -> 0..2]

=============================================================================
