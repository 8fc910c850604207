------------------------- MODULE DoInstallHandover -------------------------
(* do_install keeps the promise of Handover.                                *)
EXTENDS DoInstall

\* systemd-repart or swap-verity outlives the daemon.
Outlived ==
  step = "down" /\ (orphan \in Filling \/ child \in {"reload", "resume"})

phase == CASE Outlived                 -> "cut"
           [] step \in {"down", "idle"} /\ ~Outlived -> "idle"
           [] step \in Working          -> "busy"
           [] OTHER                     -> step

held == (IF unit["zram"].state = "active" THEN {Zram} ELSE {})
        \cup (IF loop THEN {Medium} ELSE {})

H == INSTANCE Handover WITH
       plan <- [disk |-> recipe.disk, oem |-> recipe.oem],
       root <- rootDev,
       usr  <- usrDev

\* Seen through the devices and the resources of the live session, every run
\* of the daemon is a run of Handover (main.rs:399-544).
HandoverSpec == H!Spec

=============================================================================
