---------------------------- MODULE MCDoInstall ----------------------------
(* DoInstall, and the descriptors it hands over, on small sets of disks.    *)
EXTENDS DoInstallHandover

=============================================================================
