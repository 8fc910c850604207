--------------------------- MODULE MCInstallerApp ---------------------------
(* InstallerApp for one session with two windows, or for two sessions.      *)
EXTENDS InstallerApp, TLC

CONSTANTS a1, a2, w1, w2, w3

OneSession  == (w1 :> a1) @@ (w2 :> a1)
TwoSessions == (w1 :> a1) @@ (w2 :> a1) @@ (w3 :> a2)

=============================================================================
