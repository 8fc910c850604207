-------------------------- MODULE MCSysupdatePublish --------------------------
(* SysupdatePublish for the jobs of two pipelines, the older one's image of *)
(* one architecture and the newer one's of both.                            *)
EXTENDS SysupdatePublish, TLC

CONSTANTS old, intel, arm

TwoPipelines == (old :> "x86_64") @@ (intel :> "x86_64") @@ (arm :> "aarch64")
OnePipeline  == (intel :> "x86_64") @@ (arm :> "aarch64")

===============================================================================
