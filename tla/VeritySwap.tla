----------------------------- MODULE VeritySwap -----------------------------
(***************************************************************************)
(* swap-verity.c: the table of the running dm-verity volume usr is reloaded *)
(* with the devices of the partitions just installed.  A run may fail at    *)
(* each of its device-mapper tasks, or be killed with the daemon that       *)
(* started it; a later daemon starts another run, for another disk maybe.   *)
(* A table is the sequence of its fields: the version, the data device, the *)
(* hash device, seven more, and optional arguments.                         *)
(***************************************************************************)
EXTENDS Naturals, Sequences

CONSTANTS
  Nodes,    \* device nodes a run may be given
  Pairs,    \* the pairs of nodes the installer asks for: data and hash
  Number,   \* the device number behind each node
  Tables,   \* tables the volume may have had at boot
  MaxRuns   \* bound on the runs of the program

Field == (UNION {{t[i] : i \in DOMAIN t} : t \in Tables}) \cup {Number[n] : n \in Nodes}

PairsAssumption == Pairs \subseteq Nodes \X Nodes
TablesAssumption == \A t \in Tables : t \in Seq(Field) /\ Len(t) >= 10
RunsAssumption == MaxRuns \in Nat

None == <<>>

VARIABLES
  booted,    \* the table the volume had at boot
  active,    \* the table in use
  inactive,  \* the table loaded for the next resume, or None
  present,   \* the nodes that exist
  runs,      \* runs so far
  at,        \* where the run stands: "idle", a step, "ok" or "failed"
  asked,     \* argv[2], argv[3]
  params     \* src_params, then new_params

vars == <<booted, active, inactive, present, runs, at, asked, params>>

Init ==
  /\ booted \in Tables /\ active = booted /\ inactive = None
  /\ present = Nodes /\ runs = 0
  /\ at = "idle" /\ asked = None /\ params = None

Running == at \notin {"idle", "ok", "failed"}

Start(p) ==
  /\ ~Running /\ runs < MaxRuns /\ runs' = runs + 1
  /\ at' = "table" /\ asked' = p /\ params' = None
  /\ UNCHANGED <<booted, active, inactive, present>>

(* DM_DEVICE_TABLE tells the table in use, not the one that is loaded.      *)
GetParams ==
  /\ at = "table" /\ at' = "update" /\ params' = active
  /\ UNCHANGED <<booted, active, inactive, present, runs, asked>>

------------------------------------------------------------------------------
(* params_comps: nine fields and, in one piece, all that is left; a shorter *)
(* line is refused.                                                         *)
Fields(t) == IF Len(t) < 10 THEN None ELSE t

\* Mutant of Updated: the hash device takes the number of the data device.
Updated_Same(t, p) ==
  IF Fields(t) = None THEN None
  ELSE [i \in DOMAIN Fields(t) |-> CASE i \in {2, 3} -> Number[p[1]] [] OTHER -> Fields(t)[i]]

(* The second and third fields become the numbers of the two devices.       *)
Updated(t, p) ==
  IF Fields(t) = None \/ ~({p[1], p[2]} \subseteq present) THEN None
  ELSE [i \in DOMAIN Fields(t) |-> CASE i = 2 -> Number[p[1]]
                                     [] i = 3 -> Number[p[2]]
                                     [] OTHER -> Fields(t)[i]]

(* swap_devices goes on with whatever update_params returns.                *)
UpdateParams ==
  /\ at = "update" /\ at' = "reload" /\ params' = Updated(params, asked)
  /\ UNCHANGED <<booted, active, inactive, present, runs, asked>>

(* The kernel opens both devices and checks the line when it is loaded; it  *)
(* replaces what an earlier run left there.                                 *)
Reload ==
  /\ at = "reload" /\ params # None /\ {asked[1], asked[2]} \subseteq present
  /\ at' = "resume" /\ inactive' = params
  /\ UNCHANGED <<booted, active, present, runs, asked, params>>

(* A resume without a loaded table only resumes.                            *)
Resume ==
  /\ at = "resume" /\ at' = "ok"
  /\ active' = IF inactive = None THEN active ELSE inactive
  /\ inactive' = None
  /\ UNCHANGED <<booted, present, runs, asked, params>>

(* Any task may fail, no table given to dm_task_add_target included; the    *)
(* process may also be killed with the daemon that started it.              *)
Fail ==
  /\ Running /\ at' = "failed"
  /\ UNCHANGED <<booted, active, inactive, present, runs, asked, params>>

------------------------------------------------------------------------------
(* The device behind a node goes away, or comes back.                       *)
Unplug(n) ==
  /\ n \in present /\ present' = present \ {n}
  /\ UNCHANGED <<booted, active, inactive, runs, at, asked, params>>

Plug(n) ==
  /\ n \notin present /\ present' = present \cup {n}
  /\ UNCHANGED <<booted, active, inactive, runs, at, asked, params>>

Next ==
  \/ \E p \in Pairs : Start(p)
  \/ GetParams \/ UpdateParams \/ Reload \/ Resume \/ Fail
  \/ \E n \in Nodes : Unplug(n) \/ Plug(n)

Spec == Init /\ [][Next]_vars

------------------------------------------------------------------------------
(* Types: tables keep at least ten fields (swap-verity.c:134-185).          *)
TypeOK ==
  /\ booted \in Tables /\ active \in Seq(Field) /\ Len(active) >= 10
  /\ inactive = None \/ (inactive \in Seq(Field) /\ Len(inactive) >= 10)
  /\ present \subseteq Nodes /\ runs \in 0..MaxRuns
  /\ at \in {"idle", "table", "update", "reload", "resume", "ok", "failed"}
  /\ asked = None \/ asked \in Pairs
  /\ params = None \/ params \in Seq(Field)

Devices(t) == <<t[2], t[3]>>

(* What /usr is read through is at every moment, whatever runs failed or    *)
(* were killed, the table of the boot with no change but the two devices,   *)
(* and these are the boot medium's or both of one installation: the root    *)
(* hash, the salt and the options that make /usr trusted stay.              *)
StaysVerified ==
  /\ Len(active) = Len(booted)
  /\ \A i \in DOMAIN booted \ {2, 3} : active[i] = booted[i]
  /\ Devices(active) \in {Devices(booted)} \cup {<<Number[p[1]], Number[p[2]]>> : p \in Pairs}

(* A run that reports success has moved the volume to the devices it was    *)
(* given: what an earlier run loaded and did not resume is not what becomes *)
(* active, and the daemon, which waits for the status, may tell the user to *)
(* remove the medium.                                                       *)
SuccessMoved == at = "ok" => Devices(active) = <<Number[asked[1]], Number[asked[2]]>>

(* Both, of the volume and of the program.                                  *)
Trusted == StaysVerified /\ SuccessMoved

=============================================================================
