----------------------------- MODULE DoInstall -----------------------------
(* One installation as the installer daemon runs it: do_install and the     *)
(* functions it awaits (src/files/gnomeos/live/proto-installer/daemon/      *)
(* main.rs:176-544), over the state that outlives one run of the daemon:    *)
(* the disks, /run/cryptsetup-keys.d, /run/gnomeos-pab, the credentials     *)
(* under /var/lib/gnomeos, the devices the live system runs from, the       *)
(* systemd units.                                                           *)
(*                                                                          *)
(* A daemon serves one recipe and exits; D-Bus activation starts the next   *)
(* one, which finds whatever the previous one left.  Every awaited child or *)
(* call may fail, the daemon may be killed between any two steps, and the   *)
(* rest of the live system (udisks, other programs, systemd) acts between   *)
(* them.                                                                    *)
(*                                                                          *)
(* X_Y is a mutant of action X: the mistake the properties must notice.     *)
EXTENDS Naturals, FiniteSets

CONSTANTS
  Disks,        \* block devices that may be named in a recipe
  MaxInstalls,  \* bound: recipes received during one live session
  UnitsMayStall \* a systemd job may be cancelled, or an automount stopped

Zram   == "zram1"   \* the compressed RAM device below the live root
Medium == "medium"  \* the boot medium below the live /usr

ASSUME DisksAssumption       == Disks \cap {Zram, Medium} = {} /\ Disks # {}
ASSUME MaxInstallsAssumption == MaxInstalls \in Nat
ASSUME StallAssumption       == UnitsMayStall \in BOOLEAN

VARIABLES
  machine,    \* what main finds: [tpm2, pcrlock]
  step,       \* where the daemon's main task stands
  recipe,     \* the InstallationRecipe being served
  installs,   \* recipes received so far; numbers the keys and the policies
  inhibited,  \* _inihibit_fd is open
  branch,     \* progress of the three futures of the try_join!
  child,      \* the swap-verity process
  orphan,     \* the command a killed daemon was waiting for, still running
  disk,       \* what is on each disk
  rootKey,    \* /run/cryptsetup-keys.d/root.key: the key of that number
  marked,     \* /run/gnomeos-pab/*
  policy,     \* the pcrlock policy in force
  creds,      \* policy whose credentials lie in install-credentials
  rootDev,    \* device below /
  usrDev,     \* device below the dm-verity volume of /usr
  unit,       \* the efi.automount and systemd-zram-setup@zram1 units
  loop        \* a loop device backs /dev/gnomeos-installer/gpt

task  == <<step, recipe, installs, inhibited, branch, child, orphan>>
files == <<rootKey, marked, policy, creds>>
live  == <<rootDev, usrDev, unit, loop>>
vars  == <<machine, task, disk, files, live>>

-----------------------------------------------------------------------------
(* Values.  A key, and a policy, is the number of the recipe it was made    *)
(* for; 0 is the empty key, no policy, no credentials.                      *)

Number == 0 .. MaxInstalls

Units == {"efi", "zram"}

\* The state each unit future waits for besides "failed".
Wanted(u) == IF u = "efi" THEN "active" ELSE "inactive"

\* table: no partition table, somebody else's, being written by
\* systemd-repart, an installed system, an OEM image without a root partition
Table == {"none", "foreign", "partial", "gnomeos", "deferred"}

DiskState == [table: Table, slot0: Number, token: BOOLEAN, creds: Number]

Recipe == [disk: Disks, key: Number, oem: BOOLEAN]

Blank(t) == [table |-> t, slot0 |-> 0, token |-> FALSE, creds |-> 0]

Machine == [tpm2: BOOLEAN, pcrlock: BOOLEAN]

\* The futures of the try_join!.
UnitPoints == {"call", "poll", "check", "done"}
Branches == [efi: UnitPoints, swap: {"wait", "done"}, zram: UnitPoints]

UnitState == {"active", "inactive", "failed"}
UnitRecord == [state: UnitState, job: BOOLEAN]

Writing   == {"partition", "import", "forget", "settle", "join", "unloop"}
Preparing == {"save", "mark", "unlock", "policy", "repart"}
\* The steps that wait for a command which changes a disk or a device.
Commands == {"repart", "partition", "import", "unloop"}
Working   == {"dryrun", "inhibit"} \cup Preparing \cup Writing
Ended     == {"finished", "failed"}
Step      == {"down", "idle"} \cup Working \cup Ended

Target    == recipe.disk
Encrypted == machine.tpm2 /\ ~recipe.oem     \* has_tpm2 && !oem_install
Sealed    == machine.pcrlock /\ ~recipe.oem  \* ... && has_pcrlock

TypeOK ==
  /\ machine \in Machine
  /\ step \in Step
  /\ recipe \in Recipe
  /\ installs \in Number
  /\ inhibited \in BOOLEAN
  /\ branch \in Branches
  /\ child \in {"none", "reload", "resume", "ok", "err"}
  /\ orphan \in {"none"} \cup Commands
  /\ disk \in [Disks -> DiskState]
  /\ rootKey \in Number
  /\ marked \subseteq Disks
  /\ policy \in Number
  /\ creds \in Number
  /\ rootDev \in Disks \cup {Zram}
  /\ usrDev \in Disks \cup {Medium}
  /\ unit \in [Units -> UnitRecord]
  /\ loop \in BOOLEAN

-----------------------------------------------------------------------------
(* The live system as booted from the medium, main not yet started.         *)

Start0 == [efi |-> "call", swap |-> "wait", zram |-> "call"]

Init ==
  /\ machine \in Machine
  /\ machine.pcrlock => machine.tpm2
  /\ step = "down"
  /\ recipe \in {r \in Recipe : r.key = 0 /\ ~r.oem}   \* never read before Receive
  /\ installs = 0
  /\ inhibited = FALSE
  /\ branch = Start0
  /\ child = "none"
  /\ orphan = "none"
  /\ disk \in [Disks -> {Blank("none"), Blank("foreign")}]
  /\ rootKey = 0
  /\ marked = {}
  /\ policy = 0
  /\ creds = 0
  /\ rootDev = Zram
  /\ usrDev = Medium
  /\ unit = [u \in Units |->
              [state |-> IF u = "efi" THEN "inactive" ELSE "active", job |-> FALSE]]
  /\ loop \in BOOLEAN

-----------------------------------------------------------------------------
(* The daemon process.                                                      *)

Goto(s) == step' = s /\ UNCHANGED inhibited

\* do_install returns an error: the inhibitor's descriptor is dropped, the
\* temporary directories are removed and InstallationFailed is emitted.
Fail == step' = "failed" /\ inhibited' = FALSE

\* do_install returns Ok: InstallationFinished.
Finish == step' = "finished" /\ inhibited' = FALSE

\* The bus (or graphical.target) starts the service; systemd waits until no
\* process of the previous run is left in its control group.
StartDaemon ==
  /\ step = "down" /\ child = "none" /\ orphan = "none"
  /\ Goto("idle")
  /\ UNCHANGED <<machine, recipe, installs, branch, child, orphan, disk, files, live>>

\* Mutant: the generator gives every daemon the same passphrase.
Receive_SameKey(d, oem) ==
  /\ step = "idle" /\ installs < MaxInstalls
  /\ installs' = installs + 1
  /\ recipe' = [disk |-> d, oem |-> oem,
                key |-> IF oem \/ ~machine.tpm2 THEN 0 ELSE 1]
  /\ Goto("dryrun")
  /\ UNCHANGED <<machine, branch, child, orphan, disk, files, live>>

\* rx.await yields the recipe the Install method sent.
Receive(d, oem) ==
  /\ step = "idle" /\ installs < MaxInstalls
  /\ installs' = installs + 1
  /\ recipe' = [disk |-> d, oem |-> oem,
                key |-> IF oem \/ ~machine.tpm2 THEN 0 ELSE installs + 1]
  /\ Goto("dryrun")
  /\ UNCHANGED <<machine, branch, child, orphan, disk, files, live>>

\* The definitions are written and systemd-repart tries them.
DryRun ==
  /\ step = "dryrun"
  /\ \/ disk[Target].table = "none" /\ Goto("inhibit")
     \/ Fail
  /\ UNCHANGED <<machine, recipe, installs, branch, child, orphan, disk, files, live>>

\* Mutant: the descriptor is dropped at once (let _ = ...).
Inhibit_Dropped ==
  /\ step = "inhibit"
  /\ Goto("save") \/ Fail
  /\ UNCHANGED <<machine, recipe, installs, branch, child, orphan, disk, files, live>>

Inhibit ==
  /\ step = "inhibit"
  /\ \/ step' = "save" /\ inhibited' = TRUE
     \/ Fail
  /\ UNCHANGED <<machine, recipe, installs, branch, child, orphan, disk, files, live>>

\* Mutant: an existing root.key is left as it is.
SaveKey_Kept ==
  /\ step = "save"
  /\ \/ rootKey' = (IF Encrypted /\ rootKey = 0 THEN recipe.key ELSE rootKey) /\ Goto("mark")
     \/ UNCHANGED rootKey /\ Fail
  /\ UNCHANGED <<machine, recipe, installs, branch, child, orphan, disk,
                 marked, policy, creds, live>>

\* root.key is truncated before it is written: a failed write loses the old one.
SaveKey ==
  /\ step = "save"
  /\ \/ rootKey' = (IF Encrypted THEN recipe.key ELSE rootKey) /\ Goto("mark")
     \/ Encrypted /\ rootKey' \in {rootKey, 0} /\ Fail
     \/ ~Encrypted /\ UNCHANGED rootKey /\ Fail
  /\ UNCHANGED <<machine, recipe, installs, branch, child, orphan, disk,
                 marked, policy, creds, live>>

MarkDevice ==
  /\ step = "mark"
  /\ \/ marked' = marked \cup {Target} /\ Goto(IF Sealed THEN "unlock" ELSE "repart")
     \/ UNCHANGED marked /\ Fail
  /\ UNCHANGED <<machine, recipe, installs, branch, child, orphan, disk,
                 rootKey, policy, creds, live>>

\* try_join!(unlock-firmware-config, remove-policy): when either fails the
\* policy may be gone or not, and the other child is no longer waited for.
RemovePolicy ==
  /\ step = "unlock"
  /\ \/ policy' = 0 /\ Goto("policy")
     \/ policy' \in {policy, 0} /\ Fail
  /\ UNCHANGED <<machine, recipe, installs, branch, child, orphan, disk,
                 rootKey, marked, creds, live>>

\* Mutant: credentials already in the directory are not replaced.
MakePolicy_Kept ==
  /\ step = "policy"
  /\ \/ policy' = installs /\ creds' = (IF creds = 0 THEN installs ELSE creds) /\ Goto("repart")
     \/ UNCHANGED <<policy, creds>> /\ Fail
  /\ UNCHANGED <<machine, recipe, installs, branch, child, orphan, disk,
                 rootKey, marked, live>>

\* The rest of make_policy: old credentials removed, policy made, new
\* credentials copied from the fake ESP.
MakePolicy ==
  /\ step = "policy"
  /\ \/ policy' = installs /\ creds' = installs /\ Goto("repart")
     \/ UNCHANGED policy /\ creds' \in {creds, 0} /\ Fail
     \/ policy' = installs /\ creds' \in {0, installs} /\ Fail
  /\ UNCHANGED <<machine, recipe, installs, branch, child, orphan, disk,
                 rootKey, marked, live>>

\* Mutant: only the dry run demands an empty disk.
StartRepart_AnyDisk ==
  /\ step = "repart"
  /\ disk' = [disk EXCEPT ![Target] = Blank("partial")]
  /\ Goto("partition")
  /\ UNCHANGED <<machine, recipe, installs, branch, child, orphan, files, live>>

\* systemd-repart --dry-run=no --empty=require is spawned and accepts the disk.
StartRepart ==
  /\ step = "repart"
  /\ \/ /\ disk[Target].table = "none"
        /\ disk' = [disk EXCEPT ![Target] = Blank("partial")]
        /\ Goto("partition")
     \/ UNCHANGED disk /\ Fail
  /\ UNCHANGED <<machine, recipe, installs, branch, child, orphan, files, live>>

\* What a complete run of systemd-repart leaves: install-credentials are in
\* the ESP whatever the kind of installation (CopyFiles of 10-esp.conf).
Partitioned ==
  [table |-> IF recipe.oem THEN "deferred" ELSE "gnomeos",
   slot0 |-> IF Encrypted THEN rootKey ELSE 0,
   token |-> FALSE,
   creds |-> creds]

\* systemd-repart is done.  BlockDeviceReplace=/ moves the live root unless
\* the root partition is deferred.
Complete ==
  /\ disk' = [disk EXCEPT ![Target] = Partitioned]
  /\ rootDev' = IF recipe.oem THEN rootDev ELSE Target

\* What an unfinished run of systemd-repart leaves, its table written or not.
Torn == {disk, [disk EXCEPT ![Target] = Blank("none")]}

\* Where do_install goes when the partition list has been read.
AfterRepart == IF machine.tpm2 THEN "import" ELSE "settle"

\* Mutant: an OEM installation goes on to the steps of an ordinary one.
EndRepart_OemGoesOn ==
  /\ step = "partition"
  /\ Complete /\ Goto(AfterRepart)
  /\ UNCHANGED <<machine, recipe, installs, branch, child, orphan, files,
                 usrDev, unit, loop>>

\* systemd-repart ends.  The disk may be left complete even when the call
\* counts as failed (exit status, output that cannot be parsed).
EndRepart ==
  /\ step = "partition"
  /\ \/ /\ Complete
        /\ \/ ~recipe.oem /\ Goto(AfterRepart)
           \/ recipe.oem /\ Finish
           \/ Fail
     \/ disk' \in Torn /\ UNCHANGED rootDev /\ Fail
  /\ UNCHANGED <<machine, recipe, installs, branch, child, orphan, files,
                 usrDev, unit, loop>>

\* cryptsetup token import: key slot 0 becomes the recovery key.
ImportToken ==
  /\ step = "import"
  /\ \/ disk' = [disk EXCEPT ![Target].token = TRUE] /\ (Goto("forget") \/ Fail)
     \/ UNCHANGED disk /\ Fail
  /\ UNCHANGED <<machine, recipe, installs, branch, child, orphan, files, live>>

ForgetCredentials ==
  /\ step = "forget"
  /\ \/ creds' = 0 /\ Goto("settle")
     \/ creds' \in {creds, 0} /\ Fail
  /\ UNCHANGED <<machine, recipe, installs, branch, child, orphan, disk,
                 rootKey, marked, policy, live>>

-----------------------------------------------------------------------------
(* try_join!(enable_efi, swap_verity, stop_zram): the futures take turns in *)
(* one task, the first error drops the other two.  A dropped swap_verity    *)
(* leaves its process running.                                              *)

\* The first poll spawns swap-verity; the D-Bus futures wait for replies.
BeginJoin ==
  /\ step = "settle"
  /\ \/ child' = "reload" /\ branch' = Start0 /\ Goto("join")
     \/ UNCHANGED <<child, branch>> /\ Fail
  /\ UNCHANGED <<machine, recipe, installs, orphan, disk, files, live>>

\* load_unit, then start_unit("efi.automount") or stop_unit(zram1).
CallUnit(u) ==
  /\ step = "join" /\ branch[u] = "call"
  /\ \/ /\ unit' = [unit EXCEPT ![u].job = TRUE]
        /\ branch' = [branch EXCEPT ![u] = "poll"]
        /\ Goto("join")
     \/ UNCHANGED <<unit, branch>> /\ Fail
  /\ UNCHANGED <<machine, recipe, installs, child, orphan, disk, files,
                 rootDev, usrDev, loop>>

\* Mutant: the loop does not stop at "failed".
PollUnit_Forever(u) ==
  /\ step = "join" /\ branch[u] = "poll" /\ unit[u].state = Wanted(u)
  /\ branch' = [branch EXCEPT ![u] = "check"]
  /\ UNCHANGED <<machine, step, recipe, installs, inhibited, child, orphan, disk,
                 files, live>>

\* The while loop ends only when it reads one of two states.
PollUnit(u) ==
  /\ step = "join" /\ branch[u] = "poll"
  /\ unit[u].state \in {Wanted(u), "failed"}
  /\ branch' = [branch EXCEPT ![u] = "check"]
  /\ UNCHANGED <<machine, step, recipe, installs, inhibited, child, orphan, disk,
                 files, live>>

\* The state is read once more to choose the result.
CheckUnit(u) ==
  /\ step = "join" /\ branch[u] = "check"
  /\ IF unit[u].state = Wanted(u)
       THEN branch' = [branch EXCEPT ![u] = "done"] /\ Goto("join")
       ELSE UNCHANGED branch /\ Fail
  /\ UNCHANGED <<machine, recipe, installs, child, orphan, disk, files, live>>

\* Mutant: join! instead of try_join!, the error stays in the result.
WaitSwap_Unchecked ==
  /\ step = "join" /\ branch.swap = "wait" /\ child \in {"ok", "err"}
  /\ branch' = [branch EXCEPT !.swap = IF child = "ok" THEN "done" ELSE "failed"]
  /\ Goto("join")
  /\ UNCHANGED <<machine, recipe, installs, child, orphan, disk, files, live>>

\* swap_verity's wait() returns the exit status of the child.
WaitSwap ==
  /\ step = "join" /\ branch.swap = "wait" /\ child \in {"ok", "err"}
  /\ IF child = "ok"
       THEN branch' = [branch EXCEPT !.swap = "done"] /\ Goto("join")
       ELSE UNCHANGED branch /\ Fail
  /\ UNCHANGED <<machine, recipe, installs, child, orphan, disk, files, live>>

\* Mutant: the swap is not waited for.
EndJoin_Early ==
  /\ step = "join"
  /\ branch.efi = "done" /\ branch.zram = "done"
  /\ Goto("unloop")
  /\ UNCHANGED <<machine, recipe, installs, branch, child, orphan, disk, files, live>>

EndJoin ==
  /\ step = "join"
  /\ \A b \in DOMAIN branch : branch[b] = "done"
  /\ Goto("unloop")
  /\ UNCHANGED <<machine, recipe, installs, branch, child, orphan, disk, files, live>>

\* Mutant: the exit status of losetup is ignored.
RemoveLoop_Ignored ==
  /\ step = "unloop"
  /\ loop' \in {loop, FALSE} /\ Finish
  /\ UNCHANGED <<machine, recipe, installs, branch, child, orphan, disk, files,
                 rootDev, usrDev, unit>>

\* remove_loop does nothing unless the link names a loop device.
RemoveLoop ==
  /\ step = "unloop"
  /\ \/ loop' = FALSE /\ Finish
     \/ loop /\ UNCHANGED loop /\ Fail
  /\ UNCHANGED <<machine, recipe, installs, branch, child, orphan, disk, files,
                 rootDev, usrDev, unit>>

-----------------------------------------------------------------------------
(* The swap-verity process; it works on the disk it was started for.        *)

SwapReload ==
  /\ child = "reload"
  /\ child' \in {"resume", "err"}
  /\ UNCHANGED <<machine, step, recipe, installs, inhibited, branch, orphan, disk,
                 files, live>>

SwapResume ==
  /\ child = "resume"
  /\ \/ child' = "ok" /\ usrDev' = Target
     \/ child' = "err" /\ UNCHANGED usrDev
  /\ UNCHANGED <<machine, step, recipe, installs, inhibited, branch, orphan, disk,
                 files, rootDev, unit, loop>>

-----------------------------------------------------------------------------
(* The end of a daemon.                                                     *)

\* main returns after the signal; or the process is killed at any moment.
\* The command it waits for is a child without kill_on_drop and goes on, as
\* swap-verity does; the inhibitor's descriptor is closed.
Exit ==
  /\ step # "down"
  /\ step' = "down" /\ inhibited' = FALSE
  /\ orphan' = IF step \in Commands THEN step ELSE "none"
  /\ UNCHANGED <<machine, recipe, installs, branch, child, disk, files, live>>

\* A systemd-repart spawned just before the end finds the disk empty.
OrphanStarts ==
  /\ orphan = "repart" /\ orphan' = "partition"
  /\ disk[Target].table = "none"
  /\ disk' = [disk EXCEPT ![Target] = Blank("partial")]
  /\ UNCHANGED <<machine, step, recipe, installs, inhibited, branch, child,
                 files, live>>

\* The command ends, having done its work or not.
OrphanEnds ==
  /\ orphan # "none" /\ orphan' = "none"
  /\ \/ orphan = "partition" /\ Complete /\ UNCHANGED loop
     \/ orphan = "partition" /\ disk' \in Torn /\ UNCHANGED <<rootDev, loop>>
     \/ /\ orphan = "import" /\ UNCHANGED <<rootDev, loop>>
        /\ disk' = [disk EXCEPT ![Target].token = TRUE]
     \/ orphan = "unloop" /\ loop' = FALSE /\ UNCHANGED <<disk, rootDev>>
     \/ orphan # "partition" /\ UNCHANGED <<disk, rootDev, loop>>
  /\ UNCHANGED <<machine, step, recipe, installs, inhibited, branch, child,
                 files, usrDev, unit>>

\* systemd kills what remains of the control group (KillMode=control-group).
Reap ==
  /\ step = "down" /\ {child, orphan} # {"none"}
  /\ child' = "none" /\ orphan' = "none"
  /\ IF orphan = "partition" THEN disk' \in Torn ELSE UNCHANGED disk
  /\ UNCHANGED <<machine, step, recipe, installs, inhibited, branch, files, live>>

-----------------------------------------------------------------------------
(* The rest of the live system.                                             *)

\* systemd runs the queued job, which reaches its state, fails, or is
\* cancelled; a job for a state already reached is done.
RunJob(u) ==
  /\ unit[u].job
  /\ \E s \in {Wanted(u), "failed", unit[u].state} :
       /\ unit[u].state = Wanted(u) => s = Wanted(u)
       /\ s \in {Wanted(u), "failed"} \/ UnitsMayStall
       /\ unit' = [unit EXCEPT ![u] = [state |-> s, job |-> FALSE]]
  /\ UNCHANGED <<machine, task, disk, files, rootDev, usrDev, loop>>

\* The started automount point fails, or is stopped by hand.
DropEfi ==
  /\ unit["efi"].state = "active"
  /\ \E s \in {"failed"} \cup (IF UnitsMayStall THEN {"inactive"} ELSE {}) :
       unit' = [unit EXCEPT !["efi"].state = s]
  /\ UNCHANGED <<machine, task, disk, files, rootDev, usrDev, loop>>

\* A disk somebody holds open cannot be formatted or repartitioned.
Busy(d) ==
  \/ d \in {rootDev, usrDev}
  \/ d = Target /\ ("partition" \in {step, orphan} \/ child = "resume")

\* udisks Format("empty"): the installer's window, or another program.
Format(d) ==
  /\ ~Busy(d) /\ disk[d] # Blank("none")
  /\ disk' = [disk EXCEPT ![d] = Blank("none")]
  /\ UNCHANGED <<machine, task, files, live>>

\* Another program writes a partition table on a blank disk.
WriteTable(d) ==
  /\ ~Busy(d) /\ disk[d].table = "none"
  /\ disk' = [disk EXCEPT ![d] = Blank("foreign")]
  /\ UNCHANGED <<machine, task, files, live>>

-----------------------------------------------------------------------------

MainStep ==
  \/ DryRun \/ Inhibit \/ SaveKey \/ MarkDevice \/ RemovePolicy \/ MakePolicy
  \/ StartRepart \/ EndRepart \/ ImportToken \/ ForgetCredentials
  \/ BeginJoin \/ WaitSwap \/ EndJoin \/ RemoveLoop
  \/ \E u \in Units : CallUnit(u) \/ PollUnit(u) \/ CheckUnit(u)

SwapStep == SwapReload \/ SwapResume

Lifecycle ==
  \/ StartDaemon \/ Exit \/ OrphanStarts \/ OrphanEnds \/ Reap
  \/ \E d \in Disks, oem \in BOOLEAN : Receive(d, oem)

Environment ==
  \/ DropEfi
  \/ \E u \in Units : RunJob(u)
  \/ \E d \in Disks : Format(d) \/ WriteTable(d)

Next == MainStep \/ SwapStep \/ Lifecycle \/ Environment

Spec == Init /\ [][Next]_vars

\* The executor polls the task, children exit, systemd runs its jobs; nobody
\* has to kill the daemon, format a disk or call Install.
Fairness ==
  /\ WF_vars(MainStep)
  /\ WF_vars(SwapStep)
  /\ \A u \in Units : WF_vars(CallUnit(u)) /\ WF_vars(PollUnit(u)) /\ WF_vars(CheckUnit(u))
  /\ \A u \in Units : WF_vars(RunJob(u))

FairSpec == Spec /\ Fairness

-----------------------------------------------------------------------------
(* Safety.                                                                  *)

\* When InstallationFinished is emitted for an ordinary installation, the
\* live system no longer needs the medium or the RAM disk: / and /usr are on
\* the new disk and the zram unit has been stopped (main.rs:533-541).
SelfContained ==
  step = "finished" /\ ~recipe.oem =>
    /\ disk[Target].table = "gnomeos"
    /\ rootDev = Target /\ usrDev = Target
    /\ unit["zram"].state = "inactive"

\* The passphrase Install returned is the one in key slot 0 of the finished
\* disk, and that slot carries the recovery token, whatever earlier attempts
\* left in root.key (main.rs:428-438, 468-471, 494-518).
KeyUnlocks ==
  step = "finished" /\ Encrypted =>
    /\ recipe.key # 0
    /\ disk[Target].slot0 = recipe.key
    /\ disk[Target].token

\* No two disks are ever enrolled with the same passphrase, though all
\* attempts hand it over in one file (main.rs:430-437).
KeysNotShared ==
  \A a, b \in Disks : a # b /\ disk[a].slot0 # 0 => disk[a].slot0 # disk[b].slot0

\* On a machine with pcrlock, the credentials in the ESP of an installed disk
\* were made by the same attempt as the passphrase of its root partition; a
\* failed attempt's leftovers never reach it (main.rs:218-252, 279, 521-528).
SameVintage ==
  machine.pcrlock => \A d \in Disks : disk[d].table = "gnomeos" => disk[d].creds = disk[d].slot0

-----------------------------------------------------------------------------
(* The inductive invariant behind the safety properties.                    *)

\* The steps after systemd-repart, all of them of an ordinary installation.
Moved == Writing \ {"partition"}

\* The steps at which systemd-repart has yet to fill the disk.
Filling == {"repart", "partition"}

\* The inhibitor covers every step from the first change on; the root has
\* moved, /usr has moved once swap-verity succeeded, the zram
\* unit is stopped once its future is done.
HandoverInv ==
  /\ step \in Preparing \cup Writing => inhibited
  /\ orphan # "none" => step = "down"
  /\ "partition" \in {step, orphan} => disk[Target].table = "partial"
  /\ step \in Moved \/ orphan \in Moved \/ child # "none" =>
       ~recipe.oem /\ rootDev = Target
  /\ orphan # "none" /\ child # "none" => orphan = "unloop"
  /\ orphan = "import" => disk[Target].table = "gnomeos"
  /\ child # "none" => step \in {"join", "unloop", "down"} \cup Ended
  /\ step \in Moved => disk[Target].table = "gnomeos"
  /\ child = "ok" => usrDev = Target
  /\ step \in {"unloop", "finished"} => child \notin {"reload", "resume"}
  /\ step = "join" /\ branch.swap = "done" => child = "ok"
  /\ step = "join" /\ branch.swap = "done" => usrDev = Target
  /\ step = "join" /\ branch.zram = "done" => unit["zram"].state = "inactive"
  /\ step = "unloop" => unit["zram"].state = "inactive"
  /\ "unloop" \in {step, orphan} => usrDev = Target
  /\ unit["zram"].job => rootDev # Zram
  /\ SelfContained

\* The key of the current recipe is new, goes through root.key to slot 0 of
\* the target and nowhere else; the credentials go with it.
KeyInv ==
  /\ machine.pcrlock => machine.tpm2
  /\ step \notin {"down", "idle"} /\ Encrypted => recipe.key = installs /\ installs # 0
  /\ orphan # "none" /\ Encrypted => recipe.key = installs /\ installs # 0
  /\ step \in {"mark", "unlock", "policy"} \cup Filling /\ Encrypted => rootKey = recipe.key
  /\ orphan \in Filling /\ Encrypted => rootKey = recipe.key
  /\ step \in {"unlock", "policy"} => Sealed
  /\ (step \in Filling \/ orphan \in Filling) /\ Sealed => creds = installs
  /\ step \in Moved \cup {"finished"} /\ Encrypted => disk[Target].slot0 = recipe.key
  /\ step \in (Moved \ {"import"}) \cup {"finished"} /\ Encrypted => disk[Target].token
  /\ \A d \in Disks : /\ disk[d].slot0 <= installs
                      /\ disk[d].slot0 = installs /\ installs # 0 => d = Target
  /\ KeysNotShared /\ SameVintage

IInv == TypeOK /\ HandoverInv /\ KeyInv

-----------------------------------------------------------------------------
(* What a step may never do.                                                *)

\* Data already on a disk goes away only through Format: both systemd-repart
\* runs demand an empty disk, so a table written between them is kept
\* (main.rs:408-419, 455-480).  Importing the token adds to the new system.
DataKept ==
  [][\A d \in Disks :
       disk[d].table \notin {"none", "partial"} /\ disk'[d] # disk[d] =>
         Format(d) \/ (d = Target /\ "import" \in {step, orphan})]_vars

\* A disk is written, and the live root moves, only while the shutdown and
\* sleep inhibitor is held or by the command a killed daemon was waiting for:
\* the descriptor dies with the daemon, its children only with the control
\* group.  The /usr volume may also be switched by the swap-verity of a failed
\* try_join! (main.rs:421-426, 459-480, 533).
WritesInhibited ==
  [][/\ (\E d \in Disks : disk'[d].table \in {"partial", "gnomeos", "deferred"}
                            /\ disk'[d] # disk[d]) => inhibited \/ orphan # "none"
     /\ rootDev' # rootDev => inhibited \/ orphan = "partition"
     /\ usrDev' # usrDev => inhibited \/ step \in {"failed", "down"}]_vars

\* The zram unit leaves the active state only when / is elsewhere, and the
\* loop device of the medium is detached only when /usr is elsewhere
\* (main.rs:533-541).
ReleasedLast ==
  [][/\ unit["zram"].state = "active" /\ unit'["zram"].state # "active" => rootDev # Zram
     /\ loop /\ ~loop' => usrDev # Medium]_vars

-----------------------------------------------------------------------------
(* Liveness.                                                                *)

\* Once the recipe is received do_install comes to an end, good or bad, unless
\* the daemon is killed (main.rs:176-190); the signal it then emits is in
\* InstallerApp, where it may have to wait for the object.
Concluded == step = "dryrun" ~> step \in {"finished", "failed", "down"}

=============================================================================
