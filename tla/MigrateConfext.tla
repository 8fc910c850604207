---------------------------- MODULE MigrateConfext ----------------------------
(***************************************************************************)
(* The migration of /etc to a mutable confext: migrate-confext.cpp and the  *)
(* two services of the initrd that run it and then see that there is an     *)
(* upper layer, over boots, updates, edits and crashes.                     *)
(*                                                                         *)
(* Version 0 is the system of before the migration, with neither a confext  *)
(* nor these services.  An update keeps the version that runs, and the boot *)
(* loader may go back to it.                                                *)
(*                                                                         *)
(* An entry is a regular file or a symbolic link of the user (by = 0) or of *)
(* a version of the system, a link to the old factory, a file that is only  *)
(* partly written, or nothing.                                              *)
(***************************************************************************)
EXTENDS Naturals

CONSTANTS
  Files,       \* the paths of files and links below etc
  Dirs,        \* and of directories
  Parents,     \* the directories on the way to a path
  ConfextType, \* what gnomeos-base-config has at a path: a file, a link or none
  MaxVersion,  \* bound: versions of the system
  MaxCrashes   \* bound: crashes and failed copies

ASSUME PathsAssumption ==
  /\ Files \cap Dirs = {} /\ Parents \in [Files \cup Dirs -> SUBSET Dirs]
  /\ ConfextType \in [Files -> {"file", "link", "none"}]
ASSUME BoundsAssumption == MaxVersion \in Nat \ {0} /\ MaxCrashes \in Nat

VARIABLES
  version,    \* the system that runs
  installed,  \* what the boot loader can start: the last update and the one before
  machineId,  \* whether /etc/machine-id is there
  etc,        \* /etc itself
  creating,   \* the files of etc.creating
  dirs,       \* and its directories
  upper,      \* extensions.mutable/etc: nothing, a directory, or a link to /etc
  layer,      \* what that directory holds
  at,         \* where the boot is
  todo,       \* the paths the iterator has yet to come to
  doing,      \* the path that is being copied, if any
  crashes,
  mine,       \* the paths the user has written
  stale       \* those with a rest in etc.creating of another version or another /etc

systems == <<version, installed>>
disk == <<etc, creating, dirs, upper, layer>>
history == <<mine, stale>>
vars == <<systems, machineId, disk, at, todo, doing, crashes, history>>

Entry == [type : {"none", "file", "link", "factory", "partial"}, by : 0 .. MaxVersion]
None == [type |-> "none", by |-> 0]
Factory == [type |-> "factory", by |-> 0]
Partial == [type |-> "partial", by |-> 0]
Mine == [type : {"file", "link"}, by : {0}]

Confext(f) ==
  IF version = 0 \/ ConfextType[f] = "none" THEN None ELSE [type |-> ConfextType[f], by |-> version]

(* A new system has an empty /etc, an old one what its tmpfiles.d, which    *)
(* may be what a later version has as well, and the user have put there.    *)
Old(f) == {None, Factory} \cup Mine \cup
          (IF ConfextType[f] = "none" THEN {} ELSE [type : {ConfextType[f]}, by : 1 .. MaxVersion])

Init ==
  /\ version \in 0 .. MaxVersion /\ machineId \in BOOLEAN
  /\ installed \in {{version}} \cup (IF machineId THEN {{0, version}} ELSE {})
  /\ etc \in {e \in [Files -> UNION {Old(f) : f \in Files}] :
                \A f \in Files : e[f] \in IF machineId THEN Old(f) ELSE {None}}
  /\ creating = [f \in Files |-> None] /\ dirs = {}
  /\ upper = "none" /\ layer = creating
  /\ at = "off" /\ todo = {} /\ doing = {} /\ crashes = 0
  /\ mine = {f \in Files : etc[f] \in Mine} /\ stale = {}

------------------------------------------------------------------------------
\* Mutant of Boot: the migration waits for what it is to make.
Boot_Reversed ==
  /\ at = "off"
  /\ IF version = 0 THEN at' = "up" /\ machineId' = TRUE /\ UNCHANGED todo
     ELSE /\ UNCHANGED machineId
          /\ IF machineId /\ upper # "none"
               THEN at' = "migrate" /\ todo' = Files
               ELSE at' = "create" /\ UNCHANGED todo
  /\ UNCHANGED <<systems, disk, doing, crashes, history>>

(* The conditions of initrd-migrate-confext.service.                        *)
Boot ==
  /\ at = "off"
  /\ IF version = 0 THEN at' = "up" /\ machineId' = TRUE /\ UNCHANGED todo
     ELSE /\ UNCHANGED machineId
          /\ IF machineId /\ upper = "none"
               THEN at' = "migrate" /\ todo' = Files
               ELSE at' = "create" /\ UNCHANGED todo
  /\ UNCHANGED <<systems, disk, doing, crashes, history>>

(* The boot loader starts the other system: after three boots that did not  *)
(* come up (TriesLeft=3), or as the user chose.                             *)
BootOther ==
  /\ at = "off" /\ version' \in installed \ {version}
  /\ stale' = {f \in Files : creating[f] # None}
  /\ UNCHANGED <<installed, machineId, disk, at, todo, doing, crashes, mine>>

(* What differs from the confext in kind, target, permissions or content;   *)
(* links to the old factory do not count.                                   *)
Modified(f) == etc[f].type \in {"file", "link"} /\ etc[f] # Confext(f)

Visit(f) ==
  /\ at = "migrate" /\ doing = {} /\ f \in todo /\ todo' = todo \ {f}
  /\ doing' = IF Modified(f) THEN {f} ELSE {}
  /\ UNCHANGED <<systems, machineId, disk, at, crashes, history>>

(* copy_with_dir: parents first.  A directory may be there already.         *)
MakeDir(d) ==
  /\ at = "migrate" /\ \E f \in doing : d \in Parents[f] \ dirs
  /\ Parents[d] \subseteq dirs /\ dirs' = dirs \cup {d}
  /\ UNCHANGED <<systems, machineId, etc, creating, upper, layer, at, todo, doing, crashes, history>>

\* Mutant of Open: fs::copy_options::skip_existing.
Open_SkipExisting(f) ==
  /\ at = "migrate" /\ f \in doing /\ Parents[f] \subseteq dirs
  /\ IF creating[f] # None
       THEN doing' = {} /\ UNCHANGED <<at, creating>>
       ELSE IF etc[f].type = "link"
         THEN creating' = [creating EXCEPT ![f] = etc[f]] /\ doing' = {} /\ UNCHANGED at
         ELSE creating' = [creating EXCEPT ![f] = Partial] /\ at' = "copy" /\ UNCHANGED doing
  /\ UNCHANGED <<systems, machineId, etc, dirs, upper, layer, todo, crashes, history>>

\* Mutant of Open: the parents are not made first.
Open_NoParents(f) ==
  /\ at = "migrate" /\ f \in doing
  /\ IF creating[f] # None
       THEN at' = "create" /\ doing' = {} /\ UNCHANGED creating
       ELSE creating' = [creating EXCEPT ![f] = Partial] /\ at' = "copy" /\ UNCHANGED doing
  /\ UNCHANGED <<systems, machineId, etc, dirs, upper, layer, todo, crashes, history>>

(* A file or link may not: the program ends with an exception.  A link is   *)
(* there at once, a file is written after it is opened.                     *)
Open(f) ==
  /\ at = "migrate" /\ f \in doing /\ Parents[f] \subseteq dirs
  /\ IF creating[f] # None
       THEN at' = "create" /\ doing' = {} /\ UNCHANGED creating
       ELSE IF etc[f].type = "link"
         THEN creating' = [creating EXCEPT ![f] = etc[f]] /\ doing' = {} /\ UNCHANGED at
         ELSE creating' = [creating EXCEPT ![f] = Partial] /\ at' = "copy" /\ UNCHANGED doing
  /\ UNCHANGED <<systems, machineId, etc, dirs, upper, layer, todo, crashes, history>>

Copy(f) ==
  /\ at = "copy" /\ f \in doing /\ doing' = {} /\ at' = "migrate"
  /\ creating' = [creating EXCEPT ![f] = etc[f]]
  /\ UNCHANGED <<systems, machineId, etc, dirs, upper, layer, todo, crashes, history>>

(* No space, or a source that cannot be read.                               *)
CopyFails ==
  /\ at \in {"migrate", "copy"} /\ doing # {} /\ crashes < MaxCrashes
  /\ crashes' = crashes + 1 /\ at' = "create" /\ doing' = {}
  /\ UNCHANGED <<systems, machineId, disk, todo, history>>

Rename ==
  /\ at = "migrate" /\ doing = {} /\ todo = {}
  /\ upper' = "dir" /\ layer' = creating /\ at' = "create"
  /\ creating' = [f \in Files |-> None] /\ dirs' = {} /\ stale' = {}
  /\ UNCHANGED <<systems, machineId, etc, todo, doing, crashes, mine>>

\* Mutant of CreateMutable: an empty directory instead of a link.
CreateMutable_Directory ==
  /\ at = "create" /\ at' = "up" /\ machineId' = TRUE
  /\ upper' = IF upper = "none" THEN "dir" ELSE upper
  /\ UNCHANGED <<systems, etc, creating, dirs, layer, todo, doing, crashes, history>>

(* initrd-create-mutable-etc.service is ordered after the migration and     *)
(* does not ask how it ended; then the confexts are merged.                 *)
CreateMutable ==
  /\ at = "create" /\ at' = "up" /\ machineId' = TRUE
  /\ upper' = IF upper = "none" THEN "link" ELSE upper
  /\ UNCHANGED <<systems, etc, creating, dirs, layer, todo, doing, crashes, history>>

------------------------------------------------------------------------------
(* What is seen at a path: the upper layer, the confext, /etc.              *)
View(f) ==
  LET top == IF version = 0 \/ upper = "link" THEN etc[f] ELSE layer[f] IN
    IF top # None THEN top
    ELSE IF Confext(f) # None THEN Confext(f)
    ELSE etc[f]

(* A path of /etc itself is changed, with what etc.creating may have of it. *)
Put(f, e) ==
  /\ etc' = [etc EXCEPT ![f] = e]
  /\ stale' = stale \cup {g \in {f} : creating[g] # None}

(* Where /etc itself is written: by the old system, and through the link.   *)
Below == version = 0 \/ upper = "link"

(* Once there is a layer, what the old system writes is not seen in a new   *)
(* one: "we cannot rollback" (migrate-confext.cpp:22).                      *)
Edit(f) ==
  /\ at = "up"
  /\ \E e \in Mine :
       \/ Below /\ Put(f, e) /\ UNCHANGED layer
       \/ ~ Below /\ layer' = [layer EXCEPT ![f] = e] /\ UNCHANGED <<etc, stale>>
  /\ mine' = IF version = 0 /\ upper = "dir" THEN mine ELSE mine \cup {f}
  /\ UNCHANGED <<systems, machineId, creating, dirs, upper, at, todo, doing, crashes>>

Remove(f) ==
  /\ at = "up" /\ Below /\ etc[f] # None /\ Put(f, None)
  /\ mine' = IF upper = "dir" THEN mine ELSE mine \ {f}
  /\ UNCHANGED <<systems, machineId, creating, dirs, upper, layer, at, todo, doing, crashes>>

(* Two instances are kept, the one that runs among them.                    *)
Update ==
  /\ at = "up" /\ at' = "off" /\ todo' = {}
  /\ \E v \in 1 .. MaxVersion :
       (\A i \in installed : v > i) /\ version' = v /\ installed' = {version, v}
  /\ stale' = {f \in Files : creating[f] # None}
  /\ UNCHANGED <<machineId, disk, doing, crashes, mine>>

Reboot ==
  /\ at = "up" /\ at' = "off" /\ todo' = {}
  /\ UNCHANGED <<systems, machineId, disk, doing, crashes, history>>

(* What was done stays done.                                                *)
Crash ==
  /\ at # "off" /\ crashes < MaxCrashes /\ crashes' = crashes + 1
  /\ at' = "off" /\ todo' = {} /\ doing' = {}
  /\ UNCHANGED <<systems, machineId, disk, history>>

Next ==
  \/ Boot \/ BootOther \/ Rename \/ CopyFails \/ CreateMutable \/ Update \/ Reboot \/ Crash
  \/ \E f \in Files : Visit(f) \/ Open(f) \/ Copy(f) \/ Edit(f) \/ Remove(f)
  \/ \E d \in Dirs : MakeDir(d)

Spec == Init /\ [][Next]_vars

Program == Boot \/ Rename \/ CreateMutable \/ (\E d \in Dirs : MakeDir(d))
           \/ \E f \in Files : Visit(f) \/ Open(f) \/ Copy(f)

(* A boot goes on until it is up, unless it crashes.                        *)
FairSpec == Spec /\ WF_vars(Program)

------------------------------------------------------------------------------
(* The variables keep their types, and nothing is copied before the         *)
(* directory it goes to is made (migrate-confext.cpp:34-37).                *)
TypeOK ==
  /\ version \in 0 .. MaxVersion /\ version \in installed /\ installed \subseteq 0 .. MaxVersion
  /\ machineId \in BOOLEAN /\ crashes \in 0 .. MaxCrashes
  /\ etc \in [Files -> Entry] /\ creating \in [Files -> Entry] /\ layer \in [Files -> Entry]
  /\ dirs \subseteq Dirs /\ todo \subseteq Files /\ doing \subseteq Files
  /\ mine \subseteq Files /\ stale \subseteq Files
  /\ upper \in {"none", "dir", "link"}
  /\ at \in {"off", "migrate", "copy", "create", "up"}
  /\ \A f \in Files : creating[f] # None => Parents[f] \subseteq dirs

(* Whenever the system is up, each file and link of the user is what is     *)
(* seen, whole, whatever crashed, failed, was updated or rolled back        *)
(* before.  Excepted is the old system once there is a layer: it does not   *)
(* see the layer, nor the layer what is then written in it.                 *)
NothingLost == at = "up" /\ (version # 0 \/ upper # "dir") => \A f \in mine : View(f) \in Mine

(* The upper layer is made of what differs from the confext of the version  *)
(* that makes it, whole, and of nothing else, so that no other file hides   *)
(* the updates from then on (migrate-confext.cpp:10, 16).  One exception:   *)
(* where nothing differs, an earlier attempt under another version or       *)
(* another /etc may have left a copy, perhaps partial, and that goes along. *)
Exact ==
  [][upper' = "dir" /\ upper # "dir" =>
       \A f \in Files :
         IF etc[f] \in {None, Factory, Confext(f)} THEN layer'[f] = None \/ f \in stale
         ELSE layer'[f] = etc[f]]_vars

(* "This migrate /etc from an old tmpfiles.d, to mutable confext"           *)
(* (migrate-confext.cpp:4): a system that has a machine-id when it boots    *)
(* with the migration ends with an upper layer of its own, unless a boot    *)
(* crashes or the boot loader goes back to the old system.  One crash after *)
(* the first copied file keeps it from migrating for ever: every later      *)
(* attempt finds the file and gives up.                                     *)
Migrates ==
  machineId /\ upper = "none" /\ version # 0 ~> upper = "dir" \/ crashes # 0 \/ version = 0

=============================================================================
