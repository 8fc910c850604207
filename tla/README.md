# A TLA+ verification of gnome-build-meta

GNOME/gnome-build-meta describes how GNOME OS is built, tested, published and
installed. Most of it is data for BuildStream. The programs among that data are
what this project is about, first of all the installer of the live system, in
which several processes, the bus, systemd and the disks take part and which
cannot be tested without losing a disk.

All paths are relative to the repository; `main.rs` is
`files/gnomeos/live/proto-installer/daemon/main.rs`, `installer.py` is
`files/gnomeos/live/proto-installer/installer.py`.

## Inventory

| Component | Where | State | Operations | Interaction | Hard parts | What makes it correct |
|---|---|---|---|---|---|---|
| Installer daemon, `do_install` | main.rs 176-544 | position in `do_install`, recipe, inhibitor; left behind: `root.key`, markers, pcrlock policy, `install-credentials`, disks | one awaited child or call after the other, three at once at the end | spawns systemd-repart, systemd-pcrlock, cryptsetup, swap-verity, losetup; calls logind and systemd | each step may fail; death anywhere; cancelled futures; leftovers of earlier attempts | key, credentials and disk belong together; the live session never loses what it runs from |
| Installer daemon, `Install` | main.rs 546-682 | oneshot sender, interface lock | `Install`, two signals | called by windows, asks polkit, hands the recipe to `main` | concurrent calls, restart by activation | one recipe per daemon |
| Installer window | installer.py | windows, status page, mode | launch, activate, press, signals | D-Bus, udisks | calls that time out, signals before or after the page, two windows, two sessions | the page tells the truth and ends |
| swap-verity | files/gnomeos/live/swap-verity.c | dm table of /usr | read, rewrite, reload, resume | child of the daemon | outlives its parent's interest | /usr on the new disk or unchanged |
| Live generators | files/gnomeos/live/*.c | unit files | generate, mask, enable | systemd, zram-generator | initrd and system, partial failure | the units the installer needs exist exactly in a live system |
| zswap | files/zswap-generator/main.rs | swap files, loop devices | generate, create, stop | systemd, udev | services racing for a loop device | one device per file, nothing left over |
| Sysupdate publication | .gitlab-ci/scripts/publish-*.sh | a bucket | upload, merge checksums, sign | jobs of two architectures, clients | lost update, two objects that belong together | a published list is signed and complete |
| Sysupdate transfers | files/sysupdate, utils/run-sysupdate-repo.sh | slots, boot entries, version counter | update, serve | systemd-sysupdate | power loss, concurrent runs | there is always a bootable version |
| Initramfs copier | files/gnomeos/generate-initramfs/copy-initramfs.py | queue, dependency map | discover, copy | modinfo, ELF, units | cycles | closed under dependencies, parents first |
| Confext migration | files/gnomeos/confext/migrate-confext.cpp | `etc.creating`, `etc` | copy, rename | reboots | crash in the middle | all modified files or none |
| OCI layers | files/gnomeos/make-layer.py | layers | diff, whiteout | - | deletions, type changes | lower layers + layer = tree |
| MIME defaults | files/gnome-mimeapps/generate.py | lists per type | two sorts, overrides | - | comparator is not an order | an incubating app precedes the one it replaces |
| CVE database | .gitlab-ci/scripts/update-local-cve-database.py | etags, cached files, tables | update a year | nvd server | timeouts, one commit | a recorded etag has its data, a finished run is up to date |
| Reference tracking | .gitlab-ci/scripts/ci-bot-track-refs.sh, update-refs.py | merge requests, refs | list, track, restore, commit, push | GitLab, marge-bot, people | pipelines beside each other, changes meanwhile | a merge undoes nobody's change; the refs become the newest |
| Release notes | .gitlab-ci/scripts/write_news.py, generate_news.py, utils/create_announcement.py | NEWS, archives, posts | compare, archive, announce | release service, forum | archives in any order, predecessor arithmetic | a NEWS file tells all that changed |
| MIME note | .gitlab-ci/scripts/ci-bot-comment-mimeapps.py | notes of a merge request | find, update, create | reviewers, pushes | retries, notes resolved meanwhile | reviewers are told of the difference |
| Permissions | files/gnomeos/save-perms/save-perms.py | lines for tmpfiles.d | walk, write | BuildStream, systemd-tmpfiles | two tools undo one another's work | modes and attributes come through |
| Flatpak and OCI publication | .gitlab-ci/scripts | - | push, publish | flat-manager, registry | overlapping pipelines | not modelled, see below |
| VM and phone helpers, device helpers, build data | utils, files | - | - | - | - | not modelled: wrappers, straight-line scripts, data |

`PROJECT.json` lists each of them under `components`, with the sources, and the
hazards of the code at their lines under `hazards`.

## Modules

* `DoInstall` - one installation after the other as the daemon runs them.
* `Handover` - what an installation promises to the session it runs in.
* `DoInstallHandover` - the refinement mapping from `DoInstall` to `Handover`.
* `DoInstallProofs` - the theorems about `DoInstall`.
* `MCDoInstall` - `DoInstall` on small sets.
* `InstallerApp` - the windows, the bus and the `Install` method.
* `InstallerAppProofs` - the theorems about `InstallerApp`.
* `MCInstallerApp` - one session with two windows, two sessions with three.
* `SysupdatePublish` - concurrent publications in one directory of the bucket.
* `SysupdateProofs` - the theorems about `SysupdatePublish`.
* `MCSysupdatePublish` - the jobs of one pipeline, and of two.
* `CopyInitramfs`, `CopyInitramfsProofs`, `MCCopyInitramfs` - copying a file with
  all it needs, the theorems, small build systems.
* `ReleaseNews`, `ReleaseNewsProofs`, `MCReleaseNews` - the pipelines of release
  tags, the theorems, a series of five tags.
* `MigrateConfext`, `MigrateConfextProofs`, `MCMigrateConfext` - the migration of
  /etc over boots, the theorems, three paths.
* `CveDatabase`, `TrackRefs`, `MimeappsNote` - three jobs of the pipelines,
  composed in `CiJobs`; `CiJobsProofs`, `MCCiJobs`.
* `MakeLayer`, `SavePerms`, `MimeDefaults` - three programs of the image build,
  and `DiskChoice`, `VeritySwap` - the disk list of the installer and
  swap-verity, composed in `Programs`; `ProgramsProofs`, `MCPrograms`.

`CiJobs` and `Programs` instantiate modules that share no state. A behaviour of
theirs is a behaviour of one of the modules (`which`), on that module's own
inputs; the variables of the others stand still. Each module has its `Spec` and
its properties and can be checked by itself. `MCCiJobs` and `MCPrograms` add
nothing but the inputs of the runs, so that the theorems, which are about `CiJobs`
and `Programs`, and the runs speak of the same definitions.

Definitions named `X_Y` are mutants of the action `X`: a plausible mistake in
that part of the code, never used by `Next`, kept to show that the properties
notice it.

### DoInstall

The daemon's task is one sequence of awaits, so `step` is the await it stands
at; every action is the code between two of them, with its error path. `Fail`
and `Finish` are the two branches of `do_install_handle_errors`: the value is
returned, so the inhibitor's descriptor, a local of `do_install`, is dropped.

| Action | Code |
|---|---|
| `StartDaemon`, `Receive`, `Exit` | `main` up to `rx.await`, the recipe, the end or death of the process |
| `DryRun` | `write_repart_d`, `systemd-repart --dry-run=yes` |
| `Inhibit` ... `MarkDevice` | main.rs 421-447 |
| `RemovePolicy`, `MakePolicy` | `make_policy`, split at its `try_join!` |
| `StartRepart`, `EndRepart` | the real systemd-repart, while it runs the table is partial |
| `ImportToken`, `ForgetCredentials` | main.rs 494-528 |
| `BeginJoin`, `CallUnit`, `PollUnit`, `CheckUnit`, `WaitSwap`, `EndJoin` | the three futures of the `try_join!`, interleaved; the two unit futures have one shape |
| `RemoveLoop` | `remove_loop` |
| `SwapReload`, `SwapResume` | the swap-verity process, which may go on after a failed `try_join!` and even after the daemon exits, until `Reap` |
| `OrphanStarts`, `OrphanEnds` | the command a killed daemon was waiting for (`orphan`), until it ends or `Reap` |
| `RunJob`, `DropEfi` | systemd |
| `Format`, `WriteTable` | udisks for any window, other programs |

A key, a policy and a set of credentials are the number of the recipe they were
made for, which is all the properties tell apart. 0 is the empty key, no policy,
no credentials. A disk is its table, key slot 0, whether the slot has the
recovery token, and the credentials in its ESP. `Partitioned` is what the
definitions of `write_repart_d` and the options at main.rs 466-471 make
systemd-repart leave; `BlockDeviceReplace=/` is why the live root moves at that
step.

Decisions worth knowing:

* systemd-repart, killed or failing, leaves a partial table or none. It may also
  have finished and still count as failed, since its output is parsed afterwards.
* The dry run does not lock the disk; a table may appear before the real run.
* No command is started with `kill_on_drop` (main.rs 351, 476). When the daemon
  dies, the one it was waiting for goes on without it, systemd-repart included,
  and may still fill the disk and move the root, until systemd kills the control
  group; the inhibitor's descriptor is closed by then. `Commands` are the steps that
  wait for a command which changes a disk or a device; `OrphanStarts` is a
  systemd-repart that was spawned but had not yet begun to write.
* A disk below / or /usr, or one being written, is refused by udisks (`Busy`).
* swap-verity's device arguments are those of the recipe that started it; a new
  recipe is not received while an old child lives, because systemd waits for the
  control group (`StartDaemon`), so `Target` is still its disk. The same goes for
  an orphan.
* Disks have partition tables or none: bare file systems are in `DiskChoice` only,
  so `DataKept` speaks of partition tables.
* `UnitsMayStall` allows a unit to settle in a state the loops of
  main.rs 341 and 390 do not end on.

### Handover

Five variables: `phase`, `plan`, `root`, `usr`, `held`. The root moves to the
disk asked for, then /usr, in this order; a live resource is let go of only
while nothing is on it; success is reported when nothing of the live media is
held; an OEM installation touches nothing. Two things are deliberately allowed
because the code does them: /usr may still move after the failure was reported,
and after a session that was cut short (`phase = "cut"`) the one move its orphan
was making may take place, until `Stop`. `Onward` says where a session stands
after a move.

`DoInstallHandover` computes `phase` from `step`, `orphan` and `child`, and `held`
from the zram unit and the loop device.

### InstallerApp

A process per session (`Apps`), windows, one daemon at a time. `gen` stands for
the unique bus name of the daemon, to which a window's proxy and its signal
matches are bound. Install calls are served one at a time because the method
takes `&mut self`; polkit is asked inside. `GiveUp` is dbus-python's default
timeout. `Dispatch` is the GLib main loop, which stands still during a blocking
call. `do_install` is its outcome here (`Report`); its signal takes the read lock of
the interface, so it waits while an Install call is `serving`, which may be for as
long as polkit does not answer (main.rs 181, 572-596). `Exit` is the end of the
program after its signal, `Kill` a death anywhere.

`asked` in windows, calls and recipes is a history variable: whether the window
was opened by a launch with `--oem-mode`.

### SysupdatePublish

`.gitlab-ci/scripts/publish-sysupdate-to-s3.sh`, once per architecture and
pipeline (`.s3-image` in `.gitlab-ci.yml`, which is not interruptible on the
branches that publish, and is tried again when its runner fails). All jobs of a
branch write to one directory and nothing serialises them.

| Action | Code |
|---|---|
| `Start` | the job, or its next attempt, on a fresh runner |
| `Upload` | the first `aws s3 sync`: images and the job's own list, in any order |
| `BeginFetch`, `Merge` | `aws s3 cp --recursive` of all lists, `cat`: keys that come while the pages are listed may be seen or not |
| `Sign` | `gpg` |
| `Compare`, `Put` | the second sync: it compares first, then uploads what is left, in either order |
| `End`, `Die` | the end of the script; `set -e`, or the runner goes away |

A list, the images it stands for and the job that made them are one value. What
`aws s3 sync` compares, size and time of change, is modelled (`Skipped`): all
signatures have one size, and two lists have if they have as many entries of
each architecture. Clocks of runners and bucket are taken to agree. Nothing
deletes objects in this code, so nothing does here.

### CopyInitramfs

copy-initramfs.py, one process per `install_file_at_path` of the modules, all
for one tree.

| Action | Code |
|---|---|
| `Call` | `main` up to its loop |
| `Visit` = `Skip`, `NotFound`, `Raise`, `Record` | one round of the loop of discovery |
| `Process`, `Descend`, `Copy` | `process` and `copy`: the recursion is `stack` |
| `Return` | the end of the program |
| `Make` | `mkdir -p`, `touch`, `ln -s` by the modules themselves |

What a file, link or unit asks for (`modinfo`, ELF, `Wants=`...) is data of the
build system: the paths a resolver tries, and whether it raises if none is there
(`dlopen` notes). `real` stands for links in the directory part of a name, which
is where a tree can have the same entry under two names. Two things the modules
could do and do not are left out: they make no entries where the host has a link
to a directory, and install under another name only files where the host has no
directory. ldconfig and depmod, which run after the last call, are left out.

### ReleaseNews

`Tag`, then per tag `Archive` (generate_archive.sh with write_news.py and
generate_news.py), `Fail` and `Retry`, `Release` (the release service, external)
and `Announce` (create_announcement.py); `Bump` and `Drop` are merge requests
between tags. A version of a module is a number and its NEWS file the entries up
to it; `Silent` are tarballs without one. `Raises` are the cases the scripts end
with an exception in. `Announce` takes the minor version as the string `main`
passes, so that the comparison with the number 10 is never true (a hazard). The
plan of the run has no skipped version; a skipped one leaves its successor
without an archive to compare with.

### MigrateConfext

migrate-confext.cpp and the two services of the initrd.

| Action | Code |
|---|---|
| `Boot` | the conditions of initrd-migrate-confext.service |
| `Visit`, `MakeDir`, `Open`, `Copy`, `CopyFails` | one round of the iteration: the comparison, `copy_with_dir` |
| `Rename` | lines 99 to the end |
| `CreateMutable` | initrd-create-mutable-etc.service, then the confexts are merged (`View`) |
| `BootOther` | the boot loader starts the other installed version |
| `Edit`, `Remove`, `Update`, `Reboot`, `Crash` | the user, systemd-sysupdate, power |

A file is visible as soon as it is opened and whole only later (`Partial`);
`copy_file` and `copy_symlink` refuse an existing target. `Init` has every /etc an
old system can have: links to the factory, files of this and older versions, the
user's. What was done before a crash stays; what a file system may lose of it
without a sync is not modelled.

Version 0 is the old system, with neither confext nor migration; what it writes
goes to /etc itself. `installed` has at most two versions, the last update and the
one that ran when it was made (90-gnomeos-kernel.transfer, InstancesMax=2). After
boots that did not come up (TriesLeft=3), or because the user chose so, the other
one is started: `BootOther` may happen before any boot, so the boots it needs are
not counted. Then what an interrupted migration left in `etc.creating` may belong
to another version, or, as /etc may be edited in between, to another /etc: `stale`,
a history variable, is the set of those paths.

### CveDatabase

update-local-cve-database.py against a server that changes at any time. `Start`,
`NotModified`, `NotFound`, `Respond`, `Read`, `Parse` and `Commit` are the code
from one request or write to the next, `Timeout` the handler of lines 126-129 and
`Fail` all else that ends the run. `db` is committed, `tx` what the open
transaction sees, `file` is beside both. An entry is the number of its
modification, and so is the row it has in `product_vuln` (`vuln`), where `INSERT OR
REPLACE` never takes a row away, because the UNIQUE of that table covers all
columns. `since` and `late` are history variables: what the server had when the run
began, and whether a timeout made it use a cached file. No job of this repository
runs the script (cve-report.sh fetches a finished database), so nothing is assumed
about when it runs; `Modify`, `CatchUp` and `Expire` are what the feeds promise: a
modification is in `Modified` first, stays there until its year has it, and
longer than a run lasts.

### TrackRefs

ci-bot-track-refs.sh around update-refs.py, in pipelines that may run beside each
other. `Begin` checks out, `ListRequests` ends the job if a request is open,
`Track` is update-refs.py with what bst finds (external), `Commit` restores the
ignored elements and fails if nothing is left, `Push` makes the branch of the
minute and its request. `TypeOf` is `get_element_type`, through includes.
`Release`, `Change`, `Merge` and `Close` are upstream, people, marge-bot and
people again; a merge takes what the branch changed, and cannot be made where
master changed as well.

### MimeappsNote

The job update_mimeapps in merge requests: `Compare` is `cmp`, `Visit` one
discussion in the loop of lines 48-64, `Save` and `Create` its two ways out. A
push cancels the job before it, a call may fail and the job be tried again, and
reviewers resolve and reopen notes at any time, between fetch and save too. A
stamp is a hash of the difference; here it is the difference. The search ends at the
first note with the stamp, resolved or not, and `save` does not ask whether the note
was resolved since it was fetched; both are listed as a hazard.

### MakeLayer, SavePerms, MimeDefaults

`MakeLayer`: `CopyUpper` is a round of the first walk with copy_dir, copy_link or
copy_file, `Whiteout` of the second. Paths are looked up through links, as os.path
does. A directory has a mode and an owner, a file has an owner among what it can be:
`Copied` is what shutil.copy2 and copystat keep of an entry, which is all but the
owner (of a parent made on the way too, `DirLike`), and two directories at one path
are the same to the program, whatever their modes. `Overlay` is what an overlay file
system shows, the reference the layer is compared with; `Compatible` names two
changes of type the program does not handle (a hazard).

`SavePerms`: `Visit` is a round of os.walk with `retrieve_one`, `Write` the file of
lines, `Artifact` what BuildStream keeps, `Apply` a line of systemd-tmpfiles (both
external). The root itself is not walked, so it is excepted. Paths are escaped, as
systemd-tmpfiles wants it. The value of an attribute is not (save-perms.py 58): one
with a blank, a quote, a backslash or a percent sign, or an empty one, is `special`,
and does not come back as it was (`Taken`); one that is not ASCII ends the program.

`MimeDefaults`: `Scan` reads desktop files in any order, `Sort` is `apps.sort()` and
then list.sort with the comparator, modelled by what CPython does for short lists,
binary insertion after the first run, because the comparator is not an order and
the result depends on the algorithm. `FirstRun` is that of CPython up to 3.12; 3.13
and later end the first run differently where neighbours compare equal, which is
not modelled. `Insert` is one insertion (`range` the rounds
of its binary search), `SortIncubating` makes them one after the other (`sorted`).
`Override` is one entry of quirks.toml.

### DiskChoice and VeritySwap

`DiskChoice`: `Activate` and `Read` are get_disks, which asks for one object after
the other; `Present`, `Select`, `Press`, `Respond`, `Format` and `FormatFails` the
window; `Refuse` to `InstallFails` what the daemon promises, `--empty=require`
included. Other programs write tables and disks come and go at any time, so that
a name may mean another disk than the one listed. Fault and use of a disk are
constants of the disk. Two cases are left out: a second launch while the dialog is
open, and an installation that begins after the window's call timed out; the latter
is in `InstallerApp`.

`VeritySwap`: `GetParams`, `UpdateParams`, `Reload`, `Resume`, each of which may
fail, over several runs with other devices; nodes may disappear. A table is the
sequence of its fields. `swap_devices` goes on with whatever update_params
returned, so a line that could not be made reaches `Reload`, where libdevmapper
refuses it (external). Device numbers belong to nodes.

## Runs

| Run | Bounds | Checks |
|---|---|---|
| `install_safety` | 2 disks, 2 recipes, units may stall | `TypeOK` `SelfContained` `KeyUnlocks` `KeysNotShared` `SameVintage` `DataKept` `WritesInhibited` `ReleasedLast` `HandoverSpec` |
| `install_live` | 1 disk, 2 recipes, units do not stall | `Concluded` |
| `installer_sessions` | 2 processes, 3 windows, 2 daemons that may die | `TypeOK` `OneInstallPerDaemon` `PageTruth` |
| `installer_live` | 1 process, 2 windows, 2 daemons that may die | `PageSettles` |
| `installer_oem` | 1 process, 2 windows, both modes of launching | `OemHonoured`, violated |
| `publish_safety` | 3 jobs: 2 architectures, 2 versions; 3 attempts in all | `TypeOK` `OneSeesTheOther` `ListedOrRunning` `Repaired` |
| `publish_lost` | the 2 jobs of a pipeline, one attempt each | `AllListed`, violated |
| `initramfs` | 2 calls on 10 build systems of 9 names | `TypeOK` `ParentsFirst` `Closed` `Ends` |
| `news` | 5 tags from alpha to .1, 3 modules, 2 new versions and 1 removal in all | `TypeOK` `NewsTells` |
| `migrate` | 3 paths, 2 directories, the old system and 2 versions, 2 crashes or failed copies | `TypeOK` `NothingLost` `Exact` `Migrates` |
| `ci_jobs` | 1 year and `Modified`, 3 modifications, 3 faults; 2 pipelines, 2 minutes, 2 versions, 2 faults; 4 pushes, 2 differences | `TypeOK` `NotModifiedIsUsable` `Fresh` `Told` `NeverReverts` `CatchesUp` |
| `programs` | trees of 6 paths, trees of 4 nodes, 4 applications, 3 disks under 2 names, 3 runs of swap-verity | `TypeOK` `Restores` `Restored` `NeighbourFirst` `AskedFirst` `Trusted` |

Two recipes are enough for every leftover to meet the next attempt, on the same
disk and on another one: nothing is kept for longer than it takes the next
attempt to overwrite it, and the proofs confirm it for any number. Two windows
of one process and one of another are the smallest set with a competitor inside
the session and one outside. Two daemons let a window be bound to one that is
gone. `installer_*` runs do not check deadlock: when all daemons of the bound
are used up and the pages are closed nobody has to do anything.

`installer_oem` shows the finding in `PROJECT.json`: launched with `--oem-mode`
(installer.py 264: "Install in OEM mode") while an installer is already open in
the session, as it is after login because of the autostart file, the program
opens one more window of the running process, whose mode is that of its own
launch, and `Install` is called with `oem_install` false.

Three publications are two that race and one that finds what they left; three
attempts are shared, so they are also two jobs of which one is tried again. The
proofs have neither bound. `publish_lost` shows the other finding: both jobs of
a pipeline end well and SHA256SUMS names the images of one, although
`docs/ci-outputs.md` line 19 describes the repository with both. It is repaired
by the next publication (`Repaired`), and never are both left out
(`OneSeesTheOther`). Publications simply end, so the runs do not check deadlock.

The build systems of `initramfs` have a merged /usr or none, two libraries that
need each other under either name, one of them perhaps absent, or a link to the
other or to nothing, which the program takes for absent where it looks for a file
(`Leads`), and a directory the host lacks; a second call meets what the first one left, which is
all that is kept between calls. `news` needs a whole series because .0 is compared
with the series before, and a third module that comes with the series, or does not. `migrate` has a file, a link, a path only the user has and
a directory in a directory; one crash leaves a rest, the second one meets it.
`ci_jobs` has the smallest case of what two feeds and two pipelines do to each
other; in `programs` the inputs are all there are within the bounds: every pair of
trees, every mode, every set of incubating pairs. Jobs and programs end, so the
runs of these modules do not check deadlock, and where one may end badly a
property says so: `ParentsFirst` forbids the crash, `Restores` the exception.

Some properties except what the code does not do. Each exception is named in the
comment of the property, and listed with its hazard in `PROJECT.json` where it is one:

* `WritesInhibited`: the orphan of a killed daemon, and the swap-verity of a failed
  `try_join!`.
* `Concluded`: units that settle in a state the polling loops do not end on
  (`UnitsMayStall`), and a killed daemon.
* `PageSettles`: the page of an installation whose daemon was killed (`Orphaned`), and
  Install calls of other windows that hold the object for ever.
* `NothingLost`: the old system once there is a layer, which it does not see and which
  does not see what is then written ("we cannot rollback", migrate-confext.cpp:22).
* `Exact`: a copy in `etc.creating` that another version or another /etc made stale.
* `Migrates`: boots with a crash or a failed copy (after one that comes behind the
  first copied file no later boot migrates), and going back to the old system.
* `NewsTells`: a module that came with the series is only named in .0, without its
  entries, and one that is gone again in .0 is not told of; tarballs without NEWS.
* `Fresh`: runs in which a feed timed out; products that a modification took away.
* `Told`: whether the note is open.
* `Restores`: the two changes of type that `Compatible` names, owners, and modes of
  directories that both trees have.
* `Restored`: the root, and attributes with special values.
* `NeighbourFirst`: the alphabet has the core application first and others of the type
  in between, or the core application replaces another one itself.
* `AskedFirst`: file systems without a partition table, and which disk it is once one
  was unplugged: from then on only the name of the row is asked for.

### Fairness

`DoInstall`: weak fairness of the daemon's task (the executor polls it, children
exit and calls are answered), of each of the three futures, of swap-verity and
of systemd's jobs. Nothing obliges a program to write or format a disk, the
automount to fail, anybody to call `Install` or to kill the daemon. `Concluded`
needs `UnitsMayStall = FALSE`: with a cancelled job the code really polls for
ever, which is listed as a hazard.

`InstallerApp`: the daemon reports (which is `Concluded`) if no Install call holds
the object again and again, and exits after that; replies are delivered, the client's
timeout runs out, the main loop dispatches. All of it is weak fairness: the lock of
the interface is not assumed to be given to the one that waits for it longest.
Polkit need not answer, nobody needs to press a button, and nobody kills the daemon
for us. Nothing in installer.py watches the bus name, so the page of a dead daemon
stays, which is the first of the two exceptions of `PageSettles`; the other is an
Install call of another window that polkit never answers, or always a new one.

`CopyInitramfs`: the program runs on; nobody need call it again.
`MigrateConfext`: a boot goes on until the system is up; nobody need crash, edit,
update or choose another version. `TrackRefs`: pipelines are scheduled and go on, and a request is
merged, or closed when it conflicts: the bot itself waits for that for ever
(ci-bot-track-refs.sh 28-33). Releases, changes and faults are bounded.

`SysupdatePublish`, `ReleaseNews`, `CveDatabase`, `MimeappsNote` and the modules of
`programs` state no liveness and assume no fairness.

## Proofs

`DoInstallProofs` proves, for every set of disks, every number of attempts and
both values of `UnitsMayStall`, from the three assumptions of `DoInstall` (there
is a disk, no disk is one of the live devices; the bound is a natural number):

* `TypeCorrect`: `Spec => []TypeOK`.
* `Invariance`: `Spec => []IInv`, the inductive invariant
  `TypeOK /\ HandoverInv /\ KeyInv`.
* `FinishedSelfContained`, `FinishedKeyUnlocks`, `KeysStayApart`,
  `CredentialsFit`: the safety invariants of the `install_safety` run.
* `DataIsKept`, `ReleasesLast`, `WritesAreInhibited`: its action properties.
* `Refinement`: `Spec => HandoverSpec`.

The invariants are not inductive by themselves. `SelfContained` speaks of the
last step only; `HandoverInv` says what holds on the way there: the root has
moved from the end of systemd-repart on, /usr has moved as soon as the child
succeeded, the zram unit has a stop job only when the root has left it, the child
exists only at steps after the move and always belongs to the current recipe. An
orphan exists only while there is no daemon; it has the same preconditions as the
step it was started from, and beside a swap-verity it can only be losetup.
`KeyUnlocks` needs the way of the key: recipe, `root.key`, slot 0, and that
nothing between `SaveKey` and the end of systemd-repart writes the file, the end of an
orphan included.
`KeysNotShared` needs that the numbers on all disks are at most `installs`, so
that a new key is on no other disk, and on no disk but the target once it is.
`SameVintage` needs that at systemd-repart the credentials are those of this
attempt. `IInv` was checked by TLC before it was proved.

The refinement maps each step to a step of `Handover` or a stutter: `Receive` is
`Begin`, `EndRepart` `MoveRoot`, `SwapResume` `MoveUsr`, `RunJob` `LetGo`,
`RemoveLoop` `Finish` with the medium let go of. `Exit` is `End`, to "cut" if
systemd-repart or swap-verity goes on; `OrphanEnds` is then `MoveRoot` or `Stop`,
`Reap` is `Stop`, and an orphaned losetup lets go of the medium.

`SysupdateProofs` proves, for any jobs and any number of attempts,
`PublicationTypes`, `NeitherBothLost`, `ListedIsServed` and `NextOneRepairs`,
the properties of `publish_safety`. `OneSeesTheOther` needs that a job that
fetches has its own list in the bucket (`UploadInv`): then whichever begins to
fetch later finds the other's. `ListedOrRunning` needs that lists are in the
bucket and came there through an upload (`PartsInv`). `Repaired` needs what
being alone is worth at each step (`AloneInv`): the fetched lists are all there
are, nobody has written the signed pair since, and what the second sync has not
left to do is done.

`MigrateConfextProofs` proves, for any paths and any number of versions and
crashes, `MigrationTypes`, `NothingIsLost` and `LayerIsExact`, from the assumptions
of `MigrateConfext` on its constants. `NothingLost` speaks of a system that is up;
the inductive invariant says what carries it through a boot: until there is a
directory the user's files are in /etc (`InEtc`), the iteration has passed none
without a whole copy (`Passed`), one path is being copied at a time and not yet
whole (`OneAtATime`), once there is a directory they are in it (`InLayer`), and a
system that is up has an upper layer (`HasUpper`). That a file of the user differs
from every version of the confext (`MineIsModified`) is what makes the comparison
copy it. `Exact` needs the converse, `CopyInv`: what a crash leaves of a copy still
differs from the confext, unless the version or /etc changed since, which makes it
stale (`LeftOver`), and of the paths it has passed the program has copied those that
differ and, but for stale ones, no others (`Copied`).

`InstallerAppProofs` proves `InstallerTypes`, `OneRecipe` and `PagesTellTheTruth`
for any number of sessions, windows and daemons, whether they may be killed or not;
every window is one of a session (`AppOfAssumption`). `OneInstallPerDaemon` needs
that an idle daemon has no recipe yet and that a reply on its way belongs to the
recipe that was sent (`Sent`). `PageTruth` relates a page to a signal that may come
before the reply, after it, or from another daemon. What makes it inductive is that
a signal carries what an installation really came to and is never older than the
page it will meet (`Carries`, `PageAge`): a blocked process had no signal left when
it called, and signals are dispatched before a button is.

`ReleaseNewsProofs` proves `NewsTypes` and `NewsIsComplete` for any modules and any
series of tags that ascends (`PlansAssumption`: nobody tags a version again or
one before the last), from releases of earlier series that are anything
(`EarlierAssumption`). The archives are made, fail and are published in any order;
what is fixed is that a module's versions never go back, and that one that comes
back after it was away comes with a version nobody has seen (`Grows`, `Regrown`).
Then a file compared with any published release (`Compared`) tells everything since.

`CiJobsProofs` proves `JobTypes`, `EtagsHaveFiles`, `RunsAreFresh`, `RefsGoForward` and
`DifferenceIsTold` for any years, elements, pipelines, pushes and faults.
`NotModifiedIsUsable` is about a database with a transaction and files that have
none: etags only grow from the database to the transaction to the server
(`EtagsGrow`), and every etag of the transaction has its file, but for one body that
is being read or was cut short, which ends the run before it can commit (`Pending`,
`Body`). `Fresh` needs that `Modified` has the newest of every entry it has
(`ServerInv`) and keeps it while a run lasts (`Rises`): the run then has the entry of
every year it is through with, or `Modified`, which comes last, has it (`Reaches`),
and no feed of a year has an entry of another (`Owned`). `NeverReverts` needs that pipelines and requests take refs from what they
checked out forward and not past what upstream has (`Forward`); a merge is made only
where master still has what the request was based on. `Told` needs that a push
has at most one note of its own and the job visits each once (`NoteInv`). The
assumptions say that the special values are none of the others, that the bounds are
naturals and that a history has a first push.

`CopyInitramfsProofs` proves `CopierTypes`, `DirectoriesFirst` and `NothingLeftOut`
for any build system and any number of calls. The assumption on hosts
(`HostsAssumption`) is what a file system is: a name below a link stands for the
entry the link leads to, what exists is in a directory, and directories and links to
them lead to one another in no cycle (`Reachable`); other dependencies may.
`ParentsFirst` and `Closed` hold in spite of cycles: an entry of the tree has
everything its source needs in the tree or on the stack of `process` (`TreeInv`);
what was processed is on the stack, in the tree or nowhere (`ProcessedInv`); and
from a directory nothing but directories is processed (`StackInv`), so that an entry
that waits on the stack is never the parent of the one that is copied. `DepsInv` and
`QueueInv` say what the loop of discovery has recorded and has still to come to:
only the first visit of a call has a source of another name.

`ProgramsProofs` proves the properties of `programs` for any inputs that satisfy the
assumptions of the five modules.

* `ProgramTypes`: `TypeOK`. For `MakeLayer` it says that every entry of the layer is
  in a directory of the layer. That takes `BuiltInv`, because without `Compatible`
  the second walk may write through a link of the upper tree, and even turn a file or
  link of it into a directory of the layer: as long as mkdir refuses nothing, the
  directories that copy_parent_dirs makes are new and nothing is in them yet
  (`ParentsBuilt`), and a new entry moves nothing that is below directories
  (`StaysThere`).
* `LayerRestored`: `Restores`. Under `Compatible` the layer holds copies of the entries
  of the upper tree at their own paths (`CopyOf`) and whiteouts of what is missing there, each at its own
  path too; what the walks have passed is in the layer if it differs (`LayerInv`).
  Every path a walk asks for is then straight: no link in it leads to a directory
  (`Straight`, `Located`).
* `PermsComeBack`: `Restored`. `PermsInv` has a hidden set, the directories visited:
  what is in them is written down, and the directories in them are visited or will
  be (`Visited`). After the walk everything is, since the root is above all nodes
  (`TreesAssumption`). Then what a node lacks is on a line that is left (`Lacking`),
  special values aside, which no line brings back.
* `IncubatingFirst`: `NeighbourFirst`. During the scan the lists hold what has been
  read (`Listed`). The sort is treated for any number of applications and of pairs, as
  binary insertion, which CPython's is for lists of fewer than 64: the rounds of a
  binary search end where the comparator changes its mind, if it does so once
  (`Splits`, `InsertFacts`). An incubating application is to come before the core
  application it replaces and before no other; if the core application is not
  incubating itself, it is to come before none, and then, whatever the other pairs do
  to one another, the two keep their order when it is right, and are turned if one
  follows the other (`SortPair`).
* `UserIsAsked`: `AskedFirst`. `DiskInv`: the selected row, the answer and the disk
  behind the name agree from the dialog to the format, until a disk is unplugged;
  from then on the row and the name do.
* `VolumeIsTrusted`: `Trusted`. `VerityInv`: a run makes its table from the one in
  use and resumes the one it loaded, whatever an earlier run has left in the
  inactive slot (`Kept`, `Moved`). Tables have at least ten fields
  (`TablesAssumption`), as dm-verity's have.

The library's induction theorems take an operator as a parameter, which the provers
cannot instantiate. `LeastNat` (a set of numbers has a least one) is proved from
`WFMin`, which takes none, and `Upwards` and `Recursion` follow from it: induction
up to a number, and that a function defined by recursion exists. That is how the
walks up a path (`Locate`, `ParentDirs`) and the sort became provable; they are
written as recursive functions for it.

Only model-checked:

* `Concluded`, `PageSettles`, `Ends`, `Migrates` and `CatchesUp`: liveness
  under fairness and ENABLED are beyond the prover.
* The two violations, which are counterexamples.

Every invariant and every action property of a passing run is a theorem.

## Plan

In this order, the most consequential first.

1. Done: the modules above, and a theorem for each of their safety properties.
2. What the theorems still except: `UserIsAsked` beyond the first unplugged disk, by the
   number of plugs since a row was read; `LayerRestored` for trees whose changes of
   type `Compatible` excludes, as far as it is true; the first run of newer CPython.
3. Abstract specifications besides `Handover`: the published directory as an atomic
   set of lists that `SysupdatePublish` implements once it is repaired, and the
   migration as one step that `MigrateConfext` implements over any number of boots.
4. Models: services of the zswap generator racing for loop devices; the pushes
   of overlapping OCI and Flatpak publications; ci-bot-update-mimeapps.sh.

## Not modelled

* The live generators, the device helpers and the wrappers for virtual machines
  and phones are straight-line programs, run once and beside nothing: a model
  would be their text again.
* Elements, include files, keys and the transfer files are data for BuildStream
  and systemd-sysupdate.
* The zswap services, the Flatpak and OCI publication, the local sysupdate
  repository, the collection of CVE reports and the proposal to gnome-session have
  state worth a model; they are left for later.
