------------------------------ MODULE DiskChoice ------------------------------
(***************************************************************************)
(* The installer's window from the listing of the disks to the Install      *)
(* call: installer.py:22-77, 100-141, 191-236 and 301-327.  UDisks names a  *)
(* disk by its device name, and so does the recipe; other programs use the  *)
(* disks, and disks come and go, at any time.  The daemon is what its       *)
(* method and do_install promise (InstallerApp, DoInstall): it refuses, or  *)
(* it tries, writes and then finishes or fails.                             *)
(***************************************************************************)
EXTENDS Naturals, FiniteSets

CONSTANTS
  Disks,      \* physical disks
  Names,      \* device names
  Fault,      \* why a disk cannot be used, or "none"
  InUse,      \* disks that are mounted: the boot medium
  Contents,   \* what disks may hold at first
  MaxUnplugs  \* bound: disks unplugged

NoDisk == "no disk"
DisksAssumption ==
  /\ IsFiniteSet(Disks) /\ NoDisk \notin Disks /\ NoDisk \notin Names /\ InUse \subseteq Disks
  /\ Fault \in [Disks -> {"none", "read-only", "not partitionable", "too small"}]
  /\ Contents \subseteq {"none", "bare", "table"} /\ MaxUnplugs \in Nat

VARIABLES
  plugged,   \* the disk behind each name
  unplugs,   \* disks unplugged so far
  content,   \* what is on each disk
  window,    \* where the newest window is
  tables,    \* the names that had a partition table when the listing began
  todo,      \* the blocks it has yet to read
  rows,      \* the rows of the list
  selected,  \* the name of the selected row
  daemon,    \* what the daemon is doing
  target,    \* with which name
  answered,  \* rows the user answered "erase" for: name, disk that was shown
  lost       \* what the installer destroyed: the name, the disk and what was on it

ui == <<window, tables, todo, rows, selected>>
vars == <<plugged, unplugs, content, ui, daemon, target, answered, lost>>

Row == [disk : Disks, empty : BOOLEAN, selectable : BOOLEAN]
NoRow == [disk |-> NoDisk]
HasTable(d) == content[d] \in {"table", "partial", "gnomeos"}
Device == plugged[selected]

Init ==
  /\ plugged \in [Names -> Disks \cup {NoDisk}]
  /\ \A m, n \in Names : plugged[m] = plugged[n] /\ m # n => plugged[m] = NoDisk
  /\ content \in [Disks -> Contents] /\ \A d \in InUse : HasTable(d)
  /\ unplugs = 0 /\ window = "closed" /\ tables = {} /\ todo = {} /\ rows = [n \in Names |-> NoRow]
  /\ selected = NoDisk /\ daemon = "idle" /\ target = NoDisk
  /\ answered = {} /\ lost = {}

------------------------------------------------------------------------------
(* on_activate_installer, get_disks: one call lists the objects, then each   *)
(* block is asked in turn; one that is gone ends the handler.                *)
Activate ==
  /\ window \in {"closed", "open", "page"}
  /\ LET there == {n \in Names : plugged[n] # NoDisk} IN
       todo' = there /\ tables' = {n \in there : HasTable(plugged[n])}
  /\ window' = "listing" /\ rows' = [n \in Names |-> NoRow] /\ selected' = NoDisk
  /\ UNCHANGED <<plugged, unplugs, content, daemon, target, answered, lost>>

(* A partition table keeps the other checks from being made.                *)
RowOf(n) ==
  [disk |-> plugged[n], empty |-> n \notin tables,
   selectable |-> n \in tables \/ Fault[plugged[n]] = "none"]

Read(n) ==
  /\ window = "listing" /\ n \in todo /\ todo' = todo \ {n}
  /\ IF plugged[n] = NoDisk
       THEN window' = "closed" /\ UNCHANGED rows
       ELSE rows' = [rows EXCEPT ![n] = RowOf(n)] /\ UNCHANGED window
  /\ UNCHANGED <<plugged, unplugs, content, tables, selected, daemon, target, answered, lost>>

Present ==
  /\ window = "listing" /\ todo = {} /\ window' = "open"
  /\ UNCHANGED <<plugged, unplugs, content, tables, todo, rows, selected, daemon, target, answered, lost>>

Select(n) ==
  /\ window = "open" /\ rows[n] # NoRow /\ rows[n].selectable /\ selected' = n
  /\ UNCHANGED <<plugged, unplugs, content, window, tables, todo, rows, daemon, target, answered, lost>>

(* doInstall.                                                               *)
Press ==
  /\ window = "open" /\ selected # NoDisk
  /\ window' = IF rows[selected].empty THEN "install" ELSE "dialog"
  /\ UNCHANGED <<plugged, unplugs, content, tables, todo, rows, selected, daemon, target, answered, lost>>

(* onResponse.                                                              *)
Respond(response) ==
  /\ window = "dialog"
  /\ IF response = "erase"
       THEN /\ window' = "format"
            /\ answered' = answered \cup {[name |-> selected, disk |-> rows[selected].disk]}
       ELSE window' = "open" /\ UNCHANGED answered
  /\ UNCHANGED <<plugged, unplugs, content, tables, todo, rows, selected, daemon, target, lost>>

(* What Format or systemd-repart makes of a disk, if anything is there.     *)
Overwrite(n, c) ==
  /\ content' = [content EXCEPT ![plugged[n]] = c]
  /\ LET was == content[plugged[n]] IN
       lost' = IF was \in {"bare", "table", "gnomeos"}
                 THEN lost \cup {[name |-> n, disk |-> plugged[n], was |-> was]} ELSE lost

(* UDisks refuses what is in use or read-only; an error ends the handler.   *)
FormatFails ==
  /\ window = "format" /\ window' = "open"
  /\ UNCHANGED <<plugged, unplugs, content, tables, todo, rows, selected, daemon, target, answered, lost>>

Format ==
  /\ window = "format" /\ Device # NoDisk /\ Device \notin InUse /\ Fault[Device] # "read-only"
  /\ Overwrite(selected, "none") /\ window' = "install"
  /\ UNCHANGED <<plugged, unplugs, tables, todo, rows, selected, daemon, target, answered>>

------------------------------------------------------------------------------
(* The daemon: polkit says no, another installation has begun, the bus      *)
(* call fails; or the recipe is taken and the key shown.                    *)
Refuse ==
  /\ window = "install" /\ window' = "open"
  /\ UNCHANGED <<plugged, unplugs, content, tables, todo, rows, selected, daemon, target, answered, lost>>

Accept ==
  /\ window = "install" /\ daemon = "idle" /\ daemon' = "dryrun" /\ target' = selected
  /\ window' = "page"
  /\ UNCHANGED <<plugged, unplugs, content, tables, todo, rows, selected, answered, lost>>

(* --empty=require: no partition table.                                     *)
Fits(d) == d # NoDisk /\ d \notin InUse /\ ~ HasTable(d) /\ Fault[d] = "none"

DryRun ==
  /\ daemon = "dryrun" /\ Fits(plugged[target]) /\ daemon' = "write"
  /\ UNCHANGED <<plugged, unplugs, content, ui, target, answered, lost>>

\* Mutant of Write: --empty=force, for the dry run has passed.
Write_Force ==
  /\ daemon = "write" /\ plugged[target] \notin InUse \cup {NoDisk} /\ Overwrite(target, "partial")
  /\ daemon' = "fill"
  /\ UNCHANGED <<plugged, unplugs, ui, target, answered>>

Write ==
  /\ daemon = "write" /\ Fits(plugged[target]) /\ Overwrite(target, "partial") /\ daemon' = "fill"
  /\ UNCHANGED <<plugged, unplugs, ui, target, answered>>

Finish ==
  /\ daemon = "fill" /\ plugged[target] # NoDisk /\ content[plugged[target]] = "partial"
  /\ content' = [content EXCEPT ![plugged[target]] = "gnomeos"] /\ daemon' = "idle"
  /\ UNCHANGED <<plugged, unplugs, ui, target, answered, lost>>

InstallFails ==
  /\ daemon # "idle" /\ daemon' = "idle"
  /\ UNCHANGED <<plugged, unplugs, content, ui, target, answered, lost>>

------------------------------------------------------------------------------
(* Other programs write a partition table; disks come and go.               *)
WriteTable(d) ==
  /\ ~ HasTable(d) /\ \E n \in Names : plugged[n] = d
  /\ content' = [content EXCEPT ![d] = "table"]
  /\ UNCHANGED <<plugged, unplugs, ui, daemon, target, answered, lost>>

Unplug(n) ==
  /\ unplugs < MaxUnplugs /\ unplugs' = unplugs + 1
  /\ plugged[n] # NoDisk /\ plugged' = [plugged EXCEPT ![n] = NoDisk]
  /\ UNCHANGED <<content, ui, daemon, target, answered, lost>>

Plug(n, d) ==
  /\ plugged[n] = NoDisk /\ \A m \in Names : plugged[m] # d
  /\ plugged' = [plugged EXCEPT ![n] = d]
  /\ UNCHANGED <<unplugs, content, ui, daemon, target, answered, lost>>

Next ==
  \/ Activate \/ Present \/ Press \/ Format \/ FormatFails \/ Refuse \/ Accept
  \/ DryRun \/ Write \/ Finish \/ InstallFails
  \/ \E n \in Names : Read(n) \/ Select(n) \/ Unplug(n)
  \/ \E r \in {"cancel", "erase"} : Respond(r)
  \/ \E d \in Disks : WriteTable(d) \/ \E n \in Names : Plug(n, d)

Spec == Init /\ [][Next]_vars

------------------------------------------------------------------------------
(* The variables keep their types, the selected row is one that is there    *)
(* and may be selected, and the dialog is about a disk that is not empty.   *)
Shown == [name : Names, disk : Disks]
TypeOK ==
  /\ plugged \in [Names -> Disks \cup {NoDisk}]
  /\ content \in [Disks -> {"none", "bare", "table", "partial", "gnomeos"}]
  /\ window \in {"closed", "listing", "open", "dialog", "format", "install", "page"}
  /\ tables \subseteq Names /\ todo \subseteq Names /\ rows \in [Names -> Row \cup {NoRow}]
  /\ selected \in Names \cup {NoDisk} /\ target \in Names \cup {NoDisk}
  /\ daemon \in {"idle", "dryrun", "write", "fill"}
  /\ selected # NoDisk => rows[selected] # NoRow /\ rows[selected].selectable
  /\ window = "dialog" => ~ rows[selected].empty
  /\ answered \subseteq Shown /\ \A l \in lost : [name |-> l.name, disk |-> l.disk] \in Shown

(* "The selected disk contains data. Installing GNOME OS on this disk will  *)
(* erase it." (erase-disk.ui:5): a partition table, of another system or of *)
(* the one the installer has just made, is lost only if the user answered   *)
(* "erase" for the row that showed this disk, however old the listing is.   *)
(* Once a disk was unplugged, the row has at least the name of the disk     *)
(* that is lost.  Of a bare file system nobody is asked: the row takes the  *)
(* disk for empty.                                                          *)
AskedFirst ==
  \A l \in lost :
    l.was = "bare" \/ \E a \in answered : a.name = l.name /\ (unplugs = 0 => a.disk = l.disk)

=============================================================================
