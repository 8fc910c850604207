------------------------------ MODULE Programs ------------------------------
(***************************************************************************)
(* Five programs that share no state, each with what it works on:           *)
(* MakeLayer, SavePerms and MimeDefaults, which the image build runs once,  *)
(* and DiskChoice and VeritySwap of the installer.  A behaviour is one of   *)
(* theirs; the variables of the others stay as they are.                    *)
(***************************************************************************)
EXTENDS Naturals, Sequences, FiniteSets

CONSTANTS
  Paths, Dirs, Files, Links, LinkTo, Copied, White, Layers,
  Nodes, Parent, TreeRoot, Trees,
  Apps, Types, Systems, Quirks,
  Disks, Names, Fault, InUse, Contents, MaxUnplugs,
  BlockDevices, Pairs, Number, Tables, MaxRuns

VARIABLES
  which,                                                   \* whose behaviour it is
  lower, upper, output, walk, todo,
  tree, dirs, configs, backup, phase, image,
  system, quirks, types, was, unread, step,
  plugged, unplugs, content, window, tables, unlisted, rows, selected, daemon, target, answered,
  lost,
  booted, active, inactive, present, runs, at, asked, params

layer  == <<lower, upper, output, walk, todo>>
perms  == <<tree, dirs, configs, backup, phase, image>>
mime   == <<system, quirks, types, was, unread, step>>
disk   == <<plugged, unplugs, content, window, tables, unlisted, rows, selected, daemon, target,
            answered, lost>>
verity == <<booted, active, inactive, present, runs, at, asked, params>>
vars   == <<which, layer, perms, mime, disk, verity>>

Layer  == INSTANCE MakeLayer WITH Trees <- Layers
Perms  == INSTANCE SavePerms WITH Root <- TreeRoot, walk <- dirs
Mime   == INSTANCE MimeDefaults WITH todo <- unread
Disk   == INSTANCE DiskChoice WITH todo <- unlisted
Verity == INSTANCE VeritySwap WITH Nodes <- BlockDevices

ASSUME LayerInputs  == Layer!PathsAssumption /\ Layer!TreesAssumption
ASSUME PermsInputs  == Perms!TreesAssumption
ASSUME MimeInputs   == Mime!AppsAssumption /\ Mime!InputsAssumption
ASSUME DiskInputs   == Disk!DisksAssumption
ASSUME VerityInputs ==
  Verity!PairsAssumption /\ Verity!TablesAssumption /\ Verity!RunsAssumption

------------------------------------------------------------------------------
Unused == "unused"
NoLayer ==
  lower = Unused /\ upper = Unused /\ output = Unused /\ walk = Unused /\ todo = Unused
NoPerms ==
  /\ tree = Unused /\ dirs = Unused /\ configs = Unused /\ backup = Unused /\ phase = Unused
  /\ image = Unused
NoMime ==
  /\ system = Unused /\ quirks = Unused /\ types = Unused /\ was = Unused /\ unread = Unused
  /\ step = Unused
NoDiskChoice ==
  /\ plugged = Unused /\ unplugs = Unused /\ content = Unused /\ window = Unused
  /\ tables = Unused /\ unlisted = Unused /\ rows = Unused /\ selected = Unused
  /\ daemon = Unused /\ target = Unused /\ answered = Unused /\ lost = Unused
NoVerity ==
  /\ booted = Unused /\ active = Unused /\ inactive = Unused /\ present = Unused
  /\ runs = Unused /\ at = Unused /\ asked = Unused /\ params = Unused

Init ==
  \/ which = "layer"  /\ Layer!Init  /\ NoPerms /\ NoMime /\ NoDiskChoice /\ NoVerity
  \/ which = "perms"  /\ Perms!Init  /\ NoLayer /\ NoMime /\ NoDiskChoice /\ NoVerity
  \/ which = "mime"   /\ Mime!Init   /\ NoLayer /\ NoPerms /\ NoDiskChoice /\ NoVerity
  \/ which = "disk"   /\ Disk!Init   /\ NoLayer /\ NoPerms /\ NoMime /\ NoVerity
  \/ which = "verity" /\ Verity!Init /\ NoLayer /\ NoPerms /\ NoMime /\ NoDiskChoice

Next ==
  /\ UNCHANGED which
  /\ \/ which = "layer"  /\ Layer!Next  /\ UNCHANGED <<perms, mime, disk, verity>>
     \/ which = "perms"  /\ Perms!Next  /\ UNCHANGED <<layer, mime, disk, verity>>
     \/ which = "mime"   /\ Mime!Next   /\ UNCHANGED <<layer, perms, disk, verity>>
     \/ which = "disk"   /\ Disk!Next   /\ UNCHANGED <<layer, perms, mime, verity>>
     \/ which = "verity" /\ Verity!Next /\ UNCHANGED <<layer, perms, mime, disk>>

Spec == Init /\ [][Next]_vars

------------------------------------------------------------------------------
(* The variables of each program keep their types.                          *)
TypeOK ==
  /\ which = "layer" => Layer!TypeOK
  /\ which = "perms" => Perms!TypeOK
  /\ which = "mime" => Mime!TypeOK
  /\ which = "disk" => Disk!TypeOK
  /\ which = "verity" => Verity!TypeOK

(* make-layer.py: the lower tree under the layer is the upper tree, but for *)
(* owners, the modes of directories that both have, and the trees that      *)
(* Compatible names.                                                        *)
Restores == which = "layer" => Layer!Restores

(* save-perms.py: the image has the permissions and attributes that the     *)
(* tree had below its root, but for attributes with a special value.        *)
Restored == which = "perms" => Perms!Restored

(* generate.py: an incubating application is listed before the core         *)
(* application it replaces, if that one replaces none itself, and unless    *)
(* the alphabet puts it first and others in between.                        *)
NeighbourFirst == which = "mime" => Mime!NeighbourFirst

(* installer.py: a partition table is lost only if the user answered        *)
(* "erase" for the row that showed its disk, or, once a disk was unplugged, *)
(* a row that showed its name.                                              *)
AskedFirst == which = "disk" => Disk!AskedFirst

(* swap-verity.c: /usr is read through the trusted table of the boot with   *)
(* no change but the devices, and success means that they were changed.     *)
Trusted == which = "verity" => Verity!Trusted

=============================================================================
