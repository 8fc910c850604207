------------------------------ MODULE MakeLayer ------------------------------
(***************************************************************************)
(* make-layer.py: the difference between two trees, as a layer of an        *)
(* overlay.  It walks the upper tree and writes what the lower one does not *)
(* have, then walks the lower one and writes a whiteout for what the upper  *)
(* one does not have.  gnomeos/devel/layer.bst makes the devel extension    *)
(* with it.  The program asks for entries by path, so that symbolic links   *)
(* in a path are followed; links do not lead to links here.  Left out: the  *)
(* times of directories, which filling them changes, and extended           *)
(* attributes, which are copied and not compared.                           *)
(***************************************************************************)
EXTENDS Naturals, Sequences, SequencesExt

CONSTANTS
  Paths,   \* sequences of names
  Dirs,    \* what a directory can be: mode and owner
  Files,   \* what a file can be: content, mode, time and owner
  Links,   \* symbolic links
  LinkTo,  \* where they lead to
  Copied,  \* what a copy of an entry is: its owner is the one that makes it
  White,   \* a whiteout, the device 0:0
  Trees    \* trees, as functions from paths

Root == <<>>
Nowhere == <<Root>>
Parts == UNION {Range(p) : p \in Paths}

PathsAssumption ==
  /\ Root \in Paths /\ Root \notin Parts /\ Paths \subseteq Seq(Parts)
  /\ \A p \in Paths \ {Root} : Front(p) \in Paths
  /\ Dirs \cap (Files \cup Links) = {} /\ Files \cap Links = {} /\ White \notin Dirs \cup Files \cup Links
  /\ LinkTo \in [Links -> Paths] /\ Copied \in [Dirs \cup Files \cup Links -> Dirs \cup Files \cup Links]
  /\ \A e \in Dirs : Copied[e] \in Dirs
  /\ \A e \in Files : Copied[e] \in Files
  /\ \A e \in Links : Copied[e] = e
  /\ \A e \in Dirs \cup Files : Copied[Copied[e]] = Copied[e]
TreesAssumption ==
  \A t \in Trees :
    /\ DOMAIN t \subseteq Paths /\ t \in [DOMAIN t -> Dirs \cup Files \cup Links]
    /\ Root \in DOMAIN t /\ t[Root] \in Dirs
    /\ \A p \in DOMAIN t :
         /\ p # Root => Front(p) \in DOMAIN t /\ t[Front(p)] \in Dirs
         /\ t[p] \in Links /\ LinkTo[t[p]] \in DOMAIN t => t[LinkTo[t[p]]] \notin Links

VARIABLES
  lower,   \* the tree below
  upper,   \* the tree to be had
  output,  \* the layer
  walk,    \* "upper", "lower", then "done", or "raised"
  todo     \* entries the walk has not come to

vars == <<lower, upper, output, walk, todo>>

------------------------------------------------------------------------------
(* What the system makes of a path.                                         *)
Follow(t, p) == IF p \in DOMAIN t /\ t[p] \in Links THEN LinkTo[t[p]] ELSE p

Locate(t) ==
  LET loc[p \in Paths] ==
        IF p = Root THEN Root
        ELSE LET d == Follow(t, loc[Front(p)]) IN
             IF d \in DOMAIN t /\ t[d] \in Dirs THEN Append(d, Last(p)) ELSE Nowhere
  IN loc

LExists(t, p) == Locate(t)[p] \in DOMAIN t
IsLink(t, p) == LExists(t, p) /\ t[Locate(t)[p]] \in Links
Is(t, p, kind) == LET q == Follow(t, Locate(t)[p]) IN q \in DOMAIN t /\ t[q] \in kind
IsDir(t, p) == Is(t, p, Dirs)
IsFile(t, p) == Is(t, p, Files)

Put(t, p, entry) == [q \in DOMAIN t \cup {p} |-> IF q = p THEN entry ELSE t[q]]

------------------------------------------------------------------------------
(* The elements make the output, or the directory it is in.                 *)
Init ==
  /\ lower \in Trees /\ upper \in Trees
  /\ output \in [{Root} -> Dirs]
  /\ walk = "upper" /\ todo = DOMAIN upper \ {Root}

(* mkdir and copystat: a directory like the one of the upper tree, or, with *)
(* the mode of a file, like any.                                            *)
DirLike(d) ==
  IF IsDir(upper, d) THEN Copied[upper[Follow(upper, Locate(upper)[d])]] ELSE CHOOSE e \in Dirs : TRUE

\* Mutant of ParentDirs: only the last directory is made.
ParentDirs_One(t) == [d \in Paths |-> IF IsDir(t, d) THEN t ELSE Put(t, d, DirLike(d))]

(* copy_parent_dirs: makes the directories that are missing.                *)
ParentDirs(t) ==
  LET made[d \in Paths] ==
        IF IsDir(t, d) THEN t ELSE LET o == made[Front(d)] IN Put(o, Locate(o)[d], DirLike(d))
  IN made

(* mkdir refuses a name that exists, copystat one that leads to nothing.    *)
Refused(d) ==
  \E i \in 0 .. Len(d) :
    LET q == SubSeq(d, 1, i) IN
    ~ IsDir(output, q) /\ (LExists(output, q) \/ ~ Is(upper, q, Dirs \cup Files))

(* Writes an entry, with the directories above it; mknod and symlink refuse *)
(* a name that exists.                                                      *)
Write(p, entry) ==
  LET t == ParentDirs(output)[Front(p)] IN
  IF Refused(Front(p)) \/ (LExists(t, p) /\ entry \notin Files)
  THEN walk' = "raised" /\ UNCHANGED output
  ELSE output' = Put(t, Locate(t)[p], entry) /\ UNCHANGED walk

\* Mutant of Differs: a file is compared with what a link below leads to.
Differs_Followed(p) ==
  CASE upper[p] \in Dirs  -> ~ IsDir(lower, p)
    [] upper[p] \in Links -> ~ IsLink(lower, p) \/ lower[Locate(lower)[p]] # upper[p]
    [] OTHER              -> ~ IsFile(lower, p) \/ lower[Follow(lower, Locate(lower)[p])] # upper[p]

(* What is not the same below: a directory that is none or a link there, a  *)
(* link that is none or another one, a file that is none, a link or another *)
(* one.  The modes and owners of two directories are not looked at.         *)
Differs(p) ==
  CASE upper[p] \in Dirs  -> ~ IsDir(lower, p) \/ IsLink(lower, p)
    [] upper[p] \in Links -> ~ IsLink(lower, p) \/ lower[Locate(lower)[p]] # upper[p]
    [] OTHER              -> \/ ~ IsFile(lower, p) \/ IsLink(lower, p)
                             \/ lower[Locate(lower)[p]] # upper[p]

(* copy_dir, copy_link, copy_file for an entry of the upper tree.           *)
CopyUpper(p) ==
  /\ walk = "upper" /\ p \in todo /\ Front(p) \notin todo
  /\ todo' = todo \ {p}
  /\ IF ~ Differs(p) THEN UNCHANGED <<output, walk>>
     ELSE IF upper[p] \notin Dirs THEN Write(p, Copied[upper[p]])
     ELSE IF Refused(p) THEN walk' = "raised" /\ UNCHANGED output
     ELSE output' = ParentDirs(output)[p] /\ UNCHANGED walk
  /\ UNCHANGED <<lower, upper>>

SecondWalk ==
  /\ walk = "upper" /\ todo = {}
  /\ walk' = "lower" /\ todo' = DOMAIN lower \ {Root}
  /\ UNCHANGED <<lower, upper, output>>

(* The topmost of what the upper tree does not have.                        *)
Gone(p) == ~ LExists(upper, p) /\ LExists(upper, Front(p))

(* create_white for an entry of the lower tree.                             *)
Whiteout(p) ==
  /\ walk = "lower" /\ p \in todo /\ Front(p) \notin todo
  /\ todo' = todo \ {p}
  /\ IF Gone(p) THEN Write(p, White) ELSE UNCHANGED <<output, walk>>
  /\ UNCHANGED <<lower, upper>>

Exit ==
  /\ walk = "lower" /\ todo = {} /\ walk' = "done"
  /\ UNCHANGED <<lower, upper, output, todo>>

Next == (\E p \in Paths \ {Root} : CopyUpper(p) \/ Whiteout(p)) \/ SecondWalk \/ Exit

Spec == Init /\ [][Next]_vars

------------------------------------------------------------------------------
(* What an overlay shows of a layer over a tree: the layer's entry if there *)
(* is one, but no whiteouts, and nothing below what is not a directory.     *)
Shown(p) == IF p \in DOMAIN output THEN output[p] ELSE lower[p]

Visible(p) ==
  \A i \in 0 .. Len(p) :
    LET q == SubSeq(p, 1, i) IN
      /\ q \in DOMAIN output \cup DOMAIN lower
      /\ Shown(q) # White /\ (i < Len(p) => Shown(q) \in Dirs)

Overlay == [p \in {q \in Paths : Visible(q)} |-> Shown(p)]

(* No directory with something in it turns into a file or link, and no link *)
(* to a directory turns into a directory.                                   *)
Compatible ==
  \A p \in DOMAIN lower \cap DOMAIN upper :
    /\ (\E q \in DOMAIN lower \ {Root} : Front(q) = p) /\ lower[p] \in Dirs => upper[p] \in Dirs
    /\ upper[p] \in Dirs => ~ (IsLink(lower, p) /\ IsDir(lower, p))

(* The variables keep their types, and every entry of the layer has its     *)
(* directory in the layer.                                                  *)
TypeOK ==
  /\ todo \subseteq Paths \ {Root}
  /\ walk \in {"upper", "lower", "done", "raised"}
  /\ Root \in DOMAIN output
  /\ \A p \in DOMAIN output :
       /\ p \in Seq(Parts) /\ output[p] \in Dirs \cup {White} \cup Files \cup Links
       /\ p # Root => Front(p) \in DOMAIN output /\ output[Front(p)] \in Dirs

(* make-layer.py: the lower tree under the layer is the upper tree, whatever*)
(* was added, changed, removed and turned into something else, and the      *)
(* program does not stop half way.  But for the two cases that Compatible   *)
(* names; but for owners, which a copy does not keep; and a directory that  *)
(* both trees have is one, of whatever mode, as a change of it is not       *)
(* noticed.                                                                 *)
Restores ==
  Compatible =>
    /\ walk # "raised"
    /\ walk = "done" =>
         /\ DOMAIN Overlay = DOMAIN upper
         /\ \A p \in DOMAIN upper :
              IF p \in DOMAIN lower /\ {lower[p], upper[p]} \subseteq Dirs THEN Overlay[p] \in Dirs
              ELSE Copied[Overlay[p]] = Copied[upper[p]]

=============================================================================
