------------------------------ MODULE SavePerms ------------------------------
(***************************************************************************)
(* Permissions and extended attributes across a BuildStream artifact:       *)
(* save-perms.py writes down, as lines for systemd-tmpfiles, what           *)
(* BuildStream is going to lose of a tree; the element that makes the image *)
(* applies them to what it got (elements/gnomeos/*/layer.bst, image.bst).   *)
(* Paths are escaped on the lines, and the values of attributes are not: a  *)
(* value is "special" if it has a blank, a quote, a backslash or a percent  *)
(* sign, or is empty, and "binary" if it is not ASCII.  Left out: blanks in *)
(* the name of a program with capabilities, which getcap prints.            *)
(***************************************************************************)
EXTENDS FiniteSets

CONSTANTS
  Nodes,   \* files, directories and links
  Parent,  \* of each node, the directory it is in
  Root,    \* the directory given as root, which is its own parent
  Trees    \* of each node: its kind, mode and attributes

Modes == {"0644", "0755", "0700", "1777", "4755"}
Attributes == {"capability", "text", "special", "binary"}
Entry == [kind : {"dir", "file", "link"}, mode : Modes, attributes : SUBSET Attributes]

TreesAssumption ==
  /\ IsFiniteSet(Nodes) /\ Root \in Nodes /\ Parent \in [Nodes -> Nodes] /\ Parent[Root] = Root
  /\ Trees \subseteq [Nodes -> Entry] /\ \A t \in Trees, n \in Nodes : t[Parent[n]].kind = "dir"
  /\ \A S \in SUBSET Nodes :  \* the root is above every node
       Root \in S /\ (\A n \in Nodes : Parent[n] \in S => n \in S) => S = Nodes

VARIABLES
  tree,     \* what the element made
  walk,     \* directories os.walk still has to visit
  configs,  \* lines so far
  backup,   \* the file of lines
  phase,    \* "walk", "write", "artifact", "restore", "done", "failed"
  image     \* what the next element has: of the attributes, those with the value they had

vars == <<tree, walk, configs, backup, phase, image>>

Init ==
  /\ tree \in Trees /\ walk = {Root} /\ configs = {} /\ backup = {} /\ phase = "walk" /\ image = tree

Children(d) == {n \in Nodes \ {Root} : Parent[n] = d}

\* Mutant of Mode: the bits above 0777 are not looked at.
Mode_NoSpecial(n) ==
  LET usual == IF tree[n].kind = "file" THEN {"0755", "0644", "4755"} ELSE {"0755"} IN
  IF tree[n].mode \notin usual THEN {[type |-> "z", path |-> n, value |-> tree[n].mode]} ELSE {}

(* The modes a file or directory has anyway need no line.                   *)
Mode(n) ==
  LET usual == IF tree[n].kind = "file" THEN {"0755", "0644"} ELSE {"0755"} IN
  IF tree[n].mode \notin usual THEN {[type |-> "z", path |-> n, value |-> tree[n].mode]} ELSE {}

retrieve_one(n) ==
  IF tree[n].kind = "link" THEN {}
  ELSE Mode(n) \cup {[type |-> IF a = "capability" THEN "k" ELSE "t", path |-> n, value |-> a] :
                       a \in tree[n].attributes}

(* One round of os.walk; value.decode("ascii") raises for anything else.    *)
Visit(d) ==
  /\ phase = "walk" /\ d \in walk
  /\ IF \E n \in Children(d) : tree[n].kind # "link" /\ "binary" \in tree[n].attributes
     THEN phase' = "failed" /\ UNCHANGED <<walk, configs>>
     ELSE /\ walk' = (walk \ {d}) \cup {n \in Children(d) : tree[n].kind = "dir"}
          /\ configs' = configs \cup UNION {retrieve_one(n) : n \in Children(d)}
          /\ UNCHANGED phase
  /\ UNCHANGED <<tree, backup, image>>

Write ==
  /\ phase = "walk" /\ walk = {} /\ backup' = configs /\ phase' = "artifact"
  /\ UNCHANGED <<tree, walk, configs, image>>

(* What is left of an entry in an artifact: whether it is executable.       *)
Lost(e) ==
  [e EXCEPT !.mode = IF e.kind = "file" /\ e.mode = "0644" THEN "0644" ELSE "0755", !.attributes = {}]

Artifact ==
  /\ phase = "artifact" /\ phase' = "restore" /\ image' = [n \in Nodes |-> Lost(tree[n])]
  /\ UNCHANGED <<tree, walk, configs, backup>>

(* What the value of a line is read as: what follows t is split into words, *)
(* unquoted and expanded, so that a special value is cut, changed or        *)
(* refused.                                                                 *)
Taken(c) == {c.value} \ {"special"}

(* systemd-tmpfiles --create, one line after the other.                     *)
Apply(c) ==
  /\ phase = "restore" /\ c \in backup /\ backup' = backup \ {c}
  /\ image' = IF c.type = "z" THEN [image EXCEPT ![c.path].mode = c.value]
              ELSE [image EXCEPT ![c.path].attributes = @ \cup Taken(c)]
  /\ UNCHANGED <<tree, walk, configs, phase>>

Done ==
  /\ phase = "restore" /\ backup = {} /\ phase' = "done"
  /\ UNCHANGED <<tree, walk, configs, backup, image>>

Next ==
  \/ \E d \in Nodes : Visit(d)
  \/ Write \/ Artifact \/ Done
  \/ \E c \in backup : Apply(c)

Spec == Init /\ [][Next]_vars

------------------------------------------------------------------------------
(* Every variable has its type, and there is a file of lines only once all  *)
(* of the tree could be read.                                               *)
TypeOK ==
  /\ tree \in [Nodes -> Entry] /\ image \in [Nodes -> Entry] /\ walk \subseteq {n \in Nodes : tree[n].kind = "dir"}
  /\ backup \subseteq configs /\ \A c \in configs : c.type \in {"z", "k", "t"} /\ c.path \in Nodes
  /\ phase \in {"walk", "artifact", "restore", "done", "failed"}
  /\ phase \in {"walk", "failed"} => backup = {}

(* save-perms.py 2: the image has the permissions and attributes that the   *)
(* tree had, wherever they are in it and whatever BuildStream makes of      *)
(* them; but for attributes with a special value, which do not come back as *)
(* they were, and for the root, which is not walked and comes out 0755.     *)
Restored ==
  phase = "done" =>
    \A n \in Nodes \ {Root} :
      tree[n].kind # "link" => image[n] = [tree[n] EXCEPT !.attributes = @ \ {"special"}]
=============================================================================
