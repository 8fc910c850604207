----------------------------- MODULE MCPrograms -----------------------------
(***************************************************************************)
(* Small inputs of the five programs.                                       *)
(***************************************************************************)
EXTENDS Programs, SequencesExt

CONSTANTS one, two, mid, low  \* names in the trees of MakeLayer

(* Trees over two names at the top, with two levels below one of them.  The *)
(* first can be a directory of another mode, the second a file of another   *)
(* owner; one link may lead to the second, the other leads to nothing.      *)
TreePaths == {<<>>, <<one>>, <<two>>, <<one, mid>>, <<one, mid, low>>, <<two, mid>>}
MCPaths == TreePaths \cup {<<two, mid, low>>, <<two, low>>, <<mid>>}
MCLinkTo == [l \in {"l1", "l2"} |-> IF l = "l1" THEN <<two>> ELSE <<mid>>]
MCCopied == [e \in Dirs \cup Files \cup Links |-> IF e = "f1 of user" THEN "f1" ELSE e]

WellFormed(t) ==
  \A p \in DOMAIN t :
    /\ p # <<>> => Front(p) \in DOMAIN t /\ t[Front(p)] \in Dirs
    /\ t[p] \in Links /\ LinkTo[t[p]] \in DOMAIN t => t[LinkTo[t[p]]] \notin Links

Kinds(p) ==
  CASE p = <<>> -> {"dir"} [] p = <<one, mid, low>> -> {"f1"} [] p = <<two, mid>> -> {"dir", "f1", "l2"}
    [] p = <<one>> -> {"dir", "private", "f1", "l1"}
    [] p = <<two>> -> {"dir", "f1", "f2", "f1 of user", "l2"}
    [] OTHER -> {"dir", "f1", "l1"}
MCLayers ==
  {t \in UNION {[D \cup {<<>>} -> Dirs \cup Files \cup Links] : D \in SUBSET TreePaths} :
     (\A p \in DOMAIN t : t[p] \in Kinds(p)) /\ WellFormed(t)}

(* usr has a directory, with a file or a directory, and a program or a link.*)
MCParent == [n \in Nodes |-> IF n = "file" THEN "lib" ELSE "usr"]
Entry == [kind : {"dir", "file", "link"}, mode : {"0644", "0755", "0700", "1777", "4755"},
          attributes : SUBSET {"capability", "text", "special", "binary"}]
Libs == {e \in Entry : /\ e.kind = "dir" /\ e.mode \in {"0755", "0700", "1777"}
                       /\ e.attributes \in {{}, {"text"}, {"text", "special"}}}
Below == {e \in Entry : /\ e.kind # "link" /\ e.mode \in {"0755", "0644", "0700"}
                        /\ Cardinality(e.attributes) < 2}
Exes == {e \in Entry :
           \/ e.kind = "file" /\ e.mode \in {"0755", "4755"} /\ "binary" \notin e.attributes
           \/ e.kind = "link" /\ e.mode = "0755" /\ e.attributes = {}}
Usr == [kind |-> "dir", mode |-> "0755", attributes |-> {}]
MCTrees ==
  {[n \in Nodes |-> CASE n = "usr" -> Usr [] n = "lib" -> l [] n = "file" -> f [] n = "exe" -> e] :
     l \in Libs, f \in Below, e \in Exes}

(* Four applications for one type; at most two of them are incubating.      *)
MCApps == <<"a1", "a2", "a3", "a4">>
Ids == {"a1", "a2", "a3", "a4"}
MCSystems == {[i \in D |-> Types] : D \in SUBSET Ids}
MCQuirks ==
  {[skip_apps |-> s, incubating |-> i, override |-> o] :
     s \in {{}, {"a3"}},
     i \in UNION {[D -> Ids] : D \in {D \in SUBSET Ids : Cardinality(D) <= 2}},
     o \in {<<>>} \cup [Types -> {<<>>, <<"a2">>}]}

(* The boot medium, a disk that can be used and one that is too small.      *)
MCFault == [d \in Disks |-> IF d = "bad" THEN "too small" ELSE "none"]

(* Two disks, each with a pair of partitions; a table with or without an    *)
(* optional argument.                                                       *)
MCPairs == {<<"A data", "A hash">>, <<"B data", "B hash">>}
MCNumber == [n \in BlockDevices |->
               CASE n = "A data" -> "8:1" [] n = "A hash" -> "8:2"
                 [] n = "B data" -> "9:1" [] n = "B hash" -> "9:2"]
Line == <<"1", "boot data", "boot hash", "4096", "4096", "blocks", "1", "sha256", "root", "salt">>
MCTables == {Line, Line \o <<"1", "panic_on_corruption">>}

=============================================================================
