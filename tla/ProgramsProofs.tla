---------------------------- MODULE ProgramsProofs ----------------------------
(***************************************************************************)
(* The programs of Programs for any trees, applications, disks and tables.  *)
(***************************************************************************)
EXTENDS Programs, SequenceTheorems, WellFoundedInduction, TLAPS

(* A tree: every entry is in a directory of the tree.                       *)
Closed(t) ==
  /\ DOMAIN t \subseteq Paths /\ Layer!Root \in DOMAIN t /\ t[Layer!Root] \in Dirs
  /\ \A p \in DOMAIN t \ {Layer!Root} : Layer!Front(p) \in DOMAIN t /\ t[Layer!Front(p)] \in Dirs

(* What is to be removed: the topmost of what the upper tree does not have. *)
Missing(p) == p \in DOMAIN lower \ {Layer!Root} /\ p \notin DOMAIN upper /\ Layer!Front(p) \in DOMAIN upper
Same(p) == p \in DOMAIN lower /\ (lower[p] = upper[p] \/ {lower[p], upper[p]} \subseteq Dirs)

(* What the layer has of the upper tree is a copy; its root was there.      *)
CopyOf(e, p) == p # Layer!Root => e = Copied[upper[p]]

(* The layer has entries of the upper tree and whiteouts; what the walks    *)
(* have passed is in it if it differs, and what they have not come to may   *)
(* be in it as a directory only.                                            *)
LayerInv ==
  /\ walk \in {"upper", "lower", "done"} /\ Closed(output)
  /\ \A p \in DOMAIN output :
       IF p \in DOMAIN upper THEN CopyOf(output[p], p)
       ELSE output[p] = White /\ Missing(p) /\ p \notin todo /\ walk # "upper"
  /\ walk = "upper" => /\ todo \subseteq DOMAIN upper \ {Layer!Root}
                       /\ \A p \in DOMAIN output \cap todo : upper[p] \in Dirs
                       /\ \A p \in DOMAIN upper \ todo : p \in DOMAIN output \/ Same(p)
  /\ walk # "upper" => /\ todo \subseteq DOMAIN lower \ {Layer!Root}
                       /\ \A p \in DOMAIN upper : p \in DOMAIN output \/ Same(p)
                       /\ \A p \in DOMAIN lower \ todo : Missing(p) => p \in DOMAIN output
  /\ walk = "done" => todo = {}

(* Whatever the trees are: every entry of the layer is in a directory of it,*)
(* even when whiteouts are written through links, and the first walk writes *)
(* only what the upper tree has.                                            *)
Built(t) ==
  /\ DOMAIN t \subseteq Seq(Layer!Parts) /\ Layer!Root \in DOMAIN t /\ t[Layer!Root] \in Dirs
  /\ \A p \in DOMAIN t : t[p] \in Dirs \cup {White} \cup Files \cup Links
  /\ \A p \in DOMAIN t \ {Layer!Root} : Layer!Front(p) \in DOMAIN t /\ t[Layer!Front(p)] \in Dirs

FirstWalk ==
  /\ Closed(output) /\ \A p \in DOMAIN output : p \in DOMAIN upper /\ CopyOf(output[p], p)
  /\ todo \subseteq DOMAIN upper \ {Layer!Root}
  /\ \A p \in DOMAIN output \cap todo : upper[p] \in Dirs

BuiltInv ==
  /\ walk \in {"upper", "lower", "done", "raised"} /\ Built(output)
  /\ IF walk = "upper" THEN FirstWalk ELSE todo \subseteq DOMAIN lower \ {Layer!Root}

(* The trees stay as they are.                                              *)
TreesInv == lower \in Layers /\ upper \in Layers /\ BuiltInv /\ (Layer!Compatible => LayerInv)

(* Every line is one that retrieve_one gives for a node below the root.     *)
Given == \A c \in configs : c.path \in Nodes \ {TreeRoot} /\ c \in Perms!retrieve_one(c.path)

(* What a node needs is written down, and can be.                           *)
Saved(n) ==
  Perms!retrieve_one(n) \subseteq configs /\ (tree[n].kind # "link" => "binary" \notin tree[n].attributes)

(* The directories that were visited, which no variable tells: what is in   *)
(* them is saved, and the directories in them are visited or will be.       *)
Visited(V) ==
  /\ TreeRoot \in V \cup dirs
  /\ \A n \in Nodes \ {TreeRoot} : Parent[n] \in V =>
       Saved(n) /\ (tree[n].kind = "dir" => n \in V \cup dirs)

Attr(n, a) == [type |-> IF a = "capability" THEN "k" ELSE "t", path |-> n, value |-> a]

(* What a node still lacks in the image is on a line that is left.          *)
Lacking(n) ==
  /\ image[n].kind = tree[n].kind /\ image[n].attributes \subseteq tree[n].attributes \ {"special"}
  /\ image[n].mode = tree[n].mode \/ (Perms!Mode(n) # {} /\ Perms!Mode(n) \subseteq backup)
  /\ \A a \in tree[n].attributes \ (image[n].attributes \cup {"special"}) : Attr(n, a) \in backup

PermsInv ==
  /\ Perms!TypeOK /\ tree \in Trees /\ Given
  /\ phase = "walk" => \E V \in SUBSET Nodes : Visited(V)
  /\ phase = "artifact" => backup = configs /\ \A n \in Nodes \ {TreeRoot} : Saved(n)
  /\ phase \in {"restore", "done"} =>
       \A n \in Nodes \ {TreeRoot} : tree[n].kind # "link" => Lacking(n)
  /\ phase = "done" => backup = {}

In(s, a) == \E k \in DOMAIN s : s[k] = a

(* What has been scanned is listed, under each of its types.                *)
Scanned(t) == Mime!Candidates(t) \ unread
Listed ==
  \A t \in Types :
    IF t \in DOMAIN types THEN \A a : In(types[t], a) <=> a \in Scanned(t)
    ELSE Scanned(t) = {}

(* The order of each pair whose core application does not replace another.  *)
PairFirst ==
  \A t \in Types : \A a \in Mime!Candidates(t) \cap DOMAIN quirks.incubating :
    LET b == quirks.incubating[a] IN
      /\ b \in Mime!Candidates(t) /\ a # b /\ b \notin DOMAIN quirks.incubating
      /\ ~ \E c \in Mime!Candidates(t) : Mime!Earlier(Apps, b, c) /\ Mime!Earlier(Apps, c, a)
      => Mime!Earlier(Mime!Made(t), a, b)

MimeInv ==
  /\ Mime!TypeOK
  /\ step = "scan" => unread \subseteq DOMAIN system /\ DOMAIN was = {} /\ Listed
  /\ step # "scan" => unread \subseteq DOMAIN quirks.override /\ unread \cap DOMAIN was = {}
  /\ Mime!AreSorted => PairFirst

(* A window that asks or writes has a row selected, one that has yet to be  *)
(* listed has not; the disk behind a row is the one it shows until a disk   *)
(* is unplugged; "erase" was answered for the row that is formatted.        *)
DiskInv ==
  /\ Disk!TypeOK /\ unplugs \in Nat
  /\ window = "listing" => selected = Disk!NoDisk
  /\ window \in {"dialog", "format", "install"} => selected # Disk!NoDisk
  /\ window = "format" => [name |-> selected, disk |-> rows[selected].disk] \in answered
  /\ daemon # "idle" => target # Disk!NoDisk
  /\ unplugs = 0 => \A n \in Names : rows[n] # Disk!NoRow => plugged[n] = rows[n].disk
  /\ Disk!AskedFirst

(* The table of the boot, but for the two devices.                          *)
Kept(t) ==
  /\ t \in Seq(Verity!Field) /\ Len(t) = Len(booted)
  /\ \A i \in DOMAIN booted \ {2, 3} : t[i] = booted[i]
  /\ Verity!Devices(t) \in {Verity!Devices(booted)} \cup {<<Number[p[1]], Number[p[2]]>> : p \in Pairs}

Moved(t) == Kept(t) /\ Verity!Devices(t) = <<Number[asked[1]], Number[asked[2]]>>

(* A run makes its table from the one in use, and what it resumes is the    *)
(* table it loaded, whatever an earlier run has left there.                 *)
VerityInv ==
  /\ Verity!TypeOK /\ Kept(active) /\ (inactive = Verity!None \/ Kept(inactive))
  /\ at \in {"table", "update", "reload", "resume", "ok"} => asked \in Pairs
  /\ at = "update" => params = active
  /\ at = "reload" => params = Verity!None \/ Moved(params)
  /\ at = "resume" => inactive # Verity!None /\ Moved(inactive)
  /\ at = "ok" => Moved(active)

IInv ==
  /\ which = "layer" => TreesInv
  /\ which = "perms" => PermsInv
  /\ which = "mime" => MimeInv
  /\ which = "disk" => DiskInv
  /\ which = "verity" => VerityInv

------------------------------------------------------------------------------
(* The least of a set of numbers: it is what induction becomes here.        *)
LEMMA LeastNat ==
  ASSUME NEW T \in SUBSET Nat, T # {}
  PROVE  \E x \in T : \A y \in T : x <= y
<1> DEFINE R == OpToRel(<, Nat)
<1>1. IsWellFoundedOn(R, Nat) BY NatLessThanWellFounded
<1>2. \A x, y \in Nat : <<y, x>> \in R <=> y < x BY DEF OpToRel
<1> HIDE DEF R
<1>3. PICK x \in T : \A y \in T : ~ (<<y, x>> \in R) BY <1>1, WFMin
<1>4. ASSUME NEW y \in T PROVE ~ (y < x)
  <2>1. x \in Nat /\ y \in Nat OBVIOUS
  <2>2. <<y, x>> \in R <=> y < x BY <1>2, <2>1
  <2> QED BY <1>3, <2>2
<1>5. \A y \in T : x <= y BY <1>4
<1> QED BY <1>5

(* Induction and recursion up to a number, for sets and functions.          *)
LEMMA Upwards ==
  ASSUME NEW N \in Nat, NEW T, 0 \in T, \A n \in 0 .. N - 1 : n \in T => n + 1 \in T
  PROVE  \A n \in 0 .. N : n \in T
<1> DEFINE Bad == {n \in 0 .. N : n \notin T}
<1> SUFFICES ASSUME Bad # {} PROVE FALSE OBVIOUS
<1>1. Bad \in SUBSET Nat OBVIOUS
<1>2. PICK n \in Bad : \A m \in Bad : n <= m BY <1>1, LeastNat
<1>3. n \in 0 .. N /\ n \notin T OBVIOUS
<1>4. n # 0 BY <1>3
<1>5. n - 1 \in 0 .. N - 1 /\ n - 1 \in 0 .. N /\ ~ (n <= n - 1) /\ (n - 1) + 1 = n BY <1>3, <1>4
<1>6. n - 1 \in T BY <1>2, <1>5
<1> QED BY <1>3, <1>5, <1>6

Iterates(f, N, X, base, G) ==
  f \in [0 .. N -> X] /\ f[0] = base /\ \A n \in 1 .. N : f[n] = G[n][f[n - 1]]

LEMMA Recursion ==
  ASSUME NEW N \in Nat, NEW X, NEW base \in X, NEW G \in [1 .. N -> [X -> X]]
  PROVE  \E f : Iterates(f, N, X, base, G)
<1> DEFINE Good(f, n) == f \in [0 .. n -> X] /\ f[0] = base /\ \A m \in 1 .. n : f[m] = G[m][f[m - 1]]
           T == {n \in Nat : \E f : Good(f, n)}
<1>1. 0 \in T
  <2> DEFINE f == [m \in 0 .. 0 |-> base]
  <2>1. Good(f, 0) OBVIOUS
  <2> QED BY <2>1
<1>2. ASSUME NEW n \in 0 .. N - 1, n \in T PROVE n + 1 \in T
  <2>1. PICK f : Good(f, n) BY <1>2
  <2> DEFINE h == [m \in 0 .. n + 1 |-> IF m = n + 1 THEN G[n + 1][f[n]] ELSE f[m]]
  <2>2. n \in Nat /\ n + 1 \in 1 .. N /\ n \in 0 .. n OBVIOUS
  <2>3. f[n] \in X /\ G[n + 1] \in [X -> X] BY <2>1, <2>2
  <2>4. G[n + 1][f[n]] \in X BY <2>3
  <2>5. h \in [0 .. n + 1 -> X] BY <2>1, <2>2, <2>4
  <2>6. \A m \in 0 .. n : h[m] = f[m] BY <2>2
  <2>7. h[n + 1] = G[n + 1][f[n]] BY <2>2
  <2>8. \A m \in 1 .. n + 1 : m = n + 1 \/ (m \in 1 .. n /\ m \in 0 .. n /\ m - 1 \in 0 .. n)
    BY <2>2
  <2> HIDE DEF h
  <2>9. \A m \in 1 .. n + 1 : h[m] = G[m][h[m - 1]]
    <3> TAKE m \in 1 .. n + 1
    <3>1. CASE m = n + 1
      <4>1. m - 1 = n BY <2>2, <3>1
      <4> QED BY <2>2, <2>6, <2>7, <3>1, <4>1
    <3>2. CASE m # n + 1 BY <2>1, <2>6, <2>8, <3>2
    <3> QED BY <3>1, <3>2
  <2>10. h[0] = base BY <2>1, <2>2, <2>6
  <2>11. Good(h, n + 1) /\ n + 1 \in Nat BY <2>2, <2>5, <2>9, <2>10
  <2> QED BY <2>11
<1> HIDE DEF T
<1>3. \A n \in 0 .. N - 1 : n \in T => n + 1 \in T BY <1>2
<1>4. \A n \in 0 .. N : n \in T BY <1>1, <1>3, Upwards
<1>5. N \in T BY <1>4
<1> QED BY <1>5 DEF T, Iterates

------------------------------------------------------------------------------
(* The paths of a tree.                                                     *)
Prefix(p, i) == SubSeq(p, 1, i)

LEMMA PathFacts ==
  ASSUME NEW p \in Paths
  PROVE  /\ p \in Seq(Layer!Parts) /\ Len(p) \in Nat /\ DOMAIN p = 1 .. Len(p)
         /\ p = Layer!Root <=> Len(p) = 0
<1>1. p \in Seq(Layer!Parts) BY LayerInputs DEF Layer!PathsAssumption
<1>2. Len(p) \in Nat /\ DOMAIN p = 1 .. Len(p) BY <1>1, LenProperties
<1>3. p = Layer!Root <=> Len(p) = 0 BY <1>1, EmptySeq DEF Layer!Root
<1> QED BY <1>1, <1>2, <1>3

LEMMA NowhereIsNoPath == Layer!Nowhere \notin Seq(Layer!Parts) /\ Layer!Nowhere \notin Paths
<1>1. Layer!Root \notin Layer!Parts BY LayerInputs DEF Layer!PathsAssumption
<1>2. Layer!Nowhere \notin Seq(Layer!Parts)
  <2> SUFFICES ASSUME Layer!Nowhere \in Seq(Layer!Parts) PROVE FALSE OBVIOUS
  <2>1. Len(Layer!Nowhere) = 1 /\ Layer!Nowhere[1] = Layer!Root BY DEF Layer!Nowhere
  <2>2. 1 \in 1 .. Len(Layer!Nowhere) BY <2>1
  <2>3. Layer!Nowhere[1] \in Layer!Parts BY <2>2, ElementOfSeq
  <2> QED BY <1>1, <2>1, <2>3
<1> QED BY <1>2, LayerInputs DEF Layer!PathsAssumption

LEMMA PrefixSeq ==
  ASSUME NEW S, NEW p \in Seq(S), NEW i \in 0 .. Len(p)
  PROVE  /\ Prefix(p, i) \in Seq(S) /\ Len(Prefix(p, i)) = i /\ Len(p) \in Nat
         /\ \A j \in 1 .. i : Prefix(p, i)[j] = p[j]
<1>1. Len(p) \in Nat /\ \A j \in 1 .. i : p[j] \in S BY LenProperties, ElementOfSeq
<1>2. /\ SubSeq(p, 1, i) \in Seq(S) /\ Len(SubSeq(p, 1, i)) = IF 1 <= i THEN i - 1 + 1 ELSE 0
      /\ \A j \in 1 .. i - 1 + 1 : SubSeq(p, 1, i)[j] = p[1 + j - 1]
  BY <1>1, SubSeqProperties
<1>3. i \in Nat /\ \A j \in 1 .. i : j \in 1 .. i - 1 + 1 /\ 1 + j - 1 = j BY <1>1
<1> QED BY <1>1, <1>2, <1>3 DEF Prefix

LEMMA PrefixOf ==
  ASSUME NEW S, NEW p \in Seq(S), NEW i \in 0 .. Len(p), NEW j \in 0 .. i
  PROVE  Prefix(Prefix(p, i), j) = Prefix(p, j)
<1>1. Len(p) \in Nat /\ i \in Nat /\ j \in Nat /\ j \in 0 .. Len(p) BY LenProperties
<1>2. Prefix(p, i) \in Seq(S) /\ Len(Prefix(p, i)) = i /\ j \in 0 .. Len(Prefix(p, i)) BY PrefixSeq
<1>3. /\ Prefix(p, j) \in Seq(S) /\ Len(Prefix(p, j)) = j
      /\ Prefix(Prefix(p, i), j) \in Seq(S) /\ Len(Prefix(Prefix(p, i), j)) = j
  BY <1>1, <1>2, PrefixSeq
<1>4. \A k \in 1 .. j : Prefix(Prefix(p, i), j)[k] = Prefix(p, j)[k]
  <2> SUFFICES ASSUME NEW k \in 1 .. j PROVE Prefix(Prefix(p, i), j)[k] = Prefix(p, j)[k] OBVIOUS
  <2>1. k \in 1 .. i BY <1>1
  <2>2. Prefix(Prefix(p, i), j)[k] = Prefix(p, i)[k] BY <1>2, PrefixSeq
  <2>3. Prefix(p, i)[k] = p[k] BY <2>1, PrefixSeq
  <2>4. Prefix(p, j)[k] = p[k] BY <1>1, PrefixSeq
  <2> QED BY <2>2, <2>3, <2>4
<1> QED BY <1>3, <1>4, SeqEqual

LEMMA FrontFacts ==
  ASSUME NEW p \in Paths \ {Layer!Root}
  PROVE  /\ Layer!Front(p) \in Paths /\ Len(p) \in Nat \ {0} /\ Len(Layer!Front(p)) = Len(p) - 1
         /\ Layer!Front(p) = Prefix(p, Len(p) - 1) /\ Append(Layer!Front(p), Layer!Last(p)) = p
<1> DEFINE S == Layer!Parts
<1>1. p \in Seq(S) /\ Len(p) \in Nat \ {0} BY PathFacts
<1> HIDE DEF S
<1>2. Layer!Front(p) = Prefix(p, Len(p) - 1) BY DEF Layer!Front, Prefix
<1>3. Len(Layer!Front(p)) = Len(p) - 1 BY <1>1, <1>2, PrefixSeq
<1>4. SubSeq(p, 1, Len(p)) = SubSeq(p, 1, Len(p) - 1) \o <<p[Len(p)]>>
  BY <1>1, SubSeqRecursiveSecond
<1>5. SubSeq(p, 1, Len(p)) = p BY <1>1, SubSeqFull
<1>6. Layer!Front(p) \in Seq(S) /\ Layer!Last(p) \in S
  BY <1>1, <1>2, PrefixSeq, ElementOfSeq DEF Layer!Last
<1>7. Append(Layer!Front(p), Layer!Last(p)) = Layer!Front(p) \o <<Layer!Last(p)>>
  BY <1>6, AppendIsConcat
<1>8. Append(Layer!Front(p), Layer!Last(p)) = p BY <1>2, <1>4, <1>5, <1>7 DEF Layer!Last, Prefix
<1>9. Layer!Front(p) \in Paths BY LayerInputs DEF Layer!PathsAssumption
<1> QED BY <1>1, <1>2, <1>3, <1>8, <1>9

LEMMA PrefixFacts ==
  ASSUME NEW p \in Paths, NEW i \in 0 .. Len(p)
  PROVE  /\ Len(p) \in Nat /\ Prefix(p, i) \in Paths /\ Len(Prefix(p, i)) = i
         /\ Prefix(p, 0) = Layer!Root /\ Prefix(p, Len(p)) = p
         /\ \A j \in 0 .. i : Prefix(Prefix(p, i), j) = Prefix(p, j)
         /\ i # 0 => Prefix(p, i) # Layer!Root /\ Layer!Front(Prefix(p, i)) = Prefix(p, i - 1)
<1> DEFINE S == Layer!Parts
           N == Len(p)
<1>1. p \in Seq(S) /\ N \in Nat BY PathFacts
<1> HIDE DEF S
<1>2. Prefix(p, N) = p BY <1>1, SubSeqFull DEF Prefix
<1>3. Prefix(p, 0) = Layer!Root BY SubSeqEmpty DEF Prefix, Layer!Root
<1>4. ASSUME NEW k \in 1 .. N, Prefix(p, k) \in Paths
      PROVE  Prefix(p, k) # Layer!Root /\ Layer!Front(Prefix(p, k)) = Prefix(p, k - 1) /\ Prefix(p, k - 1) \in Paths
  <2>1. k \in 0 .. N /\ k - 1 \in 0 .. k BY <1>1
  <2>2. Len(Prefix(p, k)) = k BY <1>1, <2>1, PrefixSeq
  <2>3. Prefix(p, k) # Layer!Root
    <3>1. Prefix(p, k) = Layer!Root <=> Len(Prefix(p, k)) = 0 BY <1>4, PathFacts
    <3> QED BY <1>1, <2>2, <3>1
  <2>4. Layer!Front(Prefix(p, k)) = Prefix(Prefix(p, k), k - 1) /\ Layer!Front(Prefix(p, k)) \in Paths
    BY <1>4, <2>2, <2>3, FrontFacts
  <2>5. Prefix(Prefix(p, k), k - 1) = Prefix(p, k - 1) BY <1>1, <2>1, PrefixOf
  <2> QED BY <2>3, <2>4, <2>5
<1>5. \A k \in 0 .. N : Prefix(p, k) \in Paths
  <2> DEFINE T == {k \in 0 .. N : Prefix(p, N - k) \notin Paths}
  <2> SUFFICES ASSUME T # {} PROVE FALSE
    <3>1. \A k \in 0 .. N : N - k \in 0 .. N /\ N - (N - k) = k BY <1>1
    <3> QED BY <3>1
  <2>1. T \in SUBSET Nat BY <1>1
  <2>2. PICK k \in T : \A j \in T : k <= j BY <2>1, LeastNat
  <2>3. k \in 0 .. N /\ Prefix(p, N - k) \notin Paths OBVIOUS
  <2> HIDE DEF T
  <2>4. k # 0 BY <1>1, <1>2, <2>3
  <2>5. k - 1 \in 0 .. N /\ ~ (k <= k - 1) /\ N - (k - 1) \in 1 .. N /\ (N - (k - 1)) - 1 = N - k
    BY <1>1, <2>3, <2>4
  <2>6. k - 1 \notin T BY <2>2, <2>5
  <2>7. Prefix(p, N - (k - 1)) \in Paths BY <2>5, <2>6 DEF T
  <2> QED BY <1>4, <2>3, <2>5, <2>7
<1>6. Prefix(p, i) \in Paths BY <1>5
<1>7. i # 0 => i \in 1 .. N BY <1>1
<1>8. Len(Prefix(p, i)) = i /\ \A j \in 0 .. i : Prefix(Prefix(p, i), j) = Prefix(p, j)
  BY <1>1, PrefixSeq, PrefixOf
<1> QED BY <1>1, <1>2, <1>3, <1>4, <1>6, <1>7, <1>8


(* Both recursive functions of MakeLayer go up a path to the root.          *)
LocateIn(t, v, p) ==
  LET d == Layer!Follow(t, v) IN IF d \in DOMAIN t /\ t[d] \in Dirs THEN Append(d, Layer!Last(p)) ELSE Layer!Nowhere
MakeIn(t, o, p) == IF Layer!IsDir(t, p) THEN t ELSE Layer!Put(o, Layer!Locate(o)[p], Layer!DirLike(p))
OneMore(rec, t, v, p) ==
  IF p = Layer!Root THEN (IF rec = "locate" THEN Layer!Root ELSE t)
  ELSE IF rec = "locate" THEN LocateIn(t, v, p) ELSE MakeIn(t, v, p)
Upto(n) == {p \in Paths : Len(p) <= n}
Computes(rec, t, g, n) == g = [p \in Upto(n) |-> OneMore(rec, t, g[Layer!Front(p)], p)]

LEMMA UptoFacts ==
  /\ Upto(0) = {Layer!Root}
  /\ \A n \in Nat : \A p \in Upto(n + 1) \ {Layer!Root} : Layer!Front(p) \in Upto(n)
  /\ \A n \in Nat : Upto(n) \subseteq Upto(n + 1)
  /\ \A p \in Paths : Len(p) \in Nat /\ p \in Upto(Len(p))
<1>1. \A p \in Paths : Len(p) \in Nat /\ (p = Layer!Root <=> Len(p) = 0) BY PathFacts
<1>2. Layer!Root \in Paths BY LayerInputs DEF Layer!PathsAssumption
<1>3. Upto(0) = {Layer!Root} BY <1>1, <1>2 DEF Upto
<1>4. \A p \in Paths \ {Layer!Root} : Layer!Front(p) \in Paths /\ Len(Layer!Front(p)) = Len(p) - 1
  BY FrontFacts
<1> QED BY <1>1, <1>3, <1>4 DEF Upto

LEMMA Computed ==
  ASSUME NEW rec, NEW t, NEW n \in Nat
  PROVE  \E g : Computes(rec, t, g, n)
<1> DEFINE T == {k \in Nat : ~ \E g : Computes(rec, t, g, k)}
<1> SUFFICES ASSUME T # {} PROVE FALSE OBVIOUS
<1>1. PICK k \in T : \A j \in T : k <= j BY LeastNat
<1>2. k \in Nat /\ ~ \E g : Computes(rec, t, g, k) OBVIOUS
<1>3. CASE k = 0
  <2> DEFINE g == [p \in {Layer!Root} |-> OneMore(rec, t, Layer!Root, p)]
  <2>1. OneMore(rec, t, Layer!Root, Layer!Root) = OneMore(rec, t, g[Layer!Front(Layer!Root)], Layer!Root)
    BY DEF OneMore
  <2>2. g = [p \in {Layer!Root} |-> OneMore(rec, t, g[Layer!Front(p)], p)] BY <2>1
  <2>3. Computes(rec, t, g, 0) BY <2>2, UptoFacts DEF Computes
  <2> QED BY <1>2, <1>3, <2>3
<1>4. CASE k # 0
  <2>1. k - 1 \in Nat /\ (k - 1) + 1 = k /\ ~ (k <= k - 1) BY <1>2, <1>4
  <2>2. k - 1 \notin T BY <1>1, <2>1
  <2>3. PICK g : Computes(rec, t, g, k - 1) BY <2>1, <2>2
  <2> DEFINE h == [p \in Upto(k) |-> OneMore(rec, t, g[Layer!Front(p)], p)]
  <2> HIDE DEF T
  <2>4. \A p \in Upto(k - 1) : p \in Upto(k) BY <2>1, UptoFacts
  <2>5. \A p \in Upto(k - 1) : g[p] = OneMore(rec, t, g[Layer!Front(p)], p) BY <2>3 DEF Computes
  <2>6. \A p \in Upto(k - 1) : h[p] = g[p] BY <2>4, <2>5
  <2>7. \A p \in Upto(k) \ {Layer!Root} : Layer!Front(p) \in Upto(k - 1) BY <2>1, UptoFacts
  <2> HIDE DEF h
  <2>8. \A p \in Upto(k) : OneMore(rec, t, g[Layer!Front(p)], p) = OneMore(rec, t, h[Layer!Front(p)], p)
    BY <2>6, <2>7 DEF OneMore
  <2>9. h = [p \in Upto(k) |-> OneMore(rec, t, h[Layer!Front(p)], p)] BY <2>8 DEF h
  <2> QED BY <1>2, <2>9 DEF Computes
<1> QED BY <1>3, <1>4

LEMMA ComputedOnce ==
  ASSUME NEW rec, NEW t, NEW m \in Nat, NEW n \in Nat, NEW g, NEW h,
         Computes(rec, t, g, m), Computes(rec, t, h, n), NEW p \in Upto(m) \cap Upto(n)
  PROVE  g[p] = h[p]
<1> DEFINE Bad == {q \in Upto(m) \cap Upto(n) : g[q] # h[q]}
           T == {Len(q) : q \in Bad}
<1> SUFFICES ASSUME Bad # {} PROVE FALSE OBVIOUS
<1>1. T \in SUBSET Nat /\ T # {}
  <2>1. Bad \subseteq Paths BY DEF Upto
  <2>2. \A q \in Bad : Len(q) \in Nat BY <2>1, UptoFacts
  <2> HIDE DEF Bad
  <2> QED BY <2>2
<1>2. PICK k \in T : \A j \in T : k <= j BY <1>1, LeastNat
<1>3. PICK q \in Bad : Len(q) = k OBVIOUS
<1>4. q \in Paths /\ g[q] = OneMore(rec, t, g[Layer!Front(q)], q) /\ h[q] = OneMore(rec, t, h[Layer!Front(q)], q) /\ g[q] # h[q]
  BY DEF Computes, Upto
<1>5. q # Layer!Root BY <1>4 DEF OneMore
<1>6. Layer!Front(q) \in Paths /\ Len(q) \in Nat \ {0} /\ Len(Layer!Front(q)) = Len(q) - 1
  BY <1>4, <1>5, FrontFacts
<1>7. Layer!Front(q) \notin Bad
  <2>1. ~ (k <= Len(Layer!Front(q))) BY <1>3, <1>6
  <2> QED BY <1>2, <2>1
<1>8. Layer!Front(q) \in Upto(m) \cap Upto(n) BY <1>3, <1>6 DEF Upto
<1>9. g[Layer!Front(q)] = h[Layer!Front(q)] BY <1>7, <1>8
<1> QED BY <1>4, <1>9

LEMMA Total ==
  ASSUME NEW rec, NEW t
  PROVE  \E f : f = [p \in Paths |-> OneMore(rec, t, f[Layer!Front(p)], p)]
<1> DEFINE G(n) == CHOOSE g : Computes(rec, t, g, n)
           f == [p \in Paths |-> G(Len(p))[p]]
<1>1. \A n \in Nat : Computes(rec, t, G(n), n) BY Computed
<1> HIDE DEF G
<1>2. ASSUME NEW p \in Paths PROVE f[p] = OneMore(rec, t, f[Layer!Front(p)], p)
  <2>1. Len(p) \in Nat /\ p \in Upto(Len(p)) BY UptoFacts
  <2>2. f[p] = OneMore(rec, t, G(Len(p))[Layer!Front(p)], p) BY <1>1, <2>1 DEF Computes
  <2>3. CASE p = Layer!Root BY <2>2, <2>3 DEF OneMore
  <2>4. CASE p # Layer!Root
    <3>1. Layer!Front(p) \in Paths /\ Len(p) \in Nat \ {0} /\ Len(Layer!Front(p)) = Len(p) - 1
      BY <2>4, FrontFacts
    <3>2. Layer!Front(p) \in Upto(Len(Layer!Front(p))) \cap Upto(Len(p)) BY <3>1 DEF Upto
    <3>3. Len(Layer!Front(p)) \in Nat BY <3>1
    <3>4. G(Len(p))[Layer!Front(p)] = G(Len(Layer!Front(p)))[Layer!Front(p)]
      BY <1>1, <2>1, <3>2, <3>3, ComputedOnce
    <3>5. f[Layer!Front(p)] = G(Len(Layer!Front(p)))[Layer!Front(p)] BY <3>1
    <3> QED BY <2>2, <3>4, <3>5
  <2> QED BY <2>3, <2>4
<1> HIDE DEF f
<1>3. f = [p \in Paths |-> f[p]] BY DEF f
<1>4. f = [p \in Paths |-> OneMore(rec, t, f[Layer!Front(p)], p)] BY <1>2, <1>3
<1> QED BY <1>4

LEMMA LocateFacts ==
  ASSUME NEW t
  PROVE  /\ Layer!Locate(t)[Layer!Root] = Layer!Root
         /\ \A p \in Paths \ {Layer!Root} : Layer!Locate(t)[p] = LocateIn(t, Layer!Locate(t)[Layer!Front(p)], p)
<1> DEFINE Good(f) == f = [p \in Paths |-> OneMore("locate", t, f[Layer!Front(p)], p)]
<1>1. \E f : Good(f) BY Total
<1>2. Layer!Locate(t) = CHOOSE f : Good(f) BY DEF Layer!Locate, OneMore, LocateIn
<1>3. Good(Layer!Locate(t)) BY <1>1, <1>2
<1>4. Layer!Root \in Paths BY LayerInputs DEF Layer!PathsAssumption
<1> QED BY <1>3, <1>4 DEF OneMore

LEMMA MakeFacts ==
  ASSUME NEW t, Layer!IsDir(t, Layer!Root)
  PROVE  /\ Layer!ParentDirs(t)[Layer!Root] = t
         /\ \A p \in Paths \ {Layer!Root} : Layer!ParentDirs(t)[p] = MakeIn(t, Layer!ParentDirs(t)[Layer!Front(p)], p)
<1> DEFINE Good(f) == f = [p \in Paths |-> OneMore("make", t, f[Layer!Front(p)], p)]
           Made(f) == f = [p \in Paths |-> MakeIn(t, f[Layer!Front(p)], p)]
<1>1. \E f : Good(f) BY Total
<1>2. Layer!ParentDirs(t) = CHOOSE f : Made(f) BY DEF Layer!ParentDirs, MakeIn
<1>3. \A f, p : OneMore("make", t, f[Layer!Front(p)], p) = MakeIn(t, f[Layer!Front(p)], p)
  BY DEF OneMore, MakeIn
<1>4. \A f : Good(f) <=> Made(f) BY <1>3
<1> HIDE DEF Good, Made
<1>5. Made(Layer!ParentDirs(t)) BY <1>1, <1>2, <1>4
<1>6. Layer!Root \in Paths BY LayerInputs DEF Layer!PathsAssumption
<1> QED BY <1>5, <1>6 DEF Made, MakeIn


Clean(t, p) == \A i \in 0 .. Len(p) - 1 : Prefix(p, i) \in DOMAIN t /\ t[Prefix(p, i)] \in Dirs
Straight(t, p) ==
  \A i \in 0 .. Len(p) - 1 : Prefix(p, i) \in DOMAIN t => t[Prefix(p, i)] \in Dirs \/ ~ Layer!IsDir(t, Prefix(p, i))

LEMMA Located ==
  ASSUME NEW t, DOMAIN t \subseteq Paths, NEW p \in Paths, Straight(t, p)
  PROVE  Layer!Locate(t)[p] = IF Clean(t, p) THEN p ELSE Layer!Nowhere
<1> DEFINE N == Len(p)
           Fine(j) == Layer!Locate(t)[Prefix(p, j)] = IF Clean(t, Prefix(p, j)) THEN Prefix(p, j) ELSE Layer!Nowhere
           T == {j \in 0 .. N : ~ Fine(j)}
<1>1. N \in Nat /\ Prefix(p, 0) = Layer!Root /\ Prefix(p, N) = p
  <2>1. N \in Nat /\ 0 \in 0 .. N BY PathFacts
  <2> QED BY <2>1, PrefixFacts
<1>2. SUFFICES ASSUME T # {} PROVE FALSE
  <2>1. N \in 0 .. N BY <1>1
  <2> QED BY <1>1, <2>1
<1>3. T \in SUBSET Nat BY <1>1
<1>4. PICK j \in T : \A k \in T : j <= k BY <1>2, <1>3, LeastNat
<1>5. j \in 0 .. N /\ ~ Fine(j) OBVIOUS
<1>6. ASSUME NEW k \in 0 .. N
      PROVE  /\ Clean(t, Prefix(p, k)) <=>
                  \A i \in 0 .. k - 1 : Prefix(p, i) \in DOMAIN t /\ t[Prefix(p, i)] \in Dirs
  <2>1. Len(Prefix(p, k)) = k /\ \A i \in 0 .. k : Prefix(Prefix(p, k), i) = Prefix(p, i)
    BY PrefixFacts
  <2>2. \A i \in 0 .. k - 1 : i \in 0 .. k BY <1>1
  <2> QED BY <2>1, <2>2 DEF Clean
<1>7. j # 0
  <2> SUFFICES ASSUME j = 0 PROVE FALSE OBVIOUS
  <2>1. Clean(t, Prefix(p, 0)) BY <1>1, <1>6
  <2>2. Layer!Locate(t)[Layer!Root] = Layer!Root BY LocateFacts
  <2> QED BY <1>1, <1>5, <2>1, <2>2
<1> DEFINE q == Prefix(p, j)
           f == Prefix(p, j - 1)
<1>8. j - 1 \in 0 .. N - 1 /\ j - 1 \in 0 .. N /\ ~ (j <= j - 1) BY <1>1, <1>5, <1>7
<1>9. Fine(j - 1) BY <1>4, <1>8
<1>10. q \in Paths \ {Layer!Root} /\ Layer!Front(q) = f /\ f \in Paths
  BY <1>5, <1>7, <1>8, PrefixFacts
<1>11. Layer!Locate(t)[q] = LocateIn(t, Layer!Locate(t)[f], q) /\ Append(f, Layer!Last(q)) = q
  BY <1>10, LocateFacts, FrontFacts
<1>12. Clean(t, q) <=> Clean(t, f) /\ f \in DOMAIN t /\ t[f] \in Dirs
  <2>1. \A i \in 0 .. j - 1 : i \in 0 .. (j - 1) - 1 \/ i = j - 1 BY <1>1, <1>5
  <2>2. \A i \in 0 .. (j - 1) - 1 : i \in 0 .. j - 1 BY <1>1, <1>5
  <2>3. j - 1 \in 0 .. j - 1 BY <1>8
  <2> QED BY <1>5, <1>6, <1>8, <2>1, <2>2, <2>3
<1>13. Layer!Nowhere \notin DOMAIN t BY NowhereIsNoPath
<1>14. f \in DOMAIN t => t[f] \in Dirs \/ ~ Layer!IsDir(t, f) BY <1>8 DEF Straight
<1>15. ~ (Layer!Locate(t)[q] = IF Clean(t, q) THEN q ELSE Layer!Nowhere)
       /\ Layer!Locate(t)[f] = IF Clean(t, f) THEN f ELSE Layer!Nowhere
  BY <1>5, <1>9
<1> HIDE DEF q, f, Fine, T
<1>16. CASE ~ Clean(t, f) BY <1>11, <1>12, <1>13, <1>15, <1>16 DEF LocateIn, Layer!Follow
<1>17. CASE Clean(t, f)
  <2>1. Layer!Locate(t)[f] = f BY <1>15, <1>17
  <2>2. CASE f \notin DOMAIN t BY <1>11, <1>12, <1>15, <2>1, <2>2 DEF LocateIn, Layer!Follow
  <2>3. CASE f \in DOMAIN t /\ t[f] \in Dirs
    <3>1. Layer!Follow(t, f) = f BY <2>3, LayerInputs DEF Layer!Follow, Layer!PathsAssumption
    <3> QED BY <1>11, <1>12, <1>15, <1>17, <2>1, <2>3, <3>1 DEF LocateIn
  <2>4. CASE f \in DOMAIN t /\ t[f] \notin Dirs
    <3>1. ~ Layer!IsDir(t, f) BY <1>14, <2>4
    <3>2. ~ (Layer!Follow(t, f) \in DOMAIN t /\ t[Layer!Follow(t, f)] \in Dirs)
      BY <2>1, <3>1 DEF Layer!IsDir, Layer!Is
    <3> QED BY <1>11, <1>12, <1>15, <2>1, <2>4, <3>2 DEF LocateIn
  <2> QED BY <2>2, <2>3, <2>4
<1> QED BY <1>16, <1>17

LEMMA ClosedIsClean ==
  ASSUME NEW t, Closed(t), NEW p \in DOMAIN t
  PROVE  Clean(t, p) /\ Straight(t, p)
<1> DEFINE N == Len(p)
           T == {k \in 0 .. N : Prefix(p, N - k) \notin DOMAIN t}
<1>1. N \in Nat /\ p \in Paths /\ Prefix(p, N) = p
  <2>1. p \in Paths BY DEF Closed
  <2>2. N \in Nat /\ 0 \in 0 .. N BY <2>1, PathFacts
  <2> QED BY <2>1, <2>2, PrefixFacts
<1>2. T = {}
  <2> SUFFICES ASSUME T # {} PROVE FALSE OBVIOUS
  <2>1. T \in SUBSET Nat BY <1>1
  <2>2. PICK k \in T : \A j \in T : k <= j BY <2>1, LeastNat
  <2>3. k \in 0 .. N /\ Prefix(p, N - k) \notin DOMAIN t OBVIOUS
  <2>4. k # 0 BY <1>1, <2>3
  <2>5. k - 1 \in 0 .. N /\ ~ (k <= k - 1) /\ N - (k - 1) \in 0 .. N /\ N - (k - 1) # 0 /\ (N - (k - 1)) - 1 = N - k
    BY <1>1, <2>3, <2>4
  <2>6. Prefix(p, N - (k - 1)) \in DOMAIN t BY <2>2, <2>5
  <2>7. Prefix(p, N - (k - 1)) # Layer!Root /\ Layer!Front(Prefix(p, N - (k - 1))) = Prefix(p, N - k)
    BY <1>1, <2>5, PrefixFacts
  <2> HIDE DEF T
  <2> QED BY <2>3, <2>6, <2>7 DEF Closed
<1>3. \A i \in 0 .. N : Prefix(p, i) \in DOMAIN t
  <2>1. \A i \in 0 .. N : N - i \in 0 .. N /\ N - (N - i) = i BY <1>1
  <2> QED BY <1>2, <2>1
<1>4. ASSUME NEW i \in 0 .. N - 1 PROVE Prefix(p, i) \in DOMAIN t /\ t[Prefix(p, i)] \in Dirs
  <2>1. i + 1 \in 0 .. N /\ i + 1 # 0 /\ (i + 1) - 1 = i BY <1>1
  <2>2. Prefix(p, i + 1) \in DOMAIN t /\ Prefix(p, i + 1) # Layer!Root /\ Layer!Front(Prefix(p, i + 1)) = Prefix(p, i)
    BY <1>1, <1>3, <2>1, PrefixFacts
  <2> QED BY <2>2 DEF Closed
<1> QED BY <1>4 DEF Clean, Straight

LEMMA Here ==
  ASSUME NEW t, Closed(t), NEW p \in Paths, Straight(t, p)
  PROVE  /\ Layer!LExists(t, p) <=> p \in DOMAIN t
         /\ p \in DOMAIN t => Layer!Locate(t)[p] = p
         /\ Layer!IsDir(t, p) => p \in DOMAIN t
         /\ Layer!IsFile(t, p) => p \in DOMAIN t
         /\ p \in DOMAIN t /\ t[p] \in Dirs => Layer!IsDir(t, p)
<1>1. Layer!Locate(t)[p] = IF Clean(t, p) THEN p ELSE Layer!Nowhere BY Located DEF Closed
<1>2. p \in DOMAIN t => Clean(t, p) BY ClosedIsClean
<1>3. Layer!Nowhere \notin DOMAIN t BY NowhereIsNoPath DEF Closed
<1>4. ASSUME p \notin DOMAIN t
      PROVE ~ Layer!IsDir(t, p) /\ ~ Layer!IsFile(t, p) /\ ~ Layer!LExists(t, p)
  <2>1. Layer!Locate(t)[p] \notin DOMAIN t BY <1>1, <1>3, <1>4
  <2>2. Layer!Follow(t, Layer!Locate(t)[p]) = Layer!Locate(t)[p] BY <2>1 DEF Layer!Follow
  <2> QED BY <2>1, <2>2 DEF Layer!IsDir, Layer!IsFile, Layer!Is, Layer!LExists
<1>5. p \in DOMAIN t => Layer!Locate(t)[p] = p BY <1>1, <1>2
<1>6. ASSUME p \in DOMAIN t, t[p] \in Dirs PROVE Layer!IsDir(t, p)
  <2>1. Layer!Follow(t, p) = p BY <1>6, LayerInputs DEF Layer!Follow, Layer!PathsAssumption
  <2> QED BY <1>5, <1>6, <2>1 DEF Layer!IsDir, Layer!Is
<1> QED BY <1>4, <1>5, <1>6 DEF Layer!LExists


LEMMA TreeIsClosed ==
  ASSUME NEW t \in Layers
  PROVE  Closed(t) /\ DOMAIN t \subseteq Paths /\ t \in [DOMAIN t -> Dirs \cup Files \cup Links]
  BY LayerInputs DEF Layer!TreesAssumption, Closed

LEMMA CopiedFacts ==
  /\ \A e \in Dirs \cup Files \cup Links : Copied[e] \in Dirs \cup Files \cup Links /\ Copied[Copied[e]] = Copied[e]
  /\ \A e \in Dirs \cup Files \cup Links : Copied[e] \in Dirs <=> e \in Dirs
  /\ \A e \in Dirs \cup Files \cup Links : Copied[e] \in Files <=> e \in Files
  BY LayerInputs DEF Layer!PathsAssumption

(* A directory made like one of the upper tree is a copy of it.             *)
LEMMA DirLikeFacts ==
  ASSUME upper \in Layers, NEW d \in Paths
  PROVE  /\ Layer!DirLike(d) \in Dirs
         /\ d \in DOMAIN upper /\ upper[d] \in Dirs =>
              Layer!DirLike(d) = Copied[upper[d]] /\ Layer!Is(upper, d, Dirs \cup Files)
<1>1. Closed(upper) /\ Dirs # {} BY TreeIsClosed DEF Closed
<1>2. Layer!DirLike(d) \in Dirs
  <2>1. CASE Layer!IsDir(upper, d)
    <3>1. upper[Layer!Follow(upper, Layer!Locate(upper)[d])] \in Dirs BY <2>1 DEF Layer!IsDir, Layer!Is
    <3> QED BY <2>1, <3>1, CopiedFacts DEF Layer!DirLike
  <2>2. CASE ~ Layer!IsDir(upper, d) BY <1>1, <2>2 DEF Layer!DirLike
  <2> QED BY <2>1, <2>2
<1>3. ASSUME d \in DOMAIN upper, upper[d] \in Dirs
      PROVE  Layer!DirLike(d) = Copied[upper[d]] /\ Layer!Is(upper, d, Dirs \cup Files)
  <2>1. Straight(upper, d) BY <1>1, <1>3, ClosedIsClean
  <2>2. Layer!Locate(upper)[d] = d /\ Layer!IsDir(upper, d) BY <1>1, <1>3, <2>1, Here
  <2>3. Layer!Follow(upper, d) = d BY <1>3, LayerInputs DEF Layer!Follow, Layer!PathsAssumption
  <2> QED BY <1>3, <2>2, <2>3 DEF Layer!DirLike, Layer!Is
<1> QED BY <1>2, <1>3

LEMMA LowerStraight ==
  ASSUME lower \in Layers, upper \in Layers, Layer!Compatible, NEW p \in DOMAIN upper
  PROVE  Straight(lower, p) /\ p \in Paths
<1>1. Closed(upper) /\ Closed(lower) /\ p \in Paths BY TreeIsClosed
<1>2. ASSUME NEW i \in 0 .. Len(p) - 1, Prefix(p, i) \in DOMAIN lower, lower[Prefix(p, i)] \notin Dirs
      PROVE  ~ Layer!IsDir(lower, Prefix(p, i))
  <2> DEFINE q == Prefix(p, i)
  <2>1. q \in DOMAIN upper /\ upper[q] \in Dirs BY <1>1, ClosedIsClean DEF Clean
  <2>2. ~ (Layer!IsLink(lower, q) /\ Layer!IsDir(lower, q)) BY <1>2, <2>1 DEF Layer!Compatible
  <2>3. q \in Paths /\ Straight(lower, q) /\ Layer!Locate(lower)[q] = q /\ Layer!LExists(lower, q)
    <3>1. q \in Paths BY <1>1, <2>1, TreeIsClosed
    <3>2. Straight(lower, q) BY <1>1, <1>2, ClosedIsClean
    <3> QED BY <1>1, <1>2, <3>1, <3>2, Here
  <2>4. CASE lower[q] \in Links BY <2>2, <2>3, <2>4 DEF Layer!IsLink
  <2>5. CASE lower[q] \notin Links
    <3>1. Layer!Follow(lower, q) = q BY <2>5 DEF Layer!Follow
    <3> QED BY <1>2, <2>3, <3>1 DEF Layer!IsDir, Layer!Is
  <2> QED BY <2>4, <2>5
<1> QED BY <1>1, <1>2 DEF Straight

LEMMA UpperStraight ==
  ASSUME lower \in Layers, upper \in Layers, Layer!Compatible, NEW p \in DOMAIN lower \ {Layer!Root}
  PROVE  /\ Straight(upper, p) /\ Straight(upper, Layer!Front(p)) /\ p \in Paths /\ Layer!Front(p) \in Paths
         /\ Layer!Front(p) \in DOMAIN upper => upper[Layer!Front(p)] \in Dirs
<1>1. Closed(upper) /\ Closed(lower) /\ p \in Paths /\ Layer!Front(p) \in Paths
  BY TreeIsClosed DEF Closed
<1>2. ASSUME NEW q \in DOMAIN lower \ {Layer!Root}, Layer!Front(q) \in DOMAIN upper
      PROVE upper[Layer!Front(q)] \in Dirs
  <2>1. Layer!Front(q) \in DOMAIN lower /\ lower[Layer!Front(q)] \in Dirs BY <1>1 DEF Closed
  <2> QED BY <1>2, <2>1 DEF Layer!Compatible
<1>3. ASSUME NEW q \in DOMAIN lower PROVE Straight(upper, q)
  <2>1. q \in Paths BY <1>1 DEF Closed
  <2>2. ASSUME NEW i \in 0 .. Len(q) - 1, Prefix(q, i) \in DOMAIN upper
        PROVE upper[Prefix(q, i)] \in Dirs
    <3>1. Len(q) \in Nat BY <2>1, PathFacts
    <3>2. i + 1 \in 0 .. Len(q) /\ i + 1 # 0 /\ (i + 1) - 1 = i BY <3>1
    <3>3. Prefix(q, i + 1) # Layer!Root /\ Layer!Front(Prefix(q, i + 1)) = Prefix(q, i)
      BY <2>1, <3>2, PrefixFacts
    <3>4. Prefix(q, i + 1) \in DOMAIN lower
      <4>1. CASE i + 1 = Len(q)
        <5>1. Prefix(q, Len(q)) = q BY <2>1, <3>2, PrefixFacts
        <5> QED BY <4>1, <5>1
      <4>2. CASE i + 1 # Len(q)
        <5>1. i + 1 \in 0 .. Len(q) - 1 BY <3>1, <3>2, <4>2
        <5> QED BY <1>1, <5>1, ClosedIsClean DEF Clean
      <4> QED BY <4>1, <4>2
    <3> QED BY <1>2, <2>2, <3>3, <3>4
  <2> QED BY <2>2 DEF Straight
<1>4. Layer!Front(p) \in DOMAIN lower BY <1>1 DEF Closed
<1> QED BY <1>1, <1>2, <1>3, <1>4

(* The comparison, and what is gone, by path alone.                         *)
LEMMA DiffersFacts ==
  ASSUME lower \in Layers, upper \in Layers, Layer!Compatible, NEW p \in DOMAIN upper
  PROVE  Layer!Differs(p) <=> ~ Same(p)
<1>1. /\ Closed(lower) /\ Straight(lower, p) /\ p \in Paths /\ upper[p] \in Dirs \cup Files \cup Links
      /\ \A q \in DOMAIN lower : lower[q] \in Dirs \cup Files \cup Links
  BY TreeIsClosed, LowerStraight
<1>2. /\ Layer!LExists(lower, p) <=> p \in DOMAIN lower
      /\ p \in DOMAIN lower => Layer!Locate(lower)[p] = p
      /\ Layer!IsDir(lower, p) => p \in DOMAIN lower
      /\ Layer!IsFile(lower, p) => p \in DOMAIN lower
      /\ p \in DOMAIN lower /\ lower[p] \in Dirs => Layer!IsDir(lower, p)
  BY <1>1, Here
<1>3. Dirs \cap (Files \cup Links) = {} /\ Files \cap Links = {} BY LayerInputs DEF Layer!PathsAssumption
<1>4. CASE p \notin DOMAIN lower BY <1>2, <1>4 DEF Layer!Differs, Same, Layer!IsLink
<1>5. CASE p \in DOMAIN lower
  <2>1. Layer!IsLink(lower, p) <=> lower[p] \in Links BY <1>2, <1>5 DEF Layer!IsLink
  <2>2. lower[p] \notin Links => (Layer!IsDir(lower, p) <=> lower[p] \in Dirs) /\ (Layer!IsFile(lower, p) <=> lower[p] \in Files)
    BY <1>2, <1>5 DEF Layer!IsDir, Layer!IsFile, Layer!Is, Layer!Follow
  <2>3. CASE upper[p] \in Dirs BY <1>3, <1>5, <2>1, <2>2, <2>3 DEF Layer!Differs, Same
  <2>4. CASE upper[p] \in Links BY <1>2, <1>3, <1>5, <2>1, <2>4 DEF Layer!Differs, Same
  <2>5. CASE upper[p] \in Files BY <1>1, <1>2, <1>3, <1>5, <2>1, <2>2, <2>5 DEF Layer!Differs, Same
  <2> QED BY <1>1, <2>3, <2>4, <2>5
<1> QED BY <1>4, <1>5

LEMMA GoneFacts ==
  ASSUME lower \in Layers, upper \in Layers, Layer!Compatible, NEW p \in DOMAIN lower \ {Layer!Root}
  PROVE  Layer!Gone(p) <=> Missing(p)
<1>1. Closed(upper) BY TreeIsClosed
<1>2. (Layer!LExists(upper, p) <=> p \in DOMAIN upper) /\ (Layer!LExists(upper, Layer!Front(p)) <=> Layer!Front(p) \in DOMAIN upper)
  BY <1>1, UpperStraight, Here
<1> QED BY <1>2 DEF Layer!Gone, Missing


(* While the layer has at most what the upper tree has, copy_parent_dirs    *)
(* makes the directories on the way to d, and never finds anything else     *)
(* there.                                                                   *)
LikeUpper == Closed(output) /\ \A q \in DOMAIN output \cap DOMAIN upper : CopyOf(output[q], q)

With(o, d) ==
  /\ Closed(o) /\ DOMAIN o = DOMAIN output \cup {Prefix(d, i) : i \in 0 .. Len(d)}
  /\ \A q \in DOMAIN output : o[q] = output[q]
  /\ \A i \in 0 .. Len(d) : o[Prefix(d, i)] \in Dirs /\ CopyOf(o[Prefix(d, i)], Prefix(d, i))

LEMMA ParentsMade ==
  ASSUME upper \in Layers, LikeUpper, NEW d \in DOMAIN upper, upper[d] \in Dirs
  PROVE  With(Layer!ParentDirs(output)[d], d) /\ ~ Layer!Refused(d) /\ d \in Paths
<1> DEFINE N == Len(d)
           D(i) == Prefix(d, i)
           O(i) == Layer!ParentDirs(output)[D(i)]
<1>1. Closed(upper) /\ Closed(output) /\ d \in Paths BY TreeIsClosed DEF LikeUpper
<1>2. N \in Nat /\ D(0) = Layer!Root /\ D(N) = d
  <2>1. N \in Nat /\ 0 \in 0 .. N BY <1>1, PathFacts
  <2> QED BY <1>1, <2>1, PrefixFacts
<1>3. ASSUME NEW i \in 0 .. N
      PROVE  /\ D(i) \in Paths /\ Len(D(i)) = i /\ D(i) \in DOMAIN upper /\ upper[D(i)] \in Dirs
             /\ \A j \in 0 .. i : Prefix(D(i), j) = D(j)
             /\ i # 0 => D(i) # Layer!Root /\ Layer!Front(D(i)) = D(i - 1)
  <2>1. /\ D(i) \in Paths /\ Len(D(i)) = i /\ \A j \in 0 .. i : Prefix(D(i), j) = D(j)
        /\ i # 0 => D(i) # Layer!Root /\ Layer!Front(D(i)) = D(i - 1)
    BY <1>1, PrefixFacts
  <2>2. CASE i = N BY <1>2, <2>1, <2>2
  <2>3. CASE i # N
    <3>1. i \in 0 .. N - 1 BY <1>2, <2>3
    <3> QED BY <1>1, <2>1, <3>1, ClosedIsClean DEF Clean
  <2> QED BY <2>2, <2>3
<1>4. \A i \in 0 .. N : D(i) \in DOMAIN output => output[D(i)] \in Dirs
  <2> SUFFICES ASSUME NEW i \in 0 .. N, D(i) \in DOMAIN output PROVE output[D(i)] \in Dirs OBVIOUS
  <2>1. D(i) \in DOMAIN upper /\ upper[D(i)] \in Dirs BY <1>3
  <2> HIDE DEF D
  <2> QED BY <1>1, <2>1, CopiedFacts DEF LikeUpper, CopyOf, Closed
<1>l. \A i \in 0 .. N : D(i) \in DOMAIN output => CopyOf(output[D(i)], D(i)) BY <1>3 DEF LikeUpper
<1>5. ASSUME NEW i \in 0 .. N
      PROVE  /\ Layer!LExists(output, D(i)) <=> D(i) \in DOMAIN output
             /\ Layer!IsDir(output, D(i)) <=> D(i) \in DOMAIN output
  <2>1. Straight(output, D(i))
    <3>1. \A j \in 0 .. i - 1 : j \in 0 .. i /\ j \in 0 .. N BY <1>2
    <3> QED BY <1>3, <1>4, <3>1 DEF Straight
  <2> QED BY <1>1, <1>3, <1>4, <2>1, Here
<1>6. ~ Layer!Refused(d)
  <2>1. \A i \in 0 .. N : Layer!Is(upper, D(i), Dirs \cup Files) BY <1>3, DirLikeFacts
  <2> QED BY <1>5, <2>1 DEF Layer!Refused, Prefix
<1>7. Layer!IsDir(output, Layer!Root)
  <2>1. 0 \in 0 .. N /\ Layer!Root \in DOMAIN output BY <1>1, <1>2 DEF Closed
  <2> QED BY <1>2, <1>5, <2>1
<1> DEFINE Grown(i) == With(O(i), D(i))
           T == {i \in 0 .. N : ~ Grown(i)}
<1>8. With(output, Layer!Root)
  <2>1. Len(Layer!Root) = 0 /\ \A i \in 0 .. 0 : Prefix(Layer!Root, i) = Layer!Root
    <3>1. Layer!Root \in Paths BY LayerInputs DEF Layer!PathsAssumption
    <3>2. Len(Layer!Root) = 0 /\ 0 \in 0 .. Len(Layer!Root)
      <4>1. Layer!Root = Layer!Root <=> Len(Layer!Root) = 0 BY <3>1, PathFacts
      <4> QED BY <4>1
    <3>3. Prefix(Layer!Root, 0) = Layer!Root BY <3>1, <3>2, PrefixFacts
    <3> QED BY <3>2, <3>3
  <2>2. \A i \in 0 .. Len(Layer!Root) : Prefix(Layer!Root, i) = Layer!Root BY <2>1
  <2>3. {Prefix(Layer!Root, i) : i \in 0 .. Len(Layer!Root)} \subseteq {Layer!Root} BY <2>2
  <2> QED BY <1>1, <2>2, <2>3 DEF With, Closed, CopyOf
<1>9. ASSUME NEW i \in 1 .. N, Grown(i - 1) PROVE Grown(i)
  <2>1. i \in 0 .. N /\ i - 1 \in 0 .. N /\ i - 1 \in 0 .. i /\ i # 0 BY <1>2
  <2>2. /\ D(i) \in Paths \ {Layer!Root} /\ Layer!Front(D(i)) = D(i - 1) /\ Len(D(i)) = i /\ Len(D(i - 1)) = i - 1
        /\ \A j \in 0 .. i : Prefix(D(i), j) = D(j)
        /\ \A j \in 0 .. i - 1 : Prefix(D(i - 1), j) = D(j)
    BY <1>3, <2>1
  <2>3. O(i) = MakeIn(output, O(i - 1), D(i)) BY <1>7, <2>2, MakeFacts
  <2>4. CASE D(i) \in DOMAIN output
    <3>1. O(i) = output BY <1>5, <2>1, <2>3, <2>4 DEF MakeIn
    <3>2. \A j \in 0 .. i : D(j) \in DOMAIN output
      <4>1. \A j \in 0 .. i - 1 : D(j) \in DOMAIN output
        BY <1>1, <2>2, <2>4, ClosedIsClean DEF Clean
      <4>2. \A j \in 0 .. i : j \in 0 .. i - 1 \/ j = i BY <2>1
      <4> QED BY <2>4, <4>1, <4>2
    <3>3. \A j \in 0 .. i : output[D(j)] \in Dirs /\ CopyOf(output[D(j)], D(j))
      <4>1. \A j \in 0 .. i : j \in 0 .. N BY <1>2
      <4> QED BY <1>4, <1>l, <3>2, <4>1
    <3>4. {Prefix(D(i), j) : j \in 0 .. Len(D(i))} \subseteq DOMAIN output BY <2>2, <3>2
    <3> QED BY <1>1, <2>2, <3>1, <3>3, <3>4 DEF With
  <2>5. CASE D(i) \notin DOMAIN output
    <3> DEFINE o == O(i - 1)
               q == D(i)
    <3>1. /\ Closed(o) /\ DOMAIN o = DOMAIN output \cup {D(j) : j \in 0 .. i - 1}
          /\ \A r \in DOMAIN output : o[r] = output[r]
          /\ \A j \in 0 .. i - 1 : o[D(j)] \in Dirs /\ CopyOf(o[D(j)], D(j)) /\ D(j) \in DOMAIN o
      BY <1>9, <2>2 DEF With
    <3>2. Clean(o, q) /\ Straight(o, q)
      <4>1. \A j \in 0 .. i - 1 : j \in 0 .. i BY <1>2
      <4> QED BY <2>2, <3>1, <4>1 DEF Clean, Straight
    <3>3. Layer!Locate(o)[q] = q BY <2>2, <3>1, <3>2, Located DEF Closed
    <3>4. O(i) = Layer!Put(o, q, Layer!DirLike(q)) BY <1>5, <2>1, <2>3, <2>5, <3>3 DEF MakeIn
    <3>5. i - 1 \in 0 .. i - 1 BY <1>2
    <3>6. Layer!Front(q) \in DOMAIN o /\ o[Layer!Front(q)] \in Dirs BY <2>2, <3>1, <3>5
    <3>7. \A j \in 0 .. i : j \in 0 .. i - 1 \/ j = i BY <1>2
    <3>8. \A j \in 0 .. i - 1 : j \in 0 .. i BY <1>2
    <3>9. i \in 0 .. i BY <1>2
    <3>a. Layer!DirLike(q) \in Dirs /\ CopyOf(Layer!DirLike(q), q)
      <4>1. q \in Paths /\ q \in DOMAIN upper /\ upper[q] \in Dirs BY <1>3, <2>1
      <4> HIDE DEF q
      <4> QED BY <4>1, DirLikeFacts DEF CopyOf
    <3> HIDE DEF o, q
    <3>10. DOMAIN O(i) = DOMAIN o \cup {q} /\ O(i)[q] = Layer!DirLike(q) /\ \A r \in DOMAIN o \ {q} : O(i)[r] = o[r]
      BY <3>4 DEF Layer!Put
    <3>11. Closed(O(i))
      <4>1. q \in Paths BY <2>2 DEF q
      <4> HIDE DEF O
      <4> QED BY <3>1, <3>6, <3>10, <3>a, <4>1 DEF Closed
    <3>12. DOMAIN O(i) = DOMAIN output \cup {D(j) : j \in 0 .. i}
      <4>1. {D(j) : j \in 0 .. i} = {D(j) : j \in 0 .. i - 1} \cup {q} BY <3>7, <3>8, <3>9 DEF q
      <4> HIDE DEF O, D
      <4> QED BY <3>1, <3>10, <4>1
    <3>13. \A r \in DOMAIN output : O(i)[r] = output[r] BY <2>5, <3>1, <3>10 DEF q
    <3>14. \A j \in 0 .. i : O(i)[D(j)] \in Dirs /\ CopyOf(O(i)[D(j)], D(j))
      <4>1. O(i)[D(i)] \in Dirs /\ CopyOf(O(i)[D(i)], D(i)) BY <3>10, <3>a DEF q
      <4>2. \A j \in 0 .. i - 1 : O(i)[D(j)] \in Dirs /\ CopyOf(O(i)[D(j)], D(j))
        <5>1. \A j \in 0 .. i - 1 : D(j) = q \/ O(i)[D(j)] = o[D(j)]
          <6> HIDE DEF O, D
          <6> QED BY <3>1, <3>10
        <5>2. \A j \in 0 .. i - 1 : D(j) = q => O(i)[D(j)] \in Dirs /\ CopyOf(O(i)[D(j)], D(j))
          <6> HIDE DEF O, D
          <6> QED BY <3>10, <3>a
        <5> HIDE DEF O, D
        <5> QED BY <3>1, <5>1, <5>2
      <4> QED BY <3>7, <4>1, <4>2
    <3>15. {Prefix(q, j) : j \in 0 .. Len(q)} = {D(j) : j \in 0 .. i} BY <2>2 DEF q
    <3> QED BY <2>2, <3>11, <3>12, <3>13, <3>14, <3>15 DEF With, q
  <2> QED BY <2>4, <2>5
<1>10. T = {}
  <2> SUFFICES ASSUME T # {} PROVE FALSE OBVIOUS
  <2>1. T \in SUBSET Nat BY <1>2
  <2>2. PICK i \in T : \A j \in T : i <= j BY <2>1, LeastNat
  <2>3. i \in 0 .. N /\ ~ Grown(i) OBVIOUS
  <2>4. i # 0
    <3>1. O(0) = output BY <1>2, <1>7, MakeFacts
    <3> QED BY <1>2, <1>8, <2>3, <3>1
  <2>5. i \in 1 .. N /\ i - 1 \in 0 .. N /\ ~ (i <= i - 1) BY <1>2, <2>3, <2>4
  <2>6. Grown(i - 1) BY <2>2, <2>5
  <2> HIDE DEF Grown, T
  <2> QED BY <1>9, <2>3, <2>5, <2>6
<1>11. N \in 0 .. N BY <1>2
<1>12. Grown(N) BY <1>10, <1>11
<1> QED BY <1>1, <1>2, <1>6, <1>12


(* An entry that is not there yet is written at its own path.               *)
LEMMA Written ==
  ASSUME upper \in Layers, LikeUpper, NEW p \in Paths \ {Layer!Root}, NEW entry,
         Layer!Front(p) \in DOMAIN upper, upper[Layer!Front(p)] \in Dirs, p \notin DOMAIN output, Layer!Write(p, entry)
  PROVE  /\ walk' = walk /\ Closed(output') /\ output'[p] = entry
         /\ DOMAIN output' = DOMAIN output \cup {Prefix(Layer!Front(p), i) : i \in 0 .. Len(Layer!Front(p))} \cup {p}
         /\ \A q \in DOMAIN output : output'[q] = output[q]
         /\ \A i \in 0 .. Len(Layer!Front(p)) :
              /\ output'[Prefix(Layer!Front(p), i)] \in Dirs
              /\ CopyOf(output'[Prefix(Layer!Front(p), i)], Prefix(Layer!Front(p), i))
<1> DEFINE d == Layer!Front(p)
           t == Layer!ParentDirs(output)[d]
<1>1. With(t, d) /\ ~ Layer!Refused(d) /\ d \in Paths BY ParentsMade
<1>2. Len(p) \in Nat \ {0} /\ Len(d) = Len(p) - 1 /\ d = Prefix(p, Len(d)) /\ p \in Paths
  BY FrontFacts
<1>3. Len(d) \in Nat /\ Len(d) \in 0 .. Len(p) /\ Len(d) \in 0 .. Len(d) BY <1>2
<1>4. \A i \in 0 .. Len(d) : Prefix(d, i) = Prefix(p, i) /\ Prefix(d, i) # p
  <2>1. \A i \in 0 .. Len(d) : Prefix(Prefix(p, Len(d)), i) = Prefix(p, i)
    BY <1>2, <1>3, PrefixFacts
  <2>2. \A i \in 0 .. Len(d) : Len(Prefix(d, i)) = i BY <1>1, PrefixFacts
  <2>3. \A i \in 0 .. Len(d) : i # Len(p) BY <1>2
  <2> QED BY <1>2, <2>1, <2>2, <2>3
<1>5. Closed(t) /\ DOMAIN t = DOMAIN output \cup {Prefix(d, i) : i \in 0 .. Len(d)} BY <1>1 DEF With
<1>6. p \notin DOMAIN t BY <1>4, <1>5
<1>7. Prefix(d, Len(d)) = d BY <1>1, <1>3, PrefixFacts
<1>8. d \in DOMAIN t /\ t[d] \in Dirs BY <1>1, <1>3, <1>5, <1>7 DEF With
<1>9. Clean(t, p) /\ Straight(t, p)
  <2>1. \A i \in 0 .. Len(p) - 1 : i \in 0 .. Len(d) BY <1>2
  <2>2. \A i \in 0 .. Len(d) : Prefix(p, i) \in DOMAIN t /\ t[Prefix(p, i)] \in Dirs
    BY <1>1, <1>4, <1>5 DEF With
  <2> QED BY <2>1, <2>2 DEF Clean, Straight
<1>10. Layer!Locate(t)[p] = p BY <1>2, <1>5, <1>9, Located DEF Closed
<1>11. ~ Layer!LExists(t, p) BY <1>6, <1>10 DEF Layer!LExists
<1>12. output' = Layer!Put(t, p, entry) /\ walk' = walk BY <1>1, <1>10, <1>11 DEF Layer!Write
<1> HIDE DEF t
<1>13. DOMAIN output' = DOMAIN t \cup {p} /\ output'[p] = entry /\ \A q \in DOMAIN t : output'[q] = t[q]
  BY <1>6, <1>12 DEF Layer!Put
<1>14. Closed(output')
  <2>1. ASSUME NEW q \in DOMAIN output' \ {Layer!Root}
        PROVE Layer!Front(q) \in DOMAIN t /\ t[Layer!Front(q)] \in Dirs
    BY <1>5, <1>8, <1>13, <2>1 DEF Closed
  <2>2. Layer!Root \in DOMAIN t /\ t[Layer!Root] \in Dirs /\ DOMAIN t \subseteq Paths
    BY <1>5 DEF Closed
  <2> QED BY <1>2, <1>13, <2>1, <2>2 DEF Closed
<1>15. \A q \in DOMAIN output : output'[q] = output[q] BY <1>1, <1>5, <1>13 DEF With
<1>16. \A i \in 0 .. Len(d) : output'[Prefix(d, i)] \in Dirs /\ CopyOf(output'[Prefix(d, i)], Prefix(d, i)) BY <1>1, <1>5, <1>13 DEF With
<1> QED BY <1>5, <1>12, <1>13, <1>14, <1>15, <1>16

(* Whatever is written, with the directories above it.                      *)
LEMMA Extended ==
  ASSUME upper \in Layers, NEW d \in DOMAIN upper, upper[d] \in Dirs
  PROVE  \A i \in 0 .. Len(d) : Prefix(d, i) \in DOMAIN upper /\ upper[Prefix(d, i)] \in Dirs
<1>1. Closed(upper) /\ d \in Paths BY TreeIsClosed
<1>2. Len(d) \in Nat /\ Prefix(d, Len(d)) = d
  <2>1. Len(d) \in Nat /\ 0 \in 0 .. Len(d) BY <1>1, PathFacts
  <2> QED BY <1>1, <2>1, PrefixFacts
<1>3. \A i \in 0 .. Len(d) : i = Len(d) \/ i \in 0 .. Len(d) - 1 BY <1>2
<1> QED BY <1>1, <1>2, <1>3, ClosedIsClean DEF Clean

(* What the first walk makes of an entry.                                   *)
LEMMA CopyMade ==
  ASSUME upper \in Layers, FirstWalk, NEW p \in Paths \ {Layer!Root}, Layer!CopyUpper(p)
  PROVE  /\ walk' = "upper" /\ todo' = todo \ {p} /\ UNCHANGED <<lower, upper>>
         /\ Closed(output') /\ DOMAIN output \subseteq DOMAIN output'
         /\ \A q \in DOMAIN output' : q \in DOMAIN upper /\ CopyOf(output'[q], q)
         /\ \A q \in DOMAIN output' : q \in DOMAIN output \/ q = p \/ upper[q] \in Dirs
         /\ p \in DOMAIN upper \ {Layer!Root} /\ (p \in DOMAIN output' \/ ~ Layer!Differs(p))
<1>1. /\ walk = "upper" /\ p \in todo /\ todo' = todo \ {p} /\ UNCHANGED <<lower, upper>>
      /\ p \in DOMAIN upper \ {Layer!Root}
  BY DEF Layer!CopyUpper, FirstWalk
<1>2. /\ Closed(output) /\ LikeUpper
      /\ \A q \in DOMAIN output : q \in DOMAIN upper /\ CopyOf(output[q], q)
      /\ \A q \in DOMAIN output \cap todo : upper[q] \in Dirs
  BY DEF FirstWalk, LikeUpper
<1>3. Layer!Front(p) \in DOMAIN upper /\ upper[Layer!Front(p)] \in Dirs
  BY <1>1, TreeIsClosed DEF Closed
<1>4. CASE ~ Layer!Differs(p)
  <2>1. UNCHANGED <<output, walk>> BY <1>4 DEF Layer!CopyUpper
  <2>2. Closed(output') BY <1>2, <2>1
  <2> QED BY <1>1, <1>2, <1>4, <2>1, <2>2
<1>5. CASE Layer!Differs(p) /\ upper[p] \notin Dirs
  <2>1. Layer!Write(p, Copied[upper[p]]) BY <1>5 DEF Layer!CopyUpper
  <2>2. p \notin DOMAIN output BY <1>1, <1>2, <1>5
  <2> DEFINE D == {Prefix(Layer!Front(p), i) : i \in 0 .. Len(Layer!Front(p))}
  <2>3. /\ walk' = walk /\ Closed(output') /\ output'[p] = Copied[upper[p]] /\ DOMAIN output' = DOMAIN output \cup D \cup {p}
        /\ \A q \in DOMAIN output : output'[q] = output[q]
        /\ \A q \in D : output'[q] \in Dirs /\ CopyOf(output'[q], q)
    <3>1. /\ walk' = walk /\ Closed(output') /\ output'[p] = Copied[upper[p]]
          /\ DOMAIN output' = DOMAIN output \cup D \cup {p}
          /\ \A q \in DOMAIN output : output'[q] = output[q]
      BY <1>2, <1>3, <2>1, <2>2, Written
    <3>2. \A i \in 0 .. Len(Layer!Front(p)) :
            /\ output'[Prefix(Layer!Front(p), i)] \in Dirs
            /\ CopyOf(output'[Prefix(Layer!Front(p), i)], Prefix(Layer!Front(p), i))
      BY <1>2, <1>3, <2>1, <2>2, Written
    <3>3. \A q \in D : output'[q] \in Dirs /\ CopyOf(output'[q], q) BY <3>2
    <3> HIDE DEF D
    <3> QED BY <3>1, <3>3
  <2>4. \A q \in D : q \in DOMAIN upper /\ upper[q] \in Dirs BY <1>3, Extended
  <2>5. CopyOf(output'[p], p) BY <2>3 DEF CopyOf
  <2> HIDE DEF D
  <2> QED BY <1>1, <1>2, <2>3, <2>4, <2>5
<1>6. CASE Layer!Differs(p) /\ upper[p] \in Dirs
  <2> DEFINE o == Layer!ParentDirs(output)[p]
             D == {Prefix(p, i) : i \in 0 .. Len(p)}
  <2>1. With(o, p) /\ ~ Layer!Refused(p) /\ p \in Paths BY <1>1, <1>2, <1>6, ParentsMade
  <2>2. output' = o /\ walk' = walk BY <1>6, <2>1 DEF Layer!CopyUpper
  <2>3. /\ Closed(o) /\ DOMAIN o = DOMAIN output \cup D
        /\ \A q \in DOMAIN output : o[q] = output[q]
        /\ \A q \in D : o[q] \in Dirs /\ CopyOf(o[q], q)
    BY <2>1 DEF With
  <2>4. \A q \in D : q \in DOMAIN upper /\ upper[q] \in Dirs BY <1>1, <1>6, Extended
  <2>5. p \in D
    <3>1. 0 \in 0 .. Len(p) /\ Len(p) \in 0 .. Len(p)
      <4>1. Len(p) \in Nat BY PathFacts
      <4> QED BY <4>1
    <3>2. Prefix(p, Len(p)) = p BY <3>1, PrefixFacts
    <3> QED BY <3>1, <3>2
  <2> HIDE DEF D, o
  <2>6. Closed(output') BY <2>2, <2>3
  <2> QED BY <1>1, <1>2, <2>2, <2>3, <2>4, <2>5, <2>6
<1> QED BY <1>4, <1>5, <1>6

LEMMA CopyUpperStep ==
  ASSUME lower \in Layers, upper \in Layers, Layer!Compatible, LayerInv, NEW p \in Paths \ {Layer!Root}, Layer!CopyUpper(p)
  PROVE  LayerInv'
<1>1. walk = "upper" BY DEF Layer!CopyUpper
<1>2. /\ todo \subseteq DOMAIN upper \ {Layer!Root} /\ Closed(output)
      /\ \A q \in DOMAIN output : q \in DOMAIN upper /\ CopyOf(output[q], q)
      /\ \A q \in DOMAIN output \cap todo : upper[q] \in Dirs
      /\ \A q \in DOMAIN upper \ todo : q \in DOMAIN output \/ Same(q)
  BY <1>1 DEF LayerInv
<1>3. FirstWalk BY <1>2 DEF FirstWalk
<1>4. /\ walk' = "upper" /\ todo' = todo \ {p} /\ UNCHANGED <<lower, upper>>
      /\ Closed(output') /\ DOMAIN output \subseteq DOMAIN output'
      /\ \A q \in DOMAIN output' : q \in DOMAIN upper /\ CopyOf(output'[q], q)
      /\ \A q \in DOMAIN output' : q \in DOMAIN output \/ q = p \/ upper[q] \in Dirs
      /\ p \in DOMAIN upper \ {Layer!Root} /\ (p \in DOMAIN output' \/ ~ Layer!Differs(p))
  BY <1>3, CopyMade
<1>5. p \in DOMAIN output' \/ Same(p) BY <1>4, DiffersFacts
<1>6. \A q : Same(q)' = Same(q) BY <1>4 DEF Same
<1> QED BY <1>2, <1>4, <1>5, <1>6 DEF LayerInv, CopyOf

LEMMA WhiteoutStep ==
  ASSUME lower \in Layers, upper \in Layers, Layer!Compatible, LayerInv, NEW p \in Paths \ {Layer!Root}, Layer!Whiteout(p)
  PROVE  LayerInv'
<1>1. /\ walk = "lower" /\ p \in todo /\ todo' = todo \ {p} /\ UNCHANGED <<lower, upper>>
      /\ p \in DOMAIN lower \ {Layer!Root}
  BY DEF Layer!Whiteout, LayerInv
<1>2. /\ todo \subseteq DOMAIN lower \ {Layer!Root} /\ Closed(output) /\ LikeUpper
      /\ \A q \in DOMAIN output :
           IF q \in DOMAIN upper THEN CopyOf(output[q], q) ELSE output[q] = White /\ Missing(q) /\ q \notin todo
      /\ \A q \in DOMAIN upper : q \in DOMAIN output \/ Same(q)
      /\ \A q \in DOMAIN lower \ todo : Missing(q) => q \in DOMAIN output
  BY <1>1 DEF LayerInv, LikeUpper
<1>3. \A q : Same(q)' = Same(q) /\ Missing(q)' = Missing(q) BY <1>1 DEF Same, Missing
<1>4. CASE ~ Layer!Gone(p)
  <2>1. UNCHANGED <<output, walk>> BY <1>4 DEF Layer!Whiteout
  <2>2. ~ Missing(p) BY <1>1, <1>4, GoneFacts
  <2>3. Closed(output') BY <1>2, <2>1
  <2> QED BY <1>1, <1>2, <1>3, <2>1, <2>2, <2>3 DEF LayerInv, CopyOf
<1>5. CASE Layer!Gone(p)
  <2>1. Layer!Write(p, White) BY <1>5 DEF Layer!Whiteout
  <2>2. Missing(p) BY <1>1, <1>5, GoneFacts
  <2>3. p \notin DOMAIN output /\ p \notin DOMAIN upper /\ Layer!Front(p) \in DOMAIN upper
    BY <1>1, <1>2, <2>2 DEF Missing
  <2>4. upper[Layer!Front(p)] \in Dirs BY <1>1, <2>3, UpperStraight
  <2> DEFINE D == {Prefix(Layer!Front(p), i) : i \in 0 .. Len(Layer!Front(p))}
  <2>5. /\ walk' = walk /\ Closed(output') /\ output'[p] = White /\ DOMAIN output' = DOMAIN output \cup D \cup {p}
        /\ \A q \in DOMAIN output : output'[q] = output[q]
        /\ \A q \in D : output'[q] \in Dirs /\ CopyOf(output'[q], q)
    <3>1. /\ walk' = walk /\ Closed(output') /\ output'[p] = White
          /\ DOMAIN output' = DOMAIN output \cup D \cup {p}
          /\ \A q \in DOMAIN output : output'[q] = output[q]
      BY <1>2, <2>1, <2>3, <2>4, Written
    <3>2. \A i \in 0 .. Len(Layer!Front(p)) :
            /\ output'[Prefix(Layer!Front(p), i)] \in Dirs
            /\ CopyOf(output'[Prefix(Layer!Front(p), i)], Prefix(Layer!Front(p), i))
      BY <1>2, <2>1, <2>3, <2>4, Written
    <3>3. \A q \in D : output'[q] \in Dirs /\ CopyOf(output'[q], q) BY <3>2
    <3> HIDE DEF D
    <3> QED BY <3>1, <3>3
  <2>6. \A q \in D : q \in DOMAIN upper /\ upper[q] \in Dirs BY <2>3, <2>4, Extended
  <2> HIDE DEF D
  <2>7. \A q \in DOMAIN output' :
          IF q \in DOMAIN upper THEN CopyOf(output'[q], q) ELSE output'[q] = White /\ Missing(q) /\ q \notin todo'
    <3>1. \A q \in DOMAIN output :
            IF q \in DOMAIN upper THEN CopyOf(output'[q], q) ELSE output'[q] = White /\ Missing(q) /\ q \notin todo'
      BY <1>1, <1>2, <2>5
    <3>2. IF p \in DOMAIN upper THEN CopyOf(output'[p], p) ELSE output'[p] = White /\ Missing(p) /\ p \notin todo'
      BY <1>1, <2>2, <2>3, <2>5
    <3> QED BY <2>5, <2>6, <3>1, <3>2
  <2>8. \A q \in DOMAIN upper : q \in DOMAIN output' \/ Same(q) BY <1>2, <2>5
  <2>9. \A q \in DOMAIN lower \ todo' : Missing(q) => q \in DOMAIN output' BY <1>1, <1>2, <2>5
  <2> QED BY <1>1, <1>2, <1>3, <2>5, <2>7, <2>8, <2>9 DEF LayerInv, CopyOf
<1> QED BY <1>4, <1>5

LEMMA LayerInit ==
  ASSUME Layer!Init
  PROVE  lower \in Layers /\ upper \in Layers /\ LayerInv
<1>1. /\ lower \in Layers /\ upper \in Layers /\ DOMAIN output = {Layer!Root} /\ output[Layer!Root] \in Dirs
      /\ walk = "upper" /\ todo = DOMAIN upper \ {Layer!Root}
  BY DEF Layer!Init
<1>2. Layer!Root \in Paths BY LayerInputs DEF Layer!PathsAssumption
<1>3. Layer!Root \in DOMAIN upper /\ upper[Layer!Root] \in Dirs BY <1>1, TreeIsClosed DEF Closed
<1> QED BY <1>1, <1>2, <1>3 DEF LayerInv, Closed, CopyOf

LEMMA LayerStep ==
  ASSUME lower \in Layers, upper \in Layers, Layer!Compatible, LayerInv, Layer!Next
  PROVE  LayerInv'
<1>1. CASE \E p \in Paths \ {Layer!Root} : Layer!CopyUpper(p) \/ Layer!Whiteout(p)
  BY <1>1, CopyUpperStep, WhiteoutStep
<1>2. CASE Layer!SecondWalk
  <2>1. /\ walk = "upper" /\ todo = {} /\ walk' = "lower" /\ todo' = DOMAIN lower \ {Layer!Root}
        /\ UNCHANGED <<lower, upper, output>>
    BY <1>2 DEF Layer!SecondWalk
  <2>2. \A q : Same(q)' = Same(q) /\ Missing(q)' = Missing(q) BY <2>1 DEF Same, Missing
  <2>3. ~ Missing(Layer!Root) BY DEF Missing
  <2>4. Closed(output') BY <2>1 DEF LayerInv
  <2> QED BY <2>1, <2>2, <2>3, <2>4 DEF LayerInv, CopyOf
<1>3. CASE Layer!Exit
  <2>1. walk = "lower" /\ todo = {} /\ walk' = "done" /\ UNCHANGED <<lower, upper, output, todo>>
    BY <1>3 DEF Layer!Exit
  <2>2. \A q : Same(q)' = Same(q) /\ Missing(q)' = Missing(q) BY <2>1 DEF Same, Missing
  <2>4. Closed(output') BY <2>1 DEF LayerInv
  <2> QED BY <2>1, <2>2, <2>4 DEF LayerInv, CopyOf
<1> QED BY <1>1, <1>2, <1>3 DEF Layer!Next

LEMMA SameTrees ==
  ASSUME UNCHANGED <<lower, upper>>
  PROVE  Layer!Compatible' <=> Layer!Compatible
  BY DEF Layer!Compatible, Layer!IsLink, Layer!LExists, Layer!IsDir, Layer!Is, Layer!Follow,
         Layer!Locate

(* Where a directory is, there are directories above it.                    *)
LEMMA NotNowhere ==
  ASSUME NEW t, Built(t)
  PROVE  Layer!Nowhere \notin DOMAIN t /\ ~ (Layer!Follow(t, Layer!Nowhere) \in DOMAIN t)
<1>1. Layer!Nowhere \notin DOMAIN t BY NowhereIsNoPath DEF Built
<1> QED BY <1>1 DEF Layer!Follow

LEMMA Upward ==
  ASSUME NEW t, Built(t), NEW p \in Paths \ {Layer!Root}
  PROVE  /\ Layer!IsDir(t, p) => Layer!IsDir(t, Layer!Front(p))
         /\ Layer!IsDir(t, Layer!Front(p)) =>
              \E d \in DOMAIN t : d = Layer!Follow(t, Layer!Locate(t)[Layer!Front(p)]) /\ t[d] \in Dirs
                                 /\ Layer!Locate(t)[p] = Append(d, Layer!Last(p))
<1> DEFINE d == Layer!Follow(t, Layer!Locate(t)[Layer!Front(p)])
<1>1. Layer!Locate(t)[p] = IF d \in DOMAIN t /\ t[d] \in Dirs THEN Append(d, Layer!Last(p)) ELSE Layer!Nowhere
  BY LocateFacts DEF LocateIn
<1>2. Layer!IsDir(t, Layer!Front(p)) <=> d \in DOMAIN t /\ t[d] \in Dirs BY DEF Layer!IsDir, Layer!Is
<1> HIDE DEF d
<1>3. Layer!IsDir(t, p) => Layer!Locate(t)[p] # Layer!Nowhere
  BY NotNowhere DEF Layer!IsDir, Layer!Is
<1> QED BY <1>1, <1>2, <1>3 DEF d

LEMMA AllTheWay ==
  ASSUME NEW t, Built(t), NEW p \in Paths, Layer!IsDir(t, p)
  PROVE  \A i \in 0 .. Len(p) : Layer!IsDir(t, Prefix(p, i))
<1> DEFINE N == Len(p)
           T == {k \in 0 .. N : Layer!IsDir(t, Prefix(p, N - k))}
<1>1. N \in Nat /\ Prefix(p, N) = p
  <2>1. N \in Nat /\ 0 \in 0 .. N BY PathFacts
  <2> QED BY <2>1, PrefixFacts
<1>2. 0 \in T BY <1>1
<1>3. ASSUME NEW k \in 0 .. N - 1, k \in T PROVE k + 1 \in T
  <2>1. N - k \in 0 .. N /\ N - k # 0 /\ (N - k) - 1 = N - (k + 1) /\ k + 1 \in 0 .. N BY <1>1
  <2>2. /\ Prefix(p, N - k) \in Paths \ {Layer!Root}
        /\ Layer!Front(Prefix(p, N - k)) = Prefix(p, N - (k + 1))
    <3>1. \A i \in 0 .. N : /\ Prefix(p, i) \in Paths
                            /\ i # 0 => Prefix(p, i) # Layer!Root /\ Layer!Front(Prefix(p, i)) = Prefix(p, i - 1)
      BY PrefixFacts
    <3> QED BY <2>1, <3>1
  <2>3. Layer!IsDir(t, Prefix(p, N - k)) BY <1>3
  <2>4. Layer!IsDir(t, Prefix(p, N - (k + 1))) BY <2>2, <2>3, Upward
  <2> QED BY <2>1, <2>4
<1> HIDE DEF T
<1>4. \A k \in 0 .. N : k \in T BY <1>1, <1>2, <1>3, Upwards
<1>5. \A i \in 0 .. N : N - i \in 0 .. N /\ N - (N - i) = i BY <1>1
<1> QED BY <1>4, <1>5 DEF T

(* A new entry moves nothing that is below directories.                     *)
LEMMA StaysThere ==
  ASSUME NEW t, Built(t), NEW q, q \notin DOMAIN t, NEW entry, NEW p \in Paths \ {Layer!Root},
         Layer!IsDir(t, Layer!Front(p))
  PROVE  Layer!Locate(Layer!Put(t, q, entry))[p] = Layer!Locate(t)[p]
<1> DEFINE N == Len(p)
           o == Layer!Put(t, q, entry)
           T == {i \in Nat : i <= N /\ Layer!Locate(o)[Prefix(p, i)] = Layer!Locate(t)[Prefix(p, i)]}
<1>1. /\ N \in Nat \ {0} /\ Prefix(p, N) = p /\ Prefix(p, 0) = Layer!Root
      /\ Layer!Front(p) = Prefix(p, N - 1) /\ Layer!Front(p) \in Paths /\ Len(Layer!Front(p)) = N - 1
  <2>1. N \in Nat /\ 0 \in 0 .. N BY PathFacts
  <2> QED BY <2>1, PrefixFacts, FrontFacts
<1>2. DOMAIN o = DOMAIN t \cup {q} /\ \A r \in DOMAIN t : o[r] = t[r] BY DEF Layer!Put
<1>3. 0 \in T BY <1>1, LocateFacts
<1>4. ASSUME NEW i \in 0 .. N - 1, i \in T PROVE i + 1 \in T
  <2>1. i + 1 \in 0 .. N /\ i + 1 # 0 /\ (i + 1) - 1 = i /\ i \in 0 .. N - 1 /\ i + 1 \in Nat /\ i + 1 <= N
        /\ N - 1 \in 0 .. N
    BY <1>1
  <2>2. /\ Prefix(p, i + 1) \in Paths \ {Layer!Root} /\ Layer!Front(Prefix(p, i + 1)) = Prefix(p, i)
    BY <2>1, PrefixFacts
  <2>3. Layer!IsDir(t, Prefix(p, i))
    <3>1. \A j \in 0 .. N - 1 : Layer!IsDir(t, Prefix(Prefix(p, N - 1), j)) BY <1>1, AllTheWay
    <3>2. Prefix(Prefix(p, N - 1), i) = Prefix(p, i) BY <2>1, PrefixFacts
    <3> QED BY <2>1, <3>1, <3>2
  <2> DEFINE l == Layer!Locate(t)[Prefix(p, i)]
             d == Layer!Follow(t, l)
  <2>4. Layer!Locate(o)[Prefix(p, i)] = l BY <1>4
  <2>5. d \in DOMAIN t /\ t[d] \in Dirs BY <2>3 DEF Layer!IsDir, Layer!Is
  <2>6. l \in DOMAIN t BY <2>5 DEF Layer!Follow
  <2> HIDE DEF l, o
  <2>7. Layer!Follow(o, l) = d /\ d \in DOMAIN o /\ o[d] \in Dirs BY <1>2, <2>5, <2>6 DEF Layer!Follow
  <2>8. /\ Layer!Locate(o)[Prefix(p, i + 1)] = LocateIn(o, l, Prefix(p, i + 1))
        /\ Layer!Locate(t)[Prefix(p, i + 1)] = LocateIn(t, l, Prefix(p, i + 1))
    BY <2>2, <2>4, LocateFacts DEF l
  <2>9. LocateIn(o, l, Prefix(p, i + 1)) = LocateIn(t, l, Prefix(p, i + 1))
    BY <2>5, <2>7 DEF LocateIn
  <2> QED BY <2>1, <2>8, <2>9
<1> HIDE DEF T, o
<1>5. \A i \in 0 .. N : i \in T BY <1>1, <1>3, <1>4, Upwards
<1>6. N \in 0 .. N BY <1>1
<1> QED BY <1>1, <1>5, <1>6 DEF T, o

(* What is put into a directory is below it.                                *)
LEMMA BelowFacts ==
  ASSUME NEW t, Built(t), NEW d \in DOMAIN t, NEW p \in Paths \ {Layer!Root}
  PROVE  LET q == Append(d, Layer!Last(p)) IN
         q # Layer!Root /\ Layer!Front(q) = d /\ q \in Seq(Layer!Parts)
<1> DEFINE q == Append(d, Layer!Last(p))
           S == Layer!Parts
<1>1. d \in Seq(S) /\ Layer!Last(p) \in S
  <2>1. p \in Seq(S) /\ Len(p) \in Nat /\ Len(p) # 0 BY PathFacts
  <2>2. Len(p) \in 1 .. Len(p) BY <2>1
  <2>3. Layer!Last(p) = p[Len(p)] BY DEF Layer!Last
  <2> QED BY <2>1, <2>2, <2>3, ElementOfSeq DEF Built
<1> HIDE DEF S
<1>2. q \in Seq(S) /\ Len(q) = Len(d) + 1 /\ Len(d) \in Nat /\ \A i \in 1 .. Len(d) : q[i] = d[i]
  BY <1>1
<1>3. q # Layer!Root BY <1>2 DEF Layer!Root
<1>4. Layer!Front(q) = d
  <2>1. Layer!Front(q) = Prefix(q, Len(d)) BY <1>2 DEF Layer!Front, Prefix
  <2>2. Len(d) \in 0 .. Len(q) BY <1>2
  <2>3. /\ Prefix(q, Len(d)) \in Seq(S) /\ Len(Prefix(q, Len(d))) = Len(d)
        /\ \A j \in 1 .. Len(d) : Prefix(q, Len(d))[j] = q[j]
    BY <1>2, <2>2, PrefixSeq
  <2>4. Prefix(q, Len(d)) = d BY <1>1, <1>2, <2>3, SeqEqual
  <2> QED BY <2>1, <2>4
<1> QED BY <1>2, <1>3, <1>4 DEF S

(* A new entry in a directory.                                              *)
LEMMA PutBuilt ==
  ASSUME NEW t, Built(t), NEW d \in DOMAIN t, t[d] \in Dirs, NEW p \in Paths \ {Layer!Root},
         NEW entry \in Dirs \cup {White} \cup Files \cup Links, Append(d, Layer!Last(p)) \notin DOMAIN t
  PROVE  Built(Layer!Put(t, Append(d, Layer!Last(p)), entry))
<1> DEFINE q == Append(d, Layer!Last(p))
           o == Layer!Put(t, q, entry)
<1>1. q # Layer!Root /\ Layer!Front(q) = d /\ q \in Seq(Layer!Parts) BY BelowFacts
<1>2. DOMAIN o = DOMAIN t \cup {q} /\ o[q] = entry /\ \A r \in DOMAIN t : o[r] = t[r]
  BY DEF Layer!Put
<1> HIDE DEF q, o
<1>3. \A r \in DOMAIN o \ {Layer!Root} : Layer!Front(r) \in DOMAIN t /\ t[Layer!Front(r)] \in Dirs
  BY <1>1, <1>2 DEF Built
<1>4. Built(o) BY <1>1, <1>2, <1>3 DEF Built
<1> QED BY <1>4 DEF q, o

(* copy_parent_dirs, when mkdir refuses nothing.                            *)
LEMMA ParentsBuilt ==
  ASSUME upper \in Layers, NEW t, Built(t), NEW d \in Paths,
         \A i \in 0 .. Len(d) : Layer!IsDir(t, Prefix(d, i)) \/ ~ Layer!LExists(t, Prefix(d, i))
  PROVE  Built(Layer!ParentDirs(t)[d]) /\ Layer!IsDir(Layer!ParentDirs(t)[d], d)
<1> DEFINE N == Len(d)
           D(i) == Prefix(d, i)
           O(i) == Layer!ParentDirs(t)[D(i)]
           New(o, p) == LET q == Layer!Locate(o)[p] IN
             q \in DOMAIN o /\ o[q] \in Dirs /\ \A r \in DOMAIN o \ {Layer!Root} : Layer!Front(r) # q
           Good(i) == Built(O(i)) /\ Layer!IsDir(O(i), D(i)) /\ (O(i) = t \/ New(O(i), D(i)))
           T == {i \in Nat : i <= N /\ Good(i)}
<1>1. N \in Nat /\ D(0) = Layer!Root /\ D(N) = d
  <2>1. N \in Nat /\ 0 \in 0 .. N BY PathFacts
  <2> QED BY <2>1, PrefixFacts
<1>2. \A i \in 0 .. N : D(i) \in Paths /\ (i # 0 => D(i) # Layer!Root /\ Layer!Front(D(i)) = D(i - 1))
  BY PrefixFacts
<1>3. Dirs \cap Links = {} BY LayerInputs DEF Layer!PathsAssumption
<1>4. Layer!IsDir(t, Layer!Root)
  <2>1. Layer!Root \in DOMAIN t /\ t[Layer!Root] \in Dirs BY DEF Built
  <2>2. Layer!Follow(t, Layer!Root) = Layer!Root BY <1>3, <2>1 DEF Layer!Follow
  <2> QED BY <2>1, <2>2, LocateFacts DEF Layer!IsDir, Layer!Is
<1>5. 0 \in T BY <1>1, <1>4, MakeFacts
<1>6. ASSUME NEW i \in 0 .. N - 1, Good(i) PROVE Good(i + 1)
  <2> DEFINE p == D(i + 1)
             o == O(i)
  <2>1. i + 1 \in 0 .. N /\ i + 1 # 0 /\ (i + 1) - 1 = i BY <1>1
  <2>2. p \in Paths \ {Layer!Root} /\ Layer!Front(p) = D(i) BY <1>2, <2>1
  <2>3. O(i + 1) = MakeIn(t, o, p) BY <1>4, <2>2, MakeFacts
  <2>4. CASE Layer!IsDir(t, p)
    <3>1. O(i + 1) = t BY <2>3, <2>4 DEF MakeIn
    <3> QED BY <2>4, <3>1
  <2>5. CASE ~ Layer!IsDir(t, p)
    <3>1. ~ Layer!LExists(t, p) BY <2>1, <2>5
    <3>2. O(i + 1) = Layer!Put(o, Layer!Locate(o)[p], Layer!DirLike(p)) BY <2>3, <2>5 DEF MakeIn
    <3>3. Built(o) /\ Layer!IsDir(o, Layer!Front(p)) /\ (o = t \/ New(o, Layer!Front(p)))
      BY <1>6, <2>2
    <3> HIDE DEF o, p, O, D
    <3>4. PICK e \in DOMAIN o : /\ e = Layer!Follow(o, Layer!Locate(o)[Layer!Front(p)]) /\ o[e] \in Dirs
                                 /\ Layer!Locate(o)[p] = Append(e, Layer!Last(p))
      BY <2>2, <3>3, Upward
    <3> DEFINE q == Append(e, Layer!Last(p))
               n == Layer!Put(o, q, Layer!DirLike(p))
    <3>5. q \notin DOMAIN o
      <4>1. CASE o = t BY <3>1, <3>4, <4>1 DEF Layer!LExists
      <4>2. CASE New(o, Layer!Front(p))
        <5>1. e = Layer!Locate(o)[Layer!Front(p)] BY <1>3, <3>4, <4>2 DEF Layer!Follow
        <5>2. SUFFICES ASSUME q \in DOMAIN o PROVE FALSE OBVIOUS
        <5>3. q # Layer!Root /\ Layer!Front(q) = e BY <2>2, <3>3, BelowFacts
        <5> QED BY <4>2, <5>1, <5>2, <5>3
      <4> QED BY <3>3, <4>1, <4>2
    <3>d. Layer!DirLike(p) \in Dirs BY <2>2, DirLikeFacts
    <3>6. Built(n) /\ Layer!Front(q) = e BY <2>2, <3>3, <3>4, <3>5, <3>d, PutBuilt, BelowFacts
    <3>7. Layer!Locate(n)[p] = q BY <2>2, <3>3, <3>4, <3>5, StaysThere
    <3>8. DOMAIN n = DOMAIN o \cup {q} /\ n[q] \in Dirs BY <3>d DEF Layer!Put
    <3>9. \A r \in DOMAIN o \ {Layer!Root} : Layer!Front(r) # q BY <3>3, <3>5 DEF Built
    <3>10. e # q BY <3>5
    <3>11. O(i + 1) = n BY <3>2, <3>4
    <3> HIDE DEF q, n
    <3>12. Layer!IsDir(n, p) BY <1>3, <3>7, <3>8 DEF Layer!IsDir, Layer!Is, Layer!Follow
    <3>13. New(n, p) BY <3>6, <3>7, <3>8, <3>9, <3>10
    <3>14. Built(O(i + 1)) /\ Layer!IsDir(O(i + 1), p) /\ New(O(i + 1), p)
      BY <3>6, <3>11, <3>12, <3>13
    <3> HIDE DEF New
    <3> QED BY <3>14 DEF p
  <2> QED BY <2>4, <2>5
<1>7. ASSUME NEW i \in 0 .. N - 1, i \in T PROVE i + 1 \in T
  <2>1. i + 1 \in Nat /\ i + 1 <= N BY <1>1
  <2> QED BY <1>6, <1>7, <2>1
<1> HIDE DEF T
<1>8. \A i \in 0 .. N : i \in T BY <1>1, <1>5, <1>7, Upwards
<1>9. N \in 0 .. N BY <1>1
<1>10. N \in T BY <1>8, <1>9
<1> QED BY <1>1, <1>10 DEF T

LEMMA WhiteBuilt ==
  ASSUME upper \in Layers, Built(output), NEW p \in Paths \ {Layer!Root}, Layer!Write(p, White)
  PROVE  Built(output') /\ walk' \in {walk, "raised"}
<1> DEFINE d == Layer!Front(p)
           t == Layer!ParentDirs(output)[d]
<1>1. CASE walk' = "raised" /\ UNCHANGED output BY <1>1 DEF Built
<1>2. CASE /\ ~ Layer!Refused(d) /\ ~ Layer!LExists(t, p)
           /\ output' = Layer!Put(t, Layer!Locate(t)[p], White) /\ UNCHANGED walk
  <2>1. d \in Paths BY FrontFacts
  <2>2. \A i \in 0 .. Len(d) : Layer!IsDir(output, Prefix(d, i)) \/ ~ Layer!LExists(output, Prefix(d, i))
    BY <1>2 DEF Layer!Refused, Prefix
  <2>3. Built(t) /\ Layer!IsDir(t, d) BY <2>1, <2>2, ParentsBuilt
  <2> HIDE DEF t
  <2>4. PICK e \in DOMAIN t : t[e] \in Dirs /\ Layer!Locate(t)[p] = Append(e, Layer!Last(p))
    BY <2>3, Upward
  <2>5. Append(e, Layer!Last(p)) \notin DOMAIN t BY <1>2, <2>4 DEF Layer!LExists
  <2>6. Built(Layer!Put(t, Append(e, Layer!Last(p)), White)) BY <2>3, <2>4, <2>5, PutBuilt
  <2> QED BY <1>2, <2>4, <2>6
<1>3. White \notin Files BY LayerInputs DEF Layer!PathsAssumption
<1> QED BY <1>1, <1>2, <1>3 DEF Layer!Write

LEMMA ClosedIsBuilt ==
  ASSUME NEW t, Closed(t), \A p \in DOMAIN t : t[p] \in Dirs \cup {White} \cup Files \cup Links
  PROVE  Built(t)
<1>1. Paths \subseteq Seq(Layer!Parts) BY LayerInputs DEF Layer!PathsAssumption
<1> QED BY <1>1 DEF Closed, Built

LEMMA BuiltStep ==
  ASSUME lower \in Layers, upper \in Layers, BuiltInv, Layer!Next
  PROVE  BuiltInv'
<1>1. ASSUME NEW p \in Paths \ {Layer!Root}, Layer!CopyUpper(p) PROVE BuiltInv'
  <2>1. walk = "upper" /\ FirstWalk BY <1>1 DEF BuiltInv, Layer!CopyUpper
  <2>2. /\ walk' = "upper" /\ todo' = todo \ {p} /\ UNCHANGED <<lower, upper>>
        /\ Closed(output') /\ DOMAIN output \subseteq DOMAIN output'
        /\ \A q \in DOMAIN output' : q \in DOMAIN upper /\ CopyOf(output'[q], q)
        /\ \A q \in DOMAIN output' : q \in DOMAIN output \/ q = p \/ upper[q] \in Dirs
    BY <1>1, <2>1, CopyMade
  <2>3. FirstWalk' BY <2>1, <2>2 DEF FirstWalk, CopyOf
  <2>4. \A q \in DOMAIN output' : output'[q] \in Dirs \cup {White} \cup Files \cup Links
    BY <2>2, TreeIsClosed, CopiedFacts DEF CopyOf, Closed
  <2>5. Built(output') BY <2>2, <2>4, ClosedIsBuilt
  <2>6. Built(output)' BY <2>5 DEF Built
  <2> QED BY <2>2, <2>3, <2>6 DEF BuiltInv
<1>2. ASSUME NEW p \in Paths \ {Layer!Root}, Layer!Whiteout(p) PROVE BuiltInv'
  <2>1. /\ walk = "lower" /\ todo' = todo \ {p} /\ UNCHANGED <<lower, upper>>
        /\ Layer!Write(p, White) \/ UNCHANGED <<output, walk>>
    BY <1>2 DEF Layer!Whiteout
  <2>2. Built(output) /\ todo \subseteq DOMAIN lower \ {Layer!Root} BY <2>1 DEF BuiltInv
  <2>3. Built(output') /\ walk' \in {"lower", "raised"}
    <3>1. CASE Layer!Write(p, White) BY <2>1, <2>2, <3>1, WhiteBuilt
    <3>2. CASE UNCHANGED <<output, walk>> BY <2>1, <2>2, <3>2 DEF Built
    <3> QED BY <2>1, <3>1, <3>2
  <2>4. Built(output)' BY <2>3 DEF Built
  <2> QED BY <2>1, <2>2, <2>3, <2>4 DEF BuiltInv
<1>3. CASE Layer!SecondWalk
  <2>1. /\ walk' = "lower" /\ todo' = DOMAIN lower \ {Layer!Root} /\ UNCHANGED <<lower, upper, output>>
    BY <1>3 DEF Layer!SecondWalk
  <2>2. Built(output)' BY <2>1 DEF BuiltInv, Built
  <2> QED BY <2>1, <2>2 DEF BuiltInv
<1>4. CASE Layer!Exit
  <2>1. /\ walk = "lower" /\ walk' = "done" /\ UNCHANGED <<lower, upper, output, todo>>
    BY <1>4 DEF Layer!Exit
  <2>2. Built(output)' BY <2>1 DEF BuiltInv, Built
  <2> QED BY <2>1, <2>2 DEF BuiltInv
<1> QED BY <1>1, <1>2, <1>3, <1>4 DEF Layer!Next

LEMMA BuiltInit ==
  ASSUME Layer!Init
  PROVE  BuiltInv
<1>1. /\ lower \in Layers /\ upper \in Layers /\ DOMAIN output = {Layer!Root} /\ output[Layer!Root] \in Dirs
      /\ walk = "upper" /\ todo = DOMAIN upper \ {Layer!Root}
  BY DEF Layer!Init
<1>2. Layer!Root \in Paths BY LayerInputs DEF Layer!PathsAssumption
<1>3. Layer!Root \in DOMAIN upper /\ upper[Layer!Root] \in Dirs BY <1>1, TreeIsClosed DEF Closed
<1>4. FirstWalk BY <1>1, <1>2, <1>3 DEF FirstWalk, Closed, CopyOf
<1>5. Closed(output) /\ \A q \in DOMAIN output : output[q] \in Dirs \cup {White} \cup Files \cup Links
  BY <1>1, <1>4 DEF FirstWalk
<1>6. Built(output) BY <1>5, ClosedIsBuilt
<1> QED BY <1>1, <1>4, <1>6 DEF BuiltInv

LEMMA TreesInit == Layer!Init => TreesInv BY LayerInit, BuiltInit DEF TreesInv

LEMMA TreesStep == TreesInv /\ Layer!Next => TreesInv'
<1> SUFFICES ASSUME TreesInv, Layer!Next PROVE TreesInv' OBVIOUS
<1>1. UNCHANGED <<lower, upper>>
  BY DEF Layer!Next, Layer!CopyUpper, Layer!Whiteout, Layer!SecondWalk, Layer!Exit
<1>2. Layer!Compatible' <=> Layer!Compatible BY <1>1, SameTrees
<1>3. BuiltInv' /\ (Layer!Compatible => LayerInv') BY LayerStep, BuiltStep DEF TreesInv
<1> QED BY <1>1, <1>2, <1>3 DEF TreesInv

(* Under the layer nothing is seen but the upper tree, and all of it, but   *)
(* for what a copy loses and for the directories that both trees have.      *)
LEMMA LayerRestores ==
  ASSUME lower \in Layers, upper \in Layers, LayerInv, walk = "done"
  PROVE  /\ DOMAIN Layer!Overlay = DOMAIN upper
         /\ \A p \in DOMAIN upper :
              IF p \in DOMAIN lower /\ {lower[p], upper[p]} \subseteq Dirs THEN Layer!Overlay[p] \in Dirs
              ELSE Copied[Layer!Overlay[p]] = Copied[upper[p]]
<1>1. /\ Closed(output) /\ \A q \in DOMAIN output : IF q \in DOMAIN upper THEN CopyOf(output[q], q) ELSE output[q] = White
      /\ \A q \in DOMAIN upper : q \in DOMAIN output \/ Same(q)
      /\ \A q \in DOMAIN lower : Missing(q) => q \in DOMAIN output
  BY DEF LayerInv
<1>2. Closed(upper) /\ Closed(lower) /\ upper \in [DOMAIN upper -> Dirs \cup Files \cup Links]
  BY TreeIsClosed
<1>3. White \notin Dirs \cup Files \cup Links BY LayerInputs DEF Layer!PathsAssumption
<1>r. /\ Layer!Root \in DOMAIN lower /\ {lower[Layer!Root], upper[Layer!Root]} \subseteq Dirs
      /\ Layer!Root \in DOMAIN output /\ output[Layer!Root] \in Dirs
  BY <1>1, <1>2 DEF Closed
<1>4. ASSUME NEW q \in DOMAIN upper
      PROVE  /\ q \in DOMAIN output \cup DOMAIN lower /\ q \in Paths
             /\ Layer!Shown(q) \in Dirs \cup Files \cup Links
             /\ upper[q] \in Dirs => Layer!Shown(q) \in Dirs
             /\ \/ Copied[Layer!Shown(q)] = Copied[upper[q]]
                \/ q \in DOMAIN lower /\ {lower[q], upper[q]} \subseteq Dirs
  <2>1. q \in Paths /\ upper[q] \in Dirs \cup Files \cup Links BY TreeIsClosed
  <2>2. CASE q = Layer!Root BY <1>r, <2>1, <2>2 DEF Layer!Shown
  <2>3. CASE q # Layer!Root /\ q \in DOMAIN output
    <3>1. Layer!Shown(q) = Copied[upper[q]] BY <1>1, <2>3 DEF Layer!Shown, CopyOf
    <3> QED BY <2>1, <2>3, <3>1, CopiedFacts
  <2>4. CASE q \notin DOMAIN output
    <3>1. Same(q) /\ Layer!Shown(q) = lower[q] BY <1>1, <2>4 DEF Layer!Shown
    <3> QED BY <2>1, <3>1 DEF Same
  <2> QED BY <2>2, <2>3, <2>4
<1>5. ASSUME NEW p \in DOMAIN upper PROVE Layer!Visible(p)
  <2>1. p \in Paths /\ Len(p) \in Nat /\ Prefix(p, Len(p)) = p
    <3>1. p \in Paths /\ Len(p) \in Nat BY <1>4, PathFacts
    <3>2. 0 \in 0 .. Len(p) BY <3>1
    <3> QED BY <3>1, <3>2, PrefixFacts
  <2>2. ASSUME NEW i \in 0 .. Len(p)
        PROVE  Prefix(p, i) \in DOMAIN upper /\ (i < Len(p) => upper[Prefix(p, i)] \in Dirs)
    <3>1. CASE i = Len(p) BY <2>1, <3>1
    <3>2. CASE i # Len(p)
      <4>1. i \in 0 .. Len(p) - 1 BY <2>1, <3>2
      <4> QED BY <1>2, <4>1, ClosedIsClean DEF Clean
    <3> QED BY <3>1, <3>2
  <2>3. ASSUME NEW i \in 0 .. Len(p)
        PROVE  /\ Prefix(p, i) \in DOMAIN output \cup DOMAIN lower
               /\ Layer!Shown(Prefix(p, i)) # White /\ (i < Len(p) => Layer!Shown(Prefix(p, i)) \in Dirs)
    BY <1>2, <1>3, <1>4, <2>2
  <2> QED BY <2>3 DEF Layer!Visible, Prefix
<1>6. ASSUME NEW p \in Paths, Layer!Visible(p) PROVE p \in DOMAIN upper
  <2> DEFINE T == {i \in 0 .. Len(p) : Prefix(p, i) \notin DOMAIN upper}
  <2>1. Len(p) \in Nat /\ Prefix(p, Len(p)) = p /\ Prefix(p, 0) = Layer!Root
    <3>1. Len(p) \in Nat BY PathFacts
    <3>2. 0 \in 0 .. Len(p) BY <3>1
    <3> QED BY <3>1, <3>2, PrefixFacts
  <2>2. SUFFICES ASSUME T # {} PROVE FALSE
    <3>1. Len(p) \in 0 .. Len(p) BY <2>1
    <3> QED BY <2>1, <3>1
  <2>3. T \in SUBSET Nat BY <2>1
  <2>4. PICK i \in T : \A j \in T : i <= j BY <2>2, <2>3, LeastNat
  <2>5. i \in 0 .. Len(p) /\ Prefix(p, i) \notin DOMAIN upper OBVIOUS
  <2>6. i # 0 BY <1>2, <2>1, <2>5 DEF Closed
  <2>7. i - 1 \in 0 .. Len(p) /\ ~ (i <= i - 1) BY <2>1, <2>5, <2>6
  <2>8. Prefix(p, i - 1) \in DOMAIN upper BY <2>4, <2>7
  <2> HIDE DEF T
  <2>9. Prefix(p, i) # Layer!Root /\ Layer!Front(Prefix(p, i)) = Prefix(p, i - 1)
    BY <2>5, <2>6, PrefixFacts
  <2>10. Prefix(p, i) \in DOMAIN output \cup DOMAIN lower /\ Layer!Shown(Prefix(p, i)) # White
    BY <1>6, <2>5 DEF Layer!Visible, Prefix
  <2>11. Prefix(p, i) \notin DOMAIN output BY <1>1, <2>5, <2>10 DEF Layer!Shown
  <2>12. Missing(Prefix(p, i)) BY <2>5, <2>8, <2>9, <2>10, <2>11 DEF Missing
  <2> QED BY <1>1, <2>10, <2>11, <2>12
<1>7. {q \in Paths : Layer!Visible(q)} = DOMAIN upper BY <1>4, <1>5, <1>6
<1>8. Layer!Overlay = [q \in DOMAIN upper |-> Layer!Shown(q)] BY <1>7 DEF Layer!Overlay
<1>9. ASSUME NEW p \in DOMAIN upper
      PROVE  IF p \in DOMAIN lower /\ {lower[p], upper[p]} \subseteq Dirs THEN Layer!Overlay[p] \in Dirs
             ELSE Copied[Layer!Overlay[p]] = Copied[upper[p]]
  BY <1>4, <1>8
<1> QED BY <1>8, <1>9


------------------------------------------------------------------------------
(* The swap of the devices.                                                 *)
LEMMA PairFields ==
  \A p \in Pairs : p \in BlockDevices \X BlockDevices /\ Number[p[1]] \in Verity!Field /\ Number[p[2]] \in Verity!Field
<1>1. Pairs \subseteq BlockDevices \X BlockDevices BY VerityInputs DEF Verity!PairsAssumption
<1>2. \A n \in BlockDevices : Number[n] \in Verity!Field BY DEF Verity!Field
<1> QED BY <1>1, <1>2

LEMMA VerityInit == Verity!Init => VerityInv
<1> SUFFICES ASSUME Verity!Init PROVE VerityInv OBVIOUS
<1>1. booted \in Tables /\ booted \in Seq(Verity!Field) /\ Len(booted) >= 10
  BY VerityInputs DEF Verity!TablesAssumption, Verity!Init
<1>2. Kept(active) BY <1>1 DEF Kept, Verity!Init
<1>3. Verity!TypeOK BY <1>1, VerityInputs DEF Verity!TypeOK, Verity!Init, Verity!RunsAssumption
<1> QED BY <1>2, <1>3 DEF VerityInv, Verity!Init, Verity!None

(* The line made of the table in use has the devices that were asked for.   *)
LEMMA UpdatedMoves ==
  ASSUME asked \in Pairs, booted \in Seq(Verity!Field), Len(booted) >= 10, NEW t, Kept(t)
  PROVE  Verity!Updated(t, asked) = Verity!None \/ Moved(Verity!Updated(t, asked))
<1> DEFINE u == [i \in DOMAIN t |-> CASE i = 2 -> Number[asked[1]]
                                      [] i = 3 -> Number[asked[2]]
                                      [] OTHER -> t[i]]
<1>1. t \in Seq(Verity!Field) /\ Len(t) = Len(booted) /\ DOMAIN t = 1 .. Len(t) /\ DOMAIN booted = 1 .. Len(t)
  BY DEF Kept
<1>2. Number[asked[1]] \in Verity!Field /\ Number[asked[2]] \in Verity!Field BY PairFields
<1>3. \A i \in 1 .. Len(t) : t[i] \in Verity!Field BY <1>1
<1>4. u \in Seq(Verity!Field) /\ Len(u) = Len(booted)
  <2>1. u \in [1 .. Len(t) -> Verity!Field] BY <1>1, <1>2, <1>3
  <2> HIDE DEF u
  <2> QED BY <1>1, <2>1
<1>5. u[2] = Number[asked[1]] /\ u[3] = Number[asked[2]] BY <1>1
<1>6. \A i \in DOMAIN booted \ {2, 3} : u[i] = booted[i] BY <1>1 DEF Kept
<1>7. Moved(u)
  <2> HIDE DEF u
  <2> QED BY <1>4, <1>5, <1>6 DEF Moved, Kept, Verity!Devices
<1>8. Verity!Updated(t, asked) \in {Verity!None, u} BY <1>1 DEF Verity!Updated, Verity!Fields
<1> HIDE DEF u
<1> QED BY <1>7, <1>8

LEMMA VerityStep == VerityInv /\ Verity!Next => VerityInv'
<1> SUFFICES ASSUME VerityInv, Verity!Next PROVE VerityInv' OBVIOUS
<1> USE DEF Verity!None
<1>i. /\ booted \in Tables /\ booted \in Seq(Verity!Field) /\ Len(booted) >= 10
      /\ present \subseteq BlockDevices /\ runs \in 0 .. MaxRuns
  BY VerityInputs DEF VerityInv, Verity!TypeOK, Verity!TablesAssumption
<1>l. ASSUME NEW t, Kept(t) PROVE t \in Seq(Verity!Field) /\ Len(t) >= 10 /\ t # <<>>
  BY <1>i, <1>l DEF Kept
<1>1. ASSUME NEW p \in Pairs, Verity!Start(p) PROVE VerityInv'
  <2>1. /\ runs' \in 0 .. MaxRuns /\ at' = "table" /\ asked' = p /\ params' = <<>>
        /\ UNCHANGED <<booted, active, inactive, present>>
    BY <1>1, <1>i, VerityInputs DEF Verity!Start, Verity!RunsAssumption
  <2>2. Verity!TypeOK' BY <2>1 DEF VerityInv, Verity!TypeOK
  <2> QED BY <2>1, <2>2 DEF VerityInv, Kept
<1>2. CASE Verity!GetParams
  <2>1. /\ at = "table" /\ at' = "update" /\ params' = active
        /\ UNCHANGED <<booted, active, inactive, present, runs, asked>>
    BY <1>2 DEF Verity!GetParams
  <2>2. Verity!TypeOK' BY <2>1 DEF VerityInv, Verity!TypeOK
  <2> QED BY <2>1, <2>2 DEF VerityInv, Kept
<1>3. CASE Verity!UpdateParams
  <2>1. /\ at = "update" /\ at' = "reload" /\ params' = Verity!Updated(active, asked) /\ asked \in Pairs
        /\ UNCHANGED <<booted, active, inactive, present, runs, asked>>
    BY <1>3 DEF Verity!UpdateParams, VerityInv
  <2>2. params' = <<>> \/ Moved(params')
    BY <1>i, <2>1, UpdatedMoves DEF VerityInv
  <2>3. params' \in Seq(Verity!Field)
    <3>1. CASE params' = <<>> BY <3>1
    <3>2. CASE Moved(params')
      <4>1. Kept(params') BY <3>2 DEF Moved
      <4> QED BY <4>1 DEF Kept
    <3> QED BY <2>2, <3>1, <3>2
  <2>4. Verity!TypeOK' BY <2>1, <2>3 DEF VerityInv, Verity!TypeOK
  <2> QED BY <2>1, <2>2, <2>4 DEF VerityInv, Kept, Moved
<1>4. CASE Verity!Reload
  <2>1. /\ at = "reload" /\ at' = "resume" /\ inactive' = params /\ Moved(params)
        /\ UNCHANGED <<booted, active, present, runs, asked, params>>
    BY <1>4 DEF Verity!Reload, VerityInv
  <2>2. Kept(params) BY <2>1 DEF Moved
  <2>3. Verity!TypeOK' BY <1>l, <2>1, <2>2 DEF VerityInv, Verity!TypeOK
  <2> QED BY <1>l, <2>1, <2>2, <2>3 DEF VerityInv, Kept, Moved
<1>5. CASE Verity!Resume
  <2>1. /\ at = "resume" /\ at' = "ok" /\ active' = inactive /\ inactive' = <<>> /\ Moved(inactive)
        /\ UNCHANGED <<booted, present, runs, asked, params>>
    BY <1>5 DEF Verity!Resume, VerityInv
  <2>2. Kept(inactive) BY <2>1 DEF Moved
  <2>3. Verity!TypeOK' BY <1>l, <2>1, <2>2 DEF VerityInv, Verity!TypeOK
  <2> QED BY <2>1, <2>2, <2>3 DEF VerityInv, Kept, Moved
<1>6. CASE Verity!Fail
  <2>1. at' = "failed" /\ UNCHANGED <<booted, active, inactive, present, runs, asked, params>>
    BY <1>6 DEF Verity!Fail
  <2>2. Verity!TypeOK' BY <2>1 DEF VerityInv, Verity!TypeOK
  <2> QED BY <2>1, <2>2 DEF VerityInv, Kept
<1>7. ASSUME NEW n \in BlockDevices, Verity!Unplug(n) \/ Verity!Plug(n) PROVE VerityInv'
  <2>1. present' \subseteq BlockDevices /\ UNCHANGED <<booted, active, inactive, runs, at, asked, params>>
    BY <1>7, <1>i DEF Verity!Unplug, Verity!Plug
  <2>2. Verity!TypeOK' BY <2>1 DEF VerityInv, Verity!TypeOK
  <2> QED BY <2>1, <2>2 DEF VerityInv, Kept, Moved
<1> QED BY <1>1, <1>2, <1>3, <1>4, <1>5, <1>6, <1>7 DEF Verity!Next

------------------------------------------------------------------------------
(* The choice of the disk.                                                  *)
LEMMA DiskInit == Disk!Init => DiskInv
<1> SUFFICES ASSUME Disk!Init PROVE DiskInv OBVIOUS
<1> USE DEF Disk!Init, Disk!NoRow
<1>1. Contents \subseteq {"none", "bare", "table"} BY DiskInputs DEF Disk!DisksAssumption
<1>2. content \in [Disks -> {"none", "bare", "table", "partial", "gnomeos"}] BY <1>1
<1>3. Disk!TypeOK BY <1>2 DEF Disk!TypeOK
<1> QED BY <1>3 DEF DiskInv, Disk!AskedFirst

(* What an operation on the disk behind n destroys is asked for before, or  *)
(* was taken for an empty disk.                                             *)
LEMMA OverwriteStep ==
  ASSUME Disk!TypeOK, Disk!AskedFirst, NEW n \in Names, NEW c \in {"none", "partial"}, Disk!Overwrite(n, c),
         plugged[n] # Disk!NoDisk, UNCHANGED <<answered, unplugs>>,
         \/ content[plugged[n]] \notin {"table", "gnomeos"}
         \/ \E a \in answered : a.name = n /\ (unplugs = 0 => a.disk = plugged[n])
  PROVE  /\ content' \in [Disks -> {"none", "bare", "table", "partial", "gnomeos"}]
         /\ \A l \in lost' : [name |-> l.name, disk |-> l.disk] \in Disk!Shown
         /\ Disk!AskedFirst'
<1> DEFINE new == [name |-> n, disk |-> plugged[n], was |-> content[plugged[n]]]
<1>1. plugged[n] \in Disks BY DEF Disk!TypeOK
<1>2. /\ content' = [content EXCEPT ![plugged[n]] = c]
      /\ lost' \in {lost, lost \cup {new}} /\ (new \in lost' => new \in lost \/ new.was # "partial")
  BY DEF Disk!Overwrite
<1>3. content' \in [Disks -> {"none", "bare", "table", "partial", "gnomeos"}]
  BY <1>1, <1>2 DEF Disk!TypeOK
<1>4. lost' \subseteq lost \cup {new} BY <1>2
<1>5. [name |-> new.name, disk |-> new.disk] \in Disk!Shown BY <1>1 DEF Disk!Shown
<1>6. \A l \in lost' : [name |-> l.name, disk |-> l.disk] \in Disk!Shown
  <2> HIDE DEF new
  <2> QED BY <1>4, <1>5 DEF Disk!TypeOK
<1>7. content[plugged[n]] \in {"none", "bare", "table", "partial", "gnomeos"}
  BY <1>1 DEF Disk!TypeOK
<1>8. new \in lost' => new \in lost \/ new.was = "bare"
                      \/ \E a \in answered : a.name = new.name /\ (unplugs = 0 => a.disk = new.disk)
  BY <1>7 DEF Disk!Overwrite
<1>9. Disk!AskedFirst'
  <2> HIDE DEF new
  <2> QED BY <1>4, <1>8 DEF Disk!AskedFirst
<1> QED BY <1>3, <1>6, <1>9

LEMMA DiskStep == DiskInv /\ Disk!Next => DiskInv'
<1> SUFFICES ASSUME DiskInv, Disk!Next PROVE DiskInv' OBVIOUS
<1> USE DEF Disk!ui
<1>d. /\ Disk!NoDisk \notin Disks /\ Disk!NoDisk \notin Names
      /\ Fault \in [Disks -> {"none", "read-only", "not partitionable", "too small"}]
  BY DiskInputs DEF Disk!DisksAssumption
<1>i. Disk!TypeOK /\ Disk!AskedFirst /\ unplugs \in Nat BY DEF DiskInv
<1>r. \A n \in Names : rows[n] # Disk!NoRow => rows[n] \in Disk!Row /\ rows[n].disk \in Disks
  BY <1>i DEF Disk!TypeOK, Disk!Row
<1>1. CASE Disk!Activate
  <2>1. /\ window' = "listing" /\ selected' = Disk!NoDisk /\ rows' = [n \in Names |-> Disk!NoRow]
        /\ UNCHANGED <<plugged, unplugs, content, daemon, target, answered, lost>>
        /\ tables' \subseteq Names /\ unlisted' \subseteq Names
    BY <1>1 DEF Disk!Activate
  <2>2. Disk!TypeOK' BY <1>i, <2>1 DEF Disk!TypeOK
  <2> QED BY <1>i, <2>1, <2>2 DEF DiskInv, Disk!AskedFirst
<1>2. ASSUME NEW n \in Names, Disk!Read(n) PROVE DiskInv'
  <2>1. /\ window = "listing" /\ selected = Disk!NoDisk /\ unlisted' \subseteq Names
        /\ UNCHANGED <<plugged, unplugs, content, tables, selected, daemon, target, answered, lost>>
    BY <1>2, <1>i DEF Disk!Read, DiskInv, Disk!TypeOK
  <2>2. CASE plugged[n] = Disk!NoDisk
    <3>1. window' = "closed" /\ rows' = rows BY <1>2, <2>2 DEF Disk!Read
    <3>2. Disk!TypeOK' BY <1>i, <2>1, <3>1 DEF Disk!TypeOK
    <3> QED BY <1>i, <2>1, <3>1, <3>2 DEF DiskInv, Disk!AskedFirst
  <2>3. CASE plugged[n] # Disk!NoDisk
    <3> DEFINE row == Disk!RowOf(n)
    <3>1. window' = window /\ rows' = [rows EXCEPT ![n] = row] BY <1>2, <2>3 DEF Disk!Read
    <3>2. row \in Disk!Row /\ row.disk = plugged[n]
      BY <1>i, <2>3 DEF Disk!RowOf, Disk!Row, Disk!TypeOK
    <3> HIDE DEF row
    <3>3. Disk!TypeOK' BY <1>d, <1>i, <2>1, <3>1, <3>2 DEF Disk!TypeOK
    <3>4. \A m \in Names : rows'[m] = IF m = n THEN row ELSE rows[m] BY <1>i, <3>1 DEF Disk!TypeOK
    <3> QED BY <1>i, <2>1, <3>1, <3>2, <3>3, <3>4 DEF DiskInv, Disk!AskedFirst
  <2> QED BY <2>2, <2>3
<1>3. CASE Disk!Present \/ Disk!Press \/ Disk!FormatFails \/ Disk!Refuse
  <2>1. /\ window' \in {"open", "install", "dialog"}
        /\ window' # "open" => window = "open" /\ selected # Disk!NoDisk
        /\ window' = "dialog" => ~ rows[selected].empty
        /\ UNCHANGED <<plugged, unplugs, content, tables, unlisted, rows, selected, daemon, target, answered, lost>>
    BY <1>3 DEF Disk!Present, Disk!Press, Disk!FormatFails, Disk!Refuse
  <2>2. Disk!TypeOK' BY <1>i, <2>1 DEF Disk!TypeOK
  <2> QED BY <1>i, <2>1, <2>2 DEF DiskInv, Disk!AskedFirst
<1>4. ASSUME NEW n \in Names, Disk!Select(n) PROVE DiskInv'
  <2>1. /\ window = "open" /\ rows[n] # Disk!NoRow /\ rows[n].selectable /\ selected' = n
        /\ UNCHANGED <<plugged, unplugs, content, window, tables, unlisted, rows, daemon, target, answered, lost>>
    BY <1>4 DEF Disk!Select
  <2>2. Disk!TypeOK' BY <1>d, <1>i, <2>1 DEF Disk!TypeOK
  <2> QED BY <1>d, <1>i, <2>1, <2>2 DEF DiskInv, Disk!AskedFirst
<1>5. ASSUME NEW r \in {"cancel", "erase"}, Disk!Respond(r) PROVE DiskInv'
  <2> DEFINE asks == [name |-> selected, disk |-> rows[selected].disk]
  <2>1. /\ window = "dialog" /\ selected \in Names /\ rows[selected] # Disk!NoRow
        /\ UNCHANGED <<plugged, unplugs, content, tables, unlisted, rows, selected, daemon, target, lost>>
    BY <1>5, <1>i DEF Disk!Respond, DiskInv, Disk!TypeOK
  <2>2. asks \in Disk!Shown BY <1>r, <2>1 DEF Disk!Shown
  <2>3. \/ window' = "format" /\ answered' = answered \cup {asks}
        \/ window' = "open" /\ answered' = answered
    BY <1>5 DEF Disk!Respond
  <2>4. asks' = asks BY <2>1
  <2>5. Disk!TypeOK' BY <1>i, <2>1, <2>2, <2>3 DEF Disk!TypeOK
  <2>6. Disk!AskedFirst' BY <1>i, <2>1, <2>3 DEF Disk!AskedFirst
  <2> QED BY <1>i, <2>1, <2>3, <2>4, <2>5, <2>6 DEF DiskInv
<1>6. CASE Disk!Format
  <2>1. /\ window = "format" /\ window' = "install" /\ selected \in Names /\ rows[selected] # Disk!NoRow
        /\ plugged[selected] # Disk!NoDisk /\ Disk!Overwrite(selected, "none")
        /\ UNCHANGED <<plugged, unplugs, tables, unlisted, rows, selected, daemon, target, answered>>
    BY <1>6, <1>i DEF Disk!Format, Disk!Device, DiskInv, Disk!TypeOK
  <2>2. \E a \in answered : a.name = selected /\ (unplugs = 0 => a.disk = plugged[selected])
    BY <2>1 DEF DiskInv
  <2>3. /\ content' \in [Disks -> {"none", "bare", "table", "partial", "gnomeos"}]
        /\ \A l \in lost' : [name |-> l.name, disk |-> l.disk] \in Disk!Shown
        /\ Disk!AskedFirst'
    BY <1>i, <2>1, <2>2, OverwriteStep
  <2>4. Disk!TypeOK' BY <1>i, <2>1, <2>3 DEF Disk!TypeOK
  <2> QED BY <2>1, <2>3, <2>4 DEF DiskInv
<1>7. CASE Disk!Accept \/ Disk!DryRun \/ Disk!InstallFails
  <2>1. /\ daemon' \in {"dryrun", "write", "idle"} /\ target' \in Names \cup {Disk!NoDisk}
        /\ window' \in {window, "page"} /\ (daemon' # "idle" => target' # Disk!NoDisk)
        /\ UNCHANGED <<plugged, unplugs, content, tables, unlisted, rows, selected, answered, lost>>
    BY <1>7, <1>i DEF Disk!Accept, Disk!DryRun, Disk!InstallFails, DiskInv, Disk!TypeOK
  <2>2. Disk!TypeOK' BY <1>i, <2>1 DEF Disk!TypeOK
  <2> QED BY <1>i, <2>1, <2>2 DEF DiskInv, Disk!AskedFirst
<1>8. CASE Disk!Write
  <2>1. /\ daemon' = "fill" /\ target \in Names /\ target # Disk!NoDisk /\ plugged[target] # Disk!NoDisk
        /\ content[plugged[target]] \notin {"table", "gnomeos"} /\ Disk!Overwrite(target, "partial")
        /\ UNCHANGED <<plugged, unplugs, window, tables, unlisted, rows, selected, target, answered>>
    BY <1>8, <1>i DEF Disk!Write, Disk!Fits, Disk!HasTable, DiskInv, Disk!TypeOK
  <2>2. /\ content' \in [Disks -> {"none", "bare", "table", "partial", "gnomeos"}]
        /\ \A l \in lost' : [name |-> l.name, disk |-> l.disk] \in Disk!Shown
        /\ Disk!AskedFirst'
    BY <1>i, <2>1, OverwriteStep
  <2>3. Disk!TypeOK' BY <1>i, <2>1, <2>2 DEF Disk!TypeOK
  <2> QED BY <2>1, <2>2, <2>3 DEF DiskInv
<1>9. CASE Disk!Finish \/ \E d \in Disks : Disk!WriteTable(d)
  <2>1. /\ daemon' \in {daemon, "idle"}
        /\ UNCHANGED <<plugged, unplugs, window, tables, unlisted, rows, selected, target, answered, lost>>
    BY <1>9 DEF Disk!Finish, Disk!WriteTable
  <2>2. content' \in [Disks -> {"none", "bare", "table", "partial", "gnomeos"}]
    BY <1>9, <1>i DEF Disk!Finish, Disk!WriteTable, Disk!TypeOK
  <2>3. Disk!TypeOK' BY <1>i, <2>1, <2>2 DEF Disk!TypeOK
  <2> QED BY <1>i, <2>1, <2>3 DEF DiskInv, Disk!AskedFirst
<1>10. ASSUME NEW n \in Names, Disk!Unplug(n) PROVE DiskInv'
  <2>1. /\ unplugs' \in Nat /\ unplugs' # 0 /\ plugged' = [plugged EXCEPT ![n] = Disk!NoDisk]
        /\ UNCHANGED <<content, window, tables, unlisted, rows, selected, daemon, target, answered, lost>>
    BY <1>10, <1>i DEF Disk!Unplug
  <2>2. Disk!TypeOK' BY <1>i, <2>1 DEF Disk!TypeOK
  <2> QED BY <1>i, <2>1, <2>2 DEF DiskInv, Disk!AskedFirst
<1>11. ASSUME NEW n \in Names, NEW d \in Disks, Disk!Plug(n, d) PROVE DiskInv'
  <2>1. /\ plugged[n] = Disk!NoDisk /\ plugged' = [plugged EXCEPT ![n] = d]
        /\ UNCHANGED <<unplugs, content, window, tables, unlisted, rows, selected, daemon, target, answered, lost>>
    BY <1>11 DEF Disk!Plug
  <2>2. Disk!TypeOK' BY <1>i, <2>1 DEF Disk!TypeOK
  <2>3. \A m \in Names : plugged'[m] = IF m = n THEN d ELSE plugged[m] BY <1>i, <2>1 DEF Disk!TypeOK
  <2>4. unplugs' = 0 => \A m \in Names : rows'[m] # Disk!NoRow => plugged'[m] = rows'[m].disk
    <3>1. unplugs = 0 => rows[n] = Disk!NoRow BY <1>d, <1>r, <2>1 DEF DiskInv
    <3> QED BY <2>1, <2>3, <3>1 DEF DiskInv
  <2> QED BY <1>i, <2>1, <2>2, <2>4 DEF DiskInv, Disk!AskedFirst
<1> QED
  BY <1>1, <1>2, <1>3, <1>4, <1>5, <1>6, <1>7, <1>8, <1>9, <1>10, <1>11 DEF Disk!Next

------------------------------------------------------------------------------
(* Permissions and attributes.                                              *)
LEMMA TreeFacts ==
  ASSUME tree \in Trees
  PROVE  /\ TreeRoot \in Nodes /\ tree \in [Nodes -> Perms!Entry] /\ tree[TreeRoot].kind = "dir"
         /\ \A n \in Nodes : Parent[n] \in Nodes /\ tree[Parent[n]].kind = "dir"
         /\ \A n \in Nodes :
              /\ tree[n].kind \in {"dir", "file", "link"} /\ tree[n].mode \in Perms!Modes
              /\ tree[n].attributes \subseteq Perms!Attributes
<1>1. /\ TreeRoot \in Nodes /\ tree \in [Nodes -> Perms!Entry] /\ Parent[TreeRoot] = TreeRoot
      /\ \A n \in Nodes : Parent[n] \in Nodes /\ tree[Parent[n]].kind = "dir"
  BY PermsInputs DEF Perms!TreesAssumption
<1>2. \A n \in Nodes : tree[n] \in Perms!Entry BY <1>1
<1> QED BY <1>1, <1>2 DEF Perms!Entry

(* The lines of a node are of its own mode and attributes.                  *)
LEMMA Lines ==
  ASSUME NEW n, NEW c \in Perms!retrieve_one(n)
  PROVE  /\ c.path = n /\ c.type \in {"z", "k", "t"} /\ tree[n].kind # "link"
         /\ c.type = "z" => c.value = tree[n].mode /\ c \in Perms!Mode(n)
         /\ c.type # "z" => c.value \in tree[n].attributes /\ c = Attr(n, c.value)
  BY DEF Perms!retrieve_one, Perms!Mode, Attr

LEMMA PermsInit == Perms!Init => PermsInv
<1> SUFFICES ASSUME Perms!Init PROVE PermsInv OBVIOUS
<1> USE DEF Perms!Init
<1>1. tree \in Trees OBVIOUS
<1>2. Perms!TypeOK BY <1>1, TreeFacts DEF Perms!TypeOK
<1>3. Visited({}) BY DEF Visited
<1> QED BY <1>1, <1>2, <1>3 DEF PermsInv, Given

(* Nobody is left out: what is above every node has been visited.           *)
LEMMA AllSaved ==
  ASSUME tree \in Trees, dirs = {}, NEW V \in SUBSET Nodes, Visited(V)
  PROVE  \A n \in Nodes \ {TreeRoot} : Saved(n)
<1> DEFINE S == {TreeRoot} \cup {n \in Nodes : Parent[n] \in V}
<1>1. S \in SUBSET Nodes /\ TreeRoot \in S BY PermsInputs DEF Perms!TreesAssumption
<1>2. ASSUME NEW n \in Nodes, Parent[n] \in S PROVE n \in S
  <2>1. CASE Parent[n] = TreeRoot BY <2>1 DEF Visited
  <2>2. CASE Parent[n] # TreeRoot
    <3>1. Parent[n] \in Nodes \ {TreeRoot} /\ Parent[Parent[n]] \in V BY <1>2, <2>2, TreeFacts
    <3>2. Parent[n] \in V BY <3>1, TreeFacts DEF Visited
    <3> QED BY <3>2
  <2> QED BY <2>1, <2>2
<1>3. S = Nodes
  <2> HIDE DEF S
  <2> QED BY <1>1, <1>2, PermsInputs DEF Perms!TreesAssumption
<1> QED BY <1>3 DEF Visited

(* One round of the walk visits one more directory.                         *)
LEMMA VisitMore ==
  ASSUME PermsInv, NEW d \in Nodes, Perms!Visit(d), phase' = "walk"
  PROVE  \E V \in SUBSET Nodes : Visited(V)'
<1>1. /\ phase = "walk" /\ d \in dirs /\ UNCHANGED tree
      /\ \A n \in Perms!Children(d) : tree[n].kind # "link" => "binary" \notin tree[n].attributes
      /\ dirs' = (dirs \ {d}) \cup {n \in Perms!Children(d) : tree[n].kind = "dir"}
      /\ configs' = configs \cup UNION {Perms!retrieve_one(n) : n \in Perms!Children(d)}
  BY DEF Perms!Visit
<1>2. PICK V \in SUBSET Nodes : Visited(V) BY <1>1 DEF PermsInv
<1>3. \A n \in Nodes : Perms!retrieve_one(n)' = Perms!retrieve_one(n)
  BY <1>1 DEF Perms!retrieve_one, Perms!Mode
<1>4. \A n \in Nodes : Saved(n) => Saved(n)' BY <1>1, <1>3 DEF Saved
<1>5. \A n \in Perms!Children(d) : Saved(n)' /\ (tree[n].kind = "dir" => n \in dirs')
  BY <1>1, <1>3 DEF Saved, Perms!Children
<1>6. Visited(V \cup {d})'
  <2>1. TreeRoot \in (V \cup {d}) \cup dirs' BY <1>1, <1>2 DEF Visited
  <2>2. ASSUME NEW n \in Nodes \ {TreeRoot}, Parent[n] \in V \cup {d}
        PROVE  Saved(n)' /\ (tree[n].kind = "dir" => n \in (V \cup {d}) \cup dirs')
    <3>1. CASE Parent[n] = d
      <4>1. n \in Perms!Children(d) BY <3>1 DEF Perms!Children
      <4> QED BY <1>5, <4>1
    <3>2. CASE Parent[n] \in V BY <1>1, <1>2, <1>4, <3>2 DEF Visited
    <3> QED BY <2>2, <3>1, <3>2
  <2> QED BY <1>1, <2>1, <2>2 DEF Visited
<1> QED BY <1>6

(* An artifact keeps what needs no line.                                    *)
LEMMA ArtifactLacks ==
  ASSUME PermsInv, Perms!Artifact
  PROVE  /\ image' \in [Nodes -> Perms!Entry]
         /\ \A n \in Nodes \ {TreeRoot} : tree[n].kind # "link" => Lacking(n)'
<1>1. /\ tree \in Trees /\ backup = configs /\ UNCHANGED <<tree, backup>>
      /\ image' = [n \in Nodes |-> Perms!Lost(tree[n])] /\ \A n \in Nodes \ {TreeRoot} : Saved(n)
  BY DEF PermsInv, Perms!Artifact
<1>2. ASSUME NEW n \in Nodes
      PROVE  /\ Perms!Lost(tree[n]) \in Perms!Entry /\ Perms!Lost(tree[n]).kind = tree[n].kind
             /\ Perms!Lost(tree[n]).attributes = {}
             /\ Perms!Lost(tree[n]).mode =
                  IF tree[n].kind = "file" /\ tree[n].mode = "0644" THEN "0644" ELSE "0755"
  <2>1. tree[n] \in Perms!Entry BY <1>1, TreeFacts
  <2> QED BY <2>1 DEF Perms!Lost, Perms!Entry, Perms!Modes
<1>3. ASSUME NEW n \in Nodes \ {TreeRoot}, tree[n].kind # "link" PROVE Lacking(n)'
  <2>1. Perms!retrieve_one(n) \subseteq backup BY <1>1 DEF Saved
  <2>2. Perms!Mode(n) \subseteq backup /\ \A a \in tree[n].attributes : Attr(n, a) \in backup
    BY <1>3, <2>1 DEF Perms!retrieve_one, Attr
  <2>3. Perms!Lost(tree[n]).mode = tree[n].mode \/ Perms!Mode(n) # {}
    BY <1>1, <1>2, <1>3, TreeFacts DEF Perms!Mode
  <2>4. image'[n] = Perms!Lost(tree[n]) /\ Perms!Mode(n)' = Perms!Mode(n) BY <1>1 DEF Perms!Mode
  <2> QED BY <1>1, <1>2, <2>2, <2>3, <2>4 DEF Lacking, Attr
<1> QED BY <1>1, <1>2, <1>3

(* A line takes one thing of its node back to what it was.                  *)
LEMMA ApplyLacks ==
  ASSUME PermsInv, NEW c \in backup, Perms!Apply(c)
  PROVE  /\ image' \in [Nodes -> Perms!Entry]
         /\ \A n \in Nodes \ {TreeRoot} : tree[n].kind # "link" => Lacking(n)'
<1> DEFINE m == c.path
<1>1. /\ tree \in Trees /\ image \in [Nodes -> Perms!Entry] /\ m \in Nodes \ {TreeRoot}
      /\ c \in Perms!retrieve_one(m) /\ UNCHANGED tree /\ backup' = backup \ {c}
      /\ \A n \in Nodes \ {TreeRoot} : tree[n].kind # "link" => Lacking(n)
  BY DEF PermsInv, Perms!Apply, Given, Perms!TypeOK
<1>2. /\ c.type \in {"z", "k", "t"} /\ tree[m].kind # "link"
      /\ c.type = "z" => c.value = tree[m].mode /\ c \in Perms!Mode(m)
      /\ c.type # "z" => c.value \in tree[m].attributes /\ c = Attr(m, c.value)
  BY <1>1, Lines
<1> DEFINE new == IF c.type = "z" THEN [image[m] EXCEPT !.mode = c.value]
                  ELSE [image[m] EXCEPT !.attributes = @ \cup Perms!Taken(c)]
<1>3. image' = [image EXCEPT ![m] = new] BY <1>1, <1>2 DEF Perms!Apply
<1>4. image[m] \in Perms!Entry BY <1>1
<1>5. /\ new \in Perms!Entry /\ new.kind = image[m].kind
      /\ new.mode = (IF c.type = "z" THEN c.value ELSE image[m].mode)
      /\ new.attributes = (IF c.type = "z" THEN image[m].attributes
                           ELSE image[m].attributes \cup ({c.value} \ {"special"}))
  <2>1. tree[m].mode \in Perms!Modes /\ tree[m].attributes \subseteq Perms!Attributes
    BY <1>1, TreeFacts
  <2> QED BY <1>2, <1>4, <2>1 DEF Perms!Entry, Perms!Taken
<1> HIDE DEF new, m
<1>6. image' \in [Nodes -> Perms!Entry] BY <1>1, <1>3, <1>5
<1>7. \A n \in Nodes : Perms!Mode(n)' = Perms!Mode(n) BY <1>1 DEF Perms!Mode
<1>8. ASSUME NEW n \in Nodes \ {TreeRoot}, tree[n].kind # "link" PROVE Lacking(n)'
  <2>1. Lacking(n) BY <1>1, <1>8
  <2>2. CASE n # m
    <3>1. image'[n] = image[n] BY <1>1, <1>3, <2>2
    <3>2. c \notin Perms!Mode(n) /\ \A a : c # Attr(n, a) BY <2>2 DEF Perms!Mode, Attr, m
    <3> QED BY <1>1, <1>7, <2>1, <3>1, <3>2 DEF Lacking, Attr
  <2>3. CASE n = m /\ c.type = "z"
    <3>1. image'[n] = new BY <1>1, <1>3, <2>3
    <3>2. \A a : c # Attr(n, a) BY <2>3 DEF Attr
    <3> QED BY <1>1, <1>2, <1>5, <2>1, <2>3, <3>1, <3>2 DEF Lacking, Attr
  <2>4. CASE n = m /\ c.type # "z"
    <3>1. image'[n] = new BY <1>1, <1>3, <2>4
    <3>2. c \notin Perms!Mode(n) BY <2>4 DEF Perms!Mode
    <3>3. \A a : a # c.value => Attr(n, a) # c BY <1>2, <2>4 DEF Attr
    <3> QED BY <1>1, <1>2, <1>5, <1>7, <2>1, <2>4, <3>1, <3>2, <3>3 DEF Lacking, Attr
  <2> QED BY <1>2, <2>2, <2>3, <2>4
<1> QED BY <1>6, <1>8

LEMMA PermsStep == PermsInv /\ Perms!Next => PermsInv'
<1> SUFFICES ASSUME PermsInv, Perms!Next PROVE PermsInv' OBVIOUS
<1>i. Perms!TypeOK /\ tree \in Trees /\ Given BY DEF PermsInv
<1>f. \A n \in Nodes : tree[n].kind \in {"dir", "file", "link"} BY <1>i, TreeFacts
<1>s. UNCHANGED <<tree, configs>> =>
        /\ \A n \in Nodes : Perms!retrieve_one(n)' = Perms!retrieve_one(n) /\ Saved(n)' = Saved(n)
        /\ Given'
  BY <1>i DEF Perms!retrieve_one, Perms!Mode, Saved, Given
<1>1. ASSUME NEW d \in Nodes, Perms!Visit(d) PROVE PermsInv'
  <2>1. phase = "walk" /\ UNCHANGED <<tree, backup, image>> /\ backup = {}
    BY <1>1, <1>i DEF Perms!Visit, Perms!TypeOK
  <2>2. CASE phase' = "failed" /\ UNCHANGED <<dirs, configs>>
    <3>1. Perms!TypeOK' BY <1>i, <2>1, <2>2 DEF Perms!TypeOK
    <3> QED BY <1>i, <1>s, <2>1, <2>2, <3>1 DEF PermsInv
  <2>3. CASE phase' = "walk"
    <3>1. /\ configs' = configs \cup UNION {Perms!retrieve_one(n) : n \in Perms!Children(d)}
          /\ dirs' = (dirs \ {d}) \cup {n \in Perms!Children(d) : tree[n].kind = "dir"}
      BY <1>1, <2>1, <2>3 DEF Perms!Visit
    <3>2. \A n \in Nodes : Perms!retrieve_one(n)' = Perms!retrieve_one(n)
      BY <2>1 DEF Perms!retrieve_one, Perms!Mode
    <3>3. ASSUME NEW c \in configs'
          PROVE  c.path \in Nodes \ {TreeRoot} /\ c \in Perms!retrieve_one(c.path) /\ c.type \in {"z", "k", "t"}
      <4>1. CASE c \in configs BY <1>i, <4>1 DEF Given, Perms!TypeOK
      <4>2. ASSUME NEW n \in Perms!Children(d), c \in Perms!retrieve_one(n)
            PROVE  c.path \in Nodes \ {TreeRoot} /\ c \in Perms!retrieve_one(c.path) /\ c.type \in {"z", "k", "t"}
        <5>1. n \in Nodes \ {TreeRoot} BY DEF Perms!Children
        <5> QED BY <4>2, <5>1, Lines
      <4> QED BY <3>1, <3>3, <4>1, <4>2
    <3>4. Given' BY <3>2, <3>3 DEF Given
    <3>5. Perms!TypeOK' BY <1>i, <2>1, <2>3, <3>1, <3>3 DEF Perms!TypeOK, Perms!Children
    <3>6. (\E V \in SUBSET Nodes : Visited(V))' BY <1>1, <2>3, VisitMore
    <3> QED BY <1>i, <2>1, <2>3, <3>4, <3>5, <3>6 DEF PermsInv
  <2> QED BY <1>1, <2>1, <2>2, <2>3 DEF Perms!Visit
<1>2. CASE Perms!Write
  <2>1. /\ phase = "walk" /\ dirs = {} /\ backup' = configs /\ phase' = "artifact"
        /\ UNCHANGED <<tree, dirs, configs, image>>
    BY <1>2 DEF Perms!Write
  <2>2. PICK V \in SUBSET Nodes : Visited(V) BY <2>1 DEF PermsInv
  <2>3. \A n \in Nodes \ {TreeRoot} : Saved(n) BY <1>i, <2>1, <2>2, AllSaved
  <2>4. Perms!TypeOK' BY <1>i, <2>1 DEF Perms!TypeOK
  <2> QED BY <1>i, <1>s, <2>1, <2>3, <2>4 DEF PermsInv
<1>3. CASE Perms!Artifact
  <2>1. phase' = "restore" /\ UNCHANGED <<tree, dirs, configs, backup>> BY <1>3 DEF Perms!Artifact
  <2>2. /\ image' \in [Nodes -> Perms!Entry]
        /\ \A n \in Nodes \ {TreeRoot} : tree[n].kind # "link" => Lacking(n)'
    BY <1>3, ArtifactLacks
  <2>3. Perms!TypeOK' BY <1>i, <2>1, <2>2 DEF Perms!TypeOK
  <2> QED BY <1>i, <1>s, <2>1, <2>2, <2>3 DEF PermsInv
<1>4. ASSUME NEW c \in backup, Perms!Apply(c) PROVE PermsInv'
  <2>1. phase = "restore" /\ backup' \subseteq backup /\ UNCHANGED <<tree, dirs, configs, phase>>
    BY <1>4 DEF Perms!Apply
  <2>2. /\ image' \in [Nodes -> Perms!Entry]
        /\ \A n \in Nodes \ {TreeRoot} : tree[n].kind # "link" => Lacking(n)'
    BY <1>4, ApplyLacks
  <2>3. Perms!TypeOK' BY <1>i, <2>1, <2>2 DEF Perms!TypeOK
  <2> QED BY <1>i, <1>s, <2>1, <2>2, <2>3 DEF PermsInv
<1>5. CASE Perms!Done
  <2>1. /\ phase = "restore" /\ phase' = "done" /\ backup = {}
        /\ UNCHANGED <<tree, dirs, configs, backup, image>>
    BY <1>5 DEF Perms!Done
  <2>2. Perms!TypeOK' BY <1>i, <2>1 DEF Perms!TypeOK
  <2>3. \A n \in Nodes : Lacking(n)' = Lacking(n) BY <2>1 DEF Lacking, Perms!Mode
  <2> QED BY <1>i, <1>s, <2>1, <2>2, <2>3 DEF PermsInv
<1> QED BY <1>1, <1>2, <1>3, <1>4, <1>5 DEF Perms!Next

LEMMA PermsRestored == PermsInv => Perms!Restored
<1> SUFFICES ASSUME PermsInv, phase = "done", NEW n \in Nodes \ {TreeRoot}, tree[n].kind # "link"
             PROVE  image[n] = [tree[n] EXCEPT !.attributes = @ \ {"special"}]
  BY DEF Perms!Restored
<1>1. Lacking(n) /\ backup = {} BY DEF PermsInv
<1>2. image[n] \in Perms!Entry /\ tree[n] \in Perms!Entry BY TreeFacts DEF PermsInv, Perms!TypeOK
<1>3. /\ image[n].kind = tree[n].kind /\ image[n].mode = tree[n].mode
      /\ image[n].attributes = tree[n].attributes \ {"special"}
  BY <1>1 DEF Lacking
<1> QED BY <1>2, <1>3 DEF Perms!Entry

------------------------------------------------------------------------------
LEMMA SeqFacts ==
  ASSUME NEW S, NEW s \in Seq(S)
  PROVE  Len(s) \in Nat /\ DOMAIN s = 1 .. Len(s) /\ \A i \in 1 .. Len(s) : s[i] \in S
  BY LenProperties, ElementOfSeq

LEMMA InsertAtFacts ==
  ASSUME NEW S, NEW s \in Seq(S), NEW a \in S, NEW k \in 1 .. Len(s) + 1
  PROVE  /\ Mime!InsertAt(s, k, a) \in Seq(S) /\ Len(Mime!InsertAt(s, k, a)) = Len(s) + 1
         /\ Mime!InsertAt(s, k, a)[k] = a
         /\ \A i \in 1 .. k - 1 : Mime!InsertAt(s, k, a)[i] = s[i]
         /\ \A i \in k .. Len(s) : Mime!InsertAt(s, k, a)[i + 1] = s[i]
<1> DEFINE N == Len(s)
           u == SubSeq(s, 1, k - 1)
           v == SubSeq(s, k, N)
<1>1. N \in Nat /\ k \in Nat /\ k - 1 \in Nat /\ \A i \in 1 .. N : s[i] \in S BY SeqFacts
<1>2. u \in Seq(S) /\ Len(u) = k - 1 /\ \A i \in 1 .. k - 1 : u[i] = s[i]
  <2>1. \A i \in 1 .. k - 1 : s[i] \in S /\ 1 + i - 1 = i BY <1>1
  <2>2. /\ u \in Seq(S) /\ Len(u) = IF 1 <= k - 1 THEN k - 1 - 1 + 1 ELSE 0
        /\ \A i \in 1 .. k - 1 - 1 + 1 : u[i] = s[1 + i - 1]
    BY <1>1, <2>1, SubSeqProperties
  <2>3. k - 1 - 1 + 1 = k - 1 BY <1>1
  <2> HIDE DEF u
  <2> QED BY <1>1, <2>1, <2>2, <2>3
<1>3. v \in Seq(S) /\ Len(v) = N - k + 1 /\ \A i \in 1 .. N - k + 1 : v[i] = s[k + i - 1]
  <2>1. \A i \in k .. N : s[i] \in S BY <1>1
  <2>2. /\ v \in Seq(S) /\ Len(v) = IF k <= N THEN N - k + 1 ELSE 0
        /\ \A i \in 1 .. N - k + 1 : v[i] = s[k + i - 1]
    BY <1>1, <2>1, SubSeqProperties
  <2> HIDE DEF v
  <2> QED BY <1>1, <2>2
<1>4. <<a>> \in Seq(S) /\ Len(<<a>>) = 1 /\ <<a>>[1] = a OBVIOUS
<1> HIDE DEF u, v
<1>5. /\ u \o <<a>> \in Seq(S) /\ Len(u \o <<a>>) = k
      /\ \A i \in 1 .. k : (u \o <<a>>)[i] = IF i <= k - 1 THEN u[i] ELSE <<a>>[i - (k - 1)]
  <2>1. (k - 1) + 1 = k BY <1>1
  <2> QED BY <1>2, <1>4, <2>1, ConcatProperties
<1> DEFINE z == u \o <<a>>
           w == z \o v
<1> HIDE DEF z
<1>6. z \in Seq(S) /\ Len(z) = k /\ \A i \in 1 .. k : z[i] = IF i <= k - 1 THEN u[i] ELSE <<a>>[i - (k - 1)]
  BY <1>5 DEF z
<1>7. /\ w \in Seq(S) /\ Len(w) = N + 1
      /\ \A i \in 1 .. N + 1 : w[i] = IF i <= k THEN z[i] ELSE v[i - k]
  <2>1. Len(z) + Len(v) = N + 1 BY <1>1, <1>3, <1>6
  <2>2. /\ w \in Seq(S) /\ Len(w) = Len(z) + Len(v)
        /\ \A i \in 1 .. Len(z) + Len(v) : w[i] = IF i <= Len(z) THEN z[i] ELSE v[i - Len(z)]
    BY <1>3, <1>6, ConcatProperties
  <2> HIDE DEF w
  <2> QED BY <1>6, <2>1, <2>2
<1>8. Mime!InsertAt(s, k, a) = w BY DEF Mime!InsertAt, u, v, z
<1> HIDE DEF w
<1>9. w[k] = a
  <2>1. k \in 1 .. k /\ k \in 1 .. N + 1 /\ k - (k - 1) = 1 /\ ~ (k <= k - 1) /\ k <= k BY <1>1
  <2> QED BY <1>4, <1>6, <1>7, <2>1
<1>10. ASSUME NEW i \in 1 .. k - 1 PROVE w[i] = s[i]
  <2>1. i \in 1 .. k /\ i \in 1 .. N + 1 /\ i <= k /\ i <= k - 1 BY <1>1
  <2> QED BY <1>2, <1>6, <1>7, <2>1
<1>11. ASSUME NEW i \in k .. N PROVE w[i + 1] = s[i]
  <2>1. i + 1 \in 1 .. N + 1 /\ ~ (i + 1 <= k) /\ (i + 1) - k \in 1 .. N - k + 1 /\ k + ((i + 1) - k) - 1 = i
    BY <1>1
  <2> QED BY <1>3, <1>7, <2>1
<1> QED BY <1>7, <1>8, <1>9, <1>10, <1>11


(* Binary search: the place is in the list, and it is the first one before  *)
(* which the application is to be, if such are the places from there on.    *)
LEMMA Halved ==
  ASSUME NEW l \in Nat, NEW r \in Nat, l < r
  PROVE  l + (r - l) \div 2 \in l .. r - 1
  OBVIOUS

Ranges(s) == {x \in (1 .. Len(s) + 1) \X (1 .. Len(s) + 1) : x[1] <= x[2]}
Round(s, a, x) ==
  LET p == x[1] + (x[2] - x[1]) \div 2
  IN  IF x[1] >= x[2] THEN x ELSE IF Mime!Before(a, s[p]) THEN <<x[1], p>> ELSE <<p + 1, x[2]>>
Splits(s, a, m) == \A i \in 1 .. Len(s) : Mime!Before(a, s[i]) <=> i >= m

LEMMA RoundFacts ==
  ASSUME NEW s \in Seq(Mime!Ids), NEW a, NEW x \in Ranges(s)
  PROVE  /\ Round(s, a, x) \in Ranges(s)
         /\ x[1] = x[2] \/ Round(s, a, x)[2] - Round(s, a, x)[1] < x[2] - x[1]
         /\ x[1] = x[2] => Round(s, a, x) = x
         /\ \A m \in 1 .. Len(s) + 1 :
              Splits(s, a, m) /\ x[1] <= m /\ m <= x[2] =>
                Round(s, a, x)[1] <= m /\ m <= Round(s, a, x)[2]
<1> DEFINE N == Len(s)
           l == x[1]
           r == x[2]
           p == l + (r - l) \div 2
<1>1. N \in Nat BY SeqFacts
<1>2. x = <<l, r>> /\ l \in 1 .. N + 1 /\ r \in 1 .. N + 1 /\ l <= r BY DEF Ranges
<1>3. CASE l = r
  <2>1. Round(s, a, x) = x BY <1>2, <1>3 DEF Round
  <2> QED BY <1>3, <2>1
<1>4. CASE l # r
  <2>1. l < r /\ ~ (l >= r) /\ l \in Nat /\ r \in Nat BY <1>1, <1>2, <1>4
  <2>2. p \in l .. r - 1 BY <2>1, Halved
  <2> HIDE DEF p
  <2>3. p \in 1 .. N /\ p \in 1 .. N + 1 /\ p + 1 \in 1 .. N + 1 /\ l <= p /\ p + 1 <= r /\ p - l < r - l /\ r - (p + 1) < r - l
    BY <1>1, <1>2, <2>2
  <2>4. Round(s, a, x) = IF Mime!Before(a, s[p]) THEN <<l, p>> ELSE <<p + 1, r>>
    BY <2>1 DEF Round, p
  <2> HIDE DEF l, r
  <2>5. <<l, p>> \in Ranges(s) /\ <<p + 1, r>> \in Ranges(s) BY <1>2, <2>3 DEF Ranges
  <2>6. ASSUME NEW m \in 1 .. N + 1, Splits(s, a, m), l <= m, m <= r
        PROVE  Round(s, a, x)[1] <= m /\ m <= Round(s, a, x)[2]
    <3>1. Mime!Before(a, s[p]) <=> p >= m BY <2>3, <2>6 DEF Splits
    <3>2. p \in Int /\ m \in Int /\ (~ (p >= m) => p + 1 <= m) /\ (p >= m => m <= p) BY <1>1, <2>3
    <3>3. CASE Mime!Before(a, s[p]) BY <2>4, <2>6, <3>1, <3>2, <3>3
    <3>4. CASE ~ Mime!Before(a, s[p]) BY <2>4, <2>6, <3>1, <3>2, <3>4
    <3> QED BY <3>3, <3>4
  <2>7. Round(s, a, x) \in Ranges(s) BY <2>4, <2>5
  <2>8. Round(s, a, x)[2] - Round(s, a, x)[1] < r - l BY <2>3, <2>4
  <2> QED BY <1>4, <2>6, <2>7, <2>8 DEF l, r
<1> QED BY <1>3, <1>4

LEMMA InsertFacts ==
  ASSUME NEW s \in Seq(Mime!Ids), NEW a \in Mime!Ids
  PROVE  \E k \in 1 .. Len(s) + 1 :
           /\ Mime!Insert(s, a) = Mime!InsertAt(s, k, a)
           /\ \A m \in 1 .. Len(s) + 1 : Splits(s, a, m) => k = m
<1> DEFINE N == Len(s)
           Good(f) == f = [n \in 0 .. N |-> IF n = 0 THEN <<1, N + 1>> ELSE Round(s, a, f[n - 1])]
           range == CHOOSE f : Good(f)
<1>1. N \in Nat BY SeqFacts
<1>2. <<1, N + 1>> \in Ranges(s) BY <1>1 DEF Ranges
<1>3. \E f : Good(f)
  <2> DEFINE X == Ranges(s)
             first == <<1, N + 1>>
             G == [n \in 1 .. N |-> [x \in X |-> Round(s, a, x)]]
  <2>1. G \in [1 .. N -> [X -> X]] BY RoundFacts
  <2>2. \A n \in 1 .. N : \A x \in X : G[n][x] = Round(s, a, x) OBVIOUS
  <2>a. first \in X BY <1>2
  <2>c. N \in Nat BY <1>1
  <2> HIDE DEF G, X, first, N
  <2>b. \E f : Iterates(f, N, X, first, G)
    BY <2>c, <2>1, <2>a, Recursion
  <2>3. PICK f \in [0 .. N -> X] : f[0] = first /\ \A n \in 1 .. N : f[n] = G[n][f[n - 1]]
    BY <2>b DEF Iterates
  <2>4. \A n \in 1 .. N : n - 1 \in 0 .. N BY <1>1
  <2>5. \A n \in 1 .. N : f[n] = Round(s, a, f[n - 1]) BY <2>2, <2>3, <2>4
  <2>6. \A n \in 0 .. N : n = 0 \/ n \in 1 .. N BY <1>1
  <2>7. f = [n \in 0 .. N |-> f[n]] OBVIOUS
  <2>8. Good(f) BY <2>3, <2>5, <2>6, <2>7 DEF first
  <2> QED BY <2>8
<1>4. Mime!Insert(s, a) = Mime!InsertAt(s, range[N][1], a) BY DEF Mime!Insert, Round
<1>5. Good(range) BY <1>3
<1> HIDE DEF range
<1>6. range[0] = <<1, N + 1>> /\ \A n \in 0 .. N - 1 : range[n + 1] = Round(s, a, range[n])
  <2>1. \A n \in 0 .. N - 1 : n + 1 \in 0 .. N /\ n + 1 # 0 /\ (n + 1) - 1 = n BY <1>1
  <2>2. 0 \in 0 .. N BY <1>1
  <2> QED BY <1>5, <2>1, <2>2
<1> HIDE DEF Good
<1> DEFINE T == {n \in 0 .. N : range[n] \in Ranges(s) /\ range[n][2] - range[n][1] <= N - n}
<1>7. 0 \in T BY <1>1, <1>2, <1>6
<1>8. ASSUME NEW n \in 0 .. N - 1, n \in T PROVE n + 1 \in T
  <2> DEFINE x == range[n]
             y == range[n + 1]
  <2>1. x \in Ranges(s) /\ y = Round(s, a, x) /\ x[2] - x[1] <= N - n BY <1>6, <1>8
  <2>2. y \in Ranges(s) /\ (x[1] = x[2] \/ y[2] - y[1] < x[2] - x[1]) /\ (x[1] = x[2] => y = x)
    BY <2>1, RoundFacts
  <2> HIDE DEF x, y
  <2>3. x[1] \in Int /\ x[2] \in Int /\ y[1] \in Int /\ y[2] \in Int BY <1>1, <2>1, <2>2 DEF Ranges
  <2>4. y[2] - y[1] <= N - (n + 1)
    <3>1. CASE x[1] = x[2] BY <1>1, <2>2, <2>3, <3>1
    <3>2. CASE x[1] # x[2] BY <1>1, <2>1, <2>2, <2>3, <3>2
    <3> QED BY <3>1, <3>2
  <2>5. n + 1 \in 0 .. N BY <1>1
  <2> QED BY <2>2, <2>4, <2>5 DEF y
<1>9. N \in T
  <2> HIDE DEF T
  <2>1. \A n \in 0 .. N - 1 : n \in T => n + 1 \in T BY <1>8
  <2>2. \A n \in 0 .. N : n \in T BY <1>1, <1>7, <2>1, Upwards
  <2>3. N \in 0 .. N BY <1>1
  <2> QED BY <2>2, <2>3
<1>10. range[N] \in Ranges(s) /\ range[N][2] - range[N][1] <= N - N BY <1>9
<1>11. range[N][1] \in 1 .. N + 1 /\ range[N][2] \in 1 .. N + 1 /\ range[N][1] = range[N][2]
  <2> DEFINE x == range[N]
  <2>1. x \in Ranges(s) /\ x[2] - x[1] <= N - N BY <1>10
  <2> HIDE DEF x
  <2>2. x[1] \in 1 .. N + 1 /\ x[2] \in 1 .. N + 1 /\ x[1] <= x[2] BY <2>1 DEF Ranges
  <2>3. x[1] = x[2] BY <1>1, <2>1, <2>2
  <2> QED BY <2>2, <2>3 DEF x
<1>12. ASSUME NEW m \in 1 .. N + 1, Splits(s, a, m) PROVE range[N][1] = m
  <2> DEFINE U == {n \in 0 .. N : range[n][1] <= m /\ m <= range[n][2]}
  <2>1. 0 \in U BY <1>1, <1>6
  <2>2. ASSUME NEW n \in 0 .. N - 1, n \in U PROVE n + 1 \in U
    <3>1. n + 1 \in 0 .. N /\ n \in 0 .. N BY <1>1
    <3>2. \A i \in 0 .. N : i \in T
      <4> HIDE DEF T
      <4>1. \A i \in 0 .. N - 1 : i \in T => i + 1 \in T BY <1>8
      <4> QED BY <1>1, <1>7, <4>1, Upwards
    <3>3. range[n] \in Ranges(s) BY <3>1, <3>2
    <3>4. range[n + 1][1] <= m /\ m <= range[n + 1][2] BY <1>6, <1>12, <2>2, <3>3, RoundFacts
    <3> QED BY <3>1, <3>4
  <2>3. \A n \in 0 .. N - 1 : n \in U => n + 1 \in U BY <2>2
  <2> HIDE DEF U
  <2>4. \A n \in 0 .. N : n \in U BY <1>1, <2>1, <2>3, Upwards
  <2>5. N \in 0 .. N BY <1>1
  <2>6. range[N][1] <= m /\ m <= range[N][2] BY <2>4, <2>5 DEF U
  <2> QED BY <1>1, <1>11, <2>6
<1> QED BY <1>4, <1>11, <1>12


LEMMA InsertSeq ==
  ASSUME NEW s \in Seq(Mime!Ids), NEW a \in Mime!Ids
  PROVE  /\ Mime!Insert(s, a) \in Seq(Mime!Ids) /\ Len(Mime!Insert(s, a)) = Len(s) + 1
         /\ Splits(s, a, Len(s) + 1) =>
              /\ \A i \in 1 .. Len(s) : Mime!Insert(s, a)[i] = s[i]
         /\ Len(s) # 0 /\ Splits(s, a, Len(s)) =>
              /\ Mime!Insert(s, a)[Len(s)] = a /\ Mime!Insert(s, a)[Len(s) + 1] = s[Len(s)]
<1>1. PICK k \in 1 .. Len(s) + 1 :
        Mime!Insert(s, a) = Mime!InsertAt(s, k, a) /\ \A m \in 1 .. Len(s) + 1 : Splits(s, a, m) => k = m
  BY InsertFacts
<1>2. Len(s) \in Nat BY SeqFacts
<1> DEFINE N == Len(s)
           t == Mime!InsertAt(s, k, a)
<1>3. /\ t \in Seq(Mime!Ids) /\ Len(t) = N + 1 /\ t[k] = a
      /\ \A i \in 1 .. k - 1 : t[i] = s[i]
      /\ \A i \in k .. N : t[i + 1] = s[i]
  BY InsertAtFacts
<1>4. t = Mime!Insert(s, a) BY <1>1
<1> HIDE DEF t
<1>5. N + 1 \in 1 .. N + 1 /\ (N # 0 => N \in 1 .. N + 1) /\ (N + 1) - 1 = N BY <1>2
<1>6. ASSUME Splits(s, a, N + 1) PROVE \A i \in 1 .. N : t[i] = s[i]
  <2>1. k = N + 1 BY <1>1, <1>5, <1>6
  <2> QED BY <1>3, <1>5, <2>1
<1>7. ASSUME N # 0, Splits(s, a, N) PROVE t[N] = a /\ t[N + 1] = s[N]
  <2>1. k = N BY <1>1, <1>5, <1>7
  <2>2. N \in N .. N BY <1>2
  <2> QED BY <1>3, <2>1, <2>2
<1> QED BY <1>3, <1>4, <1>6, <1>7

(* The run that a list begins with is as long as it can be.                 *)
LEMMA FirstRunFacts ==
  ASSUME NEW s \in Seq(Mime!Ids), s # <<>>
  PROVE  /\ Mime!FirstRun(s) \in 1 .. Len(s) /\ Len(s) \in Nat \ {0}
         /\ \A i \in 2 .. Mime!FirstRun(s) : Mime!Before(s[i], s[i - 1]) <=> Mime!Descends(s)
         /\ Mime!FirstRun(s) < Len(s) => ~ (Mime!Before(s[Mime!FirstRun(s) + 1], s[Mime!FirstRun(s)]) <=> Mime!Descends(s))
<1> DEFINE N == Len(s)
           Goes(i) == Mime!Before(s[i], s[i - 1]) <=> Mime!Descends(s)
           Good(n) == (\A i \in 2 .. n : Goes(i)) /\ (n < N => ~ (Mime!Before(s[n + 1], s[n]) <=> Mime!Descends(s)))
           T == {n \in 1 .. N : n < N => ~ Goes(n + 1)}
<1>1. N \in Nat \ {0} BY SeqFacts, EmptySeq
<1>2. \E n \in 1 .. N : Good(n)
  <2>1. T \in SUBSET Nat /\ N \in T BY <1>1
  <2>2. PICK n \in T : \A m \in T : n <= m BY <2>1, LeastNat
  <2>3. n \in 1 .. N /\ (n < N => ~ Goes(n + 1)) OBVIOUS
  <2>4. ASSUME NEW i \in 2 .. n PROVE Goes(i)
    <3>1. i - 1 \in 1 .. N /\ ~ (n <= i - 1) /\ (i - 1) + 1 = i /\ i \in Int BY <1>1, <2>3
    <3>2. i - 1 \notin T BY <2>2, <3>1
    <3> HIDE DEF Goes
    <3> QED BY <3>1, <3>2
  <2>5. (n + 1) - 1 = n BY <1>1, <2>3
  <2>6. Good(n) BY <2>3, <2>4, <2>5
  <2> QED BY <2>3, <2>6
<1>3. Mime!FirstRun(s) = CHOOSE n \in 1 .. N : Good(n) BY DEF Mime!FirstRun
<1> HIDE DEF Good
<1>4. Mime!FirstRun(s) \in 1 .. N /\ Good(Mime!FirstRun(s)) BY <1>2, <1>3
<1> QED BY <1>1, <1>4 DEF Good

LEMMA StartFacts ==
  ASSUME NEW s \in Seq(Mime!Ids), NEW n \in 1 .. Len(s)
  PROVE  /\ SubSeq(s, 1, n) \in Seq(Mime!Ids) /\ Mime!Reverse(SubSeq(s, 1, n)) \in Seq(Mime!Ids)
         /\ Len(SubSeq(s, 1, n)) = n /\ Len(Mime!Reverse(SubSeq(s, 1, n))) = n
         /\ \A i \in 1 .. n : SubSeq(s, 1, n)[i] = s[i] /\ Mime!Reverse(SubSeq(s, 1, n))[i] = s[n - i + 1]
<1> DEFINE t == SubSeq(s, 1, n)
<1>1. Len(s) \in Nat /\ \A i \in 1 .. Len(s) : s[i] \in Mime!Ids BY SeqFacts
<1>2. t \in Seq(Mime!Ids) /\ Len(t) = n /\ \A i \in 1 .. n : t[i] = s[i]
  <2>1. \A i \in 1 .. n : s[i] \in Mime!Ids /\ 1 + i - 1 = i BY <1>1
  <2>2. n \in Int /\ n - 1 + 1 = n /\ 1 <= n BY <1>1
  <2>3. /\ t \in Seq(Mime!Ids) /\ Len(t) = IF 1 <= n THEN n - 1 + 1 ELSE 0
        /\ \A i \in 1 .. n - 1 + 1 : t[i] = s[1 + i - 1]
    BY <2>1, <2>2, SubSeqProperties
  <2> HIDE DEF t
  <2> QED BY <2>1, <2>2, <2>3
<1> HIDE DEF t
<1>3. Mime!Reverse(t) = [i \in 1 .. n |-> t[n - i + 1]] BY <1>2 DEF Mime!Reverse
<1>4. \A i \in 1 .. n : n - i + 1 \in 1 .. n /\ t[n - i + 1] \in Mime!Ids
  <2>1. \A i \in 1 .. n : n - i + 1 \in 1 .. n BY <1>1
  <2>2. \A i \in 1 .. n : t[i] \in Mime!Ids BY <1>2, SeqFacts
  <2> QED BY <2>1, <2>2
<1>5. n \in Nat BY <1>1
<1> DEFINE u == [i \in 1 .. n |-> t[n - i + 1]]
<1>6. u \in [1 .. n -> Mime!Ids] BY <1>4
<1>7. u \in Seq(Mime!Ids) /\ Len(u) = n
  <2> HIDE DEF u
  <2>1. u \in Seq(Mime!Ids) BY <1>5, <1>6
  <2>2. DOMAIN u = 1 .. n /\ DOMAIN u = 1 .. Len(u) /\ Len(u) \in Nat BY <1>6, <2>1, LenProperties
  <2> QED BY <1>5, <2>1, <2>2
<1>8. \A i \in 1 .. n : u[i] = s[n - i + 1] BY <1>2, <1>4
<1> HIDE DEF u
<1>9. Mime!Reverse(t) = u BY <1>3 DEF u
<1> QED BY <1>2, <1>7, <1>8, <1>9 DEF t


(* The sort: what it starts with, and the insertions.                       *)
Start(s) == IF Mime!Descends(s) THEN Mime!Reverse(SubSeq(s, 1, Mime!FirstRun(s))) ELSE SubSeq(s, 1, Mime!FirstRun(s))
Sorts(s, f) ==
  /\ f[0] = Start(s)
  /\ \A i \in 1 .. Len(s) - Mime!FirstRun(s) : f[i] = Mime!Insert(f[i - 1], s[Mime!FirstRun(s) + i])
  /\ \A i \in 0 .. Len(s) - Mime!FirstRun(s) : f[i] \in Seq(Mime!Ids) /\ Len(f[i]) = Mime!FirstRun(s) + i
  /\ Mime!SortIncubating(s) = f[Len(s) - Mime!FirstRun(s)]

LEMMA SortFacts ==
  ASSUME NEW s \in Seq(Mime!Ids), s # <<>>
  PROVE  \E f : Sorts(s, f)
<1> DEFINE n == Mime!FirstRun(s)
           N == Len(s) - n
           Good(f) == f = [i \in 0 .. N |-> IF i = 0 THEN Start(s) ELSE Mime!Insert(f[i - 1], s[n + i])]
           sorted == CHOOSE f : Good(f)
<1>1. n \in 1 .. Len(s) /\ Len(s) \in Nat \ {0} BY FirstRunFacts
<1>2. Start(s) \in Seq(Mime!Ids) /\ Len(Start(s)) = n BY <1>1, StartFacts DEF Start
<1>3. N \in Nat /\ \A i \in 1 .. N : n + i \in 1 .. Len(s) /\ s[n + i] \in Mime!Ids
  <2>1. N \in Nat /\ \A i \in 1 .. N : n + i \in 1 .. Len(s) BY <1>1
  <2> QED BY <2>1, SeqFacts
<1>4. \A i \in 0 .. N - 1 : i + 1 \in 0 .. N /\ i + 1 \in 1 .. N /\ i + 1 # 0 /\ (i + 1) - 1 = i
  BY <1>3
<1>5. Mime!SortIncubating(s) = sorted[N] BY DEF Mime!SortIncubating, Start, Mime!None
<1> HIDE DEF n
<1>6. \E f : Good(f)
  <2> DEFINE X == Seq(Mime!Ids)
             first == Start(s)
             G == [i \in 1 .. N |-> [x \in X |-> Mime!Insert(x, s[n + i])]]
  <2>1. \A i \in 1 .. N : \A x \in X : Mime!Insert(x, s[n + i]) \in X BY <1>3, InsertSeq
  <2>2. G \in [1 .. N -> [X -> X]] /\ first \in X BY <1>2, <2>1
  <2>3. \A i \in 1 .. N : \A x \in X : G[i][x] = Mime!Insert(x, s[n + i]) OBVIOUS
  <2>4. N \in Nat BY <1>3
  <2> HIDE DEF G, X, first, N
  <2>5. \E f : Iterates(f, N, X, first, G) BY <2>2, <2>4, Recursion
  <2>6. PICK f \in [0 .. N -> X] : f[0] = first /\ \A i \in 1 .. N : f[i] = G[i][f[i - 1]]
    BY <2>5 DEF Iterates
  <2>7. \A i \in 1 .. N : i - 1 \in 0 .. N BY <2>4
  <2>8. \A i \in 1 .. N : f[i] = Mime!Insert(f[i - 1], s[n + i]) BY <2>3, <2>6, <2>7
  <2>9. \A i \in 0 .. N : i = 0 \/ i \in 1 .. N BY <2>4
  <2>10. f = [i \in 0 .. N |-> f[i]] OBVIOUS
  <2>11. Good(f) BY <2>6, <2>8, <2>9, <2>10 DEF first
  <2> QED BY <2>11
<1>7. Good(sorted) BY <1>6
<1> HIDE DEF sorted
<1>8. sorted[0] = Start(s) /\ \A i \in 1 .. N : sorted[i] = Mime!Insert(sorted[i - 1], s[n + i])
  <2>1. 0 \in 0 .. N /\ \A i \in 1 .. N : i \in 0 .. N /\ i # 0 BY <1>3
  <2> QED BY <1>7, <2>1
<1> HIDE DEF Good
<1> DEFINE T == {i \in 0 .. N : sorted[i] \in Seq(Mime!Ids) /\ Len(sorted[i]) = n + i}
<1>9. 0 \in T BY <1>1, <1>2, <1>3, <1>8
<1>10. ASSUME NEW i \in 0 .. N - 1, i \in T PROVE i + 1 \in T
  <2> DEFINE x == sorted[i]
             y == sorted[i + 1]
  <2>1. x \in Seq(Mime!Ids) /\ Len(x) = n + i /\ y = Mime!Insert(x, s[n + (i + 1)])
    BY <1>4, <1>8, <1>10
  <2> HIDE DEF x, y
  <2>2. y \in Seq(Mime!Ids) /\ Len(y) = Len(x) + 1 BY <1>3, <1>4, <2>1, InsertSeq
  <2>3. (n + i) + 1 = n + (i + 1) BY <1>1, <1>3
  <2>4. Len(y) = n + (i + 1) BY <2>1, <2>2, <2>3
  <2> QED BY <1>4, <2>2, <2>4 DEF y
<1>11. \A i \in 0 .. N - 1 : i \in T => i + 1 \in T BY <1>10
<1> HIDE DEF T, N
<1>12. \A i \in 0 .. N : i \in T BY <1>3, <1>9, <1>11, Upwards
<1>13. Sorts(s, sorted) BY <1>5, <1>8, <1>12 DEF Sorts, T, N, n
<1> QED BY <1>13

LEMMA SortTypes ==
  ASSUME NEW s \in Seq(Mime!Ids), s # <<>>
  PROVE  Mime!SortIncubating(s) \in Seq(Mime!Ids) /\ Mime!SortIncubating(s) # <<>>
<1>1. PICK f : Sorts(s, f) BY SortFacts
<1>2. Mime!FirstRun(s) \in 1 .. Len(s) /\ Len(s) \in Nat \ {0} BY FirstRunFacts
<1>3. Len(s) - Mime!FirstRun(s) \in 0 .. Len(s) - Mime!FirstRun(s) BY <1>2
<1>4. Mime!SortIncubating(s) \in Seq(Mime!Ids) /\ Len(Mime!SortIncubating(s)) = Mime!FirstRun(s) + (Len(s) - Mime!FirstRun(s))
  BY <1>1, <1>3 DEF Sorts
<1>5. Len(Mime!SortIncubating(s)) # 0 BY <1>2, <1>4
<1> QED BY <1>4, <1>5

(* An insertion adds one application, and changes no order of the others.   *)
LEMMA InsertKeeps ==
  ASSUME NEW t \in Seq(Mime!Ids), NEW c \in Mime!Ids
  PROVE  /\ \A x : In(Mime!Insert(t, c), x) <=> In(t, x) \/ x = c
         /\ \A x, y : Mime!Earlier(t, x, y) => Mime!Earlier(Mime!Insert(t, c), x, y)
<1>1. PICK k \in 1 .. Len(t) + 1 : Mime!Insert(t, c) = Mime!InsertAt(t, k, c) BY InsertFacts
<1> DEFINE N == Len(t)
           u == Mime!InsertAt(t, k, c)
           Place(l) == IF l < k THEN l ELSE l + 1
<1>2. N \in Nat /\ DOMAIN t = 1 .. N BY SeqFacts
<1>3. /\ u \in Seq(Mime!Ids) /\ Len(u) = N + 1 /\ u[k] = c
      /\ \A l \in 1 .. k - 1 : u[l] = t[l]
      /\ \A l \in k .. N : u[l + 1] = t[l]
  BY InsertAtFacts
<1> HIDE DEF u
<1>4. DOMAIN u = 1 .. N + 1 BY <1>3, SeqFacts
<1>5. \A l \in 1 .. N : Place(l) \in 1 .. N + 1 /\ u[Place(l)] = t[l]
  <2> TAKE l \in 1 .. N
  <2>1. CASE l < k
    <3>1. l \in 1 .. k - 1 /\ l \in 1 .. N + 1 BY <1>2, <2>1
    <3> QED BY <1>3, <2>1, <3>1
  <2>2. CASE ~ (l < k)
    <3>1. l \in k .. N /\ l + 1 \in 1 .. N + 1 BY <1>2, <2>2
    <3> QED BY <1>3, <2>2, <3>1
  <2> QED BY <2>1, <2>2
<1>6. \A l, m \in 1 .. N : l < m => Place(l) < Place(m) BY <1>2
<1>7. \A l \in 1 .. N + 1 : l = k \/ \E m \in 1 .. N : l = Place(m)
  <2> TAKE l \in 1 .. N + 1
  <2>1. CASE l < k
    <3>1. l \in 1 .. N /\ Place(l) = l BY <1>2, <2>1
    <3> QED BY <3>1
  <2>2. CASE l > k
    <3>1. l - 1 \in 1 .. N /\ ~ (l - 1 < k) /\ (l - 1) + 1 = l BY <1>2, <2>2
    <3>2. Place(l - 1) = l BY <3>1
    <3> QED BY <3>1, <3>2
  <2> QED BY <1>2, <2>1, <2>2
<1> HIDE DEF Place
<1>8. \A x : In(u, x) <=> In(t, x) \/ x = c
  <2>1. k \in DOMAIN u BY <1>4
  <2>2. ASSUME NEW x, In(u, x) PROVE In(t, x) \/ x = c
    <3>1. PICK l \in 1 .. N + 1 : u[l] = x BY <1>4, <2>2 DEF In
    <3>2. CASE l = k BY <1>3, <3>1, <3>2
    <3>3. CASE l # k
      <4>1. PICK m \in 1 .. N : l = Place(m) BY <1>7, <3>3
      <4> QED BY <1>2, <1>5, <3>1, <4>1 DEF In
    <3> QED BY <3>2, <3>3
  <2>3. ASSUME NEW x, In(t, x) PROVE In(u, x)
    <3>1. PICK m \in 1 .. N : t[m] = x BY <1>2, <2>3 DEF In
    <3>2. Place(m) \in DOMAIN u /\ u[Place(m)] = x BY <1>4, <1>5, <3>1
    <3> QED BY <3>2 DEF In
  <2>4. In(u, c) BY <1>3, <2>1 DEF In
  <2> QED BY <2>2, <2>3, <2>4
<1>9. \A x, y : Mime!Earlier(t, x, y) => Mime!Earlier(u, x, y)
  BY <1>2, <1>4, <1>5, <1>6 DEF Mime!Earlier
<1> QED BY <1>1, <1>8, <1>9 DEF u

(* The rounds of the sort, counted from the end of the first run.           *)
LEMMA RoundNumbers ==
  ASSUME NEW L \in Nat, NEW n \in 1 .. L, NEW k \in 0 .. L - n - 1
  PROVE  /\ k + 1 \in 0 .. L - n /\ k + 1 \in 1 .. L - n /\ (k + 1) - 1 = k /\ k \in 0 .. L - n
         /\ k \in Nat /\ n + (k + 1) = (n + k) + 1 /\ n + k \in Nat \ {0} /\ (n + k) + 1 \in 1 .. L
  OBVIOUS

(* An incubating application and its core application, which does not       *)
(* replace another: their order is kept if it is right, and turned if one   *)
(* follows the other, whatever other pairs there are.                       *)
LEMMA SortPair ==
  ASSUME NEW s \in Seq(Mime!Ids), NEW i \in 1 .. Len(s), NEW j \in 1 .. Len(s), i # j, i < j \/ i = j + 1,
         \A k, l \in 1 .. Len(s) : s[k] = s[l] => k = l,
         \A y \in Mime!Ids : Mime!Before(s[i], y) <=> y = s[j],
         \A y \in Mime!Ids : ~ Mime!Before(s[j], y)
  PROVE  Mime!Earlier(Mime!SortIncubating(s), s[i], s[j])
<1> DEFINE n == Mime!FirstRun(s)
           N == Len(s) - n
<1>1. s # <<>> BY EmptySeq
<1>2. /\ n \in 1 .. Len(s) /\ Len(s) \in Nat \ {0}
      /\ \A k \in 2 .. n : Mime!Before(s[k], s[k - 1]) <=> Mime!Descends(s)
      /\ n < Len(s) => ~ (Mime!Before(s[n + 1], s[n]) <=> Mime!Descends(s))
  BY <1>1, FirstRunFacts
<1>3. N \in Nat /\ n \in Nat \ {0} /\ i \in Nat \ {0} /\ j \in Nat \ {0} BY <1>2
<1>r. \A k \in 0 .. N - 1 :
        /\ k + 1 \in 0 .. N /\ k + 1 \in 1 .. N /\ (k + 1) - 1 = k /\ k \in 0 .. N /\ k \in Nat
        /\ n + (k + 1) = (n + k) + 1 /\ n + k \in Nat \ {0} /\ (n + k) + 1 \in 1 .. Len(s)
  <2> HIDE DEF n
  <2> QED BY <1>2, RoundNumbers
<1>4. \A k \in 1 .. Len(s) : s[k] \in Mime!Ids BY SeqFacts
<1>5. PICK f : Sorts(s, f) BY <1>1, SortFacts
<1>6. /\ f[0] = Start(s) /\ \A k \in 1 .. N : f[k] = Mime!Insert(f[k - 1], s[n + k])
      /\ \A k \in 0 .. N : f[k] \in Seq(Mime!Ids) /\ Len(f[k]) = n + k
      /\ Mime!SortIncubating(s) = f[N]
  BY <1>5 DEF Sorts
<1> DEFINE At(k) == IF Mime!Descends(s) THEN n - k + 1 ELSE k
<1>7. \A k \in 1 .. n : f[0][k] = s[At(k)]
  <2>1. \A k \in 1 .. n : SubSeq(s, 1, n)[k] = s[k] /\ Mime!Reverse(SubSeq(s, 1, n))[k] = s[n - k + 1]
    BY <1>2, StartFacts
  <2>2. f[0] = IF Mime!Descends(s) THEN Mime!Reverse(SubSeq(s, 1, n)) ELSE SubSeq(s, 1, n)
    BY <1>6 DEF Start
  <2> HIDE DEF n
  <2>3. CASE Mime!Descends(s) BY <2>1, <2>2, <2>3
  <2>4. CASE ~ Mime!Descends(s) BY <2>1, <2>2, <2>4
  <2> QED BY <2>3, <2>4
<1>8. /\ \A k \in 1 .. n : At(k) \in 1 .. n /\ At(At(k)) = k
      /\ \A k \in 1 .. n : k \in 1 .. Len(s)
  BY <1>2, <1>3
<1>9. Mime!Descends(s) => ~ (j \in 2 .. n) /\ (j = 1 => n # 1)
  <2> SUFFICES ASSUME Mime!Descends(s) PROVE ~ (j \in 2 .. n) /\ (j = 1 => n # 1) OBVIOUS
  <2>1. ~ (j \in 2 .. n)
    <3> SUFFICES ASSUME j \in 2 .. n PROVE FALSE OBVIOUS
    <3>1. j - 1 \in 1 .. Len(s) BY <1>2, <1>3
    <3> QED BY <1>2, <1>4, <3>1
  <2>2. n # 1
    <3> SUFFICES ASSUME n = 1 PROVE FALSE OBVIOUS
    <3>1. Len(s) > 1 /\ Mime!Before(s[2], s[1]) BY DEF Mime!Descends
    <3>2. n < Len(s) /\ n + 1 = 2 BY <3>1
    <3> QED BY <1>2, <3>1, <3>2
  <2> QED BY <2>1, <2>2
<1>10. i = j + 1 /\ i <= n => Mime!Descends(s)
  <2> SUFFICES ASSUME i = j + 1, i <= n PROVE Mime!Descends(s) OBVIOUS
  <2>1. i \in 2 .. n /\ i - 1 = j BY <1>2, <1>3
  <2> QED BY <1>2, <1>4, <2>1
<1>11. i = j + 1 /\ Mime!Descends(s) => n # j BY <1>3, <1>9
<1> HIDE DEF n
<1>12. \A k \in 0 .. N : k \in Nat /\ DOMAIN f[k] = 1 .. n + k BY <1>3, <1>6, SeqFacts
<1> DEFINE Both(k) == n + k >= i /\ n + k >= j
           T == {k \in 0 .. N :
                   /\ n + k >= i => In(f[k], s[i])
                   /\ n + k < j => ~ In(f[k], s[j])
                   /\ n + k = j => \A l \in 1 .. n + k : f[k][l] = s[j] <=> l = n + k
                   /\ Both(k) => Mime!Earlier(f[k], s[i], s[j])}
<1>13. 0 \in T
  <2>1. 0 \in 0 .. N /\ n + 0 = n /\ DOMAIN f[0] = 1 .. n BY <1>3, <1>12
  <2>2. n >= i => In(f[0], s[i])
    <3> SUFFICES ASSUME n >= i PROVE In(f[0], s[i]) OBVIOUS
    <3>1. i \in 1 .. n BY <1>3
    <3>2. At(i) \in 1 .. n /\ At(At(i)) = i BY <1>8, <3>1
    <3> HIDE DEF At
    <3>3. f[0][At(i)] = s[i] BY <1>7, <3>2
    <3> QED BY <2>1, <3>2, <3>3 DEF In
  <2>3. n < j => ~ In(f[0], s[j])
    <3> SUFFICES ASSUME n < j, NEW l \in 1 .. n, f[0][l] = s[j] PROVE FALSE BY <2>1 DEF In
    <3>1. At(l) \in 1 .. n /\ At(l) \in 1 .. Len(s) /\ s[At(l)] = s[j] BY <1>7, <1>8
    <3> HIDE DEF At
    <3>2. At(l) = j BY <3>1
    <3> QED BY <1>3, <3>1, <3>2
  <2>4. n = j => \A l \in 1 .. n : f[0][l] = s[j] <=> l = n
    <3> SUFFICES ASSUME n = j, NEW l \in 1 .. n PROVE f[0][l] = s[j] <=> l = n OBVIOUS
    <3>1. j = 1 \/ j \in 2 .. n BY <1>3
    <3>2. ~ Mime!Descends(s) BY <1>9, <3>1
    <3>3. f[0][l] = s[l] /\ l \in 1 .. Len(s) BY <1>7, <1>8, <3>2
    <3> QED BY <3>3
  <2>5. n >= i /\ n >= j => Mime!Earlier(f[0], s[i], s[j])
    <3> SUFFICES ASSUME n >= i, n >= j PROVE Mime!Earlier(f[0], s[i], s[j]) OBVIOUS
    <3>1. i \in 1 .. n /\ j \in 1 .. n BY <1>3
    <3>2. At(i) \in 1 .. n /\ f[0][At(i)] = s[i] /\ At(j) \in 1 .. n /\ f[0][At(j)] = s[j]
      <4>1. \A k \in 1 .. n : At(k) \in 1 .. n /\ At(At(k)) = k BY <1>8
      <4> HIDE DEF At
      <4> QED BY <1>7, <3>1, <4>1
    <3>3. At(i) < At(j)
      <4>1. CASE i < j
        <5>1. ~ Mime!Descends(s) BY <1>3, <1>9, <3>1, <4>1
        <5> QED BY <4>1, <5>1
      <4>2. CASE i = j + 1 BY <1>3, <1>10, <3>1, <4>2
      <4> QED BY <4>1, <4>2
    <3> HIDE DEF At
    <3> QED BY <2>1, <3>2, <3>3 DEF Mime!Earlier
  <2> HIDE DEF At
  <2> QED BY <2>1, <2>2, <2>3, <2>4, <2>5
<1> HIDE DEF At
<1>14. ASSUME NEW k \in 0 .. N - 1, k \in T PROVE k + 1 \in T
  <2> DEFINE t == f[k]
             u == f[k + 1]
             M == n + k
             c == s[M + 1]
  <2>1. /\ k + 1 \in 0 .. N /\ k + 1 \in 1 .. N /\ (k + 1) - 1 = k /\ k \in 0 .. N /\ k \in Nat
        /\ n + (k + 1) = M + 1 /\ M \in Nat \ {0} /\ M + 1 \in 1 .. Len(s)
    BY <1>r
  <2>2. /\ t \in Seq(Mime!Ids) /\ Len(t) = M /\ DOMAIN t = 1 .. M
        /\ u \in Seq(Mime!Ids) /\ u = Mime!Insert(t, c) /\ DOMAIN u = 1 .. M + 1
    BY <1>6, <1>12, <2>1
  <2>3. c \in Mime!Ids /\ (c = s[i] <=> M + 1 = i) /\ (c = s[j] <=> M + 1 = j) BY <1>4, <2>1
  <2>4. /\ M >= i => In(t, s[i])
        /\ M < j => ~ In(t, s[j])
        /\ M = j => \A l \in 1 .. M : t[l] = s[j] <=> l = M
        /\ M >= i /\ M >= j => Mime!Earlier(t, s[i], s[j])
    BY <1>14
  <2> HIDE DEF t, u, M
  <2>5. (\A x : In(u, x) <=> In(t, x) \/ x = c) /\ \A x, y : Mime!Earlier(t, x, y) => Mime!Earlier(u, x, y)
    BY <2>2, <2>3, InsertKeeps
  <2>6. M + 1 >= i => In(u, s[i])
    <3>1. M + 1 >= i => M >= i \/ M + 1 = i BY <1>3, <2>1
    <3> HIDE DEF c
    <3> QED BY <2>3, <2>4, <2>5, <3>1
  <2>7. M + 1 < j => ~ In(u, s[j])
    <3>1. M + 1 < j => M < j /\ M + 1 # j BY <1>3, <2>1
    <3> HIDE DEF c
    <3> QED BY <2>3, <2>4, <2>5, <3>1
  <2>8. M + 1 = j => /\ \A l \in 1 .. M : u[l] = t[l]
                     /\ \A l \in 1 .. M + 1 : u[l] = s[j] <=> l = M + 1
    <3> SUFFICES ASSUME M + 1 = j
                 PROVE  /\ \A l \in 1 .. M : u[l] = t[l]
                        /\ \A l \in 1 .. M + 1 : u[l] = s[j] <=> l = M + 1
      OBVIOUS
    <3>1. c = s[j] /\ ~ In(t, s[j]) BY <1>3, <2>1, <2>3, <2>4
    <3> HIDE DEF c
    <3>2. Splits(t, c, M + 1)
      <4>1. \A l \in 1 .. M : t[l] \in Mime!Ids /\ ~ (l >= M + 1) BY <2>1, <2>2, SeqFacts
      <4> QED BY <2>2, <3>1, <4>1 DEF Splits
    <3>3. \A l \in 1 .. M : u[l] = t[l] BY <2>2, <2>3, <3>2, InsertSeq
    <3>4. \A l \in 1 .. M : u[l] # s[j] BY <2>2, <3>1, <3>3 DEF In
    <3>5. \A l \in 1 .. M + 1 : l = M + 1 \/ l \in 1 .. M BY <2>1
    <3>6. In(u, s[j]) BY <2>5, <3>1
    <3> QED BY <2>1, <2>2, <3>3, <3>4, <3>5, <3>6 DEF In
  <2>9. M + 1 >= i /\ M + 1 >= j => Mime!Earlier(u, s[i], s[j])
    <3> SUFFICES ASSUME M + 1 >= i, M + 1 >= j PROVE Mime!Earlier(u, s[i], s[j]) OBVIOUS
    <3>1. CASE M >= i /\ M >= j BY <2>4, <2>5, <3>1
    <3>2. CASE M + 1 = j
      <4>1. M >= i BY <1>3, <2>1, <3>2
      <4>2. PICK l \in 1 .. M : t[l] = s[i] BY <2>2, <2>4, <4>1 DEF In
      <4>3. l \in 1 .. M + 1 /\ M + 1 \in 1 .. M + 1 /\ l < M + 1 BY <2>1
      <4>4. u[l] = s[i] /\ u[M + 1] = s[j] BY <2>8, <3>2, <4>2, <4>3
      <4> QED BY <2>2, <4>3, <4>4 DEF Mime!Earlier
    <3>3. CASE M + 1 = i /\ M + 1 # j
      <4>1. i = j + 1 /\ M = j BY <1>3, <2>1, <3>3
      <4>2. c = s[i] /\ \A l \in 1 .. M : t[l] = s[j] <=> l = M BY <2>3, <2>4, <3>3, <4>1
      <4> HIDE DEF c
      <4>3. Splits(t, c, M)
        <5>1. \A l \in 1 .. M : t[l] \in Mime!Ids /\ (l = M <=> l >= M) BY <2>1, <2>2, SeqFacts
        <5> QED BY <2>2, <4>2, <5>1 DEF Splits
      <4>4. u[M] = c /\ u[M + 1] = t[M] BY <2>1, <2>2, <2>3, <4>3, InsertSeq
      <4>5. M \in 1 .. M /\ M \in 1 .. M + 1 /\ M + 1 \in 1 .. M + 1 /\ M < M + 1 BY <2>1
      <4>6. t[M] = s[j] BY <4>2, <4>5
      <4> QED BY <2>2, <4>2, <4>4, <4>5, <4>6 DEF Mime!Earlier
    <3> QED BY <1>3, <2>1, <3>1, <3>2, <3>3
  <2> QED BY <2>1, <2>6, <2>7, <2>8, <2>9 DEF u
<1>15. \A k \in 0 .. N - 1 : k \in T => k + 1 \in T BY <1>14
<1>16. N \in T
  <2> HIDE DEF T
  <2>1. \A k \in 0 .. N : k \in T BY <1>3, <1>13, <1>15, Upwards
  <2>2. N \in 0 .. N BY <1>3
  <2> QED BY <2>1, <2>2
<1>17. n + N >= i /\ n + N >= j BY <1>2, <1>3
<1> QED BY <1>6, <1>16, <1>17


(* The alphabet: what was in the list, in the order of Apps.                *)
Ordered(s, t, n) ==
  /\ t \in Seq(Mime!Ids)
  /\ \A i \in 1 .. Len(t) : \E u \in 1 .. n : Apps[u] = t[i] /\ In(s, t[i])
  /\ \A u \in 1 .. n : In(s, Apps[u]) => \E i \in 1 .. Len(t) : t[i] = Apps[u]
  /\ \A i, j \in 1 .. Len(t) : i < j => \E u, v \in 1 .. n : u < v /\ Apps[u] = t[i] /\ Apps[v] = t[j]

LEMMA OrderedMore ==
  ASSUME NEW s, NEW n \in 0 .. Len(Apps) - 1, NEW t, Ordered(s, t, n)
  PROVE  Ordered(s, IF In(s, Apps[n + 1]) THEN Append(t, Apps[n + 1]) ELSE t, n + 1)
<1> DEFINE a == Apps[n + 1]
<1>1. Apps \in Seq(Mime!Ids) /\ Len(Apps) \in Nat /\ n + 1 \in 1 .. Len(Apps) /\ n \in Nat /\ n + 1 \in 1 .. n + 1 /\ n < n + 1
  <2>1. Apps \in Seq(Mime!Ids) /\ Len(Apps) \in Nat
    BY MimeInputs, LenProperties DEF Mime!AppsAssumption
  <2> QED BY <2>1
<1>2. a \in Mime!Ids BY <1>1, SeqFacts
<1>3. /\ t \in Seq(Mime!Ids) /\ Len(t) \in Nat /\ DOMAIN t = 1 .. Len(t)
      /\ \A i \in 1 .. Len(t) : \E u \in 1 .. n : Apps[u] = t[i] /\ In(s, t[i])
      /\ \A u \in 1 .. n : In(s, Apps[u]) => \E i \in 1 .. Len(t) : t[i] = Apps[u]
      /\ \A i, j \in 1 .. Len(t) : i < j => \E u, v \in 1 .. n : u < v /\ Apps[u] = t[i] /\ Apps[v] = t[j]
  BY SeqFacts DEF Ordered
<1>4. \A u \in 1 .. n : u \in 1 .. n + 1 /\ u < n + 1 BY <1>1
<1>5. \A u \in 1 .. n + 1 : u = n + 1 \/ u \in 1 .. n BY <1>1
<1> HIDE DEF a
<1>6. CASE ~ In(s, a)
  <2>1. ~ In(s, Apps[n + 1]) BY <1>6 DEF a
  <2>2. \A u \in 1 .. n + 1 : In(s, Apps[u]) => \E i \in 1 .. Len(t) : t[i] = Apps[u]
    BY <1>3, <1>5, <2>1
  <2>3. \A i \in 1 .. Len(t) : \E u \in 1 .. n + 1 : Apps[u] = t[i] /\ In(s, t[i]) BY <1>3, <1>4
  <2>4. ASSUME NEW i \in 1 .. Len(t), NEW j \in 1 .. Len(t), i < j
        PROVE  \E u, v \in 1 .. n + 1 : u < v /\ Apps[u] = t[i] /\ Apps[v] = t[j]
    <3>1. PICK u, v \in 1 .. n : u < v /\ Apps[u] = t[i] /\ Apps[v] = t[j] BY <1>3, <2>4
    <3>2. u \in 1 .. n + 1 /\ v \in 1 .. n + 1 BY <1>4
    <3> QED BY <3>1, <3>2
  <2> QED BY <1>3, <2>1, <2>2, <2>3, <2>4 DEF Ordered
<1>7. CASE In(s, a)
  <2> DEFINE w == Append(t, a)
             L == Len(t)
  <2>1. w \in Seq(Mime!Ids) /\ Len(w) = L + 1 /\ (\A i \in 1 .. L : w[i] = t[i]) /\ w[L + 1] = a
    BY <1>2, <1>3, AppendProperties
  <2> HIDE DEF w
  <2>2. /\ \A i \in 1 .. L + 1 : i = L + 1 \/ i \in 1 .. L
        /\ \A i \in 1 .. L : i \in 1 .. L + 1
        /\ L + 1 \in 1 .. L + 1 /\ \A j \in 1 .. L + 1 : ~ (L + 1 < j)
    BY <1>3
  <2>3. Apps[n + 1] = a BY DEF a
  <2> HIDE DEF L
  <2>4. ASSUME NEW i \in 1 .. L + 1 PROVE \E u \in 1 .. n + 1 : Apps[u] = w[i] /\ In(s, w[i])
    <3>1. CASE i = L + 1 BY <1>1, <1>7, <2>1, <2>3, <3>1
    <3>2. CASE i # L + 1 BY <1>3, <1>4, <2>1, <2>2, <3>2 DEF L
    <3> QED BY <3>1, <3>2
  <2>5. ASSUME NEW u \in 1 .. n + 1, In(s, Apps[u]) PROVE \E i \in 1 .. L + 1 : w[i] = Apps[u]
    <3>1. CASE u = n + 1 BY <2>1, <2>2, <2>3, <3>1
    <3>2. CASE u # n + 1
      <4>1. PICK i \in 1 .. L : t[i] = Apps[u] BY <1>3, <1>5, <2>5, <3>2 DEF L
      <4> QED BY <2>1, <2>2, <4>1
    <3> QED BY <3>1, <3>2
  <2>6. ASSUME NEW i \in 1 .. L + 1, NEW j \in 1 .. L + 1, i < j
        PROVE  \E u, v \in 1 .. n + 1 : u < v /\ Apps[u] = w[i] /\ Apps[v] = w[j]
    <3>1. i \in 1 .. L /\ w[i] = t[i] BY <2>1, <2>2, <2>6
    <3>2. CASE j = L + 1
      <4>1. PICK u \in 1 .. n : Apps[u] = t[i] BY <1>3, <3>1 DEF L
      <4> QED BY <1>1, <1>4, <2>1, <2>3, <3>1, <3>2, <4>1
    <3>3. CASE j # L + 1
      <4>1. j \in 1 .. L /\ w[j] = t[j] BY <2>1, <2>2, <3>3
      <4>2. \E u, v \in 1 .. n : u < v /\ Apps[u] = t[i] /\ Apps[v] = t[j]
        BY <1>3, <2>6, <3>1, <4>1 DEF L
      <4> QED BY <1>4, <3>1, <4>1, <4>2
    <3> QED BY <3>2, <3>3
  <2>7. Ordered(s, w, n + 1) BY <2>1, <2>4, <2>5, <2>6 DEF Ordered
  <2> QED BY <1>7, <2>7 DEF w, a
<1> QED BY <1>6, <1>7 DEF a

LEMMA AlphabeticalFacts ==
  ASSUME NEW s
  PROVE  Ordered(s, Mime!Alphabetical(s), Len(Apps))
<1> DEFINE N == Len(Apps)
           More(n, t) == IF In(s, Apps[n]) THEN Append(t, Apps[n]) ELSE t
           Good(f) == f = [n \in 0 .. N |-> IF n = 0 THEN Mime!None ELSE More(n, f[n - 1])]
           kept == CHOOSE f : Good(f)
<1>1. N \in Nat /\ \A n \in 1 .. N : Apps[n] \in Mime!Ids
  BY MimeInputs, SeqFacts DEF Mime!AppsAssumption
<1>2. Mime!Alphabetical(s) = kept[N] BY DEF Mime!Alphabetical, In
<1>3. \E f : Good(f)
  <2> DEFINE X == Seq(Mime!Ids)
             G == [n \in 1 .. N |-> [x \in X |-> More(n, x)]]
  <2>1. \A n \in 1 .. N : \A x \in X : More(n, x) \in X BY <1>1, AppendProperties
  <2>2. G \in [1 .. N -> [X -> X]] BY <2>1
  <2>3. \A n \in 1 .. N : \A x \in X : G[n][x] = More(n, x) OBVIOUS
  <2>4. N \in Nat /\ Mime!None \in X BY <1>1, EmptySeq DEF Mime!None
  <2> HIDE DEF G, X, N, More
  <2>5. \E f : Iterates(f, N, X, Mime!None, G) BY <2>2, <2>4, Recursion
  <2>6. PICK f \in [0 .. N -> X] : f[0] = Mime!None /\ \A n \in 1 .. N : f[n] = G[n][f[n - 1]]
    BY <2>5 DEF Iterates
  <2>7. \A n \in 1 .. N : n - 1 \in 0 .. N BY <2>4
  <2>8. \A n \in 1 .. N : f[n] = More(n, f[n - 1]) BY <2>3, <2>6, <2>7
  <2>9. \A n \in 0 .. N : n = 0 \/ n \in 1 .. N BY <2>4
  <2>10. f = [n \in 0 .. N |-> f[n]] OBVIOUS
  <2>11. Good(f) BY <2>6, <2>8, <2>9, <2>10
  <2> QED BY <2>11
<1>4. Good(kept) BY <1>3
<1> HIDE DEF kept
<1>5. kept[0] = Mime!None /\ \A n \in 0 .. N - 1 : kept[n + 1] = More(n + 1, kept[n])
  <2>1. 0 \in 0 .. N /\ \A n \in 0 .. N - 1 : n + 1 \in 0 .. N /\ n + 1 # 0 /\ (n + 1) - 1 = n
    BY <1>1
  <2> HIDE DEF More
  <2> QED BY <1>4, <2>1
<1> HIDE DEF Good
<1> DEFINE T == {n \in 0 .. N : Ordered(s, kept[n], n)}
<1>6. 0 \in T
  <2>1. Mime!None \in Seq(Mime!Ids) /\ Len(Mime!None) = 0 BY EmptySeq DEF Mime!None
  <2>2. Ordered(s, Mime!None, 0) BY <2>1 DEF Ordered
  <2> QED BY <1>1, <1>5, <2>2
<1>7. ASSUME NEW n \in 0 .. N - 1, n \in T PROVE n + 1 \in T
  <2>1. Ordered(s, More(n + 1, kept[n]), n + 1) BY <1>7, OrderedMore
  <2>2. n + 1 \in 0 .. N BY <1>1
  <2> HIDE DEF More
  <2> QED BY <1>5, <2>1, <2>2
<1>8. \A n \in 0 .. N - 1 : n \in T => n + 1 \in T BY <1>7
<1>9. N \in T
  <2> HIDE DEF T
  <2>1. \A n \in 0 .. N : n \in T BY <1>1, <1>6, <1>8, Upwards
  <2>2. N \in 0 .. N BY <1>1
  <2> QED BY <2>1, <2>2
<1> QED BY <1>2, <1>9


------------------------------------------------------------------------------
LEMMA MadeFirst ==
  ASSUME system \in Systems, quirks \in Quirks, NEW l \in Seq(Mime!Ids), NEW t \in Types,
         \A x : In(l, x) <=> x \in Mime!Candidates(t),
         NEW a \in Mime!Candidates(t) \cap DOMAIN quirks.incubating, NEW b \in Mime!Candidates(t),
         b = quirks.incubating[a], a # b, b \notin DOMAIN quirks.incubating,
         ~ \E c \in Mime!Candidates(t) : Mime!Earlier(Apps, b, c) /\ Mime!Earlier(Apps, c, a)
  PROVE  Mime!Earlier(Mime!SortIncubating(Mime!Alphabetical(l)), a, b)
<1> DEFINE s == Mime!Alphabetical(l)
           M == Len(Apps)
<1>1. Apps \in Seq(Mime!Ids) /\ M \in Nat /\ DOMAIN Apps = 1 .. M /\ \A u, v \in 1 .. M : Apps[u] = Apps[v] => u = v
  BY MimeInputs, SeqFacts DEF Mime!AppsAssumption
<1>2. Ordered(l, s, M) BY AlphabeticalFacts
<1> HIDE DEF s
<1>3. /\ s \in Seq(Mime!Ids)
      /\ \A i \in 1 .. Len(s) : s[i] \in Mime!Candidates(t)
      /\ \A u \in 1 .. M : Apps[u] \in Mime!Candidates(t) => \E i \in 1 .. Len(s) : s[i] = Apps[u]
      /\ \A i, j \in 1 .. Len(s) : i < j => \E u, v \in 1 .. M : u < v /\ Apps[u] = s[i] /\ Apps[v] = s[j]
  BY <1>2 DEF Ordered
<1>4. Len(s) \in Nat /\ \A i \in 1 .. Len(s) : s[i] \in Mime!Ids BY <1>3, SeqFacts
<1>5. ASSUME NEW i \in 1 .. Len(s), NEW j \in 1 .. Len(s), i < j PROVE Mime!Earlier(Apps, s[i], s[j])
  <2>1. PICK u, v \in 1 .. M : u < v /\ Apps[u] = s[i] /\ Apps[v] = s[j] BY <1>3, <1>5
  <2> QED BY <1>1, <2>1 DEF Mime!Earlier
<1>6. \A i, j \in 1 .. Len(s) : s[i] = s[j] => i = j
  <2>1. ASSUME NEW i \in 1 .. Len(s), NEW j \in 1 .. Len(s), i < j PROVE s[i] # s[j]
    <3>1. PICK u, v \in 1 .. M : u < v /\ Apps[u] = s[i] /\ Apps[v] = s[j] BY <1>3, <2>1
    <3>2. u # v BY <1>1, <3>1
    <3> QED BY <1>1, <3>1, <3>2
  <2>2. \A i, j \in 1 .. Len(s) : i = j \/ i < j \/ j < i BY <1>4
  <2> QED BY <2>1, <2>2
<1>7. a \in Mime!Ids /\ b \in Mime!Ids BY MimeInputs DEF Mime!InputsAssumption, Mime!Candidates
<1>8. \A x \in Mime!Ids : \E u \in 1 .. M : Apps[u] = x BY <1>1 DEF Mime!Ids
<1>c. ASSUME NEW x \in Mime!Candidates(t), x \in Mime!Ids PROVE \E k \in 1 .. Len(s) : s[k] = x
  <2>1. PICK u \in 1 .. M : Apps[u] = x BY <1>8, <1>c
  <2> QED BY <1>3, <1>c, <2>1
<1>9. PICK i \in 1 .. Len(s) : s[i] = a BY <1>7, <1>c
<1>10. PICK j \in 1 .. Len(s) : s[j] = b BY <1>7, <1>c
<1>11. i < j \/ i = j + 1
  <2> SUFFICES ASSUME j + 1 < i PROVE FALSE BY <1>4, <1>9, <1>10
  <2>1. j + 1 \in 1 .. Len(s) /\ j < j + 1 BY <1>4
  <2>2. Mime!Earlier(Apps, s[j], s[j + 1]) /\ Mime!Earlier(Apps, s[j + 1], s[i]) BY <1>5, <2>1
  <2>3. s[j + 1] \in Mime!Candidates(t) BY <1>3, <2>1
  <2> QED BY <1>9, <1>10, <2>2, <2>3
<1>12. \A y \in Mime!Ids : (Mime!Before(s[i], y) <=> y = s[j]) /\ ~ Mime!Before(s[j], y)
  BY <1>9, <1>10 DEF Mime!Before
<1>13. i # j BY <1>9, <1>10
<1>14. Mime!Earlier(Mime!SortIncubating(s), s[i], s[j]) BY <1>3, <1>6, <1>11, <1>12, <1>13, SortPair
<1> QED BY <1>9, <1>10, <1>14 DEF s

LEMMA MimeInit == Mime!Init => MimeInv
<1> SUFFICES ASSUME Mime!Init PROVE MimeInv OBVIOUS
<1>1. /\ system \in Systems /\ quirks \in Quirks /\ DOMAIN types = {} /\ was = types
      /\ unread = DOMAIN system /\ step = "scan"
  BY DEF Mime!Init
<1>2. DOMAIN system \subseteq Mime!Ids BY <1>1, MimeInputs DEF Mime!InputsAssumption
<1>3. \A t : Scanned(t) = {} BY <1>1 DEF Scanned, Mime!Candidates
<1> QED BY <1>1, <1>2, <1>3 DEF MimeInv, Mime!TypeOK, Listed, Mime!AreSorted

LEMMA ScanStep ==
  ASSUME MimeInv, NEW a \in Mime!Ids, Mime!Scan(a)
  PROVE  MimeInv'
<1>1. /\ step = "scan" /\ a \in unread /\ unread' = unread \ {a} /\ UNCHANGED <<system, quirks, was, step>>
      /\ unread \subseteq DOMAIN system /\ DOMAIN was = {} /\ Listed /\ Mime!TypeOK
  BY DEF Mime!Scan, MimeInv
<1>2. system[a] \subseteq Types /\ DOMAIN types \subseteq Types /\ DOMAIN system \subseteq Mime!Ids
  BY <1>1, MimeInputs DEF Mime!TypeOK, Mime!InputsAssumption
<1>3. \A t : Mime!Candidates(t)' = Mime!Candidates(t) BY <1>1 DEF Mime!Candidates
<1>4. CASE a \in quirks.skip_apps
  <2>1. types' = types BY <1>4 DEF Mime!Scan
  <2>2. \A t : Scanned(t)' = Scanned(t) BY <1>1, <1>3, <1>4 DEF Scanned, Mime!Candidates
  <2>3. Listed' BY <1>1, <2>1, <2>2 DEF Listed
  <2>4. Mime!TypeOK' BY <1>1, <2>1 DEF Mime!TypeOK
  <2> QED BY <1>1, <2>3, <2>4 DEF MimeInv, Mime!AreSorted
<1>5. CASE a \notin quirks.skip_apps
  <2>1. types' = [t \in DOMAIN types \cup system[a] |->
                    IF t \notin DOMAIN types THEN <<a>>
                    ELSE IF t \in system[a] THEN Append(types[t], a) ELSE types[t]]
    BY <1>5 DEF Mime!Scan
  <2>2. \A t : Scanned(t)' = IF t \in system[a] THEN Scanned(t) \cup {a} ELSE Scanned(t)
    BY <1>1, <1>3, <1>5 DEF Scanned, Mime!Candidates
  <2>3. ASSUME NEW t \in DOMAIN types'
        PROVE  types'[t] \in Seq(Mime!Ids) /\ types'[t] # <<>> /\ \A x : In(types'[t], x) <=> x \in Scanned(t)'
    <3>1. t \in Types BY <1>2, <2>1
    <3>2. CASE t \notin DOMAIN types
      <4>1. types'[t] = <<a>> /\ t \in system[a] BY <2>1, <3>2
      <4>2. Scanned(t) = {} BY <1>1, <3>1, <3>2 DEF Listed
      <4>3. \A x : In(<<a>>, x) <=> x = a BY DEF In
      <4> QED BY <2>2, <4>1, <4>2, <4>3
    <3>3. CASE t \in DOMAIN types /\ t \notin system[a]
      <4>1. types'[t] = types[t] BY <2>1, <3>3
      <4> QED BY <1>1, <2>2, <3>1, <3>3, <4>1 DEF Listed, Mime!TypeOK
    <3>4. CASE t \in DOMAIN types /\ t \in system[a]
      <4> DEFINE s == types[t]
                 w == Append(s, a)
                 L == Len(s)
      <4>1. types'[t] = w BY <2>1, <3>4
      <4>2. s \in Seq(Mime!Ids) /\ \A x : In(s, x) <=> x \in Scanned(t)
        BY <1>1, <3>1, <3>4 DEF Mime!TypeOK, Listed
      <4> HIDE DEF s
      <4>3. L \in Nat /\ DOMAIN s = 1 .. L BY <4>2, SeqFacts
      <4>4. w \in Seq(Mime!Ids) /\ w # <<>> /\ Len(w) = L + 1 /\ (\A i \in 1 .. L : w[i] = s[i]) /\ w[L + 1] = a
        BY <4>2, AppendProperties
      <4> HIDE DEF w, L
      <4>5. DOMAIN w = 1 .. L + 1 BY <4>4, SeqFacts
      <4>6. /\ \A i \in 1 .. L + 1 : i = L + 1 \/ i \in 1 .. L
            /\ \A i \in 1 .. L : i \in 1 .. L + 1
            /\ L + 1 \in 1 .. L + 1
        BY <4>3
      <4>7. \A x : In(w, x) <=> In(s, x) \/ x = a BY <4>3, <4>4, <4>5, <4>6 DEF In
      <4> QED BY <2>2, <3>4, <4>1, <4>2, <4>4, <4>7
    <3> QED BY <3>2, <3>3, <3>4
  <2>4. Listed'
    <3>1. ASSUME NEW t \in Types, t \notin DOMAIN types' PROVE Scanned(t)' = {}
      BY <1>1, <2>1, <2>2, <3>1 DEF Listed
    <3> QED BY <2>3, <3>1 DEF Listed
  <2>5. DOMAIN types' \subseteq Types BY <1>2, <2>1
  <2>6. Mime!TypeOK' BY <1>1, <2>3, <2>5 DEF Mime!TypeOK
  <2> QED BY <1>1, <2>4, <2>6 DEF MimeInv, Mime!AreSorted
<1> QED BY <1>4, <1>5

LEMMA SortStep ==
  ASSUME MimeInv, Mime!Sort
  PROVE  MimeInv'
<1>1. /\ step = "scan" /\ unread = {} /\ step' = "override" /\ unread' = DOMAIN quirks.override
      /\ UNCHANGED <<system, quirks, was>> /\ DOMAIN was = {} /\ Listed /\ Mime!TypeOK
      /\ types' = [t \in DOMAIN types |-> Mime!SortIncubating(Mime!Alphabetical(types[t]))]
      /\ system \in Systems /\ quirks \in Quirks /\ DOMAIN types \subseteq Types
  BY DEF Mime!Sort, MimeInv, Mime!TypeOK
<1>2. \A t : Scanned(t) = Mime!Candidates(t) /\ Mime!Candidates(t)' = Mime!Candidates(t)
  BY <1>1 DEF Scanned, Mime!Candidates
<1>3. \A t \in DOMAIN types : types[t] \in Seq(Mime!Ids) /\ types[t] # <<>> BY <1>1 DEF Mime!TypeOK
<1>4. ASSUME NEW t \in DOMAIN types PROVE types'[t] \in Seq(Mime!Ids) /\ types'[t] # <<>>
  <2> DEFINE l == types[t]
             s == Mime!Alphabetical(l)
  <2>1. l \in Seq(Mime!Ids) /\ l # <<>> BY <1>3
  <2>2. Ordered(l, s, Len(Apps)) BY AlphabeticalFacts
  <2>3. types'[t] = Mime!SortIncubating(s) BY <1>1
  <2> HIDE DEF s, l
  <2>4. 1 \in DOMAIN l /\ l[1] \in Mime!Ids
    <3>1. Len(l) \in Nat \ {0} /\ DOMAIN l = 1 .. Len(l) BY <2>1, EmptySeq, SeqFacts
    <3>2. 1 \in 1 .. Len(l) BY <3>1
    <3> QED BY <2>1, <3>1, <3>2, SeqFacts
  <2>5. In(l, l[1]) BY <2>4 DEF In
  <2>6. \E u \in 1 .. Len(Apps) : Apps[u] = l[1]
    BY <2>4, MimeInputs, SeqFacts DEF Mime!Ids, Mime!AppsAssumption
  <2>7. s \in Seq(Mime!Ids) /\ \E i \in 1 .. Len(s) : s[i] = l[1] BY <2>2, <2>5, <2>6 DEF Ordered
  <2>8. s # <<>> BY <2>7, EmptySeq
  <2> QED BY <2>3, <2>7, <2>8, SortTypes
<1>5. DOMAIN quirks.override \subseteq Types BY <1>1, MimeInputs DEF Mime!InputsAssumption
<1>6. Mime!TypeOK' BY <1>1, <1>4, <1>5 DEF Mime!TypeOK
<1>7. PairFirst'
  <2> SUFFICES ASSUME NEW t \in Types, NEW a \in Mime!Candidates(t) \cap DOMAIN quirks.incubating,
                      quirks.incubating[a] \in Mime!Candidates(t), a # quirks.incubating[a],
                      quirks.incubating[a] \notin DOMAIN quirks.incubating,
                      ~ \E c \in Mime!Candidates(t) :
                          Mime!Earlier(Apps, quirks.incubating[a], c) /\ Mime!Earlier(Apps, c, a)
               PROVE  Mime!Earlier(Mime!Made(t)', a, quirks.incubating[a])
    BY <1>1, <1>2 DEF PairFirst, Mime!Earlier
  <2>1. t \in DOMAIN types /\ \A x : In(types[t], x) <=> x \in Mime!Candidates(t)
    BY <1>1, <1>2 DEF Listed
  <2>2. Mime!Earlier(Mime!SortIncubating(Mime!Alphabetical(types[t])), a, quirks.incubating[a])
    BY <1>1, <1>3, <2>1, MadeFirst
  <2>3. Mime!Made(t)' = Mime!SortIncubating(Mime!Alphabetical(types[t])) BY <1>1, <2>1 DEF Mime!Made
  <2> QED BY <2>2, <2>3
<1> QED BY <1>1, <1>6, <1>7 DEF MimeInv, Mime!AreSorted

LEMMA OverrideStep ==
  ASSUME MimeInv, NEW t \in Types, Mime!Override(t)
  PROVE  MimeInv'
<1>1. /\ step = "override" /\ t \in unread /\ unread' = unread \ {t} /\ UNCHANGED <<system, quirks>>
      /\ unread \subseteq DOMAIN quirks.override /\ unread \cap DOMAIN was = {} /\ PairFirst /\ Mime!TypeOK
      /\ was' = [u \in DOMAIN was \cup {t} |->
                   IF u # t THEN was[u] ELSE IF t \in DOMAIN types THEN types[t] ELSE Mime!None]
  BY DEF Mime!Override, MimeInv, Mime!AreSorted
<1>2. quirks.override[t] \in Seq(Mime!Ids)
  BY <1>1, MimeInputs DEF Mime!TypeOK, Mime!InputsAssumption
<1>3. /\ DOMAIN types' \subseteq DOMAIN types \cup {t}
      /\ \A u \in DOMAIN types' : types'[u] \in Seq(Mime!Ids) /\ types'[u] # <<>>
      /\ \A u : u # t => (u \in DOMAIN types' <=> u \in DOMAIN types)
      /\ \A u \in DOMAIN types : u # t => types'[u] = types[u]
      /\ step' \in {"override", "raised"}
  <2>1. CASE quirks.override[t] # <<>> BY <1>1, <1>2, <2>1 DEF Mime!Override, Mime!TypeOK
  <2>2. CASE quirks.override[t] = <<>> BY <1>1, <2>2 DEF Mime!Override, Mime!TypeOK
  <2> QED BY <2>1, <2>2
<1>4. Mime!TypeOK' BY <1>1, <1>3 DEF Mime!TypeOK
<1>5. \A u : Mime!Made(u)' = Mime!Made(u)
  <2>1. Mime!Made(t)' = Mime!Made(t) BY <1>1 DEF Mime!Made
  <2>2. \A u : u # t => Mime!Made(u)' = Mime!Made(u) BY <1>1, <1>3 DEF Mime!Made
  <2> QED BY <2>1, <2>2
<1>6. \A u : Mime!Candidates(u)' = Mime!Candidates(u) BY <1>1 DEF Mime!Candidates
<1>7. PairFirst' BY <1>1, <1>5, <1>6 DEF PairFirst, Mime!Earlier
<1>8. unread' \cap DOMAIN was' = {} BY <1>1
<1> QED BY <1>1, <1>3, <1>4, <1>7, <1>8 DEF MimeInv

LEMMA WriteStep ==
  ASSUME MimeInv, Mime!Write
  PROVE  MimeInv'
<1>1. step = "override" /\ step' = "written" /\ UNCHANGED <<system, quirks, types, was, unread>>
  BY DEF Mime!Write
<1>2. PairFirst'
  BY <1>1 DEF MimeInv, Mime!AreSorted, PairFirst, Mime!Candidates, Mime!Made, Mime!Earlier
<1>3. Mime!TypeOK' BY <1>1 DEF MimeInv, Mime!TypeOK
<1> QED BY <1>1, <1>2, <1>3 DEF MimeInv

LEMMA MimeStep == MimeInv /\ Mime!Next => MimeInv'
  BY ScanStep, SortStep, OverrideStep, WriteStep DEF Mime!Next

------------------------------------------------------------------------------
(* A behaviour of the five is one of the program it runs.                   *)
LEMMA InitInv == Init => IInv
  BY TreesInit, PermsInit, MimeInit, DiskInit, VerityInit DEF Init, IInv

LEMMA Stutter ==
  /\ MimeInv /\ UNCHANGED mime => MimeInv'
  /\ TreesInv /\ UNCHANGED layer => TreesInv'
  /\ PermsInv /\ UNCHANGED perms => PermsInv'
  /\ DiskInv /\ UNCHANGED disk => DiskInv'
  /\ VerityInv /\ UNCHANGED verity => VerityInv'
<1>0. TreesInv /\ UNCHANGED layer => TreesInv'
  <2> SUFFICES ASSUME TreesInv, UNCHANGED layer PROVE TreesInv' OBVIOUS
  <2>1. UNCHANGED <<lower, upper, output, walk, todo>> BY DEF layer
  <2>2. Layer!Compatible' <=> Layer!Compatible BY <2>1, SameTrees
  <2>3. LayerInv' <=> LayerInv BY <2>1 DEF LayerInv, Closed, Missing, Same, CopyOf
  <2>4. BuiltInv' <=> BuiltInv BY <2>1 DEF BuiltInv, Built, FirstWalk, Closed, CopyOf
  <2> QED BY <2>1, <2>2, <2>3, <2>4 DEF TreesInv
<1>1. PermsInv /\ UNCHANGED perms => PermsInv'
  <2> SUFFICES ASSUME PermsInv, UNCHANGED perms PROVE PermsInv' OBVIOUS
  <2>1. UNCHANGED <<tree, dirs, configs, backup, phase, image>> BY DEF perms
  <2>2. Perms!TypeOK' /\ Given' /\ \A n \in Nodes : Saved(n)' = Saved(n) /\ Lacking(n)' = Lacking(n)
    BY <2>1 DEF PermsInv, Perms!TypeOK, Given, Saved, Lacking, Perms!retrieve_one, Perms!Mode
  <2>3. \A V \in SUBSET Nodes : Visited(V)' = Visited(V) BY <2>1, <2>2 DEF Visited
  <2> QED BY <2>1, <2>2, <2>3 DEF PermsInv
<1>2. DiskInv /\ UNCHANGED disk => DiskInv'
  BY DEF disk, DiskInv, Disk!TypeOK, Disk!AskedFirst
<1>3. VerityInv /\ UNCHANGED verity => VerityInv'
  BY DEF verity, VerityInv, Verity!TypeOK, Kept, Moved
<1>4. MimeInv /\ UNCHANGED mime => MimeInv'
  <2> SUFFICES ASSUME MimeInv, UNCHANGED mime PROVE MimeInv' OBVIOUS
  <2>1. UNCHANGED <<system, quirks, types, was, unread, step>> BY DEF mime
  <2>2. Mime!TypeOK' /\ (Listed' <=> Listed) /\ (PairFirst' <=> PairFirst)
    BY <2>1 DEF MimeInv, Mime!TypeOK, Listed, Scanned, In, PairFirst, Mime!Candidates, Mime!Made, Mime!Earlier
  <2> QED BY <2>1, <2>2 DEF MimeInv, Mime!AreSorted
<1> QED BY <1>0, <1>1, <1>2, <1>3, <1>4

LEMMA StepInv == IInv /\ [Next]_vars => IInv'
<1> SUFFICES ASSUME IInv, [Next]_vars PROVE IInv' OBVIOUS
<1>1. CASE Next
  <2>1. /\ which' = which
        /\ which = "layer" => Layer!Next
        /\ which = "perms" => Perms!Next
        /\ which = "mime" => Mime!Next
        /\ which = "disk" => Disk!Next
        /\ which = "verity" => Verity!Next
    BY <1>1 DEF Next
  <2> QED BY <2>1, TreesStep, PermsStep, MimeStep, DiskStep, VerityStep DEF IInv
<1>2. CASE UNCHANGED vars BY <1>2, Stutter DEF vars, IInv
<1> QED BY <1>1, <1>2

LEMMA IInvAlways == Spec => []IInv
  BY InitInv, StepInv, PTL DEF Spec

(* The variables of every program keep their types.                         *)
THEOREM ProgramTypes == Spec => []TypeOK
<1>1. TreesInv => Layer!TypeOK
  <2> SUFFICES ASSUME lower \in Layers, upper \in Layers, BuiltInv PROVE Layer!TypeOK
    BY DEF TreesInv
  <2>1. DOMAIN lower \cup DOMAIN upper \subseteq Paths BY TreeIsClosed
  <2>2. todo \subseteq Paths \ {Layer!Root} BY <2>1 DEF BuiltInv, FirstWalk
  <2> QED BY <2>2 DEF BuiltInv, Built, Layer!TypeOK
<1>2. IInv => TypeOK BY <1>1 DEF IInv, PermsInv, MimeInv, DiskInv, VerityInv, TypeOK
<1> QED BY <1>2, IInvAlways, PTL

(* make-layer.py: the lower tree under the layer is the upper tree, and the *)
(* program does not stop half way, for any two trees that are compatible;   *)
(* but for the owners that a copy does not keep, and for the modes and      *)
(* owners of directories that both trees have.                              *)
THEOREM LayerRestored == Spec => []Restores
<1>1. TreesInv => Layer!Restores
  <2>1. ASSUME TreesInv, Layer!Compatible PROVE walk # "raised"
    BY <2>1 DEF TreesInv, LayerInv
  <2>2. ASSUME TreesInv, Layer!Compatible, walk = "done"
        PROVE  /\ DOMAIN Layer!Overlay = DOMAIN upper
               /\ \A p \in DOMAIN upper :
                    IF p \in DOMAIN lower /\ {lower[p], upper[p]} \subseteq Dirs THEN Layer!Overlay[p] \in Dirs
                    ELSE Copied[Layer!Overlay[p]] = Copied[upper[p]]
    BY <2>2, LayerRestores DEF TreesInv
  <2> QED BY <2>1, <2>2 DEF Layer!Restores
<1>2. IInv => Restores BY <1>1 DEF IInv, Restores
<1> QED BY <1>2, IInvAlways, PTL

(* save-perms.py: the image has the permissions and attributes that the     *)
(* tree had below its root, in whatever order it is walked and the lines    *)
(* are applied; but for attributes with a special value, which the lines do *)
(* not escape.                                                              *)
THEOREM PermsComeBack == Spec => []Restored
<1>1. IInv => Restored BY PermsRestored DEF IInv, Restored
<1> QED BY <1>1, IInvAlways, PTL

(* generate.py: an incubating application that the alphabet puts next to    *)
(* the core application it replaces, or before it, is listed before it,     *)
(* however many applications there are and whatever list.sort does to them; *)
(* unless the core application is itself listed as incubating.              *)
THEOREM IncubatingFirst == Spec => []NeighbourFirst
<1>1. MimeInv => Mime!NeighbourFirst BY DEF MimeInv, PairFirst, Mime!NeighbourFirst
<1>2. IInv => NeighbourFirst BY <1>1 DEF IInv, NeighbourFirst
<1> QED BY <1>2, IInvAlways, PTL

(* installer.py: a partition table is lost only if the user answered        *)
(* "erase" for the row that showed its disk; once a disk was unplugged, for *)
(* a row that showed its name, which another disk may have by then.         *)
THEOREM UserIsAsked == Spec => []AskedFirst
<1>1. IInv => AskedFirst BY DEF IInv, DiskInv, AskedFirst
<1> QED BY <1>1, IInvAlways, PTL

(* swap-verity.c: /usr is read through the trusted table of the boot with   *)
(* no change but the devices, and success means that they were changed,     *)
(* whatever runs failed before.                                             *)
THEOREM VolumeIsTrusted == Spec => []Trusted
<1>1. VerityInv => Verity!Trusted
  BY DEF VerityInv, Kept, Moved, Verity!Trusted, Verity!StaysVerified, Verity!SuccessMoved
<1>2. IInv => Trusted BY <1>1 DEF IInv, Trusted
<1> QED BY <1>2, IInvAlways, PTL

=============================================================================
