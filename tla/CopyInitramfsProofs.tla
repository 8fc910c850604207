-------------------------- MODULE CopyInitramfsProofs --------------------------
(***************************************************************************)
(* CopyInitramfs for any build system and any number of calls: whatever     *)
(* cycles the dependencies have, directories come first and nothing that is *)
(* there is left out.                                                       *)
(***************************************************************************)
EXTENDS CopyInitramfs, SequenceTheorems, WellFoundedInduction, TLAPS

SourceOf(t) == t \in DOMAIN source_of
OnStack(d) == \E i \in DOMAIN stack : stack[i] = d

(* What is made as a directory, or as a link to one.                        *)
InDir(t) == IsDir(t) \/ (SourceOf(t) /\ source_of[t] = Nothing)

(* An entry of the tree stands for itself, and where it leads if that is a  *)
(* directory; everything it needs is there, or is still on the stack.       *)
TreeInv ==
  /\ \A n \in DOMAIN tree :
       /\ n \in Names /\ host.real[n] = n /\ Up[n] \in DOMAIN tree
       /\ IsDir(n) => host.follow[n] \in DOMAIN tree
       /\ tree[n] \in Names \cup {Nothing}
       /\ tree[n] # Nothing => \A d \in Needs(tree[n]) : Exists(d) => Copied(d) \/ OnStack(d)
  /\ Root \in DOMAIN tree

(* An entry asks for its directory and for what its source needs; only the  *)
(* first of a call has another source than itself.                          *)
Recorded(t) ==
  LET s == source_of[t] IN
  /\ Up[t] \in deps[t] /\ InDir(Up[t])
  /\ IF s = Nothing THEN ~ Exists(t) /\ deps[t] = {Up[t]}
     ELSE /\ s \in Names /\ Exists(s) /\ deps[t] = Needs(s) \cup {Up[t]} /\ Needs(s) \subseteq Names
          /\ s = t \/ ~ (IsDir(s) \/ IsDir(t))

DepsInv ==
  /\ DOMAIN deps \subseteq Names /\ DOMAIN source_of \subseteq DOMAIN deps
  /\ \A t \in DOMAIN deps :
       IF SourceOf(t) THEN Recorded(t) ELSE deps[t] = {} /\ ~ Exists(t)
  /\ \A t \in DOMAIN deps : \A d \in deps[t] :
       d \in Names /\ (Copied(d) \/ d \in DOMAIN deps \/ <<d, d>> \in queue)

(* The first visit of a call is the only one with two names.                *)
QueueInv ==
  /\ queue \subseteq Names \X Names
  /\ \A p \in queue :
       \/ p[1] = p[2]
       \/ /\ p = call /\ queue = {call} /\ DOMAIN deps = {}
          /\ Exists(p[1]) /\ ~ (IsDir(p[1]) \/ IsDir(p[2]))
  /\ phase = "discover" =>
       /\ call \in Names \X Names
       /\ call \in queue \/ Copied(call[2]) \/ call[2] \in DOMAIN deps

(* The calls of process() are nested by dependencies, no two are for the    *)
(* same entry, and in a directory nothing but directories is processed.     *)
StackInv ==
  /\ stack \in Seq(Names)
  /\ \A i \in 1 .. Len(stack) : stack[i] \in processed /\ SourceOf(stack[i])
  /\ \A i, j \in 1 .. Len(stack) : i # j => stack[i] # stack[j]
  /\ \A i \in 2 .. Len(stack) : stack[i - 1] \in deps[stack[i]]
  /\ \A i, j \in 1 .. Len(stack) : j <= i /\ InDir(stack[i]) => InDir(stack[j])

(* What was processed is on the stack, in the tree, or not to be found.     *)
ProcessedInv ==
  /\ processed \subseteq Names
  /\ \A d \in processed : OnStack(d) \/ Copied(d) \/ (~ Exists(d) /\ ~ SourceOf(d))

IInv ==
  /\ host \in Hosts /\ calls \in 0 .. MaxCalls
  /\ phase \in {"idle", "discover", "copy", "raised"}
  /\ TreeInv /\ DepsInv /\ QueueInv /\ StackInv /\ ProcessedInv
  /\ phase # "copy" => stack = <<>> /\ processed = {}
  /\ phase \in {"idle", "copy"} => queue = {}
  /\ phase = "idle" => DOMAIN deps = {}

------------------------------------------------------------------------------
(* The host.                                                                *)
LEMMA LeastNat ==
  ASSUME NEW T \in SUBSET Nat, T # {}
  PROVE  \E x \in T : \A y \in T : x <= y
<1> DEFINE R == OpToRel(<, Nat)
<1>1. IsWellFoundedOn(R, Nat) BY NatLessThanWellFounded
<1>2. \A x, y \in Nat : <<y, x>> \in R <=> y < x BY DEF OpToRel
<1> HIDE DEF R
<1>3. PICK x \in T : \A y \in T : ~ (<<y, x>> \in R) BY <1>1, WFMin
<1>4. ASSUME NEW y \in T PROVE ~ (y < x)
  <2>1. x \in Nat /\ y \in Nat OBVIOUS
  <2>2. <<y, x>> \in R <=> y < x BY <1>2, <2>1
  <2> QED BY <1>3, <2>2
<1>5. \A y \in T : x <= y BY <1>4
<1> QED BY <1>5

(* A resolver returns one of the paths it tries.                            *)
LEMMA Resolves ==
  ASSUME NEW ask \in Asks
  PROVE  /\ ask.tries \in Seq(Names) /\ Resolve(ask) \in Names
         /\ Len(ask.tries) = 1 => Resolve(ask) = ask.tries[1]
<1>1. ask.tries \in Seq(Names) /\ Len(ask.tries) >= 1
  <2>1. ask.tries \in Seq(Names) /\ ask.tries # <<>> BY DEF Asks
  <2> QED BY <2>1, EmptySeq
<1> DEFINE tries == ask.tries
           T == {i \in 1 .. Len(tries) : Leads(tries[i])}
           Chosen(i) == Leads(tries[i]) /\ \A j \in 1 .. i - 1 : ~ Leads(tries[j])
<1>2. CASE Found(ask)
  <2>1. T \in SUBSET Nat /\ T # {} BY <1>1, <1>2 DEF Found
  <2>2. PICK i \in T : \A j \in T : i <= j BY <2>1, LeastNat
  <2>3. i \in 1 .. Len(tries) /\ Chosen(i) BY <1>1, <2>2
  <2> DEFINE k == CHOOSE j \in DOMAIN tries : Chosen(j)
  <2>4. k \in 1 .. Len(tries) BY <1>1, <2>3
  <2>5. Resolve(ask) = tries[k] BY <1>2 DEF Resolve
  <2> HIDE DEF k
  <2> QED BY <1>1, <2>4, <2>5
<1>3. CASE ~ Found(ask) BY <1>1, <1>3 DEF Resolve
<1> QED BY <1>1, <1>2, <1>3

LEMMA HostFacts ==
  ASSUME host \in Hosts, NEW n \in Names
  PROVE  /\ host.real[n] \in Names /\ host.follow[n] \in Names /\ Up[n] \in Names
         /\ host.real[host.real[n]] = host.real[n] /\ Up[host.real[n]] = host.follow[Up[n]]
         /\ host.real[host.follow[Up[n]]] = host.follow[Up[n]]
         /\ host.follow[host.real[n]] = host.follow[n]
         /\ Exists(n) => Exists(Up[n])
         /\ Exists(Up[n]) => IsDir(Up[n])
         /\ IsDir(n) => Exists(n)
         /\ Needs(n) \subseteq Names
         /\ ~ Exists(n) => host.follow[n] = host.real[n] /\ Needs(n) = {}
<1>1. Paths(host) /\ Entries(host) BY HostsAssumption
<1>2. host.real[n] \in Names /\ host.follow[n] \in Names /\ Up[n] \in Names
  BY <1>1, UpAssumption DEF Paths
<1>3. host.follow[host.real[n]] = host.follow[n]
  <2>1. CASE host.kind[n] # "link" BY <1>1, <1>2, <2>1 DEF Paths, Entries
  <2>2. CASE host.kind[n] = "link"
    <3>1. PICK d \in Names : host.asks[n] = {[tries |-> <<d>>, must |-> FALSE]} /\ host.follow[n] = host.follow[d]
      BY <1>1, <2>2 DEF Paths
    <3>2. PICK e \in Names : /\ host.asks[host.real[n]] = {[tries |-> <<e>>, must |-> FALSE]}
                             /\ host.follow[host.real[n]] = host.follow[e]
      BY <1>1, <1>2, <2>2 DEF Paths, Entries
    <3>3. {[tries |-> <<d>>, must |-> FALSE]} = {[tries |-> <<e>>, must |-> FALSE]}
      BY <1>1, <3>1, <3>2 DEF Entries
    <3>4. [tries |-> <<d>>, must |-> FALSE].tries = [tries |-> <<e>>, must |-> FALSE].tries BY <3>3
    <3>5. <<d>> = <<e>> BY <3>4
    <3>6. d = e BY <3>5
    <3> QED BY <3>1, <3>2, <3>6
  <2> QED BY <2>1, <2>2
<1>4. Needs(n) \subseteq Names BY <1>1, Resolves DEF Needs, Entries
<1>5. IsDir(n) => Exists(n) BY <1>1 DEF IsDir, Exists, Paths, Entries
<1>6. ~ Exists(n) => host.follow[n] = host.real[n] /\ Needs(n) = {}
  BY <1>1 DEF Exists, Needs, Paths, Entries
<1> QED BY <1>1, <1>2, <1>3, <1>4, <1>5, <1>6 DEF Paths, Entries, Exists, IsDir

(* A link to a directory needs the path it leads to, a directory nothing.   *)
LEMMA DirFacts ==
  ASSUME host \in Hosts, NEW n \in Names, IsDir(n)
  PROVE  \/ Needs(n) = {} /\ host.follow[n] = host.real[n]
         \/ \E d \in Names : /\ Needs(n) = {d} /\ \E ask \in host.asks[n] : ask.tries[1] = d
                             /\ IsDir(d) /\ host.follow[d] = host.follow[n]
<1>1. Paths(host) /\ Entries(host) BY HostsAssumption
<1>2. CASE host.kind[n] = "link"
  <2>1. PICK d \in Names : host.asks[n] = {[tries |-> <<d>>, must |-> FALSE]} /\ host.follow[n] = host.follow[d]
    BY <1>1, <1>2 DEF Paths
  <2> DEFINE ask == [tries |-> <<d>>, must |-> FALSE]
  <2>2. ask \in Asks BY <1>1, <2>1 DEF Entries
  <2>3. ask.tries[1] = d /\ Len(ask.tries) = 1 OBVIOUS
  <2>4. ask \in host.asks[n] BY <2>1
  <2> HIDE DEF ask
  <2>5. Resolve(ask) = d BY <2>2, <2>3, Resolves
  <2>6. host.asks[n] = {ask} BY <2>1 DEF ask
  <2>7. Needs(n) = {d} BY <2>5, <2>6 DEF Needs
  <2> QED BY <2>1, <2>3, <2>4, <2>7 DEF IsDir
<1>3. CASE host.kind[n] # "link"
  <2>1. host.follow[n] = host.real[n] BY <1>1, <1>3 DEF Paths
  <2>2. host.kind[n] = "dir" BY <1>1, <2>1 DEF IsDir, Entries
  <2>3. host.asks[n] = {} BY <1>1, <2>2 DEF Entries
  <2> QED BY <2>1, <2>3 DEF Needs
<1> QED BY <1>2, <1>3

(* The host has the directory of what it lacks, or lacks that one too.      *)
LEMMA LackingFacts ==
  ASSUME host \in Hosts, NEW t \in Names
  PROVE  /\ Lacking(t) \subseteq Names /\ \A n \in Lacking(t) : ~ Exists(n)
         /\ \A n \in Lacking(t) \cup {t} : Up[n] \in Names /\ (Up[n] \in Lacking(t) \/ Exists(Up[n]))
<1> DEFINE none == {d \in Names : ~ Exists(d)}
           Closed_(S) == \A n \in S \cup {t} : Up[n] \in none => Up[n] \in S
<1>1. Lacking(t) = {d \in none : \A S \in SUBSET none : Closed_(S) => d \in S} BY DEF Lacking
<1>2. ASSUME NEW n \in Lacking(t) \cup {t}, Up[n] \in none PROVE Up[n] \in Lacking(t)
  <2>1. ASSUME NEW S \in SUBSET none, Closed_(S) PROVE Up[n] \in S
    <3>1. n \in S \cup {t} BY <1>1, <1>2, <2>1
    <3> QED BY <1>2, <2>1, <3>1
  <2> QED BY <1>1, <1>2, <2>1
<1>3. Lacking(t) \subseteq none BY <1>1
<1>4. \A n \in Lacking(t) \cup {t} : Up[n] \in Names BY <1>3, HostFacts
<1> QED BY <1>2, <1>3, <1>4

------------------------------------------------------------------------------
(* The stack.                                                               *)
LEMMA Top ==
  ASSUME stack \in Seq(Names), stack # <<>>
  PROVE  /\ Len(stack) \in Nat \ {0} /\ 1 \in 1 .. Len(stack) /\ Head(stack) = stack[1]
         /\ DOMAIN stack = 1 .. Len(stack)
  BY EmptySeq

LEMMA Push ==
  ASSUME stack \in Seq(Names), NEW t \in Names
  PROVE  /\ <<t>> \o stack \in Seq(Names) /\ Len(<<t>> \o stack) = Len(stack) + 1
         /\ \A i \in 1 .. Len(stack) + 1 : (<<t>> \o stack)[i] = IF i = 1 THEN t ELSE stack[i - 1]
         /\ Len(stack) \in Nat
<1>1. <<t>> \in Seq(Names) /\ Len(<<t>>) = 1 /\ <<t>>[1] = t OBVIOUS
<1>2. Len(stack) \in Nat BY LenProperties
<1>3. /\ <<t>> \o stack \in Seq(Names) /\ Len(<<t>> \o stack) = 1 + Len(stack)
      /\ \A i \in 1 .. 1 + Len(stack) : (<<t>> \o stack)[i] = IF i <= 1 THEN <<t>>[i] ELSE stack[i - 1]
  BY <1>1, ConcatProperties
<1> QED BY <1>1, <1>2, <1>3

(* Of a directory, only directories are dependencies.                       *)
LEMMA InDirDeps ==
  ASSUME host \in Hosts, DOMAIN source_of \subseteq Names, NEW h \in Names,
         SourceOf(h), Recorded(h), InDir(h), NEW d \in deps[h]
  PROVE  InDir(d) /\ (d = Up[h] \/ \E ask \in host.asks[h] : ask.tries[1] = d)
<1>1. Up[h] \in Names BY HostFacts
<1>2. CASE source_of[h] = Nothing BY <1>2 DEF Recorded
<1>3. CASE source_of[h] # Nothing
  <2>1. IsDir(h) BY <1>3 DEF InDir
  <2>2. source_of[h] = h /\ deps[h] = Needs(h) \cup {Up[h]} /\ InDir(Up[h])
    BY <1>3, <2>1 DEF Recorded
  <2>3. CASE d = Up[h] BY <2>2, <2>3
  <2>4. CASE d \in Needs(h) BY <2>1, <2>4, DirFacts DEF InDir
  <2> QED BY <2>2, <2>3, <2>4
<1> QED BY <1>2, <1>3

(* No directory is copied on the way from one that is in it, or leads to it.*)
LEMMA NoCycle ==
  ASSUME host \in Hosts, DepsInv, StackInv, stack # <<>>, Head(stack) # Root,
         NEW d \in deps[Head(stack)], OnStack(d), InDir(d)
  PROVE  FALSE
<1> DEFINE N == Len(stack)
<1>1. /\ N \in Nat \ {0} /\ Head(stack) = stack[1] /\ DOMAIN stack = 1 .. N
      /\ \A j \in 1 .. N : stack[j] \in Names /\ SourceOf(stack[j]) /\ Recorded(stack[j])
  BY Top DEF StackInv, DepsInv, SourceOf
<1>2. PICK i \in 1 .. N : stack[i] = d BY <1>1 DEF OnStack
<1> DEFINE S == {stack[j] : j \in 1 .. i}
<1>3. \A j \in 1 .. i : j \in 1 .. N /\ InDir(stack[j]) BY <1>1, <1>2 DEF StackInv
<1>4. \A n \in S : host.kind[n] = "none" \/ host.kind[host.follow[n]] = "dir"
  BY <1>1, <1>3 DEF InDir, Recorded, IsDir, Exists
<1>5. S \subseteq Names /\ S # {} BY <1>1, <1>2, <1>3
<1>6. PICK n \in S : (n # Root => Up[n] \notin S) /\ \A ask \in host.asks[n] : ask.tries[1] \notin S
  <2>1. S \in SUBSET {n \in Names : host.kind[n] = "none" \/ host.kind[host.follow[n]] = "dir"}
    BY <1>4, <1>5
  <2> HIDE DEF S
  <2> QED BY <1>5, <2>1, HostsAssumption DEF Reachable
<1>7. PICK j \in 1 .. i : stack[j] = n OBVIOUS
<1>8. \E e \in deps[n] : e \in S /\ (e # Root \/ n # Root)
  <2>1. CASE j = 1 BY <1>1, <1>2, <1>7, <2>1
  <2>2. CASE j # 1
    <3>1. j \in 2 .. N /\ j - 1 \in 1 .. i /\ j - 1 # j /\ j \in 1 .. N BY <1>1, <1>2, <1>7, <2>2
    <3>2. stack[j - 1] \in deps[n] /\ stack[j - 1] \in S /\ stack[j - 1] # n
      BY <1>1, <1>2, <1>7, <3>1 DEF StackInv
    <3>3. stack[j - 1] # Root \/ n # Root BY <3>2
    <3> HIDE DEF S
    <3> QED BY <3>2, <3>3
  <2> QED BY <2>1, <2>2
<1>p. PICK e \in deps[n] : e \in S /\ (e # Root \/ n # Root) BY <1>8
<1>9. n # Root
  <2> SUFFICES ASSUME n = Root PROVE FALSE OBVIOUS
  <2>1. Entries(host) /\ Paths(host) BY HostsAssumption
  <2>2. host.asks[Root] = {} /\ Up[Root] = Root BY <2>1, UpAssumption DEF Entries
  <2>3. InDir(n) /\ SourceOf(n) /\ Recorded(n) /\ n \in Names BY <1>1, <1>3, <1>7
  <2>4. DOMAIN source_of \subseteq Names BY DEF DepsInv
  <2>5. e = Root BY <2>2, <2>3, <2>4, InDirDeps
  <2> QED BY <1>p, <2>5
<1>10. InDir(n) /\ SourceOf(n) /\ Recorded(n) /\ n \in Names BY <1>1, <1>3, <1>7
<1>11. DOMAIN source_of \subseteq Names BY DEF DepsInv
<1>12. e = Up[n] \/ \E ask \in host.asks[n] : ask.tries[1] = e BY <1>10, <1>11, InDirDeps
<1> QED BY <1>6, <1>p, <1>9, <1>12

(* process(d), for a dependency of the innermost call or the first one.     *)
LEMMA EnterStep ==
  ASSUME host \in Hosts, DepsInv, StackInv, ProcessedInv,
         NEW d \in Names \ processed, Enter(d), UNCHANGED <<host, tree, deps, source_of>>,
         Copied(d) \/ d \in DOMAIN deps, stack = <<>> \/ d \in deps[Head(stack)]
  PROVE  StackInv' /\ ProcessedInv' /\ \A e : OnStack(e) => OnStack(e)'
<1>1. stack \in Seq(Names) /\ Len(stack) \in Nat /\ DOMAIN stack = 1 .. Len(stack)
  BY LenProperties DEF StackInv
<1>2. processed' = processed \cup {d} BY DEF Enter
<1>3. \A t : InDir(t)' = InDir(t) /\ SourceOf(t)' = SourceOf(t) /\ Exists(t)' = Exists(t) /\ Copied(t)' = Copied(t)
  BY DEF InDir, SourceOf, IsDir, Exists, Copied
<1>4. CASE ~ SourceOf(d)
  <2>1. stack' = stack BY <1>4 DEF Enter, SourceOf
  <2>2. Copied(d) \/ ~ Exists(d) BY <1>4 DEF DepsInv
  <2>3. \A e : OnStack(e)' = OnStack(e) BY <2>1 DEF OnStack
  <2>4. ProcessedInv' BY <1>2, <1>3, <1>4, <2>2, <2>3 DEF ProcessedInv
  <2>5. StackInv' BY <1>2, <1>3, <2>1 DEF StackInv
  <2> QED BY <2>3, <2>4, <2>5
<1>5. CASE SourceOf(d)
  <2> DEFINE N == Len(stack)
  <2>1. stack' = <<d>> \o stack BY <1>5 DEF Enter, SourceOf
  <2>2. /\ stack' \in Seq(Names) /\ Len(stack') = N + 1 /\ DOMAIN stack' = 1 .. N + 1
        /\ \A i \in 1 .. N + 1 : stack'[i] = IF i = 1 THEN d ELSE stack[i - 1]
    BY <1>1, <2>1, Push
  <2>3. \A i \in 2 .. N + 1 : i - 1 \in 1 .. N /\ stack'[i] = stack[i - 1] BY <1>1, <2>2
  <2>4. stack'[1] = d /\ 1 \in 1 .. N + 1 BY <1>1, <2>2
  <2>5. \A i \in 1 .. N : stack[i] \in processed /\ stack[i] # d BY DEF StackInv
  <2>6. \A i \in 1 .. N + 1 : i = 1 \/ i \in 2 .. N + 1 BY <1>1
  <2>7. \A i \in 1 .. N + 1 : stack'[i] \in processed' /\ stack'[i] \in DOMAIN source_of
    BY <1>2, <1>5, <2>3, <2>4, <2>5, <2>6 DEF StackInv, SourceOf
  <2>8. ASSUME NEW i \in 1 .. N + 1, NEW j \in 1 .. N + 1, i # j PROVE stack'[i] # stack'[j]
    <3>1. CASE i = 1 BY <2>3, <2>4, <2>5, <2>6, <2>8, <3>1
    <3>2. CASE j = 1 BY <2>3, <2>4, <2>5, <2>6, <2>8, <3>2
    <3>3. CASE i # 1 /\ j # 1
      <4>1. i - 1 \in 1 .. N /\ j - 1 \in 1 .. N /\ i - 1 # j - 1 BY <1>1, <2>8, <3>3
      <4> QED BY <2>2, <3>3, <4>1 DEF StackInv
    <3> QED BY <3>1, <3>2, <3>3
  <2>9. ASSUME NEW i \in 2 .. N + 1 PROVE stack'[i - 1] \in deps'[stack'[i]]
    <3>1. CASE i = 2
      <4>1. N >= 1 /\ stack # <<>> BY <1>1, <2>9, <3>1
      <4>2. Head(stack) = stack[1] BY <1>1, <4>1, Top
      <4> QED BY <2>3, <2>4, <3>1, <4>1, <4>2
    <3>2. CASE i # 2
      <4>1. i - 1 \in 2 .. N /\ i - 1 \in 1 .. N + 1 /\ i - 1 # 1 BY <1>1, <2>9, <3>2
      <4>2. stack'[i] = stack[i - 1] /\ stack'[i - 1] = stack[(i - 1) - 1] BY <2>2, <2>3, <4>1
      <4> QED BY <4>1, <4>2 DEF StackInv
    <3> QED BY <3>1, <3>2
  <2>10. ASSUME NEW i \in 1 .. N + 1, NEW j \in 1 .. N + 1, j <= i, InDir(stack'[i])
         PROVE InDir(stack'[j])
    <3>1. CASE j # 1
      <4>1. i - 1 \in 1 .. N /\ j - 1 \in 1 .. N /\ j - 1 <= i - 1 /\ i # 1 BY <1>1, <2>10, <3>1
      <4> QED BY <2>2, <2>10, <3>1, <4>1 DEF StackInv
    <3>2. CASE j = 1 /\ i = 1 BY <2>10, <3>2
    <3>3. CASE j = 1 /\ i # 1
      <4>1. i - 1 \in 1 .. N /\ 1 \in 1 .. N /\ 1 <= i - 1 /\ stack # <<>> BY <1>1, <2>10, <3>3
      <4>2. InDir(stack[1]) BY <2>2, <2>10, <3>3, <4>1 DEF StackInv
      <4>3. Head(stack) = stack[1] BY <1>1, <4>1, Top
      <4>4. stack[1] \in Names /\ SourceOf(stack[1]) /\ Recorded(stack[1])
        BY <1>1, <4>1 DEF StackInv, DepsInv, SourceOf
      <4>5. InDir(d)
        <5>1. DOMAIN source_of \subseteq Names BY DEF DepsInv
        <5>2. d \in deps[stack[1]] BY <4>1, <4>3
        <5> QED BY <4>2, <4>4, <5>1, <5>2, InDirDeps
      <4> QED BY <2>4, <3>3, <4>5
    <3> QED BY <3>1, <3>2, <3>3
  <2>11. StackInv'
    <3>1. \A i, j \in 1 .. Len(stack') : j <= i /\ InDir(stack'[i]) => InDir(stack'[j])
      BY <2>2, <2>10
    <3>2. \A i \in 2 .. Len(stack') : stack'[i - 1] \in deps'[stack'[i]] BY <2>2, <2>9
    <3>3. \A i, j \in 1 .. Len(stack') : i # j => stack'[i] # stack'[j] BY <2>2, <2>8
    <3> QED BY <2>2, <2>7, <3>1, <3>2, <3>3 DEF StackInv, SourceOf, InDir, IsDir
  <2>12. OnStack(d)' BY <2>2, <2>4 DEF OnStack
  <2>13. ASSUME NEW e, OnStack(e) PROVE OnStack(e)'
    <3>1. PICK i \in 1 .. N : stack[i] = e BY <1>1, <2>13 DEF OnStack
    <3>2. i + 1 \in 1 .. N + 1 /\ i + 1 # 1 /\ (i + 1) - 1 = i BY <1>1
    <3> QED BY <2>2, <3>1, <3>2 DEF OnStack
  <2>14. ProcessedInv' BY <1>2, <1>3, <2>12, <2>13 DEF ProcessedInv
  <2> QED BY <2>11, <2>13, <2>14
<1> QED BY <1>4, <1>5

(* When its dependencies are processed, an entry has its directory, where   *)
(* that leads to, and what it needs.                                        *)
LEMMA ReadyToCopy ==
  ASSUME IInv, stack # <<>>, Left(Head(stack)) = {}, ~ Copied(Head(stack))
  PROVE  LET t == Head(stack) IN
         /\ Up[host.real[t]] \in DOMAIN tree
         /\ IsDir(t) => host.follow[t] \in DOMAIN tree \cup {host.real[t]}
         /\ source_of[t] # Nothing => \A d \in Needs(source_of[t]) : Exists(d) => Copied(d) \/ OnStack(d)
<1> DEFINE t == Head(stack)
<1>1. host \in Hosts /\ DepsInv /\ StackInv /\ TreeInv /\ ProcessedInv BY DEF IInv
<1>2. t \in Names /\ SourceOf(t) /\ Recorded(t) /\ DOMAIN source_of \subseteq Names
  BY <1>1, Top DEF StackInv, DepsInv, SourceOf
<1>3. \A d \in deps[t] : d \in Names /\ (OnStack(d) \/ Copied(d) \/ (~ Exists(d) /\ ~ SourceOf(d)))
  <2>1. deps[t] \subseteq processed BY DEF Left
  <2> QED BY <1>1, <2>1 DEF ProcessedInv
<1>4. t # Root
  <2>1. host.real[Root] = Root BY <1>1, HostsAssumption DEF Entries
  <2> QED BY <1>1, <2>1 DEF TreeInv, Copied
<1>5. ASSUME NEW d \in deps[t], InDir(d) PROVE Copied(d) /\ host.follow[d] \in DOMAIN tree
  <2>1. ~ OnStack(d) BY <1>1, <1>4, <1>5, NoCycle
  <2>2. d \in Names BY <1>3
  <2>3. Copied(d) BY <1>1, <1>3, <1>5, <2>1, <2>2, HostFacts DEF InDir
  <2>4. CASE IsDir(d)
    <3>1. host.follow[host.real[d]] = host.follow[d] BY <1>1, <2>2, HostFacts
    <3>2. host.real[d] \in DOMAIN tree /\ IsDir(host.real[d]) BY <2>3, <2>4, <3>1 DEF Copied, IsDir
    <3>3. host.follow[host.real[d]] \in DOMAIN tree BY <1>1, <3>2 DEF TreeInv
    <3> QED BY <2>3, <3>1, <3>3
  <2>5. CASE ~ IsDir(d)
    <3>1. SourceOf(d) /\ source_of[d] = Nothing BY <1>5, <2>5 DEF InDir
    <3>2. Recorded(d) BY <1>1, <3>1 DEF DepsInv, SourceOf
    <3>3. ~ Exists(d) BY <3>1, <3>2 DEF Recorded
    <3>4. host.follow[d] = host.real[d] BY <1>1, <2>2, <3>3, HostFacts
    <3> QED BY <2>3, <3>4 DEF Copied
  <2> QED BY <2>4, <2>5
<1>6. Up[host.real[t]] \in DOMAIN tree
  <2>1. Up[t] \in deps[t] /\ InDir(Up[t]) BY <1>2 DEF Recorded
  <2>2. Up[host.real[t]] = host.follow[Up[t]] BY <1>1, <1>2, HostFacts
  <2> QED BY <1>5, <2>1, <2>2
<1>7. ASSUME source_of[t] # Nothing, NEW d \in Needs(source_of[t]), Exists(d)
      PROVE  Copied(d) \/ OnStack(d)
  <2>1. d \in deps[t] BY <1>2, <1>7 DEF Recorded
  <2> QED BY <1>3, <1>7, <2>1
<1>8. ASSUME IsDir(t) PROVE host.follow[t] \in DOMAIN tree \cup {host.real[t]}
  <2>1. Exists(t) BY <1>1, <1>2, <1>8, HostFacts
  <2>2. deps[t] = Needs(t) \cup {Up[t]} BY <1>2, <1>8, <2>1 DEF Recorded
  <2>3. CASE host.follow[t] = host.real[t] BY <2>3
  <2>4. ASSUME NEW d \in Names, Needs(t) = {d}, IsDir(d), host.follow[d] = host.follow[t]
        PROVE  host.follow[t] \in DOMAIN tree
    <3>1. d \in deps[t] /\ InDir(d) BY <2>2, <2>4 DEF InDir
    <3> QED BY <1>5, <2>4, <3>1
  <2> QED BY <1>1, <1>2, <1>8, <2>3, <2>4, DirFacts
<1> QED BY <1>6, <1>7, <1>8

LEMMA PopStep ==
  ASSUME StackInv, stack # <<>>, stack' = Tail(stack), UNCHANGED <<host, deps, source_of, processed>>
  PROVE  StackInv' /\ \A e : OnStack(e) => OnStack(e)' \/ e = Head(stack)
<1> DEFINE N == Len(stack)
<1>1. /\ stack \in Seq(Names) /\ N \in Nat \ {0} /\ Head(stack) = stack[1] /\ DOMAIN stack = 1 .. N
  BY Top DEF StackInv
<1>2. /\ stack' \in Seq(Names) /\ Len(stack') = N - 1
      /\ \A i \in 1 .. N - 1 : stack'[i] = stack[i + 1]
  BY <1>1, HeadTailProperties
<1>3. DOMAIN stack' = 1 .. N - 1 BY <1>2, LenProperties
<1>4. \A i \in 1 .. N - 1 : i + 1 \in 1 .. N /\ stack'[i] = stack[i + 1] BY <1>1, <1>2
<1>5. ASSUME NEW i \in 1 .. N - 1, NEW j \in 1 .. N - 1
      PROVE  /\ i # j => stack'[i] # stack'[j]
             /\ j <= i /\ InDir(stack'[i]) => InDir(stack'[j])
  <2>1. i + 1 \in 1 .. N /\ j + 1 \in 1 .. N /\ (i # j => i + 1 # j + 1) /\ (j <= i => j + 1 <= i + 1)
    BY <1>1
  <2> QED BY <1>4, <2>1 DEF StackInv
<1>6. ASSUME NEW i \in 2 .. N - 1 PROVE stack'[i - 1] \in deps'[stack'[i]]
  <2>1. i + 1 \in 2 .. N /\ i - 1 \in 1 .. N - 1 /\ i \in 1 .. N - 1 /\ (i - 1) + 1 = (i + 1) - 1
    BY <1>1
  <2>2. stack'[i - 1] = stack[(i - 1) + 1] /\ stack'[i] = stack[i + 1] BY <1>4, <2>1
  <2> QED BY <2>1, <2>2 DEF StackInv
<1>7. StackInv'
  <2>1. \A i, j \in 1 .. Len(stack') : j <= i /\ InDir(stack'[i]) => InDir(stack'[j]) BY <1>2, <1>5
  <2>2. \A i, j \in 1 .. Len(stack') : i # j => stack'[i] # stack'[j] BY <1>2, <1>5
  <2>3. \A i \in 2 .. Len(stack') : stack'[i - 1] \in deps'[stack'[i]] BY <1>2, <1>6
  <2>4. \A i \in 1 .. Len(stack') : stack'[i] \in processed /\ SourceOf(stack'[i])
    BY <1>2, <1>4 DEF StackInv
  <2> QED BY <1>2, <2>1, <2>2, <2>3, <2>4 DEF StackInv, SourceOf, InDir, IsDir
<1>8. ASSUME NEW e, OnStack(e) PROVE OnStack(e)' \/ e = Head(stack)
  <2>1. PICK i \in 1 .. N : stack[i] = e BY <1>1, <1>8 DEF OnStack
  <2>2. CASE i = 1 BY <1>1, <2>1, <2>2
  <2>3. CASE i # 1
    <3>1. i - 1 \in 1 .. N - 1 /\ (i - 1) + 1 = i BY <1>1, <2>3
    <3> QED BY <1>2, <1>3, <2>1, <3>1 DEF OnStack
  <2> QED BY <2>2, <2>3
<1> QED BY <1>7, <1>8

LEMMA CopyStep == IInv /\ Copy => IInv'
<1> SUFFICES ASSUME IInv, Copy PROVE IInv' OBVIOUS
<1> DEFINE t == Head(stack)
           dest == host.real[t]
<1>1. /\ phase = "copy" /\ stack # <<>> /\ Left(t) = {} /\ stack' = Tail(stack)
      /\ UNCHANGED <<host, call, queue, deps, source_of, processed, calls>>
  BY DEF Copy
<1>2. host \in Hosts /\ DepsInv /\ StackInv /\ TreeInv /\ ProcessedInv /\ QueueInv /\ queue = {}
  BY <1>1 DEF IInv
<1>3. t \in Names /\ SourceOf(t) /\ Recorded(t) BY <1>1, <1>2, Top DEF StackInv, DepsInv, SourceOf
<1>4. dest \in Names /\ host.real[dest] = dest /\ host.follow[dest] = host.follow[t]
  BY <1>2, <1>3, HostFacts
<1>5. StackInv' /\ \A e : OnStack(e) => OnStack(e)' \/ e = t BY <1>1, <1>2, PopStep
<1>6. phase' = "copy" /\ tree' = IF Copied(t) THEN tree ELSE Put(tree, dest, source_of[t])
  <2>1. Copied(t) \/ Up[dest] \in DOMAIN tree BY <1>1, ReadyToCopy
  <2> QED BY <1>1, <2>1 DEF Copy
<1>7. /\ DOMAIN tree' = DOMAIN tree \cup {dest}
      /\ \A n \in DOMAIN tree : Copied(t) \/ n # dest => tree'[n] = tree[n]
      /\ ~ Copied(t) => tree'[dest] = source_of[t] /\ dest \notin DOMAIN tree
  BY <1>6 DEF Put, Copied
<1>8. \A e : (Copied(e) \/ e = t => Copied(e)') /\ Exists(e)' = Exists(e) /\ SourceOf(e)' = SourceOf(e)
            /\ InDir(e)' = InDir(e) /\ IsDir(e)' = IsDir(e) /\ Needs(e)' = Needs(e)
  <2>1. \A e : Copied(e) \/ e = t => Copied(e)' BY <1>1, <1>7 DEF Copied
  <2> QED BY <1>1, <2>1 DEF Exists, SourceOf, InDir, IsDir, Needs, Resolve, Found, Leads
<1>9. ProcessedInv' BY <1>1, <1>2, <1>5, <1>8 DEF ProcessedInv
<1>10. DepsInv'
  <2>1. \A e : Recorded(e)' = Recorded(e) BY <1>1, <1>8 DEF Recorded
  <2>2. \A e \in DOMAIN deps : IF SourceOf(e)' THEN Recorded(e)' ELSE deps[e] = {} /\ ~ Exists(e)'
    BY <1>2, <1>8, <2>1 DEF DepsInv
  <2>3. \A e \in DOMAIN deps : \A d \in deps[e] :
          d \in Names /\ (Copied(d)' \/ d \in DOMAIN deps \/ <<d, d>> \in queue)
    BY <1>2, <1>8 DEF DepsInv
  <2> QED BY <1>1, <1>2, <2>2, <2>3 DEF DepsInv
<1>11. TreeInv'
  <2>1. ASSUME NEW n \in DOMAIN tree
        PROVE  /\ n \in Names /\ host.real[n] = n /\ Up[n] \in DOMAIN tree'
               /\ IsDir(n) => host.follow[n] \in DOMAIN tree'
               /\ tree'[n] \in Names \cup {Nothing}
               /\ tree'[n] # Nothing => \A d \in Needs(tree'[n]) : Exists(d) => Copied(d)' \/ OnStack(d)'
    <3>1. tree'[n] = tree[n] BY <1>7 DEF Copied
    <3> QED BY <1>2, <1>5, <1>7, <1>8, <3>1 DEF TreeInv
  <2>2. ASSUME ~ Copied(t)
        PROVE  /\ Up[dest] \in DOMAIN tree' /\ (IsDir(dest) => host.follow[dest] \in DOMAIN tree')
               /\ tree'[dest] \in Names \cup {Nothing}
               /\ tree'[dest] # Nothing => \A d \in Needs(tree'[dest]) : Exists(d) => Copied(d)' \/ OnStack(d)'
    <3>1. /\ Up[dest] \in DOMAIN tree
          /\ IsDir(t) => host.follow[t] \in DOMAIN tree \cup {dest}
          /\ source_of[t] # Nothing => \A d \in Needs(source_of[t]) : Exists(d) => Copied(d) \/ OnStack(d)
      BY <1>1, <2>2, ReadyToCopy
    <3>2. IsDir(dest) => IsDir(t) BY <1>4 DEF IsDir
    <3>3. source_of[t] \in Names \cup {Nothing} BY <1>3 DEF Recorded
    <3>4. tree'[dest] = source_of[t] BY <1>7, <2>2
    <3> QED BY <1>4, <1>5, <1>7, <1>8, <3>1, <3>2, <3>3, <3>4
  <2>3. \A n \in DOMAIN tree' :
          /\ n \in Names /\ host.real[n] = n /\ Up[n] \in DOMAIN tree'
          /\ IsDir(n) => host.follow[n] \in DOMAIN tree'
          /\ tree'[n] \in Names \cup {Nothing}
          /\ tree'[n] # Nothing => \A d \in Needs(tree'[n]) : Exists(d) => Copied(d)' \/ OnStack(d)'
    BY <1>4, <1>7, <2>1, <2>2 DEF Copied
  <2>4. Root \in DOMAIN tree' BY <1>2, <1>7 DEF TreeInv
  <2>5. \A ask : Resolve(ask)' = Resolve(ask) BY <1>1 DEF Resolve, Found, Leads, Exists
  <2> QED BY <1>1, <2>3, <2>4, <2>5 DEF TreeInv, IsDir, Exists, Needs
<1>12. QueueInv' BY <1>1, <1>2, <1>6 DEF QueueInv
<1> QED BY <1>1, <1>5, <1>6, <1>9, <1>10, <1>11, <1>12 DEF IInv

------------------------------------------------------------------------------
(* Discovery.                                                               *)
LEMMA EmptyStack ==
  /\ stack' = <<>> => StackInv'
  /\ processed' = {} => ProcessedInv'
<1>1. stack' = <<>> => StackInv'
  <2>1. stack' = <<>> => stack' \in Seq(Names) /\ Len(stack') = 0 BY EmptySeq
  <2> QED BY <2>1 DEF StackInv
<1>2. processed' = {} => ProcessedInv' BY DEF ProcessedInv
<1> QED BY <1>1, <1>2

LEMMA SameTree ==
  ASSUME TreeInv, UNCHANGED <<host, tree>>, \A e : OnStack(e) => OnStack(e)'
  PROVE  TreeInv'
<1>1. \A ask : Resolve(ask)' = Resolve(ask) BY DEF Resolve, Found, Leads, Exists
<1> QED BY <1>1 DEF TreeInv, IsDir, Exists, Copied, Needs

LEMMA SameHost ==
  ASSUME UNCHANGED host
  PROVE  \A e : Exists(e)' = Exists(e) /\ IsDir(e)' = IsDir(e) /\ Needs(e)' = Needs(e)
<1>1. \A ask : Resolve(ask)' = Resolve(ask) BY DEF Resolve, Found, Leads, Exists
<1> QED BY <1>1 DEF Exists, IsDir, Needs

(* No directory is above itself.                                            *)
LEMMA NotAboveItself ==
  ASSUME host \in Hosts, NEW t \in Names
  PROVE  t \notin Lacking(t)
<1> DEFINE none == {d \in Names : ~ Exists(d)}
           Closed_(S, n) == \A m \in S \cup {n} : Up[m] \in none => Up[m] \in S
           D == {m \in none : t \in Lacking(m)}
<1>1. \A n : Lacking(n) = {d \in none : \A S \in SUBSET none : Closed_(S, n) => d \in S}
  BY DEF Lacking
<1>2. ASSUME NEW m \in D, t \in D PROVE Up[m] \in D
  <2>1. Up[m] \in none
    <3> SUFFICES ASSUME Up[m] \notin none PROVE FALSE OBVIOUS
    <3>1. Closed_({}, m) OBVIOUS
    <3> QED BY <1>1, <1>2, <3>1
  <2>2. CASE Up[m] = t BY <1>2, <2>2
  <2>3. CASE Up[m] # t
    <3>1. ASSUME NEW S \in SUBSET none, Closed_(S, Up[m]) PROVE t \in S
      <4>1. Closed_(S \cup {Up[m]}, m) /\ S \cup {Up[m]} \in SUBSET none BY <2>1, <3>1
      <4>2. t \in S \cup {Up[m]}
        <5> HIDE DEF Closed_
        <5> QED BY <1>1, <4>1
      <4> QED BY <2>3, <4>2
    <3>2. t \in none BY <1>1
    <3>3. t \in Lacking(Up[m])
      <4> HIDE DEF Closed_
      <4> QED BY <1>1, <3>1, <3>2
    <3> QED BY <2>1, <3>3
  <2> QED BY <2>2, <2>3
<1>3. SUFFICES ASSUME t \in D PROVE FALSE BY <1>1
<1>4. D \in SUBSET {n \in Names : host.kind[n] = "none" \/ host.kind[host.follow[n]] = "dir"}
  BY DEF Exists
<1>5. \A n \in D : Up[n] \in D
  <2> HIDE DEF D
  <2> QED BY <1>2, <1>3
<1>6. Root \notin D BY HostsAssumption DEF Entries, Exists
<1> HIDE DEF D
<1> QED BY <1>3, <1>4, <1>5, <1>6, HostsAssumption DEF Reachable

LEMMA RecordStep ==
  ASSUME IInv, phase = "discover", NEW s \in Names, NEW t \in Names, <<s, t>> \in queue, Record(s, t),
         UNCHANGED <<host, tree, call, processed, stack, calls>>
  PROVE  DepsInv' /\ QueueInv'
<1> DEFINE lacking == IF s = t THEN {} ELSE Lacking(t)
           above == {Up[n] : n \in lacking \cup {t}} \ lacking
           D == DOMAIN deps
<1>1. /\ host \in Hosts /\ DepsInv /\ QueueInv /\ D \subseteq Names
      /\ DOMAIN source_of \subseteq D /\ t \notin D /\ ~ Copied(t) /\ Exists(s)
  BY DEF IInv, DepsInv, Record
<1>2. s = t \/ (D = {} /\ queue = {<<s, t>>} /\ call = <<s, t>> /\ ~ (IsDir(s) \/ IsDir(t)))
  BY <1>1 DEF QueueInv
<1>3. /\ lacking \subseteq Names /\ \A n \in lacking : ~ Exists(n)
      /\ t \notin lacking /\ (lacking # {} => D = {})
      /\ \A n \in lacking \cup {t} : Up[n] \in Names /\ (Up[n] \in lacking \/ IsDir(Up[n]))
  <2>1. CASE s = t BY <1>1, <2>1, HostFacts
  <2>2. CASE s # t BY <1>1, <1>2, <2>2, HostFacts, LackingFacts, NotAboveItself
  <2> QED BY <2>1, <2>2
<1>4. /\ DOMAIN deps' = D \cup {t} \cup lacking
      /\ deps'[t] = Needs(s) \cup {Up[t]}
      /\ \A n \in lacking : deps'[n] = {Up[n]}
      /\ \A n \in D : n \notin lacking => deps'[n] = deps[n]
  <2> HIDE DEF lacking
  <2>1. deps' = [n \in D \cup {t} \cup lacking |->
                   CASE n = t         -> Needs(s) \cup {Up[t]}
                     [] n \in lacking -> {Up[n]}
                     [] OTHER         -> deps[n]]
    BY DEF Record, lacking
  <2> QED BY <1>1, <1>3, <2>1
<1>5. /\ DOMAIN source_of' = DOMAIN source_of \cup {t} \cup lacking
      /\ source_of'[t] = s
      /\ \A n \in lacking : source_of'[n] = Nothing
      /\ \A n \in DOMAIN source_of : source_of'[n] = source_of[n]
  <2> HIDE DEF lacking
  <2>1. source_of' = [n \in DOMAIN source_of \cup {t} \cup lacking |->
                        CASE n = t                       -> s
                          [] n \in DOMAIN source_of \ {t} -> source_of[n]
                          [] OTHER                       -> Nothing]
    BY DEF Record, lacking
  <2> QED BY <1>1, <1>3, <2>1
<1>6. queue' = (queue \ {<<s, t>>}) \cup {<<d, d>> : d \in Needs(s) \cup above} /\ phase' = phase
  BY DEF Record
<1>7. \A e : Exists(e)' = Exists(e) /\ IsDir(e)' = IsDir(e) /\ Needs(e)' = Needs(e) /\ Copied(e)' = Copied(e)
  BY SameHost DEF Copied
<1>8. Needs(s) \subseteq Names BY <1>1, HostFacts
<1>9. \A n \in lacking \cup {t} : Up[n] \in lacking \/ Up[n] \in above OBVIOUS
<1> HIDE DEF lacking, above
<1>10. \A n \in Names : InDir(n) => InDir(n)' BY <1>1, <1>5, <1>7 DEF InDir, SourceOf
<1>11. \A n \in lacking \cup {t} : InDir(Up[n])' BY <1>3, <1>5, <1>7 DEF InDir, SourceOf
<1>12. Recorded(t)'
  <2>1. s # Nothing BY NothingAssumption
  <2>2. s = t \/ ~ (IsDir(s) \/ IsDir(t)) BY <1>2
  <2> QED BY <1>1, <1>4, <1>5, <1>7, <1>8, <1>11, <2>1, <2>2 DEF Recorded
<1>13. \A n \in lacking : Recorded(n)' BY <1>3, <1>4, <1>5, <1>7, <1>11 DEF Recorded
<1>14. ASSUME NEW n \in D, n \notin lacking
       PROVE  IF SourceOf(n)' THEN Recorded(n)' ELSE deps'[n] = {} /\ ~ Exists(n)'
  <2>1. SourceOf(n)' = SourceOf(n) BY <1>1, <1>5, <1>14 DEF SourceOf
  <2>2. CASE SourceOf(n)
    <3>1. Recorded(n) /\ source_of'[n] = source_of[n] /\ deps'[n] = deps[n]
      BY <1>1, <1>4, <1>5, <1>14, <2>2 DEF DepsInv, SourceOf
    <3>2. InDir(Up[n])' BY <1>1, <1>10, <3>1, HostFacts DEF Recorded
    <3> QED BY <1>7, <2>1, <2>2, <3>1, <3>2 DEF Recorded
  <2>3. CASE ~ SourceOf(n) BY <1>1, <1>4, <1>7, <1>14, <2>1, <2>3 DEF DepsInv
  <2> QED BY <2>2, <2>3
<1>15. ASSUME NEW n \in DOMAIN deps', NEW d \in deps'[n]
       PROVE  d \in Names /\ (Copied(d) \/ d \in DOMAIN deps' \/ <<d, d>> \in queue')
  <2>1. CASE n = t BY <1>3, <1>4, <1>6, <1>8, <1>9, <1>15, <2>1
  <2>2. CASE n \in lacking BY <1>3, <1>4, <1>6, <1>9, <1>15, <2>2
  <2>3. CASE n \in D /\ n \notin lacking
    <3>1. d \in Names /\ (Copied(d) \/ d \in D \/ <<d, d>> \in queue)
      BY <1>1, <1>4, <1>15, <2>3 DEF DepsInv
    <3>2. <<d, d>> = <<s, t>> => d = t OBVIOUS
    <3> QED BY <1>4, <1>6, <3>1, <3>2
  <2> QED BY <1>4, <2>1, <2>2, <2>3
<1>16. DepsInv'
  <2>1. DOMAIN deps' \subseteq Names /\ DOMAIN source_of' \subseteq DOMAIN deps'
    BY <1>1, <1>3, <1>4, <1>5
  <2>2. SourceOf(t)' /\ \A n \in lacking : SourceOf(n)' BY <1>5 DEF SourceOf
  <2>3. \A n \in DOMAIN deps' : IF SourceOf(n)' THEN Recorded(n)' ELSE deps'[n] = {} /\ ~ Exists(n)'
    BY <1>4, <1>12, <1>13, <1>14, <2>2
  <2> QED BY <1>7, <1>15, <2>1, <2>3 DEF DepsInv
<1>17. QueueInv'
  <2>1. above \subseteq Names BY <1>3 DEF above
  <2>2. queue' \subseteq Names \X Names BY <1>1, <1>6, <1>8, <2>1 DEF QueueInv
  <2>3. ASSUME NEW p \in queue' PROVE p[1] = p[2]
    <3>1. CASE p \in queue /\ p # <<s, t>> BY <1>1, <3>1 DEF QueueInv
    <3>2. CASE p \in {<<d, d>> : d \in Needs(s) \cup above} BY <3>2
    <3> QED BY <1>6, <2>3, <3>1, <3>2
  <2>4. call = <<s, t>> => call[2] \in DOMAIN deps' BY <1>4
  <2> QED BY <1>1, <1>4, <1>6, <1>7, <2>2, <2>3, <2>4 DEF QueueInv
<1> QED BY <1>16, <1>17

LEMMA VisitStep == IInv /\ Visit => IInv'
<1> SUFFICES ASSUME IInv, Visit PROVE IInv' OBVIOUS
<1>1. /\ phase = "discover" /\ host \in Hosts /\ TreeInv /\ DepsInv /\ QueueInv /\ stack = <<>> /\ processed = {}
      /\ calls \in 0 .. MaxCalls /\ UNCHANGED <<host, tree, call, processed, stack, calls>>
  BY DEF IInv, Visit
<1>2. StackInv' /\ ProcessedInv' /\ TreeInv'
  <2>1. \A e : OnStack(e) => OnStack(e)' BY <1>1 DEF OnStack
  <2> QED BY <1>1, <2>1, EmptyStack, SameTree
<1>3. \A e : Exists(e)' = Exists(e) /\ IsDir(e)' = IsDir(e) /\ Needs(e)' = Needs(e) /\ Copied(e)' = Copied(e)
  BY <1>1, SameHost DEF Copied
<1>4. SUFFICES ASSUME NEW s \in Names, NEW t \in Names, <<s, t>> \in queue,
                      Skip(s, t) \/ NotFound(s, t) \/ Raise(s, t) \/ Record(s, t)
               PROVE  DepsInv' /\ QueueInv' /\ phase' \in {"discover", "raised"}
  <2>1. PICK p \in queue : \/ Skip(p[1], p[2])  \/ NotFound(p[1], p[2])
                           \/ Raise(p[1], p[2]) \/ Record(p[1], p[2])
    BY DEF Visit
  <2>2. p \in Names \X Names BY <1>1 DEF QueueInv
  <2>3. p[1] \in Names /\ p[2] \in Names /\ <<p[1], p[2]>> \in queue BY <2>2
  <2>4. DepsInv' /\ QueueInv' /\ phase' \in {"discover", "raised"} BY <1>4, <2>1, <2>3
  <2> QED BY <1>1, <1>2, <2>4 DEF IInv
<1>5. s = t \/ (Exists(s) /\ <<s, t>> = call /\ queue = {call} /\ DOMAIN deps = {})
  BY <1>1, <1>4 DEF QueueInv
<1>6. ASSUME NEW n \in DOMAIN deps
      PROVE  (SourceOf(n) => Recorded(n)) /\ (~ SourceOf(n) => deps[n] = {} /\ ~ Exists(n))
  BY <1>1 DEF DepsInv
<1>7. CASE Skip(s, t)
  <2>1. /\ queue' = queue \ {<<s, t>>} /\ UNCHANGED <<deps, source_of, phase>>
        /\ Copied(t) \/ t \in DOMAIN deps
    BY <1>7 DEF Skip
  <2>2. \A n : SourceOf(n)' = SourceOf(n) /\ InDir(n)' = InDir(n) BY <1>3, <2>1 DEF SourceOf, InDir
  <2>3. \A n : Recorded(n)' = Recorded(n) BY <1>3, <2>1, <2>2 DEF Recorded
  <2>4. \A d : <<d, d>> \in queue => <<d, d>> \in queue' \/ Copied(d) \/ d \in DOMAIN deps BY <2>1
  <2>5. DepsInv' BY <1>1, <1>3, <2>1, <2>2, <2>3, <2>4 DEF DepsInv
  <2>6. call = <<s, t>> => call[2] = t OBVIOUS
  <2>7. QueueInv' BY <1>1, <1>3, <2>1, <2>6 DEF QueueInv
  <2> QED BY <1>1, <2>1, <2>5, <2>7
<1>8. CASE NotFound(s, t)
  <2>1. /\ queue' = queue \ {<<s, t>>} /\ UNCHANGED <<source_of, phase>>
        /\ t \notin DOMAIN deps /\ ~ Exists(s) /\ deps' = Put(deps, t, {})
    BY <1>8 DEF NotFound
  <2>2. s = t /\ ~ Exists(t) BY <1>5, <2>1
  <2>3. DOMAIN deps' = DOMAIN deps \cup {t} /\ deps'[t] = {} /\ \A n \in DOMAIN deps : deps'[n] = deps[n]
    BY <2>1 DEF Put
  <2>4. \A n : SourceOf(n)' = SourceOf(n) /\ InDir(n)' = InDir(n) BY <1>3, <2>1 DEF SourceOf, InDir
  <2>5. \A n \in DOMAIN deps : Recorded(n) => Recorded(n)' BY <1>3, <2>1, <2>3, <2>4 DEF Recorded
  <2>6. ~ SourceOf(t) BY <1>1, <2>1 DEF DepsInv, SourceOf
  <2>7. \A d : <<d, d>> \in queue => <<d, d>> \in queue' \/ d \in DOMAIN deps' BY <2>1, <2>3
  <2>8. DepsInv'
    <3>1. DOMAIN deps' \subseteq Names /\ DOMAIN source_of' \subseteq DOMAIN deps'
      BY <1>1, <2>1, <2>3 DEF DepsInv
    <3>2. \A n \in DOMAIN deps' : IF SourceOf(n)' THEN Recorded(n)' ELSE deps'[n] = {} /\ ~ Exists(n)'
      BY <1>3, <1>6, <2>2, <2>3, <2>4, <2>5, <2>6
    <3>3. \A n \in DOMAIN deps' : \A d \in deps'[n] :
            d \in Names /\ (Copied(d)' \/ d \in DOMAIN deps' \/ <<d, d>> \in queue')
      BY <1>1, <1>3, <2>3, <2>7 DEF DepsInv
    <3> QED BY <3>1, <3>2, <3>3 DEF DepsInv
  <2>9. call = <<s, t>> => call[2] = t OBVIOUS
  <2>10. QueueInv'
    <3>1. \A p \in queue' : p[1] = p[2]
      <4>1. ASSUME NEW p \in queue' PROVE p[1] = p[2]
        <5>1. p \in queue /\ p # <<s, t>> BY <2>1
        <5>2. <<s, t>> = call => p[1] = p[2] BY <1>1, <1>5, <5>1 DEF QueueInv
        <5>3. <<s, t>> # call /\ queue = {call} => FALSE BY <1>4
        <5> QED BY <1>1, <5>1, <5>2, <5>3 DEF QueueInv
      <4> QED BY <4>1
    <3> QED BY <1>1, <1>3, <2>1, <2>3, <2>9, <3>1 DEF QueueInv
  <2> QED BY <1>1, <2>1, <2>8, <2>10
<1>9. CASE Raise(s, t)
  <2>1. phase' = "raised" /\ UNCHANGED <<queue, deps, source_of>> BY <1>9 DEF Raise
  <2>2. \A n : SourceOf(n)' = SourceOf(n) /\ InDir(n)' = InDir(n) BY <1>3, <2>1 DEF SourceOf, InDir
  <2>3. \A n : Recorded(n)' = Recorded(n) BY <1>3, <2>1, <2>2 DEF Recorded
  <2>4. DepsInv' BY <1>1, <1>3, <2>1, <2>2, <2>3 DEF DepsInv
  <2>5. QueueInv' BY <1>1, <1>3, <2>1 DEF QueueInv
  <2> QED BY <2>1, <2>4, <2>5
<1>10. CASE Record(s, t)
  <2>1. phase' = phase BY <1>10 DEF Record
  <2> QED BY <1>1, <1>4, <1>10, <2>1, RecordStep
<1> QED BY <1>4, <1>7, <1>8, <1>9, <1>10

------------------------------------------------------------------------------
(* The other steps.                                                         *)
LEMMA SameDeps ==
  ASSUME DepsInv, UNCHANGED <<host, deps, source_of, queue>>, \A e : Copied(e) => Copied(e)'
  PROVE  DepsInv'
<1>1. \A e : Exists(e)' = Exists(e) /\ Needs(e)' = Needs(e) /\ IsDir(e)' = IsDir(e) BY SameHost
<1>2. \A e : SourceOf(e)' = SourceOf(e) /\ InDir(e)' = InDir(e) BY <1>1 DEF SourceOf, InDir
<1>3. \A e : Recorded(e)' = Recorded(e) BY <1>1, <1>2 DEF Recorded
<1> QED BY <1>1, <1>2, <1>3 DEF DepsInv

LEMMA CallStep ==
  ASSUME IInv, NEW s \in Names, NEW t \in Names, Call(s, t)
  PROVE  IInv'
<1>1. /\ phase = "idle" /\ stack = <<>> /\ processed = {} /\ DOMAIN deps = {}
      /\ phase' = "discover" /\ call' = <<s, t>> /\ queue' = {<<s, t>>} /\ calls' = calls + 1 /\ calls < MaxCalls
      /\ Exists(s) /\ (s = t \/ ~ (IsDir(s) \/ IsDir(t)))
      /\ UNCHANGED <<host, tree, deps, source_of, processed, stack>>
  BY DEF IInv, Call
<1>2. calls' \in 0 .. MaxCalls BY <1>1, CallsAssumption DEF IInv
<1>3. StackInv' /\ ProcessedInv' /\ TreeInv'
  <2>1. \A e : OnStack(e) => OnStack(e)' BY <1>1 DEF OnStack
  <2> QED BY <1>1, <2>1, EmptyStack, SameTree DEF IInv
<1>4. DepsInv' BY <1>1 DEF IInv, DepsInv
<1>5. \A e : Exists(e)' = Exists(e) /\ IsDir(e)' = IsDir(e) BY <1>1, SameHost
<1>6. QueueInv' BY <1>1, <1>5 DEF QueueInv
<1> QED BY <1>1, <1>2, <1>3, <1>4, <1>6 DEF IInv

LEMMA MakeStep ==
  ASSUME IInv, NEW n \in Names, Make(n)
  PROVE  IInv'
<1>1. /\ phase = "idle" /\ host \in Hosts /\ TreeInv /\ DepsInv /\ stack = <<>> /\ processed = {} /\ queue = {}
      /\ n \notin DOMAIN tree /\ host.real[n] = n /\ Up[n] \in DOMAIN tree /\ (IsDir(n) => host.kind[n] = "dir")
      /\ tree' = Put(tree, n, Nothing)
      /\ UNCHANGED <<host, phase, call, queue, deps, source_of, processed, stack, calls>>
  BY DEF IInv, Make
<1>2. DOMAIN tree' = DOMAIN tree \cup {n} /\ tree'[n] = Nothing /\ \A m \in DOMAIN tree : tree'[m] = tree[m]
  BY <1>1 DEF Put
<1>3. \A e : Copied(e) => Copied(e)' BY <1>1, <1>2 DEF Copied
<1>4. IsDir(n) => host.follow[n] = n BY <1>1, HostsAssumption DEF Paths
<1>5. \A e : Exists(e)' = Exists(e) /\ IsDir(e)' = IsDir(e) /\ Needs(e)' = Needs(e)
  BY <1>1, SameHost
<1>6. \A e : OnStack(e) => OnStack(e)' BY <1>1 DEF OnStack
<1>7. TreeInv'
  <2>1. ASSUME NEW m \in DOMAIN tree'
        PROVE  /\ m \in Names /\ host.real[m] = m /\ Up[m] \in DOMAIN tree'
               /\ IsDir(m) => host.follow[m] \in DOMAIN tree'
               /\ tree'[m] \in Names \cup {Nothing}
               /\ tree'[m] # Nothing => \A d \in Needs(tree'[m]) : Exists(d) => Copied(d)' \/ OnStack(d)'
    <3>1. CASE m = n BY <1>1, <1>2, <1>4, <3>1
    <3>2. CASE m # n
      <4>1. m \in DOMAIN tree /\ tree'[m] = tree[m] BY <1>2, <2>1, <3>2
      <4> QED BY <1>1, <1>2, <1>3, <1>6, <4>1 DEF TreeInv
    <3> QED BY <3>1, <3>2
  <2>2. \A ask : Resolve(ask)' = Resolve(ask) BY <1>1 DEF Resolve, Found, Leads, Exists
  <2>3. Root \in DOMAIN tree' BY <1>1, <1>2 DEF TreeInv
  <2> QED BY <1>1, <2>1, <2>2, <2>3 DEF TreeInv, IsDir, Exists, Needs
<1>8. DepsInv' BY <1>1, <1>3, SameDeps
<1>9. StackInv' /\ ProcessedInv' BY <1>1, EmptyStack
<1>10. QueueInv' BY <1>1 DEF QueueInv
<1> QED BY <1>1, <1>7, <1>8, <1>9, <1>10 DEF IInv

(* Both steps that process a name: nothing is left in the queue then.       *)
LEMMA EnteredStep ==
  ASSUME IInv, queue = {}, phase \in {"discover", "copy"}, NEW d \in Names \ processed, Enter(d), phase' = "copy",
         UNCHANGED <<host, tree, call, queue, deps, source_of, calls>>,
         Copied(d) \/ d \in DOMAIN deps, stack = <<>> \/ d \in deps[Head(stack)]
  PROVE  IInv'
<1>1. host \in Hosts /\ DepsInv /\ StackInv /\ ProcessedInv /\ TreeInv BY DEF IInv
<1>2. StackInv' /\ ProcessedInv' /\ \A e : OnStack(e) => OnStack(e)' BY <1>1, EnterStep
<1>3. TreeInv' BY <1>1, <1>2, SameTree
<1>4. \A e : Copied(e) => Copied(e)' BY DEF Copied
<1>5. DepsInv' BY <1>1, <1>4, SameDeps
<1>6. QueueInv' BY DEF QueueInv
<1> QED BY <1>1, <1>2, <1>3, <1>5, <1>6 DEF IInv

LEMMA ProcessStep == IInv /\ Process => IInv'
<1> SUFFICES ASSUME IInv, Process PROVE IInv' OBVIOUS
<1>1. /\ phase = "discover" /\ queue = {} /\ Enter(call[2]) /\ phase' = "copy" /\ stack = <<>> /\ processed = {}
      /\ UNCHANGED <<host, tree, call, queue, deps, source_of, calls>>
  BY DEF IInv, Process
<1>2. call \in Names \X Names /\ (Copied(call[2]) \/ call[2] \in DOMAIN deps)
  BY <1>1 DEF IInv, QueueInv
<1>3. call[2] \in Names \ processed BY <1>1, <1>2
<1> QED BY <1>1, <1>2, <1>3, EnteredStep

LEMMA DescendStep == IInv /\ Descend => IInv'
<1> SUFFICES ASSUME IInv, Descend PROVE IInv' OBVIOUS
<1>1. PICK d \in Left(Head(stack)) : Enter(d) BY DEF Descend
<1>2. /\ phase = "copy" /\ stack # <<>> /\ phase' = "copy" /\ queue = {}
      /\ UNCHANGED <<host, tree, call, queue, deps, source_of, calls>>
  BY DEF IInv, Descend
<1>3. d \in deps[Head(stack)] /\ d \notin processed BY DEF Left
<1>4. Head(stack) \in DOMAIN deps BY <1>2, Top DEF IInv, StackInv, DepsInv, SourceOf
<1>5. d \in Names /\ (Copied(d) \/ d \in DOMAIN deps) BY <1>2, <1>3, <1>4 DEF IInv, DepsInv
<1> QED BY <1>1, <1>2, <1>3, <1>5, EnteredStep

LEMMA ReturnStep == IInv /\ Return => IInv'
<1> SUFFICES ASSUME IInv, Return PROVE IInv' OBVIOUS
<1>1. /\ phase = "copy" /\ stack = <<>> /\ phase' = "idle" /\ deps' = Empty /\ source_of' = Empty /\ processed' = {}
      /\ queue = {} /\ UNCHANGED <<host, tree, queue, stack, calls>>
  BY DEF IInv, Return
<1>2. DOMAIN deps' = {} /\ DOMAIN source_of' = {} BY <1>1 DEF Empty
<1>3. \A e : OnStack(e) => OnStack(e)' BY <1>1 DEF OnStack
<1>4. StackInv' /\ ProcessedInv' /\ TreeInv' BY <1>1, <1>3, EmptyStack, SameTree DEF IInv
<1>5. DepsInv' BY <1>2 DEF DepsInv
<1>6. QueueInv' BY <1>1 DEF QueueInv
<1> QED BY <1>1, <1>2, <1>4, <1>5, <1>6 DEF IInv

LEMMA InitInv == Init => IInv
<1> SUFFICES ASSUME Init PROVE IInv OBVIOUS
<1>1. /\ host \in Hosts /\ DOMAIN tree = {Root} /\ tree[Root] = Nothing /\ phase = "idle" /\ queue = {}
      /\ DOMAIN deps = {} /\ DOMAIN source_of = {} /\ processed = {} /\ stack = <<>> /\ calls = 0
  BY DEF Init, Put, Empty
<1>2. host.kind[Root] = "dir" /\ host.real[Root] = Root /\ host.follow[Root] = Root
  BY <1>1, HostsAssumption, UpAssumption DEF Entries, Paths
<1>3. TreeInv BY <1>1, <1>2, UpAssumption DEF TreeInv
<1>4. DepsInv BY <1>1 DEF DepsInv
<1>5. QueueInv BY <1>1 DEF QueueInv
<1>6. StackInv BY <1>1, EmptySeq DEF StackInv
<1>7. ProcessedInv BY <1>1 DEF ProcessedInv
<1> QED BY <1>1, <1>3, <1>4, <1>5, <1>6, <1>7, CallsAssumption DEF IInv

LEMMA StepInv == IInv /\ [Next]_vars => IInv'
<1> SUFFICES ASSUME IInv, [Next]_vars PROVE IInv' OBVIOUS
<1>1. ASSUME NEW s \in Names, NEW t \in Names, Call(s, t) PROVE IInv' BY <1>1, CallStep
<1>2. ASSUME NEW n \in Names, Make(n) PROVE IInv' BY <1>2, MakeStep
<1>3. CASE Visit BY <1>3, VisitStep
<1>4. CASE Process BY <1>4, ProcessStep
<1>5. CASE Descend BY <1>5, DescendStep
<1>6. CASE Copy BY <1>6, CopyStep
<1>7. CASE Return BY <1>7, ReturnStep
<1>8. CASE UNCHANGED vars
  <2>1. UNCHANGED <<host, tree, phase, call, queue, deps, source_of, processed, stack, calls>>
    BY <1>8 DEF vars
  <2>2. host \in Hosts /\ TreeInv /\ DepsInv /\ QueueInv /\ StackInv /\ ProcessedInv BY DEF IInv
  <2>3. \A e : /\ Exists(e)' = Exists(e) /\ IsDir(e)' = IsDir(e) /\ Copied(e)' = Copied(e)
               /\ OnStack(e)' = OnStack(e) /\ SourceOf(e)' = SourceOf(e) /\ InDir(e)' = InDir(e)
    BY <2>1 DEF Exists, IsDir, Copied, OnStack, SourceOf, InDir
  <2>4. TreeInv' /\ DepsInv' BY <2>1, <2>2, <2>3, SameTree, SameDeps
  <2>5. QueueInv' /\ ProcessedInv' BY <2>1, <2>2, <2>3 DEF QueueInv, ProcessedInv
  <2>6. StackInv' BY <2>1, <2>2, <2>3 DEF StackInv
  <2> QED BY <2>1, <2>4, <2>5, <2>6 DEF IInv
<1> QED BY <1>1, <1>2, <1>3, <1>4, <1>5, <1>6, <1>7, <1>8 DEF Next

LEMMA IInvAlways == Spec => []IInv
  BY InitInv, StepInv, PTL DEF Spec

------------------------------------------------------------------------------
(* The program keeps its variables in their types, and process() only       *)
(* works on what has a source.                                              *)
THEOREM CopierTypes == Spec => []TypeOK
<1>1. IInv => TypeOK
  <2> SUFFICES ASSUME IInv PROVE TypeOK OBVIOUS
  <2>1. DOMAIN tree \subseteq Names /\ Root \in DOMAIN tree BY DEF IInv, TreeInv
  <2>2. /\ DOMAIN deps \subseteq Names /\ DOMAIN source_of \subseteq DOMAIN deps
        /\ \A n \in DOMAIN deps : deps[n] \subseteq Names
    BY DEF IInv, DepsInv
  <2>3. \A n \in DOMAIN source_of : source_of[n] \in Names \cup {Nothing}
    BY <2>2 DEF IInv, DepsInv, SourceOf, Recorded
  <2>4. \A i \in DOMAIN stack : stack[i] \in processed \cap DOMAIN source_of
    BY LenProperties DEF IInv, StackInv, SourceOf
  <2> QED BY <2>1, <2>2, <2>3, <2>4 DEF IInv, QueueInv, ProcessedInv, TypeOK
<1> QED BY <1>1, IInvAlways, PTL

(* copy() always finds the directory it writes to, whatever cycles the      *)
(* dependencies make and whichever order process() takes them in.           *)
THEOREM DirectoriesFirst == Spec => []ParentsFirst
<1>1. IInv => ParentsFirst BY DEF IInv, TreeInv, ParentsFirst
<1> QED BY <1>1, IInvAlways, PTL

(* When a call ends, what is in the tree has all it needs in the tree, so   *)
(* that later calls may stop their search at it.                            *)
THEOREM NothingLeftOut == Spec => []Closed
<1>1. IInv => Closed
  <2> SUFFICES ASSUME IInv, phase \in {"idle", "raised"}, NEW n \in DOMAIN tree, tree[n] # Nothing,
                      NEW d \in Needs(tree[n]), Exists(d)
               PROVE  Copied(d)
    BY DEF Closed
  <2>1. stack = <<>> BY DEF IInv
  <2>2. ~ OnStack(d) BY <2>1 DEF OnStack
  <2> QED BY <2>2 DEF IInv, TreeInv
<1> QED BY <1>1, IInvAlways, PTL

=============================================================================
