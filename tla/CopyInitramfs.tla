---------------------------- MODULE CopyInitramfs ----------------------------
(***************************************************************************)
(* copy-initramfs.py of generate-initramfs: one call copies a file of the   *)
(* build system into the tree of the initramfs, with what it needs at run   *)
(* time.  A call first discovers a graph of dependencies, which may have    *)
(* cycles, then copies depth first.  The modules of generate-initramfs make *)
(* many calls for one tree, and write to the tree themselves in between.    *)
(*                                                                          *)
(* A name is an absolute path as it is written somewhere; real[n] is the    *)
(* path without symbolic links in its directory part, of which a tree can   *)
(* have an entry, and follow[n] the path without any symbolic links.        *)
(***************************************************************************)
EXTENDS Naturals, Sequences, SequencesExt

CONSTANTS
  Names,     \* paths
  Root,      \* the path /
  Up,        \* os.path.dirname
  Nothing,   \* None, as a source
  Hosts,     \* the build systems to start from
  MaxCalls   \* bound on the calls for one tree

(* What a file, link or unit asks for: the paths a resolver tries, in this  *)
(* order.  A resolver that finds none of them returns one all the same; a   *)
(* soname of a dlopen note that is not found ends the program.              *)
Asks == [tries : Seq(Names) \ {<<>>}, must : BOOLEAN]

ASSUME UpAssumption == Root \in Names /\ Up \in [Names -> Names] /\ Up[Root] = Root
ASSUME NothingAssumption == Nothing \notin Names
ASSUME CallsAssumption == MaxCalls \in Nat

(* In a host, `kind' and `asks' of a name are those of real[n].  A link     *)
(* asks for the path it leads to.  Nothing is written below a file.         *)
Paths(h) ==
  /\ h.real \in [Names -> Names] /\ h.follow \in [Names -> Names]
  /\ \A n \in Names :
       /\ h.real[h.real[n]] = h.real[n] /\ Up[h.real[n]] = h.follow[Up[n]]
       /\ h.real[h.follow[Up[n]]] = h.follow[Up[n]]
       /\ IF h.kind[n] = "link"
          THEN \E d \in Names : /\ h.asks[n] = {[tries |-> <<d>>, must |-> FALSE]}
                                /\ h.follow[n] = h.follow[d]
          ELSE h.follow[n] = h.real[n]

Entries(h) ==
  /\ h.kind \in [Names -> {"none", "dir", "link", "file"}]
  /\ \A n \in Names :
       /\ h.kind[n] = h.kind[h.real[n]] /\ h.asks[n] = h.asks[h.real[n]]
       /\ h.asks[n] \subseteq Asks
       /\ h.kind[n] \in {"none", "dir"} => h.asks[n] = {}
       /\ h.kind[n] # "none" => h.kind[Up[n]] # "none"
       /\ h.kind[Up[n]] # "none" => h.kind[h.follow[Up[n]]] = "dir"
  /\ h.kind[Root] = "dir" /\ h.real[Root] = Root

(* Directories, links to them and what is on no host can be reached: of     *)
(* any of them, one is neither in another one nor a link to it.             *)
Reachable(h) ==
  \A S \in SUBSET {n \in Names : h.kind[n] = "none" \/ h.kind[h.follow[n]] = "dir"} :
    S # {} => \E n \in S : (n # Root => Up[n] \notin S) /\ \A ask \in h.asks[n] : ask.tries[1] \notin S

ASSUME HostsAssumption == \A h \in Hosts : Paths(h) /\ Entries(h) /\ Reachable(h)

VARIABLES
  host,       \* the build system
  tree,       \* what the entries of the initramfs were copied from
  phase,      \* where the program stands
  call,       \* source and dest of the call
  queue,      \* pairs of source and target to visit
  deps,       \* dependencies
  source_of,  \* source_of
  processed,  \* processed
  stack,      \* the calls of process(), innermost first
  calls       \* calls made

vars == <<host, tree, phase, call, queue, deps, source_of, processed, stack, calls>>

Put(f, n, v) == [m \in DOMAIN f \cup {n} |-> IF m = n THEN v ELSE f[m]]
Empty == [n \in {} |-> Nothing]

Exists(n) == host.kind[n] # "none"
Copied(n) == host.real[n] \in DOMAIN tree

(* os.path.isdir, which follows the link.                                   *)
IsDir(n) == host.kind[host.follow[n]] = "dir"

Init ==
  /\ host \in Hosts
  /\ tree = Put(Empty, Root, Nothing)
  /\ phase = "idle" /\ call = <<Nothing, Nothing>> /\ queue = {} /\ deps = Empty
  /\ source_of = Empty /\ processed = {} /\ stack = <<>> /\ calls = 0

------------------------------------------------------------------------------
(* get_dependencies and the resolvers, for which a link to nothing is none. *)
Leads(n) == Exists(host.follow[n])
Found(ask) == \E i \in DOMAIN ask.tries : Leads(ask.tries[i])

Resolve(ask) ==
  IF Found(ask)
  THEN ask.tries[CHOOSE i \in DOMAIN ask.tries :
                   /\ Leads(ask.tries[i])
                   /\ \A j \in 1 .. i - 1 : ~ Leads(ask.tries[j])]
  ELSE ask.tries[1]

Needs(n) == {Resolve(ask) : ask \in host.asks[n]}
Raises(n) == \E ask \in host.asks[n] : ask.must /\ ~ Found(ask)

(* The directories above t that the host lacks, up to the first it has.     *)
Lacking(t) ==
  LET missing == {d \in Names : ~ Exists(d)} IN
  {d \in missing : \A S \in SUBSET missing :
     (\A n \in S \cup {t} : Up[n] \in missing => Up[n] \in S) => d \in S}

------------------------------------------------------------------------------
(* install_file_at_path, for a source that exists when links are followed.  *)
(* The modules install a file under another name where the host has no      *)
(* directory, and write no entries where the host has a link to one.        *)
Call(s, t) ==
  /\ phase = "idle" /\ calls < MaxCalls /\ Exists(s)
  /\ host.kind[s] = "link" => \A d \in Needs(s) : Exists(d)
  /\ s # t => ~ IsDir(s) /\ ~ IsDir(t)
  /\ phase' = "discover" /\ call' = <<s, t>> /\ queue' = {<<s, t>>}
  /\ calls' = calls + 1
  /\ UNCHANGED <<host, tree, deps, source_of, processed, stack>>

(* A module makes an entry in the tree itself, with mkdir -p, touch, ln.    *)
Make(n) ==
  /\ phase = "idle" /\ n \notin DOMAIN tree
  /\ host.real[n] = n /\ Up[n] \in DOMAIN tree /\ (IsDir(n) => host.kind[n] = "dir")
  /\ tree' = Put(tree, n, Nothing)
  /\ UNCHANGED <<host, phase, call, queue, deps, source_of, processed, stack, calls>>

(* An iteration of the loop in main.  The queue is a stack in the code; any *)
(* order of visits is allowed here.                                         *)
Skip(s, t) ==
  /\ Copied(t) \/ t \in DOMAIN deps
  /\ queue' = queue \ {<<s, t>>}
  /\ UNCHANGED <<deps, source_of, phase>>

NotFound(s, t) ==
  /\ ~ Copied(t) /\ t \notin DOMAIN deps /\ ~ Exists(s)
  /\ deps' = Put(deps, t, {})
  /\ queue' = queue \ {<<s, t>>}
  /\ UNCHANGED <<source_of, phase>>

Raise(s, t) ==
  /\ ~ Copied(t) /\ t \notin DOMAIN deps /\ Exists(s) /\ Raises(s)
  /\ phase' = "raised"
  /\ UNCHANGED <<queue, deps, source_of>>

\* Mutant of Record: the directory of an entry is searched, but not a dependency of it.
Record_NoParent(s, t) ==
  /\ ~ Copied(t) /\ t \notin DOMAIN deps /\ Exists(s) /\ ~ Raises(s)
  /\ deps' = Put(deps, t, Needs(s)) /\ source_of' = Put(source_of, t, s)
  /\ queue' = (queue \ {<<s, t>>}) \cup {<<d, d>> : d \in Needs(s) \cup {Up[t]}}
  /\ UNCHANGED phase

\* Mutant of Record: a library found by another file is not searched in its turn.
Record_NoQueue(s, t) ==
  LET lacking == IF s = t THEN {} ELSE Lacking(t)
      above   == {Up[n] : n \in lacking \cup {t}} \ lacking
  IN
  /\ ~ Copied(t) /\ t \notin DOMAIN deps /\ Exists(s) /\ ~ Raises(s)
  /\ deps' = [n \in DOMAIN deps \cup {t} \cup lacking |->
                IF n = t THEN Needs(s) \cup {Up[t]} ELSE IF n \in lacking THEN {Up[n]} ELSE deps[n]]
  /\ source_of' = [n \in DOMAIN source_of \cup {t} \cup lacking |->
                     IF n = t THEN s ELSE IF n \in DOMAIN source_of THEN source_of[n] ELSE Nothing]
  /\ queue' = (queue \ {<<s, t>>}) \cup {<<d, d>> : d \in above}
             \cup (IF host.kind[s] = "link" THEN {<<d, d>> : d \in Needs(s)} ELSE {})
  /\ UNCHANGED phase

(* A directory that is not on the host has no source, and asks only for the *)
(* one above it.                                                            *)
Record(s, t) ==
  LET lacking == IF s = t THEN {} ELSE Lacking(t)
      above   == {Up[n] : n \in lacking \cup {t}} \ lacking
  IN
  /\ ~ Copied(t) /\ t \notin DOMAIN deps /\ Exists(s) /\ ~ Raises(s)
  /\ deps' = [n \in DOMAIN deps \cup {t} \cup lacking |->
                CASE n = t         -> Needs(s) \cup {Up[t]}
                  [] n \in lacking -> {Up[n]}
                  [] OTHER         -> deps[n]]
  /\ source_of' = [n \in DOMAIN source_of \cup {t} \cup lacking |->
                     CASE n = t                     -> s
                       [] n \in DOMAIN source_of \ {t} -> source_of[n]
                       [] OTHER                     -> Nothing]
  /\ queue' = (queue \ {<<s, t>>}) \cup {<<d, d>> : d \in Needs(s) \cup above}
  /\ UNCHANGED phase

Visit ==
  /\ phase = "discover"
  /\ \E p \in queue : \/ Skip(p[1], p[2])  \/ NotFound(p[1], p[2])
                      \/ Raise(p[1], p[2]) \/ Record(p[1], p[2])
  /\ UNCHANGED <<host, tree, call, processed, stack, calls>>

\* Mutant of Enter: what was not found is copied too.
Enter_NoSource(t) ==
  /\ processed' = processed \cup {t}
  /\ stack' = <<t>> \o stack

(* process(t) marks t at once; without a source there is nothing to copy.   *)
Enter(t) ==
  /\ processed' = processed \cup {t}
  /\ stack' = IF t \in DOMAIN source_of THEN <<t>> \o stack ELSE stack

Process ==
  /\ phase = "discover" /\ queue = {}
  /\ phase' = "copy"
  /\ Enter(call[2])
  /\ UNCHANGED <<host, tree, call, queue, deps, source_of, calls>>

Left(t) == deps[t] \ processed

\* Mutant of Descend: a dependency is processed again although it is already on the way.
Descend_Again ==
  /\ phase = "copy" /\ stack # <<>>
  /\ \E d \in deps[Head(stack)] : ~ Copied(d) /\ Enter(d)
  /\ UNCHANGED <<host, tree, phase, call, queue, deps, source_of, calls>>

Descend ==
  /\ phase = "copy" /\ stack # <<>>
  /\ \E d \in Left(Head(stack)) : Enter(d)
  /\ UNCHANGED <<host, tree, phase, call, queue, deps, source_of, calls>>

(* copy(): the directory of the new entry must be in the tree.              *)
Copy ==
  /\ phase = "copy" /\ stack # <<>> /\ Left(Head(stack)) = {}
  /\ LET t == Head(stack)  dest == host.real[t] IN
       IF Copied(t) \/ Up[dest] \in DOMAIN tree
       THEN /\ tree' = IF Copied(t) THEN tree ELSE Put(tree, dest, source_of[t])
            /\ phase' = phase
       ELSE /\ phase' = "crashed" /\ tree' = tree
  /\ stack' = Tail(stack)
  /\ UNCHANGED <<host, call, queue, deps, source_of, processed, calls>>

(* The program exits, and what it kept in memory is gone.                   *)
Return ==
  /\ phase = "copy" /\ stack = <<>>
  /\ phase' = "idle" /\ call' = <<Nothing, Nothing>>
  /\ deps' = Empty /\ source_of' = Empty /\ processed' = {}
  /\ UNCHANGED <<host, tree, queue, stack, calls>>

Next ==
  \/ \E s, t \in Names : Call(s, t)
  \/ \E n \in Names : Make(n)
  \/ Visit \/ Process \/ Descend \/ Copy \/ Return

Spec == Init /\ [][Next]_vars

(* The program runs on by itself.                                           *)
FairSpec == Spec /\ WF_vars(Visit \/ Process \/ Descend \/ Copy \/ Return)

------------------------------------------------------------------------------
(* The variables keep their types; what is on the stack has a source.       *)
TypeOK ==
  /\ host \in Hosts /\ calls \in 0 .. MaxCalls
  /\ phase \in {"idle", "discover", "copy", "raised", "crashed"}
  /\ DOMAIN tree \subseteq Names /\ Root \in DOMAIN tree
  /\ queue \subseteq Names \X Names
  /\ DOMAIN deps \subseteq Names /\ \A n \in DOMAIN deps : deps[n] \subseteq Names
  /\ DOMAIN source_of \subseteq DOMAIN deps
  /\ \A n \in DOMAIN source_of : source_of[n] \in Names \cup {Nothing}
  /\ processed \subseteq Names
  /\ \A i \in DOMAIN stack : stack[i] \in processed \cap DOMAIN source_of

(* process() copies a directory before anything in it, whatever cycles the  *)
(* libraries, links and units make: mkdir, symlink and copy2 always find    *)
(* the directory they write to (os.makedirs is commented out in copy()).    *)
ParentsFirst ==
  /\ phase # "crashed"
  /\ \A n \in DOMAIN tree : Up[n] \in DOMAIN tree

(* Between calls, and when a call ends the build because of a dependency it *)
(* did not find, everything that was copied has what it needs in the tree,  *)
(* as far as the host has it, under the name by which it is asked for.      *)
(* is_already_copied() relies on this when it prunes the search at entries  *)
(* of earlier calls.                                                        *)
Closed ==
  phase \in {"idle", "raised"} =>
    \A n \in DOMAIN tree :
      tree[n] # Nothing =>
        \A d \in Needs(tree[n]) : Exists(d) => Copied(d)

(* Discovery and copying end, whatever cycles there are.                    *)
Ends == phase \in {"discover", "copy"} ~> phase \in {"idle", "raised"}

=============================================================================
