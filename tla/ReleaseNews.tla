----------------------------- MODULE ReleaseNews -----------------------------
(***************************************************************************)
(* The pipelines of release tags: generate_archive.sh packs the tag with a  *)
(* NEWS file that write_news.py makes by comparing it with an earlier       *)
(* release, fetched from download.gnome.org; the release service puts the   *)
(* archive there; create_announcement.py posts a stable release.            *)
(*                                                                          *)
(* A release holds a version of each core module, or none.  The NEWS file   *)
(* of version v of a module has one entry for each version up to v.         *)
(***************************************************************************)
EXTENDS Integers, Sequences

CONSTANTS
  Modules,   \* modules of the core directories
  Plans,     \* the versions to be tagged, in order
  Earlier,   \* releases there are, with what they hold
  Silent,    \* tarballs without a NEWS file, as pairs of module and version
  MaxBumps,  \* bound on new versions of modules
  MaxDrops   \* bound on removals of modules

Alpha == -3
Beta  == -2
Rc    == -1
Version == [major : Nat, minor : {n \in Int : n >= Alpha}]
Tags == UNION {{p[i] : i \in DOMAIN p} : p \in Plans}
Absent == 0

(* The tags of a branch have ascending versions, later than what is already *)
(* released, and so no version is tagged twice.                             *)
Precedes(v, w) == v.major < w.major \/ (v.major = w.major /\ v.minor < w.minor)

ASSUME PlansAssumption ==
  \A p \in Plans :
    /\ p \in Seq(Version) /\ Len(p) > 0
    /\ \A i, j \in DOMAIN p : i < j => Precedes(p[i], p[j])
    /\ \A v \in DOMAIN Earlier, i \in DOMAIN p : Precedes(v, p[i])
ASSUME EarlierAssumption == DOMAIN Earlier \subseteq Version /\ \A v \in DOMAIN Earlier : Earlier[v] \in [Modules -> Nat]
ASSUME BoundsAssumption == MaxBumps \in Nat /\ MaxDrops \in Nat

VARIABLES
  plan,      \* the versions to be tagged
  tagged,    \* how many are
  tree,      \* the modules on the branch, with their versions
  newest,    \* the newest version of each module so far
  bumps, drops,
  contents,  \* what each release or tag holds
  at,        \* where the pipeline of each tag stands
  news,      \* the NEWS files of the tags archived
  published, \* releases on download.gnome.org
  posted     \* the announcements, by version: whether it says it is the last

vars == <<plan, tagged, tree, newest, bumps, drops, contents, at, news, published, posted>>
branch == <<tree, newest, bumps, drops>>

Put(f, x, y) == [z \in DOMAIN f \cup {x} |-> IF z = x THEN y ELSE f[z]]
Empty == [x \in {} |-> 0]

Init ==
  /\ plan \in Plans /\ tagged = 0
  /\ contents = Earlier /\ published = DOMAIN Earlier
  /\ tree \in {Earlier[v] : v \in DOMAIN Earlier} /\ newest = tree
  /\ \A v \in DOMAIN Earlier, m \in Modules : Earlier[v][m] <= newest[m]
  /\ bumps = 0 /\ drops = 0
  /\ at = Empty /\ news = Empty /\ posted = Empty

------------------------------------------------------------------------------
(* Merge requests on the branch: a module gets a new version, the first     *)
(* time too, or is removed.                                                 *)
Bump(m) ==
  /\ bumps < MaxBumps /\ bumps' = bumps + 1
  /\ newest' = [newest EXCEPT ![m] = @ + 1] /\ tree' = [tree EXCEPT ![m] = newest'[m]]
  /\ UNCHANGED <<plan, tagged, drops, contents, at, news, published, posted>>

Drop(m) ==
  /\ tree[m] # Absent /\ drops < MaxDrops /\ drops' = drops + 1
  /\ tree' = [tree EXCEPT ![m] = Absent]
  /\ UNCHANGED <<plan, tagged, newest, bumps, contents, at, news, published, posted>>

Tag ==
  /\ tagged < Len(plan) /\ tagged' = tagged + 1
  /\ contents' = Put(contents, plan[tagged'], tree)
  /\ at' = Put(at, plan[tagged'], "archive")
  /\ UNCHANGED <<plan, branch, news, published, posted>>

------------------------------------------------------------------------------
(* The release that v is compared with.                                     *)
decrement_gnome_version(v) ==
  CASE v.minor = Alpha -> [major |-> v.major - 1, minor |-> 0]
    [] v.minor = 0     -> [major |-> v.major - 1, minor |-> Rc]
    [] OTHER           -> [v EXCEPT !.minor = @ - 1]

Has(c) == {m \in Modules : c[m] # Absent}
Updates(c, d) == {m \in Has(c) \cap Has(d) : c[m] # d[m]}

(* The notes of a module: the entries its NEWS file has and the old one did *)
(* not, none at all if there was no old one.                                *)
diff_news(m, old, new) == IF <<m, old>> \in Silent THEN {} ELSE (old + 1)..new

\* Mutant of NewsFile: the two archives are swapped.
NewsFile_Swapped(old, new) ==
  [added |-> Has(old) \ Has(new), removed |-> Has(new) \ Has(old),
   updated |-> Updates(new, old), notes |-> [m \in Updates(old, new) |-> diff_news(m, new[m], old[m])]]

(* compare_tarball_lists, and what is printed.                              *)
NewsFile(old, new) ==
  [added |-> Has(new) \ Has(old), removed |-> Has(old) \ Has(new),
   updated |-> Updates(old, new), notes |-> [m \in Updates(old, new) |-> diff_news(m, old[m], new[m])]]

(* decrement_gnome_version raises past the tenth point release; diff_news   *)
(* reads lines it does not have when a module's NEWS file is gone.          *)
Raises(v) ==
  \/ v.minor > 10
  \/ LET old == decrement_gnome_version(v)
     IN  /\ old \in published
         /\ \E m \in Updates(contents[old], contents[v]) :
              <<m, contents[old][m]>> \notin Silent /\ <<m, contents[v][m]>> \in Silent

(* The job fails unless the older release is on the server.                 *)
Archive(v) ==
  /\ at[v] = "archive" /\ ~Raises(v)
  /\ LET old == decrement_gnome_version(v)
     IN  old \in published /\ news' = Put(news, v, NewsFile(contents[old], contents[v]))
  /\ at' = [at EXCEPT ![v] = "release"]
  /\ UNCHANGED <<plan, tagged, branch, contents, published, posted>>

(* A download may fail as well.                                             *)
Fail(v) ==
  /\ at[v] = "archive" /\ at' = [at EXCEPT ![v] = "failed"]
  /\ UNCHANGED <<plan, tagged, branch, contents, news, published, posted>>

\* Mutant of Retry: the release service runs without the archive.
Retry_Skip(v) ==
  /\ at[v] = "failed" /\ at' = [at EXCEPT ![v] = "release"]
  /\ UNCHANGED <<plan, tagged, branch, contents, news, published, posted>>

(* The job is run again.                                                    *)
Retry(v) ==
  /\ at[v] = "failed" /\ at' = [at EXCEPT ![v] = "archive"]
  /\ UNCHANGED <<plan, tagged, branch, contents, news, published, posted>>

(* The release service publishes what make-git-archive left.                *)
Release(v) ==
  /\ at[v] = "release" /\ at' = [at EXCEPT ![v] = "announce"]
  /\ published' = published \cup {v}
  /\ UNCHANGED <<plan, tagged, branch, contents, news, posted>>

------------------------------------------------------------------------------
(* Python compares a string and a number as different.                      *)
Str(n) == [type |-> "str", value |-> n]
Num(n) == [type |-> "int", value |-> n]
is_stable(v) == v.minor >= 0

(* The announcement says it is the last one: final_notice.                  *)
FinalNotice(minor) == minor = Num(10)

(* main takes the minor version from the tag, a string; .0 and what is not  *)
(* stable is not posted.                                                    *)
Announce(v) ==
  /\ at[v] = "announce" /\ v.minor <= 10
  /\ at' = [at EXCEPT ![v] = "done"]
  /\ posted' = IF v.minor # 0 /\ is_stable(v) THEN Put(posted, v, FinalNotice(Str(v.minor))) ELSE posted
  /\ UNCHANGED <<plan, tagged, branch, contents, news, published>>

Pipeline(v) == Archive(v) \/ Retry(v) \/ Release(v) \/ Announce(v)
Next ==
  \/ \E m \in Modules : Bump(m) \/ Drop(m)
  \/ Tag
  \/ \E v \in DOMAIN at : Pipeline(v) \/ Fail(v)

Spec == Init /\ [][Next]_vars

------------------------------------------------------------------------------
(* Types, and which tags have a NEWS file, an archive on the server and an  *)
(* announcement (generate_archive.sh, .gitlab-ci.yml:453-492).              *)
TypeOK ==
  /\ plan \in Plans /\ tagged \in 0..Len(plan)
  /\ tree \in [Modules -> Nat] /\ newest \in [Modules -> Nat]
  /\ \A m \in Modules : tree[m] \in {Absent, newest[m]}
  /\ bumps \in 0..MaxBumps /\ drops \in 0..MaxDrops
  /\ DOMAIN at = {plan[i] : i \in 1..tagged} /\ DOMAIN contents = DOMAIN Earlier \cup DOMAIN at
  /\ \A v \in DOMAIN at : at[v] \in {"archive", "failed", "release", "announce", "done"}
  /\ DOMAIN news = {v \in DOMAIN at : at[v] \notin {"archive", "failed"}}
  /\ published = DOMAIN Earlier \cup {v \in DOMAIN at : at[v] \in {"announce", "done"}}
  /\ DOMAIN posted \subseteq DOMAIN at /\ \A v \in DOMAIN posted : posted[v] \in BOOLEAN

Previous(i) == plan[i - 1]

(* Modules that the release v is compared with does not hold, for a .0: all *)
(* that came with the series, since .0 is compared with the one before.     *)
CameWith(v) ==
  IF v.minor = 0 THEN {m \in Modules : contents[decrement_gnome_version(v)][m] = Absent} ELSE {}

(* Whoever goes from one release of a series to the next finds in the NEWS  *)
(* file the name of every module that is new or has another version; the    *)
(* entries in between of each that has; and the name of every module that   *)
(* is gone: although .0 is compared with the series before, and archives    *)
(* may be made, fail and be published in any order.  Exceptions: a module   *)
(* that came with the series is only named in the .0, without entries, and  *)
(* not at all if it is gone again (write_news.py:27, generate_news.py:133); *)
(* and a tarball on the way may lack its NEWS file.                         *)
NewsTells ==
  \A i \in 2..tagged :
    LET u == contents[Previous(i)]
        v == contents[plan[i]]
        n == news[plan[i]]
    IN  plan[i] \in published /\ Previous(i).major = plan[i].major =>
          /\ \A m \in Has(v) : u[m] # v[m] => m \in n.added \cup n.updated
          /\ \A m \in Updates(u, v) \ CameWith(plan[i]) :
               (\A w \in 0..v[m] : <<m, w>> \notin Silent) =>
                 m \in n.updated /\ (u[m] + 1)..v[m] \subseteq n.notes[m]
          /\ Has(u) \ Has(v) \subseteq n.removed \cup CameWith(plan[i])

=============================================================================
