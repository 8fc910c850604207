------------------------------ MODULE TrackRefs ------------------------------
(***************************************************************************)
(* The bot that keeps the refs of the elements up to date:                  *)
(* ci-bot-track-refs.sh and update-refs.py, run by scheduled pipelines,     *)
(* with the merge requests it opens, which marge-bot merges, and the people *)
(* who change the same elements.  A ref is the number of the upstream       *)
(* version it names, and stands in the file that holds the source.          *)
(***************************************************************************)
EXTENDS Naturals, Sequences, FiniteSets

CONSTANTS
  Files,              \* element and include files
  Elements,           \* those under elements/
  Foreign,            \* includes of freedesktop-sdk.bst
  Source,             \* what the first source of a file is, or "none"
  Includes,           \* the files a file includes, in order
  TrackDependencies,  \* --track-dependencies
  Ignored,            \* ignore_elements
  Jobs,               \* pipelines that may run at the same time
  Minutes,            \* bound: minutes in which they may start to track
  MaxRev,             \* bound: versions of an upstream
  MaxFaults           \* bound: failures, and changes made by people

FilesAssumption ==
  /\ IsFiniteSet(Elements) /\ Elements \subseteq Files /\ Foreign \subseteq Files
  /\ Source \in [Files -> {"none", "archive", "registry", "gnome", "git"}]
  /\ Includes \in [Files -> Seq(Files)]
  /\ Ignored \subseteq Elements /\ TrackDependencies \in BOOLEAN
BoundsAssumption == MaxRev \in Nat \ {0} /\ MaxFaults \in Nat /\ Minutes # {}

VARIABLES
  upstream,  \* the newest version of each source
  master,    \* the refs of the default branch
  requests,  \* the bot's open merge requests
  job,       \* the pipelines
  faults     \* failures and changes so far

vars == <<upstream, master, requests, job, faults>>

Tracked == {f \in Files : Source[f] \in {"registry", "gnome", "git"}}
Refs == [Tracked -> 1 .. MaxRev]
Request == [branch : Minutes, base : Refs, refs : Refs]
Stages == {"ended", "list", "track", "commit", "push"}

Init ==
  /\ upstream = [f \in Tracked |-> 1] /\ master = upstream
  /\ requests = {} /\ faults = 0
  /\ job = [j \in Jobs |-> [at |-> "ended", branch |-> CHOOSE m \in Minutes : TRUE,
                            base |-> master, refs |-> master]]

------------------------------------------------------------------------------
(* get_element_type: by the first source, else by the first include that    *)
(* has a type.                                                              *)
TypeOf[f \in Files] ==
  CASE Source[f] = "archive"              -> "not trackable"
    [] Source[f] \in {"registry", "git"} -> "dependency"
    [] Source[f] = "gnome"                -> "gnome"
    [] OTHER ->
         LET typed == SelectSeq(Includes[f], LAMBDA i : i \notin Foreign /\ TypeOf[i] # "none")
         IN IF typed = <<>> THEN "none" ELSE TypeOf[Head(typed)]

TrackElements ==
  {e \in Elements : TypeOf[e] = IF TrackDependencies THEN "dependency" ELSE "gnome"}

(* Where bst finds the source of an element, and writes its ref.            *)
HolderOf[f \in Files] ==
  IF Source[f] # "none" THEN f
  ELSE HolderOf[Head(SelectSeq(Includes[f], LAMBDA i : i \notin Foreign /\ TypeOf[i] # "none"))]

Written == {HolderOf[e] : e \in TrackElements}

------------------------------------------------------------------------------
(* Upstream, people and marge-bot.                                          *)
Release(f) ==
  /\ upstream[f] < MaxRev /\ upstream' = [upstream EXCEPT ![f] = @ + 1]
  /\ UNCHANGED <<master, requests, job, faults>>

Change(f) ==
  /\ faults < MaxFaults /\ faults' = faults + 1
  /\ \E r \in 1 .. upstream[f] : r # master[f] /\ master' = [master EXCEPT ![f] = r]
  /\ UNCHANGED <<upstream, requests, job>>

Conflicts(m) == \E f \in Tracked : m.refs[f] # m.base[f] /\ master[f] # m.base[f]

Merge(m) ==
  /\ m \in requests /\ ~ Conflicts(m)
  /\ master' = [f \in Tracked |-> IF m.refs[f] # m.base[f] THEN m.refs[f] ELSE master[f]]
  /\ requests' = requests \ {m}
  /\ UNCHANGED <<upstream, job, faults>>

(* Somebody closes what cannot be merged, or does not want it.              *)
Close(m) ==
  /\ m \in requests /\ requests' = requests \ {m}
  /\ \/ Conflicts(m) /\ UNCHANGED faults
     \/ faults < MaxFaults /\ faults' = faults + 1
  /\ UNCHANGED <<upstream, master, job>>

------------------------------------------------------------------------------
(* A pipeline.                                                              *)
Begin(j) ==
  /\ job[j].at = "ended"
  /\ job' = [job EXCEPT ![j] = [@ EXCEPT !.at = "list", !.base = master, !.refs = master]]
  /\ UNCHANGED <<upstream, master, requests, faults>>

(* An open merge request of the bot ends the pipeline.                      *)
ListRequests(j) ==
  /\ job[j].at = "list"
  /\ job' = [job EXCEPT ![j].at = IF requests = {} THEN "track" ELSE "ended"]
  /\ UNCHANGED <<upstream, master, requests, faults>>

(* bst source track.                                                        *)
Track(j) ==
  /\ job[j].at = "track"
  /\ \E m \in Minutes :
       job' = [job EXCEPT ![j].at = "commit", ![j].branch = m,
                 ![j].refs = [f \in Tracked |-> IF f \in Written THEN upstream[f] ELSE @[f]]]
  /\ UNCHANGED <<upstream, master, requests, faults>>

(* git restore of the files of the ignored elements.                        *)
Restore(j) == [f \in Tracked |-> IF f \in Ignored THEN job[j].base[f] ELSE job[j].refs[f]]

\* Mutant of Commit: nothing was added to the index.
Commit_Unstaged(j) ==
  /\ job[j].at = "commit"
  /\ job' = [job EXCEPT ![j].at = "ended"]
  /\ UNCHANGED <<upstream, master, requests, faults>>

(* git commit fails if nothing was updated.                                 *)
Commit(j) ==
  /\ job[j].at = "commit"
  /\ job' = [job EXCEPT ![j].refs = Restore(j),
                        ![j].at = IF Restore(j) = job[j].base THEN "ended" ELSE "push"]
  /\ UNCHANGED <<upstream, master, requests, faults>>

\* Mutant of Push: the files go on top of the default branch of today.
Push_OnMaster(j) ==
  /\ job[j].at = "push" /\ job' = [job EXCEPT ![j].at = "ended"]
  /\ requests' = {m \in requests : m.branch # job[j].branch}
       \cup {[branch |-> job[j].branch, base |-> master, refs |-> job[j].refs]}
  /\ UNCHANGED <<upstream, master, faults>>

(* git push -f: a branch of the same minute is overwritten, and its merge   *)
(* request with it.                                                         *)
Push(j) ==
  /\ job[j].at = "push" /\ job' = [job EXCEPT ![j].at = "ended"]
  /\ requests' = {m \in requests : m.branch # job[j].branch}
       \cup {[branch |-> job[j].branch, base |-> job[j].base, refs |-> job[j].refs]}
  /\ UNCHANGED <<upstream, master, faults>>

(* A command fails, a source cannot be tracked, or the runner goes away.    *)
Fail(j) ==
  /\ job[j].at # "ended" /\ faults < MaxFaults /\ faults' = faults + 1
  /\ job' = [job EXCEPT ![j].at = "ended"]
  /\ UNCHANGED <<upstream, master, requests>>

Step(j) == ListRequests(j) \/ Track(j) \/ Commit(j) \/ Push(j)
Settle == \E m \in requests : Merge(m) \/ Close(m)

Next ==
  \/ \E f \in Tracked : Release(f) \/ Change(f)
  \/ \E m \in requests : Merge(m) \/ Close(m)
  \/ \E j \in Jobs : Begin(j) \/ Step(j) \/ Fail(j)

Spec == Init /\ [][Next]_vars

(* Pipelines are scheduled again and again and go on; a request is merged,  *)
(* or closed if it has conflicts.                                           *)
FairSpec == Spec /\ WF_vars(Settle) /\ \A j \in Jobs : WF_vars(Begin(j)) /\ WF_vars(Step(j))

------------------------------------------------------------------------------
(* The variables keep their types.                                          *)
TypeOK ==
  /\ upstream \in Refs /\ master \in Refs /\ requests \subseteq Request
  /\ job \in [Jobs -> [at : Stages, branch : Minutes, base : Refs, refs : Refs]]
  /\ faults \in 0 .. MaxFaults

(* A merge does not undo what somebody changed while the pipeline ran or    *)
(* the request was open: no ref goes back.                                  *)
MergeKeeps ==
  \A m \in requests : m \notin requests' /\ master' # master =>
    \A f \in Tracked : master'[f] >= master[f]
NeverReverts == [][MergeKeeps]_vars

(* After the last release, failure and change the refs are the newest, for  *)
(* requests left behind do not keep the next pipeline from its work.        *)
Newest == \A f \in Written \ Ignored : master[f] = upstream[f]
CatchesUp == <>[]Newest

=============================================================================
