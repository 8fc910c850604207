--------------------------- MODULE SysupdatePublish ---------------------------
(***************************************************************************)
(* The jobs that publish update images in one directory of the bucket, as  *)
(* .gitlab-ci/scripts/publish-sysupdate-to-s3.sh does.  Each uploads its    *)
(* images and its own SHA256SUMS.version.* list, fetches the lists of all,  *)
(* and uploads their concatenation SHA256SUMS with its signature.  The jobs *)
(* of the architectures, and of successive pipelines, run at the same time. *)
(*                                                                          *)
(* Images and list of a job are the job itself; SHA256SUMS is the set of    *)
(* jobs it lists, SHA256SUMS.gpg the set of jobs in the list it signs.      *)
(***************************************************************************)
EXTENDS Naturals, FiniteSets

CONSTANTS
  Jobs,      \* the publications to one target_dir, one per version and arch
  ArchOf,    \* the architecture of each of them
  MaxStarts  \* bound on the attempts at all jobs together

ASSUME JobsAssumption == IsFiniteSet(Jobs) /\ ArchOf \in [Jobs -> STRING]
ASSUME StartsAssumption == MaxStarts \in Nat

VARIABLES
  at,      \* where each job's script stands
  starts,  \* attempts made so far
  todo,    \* what the sync the job is in has yet to upload
  lists,   \* the lists the job has fetched
  newer,   \* of the signed pair, what others uploaded since the job wrote it
  alone,   \* history: no other job has run since this one was started
  images,  \* the jobs whose images are in the bucket
  parts,   \* the jobs whose SHA256SUMS.version.* is in the bucket
  sums,    \* the jobs SHA256SUMS lists, {} if there is no such object
  sig      \* the jobs in the list SHA256SUMS.gpg signs, {} if there is none

vars == <<at, starts, todo, lists, newer, alone, images, parts, sums, sig>>
bucket == <<images, parts, sums, sig>>

Running(j) == at[j] \notin {"idle", "done", "failed"}

Own  == {"images", "part"}
Pair == {"sums", "sig"}

(* Names and hashes have the same length for all jobs of an architecture,  *)
(* so the number of lists of each tells the size of their concatenation.   *)
OfArch(S, a) == {j \in S : ArchOf[j] = a}
SameLength(S, T) ==
  \A a \in {ArchOf[j] : j \in Jobs} :
    Cardinality(OfArch(S, a)) = Cardinality(OfArch(T, a))

Init ==
  /\ at = [j \in Jobs |-> "idle"]
  /\ starts = 0
  /\ todo = [j \in Jobs |-> {}]
  /\ lists = [j \in Jobs |-> {}]
  /\ newer = [j \in Jobs |-> {}]
  /\ alone = [j \in Jobs |-> FALSE]
  /\ images = {} /\ parts = {} /\ sums = {} /\ sig = {}

------------------------------------------------------------------------------
(* A pipeline starts the job, or the job is tried again after a failure, on *)
(* a new runner with a new checkout of the images.                          *)
Start(j) ==
  /\ at[j] \in {"idle", "failed"}
  /\ starts < MaxStarts
  /\ at' = [at EXCEPT ![j] = "upload"]
  /\ starts' = starts + 1
  /\ todo' = [todo EXCEPT ![j] = Own]
  /\ lists' = [lists EXCEPT ![j] = {}]
  /\ newer' = [newer EXCEPT ![j] = {}]
  /\ alone' = [k \in Jobs |-> k = j /\ \A l \in Jobs \ {j} : ~ Running(l)]
  /\ UNCHANGED bucket

(* The first sync: its uploads run in parallel and end in any order.        *)
Upload(j) ==
  /\ at[j] = "upload"
  /\ \E o \in todo[j] :
       /\ todo' = [todo EXCEPT ![j] = @ \ {o}]
       /\ images' = IF o = "images" THEN images \cup {j} ELSE images
       /\ parts' = IF o = "part" THEN parts \cup {j} ELSE parts
  /\ UNCHANGED <<at, starts, lists, newer, alone, sums, sig>>

\* The lists are fetched before the own one is in the bucket.
BeginFetch_Early(j) ==
  /\ at[j] = "upload"
  /\ at' = [at EXCEPT ![j] = "fetch"]
  /\ lists' = [lists EXCEPT ![j] = parts]
  /\ UNCHANGED <<starts, todo, newer, alone, bucket>>

\* The upload of the images is not waited for.
BeginFetch_NoImages(j) ==
  /\ at[j] = "upload" /\ "part" \notin todo[j]
  /\ at' = [at EXCEPT ![j] = "fetch"]
  /\ lists' = [lists EXCEPT ![j] = parts]
  /\ UNCHANGED <<starts, todo, newer, alone, bucket>>

(* `aws s3 cp --recursive' asks for the keys, page by page: it sees those   *)
(* that were there when it began, and maybe some that come meanwhile.       *)
BeginFetch(j) ==
  /\ at[j] = "upload" /\ todo[j] = {}
  /\ at' = [at EXCEPT ![j] = "fetch"]
  /\ lists' = [lists EXCEPT ![j] = parts]
  /\ UNCHANGED <<starts, todo, newer, alone, bucket>>

(* The keys are known and fetched, `cat' writes the local SHA256SUMS.       *)
Merge(j) ==
  /\ at[j] = "fetch"
  /\ \E S \in SUBSET parts :
       /\ lists[j] \subseteq S
       /\ lists' = [lists EXCEPT ![j] = S]
  /\ newer' = [newer EXCEPT ![j] = {}]
  /\ at' = [at EXCEPT ![j] = "sign"]
  /\ UNCHANGED <<starts, todo, alone, bucket>>

(* gpg writes the local SHA256SUMS.gpg.                                     *)
Sign(j) ==
  /\ at[j] = "sign"
  /\ newer' = [newer EXCEPT ![j] = @ \ {"sig"}]
  /\ at' = [at EXCEPT ![j] = "compare"]
  /\ UNCHANGED <<starts, todo, lists, alone, bucket>>

(* An object in the bucket that has the size of the local file.  Signatures *)
(* by one key are all of one size.                                          *)
SameSize(j, o) ==
  CASE o = "sums" -> SameLength(sums, lists[j])
    [] o = "sig"  -> sig # {}

\* sync --size-only.
Skipped_SizeOnly(j, o) == SameSize(j, o)

(* The second sync lists the bucket and leaves out what has the same size   *)
(* and is not older than the local file.                                    *)
Skipped(j, o) == SameSize(j, o) /\ o \in newer[j]

\* The second sync takes everything in the directory again.
Compare_Everything(j) ==
  /\ at[j] = "compare"
  /\ todo' = [todo EXCEPT ![j] = Own \cup {o \in Pair : ~ Skipped(j, o)}]
  /\ at' = [at EXCEPT ![j] = "put"]
  /\ UNCHANGED <<starts, lists, newer, alone, bucket>>

Compare(j) ==
  /\ at[j] = "compare"
  /\ todo' = [todo EXCEPT ![j] = {o \in Pair : ~ Skipped(j, o)}]
  /\ at' = [at EXCEPT ![j] = "put"]
  /\ UNCHANGED <<starts, lists, newer, alone, bucket>>

Put(j) ==
  /\ at[j] = "put"
  /\ \E o \in todo[j] :
       /\ todo' = [todo EXCEPT ![j] = @ \ {o}]
       /\ sums' = IF o = "sums" THEN lists[j] ELSE sums
       /\ sig' = IF o = "sig" THEN lists[j] ELSE sig
       /\ newer' = [k \in Jobs |-> IF k = j THEN newer[k]
                                             ELSE newer[k] \cup {o}]
  /\ UNCHANGED <<at, starts, lists, alone, images, parts>>

End(j) ==
  /\ at[j] = "put" /\ todo[j] = {}
  /\ at' = [at EXCEPT ![j] = "done"]
  /\ UNCHANGED <<starts, todo, lists, newer, alone, bucket>>

(* A command fails under `set -e', or the runner goes away.                 *)
Die(j) ==
  /\ Running(j)
  /\ at' = [at EXCEPT ![j] = "failed"]
  /\ UNCHANGED <<starts, todo, lists, newer, alone, bucket>>

Next ==
  \E j \in Jobs :
    \/ Start(j) \/ Upload(j) \/ BeginFetch(j) \/ Merge(j) \/ Sign(j)
    \/ Compare(j) \/ Put(j) \/ End(j) \/ Die(j)

Spec == Init /\ [][Next]_vars

------------------------------------------------------------------------------
(* The variables keep their types, and an upload in progress is of the kind *)
(* its sync is about.                                                       *)
TypeOK ==
  /\ at \in [Jobs -> {"idle", "upload", "fetch", "sign", "compare", "put",
                      "done", "failed"}]
  /\ starts \in 0 .. MaxStarts
  /\ todo \in [Jobs -> SUBSET (Own \cup Pair)]
  /\ lists \in [Jobs -> SUBSET Jobs]
  /\ newer \in [Jobs -> SUBSET Pair]
  /\ alone \in [Jobs -> BOOLEAN]
  /\ images \subseteq Jobs /\ parts \subseteq Jobs
  /\ sums \subseteq Jobs /\ sig \subseteq Jobs
  /\ \A j \in Jobs : /\ at[j] = "upload" => todo[j] \subseteq Own
                     /\ at[j] = "put" => todo[j] \subseteq Pair

Fetching(j) == at[j] \in {"fetch", "sign", "compare", "put", "done"}

(* Of any two jobs that got as far as fetching the lists, one has the       *)
(* other's in what it signs: two architectures published at the same time   *)
(* cannot both be left out.  It is why the script uploads its own list      *)
(* before it fetches those of others.                                       *)
OneSeesTheOther ==
  \A j, k \in Jobs : Fetching(j) /\ Fetching(k) => j \in lists[k] \/ k \in lists[j]

(* SHA256SUMS, or a list about to become it, names images that are not in   *)
(* the bucket only while the job that made them is uploading, or has failed *)
(* and not been tried again.  It is what the comment about keeping the      *)
(* SHA256SUMS files at the end can promise.                                 *)
ListedOrRunning ==
  \A k \in Jobs :
    (k \in sums \/ \E j \in Jobs : Running(j) /\ k \in lists[j])
      => k \in images \/ at[k] \in {"upload", "failed"}

(* A publication no other one runs beside repairs whatever races and        *)
(* failures before it left: SHA256SUMS has all the lists in the bucket, and *)
(* the signature beside it is its own.                                      *)
Repaired ==
  [][\A j \in Jobs :
       alone[j] /\ at[j] = "put" /\ at'[j] = "done"
         => sums' = parts' /\ sig' = sums']_vars

(* When all jobs have ended well, SHA256SUMS lists the images of all, as    *)
(* docs/ci-outputs.md:19 has it: "GNOME OS sysupdate repository (nightly    *)
(* Intel & AMD, nightly ARM)".  A job that fetched before another uploaded  *)
(* its list, and put its own SHA256SUMS last, leaves the other out.         *)
AllListed == (\A j \in Jobs : at[j] = "done") => sums = Jobs

===============================================================================
