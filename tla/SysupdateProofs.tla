--------------------------- MODULE SysupdateProofs ---------------------------
(***************************************************************************)
(* Theorems about SysupdatePublish, for any set of jobs and any number of   *)
(* attempts.  The inductive invariant says how far what a job has uploaded  *)
(* and fetched follows from where it stands, and that a job nothing ran     *)
(* beside has seen the bucket as it is.                                     *)
(***************************************************************************)
EXTENDS SysupdatePublish, TLAPS

(* What a job has uploaded when it stands at a step.                        *)
UploadInv ==
  \A j \in Jobs :
    /\ at[j] = "upload" /\ "images" \notin todo[j] => j \in images
    /\ at[j] = "upload" /\ "part" \notin todo[j] => j \in parts
    /\ Fetching(j) => j \in images /\ j \in parts

(* Lists come from the bucket, and the images of a list are there or on     *)
(* their way.                                                               *)
PartsInv ==
  /\ \A j \in Jobs : lists[j] \subseteq parts
  /\ sums \subseteq parts
  /\ \A k \in parts : k \in images \/ at[k] \in {"upload", "failed"}

(* A job no other has run beside fetched all there is, nobody has written   *)
(* the signed pair since, and what it has not left to do it has done.       *)
AloneInv ==
  \A j \in Jobs :
    alone[j] /\ Running(j) =>
      /\ \A k \in Jobs \ {j} : ~ Running(k)
      /\ newer[j] = {}
      /\ at[j] \in {"fetch", "sign", "compare", "put"} => lists[j] = parts
      /\ at[j] = "put" =>
           /\ "sums" \notin todo[j] => sums = lists[j]
           /\ "sig" \notin todo[j] => sig = lists[j]

IInv == TypeOK /\ UploadInv /\ PartsInv /\ OneSeesTheOther /\ AloneInv

Act(j) == \/ Start(j) \/ Upload(j) \/ BeginFetch(j) \/ Merge(j) \/ Sign(j)
          \/ Compare(j) \/ Put(j) \/ End(j) \/ Die(j)

------------------------------------------------------------------------------
LEMMA InitIInv == Init => IInv
  BY StartsAssumption
     DEF Init, IInv, TypeOK, UploadInv, PartsInv, OneSeesTheOther, AloneInv,
         Fetching, Running

LEMMA TypeStep == ASSUME TypeOK, NEW j \in Jobs, Act(j) PROVE TypeOK'
<1> USE StartsAssumption DEF TypeOK, bucket, Own, Pair
<1>1. CASE Start(j) BY <1>1 DEF Start
<1>2. CASE Upload(j) BY <1>2 DEF Upload
<1>3. CASE BeginFetch(j) BY <1>3 DEF BeginFetch
<1>4. CASE Merge(j) BY <1>4 DEF Merge
<1>5. CASE Sign(j) BY <1>5 DEF Sign
<1>6. CASE Compare(j)
  <2>1. {o \in Pair : ~ Skipped(j, o)} \subseteq Pair
    OBVIOUS
  <2> QED BY <1>6, <2>1 DEF Compare
<1>7. CASE Put(j) BY <1>7 DEF Put
<1>8. CASE End(j) BY <1>8 DEF End
<1>9. CASE Die(j) BY <1>9 DEF Die
<1> QED BY <1>1, <1>2, <1>3, <1>4, <1>5, <1>6, <1>7, <1>8, <1>9 DEF Act

LEMMA UploadStep ==
  ASSUME TypeOK, UploadInv, NEW j \in Jobs, Act(j) PROVE UploadInv'
<1> USE DEF TypeOK, UploadInv, Fetching, bucket
<1>1. CASE Start(j) BY <1>1 DEF Start, Own
<1>2. CASE Upload(j) BY <1>2 DEF Upload
<1>3. CASE BeginFetch(j) BY <1>3 DEF BeginFetch
<1>4. CASE Merge(j) BY <1>4 DEF Merge
<1>5. CASE Sign(j) BY <1>5 DEF Sign
<1>6. CASE Compare(j) BY <1>6 DEF Compare
<1>7. CASE Put(j) BY <1>7 DEF Put
<1>8. CASE End(j) BY <1>8 DEF End
<1>9. CASE Die(j) BY <1>9 DEF Die
<1> QED BY <1>1, <1>2, <1>3, <1>4, <1>5, <1>6, <1>7, <1>8, <1>9 DEF Act

LEMMA PartsStep ==
  ASSUME TypeOK, UploadInv, PartsInv, NEW j \in Jobs, Act(j) PROVE PartsInv'
<1> USE DEF TypeOK, PartsInv, bucket
<1>1. CASE Start(j) BY <1>1 DEF Start
<1>2. CASE Upload(j) BY <1>2 DEF Upload
<1>3. CASE BeginFetch(j) BY <1>3 DEF BeginFetch, UploadInv
<1>4. CASE Merge(j) BY <1>4 DEF Merge
<1>5. CASE Sign(j) BY <1>5 DEF Sign
<1>6. CASE Compare(j) BY <1>6 DEF Compare
<1>7. CASE Put(j) BY <1>7 DEF Put
<1>8. CASE End(j) BY <1>8 DEF End
<1>9. CASE Die(j) BY <1>9 DEF Die
<1> QED BY <1>1, <1>2, <1>3, <1>4, <1>5, <1>6, <1>7, <1>8, <1>9 DEF Act

(* The job that begins to fetch later finds the list of the other.          *)
LEMMA SeesStep ==
  ASSUME TypeOK, UploadInv, OneSeesTheOther, NEW j \in Jobs, Act(j)
  PROVE  OneSeesTheOther'
<1> USE DEF TypeOK, OneSeesTheOther, Fetching, bucket
<1>1. CASE Start(j) BY <1>1 DEF Start
<1>2. CASE Upload(j) BY <1>2 DEF Upload
<1>3. CASE BeginFetch(j) BY <1>3 DEF BeginFetch, UploadInv
<1>4. CASE Merge(j) BY <1>4 DEF Merge
<1>5. CASE Sign(j) BY <1>5 DEF Sign
<1>6. CASE Compare(j) BY <1>6 DEF Compare
<1>7. CASE Put(j) BY <1>7 DEF Put
<1>8. CASE End(j) BY <1>8 DEF End
<1>9. CASE Die(j) BY <1>9 DEF Die
<1> QED BY <1>1, <1>2, <1>3, <1>4, <1>5, <1>6, <1>7, <1>8, <1>9 DEF Act

(* While a job is alone no other one takes a step but to start.             *)
LEMMA AloneStep ==
  ASSUME TypeOK, PartsInv, AloneInv, NEW j \in Jobs, Act(j) PROVE AloneInv'
<1> USE DEF TypeOK, AloneInv, Running, bucket
<1>1. CASE Start(j) BY <1>1 DEF Start
<1>2. CASE Upload(j) BY <1>2 DEF Upload
<1>3. CASE BeginFetch(j) BY <1>3 DEF BeginFetch
<1>4. CASE Merge(j)
  <2>1. PICK S \in SUBSET parts : /\ lists[j] \subseteq S
                                  /\ lists' = [lists EXCEPT ![j] = S]
    BY <1>4 DEF Merge
  <2>2. alone[j] => S = parts
    BY <1>4, <2>1 DEF Merge
  <2>3. /\ at[j] = "fetch" /\ at' = [at EXCEPT ![j] = "sign"]
        /\ newer' = [newer EXCEPT ![j] = {}]
        /\ UNCHANGED <<starts, todo, alone, images, parts, sums, sig>>
    BY <1>4 DEF Merge
  <2> QED BY <2>1, <2>2, <2>3
<1>5. CASE Sign(j) BY <1>5 DEF Sign
<1>6. CASE Compare(j) BY <1>6 DEF Compare, Skipped, Pair
<1>7. CASE Put(j) BY <1>7 DEF Put
<1>8. CASE End(j) BY <1>8 DEF End
<1>9. CASE Die(j) BY <1>9 DEF Die
<1> QED BY <1>1, <1>2, <1>3, <1>4, <1>5, <1>6, <1>7, <1>8, <1>9 DEF Act

LEMMA StepIInv == IInv /\ [Next]_vars => IInv'
<1> SUFFICES ASSUME IInv, [Next]_vars PROVE IInv'
  OBVIOUS
<1>1. CASE Next
  <2>1. PICK j \in Jobs : Act(j)
    BY <1>1 DEF Next, Act
  <2> QED
    BY <2>1, TypeStep, UploadStep, PartsStep, SeesStep, AloneStep DEF IInv
<1>2. CASE UNCHANGED vars
  BY <1>2 DEF vars, IInv, TypeOK, UploadInv, PartsInv, OneSeesTheOther,
              AloneInv, Fetching, Running
<1> QED BY <1>1, <1>2

(* The invariant the theorems below rest on holds in every behaviour of the *)
(* jobs.                                                                    *)
THEOREM PublicationInvariance == Spec => []IInv
  BY InitIInv, StepIInv, PTL DEF Spec

(* The variables of SysupdatePublish keep their types.                      *)
THEOREM PublicationTypes == Spec => []TypeOK
<1>1. IInv => TypeOK BY DEF IInv
<1> QED BY <1>1, PublicationInvariance, PTL

(* Of two jobs that fetched the lists, one signs a list with the other in   *)
(* it, however many run, fail and are tried again.                          *)
THEOREM NeitherBothLost == Spec => []OneSeesTheOther
<1>1. IInv => OneSeesTheOther BY DEF IInv
<1> QED BY <1>1, PublicationInvariance, PTL

(* What SHA256SUMS names is in the bucket, or its job is uploading it, or   *)
(* failed to.                                                               *)
THEOREM ListedIsServed == Spec => []ListedOrRunning
<1>1. IInv => ListedOrRunning
  BY DEF IInv, TypeOK, PartsInv, ListedOrRunning
<1> QED BY <1>1, PublicationInvariance, PTL

(* A publication nothing ran beside leaves a complete list with its         *)
(* signature, whatever the bucket held.                                     *)
THEOREM NextOneRepairs == Spec => Repaired
<1>1. ASSUME IInv, [Next]_vars, NEW j \in Jobs,
             alone[j], at[j] = "put", at'[j] = "done"
      PROVE  sums' = parts' /\ sig' = sums'
  <2>1. PICK k \in Jobs : Act(k)
    BY <1>1 DEF Next, Act, vars
  <2>2. End(j)
    BY <1>1, <2>1 DEF IInv, TypeOK, Act, Start, Upload, BeginFetch, Merge,
                      Sign, Compare, Put, End, Die
  <2> QED BY <1>1, <2>2 DEF End, bucket, IInv, TypeOK, AloneInv, Running
<1>2. IInv /\ [Next]_vars =>
        [\A j \in Jobs : alone[j] /\ at[j] = "put" /\ at'[j] = "done"
                           => sums' = parts' /\ sig' = sums']_vars
  BY <1>1
<1> QED BY <1>2, PublicationInvariance, PTL DEF Spec, Repaired

===============================================================================
