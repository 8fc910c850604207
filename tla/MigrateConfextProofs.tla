------------------------- MODULE MigrateConfextProofs -------------------------
(***************************************************************************)
(* No file or link of the user is lost by the migration of /etc, and        *)
(* what gets into its layer beside the changes is the rest of an attempt    *)
(* under another version or another /etc, for any set of paths, any number  *)
(* of versions, crashes and ways back to the version before.                *)
(***************************************************************************)
EXTENDS MigrateConfext, TLAPS

(* One path at most is being copied, only while the program runs, and its   *)
(* copy is there from the time it is opened.                                *)
OneAtATime ==
  /\ \A f, g \in doing : f = g
  /\ at = "copy" => \A f \in doing : creating[f] = Partial
  /\ at \notin {"migrate", "copy"} => doing = {}

(* Until there is a directory, what the user wrote is in /etc.              *)
InEtc == upper # "dir" => \A f \in mine : etc[f] \in Mine

(* While the program runs, it has passed no such path without a copy.       *)
Passed ==
  at \in {"migrate", "copy"} =>
    upper = "none" /\ \A f \in mine : f \in todo \/ f \in doing \/ creating[f] = etc[f]

(* Once there is a directory, what the user wrote is in it.                 *)
InLayer == upper = "dir" => \A f \in mine : layer[f] \in Mine

HasUpper ==
  /\ at = "up" /\ version # 0 => upper # "none"
  /\ at \in {"migrate", "copy", "create"} => version # 0

(* What is copied differs from the confext, and so does what is left of a   *)
(* copy, until the version or /etc changes.                                 *)
LeftOver ==
  /\ \A f \in Files : etc[f] \in Old(f)
  /\ \A f \in Files : creating[f] # None => Modified(f) \/ f \in stale
  /\ \A f \in doing : Modified(f)

(* Of the paths the program has passed, it has copied just these.           *)
Copied ==
  at \in {"migrate", "copy"} =>
    \A f \in Files : \/ f \in todo \/ f \in doing
                     \/ Modified(f) /\ creating[f] = etc[f]
                     \/ ~ Modified(f) /\ (creating[f] = None \/ f \in stale)

CopyInv == LeftOver /\ Copied

IInv == TypeOK /\ OneAtATime /\ InEtc /\ Passed /\ InLayer /\ HasUpper

------------------------------------------------------------------------------
(* What the user wrote differs from every confext, so it is always copied.  *)
LEMMA MineIsModified == ASSUME TypeOK, NEW f \in Files, etc[f] \in Mine PROVE Modified(f)
<1>1. etc[f].type \in {"file", "link"} /\ etc[f].by = 0 BY DEF Mine
<1>2. Confext(f).type = "none" \/ (Confext(f).by = version /\ version # 0) BY DEF Confext, None
<1> QED BY <1>1, <1>2 DEF Modified

LEMMA MineIsEntry == Mine \subseteq Entry /\ None \in Entry /\ Partial \in Entry /\ None \notin Mine
  BY BoundsAssumption DEF Mine, Entry, None, Partial

LEMMA InitInv == Init => IInv
<1> SUFFICES ASSUME Init PROVE IInv OBVIOUS
<1>1. etc \in [Files -> Entry]
  <2>1. ASSUME NEW f \in Files PROVE Old(f) \subseteq Entry
    BY <2>1, PathsAssumption, BoundsAssumption DEF Init, Old, Entry, None, Factory, Mine
  <2> QED BY <2>1 DEF Init
<1>2. TypeOK
  BY <1>1, MineIsEntry, BoundsAssumption DEF Init, TypeOK
<1> QED BY <1>2 DEF Init, IInv, OneAtATime, InEtc, Passed, InLayer, HasUpper

------------------------------------------------------------------------------
LEMMA StepInv == IInv /\ [Next]_vars => IInv'
<1> SUFFICES ASSUME IInv, [Next]_vars PROVE IInv' OBVIOUS
<1> USE DEF IInv, OneAtATime, InEtc, Passed, InLayer, HasUpper, disk, systems, history
<1>1. CASE Boot
  <2>1. TypeOK' BY <1>1 DEF Boot, TypeOK
  <2>2. mine \subseteq Files BY DEF TypeOK
  <2> QED BY <1>1, <2>1, <2>2 DEF Boot
<1>2. CASE Rename
  <2>1. TypeOK' BY <1>2, MineIsEntry DEF Rename, TypeOK
  <2>2. \A f \in mine : creating[f] \in Mine BY <1>2 DEF Rename
  <2> QED BY <1>2, <2>1, <2>2 DEF Rename
<1>3. CASE CopyFails
  BY <1>3, BoundsAssumption DEF CopyFails, TypeOK
<1>4. CASE CreateMutable
  BY <1>4 DEF CreateMutable, TypeOK
<1>5. CASE Update
  <2>1. PICK v \in 1 .. MaxVersion : version' = v /\ installed' = {version, v} BY <1>5 DEF Update
  <2>2. TypeOK' BY <1>5, <2>1, BoundsAssumption DEF Update, TypeOK
  <2> QED BY <1>5, <2>2 DEF Update
<1>6. CASE Reboot
  BY <1>6 DEF Reboot, TypeOK
<1>7. CASE Crash
  BY <1>7, BoundsAssumption DEF Crash, TypeOK
<1>8. ASSUME NEW f \in Files, Visit(f) PROVE IInv'
  <2>1. TypeOK' BY <1>8 DEF Visit, TypeOK
  <2>2. ASSUME NEW g \in mine PROVE g \in todo' \/ g \in doing' \/ creating[g] = etc[g]
    <3>1. CASE g = f
      BY <1>8, <2>2, <3>1, MineIsModified DEF Visit
    <3>2. CASE g # f BY <1>8, <2>2, <3>2 DEF Visit
    <3> QED BY <3>1, <3>2
  <2> QED BY <1>8, <2>1, <2>2 DEF Visit
<1>9. ASSUME NEW f \in Files, Open(f) PROVE IInv'
  <2>1. TypeOK'
    <3>1. etc[f] \in Entry /\ Partial \in Entry BY MineIsEntry DEF TypeOK
    <3>2. creating' \in [Files -> Entry] BY <1>9, <3>1 DEF Open, TypeOK
    <3>3. \A g \in Files : creating'[g] # None => Parents[g] \subseteq dirs
      BY <1>9 DEF Open, TypeOK
    <3> QED BY <1>9, <3>2, <3>3 DEF Open, TypeOK
  <2>2. doing = {f} BY <1>9 DEF Open
  <2>3. CASE creating[f] # None BY <1>9, <2>1, <2>3 DEF Open, TypeOK
  <2>4. CASE creating[f] = None /\ etc[f].type = "link"
    BY <1>9, <2>1, <2>2, <2>4 DEF Open, TypeOK
  <2>5. CASE creating[f] = None /\ etc[f].type # "link"
    BY <1>9, <2>1, <2>2, <2>5 DEF Open, TypeOK
  <2> QED BY <2>3, <2>4, <2>5
<1>10. ASSUME NEW f \in Files, Copy(f) PROVE IInv'
  <2>1. creating' \in [Files -> Entry] /\ \A g \in Files : creating'[g] # None => Parents[g] \subseteq dirs
    <3>1. etc[f] \in Entry /\ creating[f] = Partial BY <1>10 DEF Copy, TypeOK
    <3> QED BY <1>10, <3>1 DEF Copy, TypeOK, None, Partial
  <2>2. TypeOK' BY <1>10, <2>1 DEF Copy, TypeOK
  <2>3. doing = {f} BY <1>10 DEF Copy
  <2> QED BY <1>10, <2>2, <2>3 DEF Copy, TypeOK
<1>11. ASSUME NEW f \in Files, Edit(f) PROVE IInv'
  BY <1>11, MineIsEntry DEF Edit, Put, Below, TypeOK
<1>12. ASSUME NEW d \in Dirs, MakeDir(d) PROVE IInv'
  BY <1>12 DEF MakeDir, TypeOK
<1>13. CASE BootOther
  BY <1>13 DEF BootOther, TypeOK
<1>14. ASSUME NEW f \in Files, Remove(f) PROVE IInv'
  BY <1>14, MineIsEntry DEF Remove, Put, Below, TypeOK
<1>15. CASE UNCHANGED vars
  BY <1>15 DEF vars, TypeOK
<1> QED BY <1>1, <1>2, <1>3, <1>4, <1>5, <1>6, <1>7, <1>8, <1>9, <1>10, <1>11, <1>12, <1>13, <1>14, <1>15 DEF Next

------------------------------------------------------------------------------
LEMMA IInvAlways == Spec => []IInv
  BY InitInv, StepInv, PTL DEF Spec

(* The variables keep their types, and no file is copied into a directory   *)
(* that is not there: copy_with_dir of migrate-confext.cpp.                 *)
THEOREM MigrationTypes == Spec => []TypeOK
<1>1. IInv => TypeOK BY DEF IInv
<1> QED BY <1>1, IInvAlways, PTL

(* Whenever the system is up, what the user wrote below /etc is what is     *)
(* seen there, whatever happened to the migration before.                   *)
THEOREM NothingIsLost == Spec => []NothingLost
<1>1. IInv => NothingLost
  <2> SUFFICES ASSUME IInv, at = "up", version # 0 \/ upper # "dir", NEW f \in mine
               PROVE  View(f) \in Mine
    BY DEF NothingLost
  <2>1. f \in Files /\ (version = 0 \/ upper \in {"dir", "link"}) BY DEF IInv, TypeOK, HasUpper
  <2>2. CASE version = 0 \/ upper = "link"
    <3>1. etc[f] \in Mine /\ etc[f] # None BY <2>2, MineIsEntry DEF IInv, InEtc
    <3> QED BY <2>2, <3>1 DEF View
  <2>3. CASE version # 0 /\ upper = "dir"
    <3>1. layer[f] \in Mine /\ layer[f] # None BY <2>3, MineIsEntry DEF IInv, InLayer
    <3> QED BY <2>3, <3>1 DEF View
  <2> QED BY <2>1, <2>2, <2>3
<1> QED BY <1>1, IInvAlways, PTL

------------------------------------------------------------------------------
(* What the upper layer is made of.                                         *)
LEMMA InitCopy == Init => CopyInv
<1> SUFFICES ASSUME Init PROVE CopyInv OBVIOUS
<1>1. \A f \in Files : etc[f] \in Old(f)
  <2>1. \A f \in Files : None \in Old(f) BY DEF Old
  <2> QED BY <2>1 DEF Init
<1> QED BY <1>1 DEF Init, CopyInv, LeftOver, Copied

LEMMA StepCopy == IInv /\ CopyInv /\ [Next]_vars => CopyInv'
<1> SUFFICES ASSUME IInv, CopyInv, [Next]_vars PROVE CopyInv' OBVIOUS
<1> USE DEF CopyInv, LeftOver, Copied, disk, systems, history
<1>1. ASSUME UNCHANGED <<version, etc>>
      PROVE  \A f \in Files : Modified(f)' = Modified(f) /\ Old(f)' = Old(f) /\ Confext(f)' = Confext(f)
  BY <1>1 DEF Modified, Old, Confext
<1>2. doing \subseteq Files /\ creating \in [Files -> Entry] /\ \A f, g \in doing : f = g
  BY DEF IInv, TypeOK, OneAtATime
<1>3. CASE Boot
  <2>1. doing = {} BY <1>3 DEF Boot, IInv, OneAtATime
  <2> QED BY <1>1, <1>3, <2>1 DEF Boot
<1>4. CASE Rename
  <2>1. creating' = [f \in Files |-> None] /\ doing' = {} /\ at' = "create" /\ UNCHANGED <<version, etc>>
    BY <1>4 DEF Rename
  <2> QED BY <1>1, <2>1
<1>5. CASE CopyFails BY <1>1, <1>5 DEF CopyFails
<1>6. CASE CreateMutable BY <1>1, <1>2, <1>6 DEF CreateMutable
<1>7. CASE BootOther \/ Update
  <2>1. stale' = {f \in Files : creating[f] # None} /\ UNCHANGED <<etc, creating, doing>> /\ at' = "off"
        /\ doing = {}
    BY <1>7 DEF BootOther, Update, IInv, OneAtATime
  <2>2. \A f \in Files : Old(f)' = Old(f) BY DEF Old
  <2> QED BY <2>1, <2>2
<1>8. CASE Reboot BY <1>1, <1>2, <1>8 DEF Reboot
<1>9. CASE Crash BY <1>1, <1>9 DEF Crash
<1>10. ASSUME NEW f \in Files, Visit(f) PROVE CopyInv'
  <2>1. UNCHANGED <<version, etc, creating, at, stale>> /\ doing = {} /\ todo' = todo \ {f}
        /\ doing' = (IF Modified(f) THEN {f} ELSE {}) /\ at = "migrate"
    BY <1>10 DEF Visit
  <2>2. ~ Modified(f) => creating[f] = None \/ f \in stale OBVIOUS
  <2>3. LeftOver' BY <1>1, <2>1
  <2>4. Copied' BY <1>1, <2>1, <2>2
  <2> QED BY <2>3, <2>4
<1>11. ASSUME NEW f \in Files, Open(f) PROVE CopyInv'
  <2>1. doing = {f} /\ Modified(f) /\ UNCHANGED <<version, etc, todo, stale>> /\ at = "migrate"
    BY <1>2, <1>11 DEF Open
  <2>2. \A g \in Files \ {f} : creating'[g] = creating[g] BY <1>2, <1>11 DEF Open
  <2>3. LeftOver'
    <3>1. doing' \subseteq doing BY <1>11 DEF Open
    <3> QED BY <1>1, <2>1, <2>2, <3>1
  <2>4. Copied'
    <3>1. creating[f] # None => at' = "create" BY <1>11 DEF Open
    <3>2. creating[f] = None /\ etc[f].type = "link" => creating'[f] = etc[f] BY <1>2, <1>11 DEF Open
    <3>3. creating[f] = None /\ etc[f].type # "link" => doing' = {f} BY <1>2, <1>11, <2>1 DEF Open
    <3> QED BY <1>1, <2>1, <2>2, <3>1, <3>2, <3>3
  <2> QED BY <2>3, <2>4
<1>12. ASSUME NEW f \in Files, Copy(f) PROVE CopyInv'
  <2>1. doing = {f} /\ Modified(f) /\ UNCHANGED <<version, etc, todo, stale>> /\ doing' = {} /\ at = "copy"
        /\ creating'[f] = etc[f] /\ \A g \in Files \ {f} : creating'[g] = creating[g]
    BY <1>2, <1>12 DEF Copy
  <2> QED BY <1>1, <2>1
<1>13. ASSUME NEW f \in Files, Edit(f) \/ Remove(f) PROVE CopyInv'
  <2>1. at = "up" /\ at' = "up" /\ doing = {} /\ UNCHANGED <<version, creating, doing>>
    BY <1>13 DEF Edit, Remove, IInv, OneAtATime
  <2>2. CASE UNCHANGED <<etc, stale>> BY <1>1, <1>2, <2>1, <2>2
  <2>3. ASSUME NEW e \in Mine \cup {None}, Put(f, e) PROVE CopyInv'
    <3>1. etc'[f] = e /\ \A g \in Files \ {f} : etc'[g] = etc[g] BY <2>3 DEF Put, IInv, TypeOK
    <3>2. creating[f] # None => f \in stale' BY <2>3 DEF Put
    <3>3. stale \subseteq stale' BY <2>3 DEF Put
    <3>4. \A g \in Files \ {f} : Modified(g)' = Modified(g) BY <2>1, <3>1 DEF Modified, Confext
    <3>5. \A g \in Files : Old(g)' = Old(g) /\ Mine \cup {None} \subseteq Old(g) BY DEF Old
    <3>6. \A g \in Files : etc'[g] \in Old(g)' BY <3>1, <3>5
    <3>7. \A g \in Files : creating'[g] # None => Modified(g)' \/ g \in stale'
      BY <2>1, <3>2, <3>3, <3>4
    <3> QED BY <2>1, <3>6, <3>7
  <2> QED BY <1>13, <2>2, <2>3 DEF Edit, Remove
<1>14. ASSUME NEW d \in Dirs, MakeDir(d) PROVE CopyInv' BY <1>1, <1>2, <1>14 DEF MakeDir
<1>15. CASE UNCHANGED vars BY <1>1, <1>2, <1>15 DEF vars
<1> QED BY <1>3, <1>4, <1>5, <1>6, <1>7, <1>8, <1>9, <1>10, <1>11, <1>12, <1>13, <1>14, <1>15 DEF Next

(* The directory that hides the confext from then on holds every change of  *)
(* the user and of other versions whole, and where nothing was changed at   *)
(* most what an attempt under another version or another /etc left.         *)
THEOREM LayerIsExact == Spec => Exact
<1> DEFINE Made == upper' = "dir" /\ upper # "dir" =>
             \A f \in Files : IF etc[f] \in {None, Factory, Confext(f)} THEN layer'[f] = None \/ f \in stale
                             ELSE layer'[f] = etc[f]
<1>1. IInv /\ CopyInv /\ [Next]_vars => [Made]_vars
  <2> SUFFICES ASSUME IInv, CopyInv, Next, upper' = "dir", upper # "dir", NEW f \in Files
               PROVE  IF etc[f] \in {None, Factory, Confext(f)} THEN layer'[f] = None \/ f \in stale
                      ELSE layer'[f] = etc[f]
    OBVIOUS
  <2>1. Rename
    BY DEF Next, Boot, BootOther, CopyFails, CreateMutable, Update, Reboot, Crash, Visit, Open, Copy, Edit,
           Remove, MakeDir, disk
  <2>2. \/ Modified(f) /\ layer'[f] = etc[f]
        \/ ~ Modified(f) /\ (layer'[f] = None \/ f \in stale)
    BY <2>1 DEF Rename, CopyInv, Copied
  <2>3. Modified(f) <=> etc[f] \notin {None, Factory, Confext(f)}
    <3>1. etc[f] \in Old(f) BY DEF CopyInv, LeftOver
    <3>2. CASE etc[f] \in {None, Factory} BY <3>2 DEF Modified, None, Factory
    <3>3. CASE etc[f] \in Mine
      <4>1. etc[f].type \in {"file", "link"} BY <3>3 DEF Mine
      <4> QED BY <3>3, <4>1, MineIsModified DEF IInv, Modified, None, Factory
    <3>4. CASE ConfextType[f] # "none" /\ etc[f] \in [type : {ConfextType[f]}, by : 1 .. MaxVersion]
      <4>1. etc[f].type \in {"file", "link"} BY <3>4, PathsAssumption
      <4> QED BY <4>1 DEF Modified, None, Factory
    <3> QED BY <3>1, <3>2, <3>3, <3>4 DEF Old
  <2> QED BY <2>2, <2>3
<1>2. IInv /\ CopyInv /\ [Next]_vars => IInv' /\ CopyInv' BY StepInv, StepCopy
<1>3. Init => IInv /\ CopyInv BY InitInv, InitCopy
<1> QED BY <1>1, <1>2, <1>3, PTL DEF Spec, Exact

=============================================================================
