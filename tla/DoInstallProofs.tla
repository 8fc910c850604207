-------------------------- MODULE DoInstallProofs --------------------------
(* The inductive invariant of DoInstall, proved.                            *)
EXTENDS DoInstallHandover, TLAPS

USE DisksAssumption, MaxInstallsAssumption, StallAssumption

-----------------------------------------------------------------------------
(* Typing of the values the actions build.                                  *)

LEMMA ZeroNumber == 0 \in Number
  BY DEF Number

LEMMA BlankState == ASSUME NEW t \in Table PROVE Blank(t) \in DiskState
  BY ZeroNumber DEF Blank, DiskState

LEMMA TargetDisk == TypeOK => Target \in Disks
  BY DEF TypeOK, Target, Recipe

LEMMA PartitionedState == TypeOK => Partitioned \in DiskState
  BY ZeroNumber DEF TypeOK, Partitioned, DiskState, Table

LEMMA TokenState ==
  ASSUME NEW r \in DiskState PROVE [r EXCEPT !.token = TRUE] \in DiskState
  BY DEF DiskState

LEMMA TokenDisk ==
  ASSUME NEW f \in [Disks -> DiskState], NEW d \in Disks
  PROVE  [f EXCEPT ![d].token = TRUE] \in [Disks -> DiskState]
  BY TokenState

LEMMA Start0State == Start0 \in Branches
  BY DEF Start0, Branches, UnitPoints

LEMMA BranchMove ==
  ASSUME NEW r \in Branches, NEW u \in Units, NEW p \in UnitPoints
  PROVE  [r EXCEPT ![u] = p] \in Branches
  BY DEF Branches, Units

LEMMA JobQueued ==
  ASSUME NEW f \in [Units -> UnitRecord], NEW u \in Units, NEW b \in BOOLEAN
  PROVE  [f EXCEPT ![u].job = b] \in [Units -> UnitRecord]
  BY DEF UnitRecord

LEMMA TypeInit == Init => TypeOK
<1>. SUFFICES ASSUME Init PROVE TypeOK
  OBVIOUS
<1>1. disk \in [Disks -> DiskState]
  BY BlankState DEF Init, Table
<1>2. unit \in [Units -> UnitRecord]
  BY DEF Init, Units, UnitRecord, UnitState
<1>3. recipe \in Recipe /\ branch \in Branches /\ machine \in Machine
  BY Start0State DEF Init, Machine
<1>. QED
  BY <1>1, <1>2, <1>3, ZeroNumber DEF Init, TypeOK, Step

LEMMA TypeStep == TypeOK /\ [Next]_vars => TypeOK'
<1>. SUFFICES ASSUME TypeOK, [Next]_vars PROVE TypeOK'
  OBVIOUS
<1>. QED
  <2>1. CASE StartDaemon
    BY <2>1
      DEF StartDaemon, TypeOK, task, files, live, Goto, Fail, Step, Working, Preparing,
          Writing, Ended
  <2>2. ASSUME NEW d \in Disks, NEW oem \in BOOLEAN, Receive(d, oem)
         PROVE TypeOK'
    BY <2>2
      DEF Receive, TypeOK, task, files, live, Goto, Fail, Step, Working, Preparing,
          Writing, Ended, Number, Recipe
  <2>3. CASE DryRun
    BY <2>3
      DEF DryRun, TypeOK, task, files, live, Goto, Fail, Step, Working, Preparing,
          Writing, Ended
  <2>4. CASE Inhibit
    BY <2>4
      DEF Inhibit, TypeOK, task, files, live, Goto, Fail, Step, Working, Preparing,
          Writing, Ended
  <2>5. CASE SaveKey
    BY <2>5, ZeroNumber
      DEF SaveKey, TypeOK, task, files, live, Goto, Fail, Step, Working, Preparing,
          Writing, Ended, Recipe
  <2>6. CASE MarkDevice
    BY <2>6
      DEF MarkDevice, TypeOK, task, files, live, Goto, Fail, Step, Working, Preparing,
          Writing, Ended, Recipe, Target
  <2>7. CASE RemovePolicy
    BY <2>7, ZeroNumber
      DEF RemovePolicy, TypeOK, task, files, live, Goto, Fail, Step, Working, Preparing,
          Writing, Ended
  <2>8. CASE MakePolicy
    BY <2>8, ZeroNumber
      DEF MakePolicy, TypeOK, task, files, live, Goto, Fail, Step, Working, Preparing,
          Writing, Ended
  <2>9. CASE StartRepart
    BY <2>9, BlankState
      DEF StartRepart, TypeOK, task, files, live, Goto, Fail, Step, Working, Preparing,
          Writing, Ended, Table
  <2>10. CASE EndRepart
    BY <2>10, BlankState, PartitionedState, TargetDisk
      DEF EndRepart, Complete, Torn, TypeOK, task, files, live, Goto, Fail, Step, Working, Preparing,
          Writing, Ended, Finish, AfterRepart, Table
  <2>11. CASE ImportToken
    <3>1. [disk EXCEPT ![Target].token = TRUE] \in [Disks -> DiskState]
      BY TokenDisk, TargetDisk DEF TypeOK
    <3>2. disk' \in [Disks -> DiskState]
      BY <2>11, <3>1 DEF ImportToken, TypeOK
    <3>3. step' \in Step /\ inhibited' \in BOOLEAN
      BY <2>11
        DEF ImportToken, TypeOK, Goto, Fail, Step, Working, Preparing, Writing, Ended
    <3>. QED
      BY <2>11, <3>2, <3>3 DEF ImportToken, TypeOK, files, live
  <2>12. CASE ForgetCredentials
    BY <2>12, ZeroNumber
      DEF ForgetCredentials, TypeOK, task, files, live, Goto, Fail, Step, Working,
          Preparing, Writing, Ended
  <2>13. CASE BeginJoin
    BY <2>13, Start0State
      DEF BeginJoin, TypeOK, task, files, live, Goto, Fail, Step, Working, Preparing,
          Writing, Ended
  <2>14. CASE WaitSwap
    BY <2>14
      DEF WaitSwap, TypeOK, task, files, live, Goto, Fail, Step, Working, Preparing,
          Writing, Ended, Branches
  <2>15. CASE EndJoin
    BY <2>15
      DEF EndJoin, TypeOK, task, files, live, Goto, Fail, Step, Working, Preparing,
          Writing, Ended
  <2>16. CASE RemoveLoop
    BY <2>16
      DEF RemoveLoop, TypeOK, task, files, live, Goto, Fail, Step, Working, Preparing,
          Writing, Ended, Finish
  <2>17. ASSUME NEW u \in Units, CallUnit(u)
         PROVE TypeOK'
    <3>1. [unit EXCEPT ![u].job = TRUE] \in [Units -> UnitRecord]
      BY JobQueued DEF TypeOK
    <3>2. [branch EXCEPT ![u] = "poll"] \in Branches
      BY BranchMove DEF TypeOK, UnitPoints
    <3>3. unit' \in [Units -> UnitRecord] /\ branch' \in Branches
      BY <2>17, <3>1, <3>2 DEF CallUnit, TypeOK
    <3>4. step' \in Step /\ inhibited' \in BOOLEAN
      BY <2>17 DEF CallUnit, TypeOK, Goto, Fail, Step, Working, Preparing, Writing, Ended
    <3>. QED
      BY <2>17, <3>3, <3>4 DEF CallUnit, TypeOK, files
  <2>18. ASSUME NEW u \in Units, PollUnit(u)
         PROVE TypeOK'
    BY <2>18, BranchMove DEF PollUnit, TypeOK, task, files, live, UnitPoints
  <2>19. ASSUME NEW u \in Units, CheckUnit(u)
         PROVE TypeOK'
    BY <2>19, BranchMove
      DEF CheckUnit, TypeOK, task, files, live, Goto, Fail, Step, Working, Preparing,
          Writing, Ended, UnitPoints
  <2>20. CASE SwapReload
    BY <2>20 DEF SwapReload, TypeOK, task, files, live
  <2>21. CASE SwapResume
    BY <2>21 DEF SwapResume, TypeOK, task, files, live, Recipe, Target
  <2>22. CASE Exit
    BY <2>22
      DEF Exit, TypeOK, task, files, live, Step, Working, Preparing, Writing, Ended,
          Commands
  <2>23. CASE Reap
    BY <2>23, BlankState DEF Reap, Torn, TypeOK, task, files, live, Table
  <2>24. ASSUME NEW u \in Units, RunJob(u)
         PROVE TypeOK'
    BY <2>24 DEF RunJob, TypeOK, task, files, live, UnitRecord, Units, Wanted, UnitState
  <2>25. CASE DropEfi
    BY <2>25 DEF DropEfi, TypeOK, task, files, live, UnitRecord, Units, UnitState
  <2>26. ASSUME NEW d \in Disks, Format(d)
         PROVE TypeOK'
    BY <2>26, BlankState DEF Format, TypeOK, task, files, live, Table
  <2>27. ASSUME NEW d \in Disks, WriteTable(d)
         PROVE TypeOK'
    BY <2>27, BlankState DEF WriteTable, TypeOK, task, files, live, Table
  <2>28. CASE UNCHANGED vars
    BY <2>28 DEF vars, TypeOK, task, files, live
  <2>29. CASE OrphanStarts
    BY <2>29, BlankState DEF OrphanStarts, TypeOK, files, live, Commands, Table
  <2>30. CASE OrphanEnds
    <3>1. [disk EXCEPT ![Target].token = TRUE] \in [Disks -> DiskState]
      BY TokenDisk, TargetDisk DEF TypeOK
    <3>2. disk' \in [Disks -> DiskState]
      BY <2>30, <3>1, BlankState, PartitionedState, TargetDisk
        DEF OrphanEnds, Complete, Torn, TypeOK, Table
    <3>3. rootDev' \in Disks \cup {Zram} /\ loop' \in BOOLEAN
      BY <2>30, TargetDisk DEF OrphanEnds, Complete, TypeOK
    <3>. QED
      BY <2>30, <3>2, <3>3 DEF OrphanEnds, TypeOK, files
  <2>. QED
    BY <2>1, <2>2, <2>3, <2>4, <2>5, <2>6, <2>7, <2>8, <2>9, <2>10, <2>11, <2>12, <2>13,
       <2>14, <2>15, <2>16, <2>17, <2>18, <2>19, <2>20, <2>21, <2>22, <2>23, <2>24,
       <2>25, <2>26, <2>27, <2>28, <2>29, <2>30
      DEF Next, MainStep, SwapStep, Lifecycle, Environment

LEMMA HandoverStep == TypeOK /\ HandoverInv /\ [Next]_vars => HandoverInv'
<1>. SUFFICES ASSUME TypeOK, HandoverInv, [Next]_vars PROVE HandoverInv'
  OBVIOUS
<1>. QED
  <2>1. CASE StartDaemon
    BY <2>1
      DEF StartDaemon, HandoverInv, SelfContained, Target, Moved, Filling, Preparing, Writing,
          Ended, task, files, live, Goto, Fail
  <2>2. ASSUME NEW d \in Disks, NEW oem \in BOOLEAN, Receive(d, oem)
         PROVE HandoverInv'
    BY <2>2
      DEF Receive, HandoverInv, SelfContained, Target, Moved, Filling, Preparing, Writing, Ended,
          task, files, live, Goto, Fail, TypeOK
  <2>3. CASE DryRun
    BY <2>3
      DEF DryRun, HandoverInv, SelfContained, Target, Moved, Filling, Preparing, Writing, Ended,
          task, files, live, Goto, Fail
  <2>4. CASE Inhibit
    BY <2>4
      DEF Inhibit, HandoverInv, SelfContained, Target, Moved, Filling, Preparing, Writing, Ended,
          task, files, live, Goto, Fail
  <2>5. CASE SaveKey
    BY <2>5
      DEF SaveKey, HandoverInv, SelfContained, Target, Moved, Filling, Preparing, Writing, Ended,
          task, files, live, Goto, Fail
  <2>6. CASE MarkDevice
    BY <2>6
      DEF MarkDevice, HandoverInv, SelfContained, Target, Moved, Filling, Preparing, Writing,
          Ended, task, files, live, Goto, Fail
  <2>7. CASE RemovePolicy
    BY <2>7
      DEF RemovePolicy, HandoverInv, SelfContained, Target, Moved, Filling, Preparing, Writing,
          Ended, task, files, live, Goto, Fail
  <2>8. CASE MakePolicy
    BY <2>8
      DEF MakePolicy, HandoverInv, SelfContained, Target, Moved, Filling, Preparing, Writing,
          Ended, task, files, live, Goto, Fail
  <2>9. CASE StartRepart
    <3>1. CASE step' = "partition"
      <4>1. disk'[Target].table = "partial"
        BY <2>9, <3>1, TargetDisk DEF StartRepart, TypeOK, Blank, Fail
      <4>. QED
        BY <2>9, <3>1, <4>1
          DEF StartRepart, HandoverInv, SelfContained, Target, Moved, Filling, Preparing,
              Writing, Ended, Goto, Fail, files, live
    <3>2. CASE step' = "failed"
      BY <2>9, <3>2
        DEF StartRepart, HandoverInv, SelfContained, Moved, Filling, Preparing, Writing, Ended,
            Goto, files, live
    <3>. QED
      BY <2>9, <3>1, <3>2 DEF StartRepart, Goto, Fail
  <2>10. CASE EndRepart
    <3>1. Target \in Disks
      BY TargetDisk
    <3>2. CASE step' = "failed"
      BY <2>10, <3>1, <3>2
        DEF EndRepart, Complete, Target, Zram, HandoverInv, SelfContained, Moved, Filling, Preparing,
            Writing, Ended, files
    <3>3. CASE step' \in {"import", "settle"}
      <4>1. ~recipe.oem /\ rootDev' = Target /\ inhibited' = inhibited
        BY <2>10, <3>3 DEF EndRepart, Complete, Goto, Fail, Finish
      <4>2. disk'[Target].table = "gnomeos"
        BY <2>10, <3>1, <3>3, <4>1 DEF EndRepart, Complete, Partitioned, TypeOK, Fail, Finish
      <4>3. child = "none" /\ inhibited
        BY <2>10 DEF EndRepart, HandoverInv, Writing, Preparing, Ended
      <4>. QED
        BY <2>10, <3>1, <3>3, <4>1, <4>2, <4>3
        DEF EndRepart, HandoverInv, SelfContained, Target, Moved, Filling, Preparing, Writing,
            Ended, Zram
    <3>4. CASE step' = "finished"
      BY <2>10, <3>4
      DEF EndRepart, Complete, AfterRepart, Goto, Fail, Finish, HandoverInv, SelfContained,
          Target, Moved, Filling, Preparing, Writing, Ended
    <3>. QED
      BY <2>10, <3>2, <3>3, <3>4 DEF EndRepart, AfterRepart, Goto, Fail, Finish
  <2>11. CASE ImportToken
    <3>1. disk'[Target].table = disk[Target].table
      BY <2>11, TargetDisk DEF ImportToken, TypeOK, DiskState
    <3>2. (step' = "forget" /\ inhibited' = inhibited) \/ step' = "failed"
      BY <2>11 DEF ImportToken, Goto, Fail
    <3>. QED
      BY <2>11, <3>1, <3>2
      DEF ImportToken, HandoverInv, SelfContained, Target, Moved, Filling, Preparing, Writing,
          Ended, files, live
  <2>12. CASE ForgetCredentials
    BY <2>12
      DEF ForgetCredentials, HandoverInv, SelfContained, Target, Moved, Filling, Preparing,
          Writing, Ended, task, files, live, Goto, Fail
  <2>13. CASE BeginJoin
    <3>1. CASE step' = "failed"
      BY <2>13, <3>1
        DEF BeginJoin, HandoverInv, SelfContained, Target, Moved, Filling, Preparing, Writing,
            Ended, Goto, files, live
    <3>2. CASE step' = "join"
      BY <2>13, <3>2
        DEF BeginJoin, HandoverInv, SelfContained, Target, Moved, Filling, Preparing, Writing,
            Ended, Goto, Fail, Start0, files, live
    <3>. QED
      BY <2>13, <3>1, <3>2 DEF BeginJoin, Goto, Fail
  <2>14. CASE WaitSwap
    BY <2>14
      DEF WaitSwap, HandoverInv, SelfContained, Target, Moved, Filling, Preparing, Writing,
          Ended, task, files, live, TypeOK, Branches, Goto, Fail
  <2>15. CASE EndJoin
    BY <2>15
      DEF EndJoin, HandoverInv, SelfContained, Target, Moved, Filling, Preparing, Writing, Ended,
          task, files, live, TypeOK, Branches, Goto, Fail
  <2>16. CASE RemoveLoop
    BY <2>16
      DEF RemoveLoop, HandoverInv, SelfContained, Target, Moved, Filling, Preparing, Writing,
          Ended, task, files, live, Finish, Goto, Fail
  <2>17. ASSUME NEW u \in Units, CallUnit(u)
         PROVE HandoverInv'
    <3>1. rootDev # Zram
      BY <2>17, TargetDisk DEF CallUnit, HandoverInv, Moved, Writing, Zram
    <3>2. unit'["zram"].state = unit["zram"].state
      BY <2>17 DEF CallUnit, TypeOK, Units, UnitRecord
    <3>3. branch'.swap = branch.swap /\ (branch'.zram = "done" => branch.zram = "done")
      BY <2>17 DEF CallUnit, TypeOK, Units, Branches
    <3>4. (step' = "join" /\ inhibited' = inhibited) \/ step' = "failed"
      BY <2>17 DEF CallUnit, Goto, Fail
    <3>. QED
      BY <2>17, <3>1, <3>2, <3>3, <3>4
      DEF CallUnit, HandoverInv, SelfContained, Target, Moved, Filling, Preparing, Writing,
          Ended, files
  <2>18. ASSUME NEW u \in Units, PollUnit(u)
         PROVE HandoverInv'
    BY <2>18
      DEF PollUnit, HandoverInv, SelfContained, Target, Moved, Filling, Preparing, Writing,
          Ended, task, files, live, TypeOK, Units, Branches
  <2>19. ASSUME NEW u \in Units, CheckUnit(u)
         PROVE HandoverInv'
    BY <2>19
      DEF CheckUnit, HandoverInv, SelfContained, Target, Moved, Filling, Preparing, Writing,
          Ended, task, files, live, TypeOK, Units, Branches, Wanted, Goto, Fail
  <2>20. CASE SwapReload
    BY <2>20
      DEF SwapReload, HandoverInv, SelfContained, Target, Moved, Filling, Preparing, Writing,
          Ended, task, files, live
  <2>21. CASE SwapResume
    BY <2>21
      DEF SwapResume, HandoverInv, SelfContained, Target, Moved, Filling, Preparing, Writing,
          Ended, task, files, live, TypeOK, Recipe
  <2>22. CASE Exit
    BY <2>22
      DEF Exit, HandoverInv, SelfContained, Target, Moved, Filling, Preparing, Writing,
          Ended, Commands, task, files, live, TypeOK
  <2>23. CASE Reap
    BY <2>23
      DEF Reap, Torn, HandoverInv, SelfContained, Target, Moved, Filling, Preparing,
          Writing, Ended, task, files, live
  <2>24. ASSUME NEW u \in Units, RunJob(u)
         PROVE HandoverInv'
    BY <2>24
      DEF RunJob, HandoverInv, SelfContained, Target, Moved, Filling, Preparing, Writing, Ended,
          task, files, live, TypeOK, UnitRecord, Wanted, Units
  <2>25. CASE DropEfi
    BY <2>25
      DEF DropEfi, HandoverInv, SelfContained, Target, Moved, Filling, Preparing, Writing, Ended,
          task, files, live, TypeOK, UnitRecord, Units
  <2>26. ASSUME NEW d \in Disks, Format(d)
         PROVE HandoverInv'
    BY <2>26
      DEF Format, HandoverInv, SelfContained, Target, Moved, Filling, Preparing, Writing, Ended,
          task, files, live, TypeOK, Busy, Blank
  <2>27. ASSUME NEW d \in Disks, WriteTable(d)
         PROVE HandoverInv'
    BY <2>27
      DEF WriteTable, HandoverInv, SelfContained, Target, Moved, Filling, Preparing, Writing,
          Ended, task, files, live, TypeOK, Busy, Blank
  <2>28. CASE UNCHANGED vars
    BY <2>28
      DEF vars, HandoverInv, SelfContained, Target, Moved, Filling, Preparing, Writing, Ended,
          task, files, live
  <2>29. CASE OrphanStarts
    <3>1. disk'[Target].table = "partial"
      BY <2>29, TargetDisk DEF OrphanStarts, TypeOK, Blank
    <3>2. step = "down"
      BY <2>29 DEF OrphanStarts, HandoverInv
    <3>. QED
      BY <2>29, <3>1, <3>2
        DEF OrphanStarts, HandoverInv, SelfContained, Target, Moved, Filling, Preparing,
            Writing, Ended, files, live
  <2>30. CASE OrphanEnds
    <3>1. step = "down" /\ orphan' = "none"
      BY <2>30 DEF OrphanEnds, HandoverInv
    <3>2. rootDev' = rootDev \/ (rootDev' = Target /\ ~recipe.oem)
      BY <2>30 DEF OrphanEnds, Complete
    <3>3. rootDev' # Zram \/ rootDev' = rootDev
      BY <3>2, TargetDisk DEF Zram
    <3>. QED
      BY <2>30, <3>1, <3>2, <3>3
        DEF OrphanEnds, HandoverInv, SelfContained, Target, Moved, Filling, Preparing,
            Writing, Ended, files
  <2>. QED
    BY <2>1, <2>2, <2>3, <2>4, <2>5, <2>6, <2>7, <2>8, <2>9, <2>10, <2>11, <2>12, <2>13,
       <2>14, <2>15, <2>16, <2>17, <2>18, <2>19, <2>20, <2>21, <2>22, <2>23, <2>24,
       <2>25, <2>26, <2>27, <2>28, <2>29, <2>30
      DEF Next, MainStep, SwapStep, Lifecycle, Environment

LEMMA KeyStep == TypeOK /\ HandoverInv /\ KeyInv /\ [Next]_vars => KeyInv'
<1>. SUFFICES ASSUME TypeOK, HandoverInv, KeyInv, [Next]_vars PROVE KeyInv'
  OBVIOUS
<1>1. orphan # "none" => step = "down"
  BY DEF HandoverInv
<1>. QED
  <2>1. CASE StartDaemon
    BY <2>1
      DEF StartDaemon, KeyInv, KeysNotShared, SameVintage, Target, Encrypted, Sealed,
          Moved, Filling, Writing, task, files, live, Goto, Fail
  <2>2. ASSUME NEW d \in Disks, NEW oem \in BOOLEAN, Receive(d, oem)
         PROVE KeyInv'
    BY <2>2, <1>1
      DEF Receive, KeyInv, KeysNotShared, SameVintage, Target, Encrypted, Sealed, Moved, Filling,
          Writing, task, files, live, TypeOK, Recipe, DiskState, Number, Goto, Fail
  <2>3. CASE DryRun
    BY <2>3
      DEF DryRun, KeyInv, KeysNotShared, SameVintage, Target, Encrypted, Sealed, Moved, Filling,
          Writing, task, files, live, Goto, Fail
  <2>4. CASE Inhibit
    BY <2>4
      DEF Inhibit, KeyInv, KeysNotShared, SameVintage, Target, Encrypted, Sealed, Moved, Filling,
          Writing, task, files, live, Goto, Fail
  <2>5. CASE SaveKey
    BY <2>5, <1>1
      DEF SaveKey, KeyInv, KeysNotShared, SameVintage, Target, Encrypted, Sealed, Moved, Filling,
          Writing, task, files, live, Goto, Fail
  <2>6. CASE MarkDevice
    BY <2>6
      DEF MarkDevice, KeyInv, KeysNotShared, SameVintage, Target, Encrypted, Sealed,
          Moved, Filling, Writing, task, files, live, Goto, Fail
  <2>7. CASE RemovePolicy
    BY <2>7
      DEF RemovePolicy, KeyInv, KeysNotShared, SameVintage, Target, Encrypted, Sealed,
          Moved, Filling, Writing, task, files, live, Goto, Fail
  <2>8. CASE MakePolicy
    BY <2>8, <1>1
      DEF MakePolicy, KeyInv, KeysNotShared, SameVintage, Target, Encrypted, Sealed,
          Moved, Filling, Writing, task, files, live, Goto, Fail
  <2>9. CASE StartRepart
    BY <2>9, TargetDisk
      DEF StartRepart, KeyInv, KeysNotShared, SameVintage, Target, Encrypted, Sealed,
          Moved, Filling, Writing, task, files, live, TypeOK, DiskState, Number, Blank, Goto,
          Fail
  <2>10. CASE EndRepart
    BY <2>10, <1>1, TargetDisk
      DEF EndRepart, Complete, Torn, KeyInv, KeysNotShared, SameVintage, Target, Encrypted, Sealed,
          Moved, Filling, Writing, task, files, live, TypeOK, AfterRepart, Partitioned, Finish,
          Blank, DiskState, Number, Goto, Fail
  <2>11. CASE ImportToken
    BY <2>11, TargetDisk
      DEF ImportToken, KeyInv, KeysNotShared, SameVintage, Target, Encrypted, Sealed,
          Moved, Filling, Writing, task, files, live, TypeOK, DiskState, Number, Blank, Goto,
          Fail
  <2>12. CASE ForgetCredentials
    BY <2>12, <1>1
      DEF ForgetCredentials, KeyInv, KeysNotShared, SameVintage, Target, Encrypted,
          Sealed, Moved, Filling, Writing, task, files, live, Goto, Fail
  <2>13. CASE BeginJoin
    BY <2>13
      DEF BeginJoin, KeyInv, KeysNotShared, SameVintage, Target, Encrypted, Sealed,
          Moved, Filling, Writing, task, files, live, Goto, Fail
  <2>14. CASE WaitSwap
    BY <2>14
      DEF WaitSwap, KeyInv, KeysNotShared, SameVintage, Target, Encrypted, Sealed,
          Moved, Filling, Writing, task, files, live, Goto, Fail
  <2>15. CASE EndJoin
    BY <2>15
      DEF EndJoin, KeyInv, KeysNotShared, SameVintage, Target, Encrypted, Sealed, Moved, Filling,
          Writing, task, files, live, Goto, Fail
  <2>16. CASE RemoveLoop
    BY <2>16
      DEF RemoveLoop, KeyInv, KeysNotShared, SameVintage, Target, Encrypted, Sealed,
          Moved, Filling, Writing, task, files, live, Finish, HandoverInv, Goto, Fail
  <2>17. ASSUME NEW u \in Units, CallUnit(u)
         PROVE KeyInv'
    BY <2>17
      DEF CallUnit, KeyInv, KeysNotShared, SameVintage, Target, Encrypted, Sealed,
          Moved, Filling, Writing, task, files, live, Goto, Fail
  <2>18. ASSUME NEW u \in Units, PollUnit(u)
         PROVE KeyInv'
    BY <2>18
      DEF PollUnit, KeyInv, KeysNotShared, SameVintage, Target, Encrypted, Sealed,
          Moved, Filling, Writing, task, files, live
  <2>19. ASSUME NEW u \in Units, CheckUnit(u)
         PROVE KeyInv'
    BY <2>19
      DEF CheckUnit, KeyInv, KeysNotShared, SameVintage, Target, Encrypted, Sealed,
          Moved, Filling, Writing, task, files, live, Goto, Fail
  <2>20. CASE SwapReload
    BY <2>20
      DEF SwapReload, KeyInv, KeysNotShared, SameVintage, Target, Encrypted, Sealed,
          Moved, Filling, Writing, task, files, live
  <2>21. CASE SwapResume
    BY <2>21
      DEF SwapResume, KeyInv, KeysNotShared, SameVintage, Target, Encrypted, Sealed,
          Moved, Filling, Writing, task, files, live
  <2>22. CASE Exit
    BY <2>22, TargetDisk
      DEF Exit, KeyInv, KeysNotShared, SameVintage, Target, Encrypted, Sealed, Moved,
          Filling, Commands, Writing, task, files, live, TypeOK, Ended
  <2>23. CASE Reap
    BY <2>23, TargetDisk
      DEF Reap, Torn, KeyInv, KeysNotShared, SameVintage, Target, Encrypted, Sealed,
          Moved, Filling, Writing, task, files, live, TypeOK, Blank, DiskState, Number
  <2>24. ASSUME NEW u \in Units, RunJob(u)
         PROVE KeyInv'
    BY <2>24
      DEF RunJob, KeyInv, KeysNotShared, SameVintage, Target, Encrypted, Sealed, Moved, Filling,
          Writing, task, files, live
  <2>25. CASE DropEfi
    BY <2>25
      DEF DropEfi, KeyInv, KeysNotShared, SameVintage, Target, Encrypted, Sealed, Moved, Filling,
          Writing, task, files, live
  <2>26. ASSUME NEW d \in Disks, Format(d)
         PROVE KeyInv'
    BY <2>26
      DEF Format, KeyInv, KeysNotShared, SameVintage, Target, Encrypted, Sealed, Moved, Filling,
          Writing, task, files, live, TypeOK, Busy, Blank, HandoverInv, SelfContained,
          DiskState, Number
  <2>27. ASSUME NEW d \in Disks, WriteTable(d)
         PROVE KeyInv'
    BY <2>27
      DEF WriteTable, KeyInv, KeysNotShared, SameVintage, Target, Encrypted, Sealed,
          Moved, Filling, Writing, task, files, live, TypeOK, Busy, Blank, HandoverInv,
          SelfContained, DiskState, Number
  <2>28. CASE UNCHANGED vars
    BY <2>28
      DEF vars, KeyInv, KeysNotShared, SameVintage, Target, Encrypted, Sealed, Moved, Filling,
          Writing, task, files, live
  <2>29. CASE OrphanStarts
    <3>1. step = "down"
      BY <2>29, <1>1 DEF OrphanStarts
    <3>2. /\ disk'[Target] = Blank("partial")
          /\ \A d \in Disks : d # Target => disk'[d] = disk[d]
      BY <2>29, TargetDisk DEF OrphanStarts, TypeOK
    <3>. QED
      BY <2>29, <3>1, <3>2, TargetDisk
      DEF OrphanStarts, KeyInv, KeysNotShared, SameVintage, Target, Encrypted, Sealed,
          Moved, Filling, Writing, files, live, TypeOK, DiskState, Number, Blank
  <2>30. CASE OrphanEnds
    BY <2>30, TargetDisk
      DEF OrphanEnds, Complete, Torn, KeyInv, KeysNotShared, SameVintage, Target,
          Encrypted, Sealed, Moved, Filling, Writing, files, TypeOK, Partitioned, Blank,
          DiskState, Number, HandoverInv
  <2>. QED
    BY <2>1, <2>2, <2>3, <2>4, <2>5, <2>6, <2>7, <2>8, <2>9, <2>10, <2>11, <2>12, <2>13,
       <2>14, <2>15, <2>16, <2>17, <2>18, <2>19, <2>20, <2>21, <2>22, <2>23, <2>24,
       <2>25, <2>26, <2>27, <2>28, <2>29, <2>30
      DEF Next, MainStep, SwapStep, Lifecycle, Environment

-----------------------------------------------------------------------------
(* The theorems.                                                            *)

\* Every variable keeps the type the model gives it, for any set of disks and
\* any number of installations.
THEOREM TypeCorrect == Spec => []TypeOK
<1>. QED
  BY TypeInit, TypeStep, PTL DEF Spec

LEMMA IInvInit == Init => IInv
<1>. SUFFICES ASSUME Init PROVE IInv
  OBVIOUS
<1>1. TypeOK
  BY TypeInit
<1>2. HandoverInv
  BY DEF Init, HandoverInv, SelfContained, Moved, Filling, Filling, Preparing, Writing, Start0, Units
<1>3. \A d \in Disks : disk[d].slot0 = 0 /\ disk[d].table \in {"none", "foreign"}
  BY DEF Init, Blank
<1>4. KeyInv
  BY <1>3 DEF Init, KeyInv, KeysNotShared, SameVintage, Moved, Filling, Writing
<1>. QED
  BY <1>1, <1>2, <1>4 DEF IInv

LEMMA IInvStep == IInv /\ [Next]_vars => IInv'
  BY TypeStep, HandoverStep, KeyStep DEF IInv

\* The inductive invariant holds of every behaviour.
THEOREM Invariance == Spec => []IInv
<1>. QED
  BY IInvInit, IInvStep, PTL DEF Spec

\* A finished ordinary installation leaves a session that needs neither the
\* medium nor the RAM disk.
THEOREM FinishedSelfContained == Spec => []SelfContained
<1>1. IInv => SelfContained
  BY DEF IInv, HandoverInv
<1>. QED
  BY Invariance, <1>1, PTL

\* The passphrase handed out opens the finished disk, whatever was attempted
\* before.
THEOREM FinishedKeyUnlocks == Spec => []KeyUnlocks
<1>1. IInv => KeyUnlocks
  BY DEF IInv, KeyInv, KeyUnlocks, Moved, Writing
<1>. QED
  BY Invariance, <1>1, PTL

\* No passphrase is enrolled on two disks.
THEOREM KeysStayApart == Spec => []KeysNotShared
<1>1. IInv => KeysNotShared
  BY DEF IInv, KeyInv
<1>. QED
  BY Invariance, <1>1, PTL

\* The credentials in an ESP are as old as the passphrase beside them.
THEOREM CredentialsFit == Spec => []SameVintage
<1>1. IInv => SameVintage
  BY DEF IInv, KeyInv
<1>. QED
  BY Invariance, <1>1, PTL

-----------------------------------------------------------------------------
(* do_install implements Handover.                                          *)

LEMMA HandoverInit == Init => H!Init
<1>. SUFFICES ASSUME Init PROVE H!Init
  OBVIOUS
<1>1. unit["zram"].state = "active"
  BY DEF Init, Units
<1>2. phase = "idle"
  BY DEF Init, phase, Outlived, Filling, Working, Preparing, Writing
<1>3. held \in {{Zram, Medium}, {Zram}}
  BY <1>1 DEF Init, held
<1>4. [disk |-> recipe.disk, oem |-> recipe.oem] \in [disk: Disks, oem: BOOLEAN]
  BY DEF Init, Recipe
<1>. QED
  BY <1>2, <1>3, <1>4 DEF Init, H!Init, H!Live

LEMMA HandoverSimulation == IInv /\ [Next]_vars => [H!Next]_H!vars
<1>. SUFFICES ASSUME IInv, [Next]_vars PROVE [H!Next]_H!vars
  OBVIOUS
<1>. USE DEF IInv
<1>. QED
  <2>1. CASE StartDaemon
    BY <2>1
      DEF StartDaemon, phase, held, H!vars, H!Next, H!Live, Target, Working, Preparing,
          Writing, Moved, Filling, Outlived, task, files, live, Goto, Fail, Finish
  <2>2. ASSUME NEW d \in Disks, NEW oem \in BOOLEAN, Receive(d, oem)
         PROVE [H!Next]_H!vars
    BY <2>2
      DEF Receive, phase, held, H!vars, H!Next, H!Live, Target, Working, Preparing,
          Writing, Moved, Filling, Outlived, task, files, live, H!Begin, Goto, Fail, Finish
  <2>3. CASE DryRun
    BY <2>3
      DEF DryRun, phase, held, H!vars, H!Next, H!Live, Target, Working, Preparing,
          Writing, Moved, Filling, Outlived, task, files, live, H!Fail, Goto, Fail, Finish
  <2>4. CASE Inhibit
    BY <2>4
      DEF Inhibit, phase, held, H!vars, H!Next, H!Live, Target, Working, Preparing,
          Writing, Moved, Filling, Outlived, task, files, live, H!Fail, Goto, Fail, Finish
  <2>5. CASE SaveKey
    BY <2>5
      DEF SaveKey, phase, held, H!vars, H!Next, H!Live, Target, Working, Preparing,
          Writing, Moved, Filling, Outlived, task, files, live, H!Fail, Goto, Fail, Finish
  <2>6. CASE MarkDevice
    BY <2>6
      DEF MarkDevice, phase, held, H!vars, H!Next, H!Live, Target, Working, Preparing,
          Writing, Moved, Filling, Outlived, task, files, live, H!Fail, Goto, Fail, Finish
  <2>7. CASE RemovePolicy
    BY <2>7
      DEF RemovePolicy, phase, held, H!vars, H!Next, H!Live, Target, Working, Preparing,
          Writing, Moved, Filling, Outlived, task, files, live, H!Fail, Goto, Fail, Finish
  <2>8. CASE MakePolicy
    BY <2>8
      DEF MakePolicy, phase, held, H!vars, H!Next, H!Live, Target, Working, Preparing,
          Writing, Moved, Filling, Outlived, task, files, live, H!Fail, Goto, Fail, Finish
  <2>9. CASE StartRepart
    BY <2>9
      DEF StartRepart, phase, held, H!vars, H!Next, H!Live, Target, Working, Preparing,
          Writing, Moved, Filling, Outlived, task, files, live, H!Fail, Goto, Fail, Finish
  <2>10. CASE EndRepart
    BY <2>10
      DEF EndRepart, Complete, phase, held, H!vars, H!Next, H!Live, Target, Working, Preparing,
          Writing, Moved, Filling, Outlived, task, files, live, TypeOK, Zram, H!MoveRoot, H!Fail, H!Finish,
          H!Onward, AfterRepart, Goto, Fail, Finish
  <2>11. CASE ImportToken
    BY <2>11
      DEF ImportToken, phase, held, H!vars, H!Next, H!Live, Target, Working, Preparing,
          Writing, Moved, Filling, Outlived, task, files, live, H!Fail, Goto, Fail, Finish
  <2>12. CASE ForgetCredentials
    BY <2>12
      DEF ForgetCredentials, phase, held, H!vars, H!Next, H!Live, Target, Working,
          Preparing, Writing, Moved, Filling, Outlived, task, files, live, H!Fail, Goto, Fail, Finish
  <2>13. CASE BeginJoin
    BY <2>13
      DEF BeginJoin, phase, held, H!vars, H!Next, H!Live, Target, Working, Preparing,
          Writing, Moved, Filling, Outlived, task, files, live, H!Fail, Goto, Fail, Finish
  <2>14. CASE WaitSwap
    BY <2>14
      DEF WaitSwap, phase, held, H!vars, H!Next, H!Live, Target, Working, Preparing,
          Writing, Moved, Filling, Outlived, task, files, live, H!Fail, Goto, Fail, Finish
  <2>15. CASE EndJoin
    BY <2>15
      DEF EndJoin, phase, held, H!vars, H!Next, H!Live, Target, Working, Preparing,
          Writing, Moved, Filling, Outlived, task, files, live, H!Fail, Goto, Fail, Finish
  <2>16. CASE RemoveLoop
    BY <2>16
      DEF RemoveLoop, phase, held, H!vars, H!Next, H!Live, Target, Working, Preparing,
          Writing, Moved, Filling, Outlived, task, files, live, HandoverInv, TypeOK, Zram, Medium, H!Fail,
          H!Finish, Goto, Fail, Finish
  <2>17. ASSUME NEW u \in Units, CallUnit(u)
         PROVE [H!Next]_H!vars
    <3>1. unit'["zram"].state = unit["zram"].state
      BY <2>17 DEF CallUnit, TypeOK, Units, UnitRecord
    <3>2. held' = held
      BY <2>17, <3>1 DEF CallUnit, held
    <3>3. phase = "busy" /\ phase' \in {"busy", "failed"}
      BY <2>17 DEF CallUnit, phase, Outlived, Goto, Fail, Working, Preparing, Writing
    <3>. QED
      BY <2>17, <3>2, <3>3 DEF CallUnit, H!vars, H!Next, H!Fail
  <2>18. ASSUME NEW u \in Units, PollUnit(u)
         PROVE [H!Next]_H!vars
    BY <2>18
      DEF PollUnit, phase, held, H!vars, H!Next, H!Live, Target, Working, Preparing,
          Writing, Moved, Filling, Outlived, task, files, live
  <2>19. ASSUME NEW u \in Units, CheckUnit(u)
         PROVE [H!Next]_H!vars
    BY <2>19
      DEF CheckUnit, phase, held, H!vars, H!Next, H!Live, Target, Working, Preparing,
          Writing, Moved, Filling, Outlived, task, files, live, H!Fail, Goto, Fail, Finish
  <2>20. CASE SwapReload
    <3>1. held' = held /\ recipe' = recipe /\ rootDev' = rootDev /\ usrDev' = usrDev
      BY <2>20 DEF SwapReload, held, live
    <3>2. phase' = phase \/ (phase = "cut" /\ phase' = "idle")
      BY <2>20 DEF SwapReload, phase, Outlived, Working, Preparing, Writing
    <3>. QED
      BY <3>1, <3>2 DEF H!vars, H!Next, H!Stop
  <2>21. CASE SwapResume
    <3>1. ~recipe.oem /\ rootDev = Target
      BY <2>21 DEF SwapResume, HandoverInv
    <3>2. held' = held /\ recipe' = recipe /\ rootDev' = rootDev
      BY <2>21 DEF SwapResume, held
    <3>3. CASE usrDev' = usrDev
      <4>1. phase' = phase \/ (phase = "cut" /\ phase' = "idle")
        BY <2>21 DEF SwapResume, phase, Outlived
      <4>. QED
        BY <3>2, <3>3, <4>1 DEF H!vars, H!Next, H!Stop
    <3>4. CASE usrDev' # usrDev
      <4>1. usrDev' = Target /\ child' = "ok" /\ step' = step /\ orphan' = orphan
        BY <2>21, <3>4 DEF SwapResume
      <4>2. step \in {"join", "unloop", "failed", "down"}
        BY <2>21, <3>4, <4>1 DEF SwapResume, HandoverInv, SelfContained, Ended
      <4>3. CASE step = "down"
        <5>1. orphan \notin Filling
          BY <2>21 DEF SwapResume, HandoverInv, Filling
        <5>2. phase = "cut" /\ phase' = "idle"
          BY <2>21, <4>1, <4>3, <5>1
            DEF SwapResume, phase, Outlived, Working, Preparing, Writing
        <5>. QED
          BY <3>1, <3>2, <4>1, <5>2 DEF Target, H!vars, H!Next, H!MoveUsr, H!Onward
      <4>4. CASE step # "down"
        <5>1. phase \in {"busy", "failed"} /\ phase' = phase
          BY <4>1, <4>2, <4>4 DEF phase, Outlived, Working, Writing, Preparing
        <5>2. phase' \in H!Onward[phase] /\ phase \in DOMAIN H!Onward
          BY <5>1 DEF H!Onward
        <5>. QED
          BY <3>1, <3>2, <4>1, <5>2 DEF Target, H!vars, H!Next, H!MoveUsr
      <4>. QED
        BY <4>3, <4>4
    <3>. QED
      BY <3>3, <3>4
  <2>22. CASE Exit
    <3>1. held' = held /\ recipe' = recipe /\ rootDev' = rootDev /\ usrDev' = usrDev
      BY <2>22 DEF Exit, held, live
    <3>2. phase' \in {"idle", "cut"} /\ (phase = "idle" => phase' = "idle")
      BY <2>22
        DEF Exit, phase, Outlived, HandoverInv, Commands, Filling, Working, Preparing,
            Writing, Ended
    <3>3. phase \in {"idle", "busy", "finished", "failed"}
      BY <2>22
        DEF Exit, phase, Outlived, TypeOK, Step, Ended, Working, Preparing, Writing
    <3>4. phase = "finished" => phase' = "idle"
      <4>1. SUFFICES ASSUME phase = "finished" PROVE phase' = "idle"
        OBVIOUS
      <4>2. step = "finished" /\ orphan' = "none" /\ child' = child
        BY <2>22, <4>1
          DEF Exit, phase, Outlived, Commands, TypeOK, Step, Ended, Working, Preparing,
              Writing
      <4>3. child \notin {"reload", "resume"}
        BY <4>2 DEF HandoverInv
      <4>. QED
        BY <2>22, <4>2, <4>3
          DEF Exit, phase, Outlived, Filling, Working, Preparing, Writing
    <3>. QED
      BY <3>1, <3>2, <3>3, <3>4 DEF H!vars, H!Next, H!End
  <2>23. CASE Reap
    <3>1. held' = held /\ recipe' = recipe /\ rootDev' = rootDev /\ usrDev' = usrDev
      BY <2>23 DEF Reap, held, live
    <3>2. phase \in {"idle", "cut"} /\ phase' = "idle"
      BY <2>23 DEF Reap, phase, Outlived, Filling, Working, Preparing, Writing
    <3>. QED
      BY <3>1, <3>2 DEF H!vars, H!Next, H!Stop
  <2>24. ASSUME NEW u \in Units, RunJob(u)
         PROVE [H!Next]_H!vars
    <3>1. phase' = phase
      BY <2>24 DEF RunJob, phase, Outlived, task
    <3>2. CASE unit'["zram"].state = "active" <=> unit["zram"].state = "active"
      BY <2>24, <3>1, <3>2 DEF RunJob, held, task, H!vars
    <3>3. CASE ~(unit'["zram"].state = "active" <=> unit["zram"].state = "active")
      <4>1. u = "zram" /\ unit["zram"].job
        BY <2>24, <3>3 DEF RunJob, TypeOK, Units
      <4>2. unit["zram"].state = "active"
        <5>1. SUFFICES ASSUME unit["zram"].state # "active" PROVE FALSE
          OBVIOUS
        <5>. QED
          BY <2>24, <3>3, <4>1, <5>1 DEF RunJob, TypeOK, Units, UnitRecord, Wanted
      <4>3. rootDev # Zram /\ usrDev # Zram
        BY <4>1 DEF HandoverInv, TypeOK, Zram, Medium
      <4>4. held' = held \ {Zram}
        BY <2>24, <3>3, <4>2 DEF RunJob, held, Zram, Medium
      <4>. QED
        BY <2>24, <3>1, <4>3, <4>4 DEF RunJob, task, H!vars, H!Next, H!LetGo, H!Live
    <3>. QED
      BY <3>2, <3>3
  <2>25. CASE DropEfi
    BY <2>25
      DEF DropEfi, phase, held, H!vars, H!Next, H!Live, Target, Working, Preparing,
          Writing, Moved, Filling, Outlived, task, files, live, TypeOK, UnitRecord, Units
  <2>26. ASSUME NEW d \in Disks, Format(d)
         PROVE [H!Next]_H!vars
    BY <2>26
      DEF Format, phase, held, H!vars, H!Next, H!Live, Target, Working, Preparing,
          Writing, Moved, Filling, Outlived, task, files, live
  <2>27. ASSUME NEW d \in Disks, WriteTable(d)
         PROVE [H!Next]_H!vars
    BY <2>27
      DEF WriteTable, phase, held, H!vars, H!Next, H!Live, Target, Working, Preparing,
          Writing, Moved, Filling, Outlived, task, files, live
  <2>28. CASE UNCHANGED vars
    BY <2>28
      DEF vars, phase, held, H!vars, H!Next, H!Live, Target, Working, Preparing,
          Writing, Moved, Filling, Outlived, task, files, live
  <2>29. CASE OrphanStarts
    BY <2>29
      DEF OrphanStarts, phase, held, H!vars, Outlived, Filling, HandoverInv, files, live
  <2>30. CASE OrphanEnds
    <3>1. step = "down" /\ orphan' = "none" /\ step' = step /\ child' = child
      BY <2>30 DEF OrphanEnds, HandoverInv
    <3>2. orphan \in Filling => child = "none"
      BY DEF HandoverInv, Filling
    <3>3. CASE orphan = "partition"
      BY <2>30, <3>1, <3>2, <3>3
      DEF OrphanEnds, Complete, phase, held, Outlived, Filling, Target, H!vars, H!Next,
          H!MoveRoot, H!Stop, H!Onward
    <3>4. CASE orphan = "repart"
      BY <2>30, <3>1, <3>2, <3>4
      DEF OrphanEnds, phase, held, Outlived, Filling, H!vars, H!Next, H!Stop
    <3>5. CASE orphan \notin Filling
      <4>1. phase' = phase /\ rootDev' = rootDev /\ usrDev' = usrDev /\ recipe' = recipe
        BY <2>30, <3>1, <3>5 DEF OrphanEnds, phase, Outlived, Filling
      <4>2. CASE loop' = loop
        BY <2>30, <4>1, <4>2 DEF OrphanEnds, held, H!vars
      <4>3. CASE loop' # loop
        <5>1. orphan = "unloop" /\ loop' = FALSE
          BY <2>30, <4>3 DEF OrphanEnds
        <5>2. usrDev = Target /\ rootDev = Target
          BY <5>1 DEF HandoverInv, Moved, Writing
        <5>3. Medium \notin {rootDev, usrDev}
          BY <5>2, TargetDisk DEF Medium
        <5>4. held' = held \ {Medium}
          BY <2>30, <5>1 DEF OrphanEnds, held, Zram, Medium
        <5>. QED
          BY <4>1, <5>3, <5>4 DEF H!vars, H!Next, H!LetGo, H!Live
      <4>. QED
        BY <4>2, <4>3
    <3>. QED
      BY <3>3, <3>4, <3>5 DEF Filling
  <2>. QED
    BY <2>1, <2>2, <2>3, <2>4, <2>5, <2>6, <2>7, <2>8, <2>9, <2>10, <2>11, <2>12, <2>13,
       <2>14, <2>15, <2>16, <2>17, <2>18, <2>19, <2>20, <2>21, <2>22, <2>23, <2>24,
       <2>25, <2>26, <2>27, <2>28, <2>29, <2>30
      DEF Next, MainStep, SwapStep, Lifecycle, Environment

\* Every behaviour of the daemon, seen through the devices and resources of
\* the live session, is a behaviour of Handover.
THEOREM Refinement == Spec => HandoverSpec
<1>. QED
  BY HandoverInit, HandoverSimulation, Invariance, PTL DEF Spec, HandoverSpec, H!Spec

-----------------------------------------------------------------------------
(* What a step may never do.                                                *)

\* The steps of a command that outlived its daemon.
OrphanStep == OrphanStarts \/ OrphanEnds \/ Reap

LEMMA OtherDisk ==
  ASSUME TypeOK, NEW d \in Disks, NEW e \in Disks, NEW x, d # e,
         disk' = [disk EXCEPT ![e] = x]
  PROVE  disk'[d] = disk[d]
  BY DEF TypeOK

\* The steps of the daemon that write to a disk write to the target.
LEMMA TargetOnly ==
  ASSUME TypeOK, NEW d \in Disks, d # Target,
         StartRepart \/ EndRepart \/ ImportToken \/ OrphanStep
  PROVE  disk'[d] = disk[d]
<1>. QED
  BY OtherDisk, TargetDisk
    DEF StartRepart, EndRepart, ImportToken, OrphanStep, OrphanStarts, OrphanEnds, Reap,
        Complete, Torn, TypeOK

\* Every other step leaves all disks alone.
LEMMA DiskSteps ==
  [Next]_vars /\ disk' # disk =>
    \/ StartRepart \/ EndRepart \/ ImportToken \/ OrphanStep
    \/ \E d \in Disks : Format(d) \/ WriteTable(d)
<1>. SUFFICES ASSUME [Next]_vars,
                     ~(StartRepart \/ EndRepart \/ ImportToken \/ OrphanStep),
                     ~ \E d \in Disks : Format(d) \/ WriteTable(d)
              PROVE  disk' = disk
  OBVIOUS
<1>1. CASE Lifecycle
  BY <1>1 DEF Lifecycle, StartDaemon, Receive, Exit, OrphanStep
<1>2. CASE Environment \/ SwapStep
  BY <1>2 DEF Environment, SwapStep, DropEfi, RunJob, SwapReload, SwapResume
<1>3. CASE MainStep
  BY <1>3 DEF MainStep, DryRun, Inhibit, SaveKey, MarkDevice, RemovePolicy, MakePolicy,
              ForgetCredentials, BeginJoin, WaitSwap, EndJoin, RemoveLoop,
              CallUnit, PollUnit, CheckUnit
<1>4. CASE UNCHANGED vars
  BY <1>4 DEF vars
<1>. QED
  BY <1>1, <1>2, <1>3, <1>4 DEF Next

LEMMA RootSteps == [Next]_vars /\ rootDev' # rootDev => EndRepart \/ OrphanEnds
<1>. SUFFICES ASSUME [Next]_vars, ~EndRepart, ~OrphanEnds PROVE rootDev' = rootDev
  OBVIOUS
<1>1. CASE Lifecycle
  BY <1>1 DEF Lifecycle, StartDaemon, Receive, Reap, Exit, OrphanStarts, live
<1>2. CASE Environment \/ SwapStep
  BY <1>2 DEF Environment, SwapStep, DropEfi, RunJob, Format, WriteTable,
              SwapReload, SwapResume, live
<1>3. CASE MainStep
  BY <1>3 DEF MainStep, DryRun, Inhibit, SaveKey, MarkDevice, RemovePolicy, MakePolicy,
              StartRepart, ImportToken, ForgetCredentials, BeginJoin, WaitSwap, EndJoin,
              RemoveLoop, CallUnit, PollUnit, CheckUnit, live
<1>4. CASE UNCHANGED vars
  BY <1>4 DEF vars, live
<1>. QED
  BY <1>1, <1>2, <1>3, <1>4 DEF Next

LEMMA UsrSteps == [Next]_vars /\ usrDev' # usrDev => SwapResume
<1>. SUFFICES ASSUME [Next]_vars, ~SwapResume PROVE usrDev' = usrDev
  OBVIOUS
<1>1. CASE Lifecycle
  BY <1>1
    DEF Lifecycle, StartDaemon, Receive, Reap, Exit, OrphanStarts, OrphanEnds, live
<1>2. CASE Environment \/ SwapStep
  BY <1>2 DEF Environment, SwapStep, DropEfi, RunJob, Format, WriteTable,
              SwapReload, live
<1>3. CASE MainStep
  BY <1>3 DEF MainStep, DryRun, Inhibit, SaveKey, MarkDevice, RemovePolicy, MakePolicy,
              StartRepart, EndRepart, ImportToken, ForgetCredentials, BeginJoin, WaitSwap,
              EndJoin, RemoveLoop, CallUnit, PollUnit, CheckUnit, live
<1>4. CASE UNCHANGED vars
  BY <1>4 DEF vars, live
<1>. QED
  BY <1>1, <1>2, <1>3, <1>4 DEF Next

\* Data on a disk goes away only through Format.
THEOREM DataIsKept == Spec => DataKept
<1>1. IInv /\ [Next]_vars =>
        [\A d \in Disks :
           disk[d].table \notin {"none", "partial"} /\ disk'[d] # disk[d] =>
             Format(d) \/ (d = Target /\ "import" \in {step, orphan})]_vars
  <2>. SUFFICES ASSUME IInv, [Next]_vars, NEW e \in Disks,
                       disk[e].table \notin {"none", "partial"}, disk'[e] # disk[e]
                PROVE  Format(e) \/ (e = Target /\ "import" \in {step, orphan})
    OBVIOUS
  <2>1. CASE \E d \in Disks : Format(d) \/ WriteTable(d)
    BY <2>1, OtherDisk DEF IInv, Format, WriteTable
  <2>2. CASE StartRepart \/ EndRepart \/ ImportToken \/ OrphanStep
    <3>1. e = Target
      BY <2>2, TargetOnly DEF IInv
    <3>. QED
      BY <2>2, <3>1
        DEF StartRepart, EndRepart, ImportToken, OrphanStep, OrphanStarts, OrphanEnds,
            Reap, Complete, Torn, IInv, HandoverInv
  <2>. QED
    BY <2>1, <2>2, DiskSteps
<1>. QED
  BY <1>1, Invariance, PTL DEF Spec, DataKept

\* Disks are written and the live root moves only under the inhibitor or by a
\* command that outlived its daemon; /usr may also move after a failure or
\* after the daemon's end.
THEOREM WritesAreInhibited == Spec => WritesInhibited
<1>1. IInv /\ [Next]_vars =>
        [/\ (\E d \in Disks : disk'[d].table \in {"partial", "gnomeos", "deferred"}
                              /\ disk'[d] # disk[d]) => inhibited \/ orphan # "none"
         /\ rootDev' # rootDev => inhibited \/ orphan = "partition"
         /\ usrDev' # usrDev => inhibited \/ step \in {"failed", "down"}]_vars
  <2>. SUFFICES ASSUME IInv, [Next]_vars
                PROVE  /\ (\E d \in Disks :
                             /\ disk'[d].table \in {"partial", "gnomeos", "deferred"}
                             /\ disk'[d] # disk[d]) => inhibited \/ orphan # "none"
                       /\ rootDev' # rootDev => inhibited \/ orphan = "partition"
                       /\ usrDev' # usrDev => inhibited \/ step \in {"failed", "down"}
    OBVIOUS
  <2>1. ASSUME NEW e \in Disks, disk'[e] # disk[e],
               disk'[e].table \in {"partial", "gnomeos", "deferred"}
        PROVE  inhibited \/ orphan # "none"
    <3>1. CASE \E d \in Disks : Format(d) \/ WriteTable(d)
      BY <2>1, <3>1, OtherDisk DEF IInv, TypeOK, Format, WriteTable, Blank
    <3>2. CASE StartRepart \/ EndRepart \/ ImportToken
      BY <3>2 DEF StartRepart, EndRepart, ImportToken, IInv, HandoverInv, Preparing, Writing
    <3>3. CASE OrphanStarts \/ OrphanEnds
      BY <3>3 DEF OrphanStarts, OrphanEnds
    <3>4. CASE Reap
      BY <2>1, <3>4 DEF Reap
    <3>. QED
      BY <2>1, <3>1, <3>2, <3>3, <3>4, DiskSteps DEF OrphanStep
  <2>2. rootDev' # rootDev => EndRepart \/ OrphanEnds
    BY RootSteps
  <2>3. usrDev' # usrDev => SwapResume
    BY UsrSteps
  <2>4. EndRepart => inhibited
    BY DEF EndRepart, IInv, HandoverInv, Writing
  <2>5. SwapResume => step \in {"join", "unloop", "down", "finished", "failed"}
    BY DEF SwapResume, IInv, HandoverInv, Ended
  <2>6. SwapResume /\ usrDev' # usrDev => step # "finished"
    BY DEF SwapResume, IInv, HandoverInv, SelfContained
  <2>7. step \in {"join", "unloop"} => inhibited
    BY DEF IInv, HandoverInv, Writing
  <2>8. OrphanEnds /\ rootDev' # rootDev => orphan = "partition"
    BY DEF OrphanEnds
  <2>. QED
    BY <2>1, <2>2, <2>3, <2>4, <2>5, <2>6, <2>7, <2>8
<1>. QED
  BY <1>1, Invariance, PTL DEF Spec, WritesInhibited

\* A live resource is let go only when nothing runs from it.
THEOREM ReleasesLast == Spec => ReleasedLast
<1>1. IInv /\ [Next]_vars =>
        [/\ unit["zram"].state = "active" /\ unit'["zram"].state # "active" => rootDev # Zram
         /\ loop /\ ~loop' => usrDev # Medium]_vars
  <2>. SUFFICES ASSUME IInv, H!Next \/ UNCHANGED H!vars
                PROVE /\ unit["zram"].state = "active" /\ unit'["zram"].state # "active" => rootDev # Zram
                      /\ loop /\ ~loop' => usrDev # Medium
    BY HandoverSimulation
  <2>1. TypeOK /\ Medium \notin Disks /\ Zram \notin Disks /\ Medium # Zram
    BY DEF IInv, Medium, Zram
  <2>2. held' = held \/ (\E r \in H!Live : H!LetGo(r)) \/ H!Finish
    BY DEF H!Next, H!vars, H!Begin, H!MoveRoot, H!MoveUsr, H!Fail, H!End, H!Stop
  <2>3. (Zram \in held <=> unit["zram"].state = "active") /\ (Medium \in held <=> loop)
    BY <2>1 DEF held
  <2>4. (Zram \in held' <=> unit'["zram"].state = "active") /\ (Medium \in held' <=> loop')
    BY <2>1 DEF held
  <2>5. CASE \E r \in H!Live : H!LetGo(r)
    <3>1. PICK r \in {Zram, Medium} : r \notin {rootDev, usrDev} /\ held' = held \ {r}
      BY <2>5 DEF H!Live, H!LetGo
    <3>2. usrDev # Zram /\ rootDev # Medium
      BY <2>1 DEF TypeOK
    <3>3. CASE r = Zram
      BY <3>1, <3>3, <2>1, <2>3, <2>4
    <3>4. CASE r = Medium
      BY <3>1, <3>4, <2>1, <2>3, <2>4
    <3>. QED
      BY <3>1, <3>3, <3>4
  <2>6. CASE H!Finish
    <3>1. \/ held' = held
          \/ held \subseteq {Medium} /\ rootDev = recipe.disk /\ usrDev = recipe.disk
      BY <2>6 DEF H!Finish
    <3>2. recipe.disk \notin {Zram, Medium}
      BY <2>1 DEF TypeOK, Recipe
    <3>. QED
      BY <3>1, <3>2, <2>1, <2>3, <2>4
  <2>. QED
    BY <2>2, <2>3, <2>4, <2>5, <2>6
<1>. QED
  BY <1>1, Invariance, PTL DEF Spec, ReleasedLast

=============================================================================
