---------------------------- MODULE BarrierProofs ----------------------------
(***************************************************************************)
(* What TLAPS proves of SharedMemoryBarrier, for any number of JVMs.       *)
(***************************************************************************)
EXTENDS SharedMemoryBarrier, TLAPS

Cleaning == {"list", "clean"}
HasFile == {"compare", "extend", "mark", "wait", "passed", "gone"}
HasSpace == {"mark", "wait", "passed", "gone"}

\* While JVM 1 cleans up nobody else has begun; it will have found what is
\* there to be found.
CleansFirst ==
    /\ \A j \in JVM : pc[j] \in Cleaning => j = 1
    /\ pc[1] \in Cleaning => \A j \in JVM : m[j] = None /\ (j # 1 => pc[j] = "sleep")
    /\ pc[1] = "clean" /\ path # None => listed

\* An opened file is there, and long enough from the comparison on.
FilesAreOpen ==
    /\ \A j \in JVM : pc[j] \in HasFile => m[j] \in File
    /\ \A j \in JVM : pc[j] \in HasSpace => size[m[j]] = numJVMs
    /\ \A f \in File : size[f] = 0 => marks[f] = {}

\* The marks in the files of this run are of JVMs that entered.
MarksAreOfThisRun ==
    /\ \A j \in JVM : m[j] \in File => marks[m[j]] \subseteq entered
    /\ pc[1] \notin Cleaning /\ path \in File => marks[path] \subseteq entered

FilesInv == TypeOK /\ FilesAreOpen
BarrierInv == FilesInv /\ CleansFirst /\ MarksAreOfThisRun /\ NobodyPassesEarly

USE DEF At

LEMMA FirstJVM == 1 \in JVM
  BY BarrierAssumption DEF JVM

LEMMA InitBarrierInv == Init => BarrierInv
<1> SUFFICES ASSUME Init PROVE BarrierInv
  OBVIOUS
<1> USE FirstJVM, BarrierAssumption
<1>1. TypeOK
  <2>1. pc \in [JVM -> {"list", "sleep"}]
    BY DEF Init
  <2> QED
    BY <2>1 DEF Init, TypeOK
<1>2. CleansFirst /\ NobodyPassesEarly
  BY DEF Init, CleansFirst, NobodyPassesEarly, Cleaning
<1>3. FilesAreOpen
  BY DEF Init, FilesAreOpen, HasFile, HasSpace
<1>4. MarksAreOfThisRun
  BY DEF Init, MarksAreOfThisRun, Cleaning
<1> QED
  BY <1>1, <1>2, <1>3, <1>4 DEF BarrierInv, FilesInv

\* Types and files do not depend on how long anybody sleeps.
LEMMA NextFilesInv == FilesInv /\ [Next]_vars => FilesInv'
<1> SUFFICES ASSUME FilesInv, [Next]_vars PROVE FilesInv'
  OBVIOUS
<1> USE FirstJVM, BarrierAssumption
<1> USE DEF FilesInv, TypeOK, FilesAreOpen, HasFile, HasSpace
<1>1. CASE List
  BY <1>1 DEF List
<1>2. CASE Clean
  BY <1>2 DEF Clean
<1>3. CASE CleanDone
  BY <1>3 DEF CleanDone
<1>4. ASSUME NEW j \in JVM, Sleep(j) PROVE FilesInv'
  BY <1>4 DEF Sleep
<1>5. ASSUME NEW j \in JVM, OpenFile(j) PROVE FilesInv'
  BY <1>5 DEF OpenFile, Unused
<1>6. ASSUME NEW j \in JVM, Compare(j) PROVE FilesInv'
  BY <1>6 DEF Compare
<1>7. ASSUME NEW j \in JVM, Extend(j) PROVE FilesInv'
  BY <1>7 DEF Extend
<1>8. ASSUME NEW j \in JVM, Mark(j) PROVE FilesInv'
  BY <1>8 DEF Mark
<1>9. ASSUME NEW j \in JVM, Reached(j) PROVE FilesInv'
  BY <1>9 DEF Reached
<1>10. ASSUME NEW j \in JVM, Exit(j) PROVE FilesInv'
  BY <1>10 DEF Exit
<1>11. CASE UNCHANGED vars
  BY <1>11 DEF vars
<1> QED
  BY <1>1, <1>2, <1>3, <1>4, <1>5, <1>6, <1>7, <1>8, <1>9, <1>10, <1>11
  DEF Next, Step, Poll, Done

\* Type correctness, for any number of JVMs.
THEOREM BarrierTypes == Spec => []TypeOK
<1>1. Init => FilesInv
  BY InitBarrierInv DEF BarrierInv
<1>2. FilesInv => TypeOK
  BY DEF FilesInv
<1> QED
  BY <1>1, <1>2, NextFilesInv, PTL DEF Spec

\* If the other JVMs sleep long enough, every step keeps the invariant; that
\* opening the file is atomic is not needed for it.
LEMMA NextBarrierInv ==
  ASSUME SleepSuffices, BarrierInv, [Next]_vars
  PROVE  BarrierInv'
<1>0. FilesInv'
  BY NextFilesInv DEF BarrierInv
<1> USE FirstJVM, BarrierAssumption, <1>0
<1> USE DEF BarrierInv, FilesInv, TypeOK, CleansFirst, FilesAreOpen, MarksAreOfThisRun,
            NobodyPassesEarly, Cleaning, HasFile, HasSpace
<1>1. CASE List
  <2>0. pc'[1] = "clean" /\ \A j \in JVM : j # 1 => pc'[j] = pc[j]
    BY <1>1 DEF List
  <2>1. CleansFirst'
    <3>1. pc[1] = "list" /\ m' = m /\ path' = path /\ listed' = (path # None)
      BY <1>1 DEF List
    <3> HIDE <1>0
    <3> QED
      BY <2>0, <3>1
  <2>2. MarksAreOfThisRun'
    BY <1>1 DEF List
  <2>3. NobodyPassesEarly'
    BY <1>1 DEF List
  <2> QED
    BY <2>1, <2>2, <2>3
<1>2. CASE Clean
  BY <1>2 DEF Clean
<1>3. CASE CleanDone
  BY <1>3 DEF CleanDone
<1>4. ASSUME NEW j \in JVM, Sleep(j) PROVE BarrierInv'
  BY <1>4 DEF Sleep
<1>5. ASSUME NEW j \in JVM, OpenFile(j) PROVE BarrierInv'
  <2>1. CleansFirst'
    BY <1>5 DEF OpenFile, Unused
  <2>2. MarksAreOfThisRun'
    BY <1>5 DEF OpenFile, Unused
  <2>3. NobodyPassesEarly'
    BY <1>5 DEF OpenFile, Unused
  <2> QED
    BY <2>1, <2>2, <2>3
<1>6. ASSUME NEW j \in JVM, Compare(j) PROVE BarrierInv'
  BY <1>6 DEF Compare
<1>7. ASSUME NEW j \in JVM, Extend(j) PROVE BarrierInv'
  <2>1. CleansFirst'
    BY <1>7 DEF Extend
  <2>2. MarksAreOfThisRun'
    BY <1>7 DEF Extend
  <2>3. NobodyPassesEarly'
    BY <1>7 DEF Extend
  <2> QED
    BY <2>1, <2>2, <2>3
<1>8. ASSUME NEW j \in JVM, Mark(j) PROVE BarrierInv'
  BY <1>8 DEF Mark
<1>9. ASSUME NEW j \in JVM, Reached(j) PROVE BarrierInv'
  BY <1>9 DEF Reached
<1>10. ASSUME NEW j \in JVM, Exit(j) PROVE BarrierInv'
  BY <1>10 DEF Exit
<1>11. CASE UNCHANGED vars
  BY <1>11 DEF vars
<1> HIDE DEF BarrierInv
<1> QED
  BY <1>1, <1>2, <1>3, <1>4, <1>5, <1>6, <1>7, <1>8, <1>9, <1>10, <1>11
  DEF Next, Step, Poll, Done

\* A barrier whose files were cleaned up in time lets nobody through early,
\* for any number of JVMs.
THEOREM BarrierIsSafe == SleepSuffices => (Spec => []NobodyPassesEarly)
<1> SUFFICES ASSUME SleepSuffices PROVE Spec => []NobodyPassesEarly
  OBVIOUS
<1>1. BarrierInv /\ [Next]_vars => BarrierInv'
  BY NextBarrierInv
<1>2. BarrierInv => NobodyPassesEarly
  BY DEF BarrierInv
<1> QED
  BY InitBarrierInv, <1>1, <1>2, PTL DEF Spec
=============================================================================
