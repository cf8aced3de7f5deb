------------------------ MODULE SharedMemoryBarrier ------------------------
(***************************************************************************)
(* The barrier at which the JVMs of the multi-jvm test wait for each other *)
(* (trait Barrier).  A file target/<name>.barrier with a byte per JVM is   *)
(* mapped by all of them; a JVM sets its byte and polls until all are set. *)
(* JVM 1 first deletes the files that earlier runs left behind, while the  *)
(* others sleep for a second and hope that this is enough.                 *)
(*                                                                         *)
(* Mapping the file is the constructor of MMapBuffer: open (and create)    *)
(* the file, compare its length, write a zero at the last byte if it is    *)
(* too short.  A deleted file lives on for those who have mapped it.       *)
(***************************************************************************)
EXTENDS Integers, FiniteSets

CONSTANTS numJVMs,
          File,          \* identities of files that bear the name, one after another
          None,
          SleepSuffices, \* the others wake up after JVM 1 is done cleaning
          AtomicOpen     \* length test and extension are one step

JVM == 1 .. numJVMs

ASSUME BarrierAssumption == /\ numJVMs \in Nat \ {0}
                            /\ None \notin File /\ File # {}
                            /\ SleepSuffices \in BOOLEAN /\ AtomicOpen \in BOOLEAN

VARIABLES pc,     \* what each JVM does next
          path,   \* the file that has the name now
          size,   \* length of each file
          marks,  \* the JVMs whose byte is 1 in each file
          m,      \* the file each JVM has opened
          listed, \* JVM 1 found a file to delete
          entered \* JVMs that set their byte in this run

vars == <<pc, path, size, marks, m, listed, entered>>

At(j, here, there) == pc[j] = here /\ pc' = [pc EXCEPT ![j] = there]

-----------------------------------------------------------------------------
\* An earlier run may have left a file in which everybody has arrived.
Init == /\ pc = [j \in JVM |-> IF j = 1 THEN "list" ELSE "sleep"]
        /\ path \in File \cup {None}
        /\ size = [f \in File |-> IF f = path THEN numJVMs ELSE 0]
        /\ marks = [f \in File |-> IF f = path THEN JVM ELSE {}]
        /\ m = [j \in JVM |-> None]
        /\ listed = FALSE
        /\ entered = {}

\* before, JVM 1: listFiles, once
List == /\ At(1, "list", "clean")
        /\ listed' = (path # None)
        /\ UNCHANGED <<path, size, marks, m, entered>>

\* before, JVM 1: deletes the files it listed for as long as they exist.
Clean == /\ pc[1] = "clean"
         /\ listed /\ path # None
         /\ path' = None
         /\ UNCHANGED <<pc, size, marks, m, listed, entered>>

\* Faulty variant: JVM 1 does not clean up.
CleanNothing == /\ At(1, "clean", "open")
                /\ UNCHANGED <<path, size, marks, m, listed, entered>>

CleanDone == /\ At(1, "clean", "open")
             /\ ~(listed /\ path # None)
             /\ UNCHANGED <<path, size, marks, m, listed, entered>>

\* before, the others: Thread.sleep(1000)
Sleep(j) == /\ At(j, "sleep", "open")
            /\ SleepSuffices => pc[1] \notin {"list", "clean"}
            /\ UNCHANGED <<path, size, marks, m, listed, entered>>

Unused(f) == size[f] = 0 /\ f # path /\ \A j \in JVM : m[j] # f

\* RandomAccessFile(f, "rw") opens the file, or creates it.
OpenFile(j) ==
    /\ At(j, "open", "compare")
    /\ \E f \in File : /\ IF path = None THEN Unused(f) ELSE f = path
                       /\ path' = f
                       /\ m' = [m EXCEPT ![j] = f]
    /\ UNCHANGED <<size, marks, listed, entered>>

\* The test of the file size in the constructor of MMapBuffer
Compare(j) ==
    /\ At(j, "compare", IF size[m[j]] < numJVMs THEN "extend" ELSE "mark")
    /\ AtomicOpen => \A k \in JVM : pc[k] # "extend"
    /\ UNCHANGED <<path, size, marks, m, listed, entered>>

\* ... and the extension of the file: a zero at its last byte
Extend(j) ==
    /\ At(j, "extend", "mark")
    /\ size' = [size EXCEPT ![m[j]] = numJVMs]
    /\ marks' = [marks EXCEPT ![m[j]] = @ \ {numJVMs}]
    /\ UNCHANGED <<path, m, listed, entered>>

\* Faulty variant: m(jvmID) = 1
MarkNextByte(j) ==
    /\ At(j, "mark", "wait")
    /\ marks' = [marks EXCEPT ![m[j]] = @ \cup {j + 1}]
    /\ entered' = entered \cup {j}
    /\ UNCHANGED <<path, size, m, listed>>

\* m(jvmID - 1) = 1; m.flush
Mark(j) ==
    /\ At(j, "mark", "wait")
    /\ marks' = [marks EXCEPT ![m[j]] = @ \cup {j}]
    /\ entered' = entered \cup {j}
    /\ UNCHANGED <<path, size, m, listed>>

\* while (!reached()) sleep
Poll(j) ==
    /\ pc[j] = "wait"
    /\ marks[m[j]] # JVM
    /\ UNCHANGED vars

Reached(j) ==
    /\ At(j, "wait", "passed")
    /\ marks[m[j]] = JVM
    /\ UNCHANGED <<path, size, marks, m, listed, entered>>

\* The JVM ends: deleteOnExit
Exit(j) ==
    /\ At(j, "passed", "gone")
    /\ path' = None
    /\ UNCHANGED <<size, marks, m, listed, entered>>

Done == /\ \A j \in JVM : pc[j] = "gone"
        /\ UNCHANGED vars

Step(j) == \/ Sleep(j) \/ OpenFile(j) \/ Compare(j) \/ Extend(j) \/ Mark(j)
           \/ Poll(j) \/ Reached(j) \/ Exit(j)

Next == List \/ Clean \/ CleanDone \/ (\E j \in JVM : Step(j)) \/ Done

\* Every JVM is a running process.
Fairness == WF_vars(List \/ Clean \/ CleanDone) /\ \A j \in JVM : WF_vars(Step(j))

Spec == Init /\ [][Next]_vars /\ Fairness

-----------------------------------------------------------------------------
TypeOK == /\ pc \in [JVM -> {"list", "clean", "sleep", "open", "compare", "extend",
                             "mark", "wait", "passed", "gone"}]
          /\ path \in File \cup {None}
          /\ size \in [File -> {0, numJVMs}]
          /\ marks \in [File -> SUBSET JVM]
          /\ m \in [JVM -> File \cup {None}]
          /\ listed \in BOOLEAN
          /\ entered \subseteq JVM

\* A JVM gets past the barrier only after all JVMs of this run entered it,
\* however a file of an earlier run was left.
NobodyPassesEarly ==
    \A j \in JVM : pc[j] \in {"passed", "gone"} => entered = JVM

\* Nobody waits forever: all JVMs find each other in the same file.
EveryoneGetsThrough == <>(\A j \in JVM : pc[j] = "gone")
=============================================================================
