---------------------------- MODULE StartupProofs ----------------------------
(***************************************************************************)
(* Proofs about Startup for any number of processes and inodes: IInv is    *)
(* inductive, with crashes anywhere and a failure of any call; its part    *)
(* InTurn, and NeverReplaces, need a supervisor that does one start or     *)
(* stop at a time.                                                         *)
(***************************************************************************)
EXTENDS Startup, TLAPS, FiniteSetTheorems

\* A lock that all its holders share has at most one.
LEMMA OneHolder ==
  ASSUME NEW S, \A p, q \in S : p = q
  PROVE  Cardinality(S) <= 1
<1>1. CASE S = {}
  BY <1>1, FS_EmptySet
<1>2. CASE S # {}
  <2>1. PICK p \in S : S = {p}
    BY <1>2
  <2>2. Cardinality({p}) = 1
    BY FS_Singleton
  <2> QED BY <2>1, <2>2
<1> QED BY <1>1, <1>2

\* At first no process runs, and the path names no socket.
LEMMA InitEstablishes == Init => IInv
<1> SUFFICES ASSUME Init PROVE IInv
  OBVIOUS
<1> USE PathAssumption DEF Init
<1>1. TypeOK
  BY FS_EmptySet DEF TypeOK
<1>2. LockHeld /\ DirsLocked /\ NothingAbandonedWhileServing
  BY DEF LockHeld, DirsLocked, NothingAbandonedWhileServing
<1>3. SocketOwned
  BY DEF SocketOwned
<1>4. ListenerOpen
  BY DEF ListenerOpen
<1>5. InTurn
  BY DEF InTurn, Starting, Bound
<1> QED BY <1>1, <1>2, <1>3, <1>4, <1>5 DEF IInv

-----------------------------------------------------------------------------
(* The calls of a start, in their order.                                   *)

\* A start that only looks takes nothing; under supervision what it saw stays.
LEMMA LookStep == ASSUME IInv, NEW p \in Processes, Begin(p) \/ Inspect(p) \/ Probe(p) PROVE IInv'
<1> USE DEF Begin, Inspect, Probe, Step, MayBegin, Refuses
<1>1. LockHeld' /\ DirsLocked' /\ NothingAbandonedWhileServing'
  BY DEF IInv, TypeOK, LockHeld, DirsLocked, NothingAbandonedWhileServing, Stopping, Gone,
         socketVars, workVars
<1>2. TypeOK'
  <2>1. Cardinality(lock') <= 1
    BY <1>1, OneHolder DEF LockHeld
  <2> QED BY <2>1 DEF IInv, TypeOK, Starting, Stopping, Gone, Calls, socketVars, workVars
<1>3. SocketOwned' /\ ListenerOpen'
  BY PathAssumption
  DEF IInv, TypeOK, SocketOwned, LeftByFailure, LeavesSocket, ListenerOpen, Bound, Gone,
      Stopping, socketVars, workVars
<1>4. Supervised => InTurn'
  BY PathAssumption
  DEF IInv, TypeOK, InTurn, SocketOwned, ListenerOpen, Bound, Starting, Stopping, Gone,
      socketVars, workVars
<1> QED BY <1>1, <1>2, <1>3, <1>4 DEF IInv

\* Under supervision the removed socket is nobody's: its process was not bound.
LEMMA RemoveStep == ASSUME IInv, NEW p \in Processes, Remove(p) PROVE IInv'
<1> USE DEF Remove, Step, Removed
<1>1. LockHeld' /\ DirsLocked' /\ NothingAbandonedWhileServing'
  BY DEF IInv, TypeOK, LockHeld, DirsLocked, NothingAbandonedWhileServing, Stopping, Gone,
         socketVars, workVars
<1>2. TypeOK'
  <2>1. Cardinality(lock') <= 1
    BY <1>1, OneHolder DEF LockHeld
  <2> QED BY <2>1 DEF IInv, TypeOK, Starting, Stopping, Gone, Calls, socketVars, workVars
<1>3. SocketOwned' /\ ListenerOpen'
  BY PathAssumption
  DEF IInv, TypeOK, SocketOwned, LeftByFailure, LeavesSocket, ListenerOpen, Bound, Gone,
      Stopping, socketVars, workVars
<1>4. Supervised => InTurn'
  BY PathAssumption
  DEF IInv, TypeOK, InTurn, SocketOwned, ListenerOpen, Bound, Starting, Stopping, Gone,
      socketVars, workVars
<1> QED BY <1>1, <1>2, <1>3, <1>4 DEF IInv

\* The path is free, so no process is bound under supervision.
LEMMA BindStep == ASSUME IInv, NEW p \in Processes, Bind(p) PROVE IInv'
<1> USE DEF Bind, Step
<1>1. LockHeld' /\ DirsLocked' /\ NothingAbandonedWhileServing'
  BY DEF IInv, TypeOK, LockHeld, DirsLocked, NothingAbandonedWhileServing, Stopping, Gone,
         socketVars, workVars
<1>2. TypeOK'
  <2>1. Cardinality(lock') <= 1
    BY <1>1, OneHolder DEF LockHeld
  <2> QED BY <2>1 DEF IInv, TypeOK, Starting, Stopping, Gone, Calls, socketVars, workVars
<1>3. SocketOwned' /\ ListenerOpen'
  BY PathAssumption
  DEF IInv, TypeOK, SocketOwned, LeftByFailure, LeavesSocket, ListenerOpen, Bound, Gone,
      Stopping, socketVars, workVars
<1>4. Supervised => InTurn'
  BY PathAssumption
  DEF IInv, TypeOK, InTurn, SocketOwned, ListenerOpen, Bound, Starting, Stopping, Gone,
      socketVars, workVars
<1> QED BY <1>1, <1>2, <1>3, <1>4 DEF IInv

\* From here the socket accepts.
LEMMA ListenStep == ASSUME IInv, NEW p \in Processes, Listen(p) PROVE IInv'
<1> USE DEF Listen, Step
<1>1. LockHeld' /\ DirsLocked' /\ NothingAbandonedWhileServing'
  BY DEF IInv, TypeOK, LockHeld, DirsLocked, NothingAbandonedWhileServing, Stopping, Gone,
         socketVars, workVars
<1>2. TypeOK'
  <2>1. Cardinality(lock') <= 1
    BY <1>1, OneHolder DEF LockHeld
  <2> QED BY <2>1 DEF IInv, TypeOK, Starting, Stopping, Gone, Calls, socketVars, workVars
<1>3. SocketOwned' /\ ListenerOpen'
  BY PathAssumption
  DEF IInv, TypeOK, SocketOwned, LeftByFailure, LeavesSocket, ListenerOpen, Bound, Gone,
      Stopping, socketVars, workVars
<1>4. Supervised => InTurn'
  BY PathAssumption
  DEF IInv, TypeOK, InTurn, SocketOwned, ListenerOpen, Bound, Starting, Stopping, Gone,
      socketVars, workVars
<1> QED BY <1>1, <1>2, <1>3, <1>4 DEF IInv

\* What a failing call of bind leaves at the path is remembered.
LEMMA StartFailsStep == ASSUME IInv, NEW p \in Processes, StartFails(p) PROVE IInv'
<1> USE DEF StartFails, Records
<1>1. LockHeld' /\ DirsLocked' /\ NothingAbandonedWhileServing'
  BY DEF IInv, TypeOK, LockHeld, DirsLocked, NothingAbandonedWhileServing, Stopping, Gone,
         socketVars, workVars
<1>2. TypeOK'
  <2>1. Cardinality(lock') <= 1
    BY <1>1, OneHolder DEF LockHeld
  <2> QED BY <2>1 DEF IInv, TypeOK, Starting, Stopping, Gone, Calls, socketVars, workVars
<1>3. SocketOwned' /\ ListenerOpen'
  BY PathAssumption
  DEF IInv, TypeOK, SocketOwned, LeftByFailure, LeavesSocket, ListenerOpen, Bound, Gone,
      Stopping, socketVars, workVars
<1>4. Supervised => InTurn'
  BY PathAssumption
  DEF IInv, TypeOK, InTurn, SocketOwned, ListenerOpen, Bound, Starting, Stopping, Gone,
      socketVars, workVars
<1> QED BY <1>1, <1>2, <1>3, <1>4 DEF IInv

\* A process whose socket is still at the path learns its own inode.
LEMMA IdentifyStep == ASSUME IInv, NEW p \in Processes, Identify(p) PROVE IInv'
<1> USE DEF Identify, Step
<1>1. LockHeld' /\ DirsLocked' /\ NothingAbandonedWhileServing'
  BY DEF IInv, TypeOK, LockHeld, DirsLocked, NothingAbandonedWhileServing, Stopping, Gone,
         socketVars, workVars
<1>2. TypeOK'
  <2>1. Cardinality(lock') <= 1
    BY <1>1, OneHolder DEF LockHeld
  <2> QED BY <2>1 DEF IInv, TypeOK, Starting, Stopping, Gone, Calls, socketVars, workVars
<1>3. SocketOwned' /\ ListenerOpen'
  BY PathAssumption
  DEF IInv, TypeOK, SocketOwned, LeftByFailure, LeavesSocket, ListenerOpen, Bound, Gone,
      Stopping, socketVars, workVars
<1>4. Supervised => InTurn'
  BY PathAssumption
  DEF IInv, TypeOK, InTurn, SocketOwned, ListenerOpen, Bound, Starting, Stopping, Gone,
      socketVars, workVars
<1> QED BY <1>1, <1>2, <1>3, <1>4 DEF IInv

\* A start that fails here keeps its socket, to remove it next.
LEMMA ChmodStep == ASSUME IInv, NEW p \in Processes, Chmod(p) \/ ChmodFails(p) PROVE IInv'
<1> USE DEF Chmod, ChmodFails, Records, Step, Release
<1>1. LockHeld' /\ DirsLocked' /\ NothingAbandonedWhileServing'
  BY DEF IInv, TypeOK, LockHeld, DirsLocked, NothingAbandonedWhileServing, Stopping, Gone,
         socketVars, workVars
<1>2. TypeOK'
  <2>1. Cardinality(lock') <= 1
    BY <1>1, OneHolder DEF LockHeld
  <2> QED BY <2>1 DEF IInv, TypeOK, Starting, Stopping, Gone, Calls, socketVars, workVars
<1>3. SocketOwned' /\ ListenerOpen'
  BY PathAssumption
  DEF IInv, TypeOK, SocketOwned, LeftByFailure, LeavesSocket, ListenerOpen, Bound, Gone,
      Stopping, socketVars, workVars
<1>4. Supervised => InTurn'
  BY PathAssumption
  DEF IInv, TypeOK, InTurn, SocketOwned, ListenerOpen, Bound, Starting, Stopping, Gone,
      socketVars, workVars
<1> QED BY <1>1, <1>2, <1>3, <1>4 DEF IInv

\* The lock is taken only if nobody holds it.
LEMMA LockStep == ASSUME IInv, NEW p \in Processes, Lock(p) PROVE IInv'
<1> USE DEF Lock, Step, Release, CanLock
<1>1. LockHeld' /\ DirsLocked' /\ NothingAbandonedWhileServing'
  BY DEF IInv, TypeOK, LockHeld, DirsLocked, NothingAbandonedWhileServing, Stopping, Gone,
         socketVars, workVars
<1>2. TypeOK'
  <2>1. Cardinality(lock') <= 1
    BY <1>1, OneHolder DEF LockHeld
  <2> QED BY <2>1 DEF IInv, TypeOK, Starting, Stopping, Gone, Calls, socketVars, workVars
<1>3. SocketOwned' /\ ListenerOpen'
  BY PathAssumption
  DEF IInv, TypeOK, SocketOwned, LeftByFailure, LeavesSocket, ListenerOpen, Bound, Gone,
      Stopping, socketVars, workVars
<1>4. Supervised => InTurn'
  BY PathAssumption
  DEF IInv, TypeOK, InTurn, SocketOwned, ListenerOpen, Bound, Starting, Stopping, Gone,
      socketVars, workVars
<1> QED BY <1>1, <1>2, <1>3, <1>4 DEF IInv

\* A directory is created under the lock; the rest removes, or fails to.
LEMMA DirectoriesStep ==
  ASSUME IInv, NEW p \in Processes, Clean(p) \/ CreateDir(p) \/ RemoveDir(p) \/ RemoveDirFails(p)
  PROVE  IInv'
<1> USE DEF Clean, CreateDir, RemoveDir, RemoveDirFails, InJob, Records, Step, Abandoned
<1>1. LockHeld' /\ DirsLocked' /\ NothingAbandonedWhileServing'
  BY DEF IInv, TypeOK, LockHeld, DirsLocked, NothingAbandonedWhileServing, Stopping, Gone,
         socketVars, workVars
<1>2. TypeOK'
  <2>1. Cardinality(lock') <= 1
    BY <1>1, OneHolder DEF LockHeld
  <2> QED BY <2>1 DEF IInv, TypeOK, Starting, Stopping, Gone, Calls, socketVars, workVars
<1>3. SocketOwned' /\ ListenerOpen'
  BY PathAssumption
  DEF IInv, TypeOK, SocketOwned, LeftByFailure, LeavesSocket, ListenerOpen, Bound, Gone,
      Stopping, socketVars, workVars
<1>4. Supervised => InTurn'
  BY PathAssumption
  DEF IInv, TypeOK, InTurn, SocketOwned, ListenerOpen, Bound, Starting, Stopping, Gone,
      socketVars, workVars
<1> QED BY <1>1, <1>2, <1>3, <1>4 DEF IInv

\* A start that fails while locking or cleaning has no directory of its own.
LEMMA InitializeFailsStep == ASSUME IInv, NEW p \in Processes, InitializeFails(p) PROVE IInv'
<1> USE DEF InitializeFails, Records, Step, Release
<1>1. LockHeld' /\ DirsLocked' /\ NothingAbandonedWhileServing'
  BY DEF IInv, TypeOK, LockHeld, DirsLocked, NothingAbandonedWhileServing, Stopping, Gone,
         socketVars, workVars
<1>2. TypeOK'
  <2>1. Cardinality(lock') <= 1
    BY <1>1, OneHolder DEF LockHeld
  <2> QED BY <2>1 DEF IInv, TypeOK, Starting, Stopping, Gone, Calls, socketVars, workVars
<1>3. SocketOwned' /\ ListenerOpen'
  BY PathAssumption
  DEF IInv, TypeOK, SocketOwned, LeftByFailure, LeavesSocket, ListenerOpen, Bound, Gone,
      Stopping, socketVars, workVars
<1>4. Supervised => InTurn'
  BY PathAssumption
  DEF IInv, TypeOK, InTurn, SocketOwned, ListenerOpen, Bound, Starting, Stopping, Gone,
      socketVars, workVars
<1> QED BY <1>1, <1>2, <1>3, <1>4 DEF IInv

\* The lock is kept.
LEMMA ServeStep == ASSUME IInv, NEW p \in Processes, Serve(p) PROVE IInv'
<1> USE DEF Serve, Step, Abandoned
<1>1. LockHeld' /\ DirsLocked' /\ NothingAbandonedWhileServing'
  BY DEF IInv, TypeOK, LockHeld, DirsLocked, NothingAbandonedWhileServing, Stopping, Gone,
         socketVars, workVars
<1>2. TypeOK'
  <2>1. Cardinality(lock') <= 1
    BY <1>1, OneHolder DEF LockHeld
  <2> QED BY <2>1 DEF IInv, TypeOK, Starting, Stopping, Gone, Calls, socketVars, workVars
<1>3. SocketOwned' /\ ListenerOpen'
  BY PathAssumption
  DEF IInv, TypeOK, SocketOwned, LeftByFailure, LeavesSocket, ListenerOpen, Bound, Gone,
      Stopping, socketVars, workVars
<1>4. Supervised => InTurn'
  BY PathAssumption
  DEF IInv, TypeOK, InTurn, SocketOwned, ListenerOpen, Bound, Starting, Stopping, Gone,
      socketVars, workVars
<1> QED BY <1>1, <1>2, <1>3, <1>4 DEF IInv

-----------------------------------------------------------------------------
(* The stop, and the end by a crash.                                       *)

\* The listener is closed before anything else of a stop.
LEMMA StopStep == ASSUME IInv, NEW p \in Processes, Stop(p) PROVE IInv'
<1> USE DEF Stop, Step, MayStop
<1>1. LockHeld' /\ DirsLocked' /\ NothingAbandonedWhileServing'
  BY DEF IInv, TypeOK, LockHeld, DirsLocked, NothingAbandonedWhileServing, Stopping, Gone,
         socketVars, workVars
<1>2. TypeOK'
  <2>1. Cardinality(lock') <= 1
    BY <1>1, OneHolder DEF LockHeld
  <2> QED BY <2>1 DEF IInv, TypeOK, Starting, Stopping, Gone, Calls, socketVars, workVars
<1>3. SocketOwned' /\ ListenerOpen'
  BY PathAssumption
  DEF IInv, TypeOK, SocketOwned, LeftByFailure, LeavesSocket, ListenerOpen, Bound, Gone,
      Stopping, socketVars, workVars
<1>4. Supervised => InTurn'
  BY PathAssumption
  DEF IInv, TypeOK, InTurn, SocketOwned, ListenerOpen, Bound, Starting, Stopping, Gone,
      socketVars, workVars
<1> QED BY <1>1, <1>2, <1>3, <1>4 DEF IInv

\* A process that lets its socket be does not own the path.
LEMMA DroppingStep == ASSUME IInv, NEW p \in Processes, Drained(p) \/ CheckPath(p) PROVE IInv'
<1> USE DEF Drained, CheckPath, Step, StillOwn
<1>1. LockHeld' /\ DirsLocked' /\ NothingAbandonedWhileServing'
  BY DEF IInv, TypeOK, LockHeld, DirsLocked, NothingAbandonedWhileServing, Stopping, Gone,
         socketVars, workVars
<1>2. TypeOK'
  <2>1. Cardinality(lock') <= 1
    BY <1>1, OneHolder DEF LockHeld
  <2> QED BY <2>1 DEF IInv, TypeOK, Starting, Stopping, Gone, Calls, socketVars, workVars
<1>3. SocketOwned' /\ ListenerOpen'
  BY PathAssumption
  DEF IInv, TypeOK, SocketOwned, LeftByFailure, LeavesSocket, ListenerOpen, Bound, Gone,
      Stopping, socketVars, workVars
<1>4. Supervised => InTurn'
  BY PathAssumption
  DEF IInv, TypeOK, InTurn, SocketOwned, ListenerOpen, Bound, Starting, Stopping, Gone,
      socketVars, workVars
<1> QED BY <1>1, <1>2, <1>3, <1>4 DEF IInv

\* The path of a bound process is its own under supervision.
LEMMA UnlinkStep == ASSUME IInv, NEW p \in Processes, Unlink(p) PROVE IInv'
<1> USE DEF Unlink, Step
<1>1. LockHeld' /\ DirsLocked' /\ NothingAbandonedWhileServing'
  BY DEF IInv, TypeOK, LockHeld, DirsLocked, NothingAbandonedWhileServing, Stopping, Gone,
         socketVars, workVars
<1>2. TypeOK'
  <2>1. Cardinality(lock') <= 1
    BY <1>1, OneHolder DEF LockHeld
  <2> QED BY <2>1 DEF IInv, TypeOK, Starting, Stopping, Gone, Calls, socketVars, workVars
<1>3. SocketOwned' /\ ListenerOpen'
  BY PathAssumption
  DEF IInv, TypeOK, SocketOwned, LeftByFailure, LeavesSocket, ListenerOpen, Bound, Gone,
      Stopping, socketVars, workVars
<1>4. Supervised => InTurn'
  BY PathAssumption
  DEF IInv, TypeOK, InTurn, SocketOwned, ListenerOpen, Bound, Starting, Stopping, Gone,
      socketVars, workVars
<1> QED BY <1>1, <1>2, <1>3, <1>4 DEF IInv

\* A socket that Drop leaves at the path is remembered.
LEMMA DropFailsStep == ASSUME IInv, NEW p \in Processes, DropFails(p) PROVE IInv'
<1> USE DEF DropFails, Records
<1>1. LockHeld' /\ DirsLocked' /\ NothingAbandonedWhileServing'
  BY DEF IInv, TypeOK, LockHeld, DirsLocked, NothingAbandonedWhileServing, Stopping, Gone,
         socketVars, workVars
<1>2. TypeOK'
  <2>1. Cardinality(lock') <= 1
    BY <1>1, OneHolder DEF LockHeld
  <2> QED BY <2>1 DEF IInv, TypeOK, Starting, Stopping, Gone, Calls, socketVars, workVars
<1>3. SocketOwned' /\ ListenerOpen'
  BY PathAssumption
  DEF IInv, TypeOK, SocketOwned, LeftByFailure, LeavesSocket, ListenerOpen, Bound, Gone,
      Stopping, socketVars, workVars
<1>4. Supervised => InTurn'
  BY PathAssumption
  DEF IInv, TypeOK, InTurn, SocketOwned, ListenerOpen, Bound, Starting, Stopping, Gone,
      socketVars, workVars
<1> QED BY <1>1, <1>2, <1>3, <1>4 DEF IInv

\* The lock is released without a directory left, but for a failed removal.
LEMMA ExitStep == ASSUME IInv, NEW p \in Processes, Exit(p) PROVE IInv'
<1> USE DEF Exit, InJob, Step
<1>1. LockHeld' /\ DirsLocked' /\ NothingAbandonedWhileServing'
  BY DEF IInv, TypeOK, LockHeld, DirsLocked, NothingAbandonedWhileServing, Stopping, Gone,
         socketVars, workVars
<1>2. TypeOK'
  <2>1. Cardinality(lock') <= 1
    BY <1>1, OneHolder DEF LockHeld
  <2> QED BY <2>1 DEF IInv, TypeOK, Starting, Stopping, Gone, Calls, socketVars, workVars
<1>3. SocketOwned' /\ ListenerOpen'
  BY PathAssumption
  DEF IInv, TypeOK, SocketOwned, LeftByFailure, LeavesSocket, ListenerOpen, Bound, Gone,
      Stopping, socketVars, workVars
<1>4. Supervised => InTurn'
  BY PathAssumption
  DEF IInv, TypeOK, InTurn, SocketOwned, ListenerOpen, Bound, Starting, Stopping, Gone,
      socketVars, workVars
<1> QED BY <1>1, <1>2, <1>3, <1>4 DEF IInv

\* A crash leaves its directory and its socket, and is remembered by both.
LEMMA CrashStep == ASSUME IInv, NEW p \in Processes, Crash(p) PROVE IInv'
<1> USE DEF Crash, Step
<1>1. LockHeld' /\ DirsLocked' /\ NothingAbandonedWhileServing'
  BY DEF IInv, TypeOK, LockHeld, DirsLocked, NothingAbandonedWhileServing, Stopping, Gone,
         socketVars, workVars
<1>2. TypeOK'
  <2>1. Cardinality(lock') <= 1
    BY <1>1, OneHolder DEF LockHeld
  <2> QED BY <2>1 DEF IInv, TypeOK, Starting, Stopping, Gone, Calls, socketVars, workVars
<1>3. SocketOwned' /\ ListenerOpen'
  BY PathAssumption
  DEF IInv, TypeOK, SocketOwned, LeftByFailure, LeavesSocket, ListenerOpen, Bound, Gone,
      Stopping, socketVars, workVars
<1>4. Supervised => InTurn'
  BY PathAssumption
  DEF IInv, TypeOK, InTurn, SocketOwned, ListenerOpen, Bound, Starting, Stopping, Gone,
      socketVars, workVars
<1> QED BY <1>1, <1>2, <1>3, <1>4 DEF IInv

-----------------------------------------------------------------------------
(* The theorems.                                                           *)

\* IInv holds in every state of every execution.
THEOREM InductiveInvariant == Spec => []IInv
<1>1. IInv /\ [Next]_vars => IInv'
  <2> SUFFICES ASSUME IInv, [Next]_vars PROVE IInv'
    OBVIOUS
  <2>1. ASSUME NEW p \in Processes,
               Begin(p) \/ Call(p) \/ Fails(p) \/ CreateDir(p) \/ Stop(p) \/ Drained(p)
               \/ Crash(p)
        PROVE  IInv'
    <3>1. CASE Begin(p) \/ Inspect(p) \/ Probe(p) \/ Remove(p) \/ Bind(p)
      BY <3>1, LookStep, RemoveStep, BindStep
    <3>2. CASE Listen(p) \/ Identify(p) \/ Chmod(p) \/ Lock(p) \/ Serve(p)
      BY <3>2, ListenStep, IdentifyStep, ChmodStep, LockStep, ServeStep
    <3>3. CASE Clean(p) \/ CreateDir(p) \/ RemoveDir(p)
      BY <3>3, DirectoriesStep
    <3>4. CASE Stop(p) \/ Drained(p) \/ CheckPath(p) \/ Unlink(p) \/ Exit(p) \/ Crash(p)
      BY <3>4, StopStep, DroppingStep, UnlinkStep, ExitStep, CrashStep
    <3>5. CASE Fails(p)
      BY <3>5, StartFailsStep, ChmodStep, InitializeFailsStep, DropFailsStep, DirectoriesStep
      DEF Fails
    <3> QED BY <2>1, <3>1, <3>2, <3>3, <3>4, <3>5 DEF Call
  <2>2. CASE UNCHANGED vars
    BY <2>2 DEF vars, socketVars, workVars, IInv, TypeOK, LockHeld, DirsLocked, SocketOwned,
                LeftByFailure, NothingAbandonedWhileServing, ListenerOpen, InTurn
  <2> QED BY <2>1, <2>2 DEF Next
<1> QED BY InitEstablishes, <1>1, PTL DEF Spec

\* A socket without a process is one of a process that crashed, or could not
\* finish its bind or its removal, even when nothing orders the starts.
THEOREM SocketLeftOnlyByFailure == Spec => []StaleOnlyByFailure
<1>1. IInv => StaleOnlyByFailure
  BY DEF IInv, SocketOwned, StaleOnlyByFailure, Bound
<1> QED BY <1>1, InductiveInvariant, PTL

\* A start removes no directory of a process that may still run.
THEOREM CleaningSparesTheRunning == Spec => []CleansOnlyAbandoned
<1>1. IInv => CleansOnlyAbandoned
  BY DEF IInv, LockHeld, DirsLocked, CleansOnlyAbandoned, Abandoned, Stopping
<1> QED BY <1>1, InductiveInvariant, PTL

\* Who serves has the work directory to itself.
THEOREM ServingOwnsDirectories == Spec => []NothingAbandonedWhileServing
BY InductiveInvariant, PTL DEF IInv

\* With one start or stop at a time only its own process takes a socket that
\* accepts from the path, and nobody a path that is no socket.
THEOREM SupervisedNeverReplaces == ASSUME Supervised PROVE Spec => NeverReplaces
<1>1. IInv /\ [Next]_vars => 
        [path' # path /\ path \in accepting \cup {File} =>
           /\ path \in accepting
           /\ pc[path] = "unlink" /\ pc'[path] = "joining"
           /\ path' = Absent]_vars
  <2> SUFFICES ASSUME IInv, NEW p \in Processes, path \in accepting \cup {File},
                      Begin(p) \/ Call(p) \/ Fails(p) \/ CreateDir(p) \/ Stop(p) \/ Drained(p)
                      \/ Crash(p),
                      path' # path
               PROVE  /\ path \in accepting
                      /\ pc[path] = "unlink" /\ pc'[path] = "joining"
                      /\ path' = Absent
    BY DEF Next
  <2>1. ASSUME Remove(p) PROVE FALSE
    BY <2>1, PathAssumption DEF Remove, Step, IInv, TypeOK, InTurn
  <2>2. ASSUME Bind(p), path' # path PROVE FALSE
    BY <2>2, PathAssumption DEF Bind, IInv, TypeOK
  <2>3. CASE Unlink(p)
    BY <2>3, PathAssumption DEF Unlink, Step, IInv, TypeOK, InTurn, Bound
  <2> QED
    BY <2>1, <2>2, <2>3
    DEF Begin, Call, Inspect, Probe, Listen, Identify, Chmod, Lock, Clean, Serve, CheckPath,
        Exit, RemoveDir, Fails, StartFails, ChmodFails, InitializeFails, DropFails,
        RemoveDirFails, CreateDir, Stop, Drained, Crash
<1> QED BY <1>1, InductiveInvariant, PTL DEF Spec, NeverReplaces
=============================================================================
