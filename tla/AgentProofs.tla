----------------------------- MODULE AgentProofs -----------------------------
(***************************************************************************)
(* Proofs about Agent for any number of jobs, workers and waiting slots:   *)
(* IInv is inductive, and the invariants the runs check follow from it.    *)
(***************************************************************************)
EXTENDS Agent, FiniteSetTheorems, SequenceTheorems, TLAPS

\* The places of a worker are plain sets of strings.
USE DEF HoldsAt, ExecutesAt

Elements(q) == {q[k] : k \in DOMAIN q}
Distinct(q) == \A k, l \in DOMAIN q : q[k] = q[l] => k = l

-----------------------------------------------------------------------------
(* The channel as a sequence.                                              *)

\* What Append adds to the elements; a new element keeps them distinct.
LEMMA AppendElements ==
  ASSUME NEW S, NEW q \in Seq(S), NEW e \in S
  PROVE  /\ Append(q, e) \in Seq(S)
         /\ Elements(Append(q, e)) = Elements(q) \cup {e}
         /\ Distinct(q) /\ e \notin Elements(q) => Distinct(Append(q, e))
<1> DEFINE r == Append(q, e)
<1>1. /\ r \in Seq(S)
      /\ DOMAIN r = 1..Len(q) + 1
      /\ DOMAIN q = 1..Len(q)
      /\ Len(q) \in Nat
      /\ \A k \in 1..Len(q) : r[k] = q[k]
      /\ r[Len(q) + 1] = e
  OBVIOUS
<1> HIDE DEF r
<1>2. Elements(r) = Elements(q) \cup {e}
  <2>1. ASSUME NEW x \in Elements(r) PROVE x \in Elements(q) \cup {e}
    BY <1>1 DEF Elements
  <2>2. ASSUME NEW x \in Elements(q) PROVE x \in Elements(r)
    BY <1>1 DEF Elements
  <2>3. e \in Elements(r)
    BY <1>1 DEF Elements
  <2> QED BY <2>1, <2>2, <2>3
<1>3. Distinct(q) /\ e \notin Elements(q) => Distinct(r)
  BY <1>1 DEF Distinct, Elements
<1> QED BY <1>1, <1>2, <1>3 DEF r

\* What Tail removes from the elements.
LEMMA TailElements ==
  ASSUME NEW S, NEW q \in Seq(S), q # <<>>
  PROVE  /\ Tail(q) \in Seq(S)
         /\ Head(q) \in S
         /\ Elements(q) = Elements(Tail(q)) \cup {Head(q)}
         /\ Distinct(q) => Distinct(Tail(q)) /\ Head(q) \notin Elements(Tail(q))
<1> DEFINE r == Tail(q)
<1>1. /\ r \in Seq(S)
      /\ Len(q) \in Nat \ {0}
      /\ DOMAIN r = 1..Len(q) - 1
      /\ DOMAIN q = 1..Len(q)
      /\ \A k \in 1..Len(q) - 1 : r[k] = q[k + 1]
      /\ Head(q) = q[1]
      /\ Head(q) \in S
  OBVIOUS
<1> HIDE DEF r
<1>2. Elements(q) = Elements(r) \cup {Head(q)}
  <2>1. ASSUME NEW x \in Elements(q) PROVE x \in Elements(r) \cup {Head(q)}
    <3>1. PICK k \in 1..Len(q) : x = q[k]
      BY <1>1 DEF Elements
    <3>2. CASE k = 1
      BY <3>1, <3>2, <1>1
    <3>3. CASE k # 1
      <4>1. k - 1 \in 1..Len(q) - 1 /\ r[k - 1] = q[k]
        BY <3>3, <1>1
      <4> QED BY <4>1, <3>1, <1>1 DEF Elements
    <3> QED BY <3>2, <3>3
  <2>2. ASSUME NEW x \in Elements(r) PROVE x \in Elements(q)
    <3>1. PICK k \in 1..Len(q) - 1 : x = r[k]
      BY <1>1 DEF Elements
    <3>2. k + 1 \in 1..Len(q) /\ x = q[k + 1]
      BY <3>1, <1>1
    <3> QED BY <3>2, <1>1 DEF Elements
  <2>3. Head(q) \in Elements(q)
    BY <1>1 DEF Elements
  <2> QED BY <2>1, <2>2, <2>3
<1>3. ASSUME Distinct(q) PROVE Distinct(r) /\ Head(q) \notin Elements(r)
  <2>1. \A k, l \in 1..Len(q) : q[k] = q[l] => k = l
    BY <1>1, <1>3 DEF Distinct
  <2>2. ASSUME NEW k \in 1..Len(q) - 1, NEW l \in 1..Len(q) - 1, r[k] = r[l] PROVE k = l
    BY <2>1, <2>2, <1>1
  <2>3. ASSUME NEW k \in 1..Len(q) - 1 PROVE r[k] # q[1]
    BY <2>1, <1>1
  <2> QED BY <2>2, <2>3, <1>1 DEF Distinct, Elements
<1> QED BY <1>1, <1>2, <1>3 DEF r

-----------------------------------------------------------------------------
(* Facts that hold in every state that satisfies the invariant.            *)

\* There is a worker and room for a job.
LEMMA ConstantTypes == Concurrency \in Nat \ {0} /\ Capacity \in Nat
<1>1. Cardinality(Workers) \in Nat
  BY WorkersAssumption, FS_CardinalityType
<1>2. Cardinality(Workers) # 0
  BY WorkersAssumption, FS_EmptySet
<1> QED BY <1>1, <1>2, QueueAssumption DEF Concurrency, Capacity

\* The identifiers in flight can be counted.
LEMMA JobsFinite ==
  ASSUME TypeOK
  PROVE  IsFiniteSet(jobs) /\ Cardinality(jobs) \in Nat
BY IdsAssumption, FS_Subset, FS_CardinalityType DEF TypeOK

\* The job a worker reports is in flight and has a slot.
LEMMA HeldJob ==
  ASSUME IInv, NEW w \in Workers, pc[w] \in HoldsAt
  PROVE  /\ on[w] \in Attempts
         /\ on[w] \in Live
         /\ on[w] \notin Queued
         /\ jobId[on[w]] \in jobs
         /\ permits < Capacity
<1>1. on[w] \in Attempts /\ on[w] \in Held /\ on[w] \in Live /\ on[w] \notin Queued
  BY WorkersAssumption, AttemptsAssumption DEF IInv, TypeOK, PlacedOnce, Held
<1>2. jobId[on[w]] \in jobs
  BY <1>1 DEF IInv, OneAttemptPerId
<1>3. Cardinality(jobs) \in Nat /\ Cardinality(jobs) # 0
  BY <1>2, JobsFinite, FS_EmptySet DEF IInv
<1>4. permits < Capacity
  BY <1>3, ConstantTypes DEF IInv, TypeOK, SlotAccounting
<1> QED BY <1>1, <1>2, <1>4

-----------------------------------------------------------------------------
(* Each action preserves the invariant.                                    *)

\* An agent that has just started holds nothing.
LEMMA InitEstablishes == Init => IInv
<1> SUFFICES ASSUME Init PROVE IInv
  OBVIOUS
<1> USE DEF Init
<1>1. TypeOK
  <2>1. channel \in Seq(Attempts) /\ permits \in 0..Capacity
    BY ConstantTypes
  <2>2. /\ phase \in [Attempts -> Phases]
        /\ jobId \in [Attempts -> Ids \cup {None}]
        /\ pc \in [Workers -> {"idle", "receiving", "stopped"} \cup HoldsAt]
        /\ on \in [Workers -> Attempts \cup {None}]
        /\ result \in [Workers -> {"none", "ok", "failed"}]
    BY DEF Phases
  <2> QED BY <2>1, <2>2 DEF TypeOK, Replies
<1>2. Live = {} /\ Queued = {} /\ Held = {}
  BY DEF Live, Queued, Held
<1>3. PlacedOnce
  BY <1>2, AttemptsAssumption DEF PlacedOnce
<1>4. IdWhileLive /\ OneAttemptPerId /\ HeartbeatOwned /\ PhaseByPlace
  BY <1>2 DEF IdWhileLive, OneAttemptPerId, HeartbeatOwned, PhaseByPlace
<1>5. SlotAccounting
  BY ConstantTypes, FS_EmptySet DEF SlotAccounting
<1>6. ReceiverLocked /\ StoppedDrained /\ ResultAwaited
  BY WorkersAssumption DEF ReceiverLocked, StoppedDrained, ResultAwaited
<1> QED BY <1>1, <1>3, <1>4, <1>5, <1>6 DEF IInv

\* Steps that leave the jobs, the channel and the workers alone: a refused
\* submission, the signal, the end of the server, the exit, a heartbeat's end.
LEMMA QuietStep ==
  ASSUME IInv, TypeOK',
         UNCHANGED <<jobs, permits, channel, phase, jobId, rx, pc, on, result>>,
         heartbeat' \subseteq heartbeat,
         cancelled => cancelled'
  PROVE  IInv'
<1>1. Live' = Live /\ Queued' = Queued /\ Held' = Held
  BY DEF Live, Queued, Held
<1>2. PlacedOnce' /\ IdWhileLive' /\ OneAttemptPerId'
  BY <1>1 DEF IInv, PlacedOnce, IdWhileLive, OneAttemptPerId
<1>3. SlotAccounting' /\ HeartbeatOwned' /\ PhaseByPlace'
  BY <1>1 DEF IInv, SlotAccounting, HeartbeatOwned, PhaseByPlace
<1>4. ReceiverLocked' /\ StoppedDrained' /\ ResultAwaited'
  BY DEF IInv, ReceiverLocked, StoppedDrained, ResultAwaited
<1> QED BY <1>2, <1>3, <1>4 DEF IInv

\* An accepted submission: one slot, one identifier and one place are taken.
LEMMA AdmitStep ==
  ASSUME IInv, NEW id \in Ids, NEW a \in Attempts,
         ~cancelled, ~IdInFlight(id), permits > 0, Admit(id, a)
  PROVE  IInv'
<1> USE DEF Admit, Enqueue, IdInFlight
<1>1. TypeOK'
  BY AppendElements, ConstantTypes DEF IInv, TypeOK, Phases, Replies
<1>2. a \notin Live /\ a \notin Queued /\ a \notin Held
  BY DEF IInv, PlacedOnce, Live
<1>3. Live' = Live \cup {a} /\ Held' = Held
  BY DEF IInv, TypeOK, Live, Held
<1>4. Queued' = Queued \cup {a} /\ Distinct(channel')
  <2>1. channel \in Seq(Attempts) /\ Distinct(channel)
    BY DEF IInv, TypeOK, PlacedOnce, Distinct
  <2>2. Queued = Elements(channel) /\ Queued' = Elements(channel')
    BY DEF Queued, Elements
  <2> QED BY <1>2, <2>1, <2>2, AppendElements
<1>5. PlacedOnce'
  BY <1>2, <1>3, <1>4 DEF IInv, PlacedOnce, Distinct
<1>6. IdWhileLive'
  BY <1>3, IdsAssumption DEF IInv, TypeOK, IdWhileLive, Live
<1>7. OneAttemptPerId'
  <2>1. \A b \in Live : jobId'[b] = jobId[b] /\ jobId[b] # id
    BY <1>2 DEF IInv, TypeOK, OneAttemptPerId, Live
  <2>2. jobId'[a] = id
    BY DEF IInv, TypeOK
  <2> QED BY <2>1, <2>2, <1>3 DEF IInv, OneAttemptPerId
<1>8. SlotAccounting'
  <2>1. Cardinality(jobs') = Cardinality(jobs) + 1 /\ Cardinality(jobs) \in Nat
    BY JobsFinite, FS_AddElement DEF IInv
  <2> QED BY <2>1, ConstantTypes DEF IInv, TypeOK, SlotAccounting
<1>9. HeartbeatOwned'
  BY DEF IInv, TypeOK, HeartbeatOwned
<1>10. PhaseByPlace'
  <2>1. \A b \in Queued' : phase'[b] = "queued"
    BY <1>4 DEF IInv, TypeOK, PhaseByPlace, PlacedOnce, Live
  <2>2. \A w \in Workers : pc[w] \in HoldsAt => on[w] # a
    BY <1>2 DEF Held
  <2> QED BY <2>1, <2>2 DEF IInv, TypeOK, PhaseByPlace
<1>11. ReceiverLocked' /\ StoppedDrained' /\ ResultAwaited'
  <2>1. ReceiverLocked' /\ StoppedDrained'
    BY DEF IInv, ReceiverLocked, StoppedDrained
  <2>2. ResultAwaited'
    <3>1. \A w \in Workers : pc[w] = "aborting" => on[w] \in Attempts /\ on[w] # a
      BY <1>2 DEF IInv, TypeOK, PlacedOnce, Held
    <3> QED BY <3>1 DEF IInv, TypeOK, ResultAwaited
  <2> QED BY <2>1, <2>2
<1> QED BY <1>1, <1>5, <1>6, <1>7, <1>8, <1>9, <1>10, <1>11 DEF IInv

\* A free worker takes the lock on the receiver.
LEMMA LockReceiverStep ==
  ASSUME IInv, NEW w \in Workers, LockReceiver(w)
  PROVE  IInv'
<1> USE DEF LockReceiver, ReceiverFree, admissionVars
<1>1. TypeOK'
  BY DEF IInv, TypeOK
<1>2. Live' = Live /\ Queued' = Queued /\ Held' = Held
  BY DEF IInv, TypeOK, Live, Queued, Held
<1>3. PlacedOnce' /\ IdWhileLive' /\ OneAttemptPerId'
  BY <1>2 DEF IInv, TypeOK, PlacedOnce, IdWhileLive, OneAttemptPerId
<1>4. SlotAccounting' /\ HeartbeatOwned' /\ PhaseByPlace'
  BY <1>2 DEF IInv, TypeOK, SlotAccounting, HeartbeatOwned, PhaseByPlace
<1>5. ReceiverLocked' /\ StoppedDrained' /\ ResultAwaited'
  BY WorkersAssumption DEF IInv, TypeOK, ReceiverLocked, StoppedDrained, ResultAwaited
<1> QED BY <1>1, <1>3, <1>4, <1>5 DEF IInv

\* The oldest job moves from the channel to the worker with the lock.
LEMMA TakeStep ==
  ASSUME IInv, NEW w \in Workers, Take(w)
  PROVE  IInv'
<1> USE DEF Take, Dequeue, ReleaseReceiver
<1> DEFINE a == Head(channel)
<1>1. /\ channel' \in Seq(Attempts)
      /\ a \in Attempts
      /\ Queued = Queued' \cup {a}
      /\ Distinct(channel')
      /\ a \notin Queued'
  <2>1. channel \in Seq(Attempts) /\ Distinct(channel)
    BY DEF IInv, TypeOK, PlacedOnce, Distinct
  <2>2. Queued = Elements(channel) /\ Queued' = Elements(channel')
    BY DEF Queued, Elements
  <2> QED BY <2>1, <2>2, TailElements
<1> HIDE DEF a
<1>2. TypeOK'
  BY <1>1 DEF IInv, TypeOK, a
<1>3. a \in Queued /\ a \in Live /\ a \notin Held /\ on[w] = None
  BY <1>1 DEF IInv, PlacedOnce
<1>4. on' = [on EXCEPT ![w] = a]
  BY DEF a
<1>5. Live' = Live /\ Held' = Held \cup {a}
  <2>1. Live' = Live
    BY DEF Live
  <2>2. \A v \in Workers : v # w => on'[v] = on[v] /\ pc'[v] = pc[v]
    BY DEF IInv, TypeOK
  <2>3. on'[w] = a /\ pc'[w] = "running"
    BY <1>4 DEF IInv, TypeOK
  <2>4. pc[w] = "receiving"
    OBVIOUS
  <2> QED BY <2>1, <2>2, <2>3, <2>4 DEF Held
<1>6. PlacedOnce'
  <2>1. Queued' \cup Held' = Live' /\ Queued' \cap Held' = {}
    BY <1>1, <1>3, <1>5 DEF IInv, PlacedOnce
  <2>2. \A v \in Workers : on[v] # None => on[v] \in Held
    BY DEF IInv, PlacedOnce, Held
  <2>3. \A v \in Workers : on[v] # a
    BY <1>1, <1>3, <2>2, AttemptsAssumption
  <2>4. \A u, v \in Workers : on'[u] = on'[v] /\ on'[u] # None => u = v
    BY <1>4, <2>3 DEF IInv, TypeOK, PlacedOnce
  <2>5. \A v \in Workers : (on'[v] # None) <=> (pc'[v] \in HoldsAt)
    BY <1>1, <1>4, AttemptsAssumption DEF IInv, TypeOK, PlacedOnce
  <2> QED BY <1>1, <2>1, <2>4, <2>5 DEF PlacedOnce, Distinct
<1>7. IdWhileLive' /\ OneAttemptPerId' /\ SlotAccounting' /\ HeartbeatOwned'
  BY <1>5 DEF IInv, IdWhileLive, OneAttemptPerId, SlotAccounting, HeartbeatOwned
<1>8. PhaseByPlace'
  <2>1. phase[a] = "queued"
    BY <1>3 DEF IInv, PhaseByPlace
  <2> QED BY <2>1, <1>1, <1>4 DEF IInv, TypeOK, PhaseByPlace
<1>9. ReceiverLocked' /\ StoppedDrained' /\ ResultAwaited'
  BY WorkersAssumption DEF IInv, TypeOK, ReceiverLocked, StoppedDrained, ResultAwaited
<1> QED BY <1>2, <1>6, <1>7, <1>8, <1>9 DEF IInv

\* A worker leaves an empty channel after the cancellation.
LEMMA StopStep ==
  ASSUME IInv, NEW w \in Workers, Stop(w)
  PROVE  IInv'
<1> USE DEF Stop, NothingLeft, ReleaseReceiver, admissionVars
<1>1. TypeOK'
  BY DEF IInv, TypeOK
<1>2. Live' = Live /\ Queued' = Queued /\ Held' = Held
  BY DEF IInv, TypeOK, Live, Queued, Held
<1>3. PlacedOnce' /\ IdWhileLive' /\ OneAttemptPerId'
  BY <1>2 DEF IInv, TypeOK, PlacedOnce, IdWhileLive, OneAttemptPerId
<1>4. SlotAccounting' /\ HeartbeatOwned' /\ PhaseByPlace'
  BY <1>2 DEF IInv, TypeOK, SlotAccounting, HeartbeatOwned, PhaseByPlace
<1>5. ReceiverLocked' /\ StoppedDrained' /\ ResultAwaited'
  BY WorkersAssumption DEF IInv, TypeOK, ReceiverLocked, StoppedDrained, ResultAwaited
<1> QED BY <1>1, <1>3, <1>4, <1>5 DEF IInv

\* Only the phase of a running job changes.
LEMMA AdvanceStep ==
  ASSUME IInv, NEW w \in Workers, Advance(w)
  PROVE  IInv'
<1> USE DEF Advance, MayExecute, admissionVars
<1> DEFINE a == on[w]
<1>1. /\ a \in Attempts
      /\ a \in Live
      /\ a \notin Queued
      /\ phase[a] \in {"queued", "downloading", "encoding"}
      /\ phase'[a] \in Executing
      /\ \A b \in Attempts : b # a => phase'[b] = phase[b]
      /\ phase' \in [Attempts -> Phases]
  <2>1. a \in Attempts /\ a \in Live /\ a \notin Queued
    BY HeldJob
  <2>2. phase[a] \in {"queued", "downloading", "encoding"}
    BY DEF NextPhase
  <2>3. NextPhase[phase[a]] \in Executing
    BY <2>2 DEF NextPhase, Executing
  <2> QED BY <2>1, <2>2, <2>3 DEF IInv, TypeOK, Phases
<1>2. TypeOK'
  BY <1>1 DEF IInv, TypeOK
<1>3. Live' = Live /\ Queued' = Queued /\ Held' = Held
  BY <1>1 DEF Live, Queued, Held, Executing
<1>4. PlacedOnce' /\ IdWhileLive' /\ OneAttemptPerId' /\ SlotAccounting'
  BY <1>3 DEF IInv, PlacedOnce, IdWhileLive, OneAttemptPerId, SlotAccounting
<1>5. HeartbeatOwned'
  BY <1>1 DEF IInv, TypeOK, HeartbeatOwned
<1>6. PhaseByPlace'
  <2>1. \A v \in Workers : v # w /\ on[v] # None => on[v] # a
    BY DEF IInv, PlacedOnce
  <2>2. \A v \in Workers : pc[v] = "notifying" => v # w /\ on[v] # None /\ on[v] \in Attempts
    BY DEF IInv, TypeOK, PlacedOnce
  <2>3. \A v \in Workers : pc[v] = "running" => on[v] # None /\ on[v] \in Attempts
    BY DEF IInv, TypeOK, PlacedOnce
  <2>4. \A b \in Queued : b \in Attempts /\ b # a
    BY <1>1 DEF IInv, PlacedOnce, Live
  <2> QED BY <1>1, <1>3, <2>1, <2>2, <2>3, <2>4 DEF IInv, PhaseByPlace
<1>7. ReceiverLocked' /\ StoppedDrained' /\ ResultAwaited'
  <2>1. ReceiverLocked' /\ StoppedDrained'
    BY DEF IInv, ReceiverLocked, StoppedDrained
  <2>2. ResultAwaited'
    <3>1. \A v \in Workers : pc[v] = "aborting" => on[v] \in Attempts /\ on[v] # a
      BY DEF IInv, TypeOK, PlacedOnce
    <3> QED BY <1>1, <3>1 DEF IInv, TypeOK, ResultAwaited
  <2> QED BY <2>1, <2>2
<1> QED BY <1>2, <1>4, <1>5, <1>6, <1>7 DEF IInv

\* The execution is over, its heartbeat with it; its phase and its slot stay.
LEMMA ReturnStep ==
  ASSUME IInv, NEW w \in Workers, NEW end \in {"ok", "failed"}, Return(w, end),
         end = "ok" => phase[on[w]] = "uploading"
  PROVE  IInv'
<1> USE DEF Return, AbortHeartbeat, admissionVars
<1>1. TypeOK'
  BY DEF IInv, TypeOK
<1>2. Live' = Live /\ Queued' = Queued /\ Held' = Held
  BY DEF IInv, TypeOK, Live, Queued, Held
<1>3. PlacedOnce' /\ IdWhileLive' /\ OneAttemptPerId'
  BY <1>2 DEF IInv, TypeOK, PlacedOnce, IdWhileLive, OneAttemptPerId
<1>4. SlotAccounting' /\ HeartbeatOwned' /\ PhaseByPlace'
  BY <1>2 DEF IInv, TypeOK, SlotAccounting, HeartbeatOwned, PhaseByPlace
<1>5. ResultAwaited'
  <2>1. \A v \in Workers : v # w => pc'[v] = pc[v] /\ result'[v] = result[v]
    BY DEF IInv, TypeOK
  <2>2. pc'[w] = "aborting" /\ result'[w] = end /\ on[w] \notin heartbeat'
    BY DEF IInv, TypeOK
  <2> QED BY <2>1, <2>2 DEF IInv, ResultAwaited
<1>6. ReceiverLocked' /\ StoppedDrained'
  BY DEF IInv, TypeOK, ReceiverLocked, StoppedDrained
<1> QED BY <1>1, <1>3, <1>4, <1>5, <1>6 DEF IInv

\* The end is told by the phase; the job keeps its slot.
LEMMA FinishStep ==
  ASSUME IInv, NEW w \in Workers, Finish(w)
  PROVE  IInv'
<1> USE DEF Finish, admissionVars
<1> DEFINE a == on[w]
<1>1. /\ a \in Attempts
      /\ a \in Live
      /\ a \notin Queued
      /\ a \notin heartbeat
      /\ phase'[a] \in Terminal
      /\ \A b \in Attempts : b # a => phase'[b] = phase[b]
      /\ phase' \in [Attempts -> Phases]
  <2>1. a \in Attempts /\ a \in Live /\ a \notin Queued /\ a \notin heartbeat
    BY HeldJob DEF IInv, ResultAwaited
  <2> QED BY <2>1 DEF IInv, TypeOK, Phases, Terminal
<1>2. TypeOK'
  BY <1>1 DEF IInv, TypeOK
<1>3. Live' = Live /\ Queued' = Queued
  BY <1>1 DEF Live, Queued, Terminal
<1>4. Held' = Held
  BY DEF IInv, TypeOK, Held
<1>5. PlacedOnce'
  BY <1>3, <1>4 DEF IInv, TypeOK, PlacedOnce
<1>6. IdWhileLive' /\ OneAttemptPerId' /\ SlotAccounting'
  BY <1>3 DEF IInv, IdWhileLive, OneAttemptPerId, SlotAccounting
<1>7. HeartbeatOwned'
  BY <1>1 DEF IInv, TypeOK, HeartbeatOwned
<1>8. \A v \in Workers : pc'[v] \in HoldsAt =>
        on[v] # None /\ on[v] \in Attempts /\ (v # w => on[v] # a /\ pc'[v] = pc[v])
  BY DEF IInv, TypeOK, PlacedOnce
<1>9. pc'[w] = "notifying" /\ result'[w] = "none"
  BY DEF IInv, TypeOK
<1>10. PhaseByPlace'
  <2>1. \A b \in Queued : b \in Attempts /\ b # a
    BY <1>1 DEF IInv, PlacedOnce, Live
  <2> QED BY <1>1, <1>3, <1>8, <1>9, <2>1 DEF IInv, PhaseByPlace
<1>11. ResultAwaited'
  BY <1>1, <1>8, <1>9 DEF IInv, TypeOK, ResultAwaited
<1>12. ReceiverLocked' /\ StoppedDrained'
  BY DEF IInv, TypeOK, ReceiverLocked, StoppedDrained
<1> QED BY <1>2, <1>5, <1>6, <1>7, <1>10, <1>11, <1>12 DEF IInv

\* Identifier and slot of a reported job are given back together.
LEMMA ConcludeStep ==
  ASSUME IInv, NEW w \in Workers, Conclude(w)
  PROVE  IInv'
<1> USE DEF Conclude, ForgetId, ReleasePermit
<1> DEFINE a == on[w]
<1>1. /\ a \in Attempts
      /\ a \in Live
      /\ a \notin Queued
      /\ jobId[a] \in jobs
      /\ permits < Capacity
      /\ phase[a] \in Terminal
  BY HeldJob DEF IInv, PhaseByPlace
<1>2. TypeOK'
  BY <1>1, ConstantTypes DEF IInv, TypeOK, Phases
<1>3. Live' = Live \ {a} /\ Queued' = Queued
  BY <1>1 DEF IInv, TypeOK, Live, Queued
<1>4. \A v \in Workers : v # w /\ on[v] # None => on[v] # a
  BY DEF IInv, PlacedOnce
<1>5. Held' = Held \ {a}
  <2>1. \A v \in Workers : pc[v] \in HoldsAt => on[v] # None
    BY DEF IInv, PlacedOnce
  <2>2. \A v \in Workers : v # w => on'[v] = on[v] /\ pc'[v] = pc[v]
    BY DEF IInv, TypeOK
  <2>3. pc'[w] = "idle"
    BY DEF IInv, TypeOK
  <2> QED BY <1>4, <2>1, <2>2, <2>3 DEF Held
<1>6. PlacedOnce'
  <2>1. Queued' \cup Held' = Live' /\ Queued' \cap Held' = {}
    BY <1>1, <1>3, <1>5 DEF IInv, PlacedOnce
  <2> QED BY <2>1 DEF IInv, TypeOK, PlacedOnce
<1>7. IdWhileLive'
  BY <1>3 DEF IInv, TypeOK, IdWhileLive, Live
<1>8. OneAttemptPerId'
  <2>1. \A b \in Live' : b \in Live /\ b # a /\ jobId'[b] = jobId[b] /\ jobId[b] # jobId[a]
    BY <1>1, <1>3 DEF IInv, TypeOK, OneAttemptPerId, Live
  <2>2. jobs' = {jobId[b] : b \in Live'}
    BY <1>1, <1>3, <2>1 DEF IInv, OneAttemptPerId
  <2>3. {jobId[b] : b \in Live'} = {jobId'[b] : b \in Live'}
    BY <2>1
  <2> QED BY <2>1, <2>2, <2>3 DEF IInv, OneAttemptPerId
<1>9. SlotAccounting'
  <2>1. Cardinality(jobs') = Cardinality(jobs) - 1 /\ Cardinality(jobs) \in Nat
    BY <1>1, JobsFinite, FS_RemoveElement DEF IInv
  <2> QED BY <2>1, ConstantTypes DEF IInv, TypeOK, SlotAccounting
<1>10. HeartbeatOwned'
  BY <1>1 DEF IInv, TypeOK, HeartbeatOwned, Terminal, Executing
<1>11. PhaseByPlace'
  <2>1. \A v \in Workers : pc'[v] \in HoldsAt =>
          /\ on'[v] = on[v] /\ on[v] \in Attempts /\ on[v] # a
          /\ pc'[v] = pc[v]
    BY <1>4 DEF IInv, TypeOK, PlacedOnce
  <2>2. \A b \in Queued : b \in Attempts /\ b # a
    BY <1>1 DEF IInv, PlacedOnce, Live
  <2>3. \A b \in Attempts : b # a => phase'[b] = phase[b]
    BY DEF IInv, TypeOK
  <2> QED BY <1>3, <2>1, <2>2, <2>3 DEF IInv, PhaseByPlace
<1>12. ReceiverLocked' /\ StoppedDrained' /\ ResultAwaited'
  <2>1. ReceiverLocked' /\ StoppedDrained'
    BY DEF IInv, TypeOK, ReceiverLocked, StoppedDrained
  <2>2. ResultAwaited'
    <3>1. \A v \in Workers : pc'[v] = "aborting" => on[v] \in Attempts /\ on[v] # a
      BY <1>4 DEF IInv, TypeOK, PlacedOnce
    <3>2. \A v \in Workers : pc'[v] = "aborting" <=> pc[v] = "aborting"
      BY DEF IInv, TypeOK
    <3>3. \A v \in Workers : v # w => on'[v] = on[v]
      BY DEF IInv, TypeOK
    <3>4. \A b \in Attempts : b # a => phase'[b] = phase[b]
      BY DEF IInv, TypeOK
    <3> QED BY <3>1, <3>2, <3>3, <3>4 DEF IInv, TypeOK, ResultAwaited
  <2> QED BY <2>1, <2>2
<1> QED BY <1>2, <1>6, <1>7, <1>8, <1>9, <1>10, <1>11, <1>12 DEF IInv

\* Every step of the specification is one of the steps above.
LEMMA StepPreserves == IInv /\ [Next]_vars => IInv'
<1> SUFFICES ASSUME IInv, [Next]_vars PROVE IInv'
  OBVIOUS
<1> DEFINE Quiet == /\ UNCHANGED <<jobs, permits, channel, phase, jobId, rx, pc, on, result>>
                    /\ heartbeat' \subseteq heartbeat
                    /\ cancelled => cancelled'
                    /\ TypeOK'
<1>1. ASSUME Quiet PROVE IInv'
  BY <1>1, QuietStep
<1>2. ASSUME NEW id \in Ids, Submit(id) PROVE IInv'
  <2>1. CASE \E answer \in Replies : Refuse(answer)
    <3>1. Quiet
      BY <2>1 DEF Refuse, admissionVars, IInv, TypeOK
    <3> QED BY <3>1, <1>1
  <2>2. ASSUME NEW a \in Attempts, ~cancelled, ~IdInFlight(id), permits > 0, Admit(id, a)
        PROVE  IInv'
    BY <2>2, AdmitStep
  <2> QED BY <1>2, <2>1, <2>2 DEF Submit, SendFails, Replies
<1>3. ASSUME NEW w \in Workers, WorkerStep(w) PROVE IInv'
  <2>1. CASE LockReceiver(w)
    BY <2>1, LockReceiverStep
  <2>2. CASE Take(w)
    BY <2>2, TakeStep
  <2>3. CASE Stop(w)
    BY <2>3, StopStep
  <2>4. CASE Advance(w)
    BY <2>4, AdvanceStep
  <2>5. CASE Succeed(w) \/ Fail(w) \/ Expire(w) \/ Interrupt(w)
    BY <2>5, ReturnStep DEF Succeed, Fail, Expire, Interrupt
  <2>6. CASE Finish(w)
    BY <2>6, FinishStep
  <2>7. CASE Conclude(w)
    BY <2>7, ConcludeStep
  <2> QED BY <1>3, <2>1, <2>2, <2>3, <2>4, <2>5, <2>6, <2>7 DEF WorkerStep
<1>4. ASSUME NEW a \in Attempts, HeartbeatStops(a) PROVE IInv'
  <2>1. Quiet
    BY <1>4 DEF HeartbeatStops, admissionVars, IInv, TypeOK
  <2> QED BY <2>1, <1>1
<1>5. CASE Signal \/ ServeReturns \/ Exit
  <2>1. Quiet
    BY <1>5 DEF Signal, ServeReturns, CancelRest, Exit, admissionVars, IInv, TypeOK
  <2> QED BY <2>1, <1>1
<1>6. CASE Exited \/ UNCHANGED vars
  <2>1. Quiet
    BY <1>6 DEF Exited, vars, IInv, TypeOK
  <2> QED BY <2>1, <1>1
<1> QED BY <1>2, <1>3, <1>4, <1>5, <1>6 DEF Next

\* The inductive invariant holds in every reachable state.
THEOREM InductiveInvariant == Spec => []IInv
<1>1. Init => IInv
  BY InitEstablishes
<1>2. IInv /\ [Next]_vars => IInv'
  BY StepPreserves
<1> QED BY <1>1, <1>2, PTL DEF Spec

-----------------------------------------------------------------------------
(* The invariants the runs check.                                          *)

\* Every variable of the agent stays in its type, for any number of jobs and
\* workers; in particular no permit is released twice.
THEOREM TypeCorrect == Spec => []TypeOK
<1>1. IInv => TypeOK
  BY DEF IInv
<1> QED BY <1>1, InductiveInvariant, PTL

\* No accepted job is lost or run twice between submit, channel and workers.
THEOREM JobsPlacedOnce == Spec => []PlacedOnce
<1>1. IInv => PlacedOnce
  BY DEF IInv
<1> QED BY <1>1, InductiveInvariant, PTL

\* The set behind 409 is exactly the jobs in flight, one attempt for each.
THEOREM IdsUnique == Spec => []OneAttemptPerId
<1>1. IInv => OneAttemptPerId
  BY DEF IInv
<1> QED BY <1>1, InductiveInvariant, PTL

\* Permits and identifiers in flight always add up to the capacity.
THEOREM SlotsBalance == Spec => []SlotAccounting
<1>1. IInv => SlotAccounting
  BY DEF IInv
<1> QED BY <1>1, InductiveInvariant, PTL

\* No heartbeat runs for a finished job.
THEOREM HeartbeatsOwned == Spec => []HeartbeatOwned
<1>1. IInv => HeartbeatOwned
  BY DEF IInv
<1> QED BY <1>1, InductiveInvariant, PTL

\* The channel holds no more jobs than there are identifiers in flight: its
\* positions map one to one to identifiers.
LEMMA ChannelBelowJobs == IInv => Len(channel) <= Cardinality(jobs)
<1> SUFFICES ASSUME IInv PROVE Len(channel) <= Cardinality(jobs)
  OBVIOUS
<1>1. /\ Len(channel) \in Nat
      /\ DOMAIN channel = 1..Len(channel)
  BY DEF IInv, TypeOK
<1>2. \A k \in DOMAIN channel : channel[k] \in Live
  BY DEF IInv, PlacedOnce, Queued
<1> DEFINE f == [k \in 1..Len(channel) |-> jobId[channel[k]]]
<1>3. f \in [1..Len(channel) -> jobs]
  BY <1>1, <1>2 DEF IInv, OneAttemptPerId
<1>4. \A k, l \in 1..Len(channel) : f[k] = f[l] => k = l
  BY <1>1, <1>2 DEF IInv, OneAttemptPerId, PlacedOnce
<1>5. f \in Injection(1..Len(channel), jobs)
  <2> HIDE DEF f
  <2> QED BY <1>3, <1>4 DEF Injection, IsInjective
<1>6. IsFiniteSet(jobs)
  BY JobsFinite DEF IInv
<1>7. Cardinality(1..Len(channel)) <= Cardinality(jobs)
  BY <1>5, <1>6, FS_Injection
<1>8. Cardinality(1..Len(channel)) = Len(channel)
  <2> DEFINE n == Len(channel)
  <2>1. 1 \in Int /\ n \in Int /\ n \in Nat
    BY <1>1
  <2> HIDE DEF n
  <2>2. Cardinality(1..n) = IF 1 > n THEN 0 ELSE n - 1 + 1
    BY <2>1, FS_Interval
  <2>3. Cardinality(1..n) = n
    BY <2>1, <2>2
  <2> QED BY <2>3 DEF n
<1> QED BY <1>7, <1>8

\* try_send never meets a full channel once a permit was granted: the recovery
\* branch of submit is dead code for every concurrency and queue size.
THEOREM SendNeverFails == Spec => []ChannelHasRoom
<1>1. IInv => ChannelHasRoom
  <2> SUFFICES ASSUME IInv, permits > 0 PROVE Len(channel) < ChannelBound
    BY DEF ChannelHasRoom
  <2>1. Len(channel) <= Cardinality(jobs) /\ Len(channel) \in Nat
    BY ChannelBelowJobs DEF IInv, TypeOK
  <2>2. permits + Cardinality(jobs) = Capacity /\ permits \in Nat /\ Cardinality(jobs) \in Nat
    BY JobsFinite, ConstantTypes DEF IInv, SlotAccounting, TypeOK
  <2> QED BY <2>1, <2>2, ConstantTypes DEF ChannelBound
<1> QED BY <1>1, InductiveInvariant, PTL

\* When the last worker has stopped, nothing that was accepted is left.
THEOREM CleanShutdown == Spec => []ShutdownLeavesNothing
<1>1. IInv => ShutdownLeavesNothing
  <2> SUFFICES ASSUME IInv, \A w \in Workers : pc[w] = "stopped"
               PROVE  channel = <<>> /\ jobs = {} /\ permits = Capacity /\ heartbeat = {}
    BY DEF ShutdownLeavesNothing
  <2>1. channel = <<>>
    BY WorkersAssumption DEF IInv, StoppedDrained
  <2>2. Queued = {} /\ Held = {}
    BY <2>1 DEF Queued, Held
  <2>3. Live = {}
    BY <2>2 DEF IInv, PlacedOnce
  <2>4. jobs = {}
    BY <2>3 DEF IInv, OneAttemptPerId
  <2>5. permits = Capacity
    BY <2>4, FS_EmptySet, ConstantTypes DEF IInv, SlotAccounting, TypeOK
  <2>6. heartbeat = {}
    BY <2>3 DEF IInv, TypeOK, HeartbeatOwned, Live, Executing
  <2> QED BY <2>1, <2>4, <2>5, <2>6
<1> QED BY <1>1, InductiveInvariant, PTL

-----------------------------------------------------------------------------
(* The action properties the runs check.                                   *)

\* Once cancelled, no step starts or advances a job or ends its execution well,
\* even when the worker takes it from the channel only then; a job becomes
\* "succeeded" only if its execution had ended well before.
THEOREM CancelStopsProgress == Spec => NothingAdvancesAfterCancel
<1> DEFINE EndsNoneWell == \A w \in Workers : result'[w] = "ok" => result[w] = "ok"
           TellsOfEnded == \A a \in Attempts :
             \/ phase'[a] = phase[a]
             \/ phase'[a] \in {"failed", "none"}
             \/ /\ phase'[a] = "succeeded"
                /\ \E w \in Workers : on[w] = a /\ result[w] = "ok"
           P == cancelled => EndsNoneWell /\ TellsOfEnded
<1>1. IInv /\ [Next]_vars => [P]_vars
  <2> SUFFICES ASSUME IInv, Next, cancelled
               PROVE  EndsNoneWell /\ TellsOfEnded
    OBVIOUS
  <2>1. CASE UNCHANGED <<phase, result>>
    BY <2>1
  <2>2. ASSUME NEW w \in Workers, Return(w, "failed") PROVE EndsNoneWell /\ TellsOfEnded
    BY <2>2 DEF Return, IInv, TypeOK
  <2>3. ASSUME NEW w \in Workers, Finish(w) PROVE EndsNoneWell /\ TellsOfEnded
    <3>1. on[w] \in Attempts /\ on[w] \in Live
      BY <2>3, HeldJob DEF Finish
    <3>2. \A a \in Attempts : a # on[w] => phase'[a] = phase[a]
      BY <2>3 DEF Finish, IInv, TypeOK
    <3>3. phase'[on[w]] = IF result[w] = "ok" THEN "succeeded" ELSE "failed"
      BY <2>3, <3>1 DEF Finish, IInv, TypeOK
    <3>4. EndsNoneWell
      BY <2>3 DEF Finish, IInv, TypeOK
    <3> QED BY <3>2, <3>3, <3>4
  <2>4. ASSUME NEW w \in Workers, Conclude(w) PROVE EndsNoneWell /\ TellsOfEnded
    BY <2>4, HeldJob DEF Conclude, IInv, TypeOK
  <2>5. ASSUME NEW w \in Workers, WorkerStep(w)
        PROVE  \/ UNCHANGED <<phase, result>>
               \/ Return(w, "failed") \/ Finish(w) \/ Conclude(w)
    BY <2>5 DEF WorkerStep, LockReceiver, Take, Stop, Advance, Succeed, Fail, Expire,
                Interrupt, MayExecute
  <2>6. ASSUME NEW id \in Ids, Submit(id) PROVE UNCHANGED <<phase, result>>
    BY <2>6 DEF Submit, SendFails, Refuse
  <2>7. ASSUME NEW b \in Attempts, HeartbeatStops(b) PROVE UNCHANGED <<phase, result>>
    BY <2>7 DEF HeartbeatStops
  <2>8. CASE Signal \/ ServeReturns \/ Exit \/ Exited
    BY <2>1, <2>8 DEF Signal, ServeReturns, Exit, Exited, vars
  <2> QED BY <2>1, <2>2, <2>3, <2>4, <2>5, <2>6, <2>7, <2>8 DEF Next
<1> QED BY <1>1, InductiveInvariant, PTL DEF Spec, NothingAdvancesAfterCancel

\* An identifier is free again only after the terminal state of its attempt
\* was reported.
THEOREM ForgottenAfterReport == Spec => ReportedBeforeForgotten
<1> DEFINE P == \A a \in Attempts : phase'[a] = "none" /\ phase[a] # "none" =>
                  phase[a] \in Terminal /\ jobId[a] \notin jobs'
<1>1. IInv /\ [Next]_vars => [P]_vars
  <2> SUFFICES ASSUME IInv, Next, NEW a \in Attempts, phase'[a] = "none", phase[a] # "none"
               PROVE  phase[a] \in Terminal /\ jobId[a] \notin jobs'
    OBVIOUS
  <2>1. ~UNCHANGED phase
    OBVIOUS
  <2>2. ASSUME NEW w \in Workers, Conclude(w)
        PROVE  phase[a] \in Terminal /\ jobId[a] \notin jobs'
    <3>1. a = on[w]
      BY <2>2, HeldJob DEF Conclude, IInv, TypeOK
    <3> QED BY <2>2, <3>1 DEF Conclude, ForgetId, IInv, PhaseByPlace
  <2>3. ASSUME NEW w \in Workers, Finish(w) PROVE FALSE
    BY <2>3, HeldJob DEF Finish, IInv, TypeOK
  <2>4. ASSUME NEW w \in Workers, Advance(w) PROVE FALSE
    <3>1. phase[on[w]] \in {"queued", "downloading", "encoding"}
      BY <2>4 DEF Advance, NextPhase
    <3>2. NextPhase[phase[on[w]]] # "none"
      BY <3>1 DEF NextPhase
    <3> QED BY <2>4, <3>2, HeldJob DEF Advance, IInv, TypeOK
  <2>5. ASSUME NEW w \in Workers, WorkerStep(w)
        PROVE  UNCHANGED phase \/ Conclude(w) \/ Advance(w) \/ Finish(w)
    BY <2>5 DEF WorkerStep, LockReceiver, Take, Stop, Succeed, Fail, Expire, Interrupt, Return
  <2>6. ASSUME NEW id \in Ids, NEW b \in Attempts, Admit(id, b) PROVE FALSE
    BY <2>6 DEF Admit, IInv, TypeOK
  <2>7. ASSUME NEW id \in Ids, Submit(id)
        PROVE  UNCHANGED phase \/ \E b \in Attempts : Admit(id, b)
    BY <2>7 DEF Submit, SendFails, Refuse
  <2>8. ASSUME NEW b \in Attempts, HeartbeatStops(b) PROVE UNCHANGED phase
    BY <2>8 DEF HeartbeatStops
  <2>9. CASE Signal \/ ServeReturns \/ Exit \/ Exited
    BY <2>1, <2>9 DEF Signal, ServeReturns, Exit, Exited, vars
  <2> QED BY <2>1, <2>2, <2>3, <2>4, <2>5, <2>6, <2>7, <2>8, <2>9 DEF Next
<1> QED BY <1>1, InductiveInvariant, PTL DEF Spec, ReportedBeforeForgotten

-----------------------------------------------------------------------------
(* Agent implements JobService, for any number of jobs, workers and slots: *)
(* what callers see of admission, order, slots and shutdown is the promise *)
(* of JobService, whatever the channel, the lock and the permits do.       *)

waitingBar == [k \in DOMAIN channel |-> jobId[channel[k]]]
executingBar == {jobId[on[w]] : w \in {v \in Workers : pc[v] \in ExecutesAt}}
reportingBar == {jobId[on[w]] : w \in {v \in Workers : pc[v] = "notifying"}}

Busy == {v \in Workers : pc[v] \in HoldsAt}

-----------------------------------------------------------------------------

\* The identifiers in flight of the promise are the agent's set jobs.
LEMMA InFlightIsJobs ==
  ASSUME IInv
  PROVE  /\ Promise!InFlight = jobs
         /\ Promise!Waiting = {jobId[a] : a \in Queued}
         /\ executingBar \cup reportingBar = {jobId[a] : a \in Held}
<1>1. Promise!Waiting = {jobId[a] : a \in Queued}
  BY DEF Promise!Waiting, Queued
<1>2. executingBar \cup reportingBar = {jobId[a] : a \in Held}
  BY DEF executingBar, reportingBar, Held
<1>3. Promise!InFlight = {jobId[a] : a \in Queued} \cup {jobId[a] : a \in Held}
  BY <1>1, <1>2 DEF Promise!InFlight, executingBar, reportingBar
<1>4. jobs = {jobId[a] : a \in Queued \cup Held}
  BY DEF IInv, OneAttemptPerId, PlacedOnce
<1>5. Promise!InFlight = jobs
  BY <1>3, <1>4
<1> QED BY <1>1, <1>2, <1>5

\* While a worker is free fewer jobs than workers are executed or reported.
LEMMA FreeWorker ==
  ASSUME IInv, NEW w \in Workers, w \notin Busy
  PROVE  Cardinality(executingBar \cup reportingBar) < Concurrency
<1> DEFINE T == executingBar \cup reportingBar
           g == [v \in Busy |-> jobId[on[v]]]
<1>1. T = {jobId[on[v]] : v \in Busy}
  BY DEF executingBar, reportingBar, Busy
<1>2. g \in Surjection(Busy, T)
  BY <1>1 DEF Surjection
<1>3. Busy \subseteq Workers \ {w}
  BY DEF Busy
<1>4. IsFiniteSet(Workers \ {w}) /\ Cardinality(Workers \ {w}) = Cardinality(Workers) - 1
  BY WorkersAssumption, FS_RemoveElement
<1>5. IsFiniteSet(Busy) /\ Cardinality(Busy) <= Cardinality(Workers \ {w})
  BY <1>3, <1>4, FS_Subset
<1>6. IsFiniteSet(T) /\ Cardinality(T) <= Cardinality(Busy)
  <2> HIDE DEF g, T
  <2> QED BY <1>2, <1>5, FS_Surjection
<1>7. Cardinality(T) \in Nat /\ Cardinality(Busy) \in Nat /\ Cardinality(Workers) \in Nat
  BY <1>5, <1>6, WorkersAssumption, FS_CardinalityType
<1> QED BY <1>4, <1>5, <1>6, <1>7 DEF Concurrency

\* A sequence is what Append makes of another if it has its elements and one more.
LEMMA IsAppend ==
  ASSUME NEW S, NEW q \in Seq(S), NEW e \in S, NEW n \in Nat, Len(q) = n,
         NEW r \in [1..n + 1 -> S],
         \A k \in 1..n : r[k] = q[k],
         r[n + 1] = e
  PROVE  r = Append(q, e)
<1>1. r \in Seq(S) /\ Len(r) = n + 1
  OBVIOUS
<1>2. Append(q, e) \in Seq(S) /\ Len(Append(q, e)) = n + 1
  OBVIOUS
<1>3. \A k \in 1..n + 1 : r[k] = Append(q, e)[k]
  OBVIOUS
<1> QED BY <1>1, <1>2, <1>3, SeqEqual

\* A sequence is the tail of another if it has its elements but the first.
LEMMA IsTail ==
  ASSUME NEW S, NEW q \in Seq(S), NEW n \in Nat \ {0}, Len(q) = n,
         NEW r \in [1..n - 1 -> S],
         \A k \in 1..n - 1 : r[k] = q[k + 1]
  PROVE  r = Tail(q)
<1>1. r \in Seq(S) /\ Len(r) = n - 1
  OBVIOUS
<1>2. Tail(q) \in Seq(S) /\ Len(Tail(q)) = n - 1
  OBVIOUS
<1>3. \A k \in 1..n - 1 : r[k] = Tail(q)[k]
  OBVIOUS
<1> QED BY <1>1, <1>2, <1>3, SeqEqual

\* The instance brings its own copy of the operator of FiniteSets.
LEMMA SameCardinality == ASSUME NEW S PROVE Promise!Cardinality(S) = Cardinality(S)
BY DEF Promise!Cardinality, Cardinality

\* The actions of the promise under the mapping.
LEMMA AcceptMapped ==
  ASSUME NEW id
  PROVE  Promise!Accept(id) <=>
           /\ ~cancelled
           /\ id \notin Promise!InFlight
           /\ Cardinality(Promise!InFlight) < Capacity
           /\ waitingBar' = Append(waitingBar, id)
           /\ reply' = "accepted"
           /\ UNCHANGED <<executingBar, reportingBar, ~cancelled>>
BY SameCardinality DEF Promise!Accept, waitingBar, executingBar, reportingBar

\* Start under the mapping.
LEMMA StartMapped ==
  Promise!Start <=>
    /\ waitingBar # <<>>
    /\ Cardinality(executingBar \cup reportingBar) < Concurrency
    /\ executingBar' = executingBar \cup {Head(waitingBar)}
    /\ waitingBar' = Tail(waitingBar)
    /\ UNCHANGED <<reportingBar, ~cancelled, reply>>
BY SameCardinality DEF Promise!Start, waitingBar, executingBar, reportingBar

\* The identifiers of the channel, in order.
LEMMA WaitingType ==
  ASSUME IInv
  PROVE  /\ waitingBar \in Seq(Ids)
         /\ Len(channel) \in Nat
         /\ DOMAIN channel = 1..Len(channel)
         /\ Len(waitingBar) = Len(channel)
         /\ \A k \in 1..Len(channel) : waitingBar[k] = jobId[channel[k]]
         /\ \A k \in 1..Len(channel) : channel[k] \in Attempts /\ jobId[channel[k]] \in Ids
<1>1. Len(channel) \in Nat /\ DOMAIN channel = 1..Len(channel)
  BY DEF IInv, TypeOK
<1>2. \A k \in 1..Len(channel) : channel[k] \in Live
  BY <1>1 DEF IInv, PlacedOnce, Queued
<1>3. \A k \in 1..Len(channel) : channel[k] \in Attempts /\ jobId[channel[k]] \in Ids
  BY <1>2 DEF IInv, IdWhileLive, TypeOK, Live
<1>4. waitingBar \in [1..Len(channel) -> Ids]
  BY <1>1, <1>3 DEF waitingBar
<1>5. waitingBar \in Seq(Ids) /\ Len(waitingBar) = Len(channel)
  BY <1>1, <1>4
<1> QED BY <1>1, <1>3, <1>5 DEF waitingBar

-----------------------------------------------------------------------------
(* Each action of the agent is an action of the promise, or none.          *)

\* An admission is an Accept.
LEMMA AdmitAccepts ==
  ASSUME IInv, IInv', NEW id \in Ids, NEW a \in Attempts,
         ~cancelled, ~IdInFlight(id), permits > 0, Admit(id, a)
  PROVE  Promise!Accept(id)
<1> USE DEF Admit, Enqueue, IdInFlight
<1>1. /\ id \notin Promise!InFlight
      /\ Cardinality(Promise!InFlight) < Capacity
  BY InFlightIsJobs, JobsFinite, ConstantTypes DEF IInv, TypeOK, SlotAccounting
<1>2. waitingBar' = Append(waitingBar, id)
  <2> DEFINE n == Len(channel)
  <2>1. /\ n \in Nat
        /\ channel \in Seq(Attempts)
        /\ DOMAIN channel' = 1..n + 1
        /\ \A k \in 1..n : channel'[k] = channel[k]
        /\ channel'[n + 1] = a
    BY WaitingType DEF IInv, TypeOK
  <2>2. a \notin Queued /\ \A k \in 1..n : channel[k] \in Queued
    BY WaitingType DEF IInv, PlacedOnce, Live, Queued
  <2>3. \A b \in Attempts : b # a => jobId'[b] = jobId[b]
    BY DEF IInv, TypeOK
  <2>4. jobId'[a] = id
    BY DEF IInv, TypeOK
  <2>5. /\ waitingBar \in Seq(Ids)
        /\ Len(waitingBar) = n
        /\ \A k \in 1..n : waitingBar[k] = jobId[channel[k]] /\ channel[k] \in Attempts
    BY WaitingType
  <2>6. \A k \in 1..n : jobId'[channel'[k]] = waitingBar[k] /\ waitingBar[k] \in Ids
    <3>1. ASSUME NEW k \in 1..n
          PROVE  jobId'[channel'[k]] = waitingBar[k] /\ waitingBar[k] \in Ids
      <4>1. channel[k] # a /\ channel[k] \in Attempts
        BY <2>2, <2>5
      <4> QED BY <4>1, <2>1, <2>3, <2>5
    <3> QED BY <3>1
  <2>7. waitingBar' = [k \in 1..n + 1 |-> jobId'[channel'[k]]]
    BY <2>1 DEF waitingBar
  <2>8. jobId'[channel'[n + 1]] = id
    BY <2>1, <2>4
  <2> HIDE DEF n
  <2>9. \A k \in 1..n + 1 : k \in 1..n \/ k = n + 1
    BY <2>1
  <2>10. waitingBar' \in [1..n + 1 -> Ids]
    BY <2>6, <2>7, <2>8, <2>9
  <2>11. /\ \A k \in 1..n : waitingBar'[k] = waitingBar[k]
         /\ waitingBar'[n + 1] = id
    BY <2>1, <2>6, <2>7, <2>8
  <2> QED BY <2>1, <2>5, <2>10, <2>11, IsAppend
<1>3. executingBar' = executingBar /\ reportingBar' = reportingBar
  <2>1. \A v \in Workers : pc[v] \in HoldsAt => jobId'[on[v]] = jobId[on[v]]
    BY DEF IInv, TypeOK, PlacedOnce, Live, Held
  <2> QED BY <2>1 DEF executingBar, reportingBar
<1> QED BY <1>1, <1>2, <1>3, AcceptMapped

\* Taking the oldest attempt is a Start of its job.
LEMMA TakeStarts ==
  ASSUME IInv, IInv', NEW w \in Workers, Take(w)
  PROVE  Promise!Start
<1> USE DEF Take, Dequeue
<1> DEFINE n == Len(channel)
<1>1. /\ n \in Nat \ {0}
      /\ channel \in Seq(Attempts)
      /\ Head(channel) = channel[1]
      /\ DOMAIN channel' = 1..n - 1
      /\ \A k \in 1..n - 1 : channel'[k] = channel[k + 1]
  BY DEF IInv, TypeOK
<1>2. /\ waitingBar \in Seq(Ids)
      /\ Len(waitingBar) = n
      /\ \A k \in 1..n : waitingBar[k] = jobId[channel[k]]
  BY WaitingType
<1>3. waitingBar # <<>> /\ Head(waitingBar) = jobId[Head(channel)]
  BY <1>1, <1>2
<1>4. waitingBar' = Tail(waitingBar)
  <2>1. waitingBar' = [k \in 1..n - 1 |-> jobId[channel'[k]]]
    BY <1>1 DEF waitingBar
  <2>2. \A k \in 1..n - 1 : k + 1 \in 1..n
    BY <1>1
  <2>3. \A k \in 1..n - 1 : jobId[channel'[k]] = waitingBar[k + 1] /\ waitingBar[k + 1] \in Ids
    BY <1>1, <1>2, <2>2
  <2> HIDE DEF n
  <2>4. waitingBar' \in [1..n - 1 -> Ids]
    BY <2>1, <2>3
  <2>5. \A k \in 1..n - 1 : waitingBar'[k] = waitingBar[k + 1]
    BY <2>1, <2>3
  <2> QED BY <1>1, <1>2, <2>4, <2>5, IsTail
<1>5. Cardinality(executingBar \cup reportingBar) < Concurrency
  BY FreeWorker DEF Busy
<1>6. executingBar' = executingBar \cup {jobId[Head(channel)]} /\ reportingBar' = reportingBar
  <2>1. \A v \in Workers : v # w => on'[v] = on[v] /\ pc'[v] = pc[v]
    BY DEF IInv, TypeOK
  <2>2. on'[w] = Head(channel) /\ pc'[w] = "running" /\ pc[w] = "receiving"
    BY DEF IInv, TypeOK
  <2> QED BY <2>1, <2>2 DEF executingBar, reportingBar
<1> QED BY <1>3, <1>4, <1>5, <1>6, StartMapped

\* Workers with different attempts have different identifiers.
LEMMA HeldIdsDiffer ==
  ASSUME IInv, NEW v \in Busy, NEW w \in Busy, jobId[on[v]] = jobId[on[w]]
  PROVE  v = w
<1>1. on[v] \in Live /\ on[w] \in Live /\ on[v] # None
  BY HeldJob, AttemptsAssumption DEF Busy
<1> QED BY <1>1 DEF IInv, OneAttemptPerId, PlacedOnce, Busy

\* Telling the end of an execution is a Finish.
LEMMA FinishFinishes ==
  ASSUME IInv, NEW w \in Workers, Finish(w),
         NEW i \in Ids, i = jobId[on[w]]
  PROVE  Promise!Finish(i)
<1> USE DEF Finish, admissionVars
<1>1. jobId[on[w]] \in executingBar
  BY DEF executingBar
<1>2. \A v \in Workers : v # w => pc'[v] = pc[v]
  BY DEF IInv, TypeOK
<1>3. pc'[w] = "notifying"
  BY DEF IInv, TypeOK
<1>4. \A v \in Busy : v # w => jobId[on[v]] # jobId[on[w]]
  BY HeldIdsDiffer DEF Busy
<1>5. executingBar' = executingBar \ {jobId[on[w]]}
  BY <1>2, <1>3, <1>4 DEF executingBar, Busy
<1>6. reportingBar' = reportingBar \cup {jobId[on[w]]}
  BY <1>2, <1>3 DEF reportingBar
<1>7. waitingBar' = waitingBar
  BY DEF waitingBar
<1> QED BY <1>1, <1>5, <1>6, <1>7 DEF Promise!Finish, waitingBar, executingBar, reportingBar

\* The end of the terminal callback is a Conclude.
LEMMA ConcludeConcludes ==
  ASSUME IInv, NEW w \in Workers, Conclude(w), NEW i \in Ids, i = jobId[on[w]]
  PROVE  Promise!Conclude(i)
<1> USE DEF Conclude
<1>1. jobId[on[w]] \in reportingBar
  BY DEF reportingBar
<1>2. \A v \in Workers : v # w => pc'[v] = pc[v] /\ on'[v] = on[v]
  BY DEF IInv, TypeOK
<1>3. pc'[w] = "idle"
  BY DEF IInv, TypeOK
<1>4. \A v \in Busy : v # w => jobId[on[v]] # jobId[on[w]] /\ jobId'[on[v]] = jobId[on[v]]
  BY HeldIdsDiffer, HeldJob DEF Busy, IInv, TypeOK
<1>5. reportingBar' = reportingBar \ {jobId[on[w]]}
  BY <1>2, <1>3, <1>4 DEF reportingBar, Busy
<1>6. executingBar' = executingBar
  BY <1>2, <1>3, <1>4 DEF executingBar, Busy
<1>7. waitingBar' = waitingBar
  <2>1. on[w] \notin Queued
    BY HeldJob
  <2>2. \A k \in DOMAIN channel : channel[k] # on[w] /\ channel[k] \in Attempts
    BY <2>1, WaitingType DEF Queued
  <2>3. \A b \in Attempts : b # on[w] => jobId'[b] = jobId[b]
    BY DEF IInv, TypeOK
  <2> QED BY <2>2, <2>3 DEF waitingBar
<1> QED BY <1>1, <1>5, <1>6, <1>7 DEF Promise!Conclude, waitingBar, executingBar, reportingBar

\* Steps of the lock, the phases, the heartbeats and run() are not visible.
LEMMA HiddenStutters ==
  ASSUME UNCHANGED <<channel, jobId, cancelled, reply>>,
         UNCHANGED <<executingBar, reportingBar>>
  PROVE  UNCHANGED Promise!vars
BY DEF Promise!vars, executingBar, reportingBar

\* A refused submission is refused by the promise for the same reason.
LEMMA RefuseMapped ==
  ASSUME NEW answer
  PROVE  Promise!Refuse(answer) <=>
           /\ reply' = answer
           /\ UNCHANGED <<waitingBar, executingBar, reportingBar, ~cancelled>>
BY DEF Promise!Refuse, waitingBar, executingBar, reportingBar

\* Every refused submission is a refused one of the promise.
LEMMA RefuseRefuses ==
  ASSUME NEW answer, Refuse(answer)
  PROVE  Promise!Refuse(answer)
<1>1. UNCHANGED <<waitingBar, executingBar, reportingBar>>
  BY DEF Refuse, admissionVars, waitingBar, executingBar, reportingBar
<1> QED BY <1>1, RefuseMapped DEF Refuse

\* The branch that takes an admission back cannot be reached, the other
\* answers are given in the states the promise gives them.
LEMMA SubmitSubmits ==
  ASSUME IInv, IInv', NEW id \in Ids, Submit(id)
  PROVE  Promise!Submit(id)
<1>1. Promise!InFlight = jobs
  BY InFlightIsJobs
<1>2. /\ Cardinality(jobs) \in Nat
      /\ permits \in Nat
      /\ permits + Cardinality(jobs) = Capacity
      /\ Capacity \in Nat
      /\ Len(channel) <= Cardinality(jobs)
      /\ Len(channel) \in Nat
  BY JobsFinite, ConstantTypes, ChannelBelowJobs DEF IInv, TypeOK, SlotAccounting
<1>3. CASE Refuse("unauthorized") \/ Refuse("invalid")
  BY <1>3, RefuseRefuses DEF Promise!Submit
<1>4. CASE cancelled /\ Refuse("unavailable")
  BY <1>4, RefuseRefuses DEF Promise!Submit
<1>5. CASE ~cancelled /\ IdInFlight(id) /\ Refuse("conflict")
  BY <1>5, <1>1, RefuseRefuses DEF Promise!Submit, IdInFlight
<1>6. CASE ~cancelled /\ ~IdInFlight(id) /\ permits = 0 /\ Refuse("busy")
  <2>1. Promise!Cardinality(Promise!InFlight) >= Capacity
    BY <1>6, <1>1, <1>2, SameCardinality
  <2>2. Promise!Refuse("busy") /\ ~cancelled /\ id \notin Promise!InFlight
    BY <1>6, <1>1, RefuseRefuses DEF IdInFlight
  <2> QED BY <2>1, <2>2 DEF Promise!Submit
<1>7. CASE permits > 0 /\ SendFails(id)
  BY <1>7, <1>2 DEF SendFails, ChannelBound
<1>8. ASSUME NEW a \in Attempts, ~cancelled, ~IdInFlight(id), permits > 0, Admit(id, a)
      PROVE  Promise!Submit(id)
  BY <1>8, AdmitAccepts DEF Promise!Submit
<1> QED BY <1>3, <1>4, <1>5, <1>6, <1>7, <1>8 DEF Submit

\* A worker step is a start, an end or a conclusion, or not visible.
LEMMA WorkerStepMaps ==
  ASSUME IInv, IInv', NEW w \in Workers, WorkerStep(w)
  PROVE  Promise!Next \/ UNCHANGED Promise!vars
<1>1. CASE Take(w)
  BY <1>1, TakeStarts DEF Promise!Next
<1>2. CASE Finish(w)
  <2>1. jobId[on[w]] \in Ids
    BY <1>2, HeldJob DEF Finish, IInv, TypeOK
  <2>2. PICK i \in Ids : i = jobId[on[w]]
    BY <2>1
  <2>3. Promise!Finish(i)
    BY <1>2, <2>2, FinishFinishes
  <2> QED BY <2>3 DEF Promise!Next
<1>3. CASE Conclude(w)
  <2>1. jobId[on[w]] \in Ids
    BY <1>3, HeldJob DEF Conclude, IInv, TypeOK
  <2>2. PICK i \in Ids : i = jobId[on[w]]
    BY <2>1
  <2>3. Promise!Conclude(i)
    BY <1>3, <2>2, ConcludeConcludes
  <2> QED BY <2>3 DEF Promise!Next
<1>4. CASE LockReceiver(w) \/ Stop(w) \/ Advance(w) \/ \E end \in {"ok", "failed"} : Return(w, end)
  <2>1. UNCHANGED <<channel, jobId, cancelled, reply>>
    BY <1>4 DEF LockReceiver, Stop, Advance, Return, admissionVars
  <2>2. \A v \in Workers : /\ pc'[v] \in ExecutesAt <=> pc[v] \in ExecutesAt
                           /\ pc'[v] = "notifying" <=> pc[v] = "notifying"
                           /\ on'[v] = on[v]
    BY <1>4 DEF LockReceiver, Stop, Advance, Return, IInv, TypeOK
  <2>3. UNCHANGED <<executingBar, reportingBar>>
    BY <2>1, <2>2 DEF executingBar, reportingBar
  <2> QED BY <2>1, <2>3, HiddenStutters
<1>5. \/ Take(w) \/ Conclude(w) \/ LockReceiver(w) \/ Stop(w) \/ Advance(w) \/ Finish(w)
      \/ \E end \in {"ok", "failed"} : Return(w, end)
  BY DEF WorkerStep, Succeed, Fail, Expire, Interrupt
<1> QED BY <1>1, <1>2, <1>3, <1>4, <1>5

\* Every step is a step of the promise or leaves what it speaks of alone,
LEMMA StepMaps == IInv /\ IInv' /\ [Next]_vars => [Promise!Next]_(Promise!vars)
<1> SUFFICES ASSUME IInv, IInv', [Next]_vars
             PROVE  Promise!Next \/ UNCHANGED Promise!vars
  OBVIOUS
<1>1. ASSUME NEW id \in Ids, Submit(id) PROVE Promise!Next
  BY <1>1, SubmitSubmits DEF Promise!Next
<1>2. ASSUME NEW w \in Workers, WorkerStep(w) PROVE Promise!Next \/ UNCHANGED Promise!vars
  BY <1>2, WorkerStepMaps
<1>3. ASSUME UNCHANGED <<channel, jobId, pc, on, cancelled, reply>>
      PROVE  UNCHANGED Promise!vars
  BY <1>3 DEF Promise!vars
<1>4. CASE Exit \/ Exited \/ UNCHANGED vars
  BY <1>3, <1>4 DEF Exit, Exited, vars, admissionVars
<1>5. ASSUME NEW a \in Attempts, HeartbeatStops(a) PROVE UNCHANGED Promise!vars
  BY <1>3, <1>5 DEF HeartbeatStops, admissionVars
<1>6. CASE Signal \/ ServeReturns
  <2>1. UNCHANGED <<channel, jobId, pc, on, reply>> /\ cancelled'
    BY <1>6 DEF Signal, ServeReturns, CancelRest, admissionVars
  <2>2. Promise!Close
    BY <2>1 DEF Promise!Close
  <2> QED BY <2>2 DEF Promise!Next
<1> QED BY <1>1, <1>2, <1>4, <1>5, <1>6 DEF Next

\* and the agent starts as the promise does.
LEMMA InitMaps == Init => Promise!Init
<1> SUFFICES ASSUME Init PROVE Promise!Init
  OBVIOUS
<1> USE DEF Init
<1>1. waitingBar = <<>>
  BY DEF waitingBar
<1>2. executingBar = {} /\ reportingBar = {}
  BY DEF executingBar, reportingBar
<1> QED BY <1>1, <1>2 DEF Promise!Init, waitingBar, executingBar, reportingBar

\* The queue, the workers, the slots and the shutdown together keep the
\* promise made to the callers, for every concurrency and queue size.
THEOREM AgentImplementsPromise == Spec => ImplementsPromise
<1>1. Init => Promise!Init
  BY InitMaps
<1>2. IInv /\ IInv' /\ [Next]_vars => [Promise!Next]_(Promise!vars)
  BY StepMaps
<1> QED BY <1>1, <1>2, InductiveInvariant, PTL DEF Spec, ImplementsPromise, Promise!Spec
=============================================================================
