---------------------------- MODULE CallbackProofs ----------------------------
(***************************************************************************)
(* Proofs about Callback for every retry policy and any number of events:  *)
(* IInv is inductive, whatever the network and the caller do.              *)
(***************************************************************************)
EXTENDS Callback, TLAPS

\* The places of the worker before it tells the end are a plain set of strings.
USE DEF Untold

\* A notify makes at least one attempt, and at most ten.
LEMMA AttemptsType == \A terminal : Attempts(terminal) \in 1..10
BY MaxAttemptsAssumption DEF Attempts

\* Nothing is sent and nothing claimed at first.
LEMMA InitEstablishes == Init => IInv
<1> SUFFICES ASSUME Init PROVE IInv
  OBVIOUS
<1> USE DEF Init
<1>1. TypeOK
  <2>1. /\ at \in [Tasks -> {"waiting", "executing", "aborting", "sending", "sleeping",
                             "ended", "concluded"}]
        /\ body \in [Tasks -> Message \cup {NoMessage}]
        /\ answer \in [Tasks -> {"none", "ok", "retryable", "rejected"}]
    OBVIOUS
  <2>2. /\ phase \in Running \cup Terminal /\ ended = "none"
        /\ sequence \in 0..MaxSequence
        /\ sent \subseteq Message /\ wire \subseteq sent /\ accepted \subseteq sent
        /\ settled \subseteq 0..MaxSequence
    BY MaxSequenceAssumption DEF Running
  <2>3. cancelled \in BOOLEAN /\ delivered \in {"open", "acknowledged", "unacknowledged"}
    OBVIOUS
  <2> HIDE DEF Init
  <2> QED BY <2>1, <2>2, <2>3 DEF TypeOK
<1>2. TasksInStep
  BY MaxSequenceAssumption DEF TasksInStep, Running, Tasks
<1>3. Claimed /\ BodySent
  BY DEF Claimed, BodySent, Tasks
<1>4. OneEventPerSequence /\ SequenceFollowsProgress /\ RetriesWithinPolicy
  BY DEF OneEventPerSequence, SequenceFollowsProgress, RetriesWithinPolicy
<1>5. AcknowledgedWasAccepted
  BY DEF AcknowledgedWasAccepted
<1> QED BY <1>1, <1>2, <1>3, <1>4, <1>5 DEF IInv

\* The invariants about what was sent depend on nothing else.
LEMMA SentUnchanged ==
  ASSUME IInv, sent' = sent
  PROVE  OneEventPerSequence' /\ SequenceFollowsProgress' /\ RetriesWithinPolicy'
BY DEF IInv, OneEventPerSequence, SequenceFollowsProgress, RetriesWithinPolicy

\* How one attempt of task t can end: it sleeps before the next one, or its
\* notify returns.
Outcome(t) ==
  \/ /\ at' = [at EXCEPT ![t] = "sleeping"]
     /\ MayRetry(body[t])
     /\ UNCHANGED <<delivered, settled>>
  \/ /\ t = "heartbeat"
     /\ at' = [at EXCEPT ![t] = "waiting"]
     /\ UNCHANGED delivered
  \/ /\ t = "worker"
     /\ at' = [at EXCEPT ![t] = "concluded"]
     /\ delivered' = "unacknowledged" \/ (answer[t] = "ok" /\ delivered' = "acknowledged")

\* Whatever an attempt came to, its task sleeps, waits or is done.
LEMMA OutcomeStep ==
  ASSUME IInv, NEW t \in Tasks, at[t] = "sending", Outcome(t),
         UNCHANGED <<cancelled, phase, ended, sequence, body, wire, sent, accepted>>,
         answer' = [answer EXCEPT ![t] = "none"],
         settled' \subseteq settled \cup {body[t].sequence}
  PROVE  IInv'
<1> USE DEF Outcome
<1>1. body[t] \in sent /\ body[t].sequence \notin settled /\ body[t] \in Message
  BY DEF IInv, BodySent, TypeOK
<1>2. /\ \A u \in Tasks : u # t => at'[u] = at[u] /\ answer'[u] = answer[u]
      /\ at'[t] \in {"sleeping", "waiting", "concluded"}
      /\ at'[t] = "waiting" => t = "heartbeat"
      /\ at'[t] = "concluded" => t = "worker"
      /\ at'[t] = "sleeping" => MayRetry(body[t]) /\ settled' = settled
  BY DEF IInv, TypeOK
<1>3. TypeOK'
  <2>1. at' \in [Tasks -> {"waiting", "executing", "aborting", "sending", "sleeping",
                           "ended", "concluded"}]
    BY DEF IInv, TypeOK
  <2>2. answer' \in [Tasks -> {"none", "ok", "retryable", "rejected"}]
    BY DEF IInv, TypeOK
  <2>3. settled' \subseteq 0..MaxSequence
    BY <1>1 DEF IInv, TypeOK, Message
  <2>4. delivered' \in {"open", "acknowledged", "unacknowledged"}
    BY DEF IInv, TypeOK
  <2> QED BY <2>1, <2>2, <2>3, <2>4 DEF IInv, TypeOK
<1>4. TasksInStep'
  BY <1>2 DEF IInv, TasksInStep, Tasks
<1>5. Claimed'
  BY <1>1 DEF IInv, Claimed
<1>6. BodySent'
  <2> SUFFICES ASSUME NEW u \in Tasks, at'[u] \in {"sending", "sleeping"}
               PROVE  /\ body[u] \in sent
                      /\ body[u].sequence \notin settled'
                      /\ at'[u] = "sleeping" => MayRetry(body[u])
                      /\ at'[u] = "sending" /\ answer'[u] = "ok" => body[u] \in accepted
    BY DEF BodySent, MayRetry
  <2>1. CASE u = t
    BY <2>1, <1>1, <1>2
  <2>2. CASE u # t
    <3>1. {t, u} = {"heartbeat", "worker"}
      BY <2>2 DEF Tasks
    <3>2. at["worker"] = "executing" \/ at["heartbeat"] = "ended"
      BY DEF IInv, TasksInStep
    <3> QED BY <2>2, <3>1, <3>2, <1>2
  <2> QED BY <2>1, <2>2
<1>7. AcknowledgedWasAccepted'
  <2>1. CASE delivered' = delivered
    BY <2>1 DEF IInv, AcknowledgedWasAccepted
  <2>2. CASE t = "worker" /\ answer[t] = "ok"
    BY <2>2, <1>1 DEF IInv, BodySent, TasksInStep, AcknowledgedWasAccepted
  <2>3. CASE delivered' = "unacknowledged"
    BY <2>3 DEF AcknowledgedWasAccepted
  <2> QED BY <2>1, <2>2, <2>3
<1> QED BY <1>3, <1>4, <1>5, <1>6, <1>7, SentUnchanged DEF IInv

\* A notify that returns is such an outcome.
LEMMA ReturnOutcome ==
  ASSUME NEW t \in Tasks, NEW result \in {"acknowledged", "unacknowledged"},
         Return(t, result), result = "acknowledged" => answer[t] = "ok"
  PROVE  Outcome(t)
<1>1. CASE t = "worker"
  <2>1. at' = [at EXCEPT ![t] = "concluded"] /\ delivered' = result
    BY <1>1 DEF Return
  <2>2. delivered' = "unacknowledged" \/ (answer[t] = "ok" /\ delivered' = "acknowledged")
    BY <2>1
  <2> QED BY <1>1, <2>1, <2>2 DEF Outcome
<1>2. CASE t = "heartbeat"
  <2>1. at' = [at EXCEPT ![t] = "waiting"] /\ delivered' = delivered
    BY <1>2 DEF Return
  <2> QED BY <1>2, <2>1 DEF Outcome
<1> QED BY <1>1, <1>2 DEF Tasks

\* An attempt that failed is one, with or without another to follow.
LEMMA RetryOutcome ==
  ASSUME NEW t \in Tasks, RetryOrReturn(t), settled' = settled
  PROVE  Outcome(t)
<1>1. CASE MayRetry(body[t])
  BY <1>1 DEF RetryOrReturn, Outcome
<1>2. CASE ~MayRetry(body[t])
  <2>1. Return(t, "unacknowledged")
    BY <1>2 DEF RetryOrReturn, Failed
  <2> QED BY <2>1, ReturnOutcome
<1> QED BY <1>1, <1>2

\* The answer was read in time.
LEMMA ReadAnswerStep ==
  ASSUME IInv, NEW t \in Tasks, ReadAnswer(t)
  PROVE  IInv'
<1> USE DEF ReadAnswer, jobVars
<1>1. CASE answer[t] = "ok" /\ Return(t, "acknowledged")
  <2>1. Outcome(t)
    BY <1>1, ReturnOutcome
  <2> QED BY <2>1, OutcomeStep
<1>2. CASE answer[t] \in Retryable /\ RetryOrReturn(t)
  <2>1. settled' = settled
    BY <1>2 DEF Retryable
  <2>2. Outcome(t)
    BY <1>2, <2>1, RetryOutcome
  <2> QED BY <2>2, OutcomeStep
<1>3. CASE Return(t, Failed)
  <2>1. Outcome(t)
    BY <1>3, ReturnOutcome DEF Failed
  <2> QED BY <2>1, OutcomeStep
<1> QED BY <1>1, <1>2, <1>3

\* No answer was read in time.
LEMMA TimesOutStep ==
  ASSUME IInv, NEW t \in Tasks, TimesOut(t)
  PROVE  IInv'
<1> USE DEF TimesOut, jobVars
<1>1. Outcome(t)
  BY RetryOutcome
<1> QED BY <1>1, OutcomeStep

\* The next attempt repeats an event that was sent before.
LEMMA WakeStep ==
  ASSUME IInv, NEW t \in Tasks, Wake(t)
  PROVE  IInv'
<1> USE DEF Wake, Send, jobVars, logVars
<1> DEFINE old == body[t]
           new == Again(body[t])
<1>1. /\ old \in sent
      /\ old \in Message
      /\ old.sequence \notin settled
      /\ MayRetry(old)
  BY DEF IInv, BodySent, TypeOK
<1>2. /\ new \in Message
      /\ new.sequence = old.sequence
      /\ new.state = old.state
      /\ new.terminal = old.terminal
      /\ new.try <= Attempts(new.terminal)
  <2>1. /\ new.sequence = old.sequence
        /\ new.state = old.state
        /\ new.terminal = old.terminal
        /\ new.try = old.try + 1
    BY <1>1 DEF Again, Message
  <2>2. new.try <= Attempts(new.terminal) /\ new.try \in 1..10
    BY <1>1, <2>1, AttemptsType DEF MayRetry, Message
  <2> QED BY <1>1, <2>1, <2>2 DEF Again, Message
<1> HIDE DEF new
<1>3. /\ sent' = sent \cup {new}
      /\ body' = [body EXCEPT ![t] = new]
  BY DEF new
<1>4. TypeOK'
  <2>1. at' \in [Tasks -> {"waiting", "executing", "aborting", "sending", "sleeping",
                           "ended", "concluded"}]
    BY DEF IInv, TypeOK
  <2>2. body' \in [Tasks -> Message \cup {NoMessage}]
    BY <1>2, <1>3 DEF IInv, TypeOK
  <2>3. answer' \in [Tasks -> {"none", "ok", "retryable", "rejected"}]
    BY DEF IInv, TypeOK
  <2>4. sent' \subseteq Message /\ wire' \subseteq sent' /\ accepted' \subseteq sent'
    BY <1>2, <1>3 DEF IInv, TypeOK, new
  <2> QED BY <2>1, <2>2, <2>3, <2>4 DEF IInv, TypeOK
<1>5. TasksInStep'
  BY <1>1, <1>2, <1>3 DEF IInv, TypeOK, TasksInStep, Tasks
<1>6. Claimed'
  BY <1>1, <1>2, <1>3 DEF IInv, Claimed
<1>7. BodySent'
  BY <1>1, <1>2, <1>3 DEF IInv, TypeOK, BodySent, MayRetry
<1>8. OneEventPerSequence' /\ SequenceFollowsProgress' /\ RetriesWithinPolicy'
  BY <1>1, <1>2, <1>3
     DEF IInv, OneEventPerSequence, SequenceFollowsProgress, RetriesWithinPolicy
<1>9. AcknowledgedWasAccepted'
  BY DEF IInv, AcknowledgedWasAccepted
<1> QED BY <1>4, <1>5, <1>6, <1>7, <1>8, <1>9 DEF IInv

\* A new event: its number was never used, its state is the present one.
LEMMA TickStep ==
  ASSUME IInv, Tick
  PROVE  IInv'
<1> USE DEF Tick, Notify, ClaimSequence, Send, jobVars, logVars
<1> DEFINE new == [sequence |-> sequence, try |-> 1, state |-> phase, terminal |-> FALSE]
<1>1. at["worker"] = "executing" /\ phase \in Running /\ sequence \in 0..MaxSequence
  BY DEF IInv, TasksInStep, TypeOK
<1>2. new \in Message
  BY <1>1 DEF Message
<1>3. new.sequence = sequence /\ new.state = phase /\ ~new.terminal /\ new.try = 1
  OBVIOUS
<1>4. sent' = sent \cup {new} /\ body' = [body EXCEPT !["heartbeat"] = new]
  OBVIOUS
<1> HIDE DEF new
<1>5. TypeOK'
  <2>1. at' \in [Tasks -> {"waiting", "executing", "aborting", "sending", "sleeping",
                           "ended", "concluded"}]
    BY DEF IInv, TypeOK
  <2>2. body' \in [Tasks -> Message \cup {NoMessage}]
    BY <1>2, <1>4 DEF IInv, TypeOK
  <2>3. answer' \in [Tasks -> {"none", "ok", "retryable", "rejected"}]
    BY DEF IInv, TypeOK
  <2>4. sent' \subseteq Message /\ wire' \subseteq sent' /\ accepted' \subseteq sent'
    BY <1>2, <1>4 DEF IInv, TypeOK, new
  <2>5. sequence' \in 0..MaxSequence
    BY <1>1, MaxSequenceAssumption
  <2> QED BY <2>1, <2>2, <2>3, <2>4, <2>5 DEF IInv, TypeOK
<1>6. TasksInStep'
  <2>1. at'["worker"] = "executing" /\ at'["heartbeat"] = "sending"
    BY <1>1 DEF IInv, TypeOK, Tasks
  <2>2. sequence' < MaxSequence
    OBVIOUS
  <2>3. \A m \in sent' : m.state \in Running /\ Rank[m.state] <= Rank[phase]
    BY <1>1, <1>3, <1>4 DEF IInv, TasksInStep, Rank, Running
  <2> QED BY <1>1, <2>1, <2>2, <2>3 DEF TasksInStep
<1>7. Claimed'
  BY <1>1, <1>3, <1>4 DEF IInv, Claimed, TypeOK, Message
<1>8. BodySent'
  <2>1. sequence \notin settled
    BY <1>1 DEF IInv, Claimed
  <2>2. body'["heartbeat"] = new /\ new \in sent' /\ answer'["heartbeat"] = "none" /\ at'["heartbeat"] = "sending"
    BY <1>4 DEF IInv, TypeOK, Tasks
  <2>3. at'["worker"] \notin {"sending", "sleeping"}
    BY <1>1 DEF IInv, TypeOK, Tasks
  <2> QED BY <2>1, <2>2, <2>3, <1>3 DEF BodySent, Tasks
<1>9. OneEventPerSequence' /\ SequenceFollowsProgress'
  <2>1. \A m \in sent : /\ m.sequence < sequence /\ m.sequence \in 0..MaxSequence
                        /\ Rank[m.state] <= Rank[phase] /\ m.state \in Running
    BY <1>1 DEF IInv, Claimed, TasksInStep, TypeOK, Message
  <2>2. \A m \in sent : ~m.terminal
    BY <2>1 DEF IInv, SequenceFollowsProgress, Running, Terminal
  <2>3. phase \notin Terminal
    BY <1>1 DEF Running, Terminal
  <2>4. OneEventPerSequence'
    BY <1>1, <1>3, <1>4, <2>1 DEF IInv, OneEventPerSequence
  <2>5. SequenceFollowsProgress'
    BY <1>1, <1>3, <1>4, <2>1, <2>2, <2>3 DEF IInv, SequenceFollowsProgress
  <2> QED BY <2>4, <2>5
<1>10. RetriesWithinPolicy'
  BY <1>3, <1>4, AttemptsType DEF IInv, RetriesWithinPolicy
<1>11. AcknowledgedWasAccepted'
  BY DEF IInv, AcknowledgedWasAccepted
<1> QED BY <1>5, <1>6, <1>7, <1>8, <1>9, <1>10, <1>11 DEF IInv

\* The execution is over and its heartbeat silenced; nothing is sent yet.
LEMMA EndsStep ==
  ASSUME IInv, NEW end \in Terminal, Ends(end)
  PROVE  IInv'
<1> USE DEF Ends, AbortHeartbeat, logVars
<1>1. at'["worker"] = "aborting" /\ at'["heartbeat"] = "ended"
  BY DEF IInv, TypeOK, Tasks
<1>2. TypeOK'
  BY DEF IInv, TypeOK
<1>3. TasksInStep'
  BY <1>1 DEF IInv, TasksInStep
<1>4. BodySent'
  BY <1>1 DEF BodySent, Tasks
<1>5. Claimed' /\ AcknowledgedWasAccepted'
  BY DEF IInv, Claimed, AcknowledgedWasAccepted
<1> QED BY <1>2, <1>3, <1>4, <1>5, SentUnchanged DEF IInv

\* The end is told: one more event, and the last one.
LEMMA FinishStep ==
  ASSUME IInv, Finish
  PROVE  IInv'
<1> USE DEF Finish, Notify, ClaimSequence, Send, Reported, logVars
<1> DEFINE end == ended
           new == [sequence |-> sequence, try |-> 1, state |-> end, terminal |-> TRUE]
<1>1. /\ phase \in Running /\ sequence \in 0..MaxSequence /\ sequence < MaxSequence
      /\ end \in Terminal
  BY DEF IInv, TasksInStep, TypeOK
<1>2. new \in Message
  BY <1>1 DEF Message
<1>3. new.sequence = sequence /\ new.state = end /\ new.terminal /\ new.try = 1
  OBVIOUS
<1>4. sent' = sent \cup {new} /\ body' = [body EXCEPT !["worker"] = new]
  OBVIOUS
<1> HIDE DEF new
<1>5. at'["worker"] = "sending" /\ at'["heartbeat"] = "ended"
  BY DEF IInv, TypeOK, TasksInStep, Tasks
<1>6. TypeOK'
  <2>1. at' \in [Tasks -> {"waiting", "executing", "aborting", "sending", "sleeping",
                           "ended", "concluded"}]
    BY DEF IInv, TypeOK
  <2>2. body' \in [Tasks -> Message \cup {NoMessage}]
    BY <1>2, <1>4 DEF IInv, TypeOK
  <2>3. answer' \in [Tasks -> {"none", "ok", "retryable", "rejected"}]
    BY DEF IInv, TypeOK
  <2>4. sent' \subseteq Message /\ wire' \subseteq sent' /\ accepted' \subseteq sent'
    BY <1>2, <1>4 DEF IInv, TypeOK, new
  <2>5. sequence' \in 0..MaxSequence
    BY <1>1, MaxSequenceAssumption
  <2>6. phase' \in Running \cup Terminal
    BY <1>1
  <2> HIDE DEF end
  <2> QED BY <2>1, <2>2, <2>3, <2>4, <2>5, <2>6 DEF IInv, TypeOK
<1>7. TasksInStep'
  BY <1>1, <1>3, <1>4, <1>5 DEF IInv, TypeOK, TasksInStep, Tasks
<1>8. Claimed'
  BY <1>1, <1>3, <1>4 DEF IInv, Claimed, TypeOK, Message
<1>9. BodySent'
  <2>1. sequence \notin settled
    BY <1>1 DEF IInv, Claimed
  <2>2. body'["worker"] = new /\ new \in sent' /\ answer'["worker"] = "none" /\ at'["worker"] = "sending"
    BY <1>4 DEF IInv, TypeOK, Tasks
  <2>3. at'["heartbeat"] \notin {"sending", "sleeping"}
    BY <1>5 DEF IInv, TypeOK, Tasks
  <2> QED BY <2>1, <2>2, <2>3, <1>3 DEF BodySent, Tasks
<1>10. OneEventPerSequence' /\ SequenceFollowsProgress'
  <2>1. \A m \in sent : /\ m.sequence < sequence /\ m.sequence \in 0..MaxSequence
                        /\ m.state \in Running /\ Rank[m.state] <= 4
    BY DEF IInv, Claimed, TasksInStep, TypeOK, Message, Rank, Running
  <2>2. \A m \in sent : ~m.terminal
    BY <2>1 DEF IInv, SequenceFollowsProgress, Running, Terminal
  <2>3. Rank[end] = 5 /\ \A m \in sent : Rank[m.state] \in Nat
    BY <1>1, <2>1 DEF Rank, Terminal, Running
  <2>4. OneEventPerSequence'
    BY <1>1, <1>3, <1>4, <2>1 DEF IInv, OneEventPerSequence
  <2>5. SequenceFollowsProgress'
    BY <1>1, <1>3, <1>4, <2>1, <2>2, <2>3 DEF IInv, SequenceFollowsProgress
  <2> QED BY <2>4, <2>5
<1>11. RetriesWithinPolicy'
  BY <1>3, <1>4, AttemptsType DEF IInv, RetriesWithinPolicy
<1>12. AcknowledgedWasAccepted'
  BY DEF IInv, AcknowledgedWasAccepted
<1> QED BY <1>6, <1>7, <1>8, <1>9, <1>10, <1>11, <1>12 DEF IInv

\* Steps that send nothing and read nothing.
LEMMA AdvanceStep ==
  ASSUME IInv, Advance
  PROVE  IInv'
<1> USE DEF Advance, logVars
<1>1. PICK next \in Running : Rank[next] = Rank[phase] + 1 /\ phase' = next
  OBVIOUS
<1>2. TypeOK' /\ Claimed' /\ BodySent' /\ AcknowledgedWasAccepted'
  BY <1>1 DEF IInv, TypeOK, Claimed, BodySent, MayRetry, AcknowledgedWasAccepted
<1>3. TasksInStep'
  <2>1. \A m \in sent : Rank[m.state] \in Nat /\ Rank[phase] \in Nat
    BY DEF IInv, TasksInStep, Rank, Running
  <2> QED BY <1>1, <2>1 DEF IInv, TasksInStep
<1> QED BY <1>2, <1>3, SentUnchanged DEF IInv

\* The heartbeat leaves between two notifications.
LEMMA HeartbeatStopsStep ==
  ASSUME IInv, HeartbeatStops
  PROVE  IInv'
<1> USE DEF HeartbeatStops, jobVars, logVars
<1>1. TypeOK'
  BY DEF IInv, TypeOK
<1>2. TasksInStep' /\ BodySent'
  BY DEF IInv, TypeOK, TasksInStep, BodySent, MayRetry, Tasks
<1>3. Claimed' /\ AcknowledgedWasAccepted'
  BY DEF IInv, Claimed, AcknowledgedWasAccepted
<1> QED BY <1>1, <1>2, <1>3, SentUnchanged DEF IInv

\* The signal.
LEMMA CancelStep ==
  ASSUME IInv, Cancel \/ Concluded \/ UNCHANGED vars
  PROVE  IInv'
<1> USE DEF Cancel, Concluded, vars, logVars
<1>1. TypeOK' /\ TasksInStep' /\ BodySent'
  BY DEF IInv, TypeOK, TasksInStep, BodySent, MayRetry
<1>2. Claimed' /\ AcknowledgedWasAccepted'
  BY DEF IInv, Claimed, AcknowledgedWasAccepted
<1> QED BY <1>1, <1>2, SentUnchanged DEF IInv

\* Whatever the caller answers to whatever request, early or late.
LEMMA ArriveStep ==
  ASSUME IInv, NEW m \in wire, NEW status \in {"ok", "retryable", "rejected"}, Arrive(m, status)
  PROVE  IInv'
<1> USE DEF Arrive, jobVars
<1>1. TypeOK'
  <2>1. answer' \in [Tasks -> {"none", "ok", "retryable", "rejected"}]
    BY DEF IInv, TypeOK
  <2>2. wire' \subseteq sent' /\ accepted' \subseteq sent'
    BY DEF IInv, TypeOK
  <2> QED BY <2>1, <2>2 DEF IInv, TypeOK
<1>2. TasksInStep' /\ Claimed'
  BY DEF IInv, TasksInStep, Claimed
<1>3. BodySent'
  <2>1. \A t \in Tasks : at[t] = "sending" /\ answer'[t] = "ok" =>
          answer[t] = "ok" \/ (body[t] = m /\ status = "ok")
    OBVIOUS
  <2>2. accepted \subseteq accepted' /\ (status = "ok" => m \in accepted')
    OBVIOUS
  <2> QED BY <2>1, <2>2 DEF IInv, BodySent, MayRetry
<1>4. AcknowledgedWasAccepted'
  BY DEF IInv, AcknowledgedWasAccepted
<1> QED BY <1>1, <1>2, <1>3, <1>4, SentUnchanged DEF IInv

\* The inductive invariant holds in every reachable state.
THEOREM InductiveInvariant == Spec => []IInv
<1>1. Init => IInv
  BY InitEstablishes
<1>2. IInv /\ [Next]_vars => IInv'
  BY ReadAnswerStep, TimesOutStep, WakeStep, TickStep, HeartbeatStopsStep, AdvanceStep,
     EndsStep, FinishStep, CancelStep, ArriveStep DEF Next
<1> QED BY <1>1, <1>2, PTL DEF Spec

-----------------------------------------------------------------------------
(* The invariants and action properties the runs check.                    *)

\* Every variable of the callback keeps its type, whatever the retry policy.
THEOREM TypeCorrect == Spec => []TypeOK
<1>1. IInv => TypeOK
  BY DEF IInv
<1> QED BY <1>1, InductiveInvariant, PTL

\* Retries repeat the event of their sequence number.
THEOREM RepeatsAreIdentical == Spec => []OneEventPerSequence
<1>1. IInv => OneEventPerSequence
  BY DEF IInv
<1> QED BY <1>1, InductiveInvariant, PTL

\* A caller can order the events of a job by their sequence numbers.
THEOREM SequenceOrdersEvents == Spec => []SequenceFollowsProgress
<1>1. IInv => SequenceFollowsProgress
  BY DEF IInv
<1> QED BY <1>1, InductiveInvariant, PTL

\* The number of attempts stays within the policy of the callback.
THEOREM RetriesBounded == Spec => []RetriesWithinPolicy
<1>1. IInv => RetriesWithinPolicy
  BY DEF IInv
<1> QED BY <1>1, InductiveInvariant, PTL

\* An acknowledged end was accepted by the caller.
THEOREM AcknowledgementIsTrue == Spec => []AcknowledgedWasAccepted
<1>1. IInv => AcknowledgedWasAccepted
  BY DEF IInv
<1> QED BY <1>1, InductiveInvariant, PTL

\* Only three steps send: a tick, the end and a wake-up.
LEMMA SendingSteps ==
  ASSUME Next, sent' # sent
  PROVE  Tick \/ Finish \/ (\E t \in Tasks : Wake(t))
BY DEF Next, Ends, ReadAnswer, TimesOut, HeartbeatStops, Advance, Cancel, Arrive, Concluded, vars

\* Before the worker tells the end nothing terminal was sent.
LEMMA NoEarlyEnd ==
  ASSUME IInv, at["worker"] \in Untold, NEW m \in sent
  PROVE  ~m.terminal
BY DEF IInv, TasksInStep, SequenceFollowsProgress, Running, Terminal

\* No heartbeat is sent behind the terminal event.
THEOREM TerminalIsLast == Spec => NothingSentAfterTerminal
<1> DEFINE P == \A m \in sent, n \in sent' \ sent : m.terminal => n.terminal
<1>1. IInv /\ [Next]_vars => [P]_vars
  <2> SUFFICES ASSUME IInv, Next, NEW m \in sent, NEW n \in sent' \ sent, m.terminal
               PROVE  n.terminal
    OBVIOUS
  <2>1. CASE Tick
    BY <2>1, NoEarlyEnd DEF Tick, IInv, TasksInStep
  <2>2. CASE Finish
    BY <2>2, NoEarlyEnd DEF Finish
  <2>3. ASSUME NEW t \in Tasks, Wake(t) PROVE n.terminal
    <3>1. n = Again(body[t])
      BY <2>3 DEF Wake, Send
    <3>2. body[t] \in Message
      BY <2>3 DEF Wake, IInv, BodySent, TypeOK
    <3>3. n.terminal = body[t].terminal
      BY <3>1, <3>2 DEF Again, Message
    <3>4. at["worker"] \notin Untold
      BY NoEarlyEnd
    <3>5. t = "worker"
      BY <2>3, <3>4 DEF Wake, IInv, TasksInStep, Tasks
    <3> QED BY <3>3, <3>4, <3>5 DEF IInv, TasksInStep
  <2> QED BY <2>1, <2>2, <2>3, SendingSteps
<1> QED BY <1>1, InductiveInvariant, PTL DEF Spec, NothingSentAfterTerminal

\* Nothing is repeated after an acknowledgement or a final refusal.
THEOREM SettledStaysQuiet == Spec => SettledIsFinal
<1> DEFINE P == \A m \in sent' \ sent : m.sequence \notin settled
<1>1. IInv /\ [Next]_vars => [P]_vars
  <2> SUFFICES ASSUME IInv, Next, NEW m \in sent' \ sent PROVE m.sequence \notin settled
    OBVIOUS
  <2>1. CASE Tick \/ Finish
    <3>1. m.sequence = sequence
      BY <2>1 DEF Tick, Finish, Notify, Send
    <3>2. sequence \notin settled
      BY DEF IInv, Claimed, TypeOK
    <3> QED BY <3>1, <3>2
  <2>2. ASSUME NEW t \in Tasks, Wake(t) PROVE m.sequence \notin settled
    <3>1. m = Again(body[t]) /\ body[t] \in Message /\ body[t].sequence \notin settled
      BY <2>2 DEF Wake, Send, IInv, BodySent, TypeOK
    <3>2. m.sequence = body[t].sequence
      BY <3>1 DEF Again, Message
    <3> QED BY <3>1, <3>2
  <2> QED BY <2>1, <2>2, SendingSteps
<1> QED BY <1>1, InductiveInvariant, PTL DEF Spec, SettledIsFinal
=============================================================================
