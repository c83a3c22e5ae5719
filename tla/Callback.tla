------------------------------ MODULE Callback ------------------------------
(***************************************************************************)
(* The callbacks of one accepted job: notify, heartbeat and the end of     *)
(* worker in src/agent/src/engine.rs.  Two tasks notify, the heartbeat     *)
(* while the job is in flight and the worker once at its end; they share   *)
(* the counter active.sequence and the phase in active.progress.           *)
(*                                                                         *)
(* The network between agent and caller is external: a request may arrive  *)
(* late or never, be answered with any status, and its answer may be lost. *)
(* A request that stays in wire and an answer that is never read are lost. *)
(***************************************************************************)
EXTENDS Naturals, FiniteSets

CONSTANTS MaxAttempts, \* callback.retry.max_attempts, or NoPolicy
          NoPolicy,    \* the job gives no retry policy for its callback
          MaxSequence  \* bound on the number of events of the job

ASSUME MaxAttemptsAssumption == MaxAttempts = NoPolicy \/ MaxAttempts \in 1..10
ASSUME MaxSequenceAssumption == MaxSequence \in Nat \ {0}

VARIABLES cancelled, \* state.cancel
          phase,     \* progress.phase
          ended,     \* how the execution ended; "none" before
          sequence,  \* active.sequence
          at,        \* where each notifying task is
          body,      \* the request each task sent last
          answer,    \* the answer each task has not read yet
          wire,      \* requests on their way
          sent,      \* every request ever sent
          accepted,  \* requests the caller answered with 2xx
          settled,   \* sequence numbers whose answer ended their notify
          delivered  \* what the terminal notify returned

vars == <<cancelled, phase, ended, sequence, at, body, answer,
          wire, sent, accepted, settled, delivered>>
jobVars == <<cancelled, phase, ended>>
logVars == <<accepted, settled, delivered>>

Tasks == {"heartbeat", "worker"}
Running == {"queued", "downloading", "encoding", "uploading"}
Terminal == {"succeeded", "failed"}
Rank == [queued |-> 1, downloading |-> 2, encoding |-> 3, uploading |-> 4,
         succeeded |-> 5, failed |-> 5]

Message == [sequence : 0..MaxSequence, try : 1..10,
            state : Running \cup Terminal, terminal : BOOLEAN]
NoMessage == [sequence |-> 0, try |-> 0, state |-> "queued", terminal |-> FALSE]

TypeOK ==
  /\ cancelled \in BOOLEAN
  /\ phase \in Running \cup Terminal
  /\ ended \in {"none"} \cup Terminal
  /\ sequence \in 0..MaxSequence
  /\ at \in [Tasks -> {"waiting", "executing", "aborting", "sending", "sleeping",
                       "ended", "concluded"}]
  /\ body \in [Tasks -> Message \cup {NoMessage}]
  /\ answer \in [Tasks -> {"none", "ok", "retryable", "rejected"}]
  /\ sent \subseteq Message
  /\ wire \subseteq sent
  /\ accepted \subseteq sent
  /\ settled \subseteq 0..MaxSequence
  /\ delivered \in {"open", "acknowledged", "unacknowledged"}

Init ==
  /\ cancelled = FALSE
  /\ phase = "queued"
  /\ ended = "none"
  /\ sequence = 0
  /\ at = [t \in Tasks |-> IF t = "worker" THEN "executing" ELSE "waiting"]
  /\ body = [t \in Tasks |-> NoMessage]
  /\ answer = [t \in Tasks |-> "none"]
  /\ wire = {} /\ sent = {} /\ accepted = {} /\ settled = {}
  /\ delivered = "open"

-----------------------------------------------------------------------------
(* Faulty variants, exchanged for the definitions below to show that a     *)
(* property notices.                                                       *)

CurrentState(m) == [m EXCEPT !.state = phase, !.try = @ + 1]
ReportOldPhase(end) == phase
LeaveHeartbeat == at
NeverTimesOut(t) == FALSE
HopeForTheBest == "acknowledged"
RetryRejected == {"rejected", "retryable"}

-----------------------------------------------------------------------------
(* notify.                                                                 *)

Attempts(terminal) == IF MaxAttempts # NoPolicy THEN MaxAttempts
                      ELSE IF terminal THEN 3 ELSE 1

MayRetry(m) == m.try < Attempts(m.terminal)

\* retry_status: 5xx, 408 and 429; a failed or timed out request likewise.
Retryable == {"retryable"}

ClaimSequence == sequence' = sequence + 1

Send(t, m) ==
  /\ sent' = sent \cup {m}
  /\ wire' = wire \cup {m}
  /\ body' = [body EXCEPT ![t] = m]
  /\ answer' = [answer EXCEPT ![t] = "none"]

\* One fetch_add for all attempts; the body is built once.
Notify(t, state, terminal) ==
  /\ ClaimSequence
  /\ Send(t, [sequence |-> sequence, try |-> 1, state |-> state, terminal |-> terminal])

\* The next attempt sends the body again.
Again(m) == [m EXCEPT !.try = @ + 1]

\* A terminal notify that failed is only logged.
Failed == "unacknowledged"

\* notify returned: the heartbeat waits for its next tick, the worker drops
\* the job.
Return(t, result) ==
  /\ at' = [at EXCEPT ![t] = IF t = "worker" THEN "concluded" ELSE "waiting"]
  /\ delivered' = IF t = "worker" THEN result ELSE delivered

RetryOrReturn(t) ==
  \/ /\ MayRetry(body[t])
     /\ at' = [at EXCEPT ![t] = "sleeping"]
     /\ UNCHANGED delivered
  \/ /\ ~MayRetry(body[t])
     /\ Return(t, Failed)

\* A status arrived in time.
ReadAnswer(t) ==
  /\ at[t] = "sending"
  /\ answer[t] # "none"
  /\ \/ answer[t] = "ok" /\ Return(t, "acknowledged")
     \/ answer[t] \in Retryable /\ RetryOrReturn(t)
     \/ answer[t] \notin Retryable \cup {"ok"} /\ Return(t, Failed)
  /\ settled' = settled \cup
       (IF answer[t] \in {"ok", "rejected"} THEN {body[t].sequence} ELSE {})
  /\ answer' = [answer EXCEPT ![t] = "none"]
  /\ UNCHANGED <<jobVars, sequence, body, wire, sent, accepted>>

\* CALLBACK_TIMEOUT passed, or the connection failed; the request may still
\* be on its way, or was answered too late.
TimesOut(t) ==
  /\ at[t] = "sending"
  /\ RetryOrReturn(t)
  /\ answer' = [answer EXCEPT ![t] = "none"]
  /\ UNCHANGED <<jobVars, sequence, body, wire, sent, accepted, settled>>

\* The retry delay is over.
Wake(t) ==
  /\ at[t] = "sleeping"
  /\ at' = [at EXCEPT ![t] = "sending"]
  /\ Send(t, Again(body[t]))
  /\ UNCHANGED <<jobVars, sequence, logVars>>

-----------------------------------------------------------------------------
(* The heartbeat task and the worker.                                      *)

\* MaxSequence bounds the heartbeats; one number is left for the end.
Tick ==
  /\ at["heartbeat"] = "waiting"
  /\ sequence + 1 < MaxSequence
  /\ Notify("heartbeat", phase, FALSE)
  /\ at' = [at EXCEPT !["heartbeat"] = "sending"]
  /\ UNCHANGED <<jobVars, logVars>>

\* The select of the heartbeat is not biased: a tick may still win.
HeartbeatStops ==
  /\ cancelled
  /\ at["heartbeat"] = "waiting"
  /\ at' = [at EXCEPT !["heartbeat"] = "ended"]
  /\ UNCHANGED <<jobVars, sequence, body, answer, wire, sent, logVars>>

Advance ==
  /\ at["worker"] = "executing"
  /\ ~cancelled
  /\ \E next \in Running : Rank[next] = Rank[phase] + 1 /\ phase' = next
  /\ UNCHANGED <<cancelled, ended, sequence, at, body, answer, wire, sent, logVars>>

\* abort and await: wherever the heartbeat is, it is not polled again.  What it
\* put on the wire stays there.
AbortHeartbeat == [at EXCEPT !["heartbeat"] = "ended"]

\* The phase is set before the terminal event is built from it.
Reported(end) == end

\* The execution ended; the worker aborts the heartbeat and awaits its end, with
\* the phase as it was: the cancellation may come before it is told.
Ends(end) ==
  /\ at["worker"] = "executing"
  /\ end = "succeeded" => phase = "uploading" /\ ~cancelled
  /\ ended' = end
  /\ at' = [AbortHeartbeat EXCEPT !["worker"] = "aborting"]
  /\ UNCHANGED <<cancelled, phase, sequence, body, answer, wire, sent, logVars>>

\* The heartbeat has ended; the worker sets the terminal phase and starts the
\* terminal notify.
Finish ==
  /\ at["worker"] = "aborting"
  /\ phase' = ended
  /\ at' = [at EXCEPT !["worker"] = "sending"]
  /\ Notify("worker", Reported(ended), TRUE)
  /\ UNCHANGED <<cancelled, ended, logVars>>

Cancel ==
  /\ ~cancelled
  /\ cancelled' = TRUE
  /\ UNCHANGED <<phase, ended, sequence, at, body, answer, wire, sent, logVars>>

-----------------------------------------------------------------------------
(* The caller and the network, external.                                   *)

\* A request arrives, perhaps long after its sender gave it up.
Arrive(m, status) ==
  /\ m \in wire
  /\ wire' = wire \ {m}
  /\ accepted' = IF status = "ok" THEN accepted \cup {m} ELSE accepted
  /\ answer' = [t \in Tasks |->
       IF at[t] = "sending" /\ body[t] = m THEN status ELSE answer[t]]
  /\ UNCHANGED <<jobVars, sequence, at, body, sent, settled, delivered>>

\* Everything is said: not a deadlock.
Concluded == at["worker"] = "concluded" /\ UNCHANGED vars

Next == \/ \E t \in Tasks : ReadAnswer(t) \/ TimesOut(t) \/ Wake(t)
        \/ Tick
        \/ HeartbeatStops
        \/ Advance
        \/ \E end \in Terminal : Ends(end)
        \/ Finish
        \/ Cancel
        \/ \E m \in wire, status \in {"ok", "retryable", "rejected"} : Arrive(m, status)
        \/ Concluded

Spec == Init /\ [][Next]_vars

\* Timers fire; nothing is assumed of the caller or the network.
FairSpec == Spec /\ WF_vars(TimesOut("worker")) /\ WF_vars(Wake("worker"))

-----------------------------------------------------------------------------
(* Properties.                                                             *)

\* Every request with one sequence number is a repetition of the same event,
\* although the counter and the phase are read by two tasks.
OneEventPerSequence ==
  \A m, n \in sent : m.sequence = n.sequence =>
    m.state = n.state /\ m.terminal = n.terminal

\* A caller that orders events by their sequence number sees the job move
\* forward only, and its end last: even if they arrive in any order.
SequenceFollowsProgress ==
  /\ \A m, n \in sent : m.sequence < n.sequence =>
       Rank[m.state] <= Rank[n.state] /\ ~m.terminal
  /\ \A m \in sent : m.terminal <=> m.state \in Terminal

\* Once the terminal event was sent, only it is sent again: a heartbeat, or the
\* retry of one, never starts behind it.  It may still arrive behind it.
NothingSentAfterTerminal ==
  [][\A m \in sent, n \in sent' \ sent : m.terminal => n.terminal]_vars

\* No event is sent more often than the policy of its callback allows.
RetriesWithinPolicy == \A m \in sent : m.try <= Attempts(m.terminal)

\* Nothing is sent again after an answer that ended its notify: neither what
\* was acknowledged nor what was refused for good.
SettledIsFinal ==
  [][\A m \in sent' \ sent : m.sequence \notin settled]_vars

\* The worker believes in a delivery only if the caller accepted the terminal
\* event; the opposite may happen, when the answer is lost.
AcknowledgedWasAccepted ==
  delivered = "acknowledged" => \E m \in accepted : m.terminal

\* The terminal notify ends, whatever the caller and the network do: a worker
\* is never held by a callback.
TerminalNotifyEnds == at["worker"] = "sending" ~> at["worker"] = "concluded"

-----------------------------------------------------------------------------
(* The strengthening that makes the invariants inductive.                  *)

\* Where the worker is while the end is not told yet.
Untold == {"executing", "aborting"}

\* Which task can be where, and what that says of the job.
TasksInStep ==
  /\ at["heartbeat"] \in {"waiting", "sending", "sleeping", "ended"}
  /\ at["worker"] \in Untold \cup {"sending", "sleeping", "concluded"}
  /\ at["worker"] # "executing" => at["heartbeat"] = "ended" /\ ended \in Terminal
  /\ IF at["worker"] \in Untold
     THEN /\ phase \in Running
          /\ sequence < MaxSequence
          /\ \A m \in sent : m.state \in Running /\ Rank[m.state] <= Rank[phase]
     ELSE phase \in Terminal /\ body["worker"].terminal

\* Sequence numbers are claimed before they are used.
Claimed == /\ \A m \in sent : m.sequence < sequence
           /\ \A s \in settled : s < sequence

\* The request of a task that is not done was sent, is not settled, may be
\* repeated once it sleeps, and was accepted if its answer says so.
BodySent ==
  \A t \in Tasks : at[t] \in {"sending", "sleeping"} =>
    /\ body[t] \in sent
    /\ body[t].sequence \notin settled
    /\ at[t] = "sleeping" => MayRetry(body[t])
    /\ at[t] = "sending" /\ answer[t] = "ok" => body[t] \in accepted

IInv == /\ TypeOK
        /\ TasksInStep
        /\ Claimed
        /\ BodySent
        /\ OneEventPerSequence
        /\ SequenceFollowsProgress
        /\ RetriesWithinPolicy
        /\ AcknowledgedWasAccepted
=============================================================================
