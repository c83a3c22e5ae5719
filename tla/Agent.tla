-------------------------------- MODULE Agent --------------------------------
(***************************************************************************)
(* Admission, queue, workers and shutdown of the agent: submit and run of  *)
(* src/agent/src/main.rs, initialize, heartbeat and worker of              *)
(* src/agent/src/engine.rs.                                                *)
(*                                                                         *)
(* The runtime has one thread (flavor = "current_thread"), so code between *)
(* two awaits is one step.  Each action is such a stretch: submit has no   *)
(* await after its body was read; a worker awaits the receiver's lock, the *)
(* channel, the end of the execution, its aborted heartbeat task and the   *)
(* terminal callback.  Everything else of the process may run at each of   *)
(* these awaits, the signal task of run() included.                        *)
(*                                                                         *)
(* An attempt stands for one Accepted value (its Active, its heartbeat     *)
(* task and its permit); its identity is reused once it was dropped.       *)
(***************************************************************************)
EXTENDS Naturals, Sequences, FiniteSets

CONSTANTS Ids,       \* job identifiers
          Attempts,  \* identities of Accepted values
          Workers,   \* worker tasks, config.concurrency of them
          Queue,     \* config.queue, the waiting slots
          Deadline,  \* config.job_timeout is not zero
          None       \* no job, no attempt, no worker

Concurrency == Cardinality(Workers)
Capacity == Concurrency + Queue

ASSUME IdsAssumption == IsFiniteSet(Ids) /\ None \notin Ids
\* Enough identities for the jobs that can be alive at once.
ASSUME AttemptsAssumption == /\ IsFiniteSet(Attempts)
                             /\ None \notin Attempts
                             /\ Cardinality(Attempts) >= Capacity
ASSUME WorkersAssumption == /\ IsFiniteSet(Workers)
                            /\ Workers # {}
                            /\ None \notin Workers
ASSUME QueueAssumption == Queue \in Nat \ {0}
ASSUME DeadlineAssumption == Deadline \in BOOLEAN

VARIABLES cancelled, \* state.cancel
          jobs,      \* state.jobs, the identifiers in flight
          permits,   \* permits left in state.slots
          channel,   \* the attempts in the mpsc channel, oldest first
          phase,     \* progress.phase; "none" when the attempt does not exist
          jobId,     \* active.job.id
          heartbeat, \* the attempts whose heartbeat task may still run
          rx,        \* the worker that holds the lock on the receiver
          pc,        \* where each worker is
          on,        \* the attempt each worker holds
          result,    \* how the execution of its attempt ended, not yet in phase
          main,      \* where run() is
          reply      \* the answer to the latest submission

vars == <<cancelled, jobs, permits, channel, phase, jobId, heartbeat,
          rx, pc, on, result, main, reply>>
admissionVars == <<jobs, permits, channel, jobId>>

Executing == {"downloading", "encoding", "uploading"}
Terminal == {"succeeded", "failed"}
Phases == {"none", "queued"} \cup Executing \cup Terminal
Replies == {"none", "accepted", "unauthorized", "invalid",
            "conflict", "busy", "unavailable"}

\* A worker whose attempt still has the phase of its execution, or any attempt.
ExecutesAt == {"running", "aborting"}
HoldsAt == ExecutesAt \cup {"notifying"}

Live == {a \in Attempts : phase[a] # "none"}
Queued == {channel[k] : k \in DOMAIN channel}

TypeOK ==
  /\ cancelled \in BOOLEAN
  /\ jobs \in SUBSET Ids
  /\ permits \in 0..Capacity
  /\ channel \in Seq(Attempts)
  /\ phase \in [Attempts -> Phases]
  /\ jobId \in [Attempts -> Ids \cup {None}]
  /\ heartbeat \in SUBSET Attempts
  /\ rx \in Workers \cup {None}
  /\ pc \in [Workers -> {"idle", "receiving", "stopped"} \cup HoldsAt]
  /\ on \in [Workers -> Attempts \cup {None}]
  /\ result \in [Workers -> {"none", "ok", "failed"}]
  /\ main \in {"serving", "joining", "exited"}
  /\ reply \in Replies

Init ==
  /\ cancelled = FALSE
  /\ jobs = {}
  /\ permits = Capacity
  /\ channel = <<>>
  /\ phase = [a \in Attempts |-> "none"]
  /\ jobId = [a \in Attempts |-> None]
  /\ heartbeat = {}
  /\ rx = None
  /\ pc = [w \in Workers |-> "idle"]
  /\ on = [w \in Workers |-> None]
  /\ result = [w \in Workers |-> "none"]
  /\ main = "serving"
  /\ reply = "none"

-----------------------------------------------------------------------------
(* Faulty variants of the definitions below.  The specification does not   *)
(* use them; each one is exchanged for its definition to show that a       *)
(* property notices.                                                       *)

ChannelOfWaitingSlots == Queue             \* mpsc::channel(config.queue)
QueuedIdsOnly(id) == id \in {jobId[a] : a \in Queued}
Prepend(a) == channel' = <<a>> \o channel
PeekAfterCancel == channel' = IF cancelled THEN channel ELSE Tail(channel)
\* The guard on the receiver outlives its block, up to the end of the job.
HeldOverExecution == rx = None /\ \A v \in Workers : on[v] = None
StopAtOnce == cancelled
UnbiasedSelect == TRUE
KeepHeartbeat(w) == heartbeat' = heartbeat
LeakOnCancel == permits' = IF cancelled THEN permits ELSE permits + 1

-----------------------------------------------------------------------------
(* Admission.                                                              *)

ChannelBound == Capacity

\* The check that answers 409.
IdInFlight(id) == id \in jobs

Enqueue(a) == channel' = Append(channel, a)

Refuse(answer) ==
  /\ reply' = answer
  /\ UNCHANGED <<admissionVars, cancelled, phase, heartbeat, rx, pc, on, result, main>>

\* A permit was taken, but the channel is full: the heartbeat is aborted, the
\* identifier removed and the permit released with the Accepted value.
SendFails(id) == Len(channel) >= ChannelBound /\ Refuse("unavailable")

Admit(id, a) ==
  /\ Len(channel) < ChannelBound
  /\ phase[a] = "none"
  /\ permits' = permits - 1
  /\ jobs' = jobs \cup {id}
  /\ Enqueue(a)
  /\ phase' = [phase EXCEPT ![a] = "queued"]
  /\ jobId' = [jobId EXCEPT ![a] = id]
  /\ heartbeat' = heartbeat \cup {a}
  /\ reply' = "accepted"
  /\ UNCHANGED <<cancelled, rx, pc, on, result, main>>

\* The checks of submit in their order, behind the authenticating middleware.
Submit(id) ==
  /\ main # "exited"
  /\ \/ Refuse("unauthorized")
     \/ Refuse("invalid")
     \/ cancelled /\ Refuse("unavailable")
     \/ ~cancelled /\ IdInFlight(id) /\ Refuse("conflict")
     \/ ~cancelled /\ ~IdInFlight(id) /\ permits = 0 /\ Refuse("busy")
     \/ /\ ~cancelled
        /\ ~IdInFlight(id)
        /\ permits > 0
        /\ SendFails(id) \/ \E a \in Attempts : Admit(id, a)

-----------------------------------------------------------------------------
(* A worker.                                                               *)

\* recv, or try_recv once cancelled: either takes the oldest attempt.
Dequeue == channel' = Tail(channel)

\* The guard is dropped with the block that takes an attempt.
ReceiverFree == rx = None
ReleaseReceiver == rx' = None

\* recv never returns empty-handed, the state keeps a sender; try_recv does.
NothingLeft == cancelled /\ channel = <<>>

\* The select of worker is biased and looks at the cancellation first.
MayExecute == ~cancelled

\* abort, then await: the one-threaded runtime never polls the task again.
AbortHeartbeat(w) == heartbeat' = heartbeat \ {on[w]}

ForgetId(w) == jobs' = jobs \ {jobId[on[w]]}

ReleasePermit == permits' = permits + 1

LockReceiver(w) ==
  /\ pc[w] = "idle"
  /\ ReceiverFree
  /\ rx' = w
  /\ pc' = [pc EXCEPT ![w] = "receiving"]
  /\ UNCHANGED <<admissionVars, cancelled, phase, heartbeat, on, result, main, reply>>

Take(w) ==
  /\ pc[w] = "receiving"
  /\ channel # <<>>
  /\ on' = [on EXCEPT ![w] = Head(channel)]
  /\ Dequeue
  /\ ReleaseReceiver
  /\ pc' = [pc EXCEPT ![w] = "running"]
  /\ UNCHANGED <<cancelled, jobs, permits, phase, jobId, heartbeat, result,
                 main, reply>>

Stop(w) ==
  /\ pc[w] = "receiving"
  /\ NothingLeft
  /\ ReleaseReceiver
  /\ pc' = [pc EXCEPT ![w] = "stopped"]
  /\ UNCHANGED <<admissionVars, cancelled, phase, heartbeat, on, result, main, reply>>

NextPhase == [queued |-> "downloading", downloading |-> "encoding",
              encoding |-> "uploading"]

\* execute reaches its next phase.
Advance(w) ==
  /\ pc[w] = "running"
  /\ MayExecute
  /\ phase[on[w]] \in DOMAIN NextPhase
  /\ phase' = [phase EXCEPT ![on[w]] = NextPhase[@]]
  /\ UNCHANGED <<admissionVars, cancelled, heartbeat, rx, pc, on, result, main, reply>>

\* The select returned; the heartbeat is aborted and its end awaited, with the
\* phase of the execution still in progress.
Return(w, end) ==
  /\ pc[w] = "running"
  /\ result' = [result EXCEPT ![w] = end]
  /\ AbortHeartbeat(w)
  /\ pc' = [pc EXCEPT ![w] = "aborting"]
  /\ UNCHANGED <<admissionVars, cancelled, phase, rx, on, main, reply>>

Succeed(w) == /\ MayExecute
              /\ pc[w] = "running"
              /\ phase[on[w]] = "uploading"
              /\ Return(w, "ok")

\* execute failed, or the stall watch gave up.
Fail(w) == MayExecute /\ Return(w, "failed")

DeadlineOnlyInPhases(w) == /\ MayExecute
                           /\ Deadline
                           /\ pc[w] = "running"
                           /\ phase[on[w]] \in Executing
                           /\ Return(w, "failed")
Expire(w) == MayExecute /\ Deadline /\ Return(w, "failed")

UploadFinishesFirst(w) == /\ cancelled
                          /\ pc[w] = "running"
                          /\ phase[on[w]] # "uploading"
                          /\ Return(w, "failed")
Interrupt(w) == cancelled /\ Return(w, "failed")

\* The aborted heartbeat has ended: the terminal phase is set by the result, not
\* by what was cancelled since, and the terminal notify begins.
Finish(w) ==
  /\ pc[w] = "aborting"
  /\ phase' = [phase EXCEPT ![on[w]] =
                 IF result[w] = "ok" THEN "succeeded" ELSE "failed"]
  /\ result' = [result EXCEPT ![w] = "none"]
  /\ pc' = [pc EXCEPT ![w] = "notifying"]
  /\ UNCHANGED <<admissionVars, cancelled, heartbeat, rx, on, main, reply>>

\* The terminal notify returned, acknowledged or not; the identifier is removed
\* and the Accepted value dropped, with its permit.
Conclude(w) ==
  /\ pc[w] = "notifying"
  /\ ForgetId(w)
  /\ ReleasePermit
  /\ phase' = [phase EXCEPT ![on[w]] = "none"]
  /\ jobId' = [jobId EXCEPT ![on[w]] = None]
  /\ on' = [on EXCEPT ![w] = None]
  /\ pc' = [pc EXCEPT ![w] = "idle"]
  /\ UNCHANGED <<cancelled, channel, heartbeat, rx, result, main, reply>>

-----------------------------------------------------------------------------
(* Heartbeat tasks, the signal task and run().                             *)

\* run() cancels again after the server returned, whatever made it return.
CancelRest == cancelled' = TRUE

\* Between two notifications the heartbeat task sees the cancellation.
HeartbeatStops(a) ==
  /\ cancelled
  /\ a \in heartbeat
  /\ heartbeat' = heartbeat \ {a}
  /\ UNCHANGED <<admissionVars, cancelled, phase, rx, pc, on, result, main, reply>>

Signal ==
  /\ main = "serving"
  /\ ~cancelled
  /\ cancelled' = TRUE
  /\ UNCHANGED <<admissionVars, phase, heartbeat, rx, pc, on, result, main, reply>>

\* The server stopped, gracefully after the cancellation or with an error.
ServeReturns ==
  /\ main = "serving"
  /\ main' = "joining"
  /\ CancelRest
  /\ UNCHANGED <<admissionVars, phase, heartbeat, rx, pc, on, result, reply>>

Exit ==
  /\ main = "joining"
  /\ \A w \in Workers : pc[w] = "stopped"
  /\ main' = "exited"
  /\ UNCHANGED <<admissionVars, cancelled, phase, heartbeat, rx, pc, on, result, reply>>

\* The process is gone: not a deadlock.
Exited == main = "exited" /\ UNCHANGED vars

WorkerStep(w) == \/ LockReceiver(w) \/ Take(w) \/ Stop(w)
                 \/ Advance(w) \/ Succeed(w) \/ Fail(w) \/ Expire(w)
                 \/ Interrupt(w) \/ Finish(w) \/ Conclude(w)

Next == \/ \E id \in Ids : Submit(id)
        \/ \E w \in Workers : WorkerStep(w)
        \/ \E a \in Attempts : HeartbeatStops(a)
        \/ Signal
        \/ ServeReturns
        \/ Exit
        \/ Exited

Spec == Init /\ [][Next]_vars

\* What the runtime schedules: ready tasks run, an aborted task ends, a callback
\* has a bounded number of attempts with a timeout each.  Nothing makes an
\* execution end by itself, not even a deadline: the behaviours of an agent
\* without one, whose executions may last for ever, are among these.  Nobody
\* has to submit or to signal, and a client may keep the graceful shutdown
\* of the server waiting.
Fairness == /\ \A w \in Workers : /\ WF_vars(LockReceiver(w))
                                  /\ WF_vars(Take(w))
                                  /\ WF_vars(Stop(w))
                                  /\ WF_vars(Interrupt(w))
                                  /\ WF_vars(Finish(w))
                                  /\ WF_vars(Conclude(w))
            /\ WF_vars(Exit)

FairSpec == Spec /\ Fairness

-----------------------------------------------------------------------------
(* Properties.                                                             *)

Held == {on[w] : w \in {v \in Workers : pc[v] \in HoldsAt}}

\* Every accepted job is in exactly one place: once in the channel, or with
\* one worker.  The queue and the workers never lose or run a job twice.
PlacedOnce ==
  /\ Queued \cup Held = Live
  /\ Queued \cap Held = {}
  /\ \A k, l \in DOMAIN channel : channel[k] = channel[l] => k = l
  /\ \A v, w \in Workers : on[v] = on[w] /\ on[v] # None => v = w
  /\ \A w \in Workers : (on[w] # None) <=> (pc[w] \in HoldsAt)

\* The set that answers 409 is exactly the identifiers of the jobs that are
\* queued, running or finishing their callback, each of them for one attempt.
OneAttemptPerId ==
  /\ jobs = {jobId[a] : a \in Live}
  /\ \A a, b \in Live : jobId[a] = jobId[b] => a = b

\* Every slot is free or accounted for by one identifier in flight: no path
\* through submit or worker leaks a permit or an identifier.
SlotAccounting == permits + Cardinality(jobs) = Capacity

\* A granted permit leaves room in the channel: the branch of submit that
\* takes back an admission because try_send failed is never needed.
ChannelHasRoom == permits > 0 => Len(channel) < ChannelBound

\* A heartbeat task may run only for a job that has not finished: a callback
\* with a terminal phase never comes from a heartbeat.
HeartbeatOwned == \A a \in heartbeat : phase[a] \in {"queued"} \cup Executing

\* A worker that left has nothing behind it: after the last worker stopped no
\* job is in the channel, in the set of identifiers or without its slot.
ShutdownLeavesNothing ==
  (\A w \in Workers : pc[w] = "stopped") =>
    channel = <<>> /\ jobs = {} /\ permits = Capacity /\ heartbeat = {}

\* After the cancellation no job starts or advances and no execution ends well:
\* the news of a job is that it failed, then that it is gone.  A success is told
\* only of an execution that had ended well before, while its worker awaited the
\* aborted heartbeat (no task looks at the cancellation between the two).
NothingAdvancesAfterCancel ==
  [][cancelled =>
       /\ \A w \in Workers : result'[w] = "ok" => result[w] = "ok"
       /\ \A a \in Attempts :
            \/ phase'[a] = phase[a]
            \/ phase'[a] \in {"failed", "none"}
            \/ /\ phase'[a] = "succeeded"
               /\ \E w \in Workers : on[w] = a /\ result[w] = "ok"]_vars

\* An identifier can be submitted again only after its attempt was terminal:
\* the caller was told of the end before the agent forgot the job.
ReportedBeforeForgotten ==
  [][\A a \in Attempts : phase'[a] = "none" /\ phase[a] # "none" =>
       phase[a] \in Terminal /\ jobId[a] \notin jobs']_vars

\* Where the timer of the deadline fires (engine.rs:207), every accepted job
\* ends, is reported and frees its slot, with nothing else assumed of executions.
DeadlineFires == \A w \in Workers : WF_vars(Expire(w))
EveryJobConcludes ==
  DeadlineFires => \A a \in Attempts : phase[a] # "none" ~> phase[a] = "none"

\* After the cancellation every worker drains the channel and stops, whatever
\* the running jobs do and without a deadline that fires, and once the
\* server has stopped the process exits.
ShutdownDrains ==
  /\ cancelled ~> \A w \in Workers : pc[w] = "stopped"
  /\ main = "joining" ~> main = "exited"

\* The lock on the receiver never keeps a free worker from the oldest job, even
\* while the other worker executes for ever: nothing has to end that execution,
\* so a guard held over it would leave the job in the channel.
FreeWorkerTakesJob ==
  \A a \in Attempts :
    /\ channel # <<>>
    /\ Head(channel) = a
    /\ \E w \in Workers : pc[w] \in {"idle", "receiving"}
    ~> a \notin Queued

-----------------------------------------------------------------------------
(* The strengthening that makes the invariants inductive.                  *)

\* An attempt has an identifier exactly while it exists.
IdWhileLive == \A a \in Attempts : (jobId[a] # None) <=> (a \in Live)

\* The phase of an attempt says where it is.
PhaseByPlace ==
  /\ \A a \in Queued : phase[a] = "queued"
  /\ \A w \in Workers :
       /\ pc[w] \in ExecutesAt => phase[on[w]] \in {"queued"} \cup Executing
       /\ pc[w] = "notifying" => phase[on[w]] \in Terminal

\* A result waits exactly while the aborted heartbeat is awaited, which is never
\* polled again; an execution ends well only behind its upload, and the phase
\* stays until the end is told.
ResultAwaited ==
  \A w \in Workers :
    /\ (result[w] # "none") <=> (pc[w] = "aborting")
    /\ pc[w] = "aborting" => on[w] \notin heartbeat
    /\ result[w] = "ok" => phase[on[w]] = "uploading"

\* The lock is held by the worker that waits for the channel, by nobody else.
ReceiverLocked == \A w \in Workers : pc[w] = "receiving" <=> rx = w

\* A worker leaves only a channel that is empty and stays so.
StoppedDrained == \A w \in Workers : pc[w] = "stopped" => cancelled /\ channel = <<>>

IInv == /\ TypeOK
        /\ PlacedOnce
        /\ IdWhileLive
        /\ OneAttemptPerId
        /\ SlotAccounting
        /\ HeartbeatOwned
        /\ PhaseByPlace
        /\ ResultAwaited
        /\ ReceiverLocked
        /\ StoppedDrained

-----------------------------------------------------------------------------
(* The agent implements the promise of JobService.                         *)
Promise == INSTANCE JobService WITH
  waiting <- [k \in DOMAIN channel |-> jobId[channel[k]]],
  executing <- {jobId[on[w]] : w \in {v \in Workers : pc[v] \in ExecutesAt}},
  reporting <- {jobId[on[w]] : w \in {v \in Workers : pc[v] = "notifying"}},
  open <- ~cancelled

ImplementsPromise == Promise!Spec
=============================================================================
