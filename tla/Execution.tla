----------------------------- MODULE Execution -----------------------------
(***************************************************************************)
(* The execution of one job: execute, retry_transfer, download, upload and *)
(* stalled in src/agent/src/engine.rs, raced by the worker against the     *)
(* shutdown, the deadline and the stall timer.                             *)
(*                                                                         *)
(* Sizes count units of data.  The servers, FFmpeg and the network are     *)
(* external: they answer anything, at any time or never.  An input whose   *)
(* end is marked only by the end of the connection is not modelled.        *)
(***************************************************************************)
EXTENDS Naturals

CONSTANTS InputAttempts,  \* input.retry.max_attempts, or 1
          OutputAttempts, \* output.retry.max_attempts, or 1
          MaxInput,       \* config.max_input
          MaxOutput,      \* config.max_output
          StallTicks      \* config.stall_timeout in scans of 250 ms

ASSUME AttemptsAssumption == InputAttempts \in 1..10 /\ OutputAttempts \in 1..10
ASSUME LimitsAssumption == MaxInput \in Nat \ {0} /\ MaxOutput \in Nat \ {0}
ASSUME StallAssumption == StallTicks \in Nat \ {0}

VARIABLES step,      \* the await the execution is at
          phase,     \* progress.phase, as execute left it
          attempt,   \* of retry_transfer, from 0
          result,    \* what the worker's select gave
          receipt,   \* outcome.upload_response, by the class of its status
          source,    \* size of the input at its server
          input,     \* size of the input file
          wanted,    \* size of the output without a limit
          output,    \* size of the output file
          ffmpeg,    \* the FFmpeg process
          moved,     \* units the current transfer has moved
          status,    \* class of the status of the last response
          puts,      \* upload requests sent
          stored,    \* size the output's server has stored, 0 for nothing
          age,       \* last_progress.elapsed, in scans
          previous,  \* file sizes at the last scan
          due,       \* 250 ms have passed since the last scan
          quiet      \* scans since anything made progress

vars == <<step, phase, attempt, result, receipt, source, input, wanted, output, ffmpeg,
          moved, status, puts, stored, age, previous, due, quiet>>
sizeVars == <<source, wanted>>
jobVars == <<phase, sizeVars>>
timeVars == <<age, previous, due, quiet>>
uploadVars == <<receipt, status, puts, stored>>

Classes == {"ok", "retryable", "rejected"}
Steps == {"start", "get", "receiving", "sleeping", "encoding", "put", "answered", "over"}

TypeOK ==
  /\ step \in Steps
  /\ phase \in {"queued", "downloading", "encoding", "uploading"}
  /\ attempt \in 0..9
  /\ result \in {"none", "ok", "failed", "stalled", "interrupted"}
  /\ receipt \in Classes \cup {"none"}
  /\ source \in Nat /\ wanted \in Nat
  /\ input \in 0..MaxInput
  /\ output \in 0..MaxOutput
  /\ ffmpeg \in {"none", "running", "gone"}
  /\ moved \in 0..(MaxInput + MaxOutput)
  /\ status \in Classes \cup {"none"}
  /\ puts \in 0..OutputAttempts
  /\ stored \in 0..MaxOutput
  /\ age \in 0..(StallTicks + 1) /\ quiet \in 0..(StallTicks + 1)
  /\ previous \in [{"input", "output"} -> Nat]
  /\ due \in BOOLEAN

\* Sizes around both limits.
Init ==
  /\ step = "start" /\ phase = "queued" /\ attempt = 0 /\ result = "none" /\ receipt = "none"
  /\ source \in 0..(MaxInput + 1)
  /\ wanted \in 0..(MaxOutput + 1)
  /\ input = 0 /\ output = 0 /\ ffmpeg = "none"
  /\ moved = 0 /\ status = "none" /\ puts = 0 /\ stored = 0
  /\ age = 0 /\ quiet = 0 /\ due = FALSE
  /\ previous = [f \in {"input", "output"} |-> 0]

-----------------------------------------------------------------------------
(* Faulty variants, exchanged for the definitions below to show that a     *)
(* property notices.                                                       *)

AppendToPartial == input
TakeFullOutput(size) == size = 0 \/ size > MaxOutput
OneMore(limit) == attempt < limit
RetryEveryStatus == {"retryable", "rejected"}
IgnoreFile(f) == FALSE
RememberNothing == previous
UploadUnannounced(p) == phase' = IF p = "uploading" THEN phase ELSE p

-----------------------------------------------------------------------------
(* How an execution ends and how a transfer is repeated.                   *)

\* touch: the progress clock starts again.
Touch == age' = 0 /\ quiet' = 0 /\ UNCHANGED <<previous, due>>

\* phase, without its touch; heartbeats report it from now on.
SetPhase(p) == phase' = p

\* The future of execute is gone: the child is killed, the directory removed.
End(r) ==
  /\ step' = "over"
  /\ result' = r
  /\ ffmpeg' = IF ffmpeg = "running" THEN "gone" ELSE ffmpeg

Fail == End("failed")

\* The transfers are told apart by whether FFmpeg has run.
Limit == IF ffmpeg = "none" THEN InputAttempts ELSE OutputAttempts
MayRetry(limit) == attempt + 1 < limit

RetryOrFail ==
  \/ MayRetry(Limit) /\ step' = "sleeping" /\ UNCHANGED <<result, ffmpeg>>
  \/ ~MayRetry(Limit) /\ Fail

\* retry_status: 5xx, 408 and 429.
Retryable == {"retryable"}

\* upload opens the output file again and sends it whole.
StartPut == step' = "put" /\ puts' = puts + 1 /\ moved' = 0

\* The delay is over; it counts as nothing that makes progress.
Wake ==
  /\ step = "sleeping"
  /\ attempt' = attempt + 1
  /\ \/ ffmpeg = "none" /\ step' = "get" /\ UNCHANGED <<moved, puts>>
     \/ ffmpeg # "none" /\ StartPut
  /\ UNCHANGED <<result, receipt, jobVars, input, output, ffmpeg, status, stored,
                 timeVars>>

\* send fails, a response breaks off: ("...", true).
NetworkFails ==
  /\ step \in {"get", "receiving", "put", "answered"}
  /\ RetryOrFail
  /\ UNCHANGED <<attempt, jobVars, input, output, moved, uploadVars, timeVars>>

\* A file or a process cannot be created, written, read: ("...", false).
LocalFailure ==
  /\ step \in {"start", "receiving", "encoding", "put"}
  /\ Fail
  /\ UNCHANGED <<attempt, jobVars, input, output, moved, uploadVars, timeVars>>

-----------------------------------------------------------------------------
(* Downloading.                                                            *)

Start ==
  /\ step = "start"
  /\ step' = "get"
  /\ SetPhase("downloading") /\ Touch
  /\ UNCHANGED <<attempt, result, sizeVars, input, output, ffmpeg, moved,
                 uploadVars>>

GetRefused ==
  /\ step = "get"
  /\ \E s \in Classes \ {"ok"} : \/ s \in Retryable /\ RetryOrFail
                                 \/ s \notin Retryable /\ Fail
  /\ UNCHANGED <<attempt, jobVars, input, output, moved, uploadVars, timeVars>>

\* File::create of the retry empties what an earlier attempt left.
Created == 0

\* A 2xx response, with or without a content length to check at once.
GetAnswered ==
  /\ step = "get"
  /\ \/ /\ step' = "receiving"
        /\ input' = Created
        /\ moved' = 0
        /\ UNCHANGED <<result, ffmpeg>>
     \/ source > MaxInput /\ Fail /\ UNCHANGED <<input, moved>>
  /\ UNCHANGED <<attempt, jobVars, output, uploadVars, timeVars>>

Chunk ==
  /\ step = "receiving"
  /\ moved < source
  /\ \/ /\ moved < MaxInput
        /\ moved' = moved + 1
        /\ input' = input + 1
        /\ Touch
        /\ UNCHANGED <<step, result, ffmpeg>>
     \/ /\ moved = MaxInput
        /\ Fail
        /\ UNCHANGED <<moved, input, timeVars>>
  /\ UNCHANGED <<attempt, jobVars, output, uploadVars>>

\* The whole response is written: the phase changes and FFmpeg starts.
Downloaded ==
  /\ step = "receiving"
  /\ moved = source
  /\ step' = "encoding" /\ attempt' = 0
  /\ ffmpeg' = "running"
  /\ SetPhase("encoding") /\ Touch
  /\ UNCHANGED <<result, sizeVars, input, output, moved, uploadVars>>

-----------------------------------------------------------------------------
(* Encoding.                                                               *)

\* FFmpeg writes; only a scan sees it.  -fs ends the output at the limit.
Writes ==
  /\ ffmpeg = "running"
  /\ output < wanted /\ output < MaxOutput
  /\ output' = output + 1
  /\ quiet' = 0
  /\ UNCHANGED <<step, attempt, result, jobVars, input, ffmpeg, moved,
                 uploadVars, age, previous, due>>

\* read_progress: a counter exceeds its maximum.
Reports ==
  /\ step = "encoding"
  /\ Touch
  /\ UNCHANGED <<step, attempt, result, jobVars, input, output, ffmpeg, moved,
                 uploadVars>>

\* -fs may stop an encode with exit code 0.
BadSize(size) == size = 0 \/ size >= MaxOutput

\* Both pipes are read to their end and the exit code is 0.
Exits ==
  /\ step = "encoding"
  /\ output = wanted \/ output = MaxOutput
  /\ \/ /\ ~BadSize(output)
        /\ StartPut
        /\ SetPhase("uploading") /\ Touch
        /\ ffmpeg' = "gone"
        /\ UNCHANGED result
     \/ /\ BadSize(output)
        /\ Fail
        /\ UNCHANGED <<phase, moved, puts, timeVars>>
  /\ UNCHANGED <<attempt, sizeVars, input, output, receipt, status, stored>>

ExitsBadly ==
  /\ step = "encoding"
  /\ Fail
  /\ UNCHANGED <<attempt, jobVars, input, output, moved, uploadVars, timeVars>>

-----------------------------------------------------------------------------
(* Uploading.                                                              *)

\* The stream hands the next chunk to the transport.
Sends ==
  /\ step = "put"
  /\ moved < output
  /\ moved' = moved + 1
  /\ Touch
  /\ UNCHANGED <<step, attempt, result, jobVars, input, output, ffmpeg,
                 receipt, status, puts, stored>>

\* The server has the body; its answer may be late or lost.
Stores ==
  /\ step = "put"
  /\ moved = output
  /\ stored' = moved
  /\ UNCHANGED <<step, attempt, result, jobVars, input, output, ffmpeg,
                 receipt, moved, status, puts, timeVars>>

\* The headers of an answer; one of success comes from a server that has
\* stored the body.  Nothing is reported of it before its end.
AnswerArrives(s) ==
  /\ step = "put"
  /\ s = "ok" => moved = output /\ stored = output
  /\ step' = "answered"
  /\ status' = s
  /\ UNCHANGED <<attempt, result, jobVars, input, output, ffmpeg, receipt,
                 moved, puts, stored, timeVars>>

BodyChunk ==
  /\ step = "answered"
  /\ Touch
  /\ UNCHANGED <<step, attempt, result, jobVars, input, output, ffmpeg, moved,
                 uploadVars>>

\* The body is read, or as much as is kept: the receipt is set, and without
\* another await the execution ends or the delay begins.
BodyEnds ==
  /\ step = "answered"
  /\ receipt' = status
  /\ \/ status = "ok" /\ End("ok")
     \/ status \in Retryable /\ RetryOrFail
     \/ status \notin Retryable \cup {"ok"} /\ Fail
  /\ UNCHANGED <<attempt, jobVars, input, output, moved, status, puts, stored,
                 timeVars>>

-----------------------------------------------------------------------------
(* The other branches of the worker's select.                              *)

\* Shutdown or deadline.
Interrupt ==
  /\ step # "over"
  /\ End("interrupted")
  /\ UNCHANGED <<attempt, jobVars, input, output, moved, uploadVars, timeVars>>

AtMost(n) == IF n > StallTicks + 1 THEN StallTicks + 1 ELSE n

\* 250 ms pass; a scan takes less.
Tick ==
  /\ step # "over"
  /\ ~due
  /\ due' = TRUE
  /\ age' = AtMost(age + 1) /\ quiet' = AtMost(quiet + 1)
  /\ UNCHANGED <<step, attempt, result, jobVars, input, output, ffmpeg, moved,
                 uploadVars, previous>>

Sizes == [input |-> input, output |-> output]
Grew(f) == Sizes[f] > previous[f]
Remembered == Sizes

\* One scan of stalled: a grown file touches, then the clock is read.
Scan ==
  /\ step # "over"
  /\ due
  /\ due' = FALSE
  /\ previous' = Remembered
  /\ \/ /\ \E f \in {"input", "output"} : Grew(f)
        /\ age' = 0
        /\ UNCHANGED <<step, result, ffmpeg>>
     \/ /\ \A f \in {"input", "output"} : ~Grew(f)
        /\ \/ age >= StallTicks /\ End("stalled")
           \/ age < StallTicks /\ UNCHANGED <<step, result, ffmpeg>>
        /\ UNCHANGED age
  /\ UNCHANGED <<attempt, jobVars, input, output, moved, uploadVars, quiet>>

-----------------------------------------------------------------------------
Next ==
  \/ Start \/ GetRefused \/ GetAnswered \/ Chunk \/ Downloaded
  \/ Writes \/ Reports \/ Exits \/ ExitsBadly
  \/ Sends \/ Stores \/ (\E s \in Classes : AnswerArrives(s)) \/ BodyChunk \/ BodyEnds
  \/ Wake \/ NetworkFails \/ LocalFailure \/ Interrupt \/ Tick \/ Scan

Spec == Init /\ [][Next]_vars

\* The timer of the scan runs; nothing else is assumed.
FairSpec == Spec /\ WF_vars(Tick) /\ WF_vars(Scan)

-----------------------------------------------------------------------------
(* The execution among the jobs of the agent.                              *)

\* A worker that has taken this job, in an agent that has no other.  Whatever
\* interrupts the execution is a deadline there; a shutdown ends it alike.  At
\* the end the worker holds the result and awaits the aborted heartbeat.
Agent == INSTANCE Agent WITH
  Ids <- {"job"}, Attempts <- {"this", "other"}, Workers <- {"worker"},
  Queue <- 1, Deadline <- TRUE, None <- "none",
  cancelled <- FALSE, jobs <- {"job"}, permits <- 1, channel <- <<>>,
  phase <- [a \in {"this", "other"} |-> IF a = "this" THEN phase ELSE "none"],
  jobId <- [a \in {"this", "other"} |-> IF a = "this" THEN "job" ELSE "none"],
  heartbeat <- IF step = "over" THEN {} ELSE {"this"},
  rx <- "none",
  pc <- [w \in {"worker"} |-> IF step = "over" THEN "aborting" ELSE "running"],
  on <- [w \in {"worker"} |-> "this"],
  result <- [w \in {"worker"} |-> IF step # "over" THEN "none"
                                  ELSE IF result = "ok" THEN "ok" ELSE "failed"],
  main <- "serving", reply <- "accepted"

-----------------------------------------------------------------------------
(* Properties.                                                             *)

\* Whatever servers, FFmpeg and clocks do, the agent sees of an execution what
\* it expects of its worker: one phase after the other, success only out of
\* the upload, failure out of any, and nothing after the end (execute against
\* Advance, Succeed, Fail and Expire of Agent).
StepsOfWorker == [][Agent!WorkerStep("worker")]_(Agent!vars)

\* FFmpeg reads the whole input of one response: nothing of an interrupted
\* attempt before it, and nothing beyond the limit.
EncodesWholeInput == ffmpeg # "none" => input = source /\ source <= MaxInput

\* What the terminal event reports is what happened: success means that the
\* server stored a whole output and its receipt says so; a receipt of success
\* is never sent with a failed job; and a receipt that is final is the last
\* answer there was, not one that a later attempt outlived, nor one of more
\* attempts than the policy of the upload allows.
OutcomeIsTrue ==
  /\ result = "ok" => /\ receipt = "ok"
                      /\ stored = wanted /\ wanted > 0
  /\ receipt = "ok" => result = "ok"
  /\ receipt \in {"ok", "rejected"} => step = "over"
  /\ puts <= OutputAttempts

\* A job fails for a stall only if nothing made progress for the whole
\* timeout: no byte transferred, no counter of FFmpeg, no file that grew.
StallIsReal == result = "stalled" => quiet >= StallTicks

\* Without progress a job does not last, whatever the servers and FFmpeg do
\* and without any deadline.
StallEnds == <>(step = "over") \/ []<>(quiet = 0)

-----------------------------------------------------------------------------
(* Why they hold: together with the three properties, an invariant that    *)
(* every step preserves.                                                   *)

\* The phase says which part of execute is under way.
PhaseInStep ==
  step # "over" =>
    /\ phase = "queued" <=> step = "start"
    /\ phase = "encoding" <=> ffmpeg = "running"
    /\ phase = "uploading" <=> ffmpeg = "gone"

\* FFmpeg runs between the last chunk of the input and the first upload.
FfmpegInStep ==
  /\ step \in {"start", "get", "receiving"} => ffmpeg = "none"
  /\ step = "encoding" <=> ffmpeg = "running"
  /\ step \in {"put", "answered"} => ffmpeg = "gone"

\* The file of the input is what this response has brought.
InputReceived == step = "receiving" => input = moved /\ moved <= source

\* A transfer is within its attempts, each upload request is one of them.
AttemptsCounted ==
  /\ step \in {"start", "get", "receiving", "put", "answered"} => attempt < Limit
  /\ step = "encoding" => attempt = 0
  /\ step = "sleeping" => MayRetry(Limit)
  /\ step # "over" => puts = IF ffmpeg = "gone" THEN attempt + 1 ELSE 0

\* Only a whole output is uploaded, and success answers a stored one.
OutputWhole ==
  /\ step \in {"put", "answered", "sleeping"} /\ ffmpeg = "gone" =>
        output = wanted /\ ~BadSize(output)
  /\ step = "put" => moved <= output
  /\ step = "answered" /\ status = "ok" => stored = output

\* A result ends the execution; before it a receipt can only be of a retry.
ResultIsLast ==
  /\ result = "none" <=> step # "over"
  /\ step # "over" => receipt \in {"none", "retryable"}

\* The clock of the stall watch runs ahead of what made progress only while
\* a file has grown that the next scan will see.
ClockFollowsProgress ==
  /\ previous["output"] <= output
  /\ age <= quiet \/ previous["output"] < output

IInv ==
  /\ TypeOK
  /\ PhaseInStep
  /\ FfmpegInStep
  /\ InputReceived
  /\ AttemptsCounted
  /\ OutputWhole
  /\ ResultIsLast
  /\ ClockFollowsProgress
  /\ EncodesWholeInput
  /\ OutcomeIsTrue
  /\ StallIsReal
=============================================================================
