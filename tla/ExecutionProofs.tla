--------------------------- MODULE ExecutionProofs ---------------------------
(***************************************************************************)
(* Proofs about Execution for all sizes, limits, attempts and timeouts:    *)
(* IInv is inductive, whatever the servers and FFmpeg answer and whenever  *)
(* the worker's select ends the execution.                                 *)
(***************************************************************************)
EXTENDS Execution, TLAPS

\* Nothing has happened at first.
LEMMA InitEstablishes == Init => IInv
<1> SUFFICES ASSUME Init PROVE IInv
  OBVIOUS
<1> USE AttemptsAssumption, LimitsAssumption, StallAssumption DEF Init
<1>1. TypeOK
  <2>1. step \in Steps /\ phase = "queued" /\ attempt \in 0..9
    BY DEF Steps
  <2>2. /\ result \in {"none", "ok", "failed", "stalled", "interrupted"}
        /\ receipt \in Classes \cup {"none"} /\ status \in Classes \cup {"none"}
        /\ ffmpeg \in {"none", "running", "gone"}
    OBVIOUS
  <2>3. source \in Nat /\ wanted \in Nat /\ input \in 0..MaxInput /\ output \in 0..MaxOutput
    OBVIOUS
  <2>4. moved \in 0..(MaxInput + MaxOutput) /\ puts \in 0..OutputAttempts /\ stored \in 0..MaxOutput
    OBVIOUS
  <2>5. age \in 0..(StallTicks + 1) /\ quiet \in 0..(StallTicks + 1)
    OBVIOUS
  <2>6. due \in BOOLEAN /\ previous \in [{"input", "output"} -> Nat]
    OBVIOUS
  <2> HIDE DEF Init
  <2> QED BY <2>1, <2>2, <2>3, <2>4, <2>5, <2>6 DEF TypeOK
<1>2. FfmpegInStep /\ PhaseInStep /\ InputReceived /\ OutputWhole /\ EncodesWholeInput
  BY DEF FfmpegInStep, PhaseInStep, InputReceived, OutputWhole, EncodesWholeInput
<1>3. AttemptsCounted
  BY DEF AttemptsCounted, Limit
<1>4. ResultIsLast /\ OutcomeIsTrue /\ StallIsReal
  BY DEF ResultIsLast, OutcomeIsTrue, StallIsReal
<1>5. ClockFollowsProgress
  BY DEF ClockFollowsProgress
<1> QED BY <1>1, <1>2, <1>3, <1>4, <1>5 DEF IInv

-----------------------------------------------------------------------------
(* What several actions do.                                                *)

\* An execution that ends without success, whatever it was doing.
LEMMA EndStep ==
  ASSUME IInv, step # "over", NEW r \in {"failed", "stalled", "interrupted"}, End(r),
         r = "stalled" => quiet >= StallTicks,
         receipt' \in (Classes \cup {"none"}) \ {"ok"},
         UNCHANGED <<attempt, jobVars, input, output, moved, status, puts, stored, age, quiet>>,
         due' \in BOOLEAN, previous' \in [{"input", "output"} -> Nat],
         previous'["output"] = previous["output"]
  PROVE  IInv'
<1> USE DEF End, jobVars, sizeVars
<1>1. TypeOK'
  BY DEF IInv, TypeOK, Steps
<1>2. FfmpegInStep' /\ PhaseInStep' /\ EncodesWholeInput'
  BY DEF IInv, TypeOK, FfmpegInStep, PhaseInStep, EncodesWholeInput
<1>3. InputReceived' /\ AttemptsCounted' /\ OutputWhole'
  BY DEF InputReceived, AttemptsCounted, OutputWhole
<1>4. ResultIsLast' /\ OutcomeIsTrue' /\ StallIsReal'
  BY DEF IInv, ResultIsLast, OutcomeIsTrue, StallIsReal
<1>5. ClockFollowsProgress'
  BY DEF IInv, ClockFollowsProgress
<1> QED BY <1>1, <1>2, <1>3, <1>4, <1>5 DEF IInv

\* A failed attempt of a transfer: the next one follows, if there is one.
LEMMA RetryOrFailStep ==
  ASSUME IInv, step \in {"get", "receiving", "put", "answered"}, RetryOrFail,
         receipt' \in {receipt, "retryable"},
         UNCHANGED <<attempt, jobVars, input, output, moved, status, puts, stored, timeVars>>
  PROVE  IInv'
<1>1. CASE Fail
  BY <1>1, EndStep DEF Fail, timeVars, IInv, TypeOK, ResultIsLast, Classes
<1>2. CASE MayRetry(Limit) /\ step' = "sleeping" /\ UNCHANGED <<result, ffmpeg>>
  <2> USE <1>2 DEF jobVars, sizeVars, timeVars
  <2>1. TypeOK'
    BY DEF IInv, TypeOK, Steps, Classes
  <2>2. FfmpegInStep' /\ PhaseInStep' /\ InputReceived' /\ EncodesWholeInput'
    BY DEF IInv, FfmpegInStep, PhaseInStep, InputReceived, EncodesWholeInput
  <2>3. AttemptsCounted'
    BY DEF IInv, AttemptsCounted, Limit, MayRetry
  <2>4. OutputWhole'
    BY DEF IInv, FfmpegInStep, PhaseInStep, OutputWhole, BadSize
  <2>5. ResultIsLast' /\ OutcomeIsTrue' /\ StallIsReal'
    BY DEF IInv, ResultIsLast, OutcomeIsTrue, StallIsReal
  <2>6. ClockFollowsProgress'
    BY DEF IInv, ClockFollowsProgress
  <2> QED BY <2>1, <2>2, <2>3, <2>4, <2>5, <2>6 DEF IInv
<1> QED BY <1>1, <1>2 DEF RetryOrFail

\* Progress within a step, or a tick of the clock, decides nothing.
LEMMA ClockStep ==
  ASSUME IInv, step # "over", TypeOK', ClockFollowsProgress',
         UNCHANGED <<step, attempt, result, jobVars, input, output, ffmpeg, moved, uploadVars>>
  PROVE  IInv'
<1> USE DEF jobVars, sizeVars, uploadVars
<1>1. FfmpegInStep' /\ PhaseInStep' /\ InputReceived' /\ EncodesWholeInput'
  BY DEF IInv, FfmpegInStep, PhaseInStep, InputReceived, EncodesWholeInput
<1>2. AttemptsCounted' /\ OutputWhole'
  BY DEF IInv, AttemptsCounted, OutputWhole, Limit, MayRetry, BadSize
<1>3. ResultIsLast' /\ OutcomeIsTrue' /\ StallIsReal'
  BY DEF IInv, ResultIsLast, OutcomeIsTrue, StallIsReal
<1> QED BY <1>1, <1>2, <1>3 DEF IInv

\* Touching the clock leaves it with what made progress.
LEMMA TouchStep ==
  ASSUME IInv, Touch, output' = output
  PROVE  /\ ClockFollowsProgress'
         /\ age' \in 0..(StallTicks + 1) /\ quiet' \in 0..(StallTicks + 1)
         /\ previous' \in [{"input", "output"} -> Nat] /\ due' \in BOOLEAN
BY StallAssumption DEF IInv, TypeOK, ClockFollowsProgress, Touch

-----------------------------------------------------------------------------
(* Downloading.                                                            *)

\* A job that starts has nothing of an earlier one.
LEMMA StartStep == ASSUME IInv, Start PROVE IInv'
<1> USE DEF Start, SetPhase, jobVars, sizeVars, uploadVars
<1>1. TypeOK' /\ ClockFollowsProgress'
  BY TouchStep DEF IInv, TypeOK, Steps
<1>2. FfmpegInStep' /\ PhaseInStep' /\ InputReceived' /\ EncodesWholeInput'
  BY DEF IInv, FfmpegInStep, PhaseInStep, InputReceived, EncodesWholeInput
<1>3. AttemptsCounted' /\ OutputWhole'
  BY DEF IInv, FfmpegInStep, PhaseInStep, AttemptsCounted, OutputWhole, Limit
<1>4. ResultIsLast' /\ OutcomeIsTrue' /\ StallIsReal'
  BY DEF IInv, ResultIsLast, OutcomeIsTrue, StallIsReal
<1> QED BY <1>1, <1>2, <1>3, <1>4 DEF IInv

\* A refused attempt is repeated or ends the execution.
LEMMA GetRefusedStep == ASSUME IInv, GetRefused PROVE IInv'
<1> USE DEF GetRefused, uploadVars
<1>1. CASE RetryOrFail
  BY <1>1, RetryOrFailStep
<1>2. CASE Fail
  BY <1>2, EndStep DEF Fail, timeVars, IInv, TypeOK, ResultIsLast
<1> QED BY <1>1, <1>2

\* The file starts empty, and with it the count of what has come.
LEMMA GetAnsweredStep == ASSUME IInv, GetAnswered PROVE IInv'
<1> USE DEF GetAnswered, jobVars, sizeVars, uploadVars, timeVars
<1>1. CASE step' = "receiving" /\ input' = Created /\ moved' = 0 /\ UNCHANGED <<result, ffmpeg>>
  <2> USE <1>1
  <2>1. TypeOK'
    BY LimitsAssumption DEF IInv, TypeOK, Steps, Created
  <2>2. FfmpegInStep' /\ PhaseInStep' /\ InputReceived' /\ EncodesWholeInput'
    BY DEF IInv, TypeOK, FfmpegInStep, PhaseInStep, InputReceived, EncodesWholeInput, Created
  <2>3. AttemptsCounted' /\ OutputWhole'
    BY DEF IInv, FfmpegInStep, PhaseInStep, AttemptsCounted, OutputWhole, Limit
  <2>4. ResultIsLast' /\ OutcomeIsTrue' /\ StallIsReal' /\ ClockFollowsProgress'
    BY DEF IInv, ResultIsLast, OutcomeIsTrue, StallIsReal, ClockFollowsProgress
  <2> QED BY <2>1, <2>2, <2>3, <2>4 DEF IInv
<1>2. CASE Fail /\ UNCHANGED <<input, moved>>
  BY <1>2, EndStep DEF Fail, IInv, TypeOK, ResultIsLast
<1> QED BY <1>1, <1>2

\* A chunk is written as it is counted, up to the limit.
LEMMA ChunkStep == ASSUME IInv, Chunk PROVE IInv'
<1> USE DEF Chunk, jobVars, sizeVars, uploadVars
<1>1. CASE /\ moved < MaxInput /\ moved' = moved + 1 /\ input' = input + 1 /\ Touch
           /\ UNCHANGED <<step, result, ffmpeg>>
  <2> USE <1>1
  <2>1. TypeOK' /\ ClockFollowsProgress'
    BY TouchStep, LimitsAssumption DEF IInv, TypeOK, InputReceived
  <2>2. FfmpegInStep' /\ PhaseInStep' /\ InputReceived' /\ EncodesWholeInput'
    BY DEF IInv, TypeOK, FfmpegInStep, PhaseInStep, InputReceived, EncodesWholeInput
  <2>3. AttemptsCounted' /\ OutputWhole'
    BY DEF IInv, AttemptsCounted, OutputWhole, Limit
  <2>4. ResultIsLast' /\ OutcomeIsTrue' /\ StallIsReal'
    BY DEF IInv, ResultIsLast, OutcomeIsTrue, StallIsReal
  <2> QED BY <2>1, <2>2, <2>3, <2>4 DEF IInv
<1>2. CASE Fail /\ UNCHANGED <<moved, input, timeVars>>
  BY <1>2, EndStep DEF Fail, IInv, TypeOK, ResultIsLast, timeVars
<1> QED BY <1>1, <1>2

\* FFmpeg starts on the whole input of this response.
LEMMA DownloadedStep == ASSUME IInv, Downloaded PROVE IInv'
<1> USE DEF Downloaded, SetPhase, jobVars, sizeVars, uploadVars
<1>1. TypeOK' /\ ClockFollowsProgress'
  BY TouchStep DEF IInv, TypeOK, Steps
<1>2. FfmpegInStep' /\ PhaseInStep' /\ InputReceived'
  BY DEF FfmpegInStep, PhaseInStep, InputReceived
<1>3. EncodesWholeInput'
  BY DEF IInv, TypeOK, InputReceived, EncodesWholeInput
<1>4. AttemptsCounted' /\ OutputWhole'
  BY DEF IInv, FfmpegInStep, PhaseInStep, AttemptsCounted, OutputWhole
<1>5. ResultIsLast' /\ OutcomeIsTrue' /\ StallIsReal'
  BY DEF IInv, ResultIsLast, OutcomeIsTrue, StallIsReal
<1> QED BY <1>1, <1>2, <1>3, <1>4, <1>5 DEF IInv

-----------------------------------------------------------------------------
(* Encoding.                                                               *)

\* What FFmpeg writes the next scan sees: the output is larger than it was.
LEMMA WritesStep == ASSUME IInv, Writes PROVE IInv'
<1> USE DEF Writes, jobVars, sizeVars, uploadVars
<1>1. TypeOK' /\ ClockFollowsProgress'
  BY LimitsAssumption, StallAssumption DEF IInv, TypeOK, ClockFollowsProgress
<1>2. step = "encoding"
  BY DEF IInv, FfmpegInStep, PhaseInStep
<1>3. FfmpegInStep' /\ PhaseInStep' /\ InputReceived' /\ EncodesWholeInput'
  BY DEF IInv, FfmpegInStep, PhaseInStep, InputReceived, EncodesWholeInput
<1>4. AttemptsCounted' /\ OutputWhole'
  BY <1>2 DEF IInv, AttemptsCounted, OutputWhole
<1>5. ResultIsLast' /\ OutcomeIsTrue' /\ StallIsReal'
  BY <1>2 DEF IInv, ResultIsLast, OutcomeIsTrue, StallIsReal
<1> QED BY <1>1, <1>3, <1>4, <1>5 DEF IInv

\* A counter that moves touches the clock and nothing else.
LEMMA ReportsStep == ASSUME IInv, Reports PROVE IInv'
<1>1. TypeOK' /\ ClockFollowsProgress'
  BY TouchStep DEF IInv, TypeOK, Reports, jobVars, sizeVars, uploadVars
<1> QED BY <1>1, ClockStep DEF Reports

\* Only an output that FFmpeg finished below the limit is uploaded.
LEMMA ExitsStep == ASSUME IInv, Exits PROVE IInv'
<1> USE DEF Exits, SetPhase, jobVars, sizeVars
<1>1. CASE ~BadSize(output) /\ StartPut /\ Touch /\ ffmpeg' = "gone" /\ UNCHANGED result
  <2> USE <1>1 DEF StartPut
  <2>1. attempt = 0 /\ puts = 0
    BY DEF IInv, FfmpegInStep, PhaseInStep, AttemptsCounted
  <2>2. TypeOK' /\ ClockFollowsProgress'
    BY <2>1, TouchStep, AttemptsAssumption, LimitsAssumption DEF IInv, TypeOK, Steps
  <2>3. FfmpegInStep' /\ PhaseInStep' /\ InputReceived' /\ EncodesWholeInput'
    BY DEF IInv, FfmpegInStep, PhaseInStep, InputReceived, EncodesWholeInput
  <2>4. AttemptsCounted'
    BY <2>1, AttemptsAssumption DEF AttemptsCounted, Limit
  <2>5. OutputWhole'
    BY DEF IInv, TypeOK, OutputWhole, BadSize
  <2>6. ResultIsLast' /\ OutcomeIsTrue' /\ StallIsReal'
    BY <2>1, AttemptsAssumption DEF IInv, ResultIsLast, OutcomeIsTrue, StallIsReal
  <2> QED BY <2>2, <2>3, <2>4, <2>5, <2>6 DEF IInv
<1>2. CASE Fail /\ UNCHANGED <<phase, moved, puts, timeVars>>
  BY <1>2, EndStep DEF Fail, IInv, TypeOK, ResultIsLast, timeVars
<1> QED BY <1>1, <1>2

-----------------------------------------------------------------------------
(* Uploading.                                                              *)

\* No more is sent than the output has.
LEMMA SendsStep == ASSUME IInv, Sends PROVE IInv'
<1> USE DEF Sends, jobVars, sizeVars
<1>1. TypeOK' /\ ClockFollowsProgress'
  BY TouchStep, LimitsAssumption DEF IInv, TypeOK
<1>2. FfmpegInStep' /\ PhaseInStep' /\ InputReceived' /\ EncodesWholeInput'
  BY DEF IInv, FfmpegInStep, PhaseInStep, InputReceived, EncodesWholeInput
<1>3. AttemptsCounted' /\ OutputWhole'
  BY DEF IInv, TypeOK, FfmpegInStep, PhaseInStep, AttemptsCounted, OutputWhole, Limit, BadSize
<1>4. ResultIsLast' /\ OutcomeIsTrue' /\ StallIsReal'
  BY DEF IInv, ResultIsLast, OutcomeIsTrue, StallIsReal
<1> QED BY <1>1, <1>2, <1>3, <1>4 DEF IInv

\* The server has the whole of what is uploaded.
LEMMA StoresStep == ASSUME IInv, Stores PROVE IInv'
<1> USE DEF Stores, jobVars, sizeVars, timeVars
<1>1. TypeOK'
  BY DEF IInv, TypeOK
<1>2. FfmpegInStep' /\ PhaseInStep' /\ InputReceived' /\ EncodesWholeInput' /\ ClockFollowsProgress'
  BY DEF IInv, FfmpegInStep, PhaseInStep, InputReceived, EncodesWholeInput, ClockFollowsProgress
<1>3. AttemptsCounted' /\ OutputWhole'
  BY DEF IInv, AttemptsCounted, OutputWhole, Limit, BadSize
<1>4. ResultIsLast' /\ OutcomeIsTrue' /\ StallIsReal'
  BY DEF IInv, ResultIsLast, OutcomeIsTrue, StallIsReal
<1> QED BY <1>1, <1>2, <1>3, <1>4 DEF IInv

\* An answer of success comes from a server that has stored the output.
LEMMA AnswerArrivesStep ==
  ASSUME IInv, NEW s \in Classes, AnswerArrives(s)
  PROVE  IInv'
<1> USE DEF AnswerArrives, jobVars, sizeVars, timeVars
<1>1. TypeOK'
  BY DEF IInv, TypeOK, Steps
<1>2. FfmpegInStep' /\ PhaseInStep' /\ InputReceived' /\ EncodesWholeInput' /\ ClockFollowsProgress'
  BY DEF IInv, FfmpegInStep, PhaseInStep, InputReceived, EncodesWholeInput, ClockFollowsProgress
<1>3. AttemptsCounted' /\ OutputWhole'
  BY DEF IInv, FfmpegInStep, PhaseInStep, AttemptsCounted, OutputWhole, Limit, BadSize
<1>4. ResultIsLast' /\ OutcomeIsTrue' /\ StallIsReal'
  BY DEF IInv, ResultIsLast, OutcomeIsTrue, StallIsReal
<1> QED BY <1>1, <1>2, <1>3, <1>4 DEF IInv

\* Reading an answer touches the clock and nothing else.
LEMMA BodyChunkStep == ASSUME IInv, BodyChunk PROVE IInv'
<1>1. TypeOK' /\ ClockFollowsProgress'
  BY TouchStep DEF IInv, TypeOK, BodyChunk, jobVars, sizeVars, uploadVars
<1> QED BY <1>1, ClockStep DEF BodyChunk

\* The receipt of success and the success come in one step.
LEMMA BodyEndsStep == ASSUME IInv, BodyEnds PROVE IInv'
<1> USE DEF BodyEnds
<1>1. CASE status = "ok" /\ End("ok")
  <2> USE <1>1 DEF End, jobVars, sizeVars, timeVars
  <2>1. TypeOK'
    BY DEF IInv, TypeOK, Steps
  <2>2. FfmpegInStep' /\ PhaseInStep' /\ InputReceived' /\ EncodesWholeInput' /\ ClockFollowsProgress'
    BY DEF IInv, FfmpegInStep, PhaseInStep, InputReceived, EncodesWholeInput, ClockFollowsProgress
  <2>3. AttemptsCounted' /\ OutputWhole'
    BY DEF AttemptsCounted, OutputWhole
  <2>4. stored = wanted /\ wanted > 0
    BY DEF IInv, TypeOK, FfmpegInStep, PhaseInStep, OutputWhole, BadSize
  <2>5. ResultIsLast' /\ OutcomeIsTrue' /\ StallIsReal'
    BY <2>4 DEF IInv, ResultIsLast, OutcomeIsTrue, StallIsReal
  <2> QED BY <2>1, <2>2, <2>3, <2>5 DEF IInv
<1>2. CASE status \in Retryable /\ RetryOrFail
  BY <1>2, RetryOrFailStep DEF Retryable
<1>3. CASE status \notin Retryable \cup {"ok"} /\ Fail
  BY <1>3, EndStep DEF Fail, IInv, TypeOK, timeVars
<1> QED BY <1>1, <1>2, <1>3

-----------------------------------------------------------------------------
(* Retries, failures and the other branches of the select.                 *)

\* The next attempt: of a download from nothing, of an upload from the start
\* of the same output.
LEMMA WakeStep == ASSUME IInv, Wake PROVE IInv'
<1> USE DEF Wake, StartPut, jobVars, sizeVars, timeVars
<1>1. ffmpeg \in {"none", "gone"} /\ MayRetry(Limit) /\ (ffmpeg = "gone" => puts = attempt + 1)
  BY DEF IInv, TypeOK, FfmpegInStep, PhaseInStep, AttemptsCounted
<1>2. TypeOK'
  BY <1>1, AttemptsAssumption, LimitsAssumption DEF IInv, TypeOK, Steps, Limit, MayRetry
<1>3. FfmpegInStep' /\ PhaseInStep' /\ InputReceived' /\ EncodesWholeInput' /\ ClockFollowsProgress'
  BY <1>1 DEF IInv, InputReceived, FfmpegInStep, PhaseInStep, EncodesWholeInput, ClockFollowsProgress
<1>4. AttemptsCounted'
  BY <1>1 DEF IInv, AttemptsCounted, Limit, MayRetry
<1>5. OutputWhole'
  BY <1>1 DEF IInv, TypeOK, OutputWhole, BadSize
<1>6. ResultIsLast' /\ OutcomeIsTrue' /\ StallIsReal'
  <2>1. puts' <= OutputAttempts
    BY <1>2, AttemptsAssumption DEF TypeOK
  <2> QED BY <1>1, <2>1 DEF IInv, ResultIsLast, OutcomeIsTrue, StallIsReal
<1> QED BY <1>2, <1>3, <1>4, <1>5, <1>6 DEF IInv

\* The network may fail in every await of a transfer.
LEMMA NetworkFailsStep == ASSUME IInv, NetworkFails PROVE IInv'
BY RetryOrFailStep DEF NetworkFails, uploadVars

\* What fails without another attempt ends the execution.
LEMMA LocalFailureStep == ASSUME IInv, LocalFailure \/ ExitsBadly PROVE IInv'
BY EndStep DEF LocalFailure, ExitsBadly, Fail, uploadVars, timeVars, IInv, TypeOK, ResultIsLast

\* The deadline or the shutdown ends it between any two steps.
LEMMA InterruptStep == ASSUME IInv, Interrupt PROVE IInv'
BY EndStep DEF Interrupt, uploadVars, timeVars, IInv, TypeOK, ResultIsLast

\* Both counts of scans advance together.
LEMMA TickStep == ASSUME IInv, Tick PROVE IInv'
<1>1. TypeOK' /\ ClockFollowsProgress'
  BY StallAssumption
  DEF Tick, AtMost, IInv, TypeOK, ClockFollowsProgress, jobVars, sizeVars, uploadVars
<1> QED BY <1>1, ClockStep DEF Tick

\* A scan that finds no file larger has the clock of what made progress.
LEMMA ScanStep == ASSUME IInv, Scan PROVE IInv'
<1> USE DEF Scan
<1>1. previous' \in [{"input", "output"} -> Nat] /\ previous'["output"] = output
  <2>1. previous' = [input |-> input, output |-> output]
    BY DEF Remembered, Sizes
  <2>2. input \in Nat /\ output \in Nat
    BY LimitsAssumption DEF IInv, TypeOK
  <2>3. DOMAIN [input |-> input, output |-> output] = {"input", "output"}
    OBVIOUS
  <2> HIDE DEF Scan
  <2> QED BY <2>1, <2>2, <2>3
<1>2. due' \in BOOLEAN
  OBVIOUS
<1>3. CASE age' = 0 /\ UNCHANGED <<step, result, ffmpeg>>
  <2>1. TypeOK'
    BY <1>1, <1>2, <1>3, StallAssumption DEF IInv, TypeOK, jobVars, sizeVars, uploadVars
  <2>2. ClockFollowsProgress'
    BY <1>1, <1>3 DEF IInv, TypeOK, ClockFollowsProgress
  <2> QED BY <1>3, <2>1, <2>2, ClockStep
<1>4. CASE (\A f \in {"input", "output"} : ~Grew(f)) /\ UNCHANGED age
  <2>1. previous["output"] = output /\ age <= quiet
    <3>1. ~(output > previous["output"])
      BY <1>4 DEF Grew, Sizes
    <3>2. output \in Nat /\ previous["output"] \in Nat /\ previous["output"] <= output
      BY LimitsAssumption DEF IInv, TypeOK, ClockFollowsProgress
    <3>3. age <= quiet \/ previous["output"] < output
      BY DEF IInv, ClockFollowsProgress
    <3> QED BY <3>1, <3>2, <3>3
  <2>2. CASE age >= StallTicks /\ End("stalled")
    <3>1. quiet >= StallTicks
      BY <2>1, <2>2, StallAssumption DEF IInv, TypeOK
    <3> QED
      BY <1>1, <1>2, <1>4, <2>1, <2>2, <3>1, EndStep DEF uploadVars, IInv, TypeOK, ResultIsLast
  <2>3. CASE UNCHANGED <<step, result, ffmpeg>>
    <3>1. TypeOK'
      BY <1>1, <1>2, <1>4, <2>3 DEF IInv, TypeOK, jobVars, sizeVars, uploadVars
    <3>2. ClockFollowsProgress'
      BY <1>1, <1>4, <2>1 DEF IInv, TypeOK, ClockFollowsProgress
    <3> QED BY <2>3, <3>1, <3>2, ClockStep
  <2> QED BY <1>4, <2>2, <2>3
<1> QED BY <1>3, <1>4

-----------------------------------------------------------------------------
(* The theorems.                                                           *)

\* IInv holds in every state of every execution.
THEOREM InductiveInvariant == Spec => []IInv
<1>1. IInv /\ [Next]_vars => IInv'
  <2> SUFFICES ASSUME IInv, [Next]_vars PROVE IInv'
    OBVIOUS
  <2>1. CASE Start \/ GetRefused \/ GetAnswered \/ Chunk \/ Downloaded
    BY <2>1, StartStep, GetRefusedStep, GetAnsweredStep, ChunkStep, DownloadedStep
  <2>2. CASE Writes \/ Reports \/ Exits \/ ExitsBadly
    BY <2>2, WritesStep, ReportsStep, ExitsStep, LocalFailureStep
  <2>3. CASE Sends \/ Stores \/ BodyChunk \/ BodyEnds
    BY <2>3, SendsStep, StoresStep, BodyChunkStep, BodyEndsStep
  <2>4. ASSUME NEW s \in Classes, AnswerArrives(s) PROVE IInv'
    BY <2>4, AnswerArrivesStep
  <2>5. CASE Wake \/ NetworkFails \/ LocalFailure \/ Interrupt \/ Tick \/ Scan
    BY <2>5, WakeStep, NetworkFailsStep, LocalFailureStep, InterruptStep, TickStep, ScanStep
  <2>6. CASE UNCHANGED vars
    BY <2>6 DEF vars, jobVars, sizeVars, timeVars, uploadVars, IInv, TypeOK, FfmpegInStep, PhaseInStep,
                InputReceived, AttemptsCounted, OutputWhole, ResultIsLast,
                ClockFollowsProgress, EncodesWholeInput, OutcomeIsTrue, StallIsReal,
                Limit, MayRetry, BadSize
  <2> QED BY <2>1, <2>2, <2>3, <2>4, <2>5, <2>6 DEF Next
<1> QED BY InitEstablishes, <1>1, PTL DEF Spec

\* FFmpeg is given the whole input of one response, within the limit.
THEOREM AlwaysEncodesWholeInput == Spec => []EncodesWholeInput
BY InductiveInvariant, PTL DEF IInv

\* What the terminal event reports is what happened.
THEOREM OutcomeAlwaysTrue == Spec => []OutcomeIsTrue
BY InductiveInvariant, PTL DEF IInv

\* No job that made progress within the timeout fails for a stall.
THEOREM StallAlwaysReal == Spec => []StallIsReal
BY InductiveInvariant, PTL DEF IInv

-----------------------------------------------------------------------------
(* The execution among the jobs of the agent.                              *)

\* Within a phase the agent sees nothing.
LEMMA SamePhase ==
  ASSUME phase' = phase,
         \/ step # "over" /\ step' # "over"
         \/ UNCHANGED <<step, result>>
  PROVE  UNCHANGED Agent!vars
BY DEF Agent!vars

\* The next phase is an Advance.
LEMMA NextPhaseAdvances ==
  ASSUME step # "over", step' # "over", phase \in DOMAIN Agent!NextPhase,
         phase' = Agent!NextPhase[phase]
  PROVE  Agent!WorkerStep("worker")
<1>1. Agent!Advance("worker")
  BY DEF Agent!Advance, Agent!MayExecute, Agent!NextPhase, Agent!admissionVars
<1> QED BY <1>1 DEF Agent!WorkerStep

\* The end of an execution is a Fail, from any phase, or a Succeed.
LEMMA EndIsSeen ==
  ASSUME step # "over", step' = "over", phase' = phase,
         result' = "ok" => phase = "uploading"
  PROVE  Agent!WorkerStep("worker")
<1> DEFINE end == IF result' = "ok" THEN "ok" ELSE "failed"
<1>1. Agent!Return("worker", end)
  BY DEF Agent!Return, Agent!AbortHeartbeat, Agent!admissionVars
<1>2. CASE result' # "ok"
  BY <1>1, <1>2 DEF Agent!WorkerStep, Agent!Fail, Agent!MayExecute
<1>3. CASE result' = "ok"
  BY <1>1, <1>3 DEF Agent!WorkerStep, Agent!Succeed, Agent!MayExecute
<1> QED BY <1>2, <1>3

\* What ends without success is seen as failed,
LEMMA EndFails ==
  ASSUME step # "over", NEW r \in {"failed", "stalled", "interrupted"}, End(r), phase' = phase
  PROVE  Agent!WorkerStep("worker")
<1>1. step' = "over" /\ result' # "ok"
  BY DEF End
<1> QED BY <1>1, EndIsSeen

\* and a step that is not the last and sets no phase is not seen.
LEMMA StepWithin ==
  ASSUME step # "over", step' # "over", UNCHANGED jobVars
  PROVE  UNCHANGED Agent!vars
BY SamePhase DEF jobVars

\* A transfer that is tried again stays in its phase.
LEMMA RetryOrFailSeen ==
  ASSUME step # "over", RetryOrFail, UNCHANGED jobVars
  PROVE  Agent!WorkerStep("worker") \/ UNCHANGED Agent!vars
<1>1. CASE Fail
  BY <1>1, EndFails DEF Fail, jobVars
<1>2. CASE step' = "sleeping"
  BY <1>2, StepWithin
<1> QED BY <1>1, <1>2 DEF RetryOrFail

\* Every step is one of the worker or one the agent does not see.
LEMMA StepSeen ==
  ASSUME IInv, [Next]_vars
  PROVE  Agent!WorkerStep("worker") \/ UNCHANGED Agent!vars
<1>1. CASE Start
  <2>1. phase = "queued" /\ phase' = "downloading" /\ step # "over" /\ step' # "over"
    BY <1>1 DEF Start, SetPhase, IInv, PhaseInStep
  <2> QED BY <2>1, NextPhaseAdvances DEF Agent!NextPhase
<1>2. CASE GetRefused
  BY <1>2, RetryOrFailSeen, EndFails DEF GetRefused, Fail, jobVars
<1>3. CASE GetAnswered \/ Chunk
  BY <1>3, StepWithin, EndFails DEF GetAnswered, Chunk, Fail, jobVars
<1>4. CASE Downloaded
  <2>1. phase = "downloading" /\ phase' = "encoding" /\ step # "over" /\ step' # "over"
    BY <1>4 DEF Downloaded, SetPhase, IInv, TypeOK, FfmpegInStep, PhaseInStep
  <2> QED BY <2>1, NextPhaseAdvances DEF Agent!NextPhase
<1>5. CASE Writes
  <2>1. step = "encoding" /\ step' = step /\ UNCHANGED jobVars
    BY <1>5 DEF Writes, IInv, FfmpegInStep
  <2> QED BY <2>1, StepWithin
<1>6. CASE Reports
  BY <1>6, StepWithin DEF Reports
<1>7. CASE Exits
  <2>1. CASE Fail /\ UNCHANGED phase
    BY <1>7, <2>1, EndFails DEF Exits, Fail
  <2>2. CASE StartPut /\ SetPhase("uploading")
    <3>1. phase = "encoding" /\ phase' = "uploading" /\ step # "over" /\ step' # "over"
      BY <1>7, <2>2 DEF Exits, StartPut, SetPhase, IInv, FfmpegInStep, PhaseInStep
    <3> QED BY <3>1, NextPhaseAdvances DEF Agent!NextPhase
  <2> QED BY <1>7, <2>1, <2>2 DEF Exits
<1>8. CASE ExitsBadly \/ LocalFailure \/ Interrupt
  BY <1>8, EndFails DEF ExitsBadly, LocalFailure, Interrupt, Fail, jobVars
<1>9. CASE Sends \/ Stores \/ BodyChunk \/ \E s \in Classes : AnswerArrives(s)
  BY <1>9, StepWithin DEF Sends, Stores, BodyChunk, AnswerArrives
<1>10. CASE BodyEnds
  <2>1. CASE End("ok")
    <3>1. phase = "uploading" /\ phase' = phase /\ step # "over" /\ step' = "over"
      BY <1>10, <2>1 DEF BodyEnds, End, IInv, FfmpegInStep, PhaseInStep, jobVars
    <3> QED BY <3>1, EndIsSeen
  <2>2. CASE RetryOrFail \/ Fail
    BY <1>10, <2>2, RetryOrFailSeen, EndFails DEF BodyEnds, Fail, jobVars
  <2> QED BY <1>10, <2>1, <2>2 DEF BodyEnds
<1>11. CASE Wake
  BY <1>11, StepWithin DEF Wake, StartPut
<1>12. CASE NetworkFails
  BY <1>12, RetryOrFailSeen DEF NetworkFails
<1>13. CASE Tick \/ UNCHANGED vars
  BY <1>13, SamePhase DEF Tick, vars, jobVars
<1>14. CASE Scan
  <2>1. CASE End("stalled")
    BY <1>14, <2>1, EndFails DEF Scan, jobVars
  <2>2. CASE UNCHANGED <<step, result, ffmpeg>>
    BY <1>14, <2>2, SamePhase DEF Scan, jobVars
  <2> QED BY <1>14, <2>1, <2>2 DEF Scan
<1> QED BY <1>1, <1>2, <1>3, <1>4, <1>5, <1>6, <1>7, <1>8, <1>9, <1>10, <1>11, <1>12, <1>13,
           <1>14 DEF Next

\* Whatever servers, FFmpeg and clocks do, for all limits, sizes and numbers of
\* attempts, an execution is to the agent what Advance, Succeed, Fail and Expire
\* of its worker allow.
THEOREM ExecutionIsWorker == Spec => StepsOfWorker
<1>1. IInv /\ [Next]_vars => [Agent!WorkerStep("worker")]_(Agent!vars)
  BY StepSeen
<1> QED BY <1>1, InductiveInvariant, PTL DEF Spec, StepsOfWorker
=============================================================================
