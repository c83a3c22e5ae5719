-------------------------------- MODULE Encoding --------------------------------
(***************************************************************************)
(* FFmpeg as execute of src/agent/src/engine.rs runs it: the job documents *)
(* that validate of src/agent/src/model.rs lets pass, the command their    *)
(* arguments become, and the two pipes that are read while it runs,        *)
(* standard output by read_progress and standard error by the log capture. *)
(*                                                                         *)
(* Whatever FFmpeg writes is cut into reads of any size.  A character of   *)
(* the progress is a digit, the name of a counter with its "=", the end of *)
(* a line, or anything else; a byte of the log is its position in it.      *)
(***************************************************************************)
EXTENDS Integers, Sequences, FiniteSets, SequencesExt

CONSTANTS Documents, \* job documents: arguments, and what else is wrong
          Outputs,   \* what FFmpeg may write to standard output
          MaxArgs,   \* 128, the arguments of a job
          ReadLimit, \* 4096 and 8192, the buffers of the two readers
          LineLimit, \* 1024, the characters of a line that are kept
          LogLimit,  \* LOG_LIMIT, the bytes of the log kept at either end
          Top,       \* u64::MAX
          MaxLog     \* bound on the log FFmpeg writes

ASSUME LimitsAssumption ==
  /\ MaxArgs \in Nat /\ ReadLimit \in Nat /\ LineLimit \in Nat
  /\ LogLimit \in Nat /\ Top \in Nat /\ MaxLog \in Nat

ASSUME OutputsAssumption == Outputs \subseteq Seq(STRING)

ASSUME DocumentsAssumption == \A d \in Documents : d.args \in Seq(STRING)

Counters == {"frame", "out_time_us", "total_size"}
Digits == [c \in {"0", "1", "2"} |-> IF c = "0" THEN 0 ELSE IF c = "1" THEN 1 ELSE 2]

VARIABLES stage,    \* "received", "refused", "accepted", "running" or "ended"
          command,  \* the part of the command made of the job's arguments
          output,   \* what this FFmpeg writes to standard output
          consumed, \* how much of it was read
          reader,   \* the locals of read_progress
          logged,   \* how much of standard error was read
          head,     \* progress.log
          tail      \* progress.log_tail

progressVars == <<output, consumed, reader>>
logVars == <<logged, head, tail>>
vars == <<stage, command, progressVars, logVars>>

Smaller(a, b) == IF a < b THEN a ELSE b

-----------------------------------------------------------------------------
(* Faulty variants, exchanged for the definitions below to show that a     *)
(* property notices.                                                       *)

OutputsAtLeast(args) == \E i \in DOMAIN args : args[i] = "{output}"
CountCutLine(r) == FALSE
DropTheNewest(bytes) == SubSeq(bytes, 1, Smaller(LogLimit, Len(bytes)))

-----------------------------------------------------------------------------
(* The job document.                                                       *)

Places(args, arg) == {i \in DOMAIN args : args[i] = arg}

OneOutput(args) == \E i \in DOMAIN args : Places(args, "{output}") = {i}

ArgsFit(args) ==
  /\ \E i \in DOMAIN args : Places(args, "-i") = {i} /\ Places(args, "{input}") = {i + 1}
  /\ OneOutput(args)
  /\ args[Len(args)] = "{output}"

\* What makes a document invalid beside its arguments, and any of its three
\* endpoints.
JobFlaws == {"id", "output_extension", "oversized argument"}
EndpointFlaws == {"url", "header", "method", "retry"}

Valid(d) ==
  /\ d.flaws \cap JobFlaws = {}
  /\ Len(d.args) <= MaxArgs
  /\ ArgsFit(d.args)
  /\ d.flaws \cap EndpointFlaws = {}

\* A word of the command is the caller's or the agent's own.  FFmpeg runs in
\* the job directory (engine.rs 342), so a word of the caller ("input",
\* "output.mp4", "extra.mp4") may name a file there as well as the agent's
\* paths do, the same file even.
Caller(word) == [by |-> "caller", word |-> word]
Agent(word) == [by |-> "agent", word |-> word]

\* The paths are those of the files that are downloaded, and measured and
\* uploaded.
Expand(arg) == CASE arg = "{input}" -> <<Agent("INPUT")>>
                 [] arg = "{output}" -> <<Agent("-fs"), Agent("LIMIT"), Agent("OUTPUT")>>
                 [] OTHER -> <<Caller(arg)>>

CommandOf(args) == FlattenSeq([i \in DOMAIN args |-> Expand(args[i])])

-----------------------------------------------------------------------------
(* The progress, byte by byte.                                             *)

Number(digits) ==
  LET value[i \in 0..Len(digits)] ==
        IF i = 0 THEN 0 ELSE 10 * value[i - 1] + Digits[digits[i]]
  IN value[Len(digits)]

\* "<counter>=<number>", the number of the width of the source.
IsReading(line) ==
  /\ Len(line) >= 2
  /\ line[1] \in Counters
  /\ \A i \in 2..Len(line) : line[i] \in DOMAIN Digits
  /\ Number(Tail(line)) <= Top

\* The line was longer than what was kept of it.
IsCut(r) == r.overflow

EndLine(r) ==
  LET read == IF ~IsCut(r) /\ IsReading(r.line) THEN Number(Tail(r.line)) ELSE 0
      rest == [line |-> <<>>, overflow |-> FALSE, maxima |-> r.maxima, touches |-> r.touches]
  IN IF read > 0 /\ read > r.maxima[r.line[1]]
       THEN [rest EXCEPT !.maxima[r.line[1]] = read, !.touches = @ + 1]
       ELSE rest

OnByte(r, c) ==
  IF c = "\n" THEN EndLine(r)
  ELSE IF Len(r.line) < LineLimit THEN [r EXCEPT !.line = Append(@, c)]
  ELSE [r EXCEPT !.overflow = TRUE]

FreshReader == [line |-> <<>>, overflow |-> FALSE,
                maxima |-> [k \in Counters |-> 0], touches |-> 0]

-----------------------------------------------------------------------------
(* The log.                                                                *)

KeepNewest(bytes) == SubSeq(bytes, Len(bytes) - Smaller(LogLimit, Len(bytes)) + 1, Len(bytes))

Capture(chunk) ==
  LET n == Smaller(Len(chunk), LogLimit - Len(head))
  IN /\ head' = head \o SubSeq(chunk, 1, n)
     /\ tail' = KeepNewest(tail \o SubSeq(chunk, n + 1, Len(chunk)))

-----------------------------------------------------------------------------
Init ==
  /\ stage = "received" /\ command = <<>>
  /\ output = <<>> /\ consumed = 0 /\ reader = FreshReader
  /\ logged = 0 /\ head = <<>> /\ tail = <<>>

Refuse(d) ==
  /\ stage = "received" /\ ~Valid(d)
  /\ stage' = "refused"
  /\ UNCHANGED <<command, progressVars, logVars>>

Accept(d) ==
  /\ stage = "received" /\ Valid(d)
  /\ stage' = "accepted"
  /\ command' = CommandOf(d.args)
  /\ UNCHANGED <<progressVars, logVars>>

\* The command goes to the process and is not kept.
Spawn ==
  /\ stage = "accepted"
  /\ stage' = "running"
  /\ command' = <<>>
  /\ output' \in Outputs
  /\ UNCHANGED <<consumed, reader, logVars>>

ReadProgress(n) ==
  /\ stage = "running"
  /\ consumed + n <= Len(output)
  /\ LET after[i \in 0..n] ==
           IF i = 0 THEN reader ELSE OnByte(after[i - 1], output[consumed + i])
     IN reader' = after[n]
  /\ consumed' = consumed + n
  /\ UNCHANGED <<stage, command, output, logVars>>

ReadLog(n) ==
  /\ stage = "running"
  /\ logged + n <= MaxLog
  /\ Capture([i \in 1..n |-> logged + i])
  /\ logged' = logged + n
  /\ UNCHANGED <<stage, command, progressVars>>

\* All of try_join! is done: standard error may end wherever it was read to.
Finish ==
  /\ stage = "running"
  /\ consumed = Len(output)
  /\ stage' = "ended"
  /\ UNCHANGED <<command, progressVars, logVars>>

\* A read fails, or the worker drops the execution.
Abort ==
  /\ stage = "running"
  /\ stage' = "ended"
  /\ UNCHANGED <<command, progressVars, logVars>>

Next ==
  \/ \E d \in Documents : Refuse(d) \/ Accept(d)
  \/ Spawn
  \/ \E n \in 1..ReadLimit : ReadProgress(n) \/ ReadLog(n)
  \/ Finish
  \/ Abort

Spec == Init /\ [][Next]_vars

-----------------------------------------------------------------------------
(* Properties.                                                             *)

\* "Exactly one -i must precede the standalone {input} placeholder", {output}
\* is the last argument and the agent adds -fs (agent/README.md:102-107).
\* Whatever arguments a document brings that validate lets pass, the path of the
\* downloaded file is written once, behind the only "-i", and the path
\* that is measured and uploaded once, last, and directly behind the limit.
\* Nothing is promised of the caller's other words: one may name another
\* output, or the same, and has no limit.
CommandAsAdmitted ==
  stage = "accepted" =>
    LET last == Len(command)
    IN /\ \E i \in 1..last : /\ Places(command, Caller("-i")) = {i}
                            /\ Places(command, Agent("INPUT")) = {i + 1}
       /\ Places(command, Agent("OUTPUT")) = {last}
       /\ command[last - 2] = Agent("-fs") /\ command[last - 1] = Agent("LIMIT")

\* The ends of lines in the first c characters, the line these characters end
\* in, and the lines that were kept whole and are readings of a counter.
Ends(c) == {i \in 1..c : output[i] = "\n"}
StartOf(c) == IF Ends(c) = {} THEN 0 ELSE CHOOSE i \in Ends(c) : \A j \in Ends(c) : j <= i
LineAt(c) == SubSeq(output, StartOf(c) + 1, c)
Readings(k, c) ==
  {e \in Ends(c) : LET l == LineAt(e - 1) IN Len(l) <= LineLimit /\ IsReading(l) /\ l[1] = k}
ReadingAt(e) == Number(Tail(LineAt(e - 1)))
\* The readings above all earlier ones of their counter, and above nothing.
Records(k, c) ==
  {e \in Readings(k, c) : /\ ReadingAt(e) > 0
                          /\ \A f \in Readings(k, c) : f < e => ReadingAt(f) < ReadingAt(e)}
Highest(k, c) == Max({0} \cup {ReadingAt(e) : e \in Readings(k, c)})

\* Wherever the reads end and however long a line is, the counters know the
\* highest value of every whole line, no value of a line that was cut short,
\* and the stall clock was set back once for each new maximum (read_progress).
CountersSeeWholeLines ==
  /\ \A k \in Counters : reader.maxima[k] = Highest(k, consumed)
  /\ reader.touches = Cardinality(UNION {Records(k, consumed) : k \in Counters})

\* The log of an event is the first LogLimit bytes of standard error and the
\* last LogLimit of the others, in order, each byte once; the tail is there
\* exactly if the head overflowed (read_log in execute).
LogKeepsBothEnds ==
  LET start == Smaller(LogLimit, logged)
      others == Smaller(LogLimit, logged - start)
  IN /\ head = [i \in 1..start |-> i]
     /\ tail = [i \in 1..others |-> logged - others + i]
=============================================================================
