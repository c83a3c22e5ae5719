----------------------------- MODULE JobService -----------------------------
(***************************************************************************)
(* What the agent promises to the callers of PUT /v1/jobs/{id}, without    *)
(* workers, permits, channels or locks: an identifier is in flight at most *)
(* once, at most Capacity jobs are held, jobs start in the order in which  *)
(* they were accepted, at most Concurrency of them at a time, a slot stays *)
(* taken until the terminal callback of its job has been dealt with, and   *)
(* nothing is accepted once shutdown began.  Agent.tla implements this.    *)
(***************************************************************************)
EXTENDS Naturals, Sequences, FiniteSets

CONSTANTS Ids,          \* job identifiers chosen by the callers
          Concurrency,  \* jobs executed at the same time
          Capacity      \* jobs held at the same time, waiting ones included

VARIABLES waiting,      \* accepted jobs that have not started, in order
          executing,    \* jobs being executed
          reporting,    \* jobs whose terminal callback is under way
          open,         \* no shutdown was requested
          reply         \* the answer to the latest submission

vars == <<waiting, executing, reporting, open, reply>>

Waiting == {waiting[k] : k \in DOMAIN waiting}
InFlight == Waiting \cup executing \cup reporting

Replies == {"none", "accepted", "unauthorized", "invalid",
            "conflict", "busy", "unavailable"}

Init == /\ waiting = <<>>
        /\ executing = {}
        /\ reporting = {}
        /\ open = TRUE
        /\ reply = "none"

\* A request that is not from an authenticated caller, or not a valid job.
Refuse(answer) == /\ reply' = answer
                  /\ UNCHANGED <<waiting, executing, reporting, open>>

Accept(id) == /\ open
              /\ id \notin InFlight
              /\ Cardinality(InFlight) < Capacity
              /\ waiting' = Append(waiting, id)
              /\ reply' = "accepted"
              /\ UNCHANGED <<executing, reporting, open>>

Submit(id) == \/ Accept(id)
              \/ Refuse("unauthorized")
              \/ Refuse("invalid")
              \/ ~open /\ Refuse("unavailable")
              \/ open /\ id \in InFlight /\ Refuse("conflict")
              \/ /\ open
                 /\ id \notin InFlight
                 /\ Cardinality(InFlight) >= Capacity
                 /\ Refuse("busy")

Start == /\ waiting # <<>>
         /\ Cardinality(executing \cup reporting) < Concurrency
         /\ executing' = executing \cup {Head(waiting)}
         /\ waiting' = Tail(waiting)
         /\ UNCHANGED <<reporting, open, reply>>

Finish(id) == /\ id \in executing
              /\ executing' = executing \ {id}
              /\ reporting' = reporting \cup {id}
              /\ UNCHANGED <<waiting, open, reply>>

Conclude(id) == /\ id \in reporting
                /\ reporting' = reporting \ {id}
                /\ UNCHANGED <<waiting, executing, open, reply>>

Close == /\ open' = FALSE
         /\ UNCHANGED <<waiting, executing, reporting, reply>>

Next == \/ \E id \in Ids : Submit(id) \/ Finish(id) \/ Conclude(id)
        \/ Start
        \/ Close

Spec == Init /\ [][Next]_vars
=============================================================================
