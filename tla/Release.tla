--------------------------------- MODULE Release ---------------------------------
(***************************************************************************)
(* The end of a container build: jobs tag and sign of                      *)
(* src/.github/workflows/github-docker-registry.yml, with the signer of    *)
(* src/third_party/hng-cd-sign/cd_sign.py, from the release tag to the     *)
(* deletion of old builds.                                                 *)
(*                                                                         *)
(* A build is named by its run number.  The concurrency group lets one run *)
(* work at a time.  A step may fail, or its run be stopped, at any point;  *)
(* a run may be repeated, from its start or from job sign.  What GitHub    *)
(* keeps is a set of tags and a set of Releases with their assets.         *)
(***************************************************************************)
EXTENDS Integers, FiniteSets

CONSTANTS First, Last, \* run numbers
          Images,      \* image tars of a build, one per architecture
          Keep,        \* KEEP
          None         \* no run

ASSUME RunsAssumption == First \in Nat /\ Last \in Nat /\ None \notin First..Last
ASSUME KeepAssumption == Keep \in Nat \ {0}

Runs == First..Last
Tars == Images \X {"tar"}
Signatures == Images \X {"cd.jws"}
Assets == Tars \cup Signatures

VARIABLES upcoming, \* the number of the next run
          running,  \* the run in the concurrency group
          step,     \* where it is
          tagged,   \* the runs whose job tag succeeded when it last ran
          outcome,  \* how the latest attempt of each run ended
          dist,     \* the files on the machine of job sign
          todo,     \* the files that still have to be uploaded
          tags,     \* tags build-<run>
          releases, \* builds that have a Release
          assets,   \* what is attached to each
          seen,     \* the tags and Releases that were listed
          old       \* the builds left to delete

github == <<tags, releases, assets>>
runVars == <<upcoming, running, tagged, outcome>>
signVars == <<dist, todo>>
pruneVars == <<seen, old>>
vars == <<step, github, runVars, signVars, pruneVars>>

-----------------------------------------------------------------------------
(* Faulty variants, exchanged for the definitions below to show that a     *)
(* property notices.                                                       *)

\* "9" after "10": sort without -n.
ByDigits(a, b) == IF (a < 10) = (b < 10) THEN a > b ELSE a < 10
ReleasesOnly(listed) == listed.releases

-----------------------------------------------------------------------------
Init ==
  /\ upcoming = First /\ running = None /\ step = "idle"
  /\ tagged = {} /\ outcome = [r \in Runs |-> "none"]
  /\ dist = {} /\ todo = {}
  /\ tags = {} /\ releases = {} /\ assets = [r \in Runs |-> {}]
  /\ seen = [tags |-> {}, releases |-> {}] /\ old = {}

\* The first attempt of a run gets the group once its image is built, in the
\* order of the runs; one that a newer run replaced while it was pending, or
\* whose build failed, never gets there.  A repeated run enters in Repeat.
Begin(r) ==
  /\ running = None
  /\ r >= upcoming
  /\ upcoming' = r + 1
  /\ running' = r
  /\ step' = "tag"
  /\ UNCHANGED <<tagged, outcome, github, signVars, pruneVars>>

\* All jobs again, or job sign with the output that job tag had.
Repeat(r) ==
  /\ running = None
  /\ outcome[r] # "none"
  /\ running' = r
  /\ outcome' = [outcome EXCEPT ![r] = "failed"]
  /\ \/ step' = "tag" /\ tagged' = tagged \ {r}
     \/ r \in tagged /\ step' = "checkout" /\ UNCHANGED tagged
  /\ UNCHANGED <<upcoming, github, signVars, pruneVars>>

\* The API refuses a tag that exists; the run then fails.
Tag ==
  /\ step = "tag"
  /\ running \notin tags
  /\ tags' = tags \cup {running}
  /\ tagged' = tagged \cup {running}
  /\ step' = "checkout"
  /\ UNCHANGED <<upcoming, running, outcome, releases, assets, signVars, pruneVars>>

\* The tag has to be there still; a fresh machine gets the tars of the build.
Checkout ==
  /\ step = "checkout"
  /\ running \in tags
  /\ dist' = Tars
  /\ step' = "sign"
  /\ UNCHANGED <<runVars, todo, github, pruneVars>>

\* sign_files with one file: staged under another name, then renamed.
Sign(i) ==
  /\ step = "sign"
  /\ <<i, "cd.jws">> \notin dist
  /\ dist' = dist \cup {<<i, "cd.jws">>}
  /\ UNCHANGED <<runVars, step, todo, github, pruneVars>>

\* gh release view, or create --verify-tag.
Attach ==
  /\ step = "sign"
  /\ Signatures \subseteq dist
  /\ running \in releases \cup tags
  /\ releases' = releases \cup {running}
  /\ todo' = dist
  /\ step' = "upload"
  /\ UNCHANGED <<runVars, dist, tags, assets, pruneVars>>

\* gh release upload --clobber: an asset of the name is deleted first.
Clobber(f) ==
  /\ step = "upload"
  /\ f \in todo \cap assets[running]
  /\ assets' = [assets EXCEPT ![running] = @ \ {f}]
  /\ UNCHANGED <<runVars, step, signVars, tags, releases, pruneVars>>

Upload(f) ==
  /\ step = "upload"
  /\ f \in todo \ assets[running]
  /\ assets' = [assets EXCEPT ![running] = @ \cup {f}]
  /\ todo' = todo \ {f}
  /\ UNCHANGED <<runVars, step, dist, tags, releases, pruneVars>>

ListTags ==
  /\ step = "upload"
  /\ todo = {}
  /\ seen' = [seen EXCEPT !.tags = tags]
  /\ step' = "list"
  /\ UNCHANGED <<runVars, signVars, github, old>>

Listed(listed) == listed.tags \cup listed.releases

\* sort -k2,2nr
Newer(a, b) == a > b

\* tail -n +$((KEEP + 1))
BehindKeep(builds) == {b \in builds : Cardinality({c \in builds : Newer(c, b)}) >= Keep}

ListReleases ==
  /\ step = "list"
  /\ seen' = [seen EXCEPT !.releases = releases]
  /\ old' = BehindKeep(Listed(seen'))
  /\ step' = "delete"
  /\ UNCHANGED <<runVars, signVars, github>>

\* The newest of the old builds is next.
IsNext(b) == b \in old /\ \A c \in old : c = b \/ Newer(b, c)

ReleaseGone(b) == b \notin seen.releases \/ b \notin releases

DeleteRelease(b) ==
  /\ step = "delete"
  /\ IsNext(b)
  /\ b \in seen.releases \cap releases
  /\ releases' = releases \ {b}
  /\ assets' = [assets EXCEPT ![b] = {}]
  /\ UNCHANGED <<runVars, step, signVars, tags, pruneVars>>

DeleteTag(b) ==
  /\ step = "delete"
  /\ IsNext(b)
  /\ ReleaseGone(b)
  /\ tags' = IF b \in seen.tags THEN tags \ {b} ELSE tags
  /\ old' = old \ {b}
  /\ UNCHANGED <<runVars, step, signVars, releases, assets, seen>>

\* The machine and what the run knew are gone with it.
End(result) ==
  /\ outcome' = [outcome EXCEPT ![running] = result]
  /\ running' = None
  /\ step' = "idle"
  /\ dist' = {} /\ todo' = {}
  /\ seen' = [tags |-> {}, releases |-> {}] /\ old' = {}
  /\ UNCHANGED <<upcoming, tagged, github>>

Succeed == step = "delete" /\ old = {} /\ End("succeeded")

\* Any command fails, or the run is stopped, or reaches its time limit.
Fail == running # None /\ End("failed")

Next ==
  \/ \E r \in Runs : Begin(r) \/ Repeat(r)
  \/ Tag \/ Checkout \/ Attach
  \/ \E i \in Images : Sign(i)
  \/ \E f \in Assets : Clobber(f) \/ Upload(f)
  \/ ListTags \/ ListReleases
  \/ \E b \in Runs : DeleteRelease(b) \/ DeleteTag(b)
  \/ Succeed \/ Fail

Spec == Init /\ [][Next]_vars

-----------------------------------------------------------------------------
(* Properties.                                                             *)

\* A build that succeeded keeps its tag and every tar and signature of its
\* Release as long as fewer than KEEP newer tags exist, whatever runs fail,
\* stop half-way or are repeated around it ("Keeps the newest KEEP builds by
\* run number", the last step of job sign).
KeepsNewest ==
  \A r \in Runs :
    outcome[r] = "succeeded" /\ Cardinality({t \in tags : t > r}) < Keep =>
      r \in tags /\ r \in releases /\ assets[r] = Assets

\* No Release outlives its tag, not even when a deletion stops half-way, and
\* a run that succeeds leaves no more than KEEP builds, those included whose
\* Release was never made or never deleted ("every run deletes only what it
\* lists, including a tag whose Release was never made").
LeftoversGo ==
  [][ /\ releases' \subseteq tags'
      /\ Succeed => Cardinality(tags \cup releases) <= Keep ]_vars

-----------------------------------------------------------------------------
(* Why they hold: an invariant that every step preserves.                  *)

TypeOK ==
  /\ upcoming \in Nat /\ running \in Runs \cup {None}
  /\ step \in {"idle", "tag", "checkout", "sign", "upload", "list", "delete"}
  /\ tagged \subseteq Runs
  /\ outcome \in [Runs -> {"none", "failed", "succeeded"}]
  /\ dist \subseteq Assets /\ todo \subseteq Assets
  /\ tags \subseteq Runs /\ releases \subseteq Runs
  /\ assets \in [Runs -> SUBSET Assets]
  /\ seen \in [tags : SUBSET Runs, releases : SUBSET Runs] /\ old \subseteq Runs

\* The run at work is not one that succeeded, also when it is repeated.
OneAtWork ==
  /\ step = "idle" <=> running = None
  /\ running # None => running < upcoming /\ outcome[running] # "succeeded"
  /\ \A r \in Runs : r >= upcoming => outcome[r] = "none"

\* All signatures are made before the first upload; what is not to be uploaded
\* any more is there.
FilesInOrder ==
  /\ step = "sign" => Tars \subseteq dist
  /\ step = "upload" => running \in releases /\ Assets \ todo \subseteq assets[running]

Whole(r) == r \in tags /\ r \in releases /\ assets[r] = Assets
Behind(r) == Cardinality({t \in tags : t > r}) >= Keep

\* The lists are complete, and only what is behind KEEP newer tags is on the
\* list of deletions, also when a part of it is done.
PruningOld ==
  /\ releases \subseteq tags
  /\ step = "list" => seen.tags = tags
  /\ step = "delete" => /\ tags \subseteq seen.tags /\ releases \subseteq seen.releases
                        /\ \A b \in old : Behind(b)
                        /\ Cardinality(tags \ old) <= Keep

\* A run that has uploaded everything, and one that succeeded, is whole until
\* it is behind.
WholeOrBehind ==
  \A r \in Runs :
    outcome[r] = "succeeded" \/ (r = running /\ step \in {"list", "delete"}) =>
      Whole(r) \/ Behind(r)

IInv ==
  /\ TypeOK
  /\ OneAtWork
  /\ FilesInOrder
  /\ PruningOld
  /\ WholeOrBehind
=============================================================================
