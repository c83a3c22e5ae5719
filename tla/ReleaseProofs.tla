---------------------------- MODULE ReleaseProofs ----------------------------
(***************************************************************************)
(* Proofs about Release for any run numbers, images and KEEP: IInv is      *)
(* inductive, whatever fails, stops half-way or is repeated.               *)
(***************************************************************************)
EXTENDS Release, FiniteSetTheorems, WellFoundedInduction, TLAPS

-----------------------------------------------------------------------------
(* Counting builds.                                                        *)

\* Run numbers are naturals.
LEMMA RunsAreNaturals == Runs \subseteq Nat
<1> SUFFICES ASSUME NEW r \in First..Last PROVE r \in Nat
  BY DEF Runs
<1> QED BY RunsAssumption

\* A set of builds is finite, and no smaller than a part of it.
LEMMA Counting ==
  ASSUME NEW T, T \subseteq Runs, NEW S, S \subseteq T
  PROVE  /\ IsFiniteSet(S) /\ Cardinality(S) \in Nat
         /\ IsFiniteSet(T) /\ Cardinality(T) \in Nat
         /\ Cardinality(S) <= Cardinality(T)
<1>1. IsFiniteSet(Runs)
  BY RunsAssumption, FS_Interval DEF Runs
<1>2. IsFiniteSet(T)
  BY <1>1, FS_Subset
<1>3. IsFiniteSet(S) /\ Cardinality(S) <= Cardinality(T)
  BY <1>2, FS_Subset
<1> QED BY <1>2, <1>3, FS_CardinalityType

\* A set of naturals that is not empty has a least element.
LEMMA LeastExists ==
  ASSUME NEW S, S \subseteq Nat, S # {}
  PROVE  \E i \in S : \A j \in S : i <= j
<1>1. PICK i \in S : \A j \in S : ~(<<j, i>> \in OpToRel(<, Nat))
  BY NatLessThanWellFounded, WFMin, Zenon
<1>2. \A j \in S : ~(j < i)
  BY <1>1 DEF OpToRel
<1> QED BY <1>2

\* Of any builds no more than KEEP are not behind KEEP newer ones.
LEMMA AtMostKeepInFront ==
  ASSUME NEW L, L \subseteq Runs
  PROVE  Cardinality(L \ BehindKeep(L)) <= Keep
<1> DEFINE front == L \ BehindKeep(L)
<1>0. front \subseteq L /\ front \subseteq Nat /\ L \subseteq Nat
  BY RunsAreNaturals
<1>1. CASE front = {}
  BY <1>1, FS_EmptySet, KeepAssumption
<1>2. CASE front # {}
  <2>1. PICK m \in front : \A b \in front : m <= b
    BY <1>0, <1>2, LeastExists
  <2> DEFINE newer == {c \in L : Newer(c, m)}
  <2>2. ~(Cardinality(newer) >= Keep)
    BY <2>1 DEF BehindKeep
  <2>3. front \ {m} \subseteq newer
    BY <1>0, <2>1 DEF Newer
  <2>4. /\ Cardinality(front \ {m}) <= Cardinality(newer)
        /\ Cardinality(front \ {m}) \in Nat /\ Cardinality(newer) \in Nat
    BY <2>3, Counting
  <2>5. IsFiniteSet(front) /\ Cardinality(front) \in Nat
    BY <1>0, Counting
  <2>6. Cardinality(front \ {m}) = Cardinality(front) - 1
    BY <2>1, <2>5, FS_RemoveElement
  <2> HIDE DEF front, newer
  <2> QED BY <2>2, <2>4, <2>5, <2>6, KeepAssumption DEF front
<1> QED BY <1>1, <1>2

\* A build with KEEP newer tags has them still when there are more tags.
LEMMA BehindStays ==
  ASSUME NEW r \in Runs, Behind(r), tags \subseteq tags', tags' \subseteq Runs
  PROVE  Behind(r)'
<1>1. {t \in tags : t > r} \subseteq {t \in tags' : t > r}
  OBVIOUS
<1>2. /\ Cardinality({t \in tags : t > r}) \in Nat /\ Cardinality({t \in tags' : t > r}) \in Nat
      /\ Cardinality({t \in tags : t > r}) <= Cardinality({t \in tags' : t > r})
  BY <1>1, Counting
<1> QED BY <1>2, KeepAssumption DEF Behind

\* It has them too when one of those behind KEEP newer tags is deleted.
LEMMA BehindSurvivesDeletion ==
  ASSUME NEW r \in Runs, NEW b \in Runs, Behind(r), Behind(b), tags \subseteq Runs,
         tags \ {b} \subseteq tags', tags' \subseteq tags
  PROVE  Behind(r)'
<1>0. r \in Nat /\ b \in Nat /\ tags \subseteq Nat /\ tags' \subseteq Runs
  BY RunsAreNaturals
<1>1. CASE b > r
  <2>1. {t \in tags : t > b} \subseteq {t \in tags' : t > r}
    <3> SUFFICES ASSUME NEW t \in tags, t > b PROVE t \in tags' /\ t > r
      OBVIOUS
    <3>1. t \in Nat /\ t # b
      BY <1>0
    <3> QED BY <1>0, <1>1, <3>1
  <2>2. /\ Cardinality({t \in tags : t > b}) \in Nat /\ Cardinality({t \in tags' : t > r}) \in Nat
        /\ Cardinality({t \in tags : t > b}) <= Cardinality({t \in tags' : t > r})
    BY <1>0, <2>1, Counting
  <2> QED BY <2>2, KeepAssumption DEF Behind
<1>2. CASE ~(b > r)
  <2>1. {t \in tags : t > r} \subseteq {t \in tags' : t > r}
    <3> SUFFICES ASSUME NEW t \in tags, t > r PROVE t \in tags'
      OBVIOUS
    <3>1. t \in Nat /\ t # b
      BY <1>0, <1>2
    <3> QED BY <3>1
  <2>2. /\ Cardinality({t \in tags : t > r}) \in Nat /\ Cardinality({t \in tags' : t > r}) \in Nat
        /\ Cardinality({t \in tags : t > r}) <= Cardinality({t \in tags' : t > r})
    BY <1>0, <2>1, Counting
  <2> QED BY <2>2, KeepAssumption DEF Behind
<1> QED BY <1>1, <1>2

-----------------------------------------------------------------------------
(* IInv is inductive: one lemma per action.                                *)

\* What a step that leaves GitHub alone has to keep of WholeOrBehind: no other
\* run is one that has to be whole.
LEMMA QuietSteps ==
  ASSUME WholeOrBehind, UNCHANGED github,
         \A r \in Runs :
           outcome'[r] = "succeeded" \/ (r = running' /\ step' \in {"list", "delete"}) =>
             outcome[r] = "succeeded" \/ (r = running /\ step \in {"list", "delete"})
  PROVE  WholeOrBehind'
BY DEF WholeOrBehind, Whole, Behind, github

\* Nothing runs, and there is no build.
LEMMA InitEstablishes == Init => IInv
<1> SUFFICES ASSUME Init PROVE IInv
  OBVIOUS
<1>1. TypeOK
  BY RunsAssumption DEF Init, TypeOK
<1>2. OneAtWork /\ FilesInOrder /\ PruningOld
  BY DEF Init, OneAtWork, FilesInOrder, PruningOld
<1>3. WholeOrBehind
  BY RunsAssumption DEF Init, WholeOrBehind, Runs
<1> QED BY <1>1, <1>2, <1>3 DEF IInv

\* A run that begins is a new one.
LEMMA BeginKeeps ==
  ASSUME IInv, NEW r \in Runs, Begin(r)
  PROVE  IInv'
<1> USE DEF Begin, github, runVars, signVars, pruneVars
<1>0. r \in Nat /\ r # None /\ Runs \subseteq Nat
  BY RunsAreNaturals, RunsAssumption DEF Runs
<1>1. TypeOK'
  BY <1>0 DEF IInv, TypeOK
<1>2. OneAtWork'
  BY <1>0 DEF IInv, TypeOK, OneAtWork
<1>3. FilesInOrder' /\ PruningOld'
  BY DEF IInv, FilesInOrder, PruningOld
<1>4. WholeOrBehind'
  BY QuietSteps DEF IInv
<1> QED BY <1>1, <1>2, <1>3, <1>4 DEF IInv

\* A repeated run counts as failed until it ends again.
LEMMA RepeatKeeps ==
  ASSUME IInv, NEW r \in Runs, Repeat(r)
  PROVE  IInv'
<1> USE DEF Repeat, github, runVars, signVars, pruneVars
<1>0. r \in Nat /\ r # None /\ Runs \subseteq Nat
  BY RunsAreNaturals, RunsAssumption DEF Runs
<1>1. TypeOK'
  BY <1>0 DEF IInv, TypeOK
<1>2. OneAtWork'
  BY <1>0 DEF IInv, TypeOK, OneAtWork
<1>3. FilesInOrder' /\ PruningOld'
  BY DEF IInv, FilesInOrder, PruningOld
<1>4. \A q \in Runs : outcome'[q] = "succeeded" => outcome[q] = "succeeded"
  BY DEF IInv, TypeOK
<1>5. WholeOrBehind'
  BY <1>4, QuietSteps DEF IInv
<1> QED BY <1>1, <1>2, <1>3, <1>5 DEF IInv

\* One more tag can only put a build further behind.
LEMMA TagKeeps ==
  ASSUME IInv, Tag
  PROVE  IInv'
<1> USE DEF Tag, github, runVars, signVars, pruneVars
<1>0. running \in Runs
  BY DEF IInv, TypeOK, OneAtWork
<1>1. TypeOK'
  BY <1>0 DEF IInv, TypeOK
<1>2. OneAtWork'
  BY DEF IInv, OneAtWork
<1>3. FilesInOrder' /\ PruningOld'
  BY DEF IInv, FilesInOrder, PruningOld
<1>4. WholeOrBehind'
  <2> SUFFICES ASSUME NEW r \in Runs, outcome[r] = "succeeded"
               PROVE  Whole(r)' \/ Behind(r)'
    BY DEF WholeOrBehind
  <2>1. Whole(r) \/ Behind(r)
    BY DEF IInv, WholeOrBehind
  <2>2. CASE Whole(r)
    BY <2>2 DEF Whole
  <2>3. CASE Behind(r)
    BY <1>1, <2>3, BehindStays DEF TypeOK
  <2> QED BY <2>1, <2>2, <2>3
<1> QED BY <1>1, <1>2, <1>3, <1>4 DEF IInv

\* A fresh machine has all the tars.
LEMMA CheckoutKeeps ==
  ASSUME IInv, Checkout
  PROVE  IInv'
<1> USE DEF Checkout, github, runVars, signVars, pruneVars
<1>1. TypeOK'
  BY DEF IInv, TypeOK, Assets
<1>2. OneAtWork' /\ FilesInOrder' /\ PruningOld'
  BY DEF IInv, OneAtWork, FilesInOrder, PruningOld
<1>3. WholeOrBehind'
  BY QuietSteps DEF IInv
<1> QED BY <1>1, <1>2, <1>3 DEF IInv

\* Signing adds to the directory.
LEMMA SignKeeps ==
  ASSUME IInv, NEW i \in Images, Sign(i)
  PROVE  IInv'
<1> USE DEF Sign, github, runVars, signVars, pruneVars
<1>1. TypeOK'
  BY DEF IInv, TypeOK, Assets, Signatures
<1>2. OneAtWork' /\ FilesInOrder' /\ PruningOld'
  BY DEF IInv, OneAtWork, FilesInOrder, PruningOld
<1>3. WholeOrBehind'
  BY QuietSteps DEF IInv
<1> QED BY <1>1, <1>2, <1>3 DEF IInv

\* The whole directory is to be uploaded, and the tag exists.
LEMMA AttachKeeps ==
  ASSUME IInv, Attach
  PROVE  IInv'
<1> USE DEF Attach, github, runVars, signVars, pruneVars
<1>0. running \in Runs /\ running \in tags
  BY DEF IInv, TypeOK, OneAtWork, PruningOld
<1>1. TypeOK'
  BY <1>0 DEF IInv, TypeOK
<1>2. OneAtWork' /\ PruningOld'
  BY <1>0 DEF IInv, OneAtWork, PruningOld
<1>3. FilesInOrder'
  <2>1. Assets \subseteq dist
    BY DEF IInv, FilesInOrder, Assets
  <2> QED BY <2>1 DEF FilesInOrder
<1>4. WholeOrBehind'
  BY DEF IInv, WholeOrBehind, Whole, Behind
<1> QED BY <1>1, <1>2, <1>3, <1>4 DEF IInv

\* A step that changes only the assets of the run at work, before it is done
\* with them, keeps the others whole.
LEMMA UploadsTouchOne ==
  ASSUME IInv, step = "upload", step' = "upload", NEW S \in SUBSET Assets,
         assets' = [assets EXCEPT ![running] = S],
         UNCHANGED <<outcome, running, tags, releases>>
  PROVE  WholeOrBehind'
<1> SUFFICES ASSUME NEW r \in Runs, outcome[r] = "succeeded"
             PROVE  Whole(r)' \/ Behind(r)'
  BY DEF WholeOrBehind
<1>1. r # running
  BY RunsAssumption DEF IInv, OneAtWork, Runs
<1>2. assets'[r] = assets[r]
  BY <1>1 DEF IInv, TypeOK
<1> QED BY <1>2 DEF IInv, WholeOrBehind, Whole, Behind

\* An asset that is replaced is still to be uploaded.
LEMMA ClobberKeeps ==
  ASSUME IInv, NEW f \in Assets, Clobber(f)
  PROVE  IInv'
<1> USE DEF Clobber, github, runVars, signVars, pruneVars
<1>0. running \in Runs
  BY DEF IInv, TypeOK, OneAtWork
<1>1. TypeOK'
  BY <1>0 DEF IInv, TypeOK
<1>2. OneAtWork' /\ PruningOld'
  BY DEF IInv, OneAtWork, PruningOld
<1>3. FilesInOrder'
  BY <1>0 DEF IInv, TypeOK, FilesInOrder
<1>4. WholeOrBehind'
  <2>1. assets[running] \ {f} \in SUBSET Assets
    BY <1>0 DEF IInv, TypeOK
  <2> QED BY <2>1, UploadsTouchOne
<1> QED BY <1>1, <1>2, <1>3, <1>4 DEF IInv

\* A file leaves the list when it is there.
LEMMA UploadKeeps ==
  ASSUME IInv, NEW f \in Assets, Upload(f)
  PROVE  IInv'
<1> USE DEF Upload, github, runVars, signVars, pruneVars
<1>0. running \in Runs
  BY DEF IInv, TypeOK, OneAtWork
<1>1. TypeOK'
  BY <1>0 DEF IInv, TypeOK
<1>2. OneAtWork' /\ PruningOld'
  BY DEF IInv, OneAtWork, PruningOld
<1>3. FilesInOrder'
  BY <1>0 DEF IInv, TypeOK, FilesInOrder
<1>4. WholeOrBehind'
  <2>1. assets[running] \cup {f} \in SUBSET Assets
    BY <1>0 DEF IInv, TypeOK
  <2> QED BY <2>1, UploadsTouchOne
<1> QED BY <1>1, <1>2, <1>3, <1>4 DEF IInv

\* Everything is uploaded: from here on the run at work is whole.
LEMMA ListTagsKeeps ==
  ASSUME IInv, ListTags
  PROVE  IInv'
<1> USE DEF ListTags, github, runVars, signVars
<1>0. running \in Runs
  BY DEF IInv, TypeOK, OneAtWork
<1>1. TypeOK'
  BY DEF IInv, TypeOK
<1>2. OneAtWork' /\ FilesInOrder'
  BY DEF IInv, OneAtWork, FilesInOrder
<1>3. PruningOld'
  BY DEF IInv, TypeOK, PruningOld
<1>4. Whole(running)
  BY <1>0 DEF IInv, TypeOK, FilesInOrder, PruningOld, Whole
<1>5. WholeOrBehind'
  BY <1>4 DEF IInv, WholeOrBehind, Whole, Behind
<1> QED BY <1>1, <1>2, <1>3, <1>5 DEF IInv

\* Both lists together are the tags, and at most KEEP of them stay.
LEMMA ListReleasesKeeps ==
  ASSUME IInv, ListReleases
  PROVE  IInv'
<1> USE DEF ListReleases, github, runVars, signVars
<1>1. seen'.tags = tags /\ seen'.releases = releases
  BY DEF IInv, TypeOK, PruningOld
<1>2. Listed(seen') = tags
  BY <1>1 DEF IInv, PruningOld, Listed
<1>3. old' = BehindKeep(tags)
  BY <1>2
<1>4. TypeOK'
  BY <1>3 DEF IInv, TypeOK, BehindKeep
<1>5. OneAtWork' /\ FilesInOrder'
  BY DEF IInv, OneAtWork, FilesInOrder
<1>6. PruningOld'
  <2>1. Cardinality(tags \ old') <= Keep
    BY <1>3, AtMostKeepInFront DEF IInv, TypeOK
  <2>2. \A b \in old' : Behind(b)
    BY <1>3 DEF BehindKeep, Behind, Newer
  <2> QED BY <1>1, <2>1, <2>2 DEF IInv, PruningOld, Behind
<1>7. WholeOrBehind'
  BY QuietSteps DEF IInv
<1> QED BY <1>4, <1>5, <1>6, <1>7 DEF IInv

\* Only a build behind KEEP newer tags loses its Release.
LEMMA DeleteReleaseKeeps ==
  ASSUME IInv, NEW b \in Runs, DeleteRelease(b)
  PROVE  IInv'
<1> USE DEF DeleteRelease, runVars, signVars, pruneVars
<1>1. TypeOK'
  BY DEF IInv, TypeOK
<1>2. OneAtWork' /\ FilesInOrder'
  BY DEF IInv, OneAtWork, FilesInOrder
<1>3. PruningOld'
  BY DEF IInv, PruningOld, Behind
<1>4. WholeOrBehind'
  <2> SUFFICES ASSUME NEW r \in Runs,
                      outcome[r] = "succeeded" \/ (r = running /\ step \in {"list", "delete"})
               PROVE  Whole(r)' \/ Behind(r)'
    BY DEF WholeOrBehind
  <2>1. Whole(r) \/ Behind(r)
    BY DEF IInv, WholeOrBehind
  <2>2. CASE r = b
    BY <2>2 DEF IInv, PruningOld, IsNext, Behind
  <2>3. CASE r # b
    BY <2>1, <2>3 DEF IInv, TypeOK, Whole, Behind
  <2> QED BY <2>2, <2>3
<1> QED BY <1>1, <1>2, <1>3, <1>4 DEF IInv

\* The Release went first, and every build behind KEEP newer tags still is.
LEMMA DeleteTagKeeps ==
  ASSUME IInv, NEW b \in Runs, DeleteTag(b)
  PROVE  IInv'
<1> USE DEF DeleteTag, runVars, signVars, pruneVars
<1>0. b \in old /\ Behind(b) /\ tags \subseteq Runs
  BY DEF IInv, TypeOK, PruningOld, IsNext
<1>1. tags' = tags \ {b} /\ b \notin releases
  BY DEF IInv, PruningOld, ReleaseGone
<1>2. \A r \in Runs : Behind(r) => Behind(r)'
  BY <1>0, <1>1, BehindSurvivesDeletion
<1>3. TypeOK'
  BY <1>1 DEF IInv, TypeOK
<1>4. OneAtWork' /\ FilesInOrder'
  BY DEF IInv, OneAtWork, FilesInOrder
<1>5. PruningOld'
  <2>1. \A c \in old' : Behind(c)'
    BY <1>2 DEF IInv, TypeOK, PruningOld
  <2>2. Cardinality(tags' \ old') <= Keep
    <3>1. tags' \ old' \subseteq tags \ old /\ tags \ old \subseteq Runs
      BY <1>0, <1>1
    <3>2. /\ Cardinality(tags' \ old') \in Nat /\ Cardinality(tags \ old) \in Nat
          /\ Cardinality(tags' \ old') <= Cardinality(tags \ old)
      BY <3>1, Counting
    <3>3. Cardinality(tags \ old) <= Keep
      BY DEF IInv, PruningOld
    <3> QED BY <3>2, <3>3, KeepAssumption
  <2> QED BY <1>1, <2>1, <2>2 DEF IInv, PruningOld
<1>6. WholeOrBehind'
  <2> SUFFICES ASSUME NEW r \in Runs,
                      outcome[r] = "succeeded" \/ (r = running /\ step \in {"list", "delete"})
               PROVE  Whole(r)' \/ Behind(r)'
    BY DEF WholeOrBehind
  <2>1. Whole(r) \/ Behind(r)
    BY DEF IInv, WholeOrBehind
  <2>2. CASE Behind(r)
    BY <1>2, <2>2
  <2>3. CASE Whole(r)
    BY <1>1, <2>3 DEF Whole
  <2> QED BY <2>1, <2>2, <2>3
<1> QED BY <1>3, <1>4, <1>5, <1>6 DEF IInv

\* A run that succeeds is whole or behind already.
LEMMA EndKeeps ==
  ASSUME IInv, Succeed \/ Fail
  PROVE  IInv'
<1> USE DEF End, github
<1>0. PICK result \in {"failed", "succeeded"} :
        End(result) /\ (result = "succeeded" => step = "delete")
  BY DEF Succeed, Fail
<1>1. running \in Runs
  BY DEF IInv, TypeOK, OneAtWork, Succeed, Fail
<1>2. TypeOK'
  BY <1>0, <1>1 DEF IInv, TypeOK
<1>3. OneAtWork'
  <2>1. ASSUME NEW r \in Runs, r >= upcoming PROVE outcome'[r] = "none"
    <3>1. running < upcoming /\ running \in Nat /\ r \in Nat /\ upcoming \in Nat
      <4>1. running # None
        BY <1>1, RunsAssumption DEF Runs
      <4> QED BY <4>1, <1>1, RunsAreNaturals DEF IInv, TypeOK, OneAtWork
    <3>2. r # running
      BY <2>1, <3>1
    <3>3. outcome'[r] = outcome[r]
      BY <1>0, <3>2 DEF IInv, TypeOK
    <3> QED BY <2>1, <3>3 DEF IInv, OneAtWork
  <2>2. upcoming' = upcoming /\ running' = None /\ step' = "idle"
    BY <1>0
  <2> QED BY <2>1, <2>2 DEF OneAtWork
<1>4. FilesInOrder' /\ PruningOld'
  BY <1>0 DEF IInv, FilesInOrder, PruningOld
<1>5. \A r \in Runs : outcome'[r] = "succeeded" =>
        outcome[r] = "succeeded" \/ (r = running /\ step \in {"list", "delete"})
  BY <1>0, <1>1 DEF IInv, TypeOK
<1>6. WholeOrBehind'
  BY <1>0, <1>5, QuietSteps DEF IInv
<1> QED BY <1>2, <1>3, <1>4, <1>6 DEF IInv

\* Every step preserves the invariant.
LEMMA StepKeeps == IInv /\ [Next]_vars => IInv'
<1> SUFFICES ASSUME IInv, [Next]_vars PROVE IInv'
  OBVIOUS
<1>1. ASSUME NEW r \in Runs, Begin(r) \/ Repeat(r) PROVE IInv'
  BY <1>1, BeginKeeps, RepeatKeeps
<1>2. CASE Tag \/ Checkout \/ Attach
  BY <1>2, TagKeeps, CheckoutKeeps, AttachKeeps
<1>3. ASSUME NEW i \in Images, Sign(i) PROVE IInv'
  BY <1>3, SignKeeps
<1>4. ASSUME NEW f \in Assets, Clobber(f) \/ Upload(f) PROVE IInv'
  BY <1>4, ClobberKeeps, UploadKeeps
<1>5. CASE ListTags \/ ListReleases
  BY <1>5, ListTagsKeeps, ListReleasesKeeps
<1>6. ASSUME NEW b \in Runs, DeleteRelease(b) \/ DeleteTag(b) PROVE IInv'
  BY <1>6, DeleteReleaseKeeps, DeleteTagKeeps
<1>7. CASE Succeed \/ Fail
  BY <1>7, EndKeeps
<1>8. CASE UNCHANGED vars
  BY <1>8 DEF vars, github, runVars, signVars, pruneVars, IInv, TypeOK, OneAtWork,
             FilesInOrder, PruningOld, WholeOrBehind, Whole, Behind
<1> QED BY <1>1, <1>2, <1>3, <1>4, <1>5, <1>6, <1>7, <1>8 DEF Next

-----------------------------------------------------------------------------
(* The results.                                                            *)

\* The strengthened invariant holds always: files are uploaded only when all
\* are signed, the lists are complete, and only builds behind KEEP newer tags
\* are deleted, by runs that fail or stop at any step and may be repeated.
THEOREM InductiveInvariant == Spec => []IInv
<1>1. Init => IInv
  BY InitEstablishes
<1>2. IInv /\ [Next]_vars => IInv'
  BY StepKeeps
<1> QED BY <1>1, <1>2, PTL DEF Spec

\* A build that succeeded keeps its tag, its Release and all its files while
\* fewer than KEEP newer tags exist.
THEOREM NewestAlwaysKept == Spec => []KeepsNewest
<1>1. IInv => KeepsNewest
  <2> SUFFICES ASSUME IInv, NEW r \in Runs, outcome[r] = "succeeded",
                      Cardinality({t \in tags : t > r}) < Keep
               PROVE  Whole(r)
    BY DEF KeepsNewest, Whole
  <2>1. Cardinality({t \in tags : t > r}) \in Nat
    BY Counting DEF IInv, TypeOK
  <2>2. ~Behind(r)
    BY <2>1, KeepAssumption DEF Behind
  <2> QED BY <2>2 DEF IInv, WholeOrBehind
<1> QED BY <1>1, InductiveInvariant, PTL

\* No Release outlives its tag, and a run that succeeds leaves at most KEEP
\* builds, whatever the runs before it left half-done.
THEOREM LeftoversAlwaysGo == Spec => LeftoversGo
<1> DEFINE Goes == /\ releases' \subseteq tags'
                   /\ Succeed => Cardinality(tags \cup releases) <= Keep
<1>1. IInv /\ IInv' /\ [Next]_vars => [Goes]_vars
  <2> SUFFICES ASSUME IInv, IInv' PROVE Goes
    OBVIOUS
  <2>1. releases' \subseteq tags'
    BY DEF IInv, PruningOld
  <2>2. ASSUME Succeed PROVE Cardinality(tags \cup releases) <= Keep
    <3>1. step = "delete" /\ old = {}
      BY <2>2 DEF Succeed
    <3>2. tags \cup releases = tags \ old
      BY <3>1 DEF IInv, PruningOld
    <3> QED BY <3>1, <3>2 DEF IInv, PruningOld
  <2> QED BY <2>1, <2>2
<1>2. Spec => [][Goes]_vars
  <2> HIDE DEF Goes
  <2> QED BY <1>1, InductiveInvariant, PTL DEF Spec
<1> QED BY <1>2 DEF LeftoversGo
=============================================================================
