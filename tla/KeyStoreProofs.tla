---------------------------- MODULE KeyStoreProofs ----------------------------
(***************************************************************************)
(* Proofs about KeyStore for any key sets, inodes, refresh, and number of  *)
(* writes: IInv is inductive, however the host's changes fall between the  *)
(* calls of the lookups.                                                   *)
(***************************************************************************)
EXTENDS KeyStore, TLAPS

\* The type of one file, and its fingerprint's.
FileType == [content : Versions \cup {Broken}, modified : Stamps, readable : BOOLEAN]

\* Any file of the system has it.
LEMMA FileIsTyped ==
  ASSUME TypeOK, NEW i \in Inodes
  PROVE  /\ file[i] \in FileType
         /\ FingerprintOf(i) \in Fingerprint
         /\ FingerprintOf(i).inode = i /\ FingerprintOf(i).modified = file[i].modified
<1>1. file[i] \in FileType
  BY DEF TypeOK, FileType
<1>2. LenOf(file[i].content) \in {"whole", "part"}
  BY DEF LenOf
<1> QED BY <1>1, <1>2 DEF FileType, FingerprintOf, Fingerprint

\* The first keys are those of the first file.
LEMMA InitEstablishes == Init => IInv
<1> SUFFICES ASSUME Init PROVE IInv
  OBVIOUS
<1>0. PICK v \in Versions :
        /\ file = [i \in Inodes |-> [content |-> IF i = path THEN v ELSE Broken,
                                     modified |-> 0, readable |-> TRUE]]
        /\ loaded = [at |-> 0, fingerprint |-> FingerprintOf(path), keys |-> v]
  BY DEF Init
<1> USE BoundAssumption, ValueAssumption DEF Init
<1>1. file \in [Inodes -> FileType]
  BY <1>0 DEF FileType, Stamps
<1>2. FingerprintOf(path) \in Fingerprint /\ FingerprintOf(path).inode = path
  <2>1. file[path] = [content |-> v, modified |-> 0, readable |-> TRUE]
    BY <1>0
  <2>2. LenOf(v) \in {"whole", "part"}
    BY DEF LenOf
  <2> QED BY <2>1, <2>2 DEF FingerprintOf, Fingerprint, Stamps
<1>3. TypeOK
  <2>1. loaded \in Loaded
    BY <1>0, <1>2 DEF Loaded, Times
  <2>2. answer \in [keys : Versions \cup {"unavailable", "none"}, at : Times]
    BY DEF Times
  <2>3. lastSeen \in [Versions -> Times]
    BY DEF Times
  <2>4. print \in Fingerprint \cup {NoPrint}
    OBVIOUS
  <2>5. now \in Times /\ writes \in 0..MaxWrites
    BY DEF Times
  <2> QED BY <1>1, <2>1, <2>2, <2>3, <2>4, <2>5 DEF TypeOK, FileType
<1>4. LastSeenKept
  BY DEF LastSeenKept
<1>5. StampsPast
  <2>1. \A i \in Inodes : file[i].modified = 0
    BY <1>0
  <2> QED BY <1>0, <2>1 DEF StampsPast, FingerprintOf
<1>6. CacheGenuine
  <2>1. loaded.at = 0 /\ loaded.keys = v /\ loaded.fingerprint = FingerprintOf(path)
    BY <1>0
  <2>2. \A i \in Inodes : FingerprintOf(i) = FingerprintOf(path) => i = path
    BY DEF FingerprintOf
  <2>3. file[path].content = v
    BY <1>0
  <2> QED BY <2>1, <2>2, <2>3 DEF CacheGenuine
<1>7. LookupInStep
  BY DEF LookupInStep
<1>8. NeverOutdated /\ BoundedStaleness /\ RejectsOnlyBroken
  BY DEF NeverOutdated, BoundedStaleness, RejectsOnlyBroken, Answered
<1> QED BY <1>3, <1>4, <1>5, <1>6, <1>7, <1>8 DEF IInv

-----------------------------------------------------------------------------
(* The host.                                                               *)

\* A change of the host, with what every one of them keeps: the clock stands
\* during a lookup, a changed file has a time as new as distinct says, and the
\* file that a lookup has open changes only while it is the path's.
LEMMA ChangesStep ==
  ASSUME IInv,
         NEW p \in Inodes \cup {Absent}, NEW f \in [Inodes -> FileType], NEW t \in Times,
         Changes(p, f, t),
         t = now \/ (pc = "idle" /\ t = now + 1),
         writes' \in 0..MaxWrites, writes <= writes',
         distinct' \in BOOLEAN, distinct' => distinct,
         \A i \in Inodes :
           /\ f[i].modified <= writes'
           /\ \/ f[i].content = file[i].content /\ f[i].modified = file[i].modified
              \/ distinct' => writes < f[i].modified,
         opened # Absent /\ p # opened => f[opened].content = file[opened].content
  PROVE  IInv'
<1> USE DEF Changes, lookupVars
<1>1. now <= t /\ now \in Nat /\ t \in Nat
  BY BoundAssumption DEF IInv, TypeOK, Times
<1>2. /\ lastSeen' \in [Versions -> Times]
      /\ \A v \in Versions : lastSeen[v] <= lastSeen'[v] /\ lastSeen'[v] <= t
      /\ \A v \in Versions : Gives(p, f) = <<v, TRUE>> => lastSeen'[v] = t
      /\ \A v \in Versions : lastSeen[v] \in Nat /\ lastSeen'[v] \in Nat
      /\ \A v \in Versions : lastSeen'[v] \in {t, lastSeen[v]}
  <2>1. lastSeen' = [v \in Versions |-> IF Gives(p, f) = <<v, TRUE>> THEN t ELSE lastSeen[v]]
    OBVIOUS
  <2>2. \A v \in Versions : lastSeen[v] \in Times /\ lastSeen[v] <= now
    BY DEF IInv, TypeOK, LastSeenKept
  <2>3. \A v \in Versions : lastSeen[v] \in Nat
    BY <2>2, BoundAssumption DEF Times
  <2> HIDE DEF Changes
  <2>4. lastSeen' \in [Versions -> Times]
    BY <2>1, <2>2
  <2>5. ASSUME NEW v \in Versions
        PROVE  /\ Gives(p, f) = <<v, TRUE>> => lastSeen'[v] = t
               /\ Gives(p, f) # <<v, TRUE>> => lastSeen'[v] = lastSeen[v]
    BY <2>1
  <2>6. ASSUME NEW v \in Versions
        PROVE  lastSeen[v] <= lastSeen'[v] /\ lastSeen'[v] <= t /\ lastSeen'[v] \in Nat
    <3>1. lastSeen'[v] = t \/ lastSeen'[v] = lastSeen[v]
      BY <2>5
    <3>2. lastSeen[v] \in Nat /\ lastSeen[v] <= now
      BY <2>2, <2>3
    <3> QED BY <1>1, <3>1, <3>2
  <2> QED BY <2>3, <2>4, <2>5, <2>6
<1>3. Gives(p, f) \in (Versions \cup {Broken}) \X BOOLEAN
  BY DEF Gives, FileType
<1>4. during \subseteq during' /\ during' \subseteq (Versions \cup {Broken}) \X BOOLEAN
  BY <1>3 DEF IInv, TypeOK
<1>5. TypeOK'
  BY <1>2, <1>4 DEF IInv, TypeOK, FileType
<1>6. LastSeenKept'
  BY <1>2 DEF LastSeenKept, Gives
<1>7. StampsPast'
  <2>1. writes \in Nat /\ writes' \in Nat
    BY BoundAssumption DEF IInv, TypeOK
  <2>2. loaded # None => loaded.fingerprint.modified \in Nat
    BY BoundAssumption DEF IInv, TypeOK, Loaded, Fingerprint, Stamps
  <2>3. pc = "read" => print.modified \in Nat
    BY BoundAssumption DEF IInv, LookupInStep, Fingerprint, Stamps
  <2> QED BY <2>1, <2>2, <2>3 DEF IInv, StampsPast
<1>8. CacheGenuine'
  <2> SUFFICES ASSUME loaded # None
               PROVE  /\ loaded.at <= t /\ loaded.at <= lastSeen'[loaded.keys]
                      /\ distinct' => \A i \in Inodes :
                           FingerprintOf(i)' = loaded.fingerprint => f[i].content = loaded.keys
    BY DEF CacheGenuine
  <2>1. loaded \in Loaded
    BY DEF IInv, TypeOK
  <2>2. loaded.at <= t /\ loaded.at <= lastSeen'[loaded.keys]
    <3>1. loaded.at \in Nat /\ loaded.keys \in Versions
      BY <2>1, BoundAssumption DEF Loaded, Times
    <3>2. lastSeen[loaded.keys] \in Nat /\ lastSeen'[loaded.keys] \in Nat
      BY <3>1, <1>2
    <3>3. loaded.at <= now /\ loaded.at <= lastSeen[loaded.keys]
      BY DEF IInv, CacheGenuine
    <3> HIDE DEF Changes
    <3> QED BY <1>1, <1>2, <3>1, <3>2, <3>3
  <2>3. ASSUME distinct', NEW i \in Inodes, FingerprintOf(i)' = loaded.fingerprint
        PROVE  f[i].content = loaded.keys
    <3>1. f[i].modified = loaded.fingerprint.modified
      BY <2>3 DEF FingerprintOf
    <3>2. f[i].modified <= writes /\ writes \in Nat /\ f[i].modified \in Nat
      BY <3>1, BoundAssumption DEF IInv, TypeOK, StampsPast, FileType, Stamps
    <3>3. f[i].content = file[i].content /\ f[i].modified = file[i].modified
      BY <2>3, <3>2
    <3>4. FingerprintOf(i) = loaded.fingerprint
      BY <2>3, <3>3 DEF FingerprintOf
    <3> QED BY <2>3, <3>3, <3>4 DEF IInv, CacheGenuine
  <2> QED BY <2>2, <2>3
<1>9. LookupInStep'
  <2>1. pc # "idle" => t = now /\ Gives(p, f) \in during' /\ during' = during \cup {Gives(p, f)}
    OBVIOUS
  <2>2. ASSUME pc \in {"fstat", "read"}
        PROVE  /\ <<f[opened].content, TRUE>> \in during'
               /\ f[opened].content \in Versions => lastSeen'[f[opened].content] = now
    <3>1. opened \in Inodes /\ opened # Absent
      BY <2>2, ValueAssumption DEF IInv, LookupInStep
    <3>2. CASE p = opened
      <4>1. Gives(p, f) = <<f[opened].content, TRUE>>
        BY <3>1, <3>2 DEF Gives, FileType
      <4> QED BY <2>1, <2>2, <4>1, <1>2
    <3>3. CASE p # opened
      BY <3>1, <3>3, <2>1, <2>2, <1>2, <1>4 DEF IInv, LookupInStep
    <3> QED BY <3>2, <3>3
  <2> QED BY <2>1, <2>2 DEF IInv, LookupInStep, Gives
<1>10. NeverOutdated' /\ RejectsOnlyBroken'
  BY <1>4 DEF IInv, NeverOutdated, RejectsOnlyBroken, Answered
<1>11. BoundedStaleness'
  <2> SUFFICES ASSUME Answered PROVE answer.at < lastSeen'[answer.keys] + Refresh
    BY DEF BoundedStaleness, Answered
  <2>1. answer.at \in Nat /\ answer.keys \in Versions
    BY BoundAssumption DEF IInv, TypeOK, Times, Answered
  <2>2. answer.at < lastSeen[answer.keys] + Refresh
    BY DEF IInv, BoundedStaleness
  <2> HIDE DEF Changes
  <2> QED BY <1>2, <2>1, <2>2, RefreshAssumption
<1> QED BY <1>5, <1>6, <1>7, <1>8, <1>9, <1>10, <1>11 DEF IInv

\* A write is the next one, and distinct if its time is.
LEMMA WriteStamps ==
  ASSUME IInv, NEW t \in 0..(writes + 1), Write(t)
  PROVE  /\ writes' \in 0..MaxWrites /\ writes <= writes' /\ t \in Stamps /\ t <= writes'
         /\ distinct' \in BOOLEAN /\ (distinct' => distinct)
         /\ distinct' => writes < t
         /\ \A i \in Inodes : file[i] \in FileType /\ file[i].modified <= writes'
<1>1. writes \in Nat /\ writes + 1 <= MaxWrites /\ writes' = writes + 1
  BY BoundAssumption DEF IInv, TypeOK, Write
<1>2. distinct \in BOOLEAN /\ distinct' = (distinct /\ t = writes')
  BY DEF IInv, TypeOK, Write
<1>3. \A i \in Inodes : file[i] \in FileType /\ file[i].modified <= writes
  BY FileIsTyped DEF IInv, StampsPast
<1>4. \A i \in Inodes : file[i].modified \in Nat
  BY <1>3 DEF FileType, Stamps
<1>5. writes' \in 0..MaxWrites /\ writes <= writes' /\ t \in Stamps /\ t <= writes'
  BY <1>1, BoundAssumption DEF Stamps
<1>6. distinct' \in BOOLEAN /\ (distinct' => distinct)
  BY <1>2
<1>7. distinct' => writes < t
  <2>1. distinct' => t = writes'
    BY <1>2, Zenon
  <2>2. writes < writes'
    BY <1>1
  <2> QED BY <2>1, <2>2
<1>8. ASSUME NEW i \in Inodes PROVE file[i].modified <= writes'
  <2>1. file[i].modified \in Nat /\ file[i].modified <= writes
    BY <1>3, <1>4
  <2> QED BY <1>1, <2>1
<1> QED BY <1>3, <1>5, <1>6, <1>7, <1>8

\* A rename puts a new file at the path and leaves an open one alone.
LEMMA ReplaceStep ==
  ASSUME IInv, NEW t \in 0..(writes + 1), NEW v \in Versions, NEW i \in Inodes,
         Replace(i, v, t)
  PROVE  IInv'
<1> DEFINE f == [file EXCEPT ![i] = [content |-> v, modified |-> t, readable |-> TRUE]]
<1>1. Write(t) /\ Changes(i, f, now) /\ i # opened
  BY DEF Replace
<1>2. f \in [Inodes -> FileType]
  BY <1>1, WriteStamps DEF IInv, TypeOK, FileType
<1>3. \A j \in Inodes :
        /\ f[j].modified <= writes'
        /\ \/ f[j].content = file[j].content /\ f[j].modified = file[j].modified
           \/ distinct' => writes < f[j].modified
  BY <1>1, WriteStamps DEF IInv, TypeOK
<1>4. opened # Absent => f[opened].content = file[opened].content
  BY <1>1 DEF IInv, TypeOK
<1>5. now \in Times
  BY DEF IInv, TypeOK
<1>6. writes' \in 0..MaxWrites /\ writes <= writes' /\ distinct' \in BOOLEAN /\ (distinct' => distinct)
  BY <1>1, WriteStamps
<1> HIDE DEF f
<1> QED BY <1>1, <1>2, <1>3, <1>4, <1>5, <1>6, ChangesStep

\* Writing in place changes the file of the path, with a new time.
LEMMA WriteInPlaceStep ==
  ASSUME IInv, NEW t \in 0..(writes + 1), NEW c \in Versions \cup {Broken},
         Write(t), path # Absent,
         Changes(path, [file EXCEPT ![path].content = c, ![path].modified = t], now)
  PROVE  IInv'
<1> DEFINE f == [file EXCEPT ![path].content = c, ![path].modified = t]
<1>1. path \in Inodes /\ file \in [Inodes -> FileType] /\ now \in Times
  BY DEF IInv, TypeOK, FileType
<1>2. f \in [Inodes -> FileType]
  BY <1>1, WriteStamps DEF FileType
<1>3. \A j \in Inodes :
        /\ f[j].modified <= writes'
        /\ \/ f[j].content = file[j].content /\ f[j].modified = file[j].modified
           \/ distinct' => writes < f[j].modified
  BY <1>1, WriteStamps DEF FileType
<1>4. opened # Absent /\ path # opened => f[opened].content = file[opened].content
  BY <1>1 DEF IInv, TypeOK
<1>5. Changes(path, f, now)
  OBVIOUS
<1>6. writes' \in 0..MaxWrites /\ writes <= writes' /\ distinct' \in BOOLEAN /\ (distinct' => distinct)
  BY WriteStamps
<1> HIDE DEF f
<1> QED BY <1>1, <1>2, <1>3, <1>4, <1>5, <1>6, ChangesStep

\* Without a write every file keeps its content and its times.
LEMMA NoWriteStep ==
  ASSUME IInv, NoWrite,
         NEW p \in Inodes \cup {Absent}, NEW f \in [Inodes -> FileType], NEW t \in Times,
         Changes(p, f, t), t = now \/ (pc = "idle" /\ t = now + 1),
         \A i \in Inodes : f[i].content = file[i].content /\ f[i].modified = file[i].modified
  PROVE  IInv'
<1>1. writes' \in 0..MaxWrites /\ writes <= writes' /\ distinct' \in BOOLEAN
  BY BoundAssumption DEF NoWrite, IInv, TypeOK
<1>2. \A i \in Inodes : f[i].modified <= writes'
  BY DEF NoWrite, IInv, StampsPast
<1>3. opened # Absent => f[opened].content = file[opened].content
  BY DEF IInv, TypeOK
<1> QED BY <1>1, <1>2, <1>3, ChangesStep DEF NoWrite

\* Every change of the host.
LEMMA HostStep == ASSUME IInv, Host PROVE IInv'
<1>0. file \in [Inodes -> FileType] /\ path \in Inodes \cup {Absent} /\ now \in Times
  BY DEF IInv, TypeOK, FileType
<1>1. ASSUME NEW t \in 0..(writes + 1), NEW v \in Versions, NEW i \in Inodes, Replace(i, v, t)
      PROVE  IInv'
  BY <1>1, ReplaceStep
<1>2. ASSUME NEW t \in 0..(writes + 1), NEW v \in Versions, Complete(v, t)
      PROVE  IInv'
  BY <1>2, WriteInPlaceStep DEF Complete
<1>3. ASSUME NEW t \in 0..(writes + 1), Truncate(t)
      PROVE  IInv'
  BY <1>3, WriteInPlaceStep DEF Truncate
<1>4. CASE Delete
  BY <1>0, <1>4, NoWriteStep DEF Delete
<1>5. CASE Protect
  <2> DEFINE f == [file EXCEPT ![path].readable = ~@]
  <2>1. NoWrite /\ path # Absent /\ Changes(path, f, now)
    BY <1>5 DEF Protect
  <2>2. f \in [Inodes -> FileType]
    BY <1>0, <2>1 DEF FileType
  <2>3. \A i \in Inodes : f[i].content = file[i].content /\ f[i].modified = file[i].modified
    BY <1>0, <2>1 DEF FileType
  <2> HIDE DEF f
  <2> QED BY <1>0, <2>1, <2>2, <2>3, NoWriteStep
<1>6. CASE Tick
  <2>1. now + 1 \in Times
    BY <1>0, <1>6, BoundAssumption DEF Tick, Times
  <2> QED BY <1>0, <1>6, <2>1, NoWriteStep DEF Tick
<1> QED BY <1>1, <1>2, <1>3, <1>4, <1>5, <1>6 DEF Host

-----------------------------------------------------------------------------
(* The lookup.                                                             *)

\* What the path gives without an open file, and what the host's part of IInv
\* says of it.
LEMMA GivesOfPath ==
  ASSUME IInv
  PROVE  /\ Gives(path, file) \in (Versions \cup {Broken}) \X BOOLEAN
         /\ path = Absent => Gives(path, file) = <<Broken, TRUE>>
         /\ path # Absent => /\ path \in Inodes /\ file[path] \in FileType
                             /\ Gives(path, file) = <<file[path].content,
                                                      file[path].readable \/ opened = path>>
BY FileIsTyped DEF IInv, TypeOK, Gives, FileType

\* A lookup that begins: refused without a file, answered from the cache if
\* it looks like the file and is young, and otherwise a load without a cache.
LEMMA StatStep == ASSUME IInv, Stat PROVE IInv'
<1> USE DEF hostVars
<1>0. /\ pc = "idle" /\ during' = {Gives(path, file)} /\ opened = Absent /\ opened' = opened
      /\ UNCHANGED <<path, file, now, writes, distinct, lastSeen, print>>
  BY DEF Stat, IInv, LookupInStep
<1>1. LastSeenKept' /\ Gives(path, file)' = Gives(path, file)
  BY <1>0 DEF IInv, LastSeenKept, Gives
<1>2. during' \subseteq (Versions \cup {Broken}) \X BOOLEAN
  BY <1>0, GivesOfPath
<1>3. CASE path = Absent /\ Return("unavailable") /\ UNCHANGED loaded
  <2> USE <1>3 DEF Return
  <2>1. TypeOK'
    BY <1>0, <1>2 DEF IInv, TypeOK
  <2>2. StampsPast' /\ CacheGenuine'
    BY <1>0 DEF IInv, StampsPast, CacheGenuine, FingerprintOf
  <2>3. LookupInStep'
    BY <1>0 DEF LookupInStep
  <2>4. NeverOutdated' /\ BoundedStaleness'
    BY ValueAssumption DEF NeverOutdated, BoundedStaleness, Answered
  <2>5. RejectsOnlyBroken'
    BY <1>0, GivesOfPath DEF RejectsOnlyBroken
  <2> QED BY <1>1, <2>1, <2>2, <2>3, <2>4, <2>5 DEF IInv
<1>4. CASE path # Absent /\ Fresh(FingerprintOf(path)) /\ Return(loaded.keys) /\ UNCHANGED loaded
  <2> USE <1>4 DEF Return
  <2>1. /\ loaded # None /\ loaded \in Loaded /\ loaded.keys \in Versions /\ loaded.at \in Times
        /\ loaded.fingerprint = FingerprintOf(path) /\ now - loaded.at < Refresh
    <3>1. loaded # None /\ loaded.fingerprint = FingerprintOf(path) /\ ~(now - loaded.at >= Refresh)
      BY DEF Fresh, Matches, Expired
    <3>2. loaded \in Loaded
      BY <3>1 DEF IInv, TypeOK
    <3>3. loaded.keys \in Versions /\ loaded.at \in Times
      BY <3>2 DEF Loaded
    <3>4. now \in Nat /\ loaded.at \in Nat
      BY <3>3, BoundAssumption DEF IInv, TypeOK, Times
    <3> QED BY <3>1, <3>2, <3>3, <3>4, RefreshAssumption
  <2>2. answer' = [keys |-> loaded.keys, at |-> now]
    OBVIOUS
  <2>3. TypeOK'
    BY <1>0, <1>2, <2>1, <2>2 DEF IInv, TypeOK
  <2>4. StampsPast' /\ CacheGenuine'
    BY <1>0 DEF IInv, StampsPast, CacheGenuine, FingerprintOf
  <2>5. LookupInStep'
    BY <1>0 DEF LookupInStep
  <2>6. NeverOutdated'
    <3> SUFFICES ASSUME distinct
                 PROVE  \E r \in BOOLEAN : <<loaded.keys, r>> \in during'
      BY <1>0, <2>2 DEF NeverOutdated, Answered
    <3>1. path \in Inodes /\ file[path].content = loaded.keys
      BY <2>1, GivesOfPath DEF IInv, CacheGenuine
    <3> QED BY <1>0, <3>1, GivesOfPath
  <2>7. BoundedStaleness'
    <3>1. loaded.at <= lastSeen[loaded.keys]
      BY <2>1 DEF IInv, CacheGenuine
    <3>2. now \in Nat /\ loaded.at \in Nat /\ lastSeen[loaded.keys] \in Nat
      BY <2>1, BoundAssumption DEF IInv, TypeOK, Times
    <3>3. now < lastSeen[loaded.keys] + Refresh
      BY <2>1, <3>1, <3>2, RefreshAssumption
    <3> QED BY <1>0, <2>2, <3>3 DEF BoundedStaleness
  <2>8. RejectsOnlyBroken'
    BY <2>1, <2>2, ValueAssumption DEF RejectsOnlyBroken
  <2> QED BY <1>1, <2>3, <2>4, <2>5, <2>6, <2>7, <2>8 DEF IInv
<1>5. CASE pc' = "open" /\ loaded' = Forgotten /\ answer' = [keys |-> "none", at |-> now]
  <2> USE <1>5 DEF Forgotten
  <2>1. TypeOK'
    BY <1>0, <1>2 DEF IInv, TypeOK
  <2>2. StampsPast' /\ CacheGenuine'
    BY <1>0 DEF IInv, StampsPast, CacheGenuine
  <2>3. LookupInStep'
    BY <1>0, <1>1 DEF LookupInStep
  <2>4. NeverOutdated' /\ BoundedStaleness' /\ RejectsOnlyBroken'
    BY ValueAssumption DEF NeverOutdated, BoundedStaleness, RejectsOnlyBroken, Answered
  <2> QED BY <1>1, <2>1, <2>2, <2>3, <2>4 DEF IInv
<1> QED BY <1>3, <1>4, <1>5 DEF Stat

\* Opening follows the path again; what it opens the path gives now.
LEMMA OpenStep == ASSUME IInv, Open PROVE IInv'
<1> USE DEF hostVars
<1>0. /\ pc = "open" /\ loaded = None /\ opened = Absent /\ Gives(path, file) \in during
      /\ UNCHANGED <<path, file, now, writes, distinct, lastSeen, print, loaded, during>>
  BY DEF Open, IInv, TypeOK, LookupInStep
<1>1. StampsPast' /\ CacheGenuine'
  BY <1>0 DEF Open, Return, IInv, StampsPast, CacheGenuine
<1>2. CASE CanOpen(path) /\ opened' = path /\ pc' = "fstat" /\ UNCHANGED answer
  <2> USE <1>2 DEF CanOpen
  <2>1. /\ path \in Inodes /\ file[path].readable = TRUE
        /\ Gives(path, file) = <<file[path].content, TRUE>>
    BY GivesOfPath DEF FileType
  <2>2. Gives(path, file)' = Gives(path, file)
    BY <1>0, <2>1 DEF Gives
  <2>3. TypeOK'
    BY <1>0, <2>1 DEF IInv, TypeOK
  <2>4. LastSeenKept'
    BY <1>0, <2>2 DEF IInv, LastSeenKept
  <2>5. LookupInStep'
    BY <1>0, <2>1, <2>2 DEF IInv, LookupInStep, LastSeenKept
  <2>6. NeverOutdated' /\ BoundedStaleness' /\ RejectsOnlyBroken'
    BY <1>0 DEF IInv, NeverOutdated, BoundedStaleness, RejectsOnlyBroken, Answered
  <2> QED BY <1>1, <2>3, <2>4, <2>5, <2>6 DEF IInv
<1>3. CASE ~CanOpen(path) /\ Return("unavailable") /\ UNCHANGED opened
  <2> USE <1>3 DEF Return
  <2>1. TypeOK'
    BY <1>0 DEF IInv, TypeOK
  <2>2. LastSeenKept'
    BY <1>0 DEF IInv, LastSeenKept, Gives
  <2>3. LookupInStep'
    BY <1>0 DEF LookupInStep
  <2>4. NeverOutdated' /\ BoundedStaleness'
    BY ValueAssumption DEF NeverOutdated, BoundedStaleness, Answered
  <2>5. Gives(path, file)[1] = Broken \/ ~Gives(path, file)[2]
    <3>1. CASE path = Absent
      BY <3>1, GivesOfPath
    <3>2. CASE path # Absent
      <4>1. Gives(path, file) = <<file[path].content, file[path].readable \/ opened = path>>
        BY <3>2, GivesOfPath
      <4>2. ~file[path].readable /\ opened # path
        BY <1>0, <3>2 DEF CanOpen
      <4>3. (file[path].readable \/ opened = path) = FALSE
        BY <4>2
      <4>4. Gives(path, file) = <<file[path].content, FALSE>>
        BY <4>1, <4>3, Zenon
      <4> QED BY <4>4
    <3> QED BY <3>1, <3>2
  <2>6. RejectsOnlyBroken'
    BY <1>0, <2>5 DEF RejectsOnlyBroken
  <2> QED BY <1>1, <2>1, <2>2, <2>3, <2>4, <2>6 DEF IInv
<1> QED BY <1>2, <1>3 DEF Open

\* The fingerprint is that of the open file, not of the path.
LEMMA FstatStep == ASSUME IInv, Fstat PROVE IInv'
<1> USE DEF Fstat, hostVars
<1>1. opened \in Inodes /\ loaded = None
  BY DEF IInv, TypeOK, LookupInStep
<1>2. /\ print' \in Fingerprint /\ print'.inode = opened
      /\ print'.modified = file[opened].modified
  BY <1>1, FileIsTyped DEF IInv
<1>3. TypeOK'
  BY <1>2 DEF IInv, TypeOK
<1>4. LastSeenKept' /\ CacheGenuine'
  BY <1>1 DEF IInv, LastSeenKept, CacheGenuine, Gives
<1>5. StampsPast'
  BY <1>1, <1>2 DEF IInv, StampsPast
<1>6. LookupInStep'
  BY <1>1, <1>2 DEF IInv, LookupInStep, Gives
<1>7. NeverOutdated' /\ BoundedStaleness' /\ RejectsOnlyBroken'
  BY DEF IInv, NeverOutdated, BoundedStaleness, RejectsOnlyBroken, Answered
<1> QED BY <1>3, <1>4, <1>5, <1>6, <1>7 DEF IInv

\* What was read the path has given since the lookup began.
LEMMA ReadStep == ASSUME IInv, Read PROVE IInv'
<1> USE DEF hostVars
<1> DEFINE c == file[opened].content
<1>0. /\ pc = "read" /\ opened' = Absent /\ print' = NoPrint
      /\ UNCHANGED <<path, file, now, writes, distinct, lastSeen, during>>
  BY DEF Read
<1>1. /\ loaded = None /\ opened \in Inodes /\ print \in Fingerprint /\ print.inode = opened
      /\ print.modified <= writes /\ c \in Versions \cup {Broken}
      /\ <<c, TRUE>> \in during /\ (c \in Versions => lastSeen[c] = now)
  BY <1>0, FileIsTyped DEF IInv, TypeOK, LookupInStep, StampsPast, FileType
<1>2. LastSeenKept'
  <2>1. ASSUME NEW v \in Versions, Gives(path, file)' = <<v, TRUE>>
        PROVE  Gives(path, file) = <<v, TRUE>>
    BY <1>0, <2>1, GivesOfPath DEF Gives, FileType
  <2> QED BY <1>0, <2>1 DEF IInv, LastSeenKept
<1>3. CASE ~Invalid(c) /\ loaded' = [at |-> now, fingerprint |-> print, keys |-> c] /\ Return(c)
  <2> USE <1>3 DEF Return
  <2>1. c \in Versions
    BY <1>1 DEF Invalid
  <2>2. loaded' \in Loaded /\ answer' = [keys |-> c, at |-> now] /\ now \in Times
    BY <1>1, <2>1 DEF Loaded, IInv, TypeOK
  <2> HIDE DEF c
  <2>3. TypeOK'
    BY <1>0, <2>1, <2>2 DEF IInv, TypeOK
  <2>4. StampsPast'
    BY <1>0, <1>1 DEF IInv, StampsPast
  <2>5. CacheGenuine'
    <3>1. \A i \in Inodes : FingerprintOf(i)' = print => file'[i].content = c
      BY <1>0, <1>1 DEF FingerprintOf, c
    <3>2. now <= now /\ now <= lastSeen[c]
      BY <1>1, <2>1, <2>2, BoundAssumption DEF Times
    <3> QED BY <1>0, <3>1, <3>2 DEF CacheGenuine
  <2>6. LookupInStep'
    BY <1>0 DEF LookupInStep
  <2>7. NeverOutdated'
    <3>1. <<c, TRUE>> \in during' /\ answer'.keys = c
      BY <1>0, <1>1, <2>2
    <3> QED BY <3>1 DEF NeverOutdated
  <2>8. BoundedStaleness'
    <3>1. now < lastSeen[c] + Refresh
      BY <1>1, <2>1, <2>2, BoundAssumption, RefreshAssumption DEF Times
    <3> QED BY <1>0, <2>2, <3>1 DEF BoundedStaleness
  <2>9. RejectsOnlyBroken'
    BY <2>1, <2>2, ValueAssumption DEF RejectsOnlyBroken
  <2> QED BY <1>2, <2>3, <2>4, <2>5, <2>6, <2>7, <2>8, <2>9 DEF IInv
<1>4. CASE Invalid(c) /\ Return("unavailable") /\ UNCHANGED loaded
  <2> USE <1>4 DEF Return
  <2>1. TypeOK'
    BY <1>0 DEF IInv, TypeOK
  <2>2. StampsPast' /\ CacheGenuine'
    BY <1>0, <1>1 DEF IInv, StampsPast, CacheGenuine
  <2>3. LookupInStep'
    BY <1>0 DEF LookupInStep
  <2>4. NeverOutdated' /\ BoundedStaleness'
    BY ValueAssumption DEF NeverOutdated, BoundedStaleness, Answered
  <2>5. RejectsOnlyBroken'
    BY <1>0, <1>1 DEF RejectsOnlyBroken, Invalid
  <2> QED BY <1>2, <2>1, <2>2, <2>3, <2>4, <2>5 DEF IInv
<1> QED BY <1>3, <1>4 DEF Read

-----------------------------------------------------------------------------
(* The theorems.                                                           *)

\* IInv holds in every state of every execution.
THEOREM InductiveInvariant == Spec => []IInv
<1>1. IInv /\ [Next]_vars => IInv'
  <2> SUFFICES ASSUME IInv, [Next]_vars PROVE IInv'
    OBVIOUS
  <2>1. CASE Host
    BY <2>1, HostStep
  <2>2. CASE Stat \/ Open \/ Fstat \/ Read
    BY <2>2, StatStep, OpenStep, FstatStep, ReadStep
  <2>3. CASE UNCHANGED vars
    BY <2>3 DEF vars, IInv, TypeOK, LastSeenKept, StampsPast, CacheGenuine, LookupInStep,
                NeverOutdated, BoundedStaleness, RejectsOnlyBroken, Answered, Gives,
                FingerprintOf
  <2> QED BY <2>1, <2>2, <2>3 DEF Next
<1> QED BY InitEstablishes, <1>1, PTL DEF Spec

\* While file times are distinct, no lookup answers from keys that the path
\* no longer gave when it began.
THEOREM NeverOutdatedKeys == Spec => []NeverOutdated
BY InductiveInvariant, PTL DEF IInv

\* Whatever the file times are, no answer is older than the refresh.
THEOREM StalenessBounded == Spec => []BoundedStaleness
BY InductiveInvariant, PTL DEF IInv

\* No lookup is refused while the path gives keys to read.
THEOREM RejectionHasReason == Spec => []RejectsOnlyBroken
BY InductiveInvariant, PTL DEF IInv
=============================================================================
