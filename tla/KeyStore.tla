------------------------------ MODULE KeyStore ------------------------------
(***************************************************************************)
(* The verification keys of src/agent/src/auth/jwks.rs: a lookup (key,     *)
(* load) system call by system call, while the host replaces, rewrites,    *)
(* removes or protects the JWKS file and the clock goes on.  A mutex is    *)
(* held through a lookup, so there is one at a time.                       *)
(*                                                                         *)
(* A version of the key set stands for its keys; which of them has the kid *)
(* of the request does not matter here.  The parse accepts a version and   *)
(* rejects Broken, the content of a file that is not a key set.  The clock *)
(* counts in fractions of REFRESH and does not tick within a lookup.       *)
(***************************************************************************)
EXTENDS Naturals

CONSTANTS Versions,  \* valid key sets
          Inodes,    \* inode numbers of the file system
          Refresh,   \* KeyStore.refresh
          MaxTime,   \* bound on the clock
          MaxWrites, \* bound on the writes of the file
          Broken, Absent, None

ASSUME RefreshAssumption == Refresh \in Nat \ {0}
ASSUME BoundAssumption == MaxTime \in Nat /\ MaxWrites \in Nat
ASSUME ValueAssumption == /\ {Broken, Absent, None, "unavailable", "none"} \cap Versions = {}
                          /\ Absent \notin Inodes
                          /\ Broken # Absent /\ Broken # None /\ Absent # None

VARIABLES path,     \* the inode of the JWKS file, or Absent
          file,     \* content, mtime and mode of each inode
          now,      \* the clock
          writes,   \* writes of the file so far
          distinct, \* no two writes gave the same mtime
          pc,       \* the call the lookup makes next
          opened,   \* the inode the lookup opened
          print,    \* the fingerprint of the opened file
          loaded,   \* KeyStore.loaded
          answer,   \* what the last lookup returned, and when
          during,   \* what the path gave since that lookup began
          lastSeen  \* when the path gave each version last

vars == <<path, file, now, writes, distinct, pc, opened, print, loaded,
          answer, during, lastSeen>>
hostVars == <<path, file, now, writes, distinct, lastSeen>>
lookupVars == <<pc, opened, print, loaded, answer>>

Times == 0..MaxTime
Stamps == 0..MaxWrites
Fingerprint == [inode : Inodes, modified : Stamps, len : {"whole", "part"}]
Loaded == [at : Times, fingerprint : Fingerprint, keys : Versions]
NoPrint == [inode |-> Absent]

TypeOK ==
  /\ path \in Inodes \cup {Absent}
  /\ file \in [Inodes -> [content : Versions \cup {Broken}, modified : Stamps,
                          readable : BOOLEAN]]
  /\ now \in Times /\ writes \in 0..MaxWrites /\ distinct \in BOOLEAN
  /\ pc \in {"idle", "open", "fstat", "read"}
  /\ opened \in Inodes \cup {Absent}
  /\ print \in Fingerprint \cup {NoPrint}
  /\ loaded \in Loaded \cup {None}
  /\ answer \in [keys : Versions \cup {"unavailable", "none"}, at : Times]
  /\ during \subseteq (Versions \cup {Broken}) \X BOOLEAN
  /\ lastSeen \in [Versions -> Times]
  /\ pc # "idle" => loaded = None

\* What the path shows: a content, and whether it may be read; the lookup that
\* has the file open may.
Gives(p, f) == IF p = Absent THEN <<Broken, TRUE>>
               ELSE <<f[p].content, f[p].readable \/ opened = p>>

-----------------------------------------------------------------------------
(* Faulty variants, exchanged for the definitions below to show that a     *)
(* property notices.                                                       *)

KeepWhileLoading == loaded
ExpiredLater(l) == now - l.at > Refresh
SameInode(l, fp) == l.fingerprint.inode = fp.inode
ReplacedMeanwhile(c) == c = Broken \/ opened # path

-----------------------------------------------------------------------------
(* The host: who rotates the keys.                                         *)

\* What the rest of the model notes of a change.
Changes(p, f, t) ==
  /\ path' = p /\ file' = f /\ now' = t
  /\ during' = IF pc = "idle" THEN during ELSE during \cup {Gives(p, f)}
  /\ lastSeen' = [v \in Versions |-> IF <<v, TRUE>> = Gives(p, f) THEN t ELSE lastSeen[v]]
  /\ UNCHANGED lookupVars

\* A write stamps the file with a new time, or with one given before: a coarse
\* clock, a time that is copied with the file.
Write(t) ==
  /\ writes < MaxWrites
  /\ writes' = writes + 1
  /\ distinct' = (distinct /\ t = writes')
NoWrite == UNCHANGED <<writes, distinct>>

\* Rename of a new file to the path, as the README asks for; an open file
\* keeps its inode, a freed inode number is given out again.
Replace(i, v, t) ==
  /\ Write(t)
  /\ i # path /\ i # opened
  /\ Changes(i, [file EXCEPT ![i] = [content |-> v, modified |-> t,
                                     readable |-> TRUE]], now)

\* Writing in place: truncated first, complete later.
Truncate(t) ==
  /\ Write(t)
  /\ path # Absent /\ file[path].content # Broken
  /\ Changes(path, [file EXCEPT ![path].content = Broken, ![path].modified = t], now)

Complete(v, t) ==
  /\ Write(t)
  /\ path # Absent /\ file[path].content = Broken
  /\ Changes(path, [file EXCEPT ![path].content = v, ![path].modified = t], now)

Delete == path # Absent /\ NoWrite /\ Changes(Absent, file, now)

\* chmod or an ACL; the times and the length stay.
Protect ==
  /\ NoWrite
  /\ path # Absent
  /\ Changes(path, [file EXCEPT ![path].readable = ~@], now)

Tick ==
  /\ pc = "idle" /\ now < MaxTime
  /\ NoWrite
  /\ Changes(path, file, now + 1)

-----------------------------------------------------------------------------
(* A lookup: key, and load when the cached keys are stale.                 *)

LenOf(c) == IF c = Broken THEN "part" ELSE "whole"

\* Fingerprint::of the metadata of an inode.
FingerprintOf(i) ==
  [inode |-> i, modified |-> file[i].modified, len |-> LenOf(file[i].content)]

Expired(l) == now - l.at >= Refresh
Matches(l, fp) == l.fingerprint = fp
Fresh(fp) == loaded # None /\ Matches(loaded, fp) /\ ~Expired(loaded)

Forgotten == None

Return(keys) == pc' = "idle" /\ answer' = [keys |-> keys, at |-> now]

\* fs::metadata of the path; KeysUnavailable when there is none, else the
\* cached keys, or a load that begins by forgetting them.
Stat ==
  /\ pc = "idle"
  /\ during' = {Gives(path, file)}
  /\ \/ /\ path = Absent
        /\ Return("unavailable")
        /\ UNCHANGED loaded
     \/ /\ path # Absent
        /\ Fresh(FingerprintOf(path))
        /\ Return(loaded.keys)
        /\ UNCHANGED loaded
     \/ /\ path # Absent
        /\ ~Fresh(FingerprintOf(path))
        /\ pc' = "open" /\ loaded' = Forgotten
        /\ answer' = [keys |-> "none", at |-> now]
  /\ UNCHANGED <<opened, print, hostVars>>

\* File::open follows the path again.
CanOpen(i) == i # Absent /\ file[i].readable

Open ==
  /\ pc = "open"
  /\ \/ CanOpen(path) /\ opened' = path /\ pc' = "fstat" /\ UNCHANGED answer
     \/ ~CanOpen(path) /\ Return("unavailable") /\ UNCHANGED opened
  /\ UNCHANGED <<print, loaded, during, hostVars>>

\* file.metadata, of the open file and before it is read.
Fstat ==
  /\ pc = "fstat"
  /\ pc' = "read"
  /\ print' = FingerprintOf(opened)
  /\ UNCHANGED <<opened, loaded, answer, during, hostVars>>

\* Reading and parsing the open file.
Invalid(c) == c = Broken

Read ==
  /\ pc = "read"
  /\ LET c == file[opened].content IN
     \/ /\ ~Invalid(c)
        /\ loaded' = [at |-> now, fingerprint |-> print, keys |-> c]
        /\ Return(c)
     \/ /\ Invalid(c)
        /\ Return("unavailable")
        /\ UNCHANGED loaded
  /\ opened' = Absent /\ print' = NoPrint
  /\ UNCHANGED <<during, hostVars>>

-----------------------------------------------------------------------------
\* KeyStore::open has read the file once; a start without keys fails.
Init ==
  /\ path \in Inodes
  /\ \E v \in Versions :
       /\ file = [i \in Inodes |-> [content |-> IF i = path THEN v ELSE Broken,
                                    modified |-> 0, readable |-> TRUE]]
       /\ loaded = [at |-> 0, fingerprint |-> FingerprintOf(path), keys |-> v]
  /\ now = 0 /\ writes = 0 /\ distinct = TRUE
  /\ pc = "idle" /\ opened = Absent /\ print = NoPrint
  /\ answer = [keys |-> "none", at |-> 0]
  /\ during = {}
  /\ lastSeen = [v \in Versions |-> 0]

Host == \/ \E t \in 0..(writes + 1), v \in Versions :
             (\E i \in Inodes : Replace(i, v, t)) \/ Complete(v, t)
        \/ \E t \in 0..(writes + 1) : Truncate(t)
        \/ Delete \/ Protect \/ Tick

Next == Host \/ Stat \/ Open \/ Fstat \/ Read

Spec == Init /\ [][Next]_vars

-----------------------------------------------------------------------------
(* Properties.                                                             *)

Answered == answer.keys \in Versions

\* With distinct times, "keys can be rotated by replacing the file": a lookup
\* never answers from a key set the path no longer gave when it began, cached
\* or raced, however the file is replaced and rewritten between its calls.
\* (Whether it could be read is left to KeysFromReadable.)
NeverOutdated ==
  distinct /\ Answered => \E r \in BOOLEAN : <<answer.keys, r>> \in during

\* Whatever the times look like, "at least every REFRESH": an answer is at
\* most that much older than the key set the path gave.
BoundedStaleness == Answered => answer.at < lastSeen[answer.keys] + Refresh

\* A lookup fails closed only for a reason: KeysUnavailable means the path
\* gave no key set to read at some moment of that lookup.  Rotation by rename, at any
\* moment, rejects nobody.
RejectsOnlyBroken ==
  answer.keys = "unavailable" => \E s \in during : s[1] = Broken \/ ~s[2]

\* "A file that becomes unreadable or invalid rejects every request (it never
\* keeps stale keys)": what is answered was there to be read.
KeysFromReadable == Answered => \E s \in during : s[2]

-----------------------------------------------------------------------------
(* Why they hold: together with the first three properties, an invariant   *)
(* that every step preserves.                                              *)

\* lastSeen is kept: no version was seen later than now, the present one now.
LastSeenKept ==
  /\ \A v \in Versions : lastSeen[v] <= now
  /\ \A v \in Versions : Gives(path, file) = <<v, TRUE>> => lastSeen[v] = now

\* No file has a time that a write to come would give as a new one.
StampsPast ==
  /\ \A i \in Inodes : file[i].modified <= writes
  /\ loaded # None => loaded.fingerprint.modified <= writes
  /\ pc = "read" => print.modified <= writes

\* The cache: its keys were given by the path when they were read, and if all
\* times are distinct a file that looks like the one they are from has them.
CacheGenuine ==
  loaded # None =>
    /\ loaded.at <= now /\ loaded.at <= lastSeen[loaded.keys]
    /\ distinct => \A i \in Inodes :
         FingerprintOf(i) = loaded.fingerprint => file[i].content = loaded.keys

\* A lookup under way: the file it has open is one the path has given since it
\* began, as it is now, although the path may give another one by now.
LookupInStep ==
  /\ pc # "idle" => Gives(path, file) \in during /\ answer.keys = "none"
  /\ pc \in {"idle", "open"} => opened = Absent
  /\ pc \in {"fstat", "read"} =>
       /\ opened \in Inodes
       /\ <<file[opened].content, TRUE>> \in during
       /\ file[opened].content \in Versions => lastSeen[file[opened].content] = now
  /\ pc = "read" => print \in Fingerprint /\ print.inode = opened

IInv ==
  /\ TypeOK
  /\ LastSeenKept
  /\ StampsPast
  /\ CacheGenuine
  /\ LookupInStep
  /\ NeverOutdated
  /\ BoundedStaleness
  /\ RejectsOnlyBroken
=============================================================================
