------------------------------- MODULE Startup -------------------------------
(***************************************************************************)
(* What one process of the agent takes over from earlier ones when it      *)
(* starts, and leaves behind when it stops: the Unix socket at             *)
(* FFMPEG_AGENT_LISTEN (unix::bind and SocketFile in                       *)
(* src/agent/src/listen.rs), the locked work directory with its job-*      *)
(* directories (initialize in src/agent/src/engine.rs), in the order in    *)
(* which run in src/agent/src/main.rs calls them.                          *)
(*                                                                         *)
(* Every system call is a step of its own, and any of them may fail; what  *)
(* failed is remembered in failed, which no action reads but that of a     *)
(* directory that could not be removed.  A process of the model runs once, *)
(* so a restart is another process; a socket and a job directory are named *)
(* by the process that created them.                                       *)
(***************************************************************************)
EXTENDS Naturals, FiniteSets

CONSTANTS Processes,  \* runs of the program with one configuration
          Inodes,     \* inode numbers of the file system
          Supervised, \* one start or stop at a time
          File, Absent \* a path that is no socket, that does not exist

ASSUME SupervisedAssumption == Supervised \in BOOLEAN
ASSUME PathAssumption == File # Absent /\ {File, Absent} \cap Processes = {}

VARIABLES pc,        \* the call each process makes next
          path,      \* what the listen path names
          ino,       \* the inode number of the socket a process bound
          identity,  \* SocketFile.identity; Absent before it exists
          accepting, \* processes whose socket listens
          lock,      \* holders of work_dir/.lock
          dirs,      \* job directories on disk
          failed     \* the calls that failed

vars == <<pc, path, ino, identity, accepting, lock, dirs, failed>>
workVars == <<lock, dirs, failed>>
socketVars == <<ino, identity, accepting>>

Starting == {"inspect", "probe", "remove", "bind", "listen", "identify",
             "chmod", "lock", "clean"}
Stopping == {"draining", "dropping", "unlink", "joining"}
Gone == {"refused", "exited", "crashed"}
Calls == Starting \cup {"dropping", "unlink", "rmdir"}

TypeOK ==
  /\ pc \in [Processes -> {"off", "serving"} \cup Starting \cup Stopping \cup Gone]
  /\ path \in Processes \cup {File, Absent}
  /\ ino \in [Processes -> Inodes \cup {Absent}]
  /\ identity \in [Processes -> Inodes \cup {Absent}]
  /\ accepting \subseteq Processes
  /\ lock \subseteq Processes /\ Cardinality(lock) <= 1
  /\ dirs \subseteq Processes
  /\ failed \subseteq Processes \X Calls

Init ==
  /\ pc = [p \in Processes |-> "off"]
  /\ path \in {File, Absent}
  /\ ino = [p \in Processes |-> Absent]
  /\ identity = [p \in Processes |-> Absent]
  /\ accepting = {} /\ lock = {} /\ dirs = {} /\ failed = {}

-----------------------------------------------------------------------------
(* Faulty variants, exchanged for the definitions below to show that a     *)
(* property notices.                                                       *)

ReplaceAnySocket(q) == q \in Processes
BindWithoutRemoving == path
IgnoreTheLock(p) == TRUE
ServeBeforeCleaning(p) == {}
ReleaseNothing(p, s) == pc' = [pc EXCEPT ![p] = "exited"]

-----------------------------------------------------------------------------
(* The path as the calls see it.                                           *)

\* connect gives ECONNREFUSED: the listener of this socket is gone.
Refuses(q) == q \in Processes \ accepting
Removed == Absent

\* An inode number is given out again unless the path names the socket, or its
\* process still has the listener or a connection accepted from it.
Open(q) == q \in accepting \/ pc[q] \in {"listen", "draining"}
InUse(i) == \E q \in Processes : ino[q] = i /\ (path = q \/ Open(q))

\* try_lock; the lock goes with the process that holds it.
CanLock(p) == lock = {}

\* What the loop finds: every job-* directory but its own, and it has none.
Abandoned(p) == dirs

-----------------------------------------------------------------------------
Step(p, from, to) == pc[p] = from /\ pc' = [pc EXCEPT ![p] = to]
Records(p, call) == failed' = failed \cup {<<p, call>>}

MayBegin == Supervised => \A q \in Processes : pc[q] \in {"off", "serving"} \cup Gone
MayStop == Supervised => \A q \in Processes : pc[q] \notin Starting

Begin(p) ==
  /\ MayBegin
  /\ Step(p, "off", "inspect")
  /\ UNCHANGED <<path, socketVars, workVars>>

\* symlink_metadata of the path.
Inspect(p) ==
  /\ \/ path = Absent /\ Step(p, "inspect", "bind")
     \/ path \in Processes /\ Step(p, "inspect", "probe")
     \/ path = File /\ Step(p, "inspect", "refused")
  /\ UNCHANGED <<path, socketVars, workVars>>

\* UnixStream::connect to the socket found: in use, stale, or gone meanwhile.
Probe(p) ==
  /\ \/ Refuses(path) /\ Step(p, "probe", "remove")
     \/ ~Refuses(path) /\ Step(p, "probe", "refused")
  /\ UNCHANGED <<path, socketVars, workVars>>

\* remove_file takes whatever the path names by now.
Remove(p) ==
  /\ \/ path # Absent /\ Step(p, "remove", "bind")
     \/ path = Absent /\ Step(p, "remove", "refused")
  /\ path' = Removed
  /\ UNCHANGED <<socketVars, workVars>>

\* UnixListener::bind, first bind(2), then listen(2).
Bind(p) ==
  /\ \/ /\ path = Absent
        /\ Step(p, "bind", "listen")
        /\ path' = p
        /\ \E i \in Inodes : ~InUse(i) /\ ino' = [ino EXCEPT ![p] = i]
     \/ path # Absent /\ Step(p, "bind", "refused") /\ UNCHANGED <<path, ino>>
  /\ UNCHANGED <<identity, accepting, workVars>>

Listen(p) ==
  /\ Step(p, "listen", "identify")
  /\ accepting' = accepting \cup {p}
  /\ UNCHANGED <<path, ino, identity, workVars>>

\* A call of bind fails.  The socket that bind(2) created stays when listen(2),
\* the registration with the runtime or the look at its inode fails: there is
\* no SocketFile yet.
StartFails(p) ==
  /\ pc[p] \in {"inspect", "probe", "remove", "bind", "listen", "identify"}
  /\ pc' = [pc EXCEPT ![p] = "refused"]
  /\ Records(p, pc[p])
  /\ accepting' = accepting \ {p}
  /\ UNCHANGED <<path, ino, identity, lock, dirs>>

\* The inode the path has now; without one the listener is dropped.
Identify(p) ==
  /\ \/ /\ path \in Processes
        /\ Step(p, "identify", "chmod")
        /\ identity' = [identity EXCEPT ![p] = ino[path]]
        /\ UNCHANGED accepting
     \/ /\ path \notin Processes
        /\ Step(p, "identify", "refused")
        /\ accepting' = accepting \ {p}
        /\ UNCHANGED identity
  /\ UNCHANGED <<path, ino, workVars>>

\* What releases a listener and its SocketFile before the program ends.
Release(p, s) == pc' = [pc EXCEPT ![p] = s]

\* set_permissions.  On failure, of a path that is gone or another, the
\* SocketFile is dropped before the listener, which accepts until Exit.
Chmod(p) ==
  /\ pc[p] = "chmod"
  /\ \/ path # Absent /\ Step(p, "chmod", "lock")
     \/ path = Absent /\ Release(p, "dropping")
  /\ UNCHANGED <<path, socketVars, workVars>>

ChmodFails(p) ==
  /\ pc[p] = "chmod"
  /\ Release(p, "dropping")
  /\ Records(p, "chmod")
  /\ UNCHANGED <<path, socketVars, lock, dirs>>

\* initialize takes the lock, or returns and the listener is dropped.
Lock(p) ==
  /\ pc[p] = "lock"
  /\ \/ /\ CanLock(p)
        /\ Step(p, "lock", "clean")
        /\ lock' = lock \cup {p}
        /\ UNCHANGED accepting
     \/ /\ ~CanLock(p)
        /\ Release(p, "dropping")
        /\ accepting' = accepting \ {p}
        /\ UNCHANGED lock
  /\ UNCHANGED <<path, ino, identity, dirs, failed>>

\* One remove_dir_all of the loop.
Clean(p) ==
  /\ pc[p] = "clean"
  /\ \E q \in Abandoned(p) : dirs' = dirs \ {q}
  /\ UNCHANGED <<pc, path, socketVars, lock, failed>>

\* Opening the lock, removing a directory or creating the client fails: the
\* lock is dropped with initialize, then the listener with run.
InitializeFails(p) ==
  /\ pc[p] \in {"lock", "clean"}
  /\ Release(p, "dropping")
  /\ Records(p, pc[p])
  /\ accepting' = accepting \ {p}
  /\ lock' = lock \ {p}
  /\ UNCHANGED <<path, ino, identity, dirs>>

Serve(p) ==
  /\ Abandoned(p) = {}
  /\ Step(p, "clean", "serving")
  /\ UNCHANGED <<path, socketVars, workVars>>

\* execute creates its directory, and TempDir removes it when it ends.
CreateDir(p) ==
  /\ pc[p] = "serving"
  /\ p \notin dirs
  /\ dirs' = dirs \cup {p}
  /\ UNCHANGED <<pc, path, socketVars, lock, failed>>

\* A directory TempDir is still going to remove.
InJob(p) == p \in dirs /\ <<p, "rmdir">> \notin failed

RemoveDir(p) ==
  /\ pc[p] \in {"serving"} \cup Stopping
  /\ InJob(p)
  /\ dirs' = dirs \ {p}
  /\ UNCHANGED <<pc, path, socketVars, lock, failed>>

\* Nobody looks at the failure, of a killed FFmpeg that still writes or another.
RemoveDirFails(p) ==
  /\ pc[p] \in {"serving"} \cup Stopping
  /\ InJob(p)
  /\ Records(p, "rmdir")
  /\ UNCHANGED <<pc, path, socketVars, lock, dirs>>

\* A signal: axum::serve drops the listener and waits for its connections.
Stop(p) ==
  /\ MayStop
  /\ Step(p, "serving", "draining")
  /\ accepting' = accepting \ {p}
  /\ UNCHANGED <<path, ino, identity, workVars>>

\* The last connection is closed; a client decides when.
Drained(p) ==
  /\ Step(p, "draining", "dropping")
  /\ UNCHANGED <<path, socketVars, workVars>>

\* Drop of SocketFile: does the path still refer to it?
StillOwn(p) == path \in Processes /\ ino[path] = identity[p]

CheckPath(p) ==
  /\ \/ StillOwn(p) /\ Step(p, "dropping", "unlink")
     \/ ~StillOwn(p) /\ Step(p, "dropping", "joining")
  /\ UNCHANGED <<path, socketVars, workVars>>

Unlink(p) ==
  /\ Step(p, "unlink", "joining")
  /\ path' = Absent
  /\ UNCHANGED <<socketVars, workVars>>

\* Drop takes a failure of either call for granted.
DropFails(p) ==
  /\ pc[p] \in {"dropping", "unlink"}
  /\ pc' = [pc EXCEPT ![p] = "joining"]
  /\ Records(p, pc[p])
  /\ UNCHANGED <<path, socketVars, lock, dirs>>

\* The workers are joined, their jobs have ended; the lock is closed.
Exit(p) ==
  /\ ~InJob(p)
  /\ Step(p, "joining", "exited")
  /\ accepting' = accepting \ {p}
  /\ lock' = lock \ {p}
  /\ UNCHANGED <<path, ino, identity, dirs, failed>>

\* SIGKILL, a power loss or a panic at any point: nothing is cleaned up.
Crash(p) ==
  /\ pc[p] \notin {"off"} \cup Gone
  /\ pc' = [pc EXCEPT ![p] = "crashed"]
  /\ accepting' = accepting \ {p}
  /\ lock' = lock \ {p}
  /\ UNCHANGED <<path, ino, identity, dirs, failed>>

Call(p) ==
  \/ Inspect(p) \/ Probe(p) \/ Remove(p) \/ Bind(p) \/ Listen(p)
  \/ Identify(p) \/ Chmod(p) \/ Lock(p) \/ Clean(p) \/ Serve(p)
  \/ CheckPath(p) \/ Unlink(p) \/ Exit(p) \/ RemoveDir(p)

Fails(p) ==
  \/ StartFails(p) \/ ChmodFails(p) \/ InitializeFails(p) \/ DropFails(p)
  \/ RemoveDirFails(p)

Next ==
  \E p \in Processes : Begin(p) \/ Call(p) \/ Fails(p) \/ CreateDir(p)
                       \/ Stop(p) \/ Drained(p) \/ Crash(p)

Spec == Init /\ [][Next]_vars

\* The calls of a start and of the end of a stop do not block; only Drained
\* waits for somebody else.
FairSpec == Spec /\ \A p \in Processes : WF_vars(Call(p))

-----------------------------------------------------------------------------
(* Properties.                                                             *)

\* "A socket that still accepts connections belongs to a live process and is
\* left alone, as is any path that is not a socket" (listen.rs:85): while it
\* accepts, only its own process takes it from the path (Drop, before the
\* listener is closed, when the mode could not be set), and nobody a file.
NeverReplaces ==
  [][path' # path /\ path \in accepting \cup {File} =>
       /\ path \in accepting
       /\ pc[path] = "unlink" /\ pc'[path] = "joining"
       /\ path' = Absent]_vars

\* "The agent removes the socket when it exits": a socket left at the path is
\* one of a process that crashed, or of one whose own listen(2), registration,
\* look at the inode or removal failed; no refusal by others, no failure to
\* set the mode, of the lock or of the cleaning leaves one.
LeavesSocket == {"listen", "identify", "dropping", "unlink"}
LeftByFailure(p) == \E call \in LeavesSocket : <<p, call>> \in failed
StaleOnlyByFailure ==
  path \in Processes /\ pc[path] \in {"refused", "exited"} => LeftByFailure(path)

\* A start removes job directories that a crash or a failed removal left, and
\* never one of a process that may still run: the lock lasts longer.
CleansOnlyAbandoned ==
  \A p, q \in Processes :
    pc[p] = "clean" /\ q \in Abandoned(p) => pc[q] \in {"crashed", "exited"}

\* Once an agent serves, the work directory holds directories of its own jobs
\* only, whatever crashed or failed before it or during its start.
NothingAbandonedWhileServing ==
  \A p \in Processes : pc[p] = "serving" => dirs \subseteq {p}

\* A restart recovers from any crash and any failure: with the other processes
\* gone, whatever they left, a start serves unless a call of its own fails.
Alone(p) == \A q \in Processes \ {p} : pc[q] \in {"off"} \cup Gone
RestartRecovers ==
  \A p \in Processes :
    pc[p] = "inspect" /\ path # File /\ Alone(p)
      ~> pc[p] \in {"serving", "crashed"} \/ \E call \in Calls : <<p, call>> \in failed

-----------------------------------------------------------------------------
(* Why they hold: an invariant that every step preserves and from which    *)
(* the other safety properties follow.                                     *)

\* The lock is held from before the cleaning until the process has ended its
\* workers, and by one process.
LockHeld ==
  /\ \A p, q \in lock : p = q
  /\ \A p \in lock : pc[p] \in {"clean", "serving"} \cup Stopping
  /\ \A p \in Processes : pc[p] \in {"clean", "serving"} => p \in lock

\* A job directory is under the lock, or left by a crash or a failed removal.
DirsLocked ==
  \A q \in dirs : \/ q \in lock /\ pc[q] \in {"serving"} \cup Stopping
                  \/ pc[q] = "crashed"
                  \/ pc[q] = "exited" /\ <<q, "rmdir">> \in failed

Bound == {"listen", "identify", "chmod", "lock", "clean", "serving", "draining",
          "dropping", "unlink"}

\* The path names a socket only while its process has not yet removed it,
\* crashed or failed to, and such a process knows its own inode.
SocketOwned ==
  \A p \in Processes :
    path = p => /\ \/ pc[p] \in Bound \cup {"crashed"}
                   \/ pc[p] \in {"joining", "refused", "exited"} /\ LeftByFailure(p)
                /\ pc[p] \in Bound \ {"listen", "identify"} => identity[p] = ino[p]

\* A process listens from listen(2) to the end of serving, and through the
\* removal of its socket when the mode could not be set.
ListenerOpen ==
  \A p \in Processes :
    /\ pc[p] \in {"identify", "chmod", "lock", "clean", "serving"} => p \in accepting
    /\ p \in accepting => pc[p] \notin Gone \cup {"off", "inspect", "probe", "remove",
                                                "bind", "draining"}

\* One start or stop at a time: what a start sees stays, and the path is that
\* of the one process that is bound.
InTurn ==
  \A p \in Processes :
    /\ pc[p] \in Starting =>
         \A q \in Processes \ {p} : pc[q] \in {"off", "serving"} \cup Gone
    /\ pc[p] \in Bound => path = p
    /\ pc[p] = "probe" => path \in Processes
    /\ pc[p] = "remove" => path \in Processes \ accepting

IInv ==
  /\ TypeOK
  /\ LockHeld
  /\ DirsLocked
  /\ NothingAbandonedWhileServing
  /\ SocketOwned
  /\ ListenerOpen
  /\ Supervised => InTurn
=============================================================================
