------------------------------- MODULE Daemon -------------------------------
(***************************************************************************)
(* projgitd (projgit-daemon/src/server.rs): the life of a daemon process   *)
(* from bind to exit, its accept loop, handler and maintenance threads,    *)
(* the one source and the mounts it keeps under one mutex, and its         *)
(* clients: controllers (the signal handler of main.rs is one) and         *)
(* sidecars, which attach once and then only fetch                         *)
(* (cmd_mount_via_daemon and DaemonFetcher).                               *)
(*                                                                         *)
(* Daemons share a socket path, a pid file, the clone cache and the host's *)
(* mount points.  One connection carries one request: a handler thread is  *)
(* identified with its client.  Fetch stands for FetchMany and             *)
(* PrefetchHeaders as well, which lock the state in the same way.          *)
(***************************************************************************)
EXTENDS Naturals, Sequences, Functions

CONSTANTS Daemons,      \* daemon processes, each of which lives once
          Controllers,  \* clients that mount, unmount, ask for the status or a shutdown
          Sidecars,     \* clients that attach and then fetch
          Sources,      \* repository URLs
          Mountpoints,
          Maintained,   \* the daemons configured with a maintenance interval
          MaxRequests,  \* bound on the requests of one client
          None,         \* no daemon, client, source or mount point
          Wake          \* a connection that sends nothing (request_shutdown)

Clients == Controllers \cup Sidecars

ASSUME DaemonAssumption ==
    /\ Controllers \cap Sidecars = {}
    /\ None \notin Daemons \cup Clients \cup Sources \cup Mountpoints
    /\ Wake \notin Clients
    /\ Maintained \subseteq Daemons
    /\ MaxRequests \in Nat

VARIABLES
    stage,      \* daemon -> where `run` is
    flag,       \* daemon -> shutdown_requested
    backlog,    \* daemon -> connections not accepted yet
    maint,      \* daemon -> where its maintenance thread is
    source,     \* daemon -> the source of its ActiveRepo, or None
    table,      \* daemon -> its mount table: mount point -> source, a partial function
    lock,       \* daemon -> the handler that holds state.active, or None
    socket,     \* the daemon whose listener the socket path names, or None
    pidFile,    \* the daemon whose pid the pid file holds, or None
    mounted,    \* mount point -> the daemon that mounted there (it may be dead), or None
    cache,      \* source -> its directory in the clone cache (a local path is always complete)
    at,         \* client -> where it, or the handler of its request, is
    req,        \* client -> the request it waits on
    peer,       \* client -> the daemon it is connected to, or None
    reply,      \* client -> the answer its handler has for it, or None
    sent,       \* client -> requests made so far
    attached    \* sidecar -> the source it attached to, or None

proc == <<stage, flag, backlog, maint>>
book == <<source, table, lock>>
files == <<socket, pidFile>>
host == <<mounted, cache>>
conn == <<at, req, peer, reply, sent, attached>>
vars == <<proc, book, files, host, conn>>

Request(o, s, m) == [op |-> o, source |-> s, mp |-> m]

Requests ==
    {Request("Mount", s, m) : s \in Sources, m \in Mountpoints}
        \cup {Request("Umount", None, m) : m \in Mountpoints}
        \cup {Request("Attach", s, None) : s \in Sources}
        \cup {Request(o, None, None) : o \in {"Status", "Shutdown", "Fetch"}}

\* `run`, in its order.
Starting == {"unlinked", "bound", "listening"}
Stopping == {"stopping", "joined", "closed", "unsocketed", "tidied"}
Listening(d) == stage[d] \in {"bound", "listening", "serving", "stopping", "joined"}
Running(d) == stage[d] \in Starting \cup {"serving"} \cup Stopping \cup {"returned"}
Ended == {"exited", "aborted", "crashed"}

\* A handler thread exists, and holds an Arc of the state.
Working == {"handling", "wake", "waiting", "attach", "clone", "cloning", "open", "check",
            "fetch", "respond"}
Handlers(d) == {c \in Clients : peer[c] = d /\ at[c] \in Working}
Connected(d) == {c \in Clients : peer[c] = d /\ at[c] \in Working \cup {"queued"}}

NoMounts == [m \in {} |-> None]
NoRequest == Request(None, None, None)

Init ==
    /\ stage = [d \in Daemons |-> "off"]
    /\ flag = [d \in Daemons |-> FALSE]
    /\ backlog = [d \in Daemons |-> <<>>]
    /\ maint = [d \in Daemons |-> "off"]
    /\ source = [d \in Daemons |-> None]
    /\ table = [d \in Daemons |-> NoMounts]
    /\ lock = [d \in Daemons |-> None]
    /\ socket = None
    /\ pidFile = None
    /\ mounted = [m \in Mountpoints |-> None]
    /\ cache \in [Sources -> {"absent", "complete"}]
    /\ at = [c \in Clients |-> "idle"]
    /\ req = [c \in Clients |-> NoRequest]
    /\ peer = [c \in Clients |-> None]
    /\ reply = [c \in Clients |-> None]
    /\ sent = [c \in Clients |-> 0]
    /\ attached = [c \in Sidecars |-> None]

\* What is unmounted when the last Arc of the state of d drops.
Unmounted(d) == [m \in Mountpoints |-> IF mounted[m] = d THEN None ELSE mounted[m]]

\* The connections of the clients in S are closed.  A client that had no answer got an error;
\* a sidecar that is not attached now gives up.
Hangup(S) ==
    /\ at' = [c \in Clients |->
          IF c \in S THEN IF req[c].op = "Attach" THEN "quit" ELSE "idle" ELSE at[c]]
    /\ req' = [c \in Clients |-> IF c \in S THEN NoRequest ELSE req[c]]
    /\ peer' = [c \in Clients |-> IF c \in S THEN None ELSE peer[c]]
    /\ reply' = [c \in Clients |-> IF c \in S THEN None ELSE reply[c]]
    /\ UNCHANGED <<sent, attached>>

\* The process is gone, with its threads, its memory and its end of every connection; its
\* mounts are not.
Gone(d) ==
    /\ Hangup(Connected(d))
    /\ flag' = [flag EXCEPT ![d] = FALSE]
    /\ backlog' = [backlog EXCEPT ![d] = <<>>]
    /\ maint' = [maint EXCEPT ![d] = "off"]
    /\ source' = [source EXCEPT ![d] = None]
    /\ table' = [table EXCEPT ![d] = NoMounts]
    /\ lock' = [lock EXCEPT ![d] = None]
    /\ UNCHANGED host

-----------------------------------------------------------------------------
(* `run`: the main thread of daemon d.                                     *)

Move(d, from, to) == stage[d] = from /\ stage' = [stage EXCEPT ![d] = to]

\* remove_file on the socket path, whoever listens there.
Start(d) ==
    /\ Move(d, "off", "unlinked")
    /\ socket' = None
    /\ UNCHANGED <<flag, backlog, maint, book, pidFile, host, conn>>

Bind(d) ==
    /\ Move(d, "unlinked", "bound")
    /\ socket = None
    /\ socket' = d
    /\ UNCHANGED <<flag, backlog, maint, book, pidFile, host, conn>>

\* The path is taken again, or cannot be bound for a reason of its own.
BindFails(d) ==
    /\ Move(d, "unlinked", "exited")
    /\ UNCHANGED <<flag, backlog, maint, book, files, host, conn>>

\* The mode is set through the path, which another instance may have unlinked or taken.
Chmod(d) ==
    /\ Move(d, "bound", "listening")
    /\ socket # None
    /\ UNCHANGED <<flag, backlog, maint, book, files, host, conn>>

\* fchmodat fails, for whatever reason: `run` returns at once, and the socket file stays.
ChmodFails(d) ==
    /\ Move(d, "bound", "aborted")
    /\ Gone(d)
    /\ UNCHANGED files

\* The pid file is written, the maintenance thread started if it is configured.
WritePid(d) ==
    /\ Move(d, "listening", "serving")
    /\ pidFile' = d
    /\ maint' = [maint EXCEPT ![d] = IF d \in Maintained THEN "sleep" ELSE "off"]
    /\ UNCHANGED <<flag, backlog, book, socket, host, conn>>

\* Mutant: an early return with the socket file left behind.
WritePidFailsMutantKeepsSocket(d) ==
    /\ Move(d, "listening", "exited")
    /\ Gone(d)
    /\ UNCHANGED files

\* The write fails before or after it has truncated the file.
WritePidFails(d) ==
    /\ Move(d, "listening", "exited")
    /\ socket' = None
    /\ pidFile' \in {pidFile, None}
    /\ Gone(d)

\* One turn of the accept loop: the connection gets a thread, unless the flag is up (the one
\* of a Wake reads an end of file and returns).
Accept(d) ==
    /\ stage[d] = "serving"
    /\ ~flag[d]
    /\ backlog[d] # <<>>
    /\ backlog' = [backlog EXCEPT ![d] = Tail(@)]
    /\ at' = [c \in Clients |-> IF c = Head(backlog[d]) THEN "handling" ELSE at[c]]
    /\ UNCHANGED <<stage, flag, maint, book, files, host, req, peer, reply, sent, attached>>

BreakLoop(d) ==
    /\ Move(d, "serving", "stopping")
    /\ flag[d]
    /\ backlog[d] # <<>>
    /\ backlog' = [backlog EXCEPT ![d] = Tail(@)]
    /\ Hangup({Head(backlog[d])})
    /\ UNCHANGED <<flag, maint, book, files, host>>

JoinMaintenance(d) ==
    /\ Move(d, "stopping", "joined")
    /\ maint[d] = "off"
    /\ UNCHANGED <<flag, backlog, maint, book, files, host, conn>>

CloseListener(d) ==
    /\ Move(d, "joined", "closed")
    /\ Hangup({c \in Connected(d) : at[c] = "queued"})
    /\ backlog' = [backlog EXCEPT ![d] = <<>>]
    /\ UNCHANGED <<flag, maint, book, files, host>>

RemoveSocket(d) ==
    /\ Move(d, "closed", "unsocketed")
    /\ socket' = None
    /\ UNCHANGED <<flag, backlog, maint, book, pidFile, host, conn>>

RemovePid(d) ==
    /\ Move(d, "unsocketed", "tidied")
    /\ pidFile' = None
    /\ UNCHANGED <<flag, backlog, maint, book, socket, host, conn>>

\* drop(state): the sessions are dropped only with the last Arc.
DropState(d) ==
    /\ Move(d, "tidied", "returned")
    /\ IF Handlers(d) = {}
       THEN /\ mounted' = Unmounted(d)
            /\ table' = [table EXCEPT ![d] = NoMounts]
       ELSE UNCHANGED <<mounted, table>>
    /\ UNCHANGED <<flag, backlog, maint, source, lock, files, cache, conn>>

\* main returns, whatever the handler threads are doing.
ProcessExits(d) ==
    /\ Move(d, "returned", "exited")
    /\ Gone(d)
    /\ UNCHANGED files

\* SIGKILL.
Crash(d) ==
    /\ Running(d)
    /\ stage' = [stage EXCEPT ![d] = "crashed"]
    /\ Gone(d)
    /\ UNCHANGED files

-----------------------------------------------------------------------------
(* The maintenance thread of daemon d: maintenance_loop.                   *)

MaintenanceStops(d) ==
    /\ maint[d] = "sleep"
    /\ flag[d]
    /\ maint' = [maint EXCEPT ![d] = "off"]
    /\ UNCHANGED <<stage, flag, backlog, book, files, host, conn>>

MaintenanceDue(d) ==
    /\ maint[d] = "sleep"
    /\ ~flag[d]
    /\ maint' = [maint EXCEPT ![d] = "due"]
    /\ UNCHANGED <<stage, flag, backlog, book, files, host, conn>>

\* The git directory is read under the lock, git maintenance runs without it.
RunMaintenance(d) ==
    /\ maint[d] = "due"
    /\ lock[d] = None
    /\ maint' = [maint EXCEPT ![d] = IF source[d] = None THEN "sleep" ELSE "run"]
    /\ UNCHANGED <<stage, flag, backlog, book, files, host, conn>>

MaintenanceEnds(d) ==
    /\ maint[d] = "run"
    /\ maint' = [maint EXCEPT ![d] = "sleep"]
    /\ UNCHANGED <<stage, flag, backlog, book, files, host, conn>>

-----------------------------------------------------------------------------
(* Clients: one connection per request.                                    *)

MayAsk(c) ==
    CASE c \in Controllers -> {q \in Requests : q.op \in {"Mount", "Umount", "Status", "Shutdown"}}
      [] attached[c] = None -> {q \in Requests : q.op = "Attach"}
      [] OTHER -> {q \in Requests : q.op = "Fetch"}

Asks(c, q) ==
    /\ at[c] = "idle"
    /\ sent[c] < MaxRequests
    /\ q \in MayAsk(c)
    /\ sent' = [sent EXCEPT ![c] = @ + 1]

Reachable == socket # None /\ Listening(socket)

Connect(c, q) ==
    /\ Asks(c, q)
    /\ Reachable
    /\ at' = [at EXCEPT ![c] = "queued"]
    /\ req' = [req EXCEPT ![c] = q]
    /\ peer' = [peer EXCEPT ![c] = socket]
    /\ backlog' = [backlog EXCEPT ![socket] = Append(@, c)]
    /\ UNCHANGED <<stage, flag, maint, book, files, host, reply, attached>>

ConnectFails(c, q) ==
    /\ Asks(c, q)
    /\ ~Reachable
    /\ at' = [at EXCEPT ![c] = IF q.op = "Attach" THEN "quit" ELSE "idle"]
    /\ UNCHANGED <<proc, book, files, host, req, peer, reply, attached>>

-----------------------------------------------------------------------------
(* handle_connection, in the thread of the client's connection.            *)

Goes(c, from, to) == at[c] = from /\ at' = [at EXCEPT ![c] = to]

Answer(c, r) ==
    /\ at' = [at EXCEPT ![c] = "respond"]
    /\ reply' = [reply EXCEPT ![c] = r]
    /\ UNCHANGED <<req, peer, sent, attached>>

LockFree(c) == lock[peer[c]] = None
Release(c) == lock' = [lock EXCEPT ![peer[c]] = None]

Status(c) ==
    /\ at[c] = "handling"
    /\ req[c].op = "Status"
    /\ LockFree(c)
    /\ Answer(c, "Ok")
    /\ UNCHANGED <<proc, book, files, host>>

\* request_shutdown: the flag, then a connection to the socket path that wakes the accept loop.
RequestShutdown(c) ==
    /\ Goes(c, "handling", "wake")
    /\ req[c].op = "Shutdown"
    /\ flag' = [flag EXCEPT ![peer[c]] = TRUE]
    /\ UNCHANGED <<stage, backlog, maint, book, files, host, req, peer, reply, sent, attached>>

\* Mutant: the flag alone, no connection.
WakeAcceptLoopMutantSilent(c) ==
    /\ at[c] = "wake"
    /\ Answer(c, "Ok")
    /\ UNCHANGED <<proc, book, files, host>>

WakeAcceptLoop(c) ==
    /\ at[c] = "wake"
    /\ backlog' = IF Reachable THEN [backlog EXCEPT ![socket] = Append(@, Wake)] ELSE backlog
    /\ Answer(c, "Ok")
    /\ UNCHANGED <<stage, flag, maint, book, files, host>>

\* canonicalize fails on a mount whose daemon is dead.
Canonicalize(c) ==
    /\ at[c] = "handling"
    /\ req[c].op \in {"Mount", "Umount"}
    /\ LET d == mounted[req[c].mp] IN
       IF d # None /\ stage[d] \in Ended
       THEN Answer(c, IF req[c].op = "Mount" THEN "MOUNT_FAILED" ELSE "NO_SUCH_MOUNT")
       ELSE /\ Goes(c, "handling", "waiting")
            /\ UNCHANGED <<req, peer, reply, sent, attached>>
    /\ UNCHANGED <<proc, book, files, host>>

\* Mutant: attach_source outside the critical section.
TakeLockMutantShared(c) ==
    /\ \/ at[c] = "waiting" /\ req[c].op = "Mount"
       \/ at[c] = "handling" /\ req[c].op = "Attach"
    /\ lock' = [lock EXCEPT ![peer[c]] = c]
    /\ at' = [at EXCEPT ![c] = "attach"]
    /\ UNCHANGED <<proc, source, table, files, host, req, peer, reply, sent, attached>>

\* handle_mount and handle_attach keep the lock until they have an answer.
TakeLock(c) ==
    /\ \/ at[c] = "waiting" /\ req[c].op = "Mount"
       \/ at[c] = "handling" /\ req[c].op = "Attach"
    /\ LockFree(c)
    /\ lock' = [lock EXCEPT ![peer[c]] = c]
    /\ at' = [at EXCEPT ![c] = "attach"]
    /\ UNCHANGED <<proc, source, table, files, host, req, peer, reply, sent, attached>>

\* active.is_none(), and in attach_source dest.exists().
AttachSource(c) ==
    /\ Goes(c, "attach", IF source[peer[c]] # None THEN "check"
                         ELSE IF cache[req[c].source] = "absent" THEN "clone" ELSE "open")
    /\ UNCHANGED <<proc, book, files, host, req, peer, reply, sent, attached>>

\* git clone makes the directory and starts to fill it.
CloneStarts(c) ==
    /\ Goes(c, "clone", "cloning")
    /\ cache[req[c].source] = "absent"
    /\ cache' = [cache EXCEPT ![req[c].source] = "partial"]
    /\ UNCHANGED <<proc, book, files, mounted, req, peer, reply, sent, attached>>

\* Another daemon made the directory since dest.exists().
CloneRefused(c) ==
    /\ at[c] = "clone"
    /\ cache[req[c].source] # "absent"
    /\ Answer(c, "SOURCE_OPEN_FAILED")
    /\ Release(c)
    /\ UNCHANGED <<proc, source, table, files, host>>

CloneSucceeds(c) ==
    /\ Goes(c, "cloning", "open")
    /\ cache' = [cache EXCEPT ![req[c].source] = "complete"]
    /\ UNCHANGED <<proc, book, files, mounted, req, peer, reply, sent, attached>>

\* A git clone that fails removes what it made.
CloneFails(c) ==
    /\ at[c] = "cloning"
    /\ cache' = [cache EXCEPT ![req[c].source] = "absent"]
    /\ Answer(c, "SOURCE_OPEN_FAILED")
    /\ Release(c)
    /\ UNCHANGED <<proc, source, table, files, mounted>>

\* ObjectStore::open and GitCliFetcher::open_with_pool_size.
OpenStore(c) ==
    /\ Goes(c, "open", "check")
    /\ cache[req[c].source] # "absent"
    /\ source' = [source EXCEPT ![peer[c]] = req[c].source]
    /\ UNCHANGED <<proc, table, lock, files, host, req, peer, reply, sent, attached>>

\* Mutant: an error path that does not unlock.
OpenFailsMutantKeepsLock(c) ==
    /\ at[c] = "open"
    /\ Answer(c, "SOURCE_OPEN_FAILED")
    /\ UNCHANGED <<proc, book, files, host>>

OpenFails(c) ==
    /\ at[c] = "open"
    /\ Answer(c, "SOURCE_OPEN_FAILED")
    /\ Release(c)
    /\ UNCHANGED <<proc, source, table, files, host>>

SourceMismatch(c) ==
    /\ at[c] = "check"
    /\ source[peer[c]] # req[c].source
    /\ Answer(c, "SOURCE_MISMATCH")
    /\ Release(c)
    /\ UNCHANGED <<proc, source, table, files, host>>

\* Mutant: no check against the source the daemon is bound to.
SourceAgreesMutantUnchecked(c) == at[c] = "check"

SourceAgrees(c) == at[c] = "check" /\ source[peer[c]] = req[c].source

Attached(c) ==
    /\ SourceAgrees(c)
    /\ req[c].op = "Attach"
    /\ Answer(c, "Attached")
    /\ Release(c)
    /\ UNCHANGED <<proc, source, table, files, host>>

MountpointBusy(c) ==
    /\ SourceAgrees(c)
    /\ req[c].op = "Mount"
    /\ req[c].mp \in DOMAIN table[peer[c]]
    /\ Answer(c, "MOUNTPOINT_BUSY")
    /\ Release(c)
    /\ UNCHANGED <<proc, source, table, files, host>>

\* build_overlay, ProjectionFsProvider::new or the mount fails.
MountFails(c) ==
    /\ SourceAgrees(c)
    /\ req[c].op = "Mount"
    /\ req[c].mp \notin DOMAIN table[peer[c]]
    /\ \E r \in {"REF_RESOLVE_FAILED", "MOUNT_FAILED"} : Answer(c, r)
    /\ Release(c)
    /\ UNCHANGED <<proc, source, table, files, host>>

\* A projection is read-only, and is not mounted upon.
Mount(c) ==
    /\ SourceAgrees(c)
    /\ req[c].op = "Mount"
    /\ req[c].mp \notin DOMAIN table[peer[c]]
    /\ mounted[req[c].mp] = None
    /\ mounted' = [mounted EXCEPT ![req[c].mp] = peer[c]]
    /\ table' = [table EXCEPT ![peer[c]] =
          [m \in DOMAIN @ \cup {req[c].mp} |-> IF m = req[c].mp THEN req[c].source ELSE @[m]]]
    /\ Answer(c, "Ok")
    /\ Release(c)
    /\ UNCHANGED <<proc, source, files, cache>>

Unmounting(c) == at[c] = "waiting" /\ req[c].op = "Umount" /\ LockFree(c)

\* The entry is removed from the table, and its session unmounts when it is dropped.
Umount(c) ==
    /\ Unmounting(c)
    /\ req[c].mp \in DOMAIN table[peer[c]]
    /\ table' = [table EXCEPT ![peer[c]] = Restrict(@, DOMAIN @ \ {req[c].mp})]
    /\ mounted' = [mounted EXCEPT ![req[c].mp] = None]
    /\ Answer(c, "Ok")
    /\ UNCHANGED <<proc, source, lock, files, cache>>

NoSuchMount(c) ==
    /\ Unmounting(c)
    /\ req[c].mp \notin DOMAIN table[peer[c]]
    /\ Answer(c, "NO_SUCH_MOUNT")
    /\ UNCHANGED <<proc, book, files, host>>

\* The backend is taken out under the lock, fetch_one runs without it.
Fetch(c) ==
    /\ at[c] = "handling"
    /\ req[c].op = "Fetch"
    /\ LockFree(c)
    /\ IF source[peer[c]] = None
       THEN Answer(c, "NOT_ATTACHED")
       ELSE /\ Goes(c, "handling", "fetch")
            /\ UNCHANGED <<req, peer, reply, sent, attached>>
    /\ UNCHANGED <<proc, book, files, host>>

FetchEnds(c) ==
    /\ at[c] = "fetch"
    /\ \E r \in {"Ok", "FETCH_FAILED"} : Answer(c, r)
    /\ UNCHANGED <<proc, book, files, host>>

\* Mutant: the thread's Arc is not the one that counts.
RespondMutantNeverLast(c) ==
    /\ at[c] = "respond"
    /\ at' = [at EXCEPT ![c] =
          IF req[c].op = "Attach" /\ reply[c] # "Attached" THEN "quit" ELSE "idle"]
    /\ attached' = IF reply[c] = "Attached"
                   THEN [attached EXCEPT ![c] = req[c].source] ELSE attached
    /\ req' = [req EXCEPT ![c] = NoRequest]
    /\ peer' = [peer EXCEPT ![c] = None]
    /\ reply' = [reply EXCEPT ![c] = None]
    /\ UNCHANGED <<proc, book, files, host, sent>>

\* write_message; the thread ends and drops its Arc of the state, which may be the last.
Respond(c) ==
    /\ at[c] = "respond"
    /\ at' = [at EXCEPT ![c] =
          IF req[c].op = "Attach" /\ reply[c] # "Attached" THEN "quit" ELSE "idle"]
    /\ attached' = IF reply[c] = "Attached"
                   THEN [attached EXCEPT ![c] = req[c].source] ELSE attached
    /\ req' = [req EXCEPT ![c] = NoRequest]
    /\ peer' = [peer EXCEPT ![c] = None]
    /\ reply' = [reply EXCEPT ![c] = None]
    /\ IF stage[peer[c]] = "returned" /\ Handlers(peer[c]) = {c}
       THEN /\ mounted' = Unmounted(peer[c])
            /\ table' = [table EXCEPT ![peer[c]] = NoMounts]
       ELSE UNCHANGED <<mounted, table>>
    /\ UNCHANGED <<proc, source, lock, files, cache, sent>>

\* A git clone outlives a daemon that dies or exits under it.
OrphanEnds(s) ==
    /\ cache[s] = "partial"
    /\ \A c \in Clients : ~(at[c] = "cloning" /\ req[c].source = s)
    /\ \E r \in {"complete", "absent"} : cache' = [cache EXCEPT ![s] = r]
    /\ UNCHANGED <<proc, book, files, mounted, conn>>

-----------------------------------------------------------------------------
Main(d) ==
    \/ Bind(d) \/ BindFails(d) \/ Chmod(d) \/ ChmodFails(d) \/ WritePid(d) \/ WritePidFails(d)
    \/ Accept(d) \/ BreakLoop(d) \/ JoinMaintenance(d) \/ CloseListener(d)
    \/ RemoveSocket(d) \/ RemovePid(d) \/ DropState(d) \/ ProcessExits(d)

Maintenance(d) ==
    \/ MaintenanceStops(d) \/ MaintenanceDue(d) \/ RunMaintenance(d) \/ MaintenanceEnds(d)

Handle(c) ==
    \/ Status(c) \/ RequestShutdown(c) \/ WakeAcceptLoop(c) \/ Canonicalize(c) \/ TakeLock(c)
    \/ AttachSource(c) \/ CloneStarts(c) \/ CloneRefused(c) \/ CloneSucceeds(c) \/ CloneFails(c)
    \/ OpenStore(c) \/ OpenFails(c) \/ SourceMismatch(c) \/ Attached(c)
    \/ MountpointBusy(c) \/ MountFails(c) \/ Mount(c) \/ Umount(c) \/ NoSuchMount(c)
    \/ Fetch(c) \/ FetchEnds(c) \/ Respond(c)

Next ==
    \/ \E d \in Daemons : Start(d) \/ Main(d) \/ Maintenance(d) \/ Crash(d)
    \/ \E c \in Clients : Handle(c) \/ \E q \in Requests : Connect(c, q) \/ ConnectFails(c, q)
    \/ \E s \in Sources : OrphanEnds(s)

\* Every thread keeps running; clones, fetches and git maintenance end.
Fairness ==
    /\ \A d \in Daemons : WF_vars(Main(d)) /\ WF_vars(Maintenance(d))
    /\ \A c \in Clients : WF_vars(Handle(c))

Spec == Init /\ [][Next]_vars /\ Fairness

-----------------------------------------------------------------------------
Replies == {"Ok", "Attached", "MOUNT_FAILED", "NO_SUCH_MOUNT",
            "SOURCE_OPEN_FAILED", "SOURCE_MISMATCH", "MOUNTPOINT_BUSY", "REF_RESOLVE_FAILED",
            "NOT_ATTACHED", "FETCH_FAILED"}

\* Every variable has its type; in particular the lock of a daemon is held exactly by the
\* handler thread that is between lock() and its answer in handle_mount or handle_attach.
TypeOK ==
    /\ stage \in [Daemons -> {"off", "unlinked", "bound", "listening", "serving",
                             "stopping", "joined", "closed", "unsocketed", "tidied", "returned",
                             "exited", "aborted", "crashed"}]
    /\ flag \in [Daemons -> BOOLEAN]
    /\ backlog \in [Daemons -> Seq(Clients \cup {Wake})]
    /\ maint \in [Daemons -> {"off", "sleep", "due", "run"}]
    /\ source \in [Daemons -> Sources \cup {None}]
    /\ \A d \in Daemons :
          /\ DOMAIN table[d] \subseteq Mountpoints
          /\ \A m \in DOMAIN table[d] : table[d][m] \in Sources
          /\ {c \in Clients : lock[d] = c}
                = {c \in Handlers(d) : at[c] \in {"attach", "clone", "cloning", "open", "check"}}
    /\ socket \in Daemons \cup {None}
    /\ pidFile \in Daemons \cup {None}
    /\ mounted \in [Mountpoints -> Daemons \cup {None}]
    /\ cache \in [Sources -> {"absent", "partial", "complete"}]
    /\ at \in [Clients -> {"idle", "quit", "queued"} \cup Working]
    /\ req \in [Clients -> Requests \cup {NoRequest}]
    /\ peer \in [Clients -> Daemons \cup {None}]
    /\ reply \in [Clients -> Replies \cup {None}]
    /\ sent \in [Clients -> 0..MaxRequests]
    /\ attached \in [Sidecars -> Sources \cup {None}]

\* "V1 is one source per daemon": everything a daemon has mounted, and every Attached it
\* answers, is of the one source it is bound to, although the clients name their own.
OneSourcePerDaemon ==
    /\ \A d \in Daemons : \A m \in DOMAIN table[d] : table[d][m] = source[d]
    /\ \A c \in Clients :
          at[c] = "respond" /\ reply[c] = "Attached" => source[peer[c]] = req[c].source

\* What a running daemon has in its mount table is what it has mounted on the host: a Mount
\* or Umount that is answered has happened, and nothing else disappears from either.  Once
\* `run` has dropped its Arc of the state, whoever holds the last one unmounts everything: only
\* a handler thread that main does not wait for can leave a mount behind.
TableMatchesMounts ==
    \A d \in Daemons :
        LET here == {m \in Mountpoints : mounted[m] = d} IN
        /\ Running(d) => DOMAIN table[d] = here
        /\ stage[d] = "returned" /\ Handlers(d) = {} => here = {}

\* As long as there was only one daemon, the clone it serves from is complete: the second of
\* two concurrent first Mounts or Attaches waits for the clone of the first (the lock is held
\* over attach_source) and does not open the directory that git is still filling.
ServesCompleteClone ==
    \A d \in Daemons :
        (\A e \in Daemons \ {d} : stage[e] = "off") /\ source[d] # None
            => cache[source[d]] = "complete"

\* The files on disk tell the truth about the daemon that wrote them.  The pid file is written
\* only behind the socket and its mode, so a live daemon's pid means that it serves or is on
\* its way out; and a daemon that returned from `run` left neither file, on every path but one:
\* when fchmodat fails, the `?` leaves the bound socket file behind (and never a pid file).
\* It says nothing of the files of others: a second instance removes them freely.
NoStaleFiles ==
    \A d \in Daemons :
        /\ pidFile = d => stage[d] \in {"serving", "stopping", "joined", "closed", "unsocketed",
                                       "crashed"}
        /\ socket = d => Listening(d) \/ stage[d] \in {"closed", "aborted", "crashed"}

\* Every client gets an answer or a closed connection, whatever happens to the daemon.
EveryRequestEnds ==
    \A c \in Clients : at[c] \notin {"idle", "quit"} ~> at[c] \in {"idle", "quit"}

\* Once a shutdown is requested the accept loop is woken, unless another instance took the
\* socket path (request_shutdown then wakes that one), and from there the process ends.
ShutdownEnds ==
    \A d \in Daemons :
        /\ flag[d] /\ stage[d] = "serving" /\ socket = d ~> stage[d] # "serving" \/ socket # d
        /\ stage[d] \in Stopping \cup {"returned"} ~> stage[d] \in Ended

=============================================================================
