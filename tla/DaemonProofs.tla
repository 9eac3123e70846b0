---------------------------- MODULE DaemonProofs ----------------------------
(***************************************************************************)
(* Theorems about Daemon, for any number of daemons, clients, sources,     *)
(* mount points and requests.                                              *)
(***************************************************************************)
EXTENDS Daemon, SequenceTheorems, TLAPS

Stages == {"off", "unlinked", "bound", "listening", "serving", "stopping", "joined", "closed",
           "unsocketed", "tidied", "returned", "exited", "aborted", "crashed"}

\* A mount table: a function from some mount points to sources.
Tables == UNION {[S -> Sources] : S \in SUBSET Mountpoints}

Types ==
    /\ stage \in [Daemons -> Stages]
    /\ flag \in [Daemons -> BOOLEAN]
    /\ backlog \in [Daemons -> Seq(Clients \cup {Wake})]
    /\ maint \in [Daemons -> {"off", "sleep", "due", "run"}]
    /\ source \in [Daemons -> Sources \cup {None}]
    /\ table \in [Daemons -> Tables]
    /\ lock \in [Daemons -> Clients \cup {None}]
    /\ socket \in Daemons \cup {None}
    /\ pidFile \in Daemons \cup {None}
    /\ mounted \in [Mountpoints -> Daemons \cup {None}]
    /\ cache \in [Sources -> {"absent", "partial", "complete"}]
    /\ at \in [Clients -> {"idle", "quit", "queued"} \cup Working]
    /\ req \in [Clients -> Requests \cup {NoRequest}]
    /\ peer \in [Clients -> Daemons \cup {None}]
    /\ reply \in [Clients -> Replies \cup {None}]
    /\ sent \in [Clients -> 0..MaxRequests]
    /\ attached \in [Sidecars -> Sources \cup {None}]

\* Who may still have its name on the socket path and in the pid file.
FilesInv ==
    \A d \in Daemons :
        /\ socket = d => stage[d] \in {"bound", "listening", "serving", "stopping", "joined",
                                       "closed", "aborted", "crashed"}
        /\ pidFile = d => stage[d] \in {"serving", "stopping", "joined", "closed", "unsocketed",
                                        "crashed"}

\* The part of handle_mount and handle_attach that runs under the lock.
Critical == {"attach", "clone", "cloning", "open", "check"}

\* A connection belongs to a daemon that can have it, and to a request that gets this far.
ConnInv ==
    \A c \in Clients :
        /\ at[c] \in Working \cup {"queued"} => peer[c] \in Daemons /\ req[c] \in Requests
        /\ at[c] = "queued" => Listening(peer[c])
        /\ at[c] \in Working => stage[peer[c]] \in {"serving", "returned"} \cup Stopping
        /\ at[c] \in Critical => req[c].op \in {"Mount", "Attach"}

\* A connection that waits to be accepted is in one place of one backlog.
BacklogInv ==
    \A d \in Daemons : \A i \in 1..Len(backlog[d]) : backlog[d][i] \in Clients =>
        /\ at[backlog[d][i]] = "queued"
        /\ peer[backlog[d][i]] = d
        /\ \A j \in 1..Len(backlog[d]) : backlog[d][j] = backlog[d][i] => j = i

LockInv ==
    \A d \in Daemons : \A c \in Clients : lock[d] = c <=> peer[c] = d /\ at[c] \in Critical

\* While attach_source runs the daemon has no source; what it has mounted is of its source.
SourceInv ==
    /\ \A c \in Clients : at[c] \in {"clone", "cloning", "open"} => source[peer[c]] = None
    /\ \A c \in Clients : at[c] = "respond" /\ reply[c] = "Attached" =>
          req[c].op = "Attach" /\ source[peer[c]] = req[c].source
    /\ \A d \in Daemons : \A m \in DOMAIN table[d] : table[d][m] = source[d]
    /\ \A d \in Daemons : stage[d] \in {"off", "unlinked"} \cup Ended => source[d] = None

MountInv ==
    \A d \in Daemons :
        /\ stage[d] \notin Ended => \A m \in Mountpoints : m \in DOMAIN table[d] <=> mounted[m] = d
        /\ stage[d] = "returned" /\ Handlers(d) = {} => \A m \in Mountpoints : mounted[m] # d

Alone(d) == \A e \in Daemons \ {d} : stage[e] = "off"

\* Where there is no other daemon, every directory git is filling belongs to a clone the
\* daemon waits for, and what it opens or serves from is complete.
CloneInv ==
    \A d \in Daemons : Alone(d) /\ stage[d] \notin Ended =>
        /\ \A s \in Sources : cache[s] = "partial" =>
              \E c \in Clients : at[c] = "cloning" /\ req[c].source = s
        /\ \A c \in Clients : at[c] = "open" => cache[req[c].source] = "complete"
        /\ source[d] # None => cache[source[d]] = "complete"

DaemonInv ==
    /\ Types
    /\ FilesInv
    /\ ConnInv
    /\ BacklogInv
    /\ LockInv
    /\ SourceInv
    /\ MountInv
    /\ CloneInv

-----------------------------------------------------------------------------
(* What a request holds, by its operation.                                 *)
LEMMA RequestFields ==
    /\ \A q \in Requests :
          /\ q.op = "Mount" => q.source \in Sources /\ q.mp \in Mountpoints
          /\ q.op = "Umount" => q.mp \in Mountpoints
          /\ q.op = "Attach" => q.source \in Sources
          /\ q.source \in Sources \cup {None}
    /\ NoRequest.source = None /\ NoRequest.op = None
    BY DEF Requests, Request, NoRequest

\* The table t with the mount point m of the source s.
Entered(t, m, s) == [n \in DOMAIN t \cup {m} |-> IF n = m THEN s ELSE t[n]]

(* Entering a mount in a table, and removing one.                          *)
LEMMA TableUpdates ==
    /\ NoMounts \in Tables /\ DOMAIN NoMounts = {}
    /\ \A t \in Tables : \A m \in Mountpoints :
          /\ Restrict(t, DOMAIN t \ {m}) \in Tables
          /\ \A s \in Sources : Entered(t, m, s) \in Tables
<1>1. NoMounts \in [{} -> Sources] /\ DOMAIN NoMounts = {}
    BY DEF NoMounts
<1>2. NoMounts \in Tables
    BY <1>1 DEF Tables
<1>3. ASSUME NEW t \in Tables, NEW m \in Mountpoints
      PROVE  /\ Restrict(t, DOMAIN t \ {m}) \in Tables
             /\ \A s \in Sources : Entered(t, m, s) \in Tables
    <2>1. PICK S \in SUBSET Mountpoints : t \in [S -> Sources]
        BY DEF Tables
    <2>2. DOMAIN t = S
        BY <2>1
    <2>3. Restrict(t, S \ {m}) \in [S \ {m} -> Sources]
        BY <2>1 DEF Restrict
    <2>4. ASSUME NEW s \in Sources
          PROVE  Entered(t, m, s) \in [S \cup {m} -> Sources]
        BY <2>1, <2>2 DEF Entered
    <2>5. S \ {m} \in SUBSET Mountpoints /\ S \cup {m} \in SUBSET Mountpoints
        OBVIOUS
    <2>6. Restrict(t, S \ {m}) \in Tables
        BY <2>3, <2>5 DEF Tables
    <2>7. \A s \in Sources : Entered(t, m, s) \in Tables
        BY <2>4, <2>5 DEF Tables
    <2> QED
        BY <2>2, <2>6, <2>7
<1> QED
    BY <1>1, <1>2, <1>3

-----------------------------------------------------------------------------
(* Type correctness, one action at a time.                                 *)
LEMMA MainTypes ==
    ASSUME Types, NEW d \in Daemons, Start(d) \/ Main(d) \/ Maintenance(d) \/ Crash(d)
    PROVE  Types'
<1> USE DEF Types, proc, book, files, host, conn, Stages
<1>0. NoMounts \in Tables
    BY TableUpdates
<1>1. CASE Start(d)
    BY <1>1, <1>0 DEF Start, Move, Working
<1>2. CASE Bind(d)
    BY <1>2, <1>0 DEF Bind, Move, Working
<1>3. CASE BindFails(d)
    BY <1>3, <1>0 DEF BindFails, Move, Working
<1>4. CASE Chmod(d)
    BY <1>4, <1>0 DEF Chmod, Move, Working
<1>5. CASE ChmodFails(d)
    BY <1>5, <1>0 DEF ChmodFails, Move, Gone, Hangup, Working
<1>6. CASE WritePid(d)
    BY <1>6, <1>0 DEF WritePid, Move, Working
<1>7. CASE WritePidFails(d)
    BY <1>7, <1>0 DEF WritePidFails, Move, Gone, Hangup, Working
<1>8. CASE Accept(d)
    BY <1>8, <1>0 DEF Accept, Move, Working
<1>9. CASE BreakLoop(d)
    BY <1>9, <1>0 DEF BreakLoop, Move, Hangup, Working
<1>10. CASE JoinMaintenance(d)
    BY <1>10, <1>0 DEF JoinMaintenance, Move, Working
<1>11. CASE CloseListener(d)
    BY <1>11, <1>0 DEF CloseListener, Move, Hangup, Working
<1>12. CASE RemoveSocket(d)
    BY <1>12, <1>0 DEF RemoveSocket, Move, Working
<1>13. CASE RemovePid(d)
    BY <1>13, <1>0 DEF RemovePid, Move, Working
<1>14. CASE DropState(d)
    <2>1. mounted' \in [Mountpoints -> Daemons \cup {None}]
        BY <1>14 DEF DropState, Unmounted
    <2>2. table' \in [Daemons -> Tables]
        BY <1>14, <1>0 DEF DropState
    <2> QED
        BY <1>14, <2>1, <2>2 DEF DropState, Move
<1>15. CASE ProcessExits(d)
    BY <1>15, <1>0 DEF ProcessExits, Move, Gone, Hangup, Working
<1>16. CASE Crash(d)
    BY <1>16, <1>0 DEF Crash, Gone, Hangup, Working
<1>17. CASE MaintenanceStops(d)
    BY <1>17, <1>0 DEF MaintenanceStops, Move, Working
<1>18. CASE MaintenanceDue(d)
    BY <1>18, <1>0 DEF MaintenanceDue, Move, Working
<1>19. CASE RunMaintenance(d)
    BY <1>19, <1>0 DEF RunMaintenance, Move, Working
<1>20. CASE MaintenanceEnds(d)
    BY <1>20, <1>0 DEF MaintenanceEnds, Move, Working
<1> QED
    BY <1>1, <1>2, <1>3, <1>4, <1>5, <1>6, <1>7, <1>8, <1>9, <1>10, <1>11, <1>12, <1>13, <1>14, <1>15, <1>16, <1>17, <1>18, <1>19, <1>20 DEF Main, Maintenance

LEMMA HandlerTypes ==
    ASSUME Types, ConnInv, NEW c \in Clients, Handle(c)
    PROVE  Types'
<1> USE RequestFields DEF Types, proc, book, files, host, conn, Working, Replies
<1>1. CASE Status(c)
    BY <1>1 DEF Status, Answer, Goes, Release
<1>2. CASE RequestShutdown(c)
    BY <1>2 DEF RequestShutdown, Answer, Goes, Release
<1>3. CASE WakeAcceptLoop(c)
    <2>1. backlog' \in [Daemons -> Seq(Clients \cup {Wake})]
        <3>1. CASE Reachable
            <4>1. socket \in Daemons
                BY <3>1 DEF Reachable
            <4>2. Append(backlog[socket], Wake) \in Seq(Clients \cup {Wake})
                BY <4>1
            <4> QED
                BY <1>3, <3>1, <4>1, <4>2 DEF WakeAcceptLoop
        <3> QED
            BY <1>3, <3>1 DEF WakeAcceptLoop
    <2> QED
        BY <1>3, <2>1 DEF WakeAcceptLoop, Answer
<1>4. CASE Canonicalize(c)
    BY <1>4 DEF Canonicalize, Answer, Goes, Release
<1>5. CASE TakeLock(c)
    BY <1>5 DEF TakeLock, Answer, Goes, Release
<1>6. CASE AttachSource(c)
    BY <1>6 DEF AttachSource, Answer, Goes, Release
<1>7. CASE CloneStarts(c)
    BY <1>7 DEF CloneStarts, Answer, Goes, Release
<1>8. CASE CloneRefused(c)
    BY <1>8 DEF CloneRefused, Answer, Goes, Release
<1>9. CASE CloneSucceeds(c)
    BY <1>9 DEF CloneSucceeds, Answer, Goes, Release
<1>10. CASE CloneFails(c)
    BY <1>10 DEF CloneFails, Answer, Goes, Release
<1>11. CASE OpenStore(c)
    BY <1>11 DEF OpenStore, Answer, Goes, Release
<1>12. CASE OpenFails(c)
    BY <1>12 DEF OpenFails, Answer, Goes, Release
<1>13. CASE SourceMismatch(c)
    BY <1>13 DEF SourceMismatch, Answer, Goes, Release
<1>14. CASE Attached(c)
    BY <1>14 DEF Attached, Answer, Goes, Release
<1>15. CASE MountpointBusy(c)
    BY <1>15 DEF MountpointBusy, Answer, Goes, Release
<1>16. CASE MountFails(c)
    <2>1. PICK r \in {"REF_RESOLVE_FAILED", "MOUNT_FAILED"} : Answer(c, r)
        BY <1>16 DEF MountFails
    <2> QED
        BY <1>16, <2>1 DEF MountFails, Answer, Release
<1>17. CASE Mount(c)
    <2> DEFINE m == req[c].mp
               d == peer[c]
    <2>1. m \in Mountpoints /\ req[c].source \in Sources /\ d \in Daemons
        BY <1>17 DEF Mount, SourceAgrees, ConnInv
    <2>2. table' \in [Daemons -> Tables]
        <3>1. Entered(table[d], m, req[c].source) \in Tables
            BY <2>1, TableUpdates
        <3>2. table' = [table EXCEPT ![d] = Entered(@, m, req[c].source)]
            BY <1>17 DEF Mount, Entered
        <3> QED
            BY <3>1, <3>2
    <2>3. mounted' \in [Mountpoints -> Daemons \cup {None}]
        BY <1>17, <2>1 DEF Mount
    <2> QED
        BY <1>17, <2>2, <2>3 DEF Mount, Answer, Release
<1>18. CASE Umount(c)
    <2>1. req[c].mp \in Mountpoints /\ peer[c] \in Daemons
        BY <1>18 DEF Umount, Unmounting, ConnInv
    <2>2. table' \in [Daemons -> Tables]
        BY <1>18, <2>1, TableUpdates DEF Umount
    <2>3. mounted' \in [Mountpoints -> Daemons \cup {None}]
        BY <1>18, <2>1 DEF Umount
    <2> QED
        BY <1>18, <2>2, <2>3 DEF Umount, Answer
<1>19. CASE NoSuchMount(c)
    BY <1>19 DEF NoSuchMount, Answer, Goes, Release
<1>20. CASE Fetch(c)
    BY <1>20 DEF Fetch, Answer, Goes, Release
<1>21. CASE FetchEnds(c)
    BY <1>21 DEF FetchEnds, Answer, Goes, Release
<1>22. CASE Respond(c)
    <2>1. mounted' \in [Mountpoints -> Daemons \cup {None}]
        BY <1>22 DEF Respond, Unmounted
    <2>2. table' \in [Daemons -> Tables]
        <3>1. NoMounts \in Tables
            BY TableUpdates
        <3> QED
            BY <1>22, <3>1 DEF Respond
    <2>3. attached' \in [Sidecars -> Sources \cup {None}]
        <3>1. req[c].source \in Sources \cup {None}
            OBVIOUS
        <3> QED
            BY <1>22, <3>1 DEF Respond
    <2>4. /\ at' \in [Clients -> {"idle", "quit", "queued"} \cup Working]
          /\ req' \in [Clients -> Requests \cup {NoRequest}]
          /\ peer' \in [Clients -> Daemons \cup {None}]
          /\ reply' \in [Clients -> Replies \cup {None}]
        BY <1>22 DEF Respond
    <2> QED
        BY <1>22, <2>1, <2>2, <2>3, <2>4 DEF Respond
<1> QED
    BY <1>1, <1>2, <1>3, <1>4, <1>5, <1>6, <1>7, <1>8, <1>9, <1>10, <1>11, <1>12, <1>13, <1>14, <1>15, <1>16, <1>17, <1>18, <1>19, <1>20, <1>21, <1>22 DEF Handle

LEMMA ClientTypes ==
    ASSUME Types, NEW c \in Clients, NEW q \in Requests, Connect(c, q) \/ ConnectFails(c, q)
    PROVE  Types'
<1> USE DEF Types, proc, book, files, host, conn, Working
<1>1. sent' \in [Clients -> 0..MaxRequests]
    <2>1. sent' = [sent EXCEPT ![c] = @ + 1] /\ sent[c] < MaxRequests /\ sent[c] \in 0..MaxRequests
        BY DEF Connect, ConnectFails, Asks
    <2>2. sent[c] + 1 \in 0..MaxRequests
        BY <2>1, DaemonAssumption
    <2> QED
        BY <2>1, <2>2
<1>2. CASE Connect(c, q)
    <2>1. socket \in Daemons /\ Append(backlog[socket], c) \in Seq(Clients \cup {Wake})
        BY <1>2 DEF Connect, Reachable
    <2>2. backlog' \in [Daemons -> Seq(Clients \cup {Wake})]
        BY <1>2, <2>1 DEF Connect
    <2> QED
        BY <1>1, <1>2, <2>1, <2>2 DEF Connect
<1>3. CASE ConnectFails(c, q)
    BY <1>1, <1>3 DEF ConnectFails
<1> QED
    BY <1>2, <1>3

LEMMA OrphanTypes ==
    ASSUME Types, NEW s \in Sources, OrphanEnds(s)
    PROVE  Types'
<1>1. PICK r \in {"complete", "absent"} : cache' = [cache EXCEPT ![s] = r]
    BY DEF OrphanEnds
<1> QED
    BY <1>1 DEF OrphanEnds, Types, proc, book, files, conn
-----------------------------------------------------------------------------
(* What the steps of handlers, clients and maintenance leave alone.        *)
LEMMA HandlerFrame ==
    ASSUME NEW c \in Clients, Handle(c)
    PROVE  stage' = stage /\ maint' = maint /\ socket' = socket /\ pidFile' = pidFile
    BY DEF Handle, Status, RequestShutdown, WakeAcceptLoop, Canonicalize, TakeLock, AttachSource,
           CloneStarts, CloneRefused, CloneSucceeds, CloneFails, OpenStore, OpenFails,
           SourceMismatch, Attached, MountpointBusy, MountFails, Mount, Umount, NoSuchMount,
           Fetch, FetchEnds, Respond, proc, files

LEMMA ClientFrame ==
    ASSUME Types, NEW c \in Clients, NEW q \in Requests, Connect(c, q) \/ ConnectFails(c, q)
    PROVE  /\ UNCHANGED <<stage, flag, maint, book, files, host, reply, attached>>
           /\ at[c] = "idle"
           /\ \A e \in Clients \ {c} : req'[e] = req[e] /\ peer'[e] = peer[e] /\ at'[e] = at[e]
    BY DEF Types, Connect, ConnectFails, Asks, proc

LEMMA MaintenanceFrame ==
    ASSUME NEW d \in Daemons, Maintenance(d)
    PROVE  UNCHANGED <<stage, flag, backlog, book, files, host, conn>>
    BY DEF Maintenance, MaintenanceStops, MaintenanceDue, RunMaintenance, MaintenanceEnds

LEMMA OrphanFrame ==
    ASSUME NEW s \in Sources, OrphanEnds(s)
    PROVE  UNCHANGED <<proc, book, files, mounted, conn>>
    BY DEF OrphanEnds

(* The socket path and the pid file name nobody who left them.             *)
LEMMA MainFiles ==
    ASSUME Types, FilesInv, NEW d \in Daemons, Start(d) \/ Main(d) \/ Maintenance(d) \/ Crash(d)
    PROVE  FilesInv'
<1> USE DEF FilesInv, Types, Stages, files, Move
<1>1. CASE Start(d)
    BY <1>1, DaemonAssumption DEF Start
<1>2. CASE Bind(d)
    BY <1>2, DaemonAssumption DEF Bind
<1>3. CASE BindFails(d) \/ Chmod(d)
    BY <1>3 DEF BindFails, Chmod
<1>4. CASE ChmodFails(d)
    BY <1>4, DaemonAssumption DEF ChmodFails
<1>5. CASE WritePid(d)
    BY <1>5, DaemonAssumption DEF WritePid
<1>6. CASE WritePidFails(d)
    BY <1>6, DaemonAssumption DEF WritePidFails
<1>7. CASE BreakLoop(d) \/ JoinMaintenance(d) \/ CloseListener(d)
    BY <1>7 DEF BreakLoop, JoinMaintenance, CloseListener
<1>8. CASE RemovePid(d)
    BY <1>8, DaemonAssumption DEF RemovePid
<1>9. CASE DropState(d) \/ ProcessExits(d) \/ Crash(d)
    BY <1>9 DEF DropState, ProcessExits, Crash, Running, Starting, Stopping
<1>10. CASE Accept(d) \/ Maintenance(d)
    BY <1>10, MaintenanceFrame DEF Accept
<1>11. CASE RemoveSocket(d)
    BY <1>11, DaemonAssumption DEF RemoveSocket
<1> QED
    BY <1>1, <1>2, <1>3, <1>4, <1>5, <1>6, <1>7, <1>8, <1>9, <1>10, <1>11 DEF Main

(* Connections: who they belong to.                                        *)
LEMMA MainConns ==
    ASSUME Types, ConnInv, BacklogInv, NEW d \in Daemons,
           Start(d) \/ Main(d) \/ Maintenance(d) \/ Crash(d)
    PROVE  ConnInv'
<1> USE DEF ConnInv, Types, Stages, Move, Working, Critical, Listening, Stopping, conn
<1>1. CASE Start(d)
    BY <1>1 DEF Start
<1>2. CASE Bind(d)
    BY <1>2 DEF Bind
<1>3. CASE BindFails(d)
    BY <1>3 DEF BindFails
<1>4. CASE Chmod(d)
    BY <1>4 DEF Chmod
<1>5. CASE ChmodFails(d)
    BY <1>5 DEF ChmodFails, Gone, Hangup, Connected
<1>6. CASE WritePid(d)
    BY <1>6 DEF WritePid
<1>7. CASE WritePidFails(d)
    BY <1>7 DEF WritePidFails, Gone, Hangup, Connected
<1>8. CASE Accept(d)
    BY <1>8 DEF Accept, BacklogInv
<1>9. CASE BreakLoop(d)
    BY <1>9 DEF BreakLoop, Hangup
<1>10. CASE JoinMaintenance(d)
    BY <1>10 DEF JoinMaintenance
<1>11. CASE CloseListener(d)
    BY <1>11 DEF CloseListener, Hangup, Connected
<1>12. CASE RemoveSocket(d)
    BY <1>12 DEF RemoveSocket
<1>13. CASE RemovePid(d)
    BY <1>13 DEF RemovePid
<1>14. CASE DropState(d)
    BY <1>14 DEF DropState
<1>15. CASE ProcessExits(d)
    BY <1>15 DEF ProcessExits, Gone, Hangup, Connected
<1>16. CASE Crash(d)
    BY <1>16 DEF Crash, Gone, Hangup, Connected
<1>17. CASE Maintenance(d)
    BY <1>17, MaintenanceFrame
<1> QED
    BY <1>1, <1>2, <1>3, <1>4, <1>5, <1>6, <1>7, <1>8, <1>9, <1>10, <1>11, <1>12, <1>13, <1>14, <1>15, <1>16, <1>17 DEF Main

LEMMA HandlerConns ==
    ASSUME Types, ConnInv, NEW c \in Clients, Handle(c)
    PROVE  ConnInv'
<1> USE HandlerFrame DEF ConnInv, Types, Working, Critical, Listening, conn
<1>1. CASE Status(c)
    BY <1>1 DEF Status, Answer, Goes
<1>2. CASE RequestShutdown(c)
    BY <1>2 DEF RequestShutdown, Answer, Goes
<1>3. CASE WakeAcceptLoop(c)
    BY <1>3 DEF WakeAcceptLoop, Answer, Goes
<1>4. CASE Canonicalize(c)
    BY <1>4 DEF Canonicalize, Answer, Goes
<1>5. CASE TakeLock(c)
    BY <1>5 DEF TakeLock, Answer, Goes
<1>6. CASE AttachSource(c)
    BY <1>6 DEF AttachSource, Answer, Goes
<1>7. CASE CloneStarts(c)
    BY <1>7 DEF CloneStarts, Answer, Goes
<1>8. CASE CloneRefused(c)
    BY <1>8 DEF CloneRefused, Answer, Goes
<1>9. CASE CloneSucceeds(c)
    BY <1>9 DEF CloneSucceeds, Answer, Goes
<1>10. CASE CloneFails(c)
    BY <1>10 DEF CloneFails, Answer, Goes
<1>11. CASE OpenStore(c)
    BY <1>11 DEF OpenStore, Answer, Goes
<1>12. CASE OpenFails(c)
    BY <1>12 DEF OpenFails, Answer, Goes
<1>13. CASE SourceMismatch(c)
    BY <1>13 DEF SourceMismatch, Answer, Goes
<1>14. CASE Attached(c)
    BY <1>14 DEF Attached, SourceAgrees, Answer
<1>15. CASE MountpointBusy(c)
    BY <1>15 DEF MountpointBusy, SourceAgrees, Answer
<1>16. CASE MountFails(c)
    BY <1>16 DEF MountFails, SourceAgrees, Answer
<1>17. CASE Mount(c)
    BY <1>17 DEF Mount, SourceAgrees, Answer
<1>18. CASE Umount(c)
    BY <1>18 DEF Umount, Unmounting, Answer
<1>19. CASE NoSuchMount(c)
    BY <1>19 DEF NoSuchMount, Unmounting, Answer
<1>20. CASE Fetch(c)
    BY <1>20 DEF Fetch, Answer, Goes
<1>21. CASE FetchEnds(c)
    BY <1>21 DEF FetchEnds, Answer, Goes
<1>22. CASE Respond(c)
    BY <1>22 DEF Respond, Answer, Goes
<1> QED
    BY <1>1, <1>2, <1>3, <1>4, <1>5, <1>6, <1>7, <1>8, <1>9, <1>10, <1>11, <1>12, <1>13, <1>14, <1>15, <1>16, <1>17, <1>18, <1>19, <1>20, <1>21, <1>22 DEF Handle

LEMMA ClientConns ==
    ASSUME Types, ConnInv, NEW c \in Clients, NEW q \in Requests,
           Connect(c, q) \/ ConnectFails(c, q)
    PROVE  ConnInv'
<1> USE ClientFrame DEF ConnInv, Types, Working, Critical, Listening
<1>1. CASE Connect(c, q)
    BY <1>1 DEF Connect, Reachable, Listening
<1>2. CASE ConnectFails(c, q)
    BY <1>2 DEF ConnectFails
<1> QED
    BY <1>1, <1>2

(* A handler's step moves its own client only, which had been accepted.    *)
LEMMA HandlerMoves ==
    ASSUME Types, NEW c \in Clients, Handle(c)
    PROVE  /\ at[c] \in Working
           /\ \A e \in Clients \ {c} :
                 at'[e] = at[e] /\ peer'[e] = peer[e] /\ req'[e] = req[e] /\ reply'[e] = reply[e]
           /\ ~Respond(c) => peer' = peer /\ req' = req /\ at'[c] \in Working
<1> USE DEF Types, conn, Working
<1>1. CASE Status(c)
    BY <1>1 DEF Status, Answer
<1>2. CASE RequestShutdown(c)
    BY <1>2 DEF RequestShutdown, Goes
<1>3. CASE WakeAcceptLoop(c)
    BY <1>3 DEF WakeAcceptLoop, Answer
<1>4. CASE Canonicalize(c)
    BY <1>4 DEF Canonicalize, Answer, Goes
<1>5. CASE TakeLock(c)
    BY <1>5 DEF TakeLock
<1>6. CASE AttachSource(c)
    BY <1>6 DEF AttachSource, Goes
<1>7. CASE CloneStarts(c)
    BY <1>7 DEF CloneStarts, Goes
<1>8. CASE CloneRefused(c)
    BY <1>8 DEF CloneRefused, Answer
<1>9. CASE CloneSucceeds(c)
    BY <1>9 DEF CloneSucceeds, Goes
<1>10. CASE CloneFails(c)
    BY <1>10 DEF CloneFails, Answer
<1>11. CASE OpenStore(c)
    BY <1>11 DEF OpenStore, Goes
<1>12. CASE OpenFails(c)
    BY <1>12 DEF OpenFails, Answer
<1>13. CASE SourceMismatch(c)
    BY <1>13 DEF SourceMismatch, Answer
<1>14. CASE Attached(c)
    BY <1>14 DEF Attached, SourceAgrees, Answer
<1>15. CASE MountpointBusy(c)
    BY <1>15 DEF MountpointBusy, SourceAgrees, Answer
<1>16. CASE MountFails(c)
    BY <1>16 DEF MountFails, SourceAgrees, Answer
<1>17. CASE Mount(c)
    BY <1>17 DEF Mount, SourceAgrees, Answer
<1>18. CASE Umount(c)
    BY <1>18 DEF Umount, Unmounting, Answer
<1>19. CASE NoSuchMount(c)
    BY <1>19 DEF NoSuchMount, Unmounting, Answer
<1>20. CASE Fetch(c)
    BY <1>20 DEF Fetch, Answer, Goes
<1>21. CASE FetchEnds(c)
    BY <1>21 DEF FetchEnds, Answer
<1>22. CASE Respond(c)
    BY <1>22 DEF Respond
<1> QED
    BY <1>1, <1>2, <1>3, <1>4, <1>5, <1>6, <1>7, <1>8, <1>9, <1>10, <1>11, <1>12, <1>13, <1>14, <1>15, <1>16, <1>17, <1>18, <1>19, <1>20, <1>21, <1>22 DEF Handle

(* The backlog.                                                            *)
LEMMA BacklogTail ==
    ASSUME Types, BacklogInv, NEW d \in Daemons, backlog[d] # <<>>,
           backlog' = [backlog EXCEPT ![d] = Tail(@)],
           \A e \in Clients : e # Head(backlog[d]) /\ at[e] = "queued" => at'[e] = "queued",
           \A e \in Clients : e # Head(backlog[d]) => peer'[e] = peer[e]
    PROVE  BacklogInv'
<1> DEFINE q == backlog[d]
<1>1. /\ q \in Seq(Clients \cup {Wake}) /\ Len(q) \in Nat \ {0}
      /\ Len(Tail(q)) = Len(q) - 1 /\ \A i \in 1..Len(q) - 1 : Tail(q)[i] = q[i + 1]
      /\ Head(q) = q[1]
    BY DEF Types
<1>2. backlog'[d] = Tail(q) /\ \A e \in Daemons \ {d} : backlog'[e] = backlog[e]
    BY DEF Types
<1>3. \A i \in 1..Len(q) : q[i] \in Clients =>
        /\ at[q[i]] = "queued" /\ peer[q[i]] = d
        /\ \A j \in 1..Len(q) : q[j] = q[i] => j = i
    BY DEF BacklogInv
<1> HIDE DEF q
<1>4. ASSUME NEW i \in 1..Len(Tail(q)), Tail(q)[i] \in Clients
      PROVE  /\ at'[Tail(q)[i]] = "queued" /\ peer'[Tail(q)[i]] = d
             /\ \A j \in 1..Len(Tail(q)) : Tail(q)[j] = Tail(q)[i] => j = i
    <2>1. i + 1 \in 1..Len(q) /\ 1 \in 1..Len(q) /\ i + 1 # 1 /\ Tail(q)[i] = q[i + 1]
        BY <1>1
    <2>2. q[i + 1] # Head(q)
        BY <1>1, <1>3, <1>4, <2>1
    <2>3. ASSUME NEW j \in 1..Len(Tail(q)), Tail(q)[j] = Tail(q)[i] PROVE j = i
        <3>1. j + 1 \in 1..Len(q) /\ Tail(q)[j] = q[j + 1]
            BY <1>1
        <3>2. j + 1 = i + 1
            BY <1>3, <1>4, <2>1, <2>3, <3>1
        <3> QED
            BY <1>1, <3>2
    <2> QED
        BY <1>3, <1>4, <2>1, <2>2, <2>3 DEF q
<1>5. ASSUME NEW e \in Daemons \ {d}, NEW i \in 1..Len(backlog[e]), backlog[e][i] \in Clients
      PROVE  /\ at'[backlog[e][i]] = "queued" /\ peer'[backlog[e][i]] = e
             /\ \A j \in 1..Len(backlog[e]) : backlog[e][j] = backlog[e][i] => j = i
    <2>1. /\ at[backlog[e][i]] = "queued" /\ peer[backlog[e][i]] = e
          /\ \A j \in 1..Len(backlog[e]) : backlog[e][j] = backlog[e][i] => j = i
        BY <1>5 DEF BacklogInv
    <2>2. backlog[e][i] # Head(q)
        <3>1. Head(q) \in Clients => peer[Head(q)] = d
            BY <1>1, <1>3
        <3> QED
            BY <1>5, <2>1, <3>1
    <2> QED
        BY <1>5, <2>1, <2>2 DEF q
<1>6. ASSUME NEW e \in Daemons, NEW i \in 1..Len(backlog'[e]), backlog'[e][i] \in Clients
      PROVE  /\ at'[backlog'[e][i]] = "queued" /\ peer'[backlog'[e][i]] = e
             /\ \A j \in 1..Len(backlog'[e]) : backlog'[e][j] = backlog'[e][i] => j = i
    <2>1. CASE e = d
        <3> DEFINE t == Tail(q)
        <3>1. \A k \in 1..Len(t) : t[k] \in Clients =>
                /\ at'[t[k]] = "queued" /\ peer'[t[k]] = d
                /\ \A j \in 1..Len(t) : t[j] = t[k] => j = k
            BY <1>4
        <3>2. backlog'[e] = t
            BY <1>2, <2>1
        <3> HIDE DEF t
        <3>3. i \in 1..Len(t) /\ t[i] \in Clients
            BY <1>6, <3>2
        <3>4. /\ at'[t[i]] = "queued" /\ peer'[t[i]] = d
              /\ \A j \in 1..Len(t) : t[j] = t[i] => j = i
            BY <3>1, <3>3
        <3> QED
            BY <2>1, <3>2, <3>4, Zenon
    <2>2. CASE e # d
        BY <1>2, <1>5, <1>6, <2>2
    <2> QED
        BY <2>1, <2>2
<1> QED
    BY <1>6 DEF BacklogInv

LEMMA BacklogKept ==
    ASSUME Types, BacklogInv, backlog' = backlog,
           \A e \in Clients : at[e] = "queued" => at'[e] = "queued" /\ peer'[e] = peer[e]
    PROVE  BacklogInv'
    BY DEF BacklogInv

LEMMA BacklogClosed ==
    ASSUME Types, BacklogInv, NEW d \in Daemons, backlog' = [backlog EXCEPT ![d] = <<>>],
           \A e \in Clients : at[e] = "queued" /\ peer[e] # d => at'[e] = "queued" /\ peer'[e] = peer[e]
    PROVE  BacklogInv'
<1>1. backlog'[d] = <<>> /\ \A e \in Daemons \ {d} : backlog'[e] = backlog[e]
    BY DEF Types
<1>2. ASSUME NEW e \in Daemons, NEW i \in 1..Len(backlog'[e]), backlog'[e][i] \in Clients
      PROVE  /\ at'[backlog'[e][i]] = "queued" /\ peer'[backlog'[e][i]] = e
             /\ \A j \in 1..Len(backlog'[e]) : backlog'[e][j] = backlog'[e][i] => j = i
    <2>1. e # d
        BY <1>1, <1>2
    <2> QED
        BY <1>1, <1>2, <2>1 DEF BacklogInv
<1> QED
    BY <1>2 DEF BacklogInv

(* One more connection: a client that had none, or a wake-up.              *)
LEMMA BacklogAppend ==
    ASSUME Types, BacklogInv, NEW d \in Daemons, NEW c \in Clients \cup {Wake},
           backlog' = [backlog EXCEPT ![d] = Append(@, c)],
           c \in Clients => at[c] # "queued" /\ at'[c] = "queued" /\ peer'[c] = d,
           \A e \in Clients : at[e] = "queued" => at'[e] = "queued" /\ peer'[e] = peer[e]
    PROVE  BacklogInv'
<1> DEFINE q == backlog[d]
<1>1. /\ Len(q) \in Nat /\ Len(Append(q, c)) = Len(q) + 1 /\ Append(q, c)[Len(q) + 1] = c
      /\ \A i \in 1..Len(q) : Append(q, c)[i] = q[i]
    BY DEF Types
<1>2. backlog'[d] = Append(q, c) /\ \A e \in Daemons \ {d} : backlog'[e] = backlog[e]
    BY DEF Types
<1>3. \A i \in 1..Len(q) : q[i] \in Clients =>
        /\ at[q[i]] = "queued" /\ peer[q[i]] = d
        /\ \A j \in 1..Len(q) : q[j] = q[i] => j = i
    BY DEF BacklogInv
<1> HIDE DEF q
<1>4. \A i \in 1..Len(q) + 1 : i \in 1..Len(q) \/ i = Len(q) + 1
    BY <1>1
<1>5. ASSUME NEW i \in 1..Len(q) + 1, Append(q, c)[i] \in Clients
      PROVE  /\ at'[Append(q, c)[i]] = "queued" /\ peer'[Append(q, c)[i]] = d
             /\ \A j \in 1..Len(q) + 1 : Append(q, c)[j] = Append(q, c)[i] => j = i
    BY <1>1, <1>3, <1>4, <1>5
<1> QED
    BY <1>1, <1>2, <1>5 DEF BacklogInv

LEMMA MainBacklog ==
    ASSUME Types, BacklogInv, NEW d \in Daemons,
           Start(d) \/ Main(d) \/ Maintenance(d) \/ Crash(d)
    PROVE  BacklogInv'
<1> USE DEF Move, conn
<1>1. CASE \/ Start(d) \/ Bind(d) \/ BindFails(d) \/ Chmod(d) \/ WritePid(d) \/ JoinMaintenance(d)
           \/ RemoveSocket(d) \/ RemovePid(d) \/ DropState(d) \/ Maintenance(d)
    <2>1. UNCHANGED <<backlog, at, peer>>
        BY <1>1, MaintenanceFrame
        DEF Start, Bind, BindFails, Chmod, WritePid, JoinMaintenance, RemoveSocket, RemovePid, DropState
    <2> QED
        BY <2>1, BacklogKept
<1>2. CASE ChmodFails(d) \/ WritePidFails(d) \/ ProcessExits(d) \/ Crash(d)
    <2>1. backlog' = [backlog EXCEPT ![d] = <<>>] /\ Hangup(Connected(d))
        BY <1>2 DEF ChmodFails, WritePidFails, ProcessExits, Crash, Gone
    <2>2. \A e \in Clients : peer[e] # d => at'[e] = at[e] /\ peer'[e] = peer[e]
        BY <2>1 DEF Hangup, Connected
    <2> QED
        BY <2>1, <2>2, BacklogClosed
<1>3. CASE CloseListener(d)
    <2>1. \A e \in Clients : peer[e] # d => at'[e] = at[e] /\ peer'[e] = peer[e]
        BY <1>3 DEF CloseListener, Hangup, Connected
    <2> QED
        BY <1>3, <2>1, BacklogClosed DEF CloseListener
<1>4. CASE Accept(d)
    BY <1>4, BacklogTail DEF Accept, Types
<1>5. CASE BreakLoop(d)
    BY <1>5, BacklogTail DEF BreakLoop, Hangup
<1> QED
    BY <1>1, <1>2, <1>3, <1>4, <1>5 DEF Main

LEMMA HandlerBacklog ==
    ASSUME Types, BacklogInv, NEW c \in Clients, Handle(c)
    PROVE  BacklogInv'
<1>1. \A e \in Clients : at[e] = "queued" => at'[e] = "queued" /\ peer'[e] = peer[e]
    BY HandlerMoves DEF Working
<1>2. CASE WakeAcceptLoop(c) /\ Reachable
    <2>1. socket \in Daemons /\ backlog' = [backlog EXCEPT ![socket] = Append(@, Wake)]
        BY <1>2 DEF WakeAcceptLoop, Reachable, Types
    <2> QED
        BY <1>1, <2>1, BacklogAppend, DaemonAssumption
<1>3. CASE ~(WakeAcceptLoop(c) /\ Reachable)
    <2>1. backlog' = backlog
        BY <1>3
        DEF Handle, Status, RequestShutdown, WakeAcceptLoop, Canonicalize, TakeLock, AttachSource,
            CloneStarts, CloneRefused, CloneSucceeds, CloneFails, OpenStore, OpenFails,
            SourceMismatch, Attached, MountpointBusy, MountFails, Mount, Umount, NoSuchMount,
            Fetch, FetchEnds, Respond, proc
    <2> QED
        BY <1>1, <2>1, BacklogKept
<1> QED
    BY <1>2, <1>3

LEMMA ClientBacklog ==
    ASSUME Types, BacklogInv, NEW c \in Clients, NEW q \in Requests,
           Connect(c, q) \/ ConnectFails(c, q)
    PROVE  BacklogInv'
<1>1. \A e \in Clients : at[e] = "queued" => at'[e] = "queued" /\ peer'[e] = peer[e]
    BY ClientFrame
<1>2. CASE Connect(c, q)
    <2>1. socket \in Daemons /\ backlog' = [backlog EXCEPT ![socket] = Append(@, c)]
        BY <1>2 DEF Connect, Reachable, Types
    <2>2. at[c] # "queued" /\ at'[c] = "queued" /\ peer'[c] = socket
        BY <1>2 DEF Connect, Asks, Types
    <2> QED
        BY <1>1, <2>1, <2>2, BacklogAppend
<1>3. CASE ConnectFails(c, q)
    BY <1>1, <1>3, BacklogKept DEF ConnectFails, proc
<1> QED
    BY <1>2, <1>3

-----------------------------------------------------------------------------
(* The lock of a daemon is held exactly over attach_source and what        *)
(* follows it in handle_mount and handle_attach.                           *)
LEMMA LockKept ==
    ASSUME LockInv, lock' = lock,
           \A e \in Clients :
               \/ at[e] \notin Critical /\ at'[e] \notin Critical
               \/ at[e] \in Critical /\ at'[e] \in Critical /\ peer'[e] = peer[e]
    PROVE  LockInv'
    BY DEF LockInv

LEMMA MainLock ==
    ASSUME Types, BacklogInv, LockInv, NEW d \in Daemons,
           Start(d) \/ Main(d) \/ Maintenance(d) \/ Crash(d)
    PROVE  LockInv'
<1> USE DEF Move, conn, book
<1>1. CASE \/ Start(d) \/ Bind(d) \/ BindFails(d) \/ Chmod(d) \/ WritePid(d) \/ JoinMaintenance(d)
           \/ RemoveSocket(d) \/ RemovePid(d) \/ DropState(d) \/ Maintenance(d)
    <2>1. UNCHANGED <<lock, at, peer>>
        BY <1>1, MaintenanceFrame
        DEF Start, Bind, BindFails, Chmod, WritePid, JoinMaintenance, RemoveSocket, RemovePid, DropState
    <2> QED
        BY <2>1 DEF LockInv
<1>2. CASE ChmodFails(d) \/ WritePidFails(d) \/ ProcessExits(d) \/ Crash(d)
    <2>1. lock' = [lock EXCEPT ![d] = None] /\ Hangup(Connected(d))
        BY <1>2 DEF ChmodFails, WritePidFails, ProcessExits, Crash, Gone
    <2>2. lock'[d] = None /\ \A e \in Daemons \ {d} : lock'[e] = lock[e]
        BY <2>1 DEF Types
    <2>3. \A c \in Clients :
            IF c \in Connected(d) THEN peer'[c] = None /\ at'[c] \in {"quit", "idle"}
                                  ELSE peer'[c] = peer[c] /\ at'[c] = at[c]
        BY <2>1 DEF Hangup
    <2> QED
        BY <2>2, <2>3, DaemonAssumption DEF LockInv, Connected, Critical, Working
<1>3. CASE CloseListener(d)
    <2>1. lock' = lock /\ \A e \in Clients :
            IF at[e] = "queued" /\ e \in Connected(d) THEN at'[e] \in {"quit", "idle"}
                               ELSE at'[e] = at[e] /\ peer'[e] = peer[e]
        BY <1>3 DEF CloseListener, Hangup
    <2> QED
        BY <2>1, LockKept DEF Critical
<1>4. CASE Accept(d) \/ BreakLoop(d)
    <2>1. lock' = lock /\ \A e \in Clients :
            IF e = Head(backlog[d]) THEN at'[e] \in {"quit", "idle", "handling"}
                                    ELSE at'[e] = at[e] /\ peer'[e] = peer[e]
        BY <1>4 DEF Accept, BreakLoop, Hangup
    <2>2. Head(backlog[d]) \in Clients => at[Head(backlog[d])] = "queued"
        <3>1. backlog[d] # <<>> /\ backlog[d] \in Seq(Clients \cup {Wake})
            BY <1>4 DEF Accept, BreakLoop, Types
        <3>2. 1 \in 1..Len(backlog[d]) /\ Head(backlog[d]) = backlog[d][1]
            BY <3>1
        <3> QED
            BY <3>2 DEF BacklogInv
    <2> QED
        BY <2>1, <2>2, LockKept DEF Critical
<1> QED
    BY <1>1, <1>2, <1>3, <1>4 DEF Main

LEMMA HandlerLock ==
    ASSUME Types, ConnInv, LockInv, NEW c \in Clients, Handle(c)
    PROVE  LockInv'
<1> USE HandlerMoves DEF Working, Critical, book
<1>0. peer[c] \in Daemons /\ at[c] \in Working
    BY DEF ConnInv
<1>1. CASE TakeLock(c)
    <2>1. lock[peer[c]] = None /\ lock' = [lock EXCEPT ![peer[c]] = c] /\ peer' = peer
          /\ at'[c] \in Critical /\ at[c] \notin Critical
        BY <1>1 DEF TakeLock, LockFree, Types
    <2>2. lock'[peer[c]] = c /\ \A d \in Daemons \ {peer[c]} : lock'[d] = lock[d]
        BY <1>0, <2>1 DEF Types
    <2>3. \A e \in Clients : e # None
        BY DaemonAssumption
    <2> QED
        BY <1>0, <2>1, <2>2, <2>3 DEF LockInv
<1>2. CASE \/ CloneRefused(c) \/ CloneFails(c) \/ OpenFails(c) \/ SourceMismatch(c) \/ Attached(c)
           \/ MountpointBusy(c) \/ MountFails(c) \/ Mount(c)
    <2>1. lock' = [lock EXCEPT ![peer[c]] = None] /\ at'[c] = "respond" /\ at[c] \in Critical
          /\ peer' = peer
        BY <1>2
        DEF CloneRefused, CloneFails, OpenFails, SourceMismatch, Attached, MountpointBusy,
            MountFails, Mount, SourceAgrees, Answer, Release, Types
    <2>2. lock'[peer[c]] = None /\ \A d \in Daemons \ {peer[c]} : lock'[d] = lock[d]
        BY <1>0, <2>1 DEF Types
    <2>3. lock[peer[c]] = c
        BY <1>0, <2>1 DEF LockInv
    <2>4. \A e \in Clients : e # None
        BY DaemonAssumption
    <2> QED
        BY <1>0, <2>1, <2>2, <2>3, <2>4 DEF LockInv
<1>3. CASE AttachSource(c) \/ CloneStarts(c) \/ CloneSucceeds(c) \/ OpenStore(c)
    <2>1. lock' = lock /\ peer' = peer /\ at[c] \in Critical /\ at'[c] \in Critical
        BY <1>3 DEF AttachSource, CloneStarts, CloneSucceeds, OpenStore, Goes, Types
    <2> QED
        BY <2>1, LockKept
<1>4. CASE \/ Status(c) \/ RequestShutdown(c) \/ WakeAcceptLoop(c) \/ Canonicalize(c) \/ Umount(c)
           \/ NoSuchMount(c) \/ Fetch(c) \/ FetchEnds(c) \/ Respond(c)
    <2>1. lock' = lock /\ at[c] \notin Critical /\ at'[c] \notin Critical
        BY <1>4
        DEF Status, RequestShutdown, WakeAcceptLoop, Canonicalize, Umount, NoSuchMount, Unmounting,
            Fetch, FetchEnds, Respond, Answer, Goes, Types
    <2> QED
        BY <2>1, LockKept
<1> QED
    BY <1>1, <1>2, <1>3, <1>4 DEF Handle

LEMMA ClientLock ==
    ASSUME Types, LockInv, NEW c \in Clients, NEW q \in Requests,
           Connect(c, q) \/ ConnectFails(c, q)
    PROVE  LockInv'
<1>1. at[c] = "idle" /\ at'[c] \in {"queued", "quit", "idle"} /\ lock' = lock
    BY ClientFrame DEF Connect, ConnectFails, Types, book
<1> QED
    BY <1>1, ClientFrame, LockKept DEF Critical

-----------------------------------------------------------------------------
(* One source per daemon.                                                  *)
LEMMA SourceKept ==
    ASSUME SourceInv, source' = source,
           \A d \in Daemons : \A m \in DOMAIN table'[d] :
               m \in DOMAIN table[d] /\ table'[d][m] = table[d][m],
           \A d \in Daemons : stage'[d] \in {"off", "unlinked"} \cup Ended =>
               stage[d] \in {"off", "unlinked"} \cup Ended,
           \A e \in Clients : at'[e] \in {"clone", "cloning", "open"} =>
               at[e] \in {"clone", "cloning", "open"} /\ peer'[e] = peer[e],
           \A e \in Clients : at'[e] = "respond" /\ reply'[e] = "Attached" =>
               at[e] = "respond" /\ reply[e] = "Attached" /\ peer'[e] = peer[e] /\ req'[e] = req[e]
    PROVE  SourceInv'
    BY DEF SourceInv

(* What is in the backlog has not been accepted.                           *)
LEMMA HeadIsQueued ==
    ASSUME Types, BacklogInv, NEW d \in Daemons, backlog[d] # <<>>, Head(backlog[d]) \in Clients
    PROVE  at[Head(backlog[d])] = "queued"
<1>1. backlog[d] \in Seq(Clients \cup {Wake})
    BY DEF Types
<1>2. 1 \in 1..Len(backlog[d]) /\ Head(backlog[d]) = backlog[d][1]
    BY <1>1
<1> QED
    BY <1>2 DEF BacklogInv

(* `run` touches connections only where it has not accepted them.          *)
LEMMA MainMoves ==
    ASSUME Types, BacklogInv, NEW d \in Daemons, Accept(d) \/ BreakLoop(d) \/ CloseListener(d)
    PROVE  /\ \A e \in Clients : at[e] # "queued" =>
                 at'[e] = at[e] /\ peer'[e] = peer[e] /\ req'[e] = req[e] /\ reply'[e] = reply[e]
           /\ \A e \in Clients : at[e] = "queued" => at'[e] \in {"queued", "handling", "idle", "quit"}
           /\ UNCHANGED <<book, files, host>>
<1>1. CASE Accept(d)
    BY <1>1, HeadIsQueued DEF Accept
<1>2. CASE BreakLoop(d)
    BY <1>2, HeadIsQueued DEF BreakLoop, Hangup
<1>3. CASE CloseListener(d)
    BY <1>3 DEF CloseListener, Hangup
<1> QED
    BY <1>1, <1>2, <1>3

(* A process that is gone leaves nobody connected to it.                   *)
LEMMA GoneMoves ==
    ASSUME Types, NEW d \in Daemons, Gone(d)
    PROVE  /\ \A e \in Clients :
                 \/ at'[e] \in {"idle", "quit"} /\ peer[e] = d
                 \/ at'[e] = at[e] /\ peer'[e] = peer[e] /\ req'[e] = req[e] /\ reply'[e] = reply[e]
                    /\ (peer[e] = d => at[e] \notin Working \cup {"queued"})
           /\ source'[d] = None /\ table'[d] = NoMounts
           /\ \A x \in Daemons \ {d} : source'[x] = source[x] /\ table'[x] = table[x]
           /\ UNCHANGED host
    BY DEF Types, Gone, Hangup, Connected

LEMMA MainSource ==
    ASSUME Types, ConnInv, BacklogInv, SourceInv, NEW d \in Daemons,
           Start(d) \/ Main(d) \/ Maintenance(d) \/ Crash(d)
    PROVE  SourceInv'
<1> USE DEF Move, conn, book
<1>1. CASE \/ Start(d) \/ Bind(d) \/ BindFails(d) \/ Chmod(d) \/ WritePid(d) \/ JoinMaintenance(d)
           \/ RemoveSocket(d) \/ RemovePid(d) \/ Maintenance(d)
    <2>1. UNCHANGED <<source, table, at, peer, req, reply>>
        BY <1>1, MaintenanceFrame
        DEF Start, Bind, BindFails, Chmod, WritePid, JoinMaintenance, RemoveSocket, RemovePid
    <2>2. \A x \in Daemons : stage'[x] \in {"off", "unlinked"} \cup Ended =>
              stage[x] \in {"off", "unlinked"} \cup Ended
        BY <1>1, MaintenanceFrame
        DEF Types, Ended, Start, Bind, BindFails, Chmod, WritePid, JoinMaintenance, RemoveSocket,
            RemovePid
    <2> QED
        BY <2>1, <2>2, SourceKept
<1>2. CASE DropState(d)
    <2>1. UNCHANGED <<source, at, peer, req, reply>>
        BY <1>2 DEF DropState
    <2>2. \A x \in Daemons : \A m \in DOMAIN table'[x] :
              m \in DOMAIN table[x] /\ table'[x][m] = table[x][m]
        <3>1. \A x \in Daemons : table'[x] = table[x] \/ table'[x] = NoMounts
            BY <1>2 DEF DropState, Types
        <3> QED
            BY <3>1, TableUpdates
    <2>3. \A x \in Daemons : stage'[x] \in {"off", "unlinked"} \cup Ended =>
              stage[x] \in {"off", "unlinked"} \cup Ended
        BY <1>2 DEF DropState, Types, Ended
    <2> QED
        BY <2>1, <2>2, <2>3, SourceKept
<1>3. CASE ChmodFails(d) \/ WritePidFails(d) \/ ProcessExits(d) \/ Crash(d)
    <2>1. Gone(d) /\ \A x \in Daemons \ {d} : stage'[x] = stage[x]
        BY <1>3 DEF Types, ChmodFails, WritePidFails, ProcessExits, Crash
    <2>2. DOMAIN table'[d] = {}
        BY <2>1, GoneMoves, TableUpdates
    <2>3. ASSUME NEW e \in Clients, at'[e] \in {"clone", "cloning", "open"}
          PROVE  source'[peer'[e]] = None
        <3>1. at'[e] = at[e] /\ peer'[e] = peer[e] /\ peer[e] # d
            BY <2>1, <2>3, GoneMoves DEF Working
        <3>2. peer[e] \in Daemons \ {d}
            BY <2>3, <3>1 DEF ConnInv, Working
        <3> QED
            BY <2>1, <2>3, <3>1, <3>2, GoneMoves DEF SourceInv
    <2>4. ASSUME NEW e \in Clients, at'[e] = "respond", reply'[e] = "Attached"
          PROVE  req'[e].op = "Attach" /\ source'[peer'[e]] = req'[e].source
        <3>1. at'[e] = at[e] /\ peer'[e] = peer[e] /\ req'[e] = req[e] /\ reply'[e] = reply[e]
              /\ peer[e] # d
            BY <2>1, <2>4, GoneMoves DEF Working
        <3>2. peer[e] \in Daemons \ {d}
            BY <2>4, <3>1 DEF ConnInv, Working
        <3> QED
            BY <2>1, <2>4, <3>1, <3>2, GoneMoves DEF SourceInv
    <2> QED
        BY <2>1, <2>2, <2>3, <2>4, GoneMoves DEF SourceInv
<1>4. CASE Accept(d) \/ BreakLoop(d) \/ CloseListener(d)
    <2>1. \A x \in Daemons : stage'[x] \in {"off", "unlinked"} \cup Ended =>
              stage[x] \in {"off", "unlinked"} \cup Ended
        BY <1>4 DEF Types, Ended, Accept, BreakLoop, CloseListener
    <2> QED
        BY <1>4, <2>1, MainMoves, SourceKept
<1> QED
    BY <1>1, <1>2, <1>3, <1>4 DEF Main

(* Two handlers of one daemon are never both inside the critical section.  *)
LEMMA OneInside ==
    ASSUME Types, ConnInv, LockInv, NEW c \in Clients, NEW e \in Clients,
           at[c] \in Critical, at[e] \in Critical, peer[c] = peer[e]
    PROVE  c = e
    BY DEF ConnInv, LockInv, Critical, Working

LEMMA HandlerSource ==
    ASSUME Types, ConnInv, LockInv, SourceInv, NEW c \in Clients, Handle(c)
    PROVE  SourceInv'
<1> USE HandlerMoves, HandlerFrame DEF Working, book
<1>0. peer[c] \in Daemons /\ at[c] \in Working
    BY DEF ConnInv
<1>1. CASE \/ Status(c) \/ RequestShutdown(c) \/ WakeAcceptLoop(c) \/ Canonicalize(c) \/ TakeLock(c)
           \/ CloneStarts(c) \/ CloneRefused(c) \/ CloneSucceeds(c) \/ CloneFails(c) \/ OpenFails(c)
           \/ SourceMismatch(c) \/ MountpointBusy(c) \/ MountFails(c) \/ NoSuchMount(c)
           \/ Fetch(c) \/ FetchEnds(c)
    <2>1. source' = source /\ table' = table
        BY <1>1
        DEF Status, RequestShutdown, WakeAcceptLoop, Canonicalize, TakeLock, CloneStarts,
            CloneRefused, CloneSucceeds, CloneFails, OpenFails, SourceMismatch, MountpointBusy,
            MountFails, NoSuchMount, Fetch, FetchEnds
    <2>2. at'[c] \in {"clone", "cloning", "open"} =>
              at[c] \in {"clone", "cloning", "open"} /\ peer'[c] = peer[c]
        BY <1>1
        DEF Types, Status, RequestShutdown, WakeAcceptLoop, Canonicalize, TakeLock, CloneStarts,
            CloneRefused, CloneSucceeds, CloneFails, OpenFails, SourceMismatch, MountpointBusy,
            MountFails, NoSuchMount, Fetch, FetchEnds, Answer, Goes
    <2>3. at'[c] = "respond" => reply'[c] # "Attached"
        BY <1>1
        DEF Types, Status, RequestShutdown, WakeAcceptLoop, Canonicalize, TakeLock, CloneStarts,
            CloneRefused, CloneSucceeds, CloneFails, OpenFails, SourceMismatch, MountpointBusy,
            MountFails, NoSuchMount, Fetch, FetchEnds, Answer, Goes
    <2> QED
        BY <2>1, <2>2, <2>3, SourceKept
<1>2. CASE Umount(c) \/ Respond(c)
    <2>1. source' = source /\ at'[c] \in {"respond", "quit", "idle"}
          /\ (at'[c] = "respond" => reply'[c] # "Attached")
        BY <1>2 DEF Umount, Respond, Answer, Types
    <2>2. \A d \in Daemons : \A m \in DOMAIN table'[d] :
              m \in DOMAIN table[d] /\ table'[d][m] = table[d][m]
        <3>1. CASE Umount(c)
            <4>1. req[c].mp \in Mountpoints
                BY <3>1, RequestFields DEF Umount, Unmounting, ConnInv
            <4>2. /\ table'[peer[c]] = Restrict(table[peer[c]], DOMAIN table[peer[c]] \ {req[c].mp})
                  /\ \A d \in Daemons \ {peer[c]} : table'[d] = table[d]
                  /\ table[peer[c]] \in Tables
                BY <1>0, <3>1 DEF Umount, Types
            <4>3. /\ DOMAIN table'[peer[c]] = DOMAIN table[peer[c]] \ {req[c].mp}
                  /\ \A n \in DOMAIN table[peer[c]] \ {req[c].mp} :
                        table'[peer[c]][n] = table[peer[c]][n]
                BY <4>2 DEF Restrict
            <4> QED
                BY <4>2, <4>3
        <3>2. CASE Respond(c)
            <4>1. \A d \in Daemons : table'[d] = table[d] \/ table'[d] = NoMounts
                BY <3>2 DEF Respond, Types
            <4> QED
                BY <4>1, TableUpdates
        <3> QED
            BY <1>2, <3>1, <3>2
    <2> QED
        BY <2>1, <2>2, SourceKept
<1>3. CASE AttachSource(c)
    <2>1. source' = source /\ table' = table /\ peer' = peer /\ req' = req /\ reply' = reply
          /\ (at'[c] \in {"clone", "cloning", "open"} => source[peer[c]] = None)
          /\ at'[c] # "respond"
        BY <1>3 DEF AttachSource, Goes, Types
    <2> QED
        BY <2>1 DEF SourceInv
<1>4. CASE OpenStore(c)
    <2>1. /\ source[peer[c]] = None /\ source'[peer[c]] = req[c].source
          /\ \A d \in Daemons \ {peer[c]} : source'[d] = source[d]
          /\ table' = table /\ peer' = peer /\ req' = req /\ reply' = reply
          /\ at[c] = "open" /\ at'[c] = "check"
        BY <1>0, <1>4 DEF OpenStore, Goes, Types, SourceInv
    <2>2. ASSUME NEW e \in Clients, at'[e] \in {"clone", "cloning", "open"}
          PROVE  source'[peer[e]] = None
        <3>1. e # c /\ at[e] = at'[e] /\ peer[e] \in Daemons
            BY <2>1, <2>2 DEF ConnInv
        <3>2. peer[e] # peer[c]
            BY <2>1, <2>2, <3>1, OneInside DEF Critical
        <3> QED
            BY <2>1, <2>2, <3>1, <3>2 DEF SourceInv
    <2>3. ASSUME NEW e \in Clients, at'[e] = "respond", reply[e] = "Attached"
          PROVE  req[e].op = "Attach" /\ source'[peer[e]] = req[e].source
        <3>1. e # c /\ at[e] = "respond" /\ peer[e] \in Daemons /\ req[e] \in Requests
            BY <2>1, <2>3 DEF ConnInv
        <3>2. req[e].op = "Attach" /\ source[peer[e]] = req[e].source
            BY <2>3, <3>1 DEF SourceInv
        <3>3. source[peer[e]] \in Sources
            BY <3>1, <3>2, RequestFields
        <3>4. peer[e] # peer[c]
            BY <2>1, <3>3, DaemonAssumption
        <3> QED
            BY <2>1, <3>1, <3>2, <3>4
    <2>4. ASSUME NEW d \in Daemons, NEW m \in DOMAIN table[d] PROVE table[d][m] = source'[d]
        <3>1. table[d][m] = source[d] /\ table[d][m] \in Sources
            <4>1. table[d] \in Tables
                BY DEF Types
            <4>2. table[d][m] \in Sources
                BY <4>1 DEF Tables
            <4> QED
                BY <4>2 DEF SourceInv
        <3>2. d # peer[c]
            BY <2>1, <3>1, DaemonAssumption
        <3> QED
            BY <2>1, <3>1, <3>2
    <2>5. \A d \in Daemons : stage[d] \in {"off", "unlinked"} \cup Ended => source'[d] = None
        <3>1. stage[peer[c]] \in {"serving", "returned"} \cup Stopping
            BY <1>0 DEF ConnInv
        <3> QED
            BY <2>1, <3>1 DEF SourceInv, Stopping, Ended
    <2> QED
        BY <2>1, <2>2, <2>3, <2>4, <2>5 DEF SourceInv
<1>5. CASE Attached(c)
    <2>1. /\ source' = source /\ table' = table /\ peer' = peer /\ req' = req /\ at'[c] = "respond"
          /\ source[peer[c]] = req[c].source /\ req[c].op = "Attach"
        BY <1>5 DEF Attached, SourceAgrees, Answer, Types
    <2> QED
        BY <2>1 DEF SourceInv
<1>6. CASE Mount(c)
    <2> DEFINE d == peer[c]
               m == req[c].mp
    <2>1. /\ source' = source /\ peer' = peer /\ req' = req /\ at'[c] = "respond"
          /\ reply'[c] = "Ok" /\ source[d] = req[c].source
        BY <1>6 DEF Mount, SourceAgrees, Answer, Types
    <2>2. m \in Mountpoints /\ req[c].source \in Sources
        BY <1>0, <1>6, RequestFields DEF Mount, ConnInv
    <2>3. table[d] \in Tables
        BY <1>0 DEF Types
    <2>4. /\ table'[d] = Entered(table[d], m, req[c].source)
          /\ \A x \in Daemons \ {d} : table'[x] = table[x]
        BY <1>0, <1>6 DEF Mount, Entered, Types
    <2>5. \A n \in DOMAIN table'[d] : table'[d][n] = source[d]
        <3>1. \A n \in DOMAIN table[d] : table[d][n] = source[d]
            BY <1>0 DEF SourceInv
        <3>2. /\ DOMAIN table'[d] = DOMAIN table[d] \cup {m}
              /\ table'[d][m] = req[c].source
              /\ \A n \in DOMAIN table[d] \ {m} : table'[d][n] = table[d][n]
            BY <2>4 DEF Entered
        <3> HIDE DEF d, m
        <3> QED
            BY <2>1, <3>1, <3>2
    <2> QED
        BY <2>1, <2>4, <2>5 DEF SourceInv
<1> QED
    BY <1>1, <1>2, <1>3, <1>4, <1>5, <1>6 DEF Handle

LEMMA ClientSource ==
    ASSUME Types, SourceInv, NEW c \in Clients, NEW q \in Requests,
           Connect(c, q) \/ ConnectFails(c, q)
    PROVE  SourceInv'
<1>1. at[c] = "idle" /\ at'[c] \in {"queued", "quit", "idle"}
    BY ClientFrame DEF Connect, ConnectFails, Types
<1> QED
    BY <1>1, ClientFrame, SourceKept DEF book

-----------------------------------------------------------------------------
(* The mount table and the host's mounts.                                  *)
LEMMA MountKept ==
    ASSUME MountInv, table' = table, mounted' = mounted,
           \A x \in Daemons : stage'[x] \notin Ended => stage[x] \notin Ended,
           \A x \in Daemons : stage'[x] = "returned" =>
               /\ stage[x] = "returned"
               /\ \A e \in Handlers(x) : peer'[e] = x /\ at'[e] \in Working
    PROVE  MountInv'
    BY DEF MountInv, Handlers

LEMMA MainMounts ==
    ASSUME Types, BacklogInv, MountInv, NEW d \in Daemons,
           Start(d) \/ Main(d) \/ Maintenance(d) \/ Crash(d)
    PROVE  MountInv'
<1> USE DEF Move, conn, book, host, Ended
<1>1. CASE \/ Start(d) \/ Bind(d) \/ BindFails(d) \/ Chmod(d) \/ WritePid(d) \/ JoinMaintenance(d)
           \/ RemoveSocket(d) \/ RemovePid(d) \/ Maintenance(d)
    <2>1. UNCHANGED <<table, mounted, at, peer>>
        BY <1>1, MaintenanceFrame
        DEF Start, Bind, BindFails, Chmod, WritePid, JoinMaintenance, RemoveSocket, RemovePid
    <2>2. \A x \in Daemons : /\ stage'[x] \notin Ended => stage[x] \notin Ended
                             /\ stage'[x] = "returned" => stage[x] = "returned"
        BY <1>1, MaintenanceFrame
        DEF Types, Start, Bind, BindFails, Chmod, WritePid, JoinMaintenance, RemoveSocket, RemovePid
    <2> QED
        BY <2>1, <2>2, MountKept DEF Handlers
<1>2. CASE DropState(d)
    <2>1. /\ UNCHANGED <<at, peer>> /\ stage[d] = "tidied" /\ stage'[d] = "returned"
          /\ \A x \in Daemons \ {d} : stage'[x] = stage[x]
        BY <1>2 DEF DropState, Types
    <2>2. CASE Handlers(d) = {}
        <3>1. /\ mounted' = [m \in Mountpoints |-> IF mounted[m] = d THEN None ELSE mounted[m]]
              /\ DOMAIN table'[d] = {} /\ \A x \in Daemons \ {d} : table'[x] = table[x]
            BY <1>2, <2>2 DEF DropState, Types, Unmounted, NoMounts
        <3>2. \A m \in Mountpoints : mounted'[m] # d
              /\ \A x \in Daemons \ {d} : mounted'[m] = x <=> mounted[m] = x
            BY <3>1, DaemonAssumption
        <3> QED
            BY <2>1, <3>1, <3>2 DEF MountInv, Handlers
    <2>3. CASE Handlers(d) # {}
        <3>1. mounted' = mounted /\ table' = table
            BY <1>2, <2>3 DEF DropState
        <3>2. Handlers(d)' = Handlers(d)
            BY <2>1 DEF Handlers
        <3> QED
            BY <2>1, <2>3, <3>1, <3>2 DEF MountInv, Handlers
    <2> QED
        BY <2>2, <2>3
<1>3. CASE ChmodFails(d) \/ WritePidFails(d) \/ ProcessExits(d) \/ Crash(d)
    <2>1. /\ Gone(d) /\ stage'[d] \in Ended /\ \A x \in Daemons \ {d} : stage'[x] = stage[x]
        BY <1>3 DEF Types, ChmodFails, WritePidFails, ProcessExits, Crash
    <2>2. mounted' = mounted /\ \A x \in Daemons \ {d} : table'[x] = table[x]
        BY <2>1, GoneMoves
    <2>3. \A x \in Daemons \ {d} : \A e \in Handlers(x) : peer'[e] = x /\ at'[e] \in Working
        BY <2>1, GoneMoves DEF Handlers
    <2> QED
        BY <2>1, <2>2, <2>3 DEF MountInv, Handlers
<1>4. CASE Accept(d) \/ BreakLoop(d) \/ CloseListener(d)
    <2>1. \A x \in Daemons : /\ stage'[x] \notin Ended => stage[x] \notin Ended
                             /\ stage'[x] = "returned" => stage[x] = "returned"
        BY <1>4 DEF Types, Accept, BreakLoop, CloseListener
    <2>2. \A x \in Daemons : \A e \in Handlers(x) : peer'[e] = x /\ at'[e] \in Working
        BY <1>4, MainMoves DEF Handlers, Working
    <2> QED
        BY <1>4, <2>1, <2>2, MainMoves, MountKept
<1> QED
    BY <1>1, <1>2, <1>3, <1>4 DEF Main

LEMMA HandlerMounts ==
    ASSUME Types, ConnInv, MountInv, NEW c \in Clients, Handle(c)
    PROVE  MountInv'
<1> DEFINE d == peer[c]
           m == req[c].mp
<1>1. /\ d \in Daemons /\ at[c] \in Working
      /\ stage[d] \notin Ended /\ stage' = stage
    BY HandlerMoves, HandlerFrame DEF ConnInv, Ended, Stopping
<1>2. ~Respond(c) => \A x \in Daemons : \A e \in Handlers(x) : peer'[e] = x /\ at'[e] \in Working
    BY HandlerMoves DEF Handlers
<1>3. CASE Mount(c)
    <2>1. m \in Mountpoints /\ mounted[m] = None /\ ~Respond(c)
        BY <1>1, <1>3, RequestFields DEF Mount, SourceAgrees, ConnInv, Respond
    <2>2. /\ mounted'[m] = d
          /\ \A n \in Mountpoints \ {m} : mounted'[n] = mounted[n]
          /\ DOMAIN table'[d] = DOMAIN table[d] \cup {m}
          /\ \A x \in Daemons \ {d} : table'[x] = table[x]
        BY <1>1, <1>3, <2>1 DEF Mount, Types
    <2>3. \A x \in Daemons : Handlers(x)' = {} => Handlers(x) = {}
        BY <1>2, <2>1 DEF Handlers
    <2>4. \A x \in Daemons : Handlers(x)' = {} => x # d
        <3>1. c \in Handlers(d)
            BY <1>1 DEF Handlers
        <3> QED
            BY <1>1, <2>3, <3>1
    <2>5. \A x \in Daemons : x # None
        BY DaemonAssumption
    <2> HIDE DEF d, m
    <2>6. ASSUME NEW x \in Daemons, stage[x] \notin Ended, NEW n \in Mountpoints
          PROVE  n \in DOMAIN table'[x] <=> mounted'[n] = x
        BY <1>1, <2>1, <2>2, <2>5, <2>6 DEF MountInv
    <2>7. ASSUME NEW x \in Daemons, stage[x] = "returned", Handlers(x)' = {}, NEW n \in Mountpoints
          PROVE  mounted'[n] # x
        BY <2>2, <2>3, <2>4, <2>7 DEF MountInv
    <2> QED
        BY <1>1, <2>6, <2>7 DEF MountInv
<1>4. CASE Umount(c)
    <2>1. m \in Mountpoints /\ m \in DOMAIN table[d] /\ ~Respond(c)
        BY <1>1, <1>4, RequestFields DEF Umount, Unmounting, ConnInv, Respond
    <2>2. mounted[m] = d
        BY <1>1, <2>1 DEF MountInv
    <2>3. /\ mounted'[m] = None
          /\ \A n \in Mountpoints \ {m} : mounted'[n] = mounted[n]
          /\ DOMAIN table'[d] = DOMAIN table[d] \ {m}
          /\ \A x \in Daemons \ {d} : table'[x] = table[x]
        BY <1>1, <1>4, <2>1 DEF Umount, Types, Restrict
    <2>4. \A x \in Daemons : Handlers(x)' = {} => Handlers(x) = {}
        BY <1>2, <2>1 DEF Handlers
    <2>5. \A x \in Daemons : x # None
        BY DaemonAssumption
    <2> HIDE DEF d, m
    <2>6. ASSUME NEW x \in Daemons, stage[x] \notin Ended, NEW n \in Mountpoints
          PROVE  n \in DOMAIN table'[x] <=> mounted'[n] = x
        BY <1>1, <2>1, <2>2, <2>3, <2>5, <2>6 DEF MountInv
    <2>7. ASSUME NEW x \in Daemons, stage[x] = "returned", Handlers(x)' = {}, NEW n \in Mountpoints
          PROVE  mounted'[n] # x
        BY <2>3, <2>4, <2>5, <2>7 DEF MountInv
    <2> QED
        BY <1>1, <2>6, <2>7 DEF MountInv
<1>5. CASE Respond(c)
    <2>1. peer'[c] = None /\ \A e \in Clients \ {c} : peer'[e] = peer[e] /\ at'[e] = at[e]
        BY <1>5 DEF Respond, Types
    <2>2. \A x \in Daemons : x # None
        BY DaemonAssumption
    <2>3. CASE stage[d] = "returned" /\ Handlers(d) = {c}
        <3>1. /\ mounted' = [n \in Mountpoints |-> IF mounted[n] = d THEN None ELSE mounted[n]]
              /\ DOMAIN table'[d] = {} /\ \A x \in Daemons \ {d} : table'[x] = table[x]
            BY <1>1, <1>5, <2>3 DEF Respond, Types, Unmounted, NoMounts
        <3>2. \A n \in Mountpoints : mounted'[n] # d
              /\ \A x \in Daemons \ {d} : mounted'[n] = x <=> mounted[n] = x
            BY <1>1, <2>2, <3>1
        <3>3. \A x \in Daemons \ {d} : Handlers(x)' = {} => Handlers(x) = {}
            BY <2>1 DEF Handlers
        <3> HIDE DEF d, m
        <3> QED
            BY <1>1, <3>1, <3>2, <3>3 DEF MountInv
    <2>4. CASE ~(stage[d] = "returned" /\ Handlers(d) = {c})
        <3>1. mounted' = mounted /\ table' = table
            BY <1>5, <2>4 DEF Respond
        <3>2. ASSUME NEW x \in Daemons, stage[x] = "returned", Handlers(x)' = {}
              PROVE  Handlers(x) = {}
            <4>1. CASE x = d
                <5>1. c \in Handlers(d)
                    BY <1>1 DEF Handlers
                <5>2. PICK e \in Handlers(d) : e # c
                    BY <2>4, <3>2, <4>1, <5>1
                <5>3. e \in Handlers(x)'
                    BY <2>1, <4>1, <5>2 DEF Handlers
                <5> QED
                    BY <3>2, <5>3
            <4>2. CASE x # d
                BY <2>1, <3>2, <4>2 DEF Handlers
            <4> QED
                BY <4>1, <4>2
        <3> QED
            BY <1>1, <3>1, <3>2 DEF MountInv
    <2> QED
        BY <2>3, <2>4
<1>6. CASE ~Mount(c) /\ ~Umount(c) /\ ~Respond(c)
    <2>1. mounted' = mounted /\ table' = table
        BY <1>6
        DEF Handle, Status, RequestShutdown, WakeAcceptLoop, Canonicalize, TakeLock, AttachSource,
            CloneStarts, CloneRefused, CloneSucceeds, CloneFails, OpenStore, OpenFails,
            SourceMismatch, Attached, MountpointBusy, MountFails, NoSuchMount, Fetch, FetchEnds,
            book, host
    <2> QED
        BY <1>1, <1>2, <1>6, <2>1, MountKept
<1> QED
    BY <1>3, <1>4, <1>5, <1>6

LEMMA ClientMounts ==
    ASSUME Types, MountInv, NEW c \in Clients, NEW q \in Requests,
           Connect(c, q) \/ ConnectFails(c, q)
    PROVE  MountInv'
<1>1. \A x \in Daemons : \A e \in Handlers(x) : peer'[e] = x /\ at'[e] \in Working
    BY ClientFrame DEF Handlers, Working
<1> QED
    BY <1>1, ClientFrame, MountKept DEF book, host

-----------------------------------------------------------------------------
(* The clone a lone daemon serves from.                                    *)
LEMMA CloneKept ==
    ASSUME CloneInv, cache' = cache, source' = source,
           \A x \in Daemons : stage[x] # "off" => stage'[x] # "off",
           \A x \in Daemons : stage'[x] \notin Ended => stage[x] \notin Ended,
           \A e \in Clients : at[e] = "cloning" => at'[e] = "cloning" /\ req'[e] = req[e],
           \A e \in Clients : at'[e] = "open" => at[e] = "open" /\ req'[e] = req[e]
    PROVE  CloneInv'
<1> SUFFICES ASSUME NEW d \in Daemons, Alone(d)', stage'[d] \notin Ended
             PROVE  /\ \A s \in Sources : cache[s] = "partial" =>
                          \E c \in Clients : at'[c] = "cloning" /\ req'[c].source = s
                    /\ \A c \in Clients : at'[c] = "open" => cache[req'[c].source] = "complete"
                    /\ source[d] # None => cache[source[d]] = "complete"
    BY DEF CloneInv
<1>1. Alone(d) /\ stage[d] \notin Ended
    BY DEF Alone
<1>2. /\ \A s \in Sources : cache[s] = "partial" =>
            \E c \in Clients : at[c] = "cloning" /\ req[c].source = s
      /\ \A c \in Clients : at[c] = "open" => cache[req[c].source] = "complete"
      /\ source[d] # None => cache[source[d]] = "complete"
    BY <1>1 DEF CloneInv
<1> QED
    BY <1>2

LEMMA MainClone ==
    ASSUME Types, BacklogInv, CloneInv, NEW d \in Daemons,
           Start(d) \/ Main(d) \/ Maintenance(d) \/ Crash(d)
    PROVE  CloneInv'
<1> USE DEF Move, conn, book, host, Ended
<1>1. CASE \/ Start(d) \/ Bind(d) \/ BindFails(d) \/ Chmod(d) \/ WritePid(d) \/ JoinMaintenance(d)
           \/ RemoveSocket(d) \/ RemovePid(d) \/ DropState(d) \/ Maintenance(d)
    <2>1. UNCHANGED <<cache, source, at, req>>
        BY <1>1, MaintenanceFrame
        DEF Start, Bind, BindFails, Chmod, WritePid, JoinMaintenance, RemoveSocket, RemovePid, DropState
    <2>2. \A x \in Daemons : /\ stage'[x] \notin Ended => stage[x] \notin Ended
                             /\ stage[x] # "off" => stage'[x] # "off"
        BY <1>1, MaintenanceFrame
        DEF Types, Start, Bind, BindFails, Chmod, WritePid, JoinMaintenance, RemoveSocket,
            RemovePid, DropState
    <2> QED
        BY <2>1, <2>2, CloneKept
<1>2. CASE ChmodFails(d) \/ WritePidFails(d) \/ ProcessExits(d) \/ Crash(d)
    <2>1. stage'[d] \in Ended
        BY <1>2 DEF Types, ChmodFails, WritePidFails, ProcessExits, Crash
    <2>2. \A x \in Daemons : ~(Alone(x)' /\ stage'[x] \notin Ended)
        BY <2>1 DEF Alone
    <2> QED
        BY <2>2 DEF CloneInv
<1>3. CASE Accept(d) \/ BreakLoop(d) \/ CloseListener(d)
    <2>1. \A x \in Daemons : /\ stage'[x] \notin Ended => stage[x] \notin Ended
                             /\ stage[x] # "off" => stage'[x] # "off"
        BY <1>3 DEF Types, Accept, BreakLoop, CloseListener
    <2>2. \A e \in Clients : /\ at[e] = "cloning" => at'[e] = "cloning" /\ req'[e] = req[e]
                             /\ at'[e] = "open" => at[e] = "open" /\ req'[e] = req[e]
        BY <1>3, MainMoves
    <2> QED
        BY <1>3, <2>1, <2>2, MainMoves, CloneKept
<1> QED
    BY <1>1, <1>2, <1>3 DEF Main

LEMMA HandlerClone ==
    ASSUME Types, ConnInv, LockInv, SourceInv, CloneInv, NEW c \in Clients, Handle(c)
    PROVE  CloneInv'
<1> USE DEF Ended
<1>1. peer[c] \in Daemons /\ at[c] \in Working /\ req[c] \in Requests /\ stage' = stage
    BY HandlerMoves, HandlerFrame DEF ConnInv
<1>2. CASE ~(AttachSource(c) \/ CloneStarts(c) \/ CloneSucceeds(c) \/ CloneFails(c) \/ OpenStore(c))
    <2>1. source' = source /\ cache' = cache
        BY <1>2
        DEF Handle, Status, RequestShutdown, WakeAcceptLoop, Canonicalize, TakeLock, CloneRefused,
            OpenFails, SourceMismatch, Attached, MountpointBusy, MountFails, Mount, Umount,
            NoSuchMount, Fetch, FetchEnds, Respond, book, host
    <2>2. at[c] # "cloning" /\ at'[c] # "open"
        BY <1>2
        DEF Types, Handle, Status, RequestShutdown, WakeAcceptLoop, Canonicalize, TakeLock,
            CloneRefused, OpenFails, SourceMismatch, Attached, MountpointBusy, MountFails, Mount,
            Umount, NoSuchMount, Fetch, FetchEnds, Respond, SourceAgrees, Unmounting, Answer, Goes
    <2> QED
        BY <1>1, <2>1, <2>2, HandlerMoves, CloneKept
<1>3. CASE AttachSource(c) \/ CloneStarts(c) \/ CloneSucceeds(c) \/ CloneFails(c) \/ OpenStore(c)
    <2> SUFFICES ASSUME NEW d \in Daemons, Alone(d)', stage'[d] \notin Ended
                 PROVE  /\ \A s \in Sources : cache'[s] = "partial" =>
                              \E e \in Clients : at'[e] = "cloning" /\ req'[e].source = s
                        /\ \A e \in Clients : at'[e] = "open" => cache'[req'[e].source] = "complete"
                        /\ source'[d] # None => cache'[source'[d]] = "complete"
        BY DEF CloneInv
    <2>1. Alone(d) /\ stage[d] \notin Ended
        BY <1>1 DEF Alone
    <2>2. \A e \in Clients : at[e] \in Working => peer[e] = d
        BY <2>1 DEF ConnInv, Alone, Stopping
    <2>3. at[c] \in Critical
        BY <1>3 DEF AttachSource, CloneStarts, CloneSucceeds, CloneFails, OpenStore, Goes, Critical
    <2>4. \A e \in Clients : at[e] \in Critical => e = c
        BY <2>2, <2>3, OneInside DEF Critical, Working
    <2>5. /\ \A s \in Sources : cache[s] = "partial" =>
                \E e \in Clients : at[e] = "cloning" /\ req[e].source = s
          /\ \A e \in Clients : at[e] = "open" => cache[req[e].source] = "complete"
          /\ source[d] # None => cache[source[d]] = "complete"
        BY <2>1 DEF CloneInv
    <2>6. \A e \in Clients : e # c => at[e] \notin {"cloning", "open"} /\ at'[e] \notin {"cloning", "open"}
        BY <2>4, HandlerMoves DEF Critical
    <2>7. \A s \in Sources : cache[s] = "partial" => at[c] = "cloning" /\ req[c].source = s
        BY <2>5, <2>6
    <2>8. peer[c] = d /\ req[c].source \in Sources
        <3>1. req[c].op \in {"Mount", "Attach"}
            BY <2>3 DEF ConnInv
        <3> QED
            BY <1>1, <2>2, <3>1, RequestFields
    <2>9. at[c] \in {"clone", "cloning", "open"} => source[d] = None
        BY <2>8 DEF SourceInv
    <2>10. CASE AttachSource(c)
        <3>1. /\ cache' = cache /\ source' = source /\ req' = req /\ at[c] = "attach"
              /\ at'[c] = "open" => cache[req[c].source] # "absent"
            BY <2>10 DEF AttachSource, Goes, Types, host, book
        <3>2. \A s \in Sources : cache[s] = "complete" \/ cache[s] = "absent"
            BY <2>7, <3>1 DEF Types
        <3> QED
            BY <2>5, <2>6, <2>8, <3>1, <3>2
    <2>11. CASE CloneStarts(c)
        <3>1. /\ at[c] = "clone" /\ at'[c] = "cloning" /\ req' = req /\ source' = source
              /\ \A s \in Sources \ {req[c].source} : cache'[s] = cache[s]
            BY <2>8, <2>11 DEF CloneStarts, Goes, Types, book
        <3> QED
            BY <2>6, <2>7, <2>9, <3>1
    <2>12. CASE CloneSucceeds(c)
        <3>1. /\ at[c] = "cloning" /\ at'[c] = "open" /\ req' = req /\ source' = source
              /\ cache'[req[c].source] = "complete"
              /\ \A s \in Sources \ {req[c].source} : cache'[s] = cache[s]
            BY <2>8, <2>12 DEF CloneSucceeds, Goes, Types, book
        <3> QED
            BY <2>6, <2>7, <2>9, <3>1
    <2>13. CASE CloneFails(c)
        <3>1. /\ at[c] = "cloning" /\ at'[c] = "respond" /\ req' = req /\ source' = source
              /\ cache'[req[c].source] = "absent"
              /\ \A s \in Sources \ {req[c].source} : cache'[s] = cache[s]
            BY <2>8, <2>13 DEF CloneFails, Answer, Types
        <3> QED
            BY <2>6, <2>7, <2>9, <3>1
    <2>14. CASE OpenStore(c)
        <3>1. /\ at[c] = "open" /\ at'[c] = "check" /\ req' = req /\ cache' = cache
              /\ source'[d] = req[c].source
            BY <2>8, <2>14 DEF OpenStore, Goes, Types, host
        <3> QED
            BY <2>5, <2>6, <2>7, <3>1
    <2> QED
        BY <1>3, <2>10, <2>11, <2>12, <2>13, <2>14
<1> QED
    BY <1>2, <1>3

LEMMA ClientClone ==
    ASSUME Types, CloneInv, NEW c \in Clients, NEW q \in Requests,
           Connect(c, q) \/ ConnectFails(c, q)
    PROVE  CloneInv'
<1>1. at[c] = "idle" /\ at'[c] \in {"queued", "quit", "idle"}
    BY ClientFrame DEF Connect, ConnectFails, Types
<1> QED
    BY <1>1, ClientFrame, CloneKept DEF book, host

LEMMA OrphanClone ==
    ASSUME Types, CloneInv, NEW s \in Sources, OrphanEnds(s)
    PROVE  CloneInv'
<1>1. cache[s] = "partial" /\ \A c \in Clients : ~(at[c] = "cloning" /\ req[c].source = s)
    BY DEF OrphanEnds
<1>2. \A d \in Daemons : ~(Alone(d) /\ stage[d] \notin Ended)
    BY <1>1 DEF CloneInv
<1>3. stage' = stage
    BY OrphanFrame DEF proc
<1> QED
    BY <1>2, <1>3 DEF CloneInv, Alone

-----------------------------------------------------------------------------
(* The inductive invariant.                                                *)
LEMMA InitInv == Init => DaemonInv
<1> SUFFICES ASSUME Init PROVE DaemonInv
    OBVIOUS
<1>1. Types
    <2>1. NoMounts \in Tables
        BY TableUpdates
    <2>2. sent \in [Clients -> 0..MaxRequests]
        BY DaemonAssumption DEF Init
    <2>3. backlog \in [Daemons -> Seq(Clients \cup {Wake})]
        BY DEF Init
    <2> QED
        BY <2>1, <2>2, <2>3 DEF Init, Types, Stages
<1>2. FilesInv /\ ConnInv /\ BacklogInv
    BY DaemonAssumption DEF Init, FilesInv, ConnInv, BacklogInv, Working, Critical
<1>3. LockInv /\ SourceInv
    BY DaemonAssumption, TableUpdates DEF Init, LockInv, SourceInv, Critical
<1>4. MountInv
    BY DaemonAssumption, TableUpdates DEF Init, MountInv
<1>5. CloneInv
    BY DEF Init, CloneInv
<1> QED
    BY <1>1, <1>2, <1>3, <1>4, <1>5 DEF DaemonInv

LEMMA NextInv == DaemonInv /\ [Next]_vars => DaemonInv'
<1> SUFFICES ASSUME DaemonInv, [Next]_vars PROVE DaemonInv'
    OBVIOUS
<1> USE DEF DaemonInv
<1>1. CASE UNCHANGED vars
    <2>1. UNCHANGED <<proc, book, files, host, conn>>
        BY <1>1 DEF vars
    <2> USE <2>1 DEF proc, book, files, host, conn
    <2>2. Types' /\ FilesInv' /\ LockInv' /\ SourceInv'
        BY DEF Types, FilesInv, LockInv, SourceInv
    <2>3. ConnInv' /\ BacklogInv'
        BY DEF ConnInv, BacklogInv, Listening
    <2>4. MountInv'
        BY DEF MountInv, Handlers
    <2>5. CloneInv'
        BY DEF CloneInv, Alone
    <2> QED
        BY <2>2, <2>3, <2>4, <2>5
<1>2. ASSUME NEW d \in Daemons, Start(d) \/ Main(d) \/ Maintenance(d) \/ Crash(d) PROVE DaemonInv'
    BY <1>2, MainTypes, MainFiles, MainConns, MainBacklog, MainLock, MainSource, MainMounts, MainClone
<1>3. ASSUME NEW c \in Clients, Handle(c) PROVE DaemonInv'
    <2>1. FilesInv'
        BY <1>3, HandlerFrame DEF FilesInv
    <2> QED
        BY <1>3, <2>1, HandlerTypes, HandlerConns, HandlerBacklog, HandlerLock, HandlerSource,
           HandlerMounts, HandlerClone
<1>4. ASSUME NEW c \in Clients, NEW q \in Requests, Connect(c, q) \/ ConnectFails(c, q)
      PROVE  DaemonInv'
    <2>1. FilesInv'
        BY <1>4, ClientFrame DEF FilesInv, files
    <2> QED
        BY <1>4, <2>1, ClientTypes, ClientConns, ClientBacklog, ClientLock, ClientSource,
           ClientMounts, ClientClone
<1>5. ASSUME NEW s \in Sources, OrphanEnds(s) PROVE DaemonInv'
    <2>1. FilesInv' /\ ConnInv' /\ BacklogInv' /\ LockInv' /\ SourceInv' /\ MountInv'
        BY <1>5, OrphanFrame
        DEF proc, book, files, conn, FilesInv, ConnInv, BacklogInv, LockInv, SourceInv, MountInv,
            Handlers, Listening
    <2> QED
        BY <1>5, <2>1, OrphanTypes, OrphanClone
<1> QED
    BY <1>1, <1>2, <1>3, <1>4, <1>5 DEF Next

LEMMA SpecInv == Spec => []DaemonInv
    BY InitInv, NextInv, PTL DEF Spec

-----------------------------------------------------------------------------
(* Type correctness; the mutex of a daemon is held exactly by the handler  *)
(* that is inside attach_source, or between it and its answer.             *)
THEOREM TypeCorrectness == Spec => []TypeOK
<1>1. DaemonInv => TypeOK
    <2> SUFFICES ASSUME DaemonInv PROVE TypeOK
        OBVIOUS
    <2>1. Types /\ LockInv
        BY DEF DaemonInv
    <2>2. ASSUME NEW d \in Daemons
          PROVE  DOMAIN table[d] \subseteq Mountpoints /\ \A m \in DOMAIN table[d] : table[d][m] \in Sources
        <3>1. table[d] \in Tables
            BY <2>1 DEF Types
        <3> QED
            BY <3>1 DEF Tables
    <2>3. ASSUME NEW d \in Daemons
          PROVE  {c \in Clients : lock[d] = c} = {c \in Handlers(d) : at[c] \in Critical}
        BY <2>1 DEF LockInv, Handlers, Critical, Working
    <2> QED
        BY <2>1, <2>2, <2>3 DEF TypeOK, Types, Critical, Stages
<1> QED
    BY <1>1, SpecInv, PTL

(* A daemon serves one source: whatever the clients ask for, in whatever   *)
(* order their handlers run, what is mounted and what an Attached answers  *)
(* is of the source the daemon is bound to.                                *)
THEOREM OneSource == Spec => []OneSourcePerDaemon
<1>1. DaemonInv => OneSourcePerDaemon
    BY DEF DaemonInv, SourceInv, OneSourcePerDaemon
<1> QED
    BY <1>1, SpecInv, PTL

(* A running daemon's table is what it has mounted, and the last Arc of    *)
(* its state takes every mount down.                                       *)
THEOREM TableIsTruth == Spec => []TableMatchesMounts
<1>1. DaemonInv => TableMatchesMounts
    <2> SUFFICES ASSUME DaemonInv, NEW d \in Daemons
                 PROVE  LET here == {m \in Mountpoints : mounted[m] = d} IN
                        /\ Running(d) => DOMAIN table[d] = here
                        /\ stage[d] = "returned" /\ Handlers(d) = {} => here = {}
        BY DEF TableMatchesMounts
    <2>1. Running(d) => stage[d] \notin Ended
        BY DEF Running, Starting, Stopping, Ended
    <2>2. DOMAIN table[d] \subseteq Mountpoints
        <3>1. table[d] \in Tables
            BY DEF DaemonInv, Types
        <3> QED
            BY <3>1 DEF Tables
    <2> QED
        BY <2>1, <2>2 DEF DaemonInv, MountInv
<1> QED
    BY <1>1, SpecInv, PTL

(* With one daemon the second of two concurrent first requests never opens *)
(* the directory that the clone of the first is still filling.             *)
THEOREM CompleteClone == Spec => []ServesCompleteClone
<1>1. DaemonInv => ServesCompleteClone
    BY DEF DaemonInv, SourceInv, CloneInv, Alone, ServesCompleteClone
<1> QED
    BY <1>1, SpecInv, PTL

(* For any number of instances that take the socket path and the pid file  *)
(* from each other: a live daemon's pid is behind a bound socket with its  *)
(* mode set, and every return from `run` removes both files, except the    *)
(* socket file when fchmodat failed.                                       *)
THEOREM FilesCleaned == Spec => []NoStaleFiles
<1>1. DaemonInv => NoStaleFiles
    BY DEF DaemonInv, FilesInv, NoStaleFiles, Listening
<1> QED
    BY <1>1, SpecInv, PTL
=============================================================================
