---------------------------- MODULE ProxyProofs ----------------------------
(* What the two semaphores of the proxy protect, for any number of         *)
(* connections and sites.                                                  *)
EXTENDS Proxy, TLAPS

\* The statements between P and V of each semaphore.
InHost(k) == thr[k].pc \in {"lookup", "copy", "unlock_host"}
InFile(k) == thr[k].pc \in {"open_log", "write_log", "close_log", "unlock_file"}

\* At most one thread is between P and V, and nobody when the semaphore is free.
\* (The converse is what a failed lookup breaks.)
HostExcludes ==
    /\ mutex_host = 1 => \A k \in Conn : ~ InHost(k)
    /\ \A j, k \in Conn : InHost(j) /\ InHost(k) => j = k

FileExcludes ==
    /\ mutex_file = 1 => \A k \in Conn : ~ InFile(k)
    /\ \A j, k \in Conn : InFile(j) /\ InFile(k) => j = k

\* Between its call of gethostbyname and its copy a thread finds its own answer.
HostentMine == \A k \in Conn : thr[k].pc = "copy" => hostent = thr[k].site

Inv == TypeOK /\ HostExcludes /\ FileExcludes /\ HostentMine /\ AddressMine /\ LogMine

LEMMA InvInit == Init => Inv
    BY ProxyAssumption
    DEF Init, Inv, TypeOK, ThreadState, Pc, HostExcludes, FileExcludes, InHost, InFile,
        HostentMine, AddressMine, LogMine

\* A statement that moves one thread and changes nothing it could be judged by.
LEMMA MoveTypes ==
    ASSUME TypeOK, NEW k \in Conn, NEW pc, NEW next \in Pc, Step(k, pc, next)
    PROVE  /\ thr' \in [Conn -> ThreadState]
           /\ thr[k].pc = pc /\ thr'[k] = [thr[k] EXCEPT !.pc = next]
           /\ \A j \in Conn : j # k => thr'[j] = thr[j]
<1>1. thr \in [Conn -> ThreadState] /\ thr[k] \in ThreadState
    BY DEF TypeOK
<1>2. [thr[k] EXCEPT !.pc = next] \in ThreadState
    BY <1>1 DEF ThreadState
<1> QED BY <1>1, <1>2 DEF Step, At

\* What every step does to the threads: k goes on, and nobody else moves.
LEMMA ThreadTypes ==
    ASSUME TypeOK, NEW k \in Conn, Accept(k) \/ ThreadStep(k)
    PROVE  /\ thr' \in [Conn -> ThreadState]
           /\ \A j \in Conn : j # k => thr'[j] = thr[j]
<1>1. thr \in [Conn -> ThreadState] /\ thr[k] \in ThreadState
    BY DEF TypeOK
<1>2. ASSUME NEW s \in Site, ReadRequest(k, s)
      PROVE  thr' \in [Conn -> ThreadState] /\ \A j \in Conn : j # k => thr'[j] = thr[j]
  <2>1. [thr[k] EXCEPT !.pc = "lock_host", !.site = s] \in ThreadState
    BY <1>1 DEF ThreadState, Pc
  <2> QED BY <1>1, <1>2, <2>1 DEF ReadRequest
<1>3. CASE LookupFails(k)
  <2>1. [thr[k] EXCEPT !.pc = "done", !.lost = TRUE] \in ThreadState
    BY <1>1 DEF ThreadState, Pc
  <2> QED BY <1>1, <1>3, <2>1 DEF LookupFails
<1>4. CASE CopyAddr(k)
  <2>1. [thr[k] EXCEPT !.pc = "unlock_host", !.addr = hostent] \in ThreadState
    BY <1>1 DEF ThreadState, Pc, TypeOK
  <2> QED BY <1>1, <1>4, <2>1 DEF CopyAddr
<1>5. CASE ConnectFails(k) \/ OpenLogFails(k)
    BY <1>1, <1>5 DEF ConnectFails, OpenLogFails
<1>6. \/ Accept(k) \/ NoRequest(k) \/ \E s \in Site : ReadRequest(k, s)
      \/ LockHost(k) \/ Lookup(k) \/ LookupFails(k) \/ CopyAddr(k) \/ UnlockHost(k)
      \/ Connect(k) \/ ConnectFails(k) \/ Forward(k) \/ Relay(k)
      \/ LockFile(k) \/ OpenLog(k) \/ OpenLogFails(k) \/ WriteLog(k) \/ CloseLog(k)
      \/ UnlockFile(k) \/ Finish(k)
    BY DEF ThreadStep
<1>7. ASSUME NEW pc, NEW next \in Pc, Step(k, pc, next)
      PROVE  thr' \in [Conn -> ThreadState] /\ \A j \in Conn : j # k => thr'[j] = thr[j]
    BY <1>7, MoveTypes
<1>8. {"line", "done", "lookup", "copy", "connect", "request", "relay", "lock_file", "open_log",
       "write_log", "close_log", "unlock_file", "finish"} \subseteq Pc
    BY DEF Pc
<1> QED BY <1>2, <1>3, <1>4, <1>5, <1>6, <1>7, <1>8
        DEF Accept, NoRequest, LockHost, Lookup, UnlockHost, Connect, Forward, Relay,
            LockFile, OpenLog, WriteLog, CloseLog, UnlockFile, Finish

\* The other variables keep their types too.  UnlockHost and UnlockFile need
\* the exclusion: a V without its P would make the semaphore 2.
LEMMA OtherTypes ==
    ASSUME Inv, NEW k \in Conn, Accept(k) \/ ThreadStep(k)
    PROVE  TypeOK'
<1>1. thr' \in [Conn -> ThreadState]
    BY ThreadTypes DEF Inv
<1>2. /\ running \in BOOLEAN /\ info \in [Conn -> {"none", "live", "freed"}]
      /\ csock \in [Conn -> {"none", "open", "closed"}]
      /\ ssock \in [Conn -> {"none", "open", "closed"}]
      /\ mutex_host \in {0, 1} /\ mutex_file \in {0, 1}
      /\ hostent \in Site \cup {None} /\ logfile \in Conn \cup {None}
      /\ thr[k] \in ThreadState
    BY DEF Inv, TypeOK
<1>3. UnlockHost(k) => mutex_host = 0
    BY <1>2 DEF Inv, HostExcludes, InHost, UnlockHost, Step, At
<1>4. UnlockFile(k) => mutex_file = 0
    BY <1>2 DEF Inv, FileExcludes, InFile, UnlockFile, Step, At
<1>5. thr[k].site \in Site \cup {None}
    BY <1>2 DEF ThreadState
<1>6. running' \in BOOLEAN /\ info' \in [Conn -> {"none", "live", "freed"}]
    BY <1>2 DEF ThreadStep, Accept, NoRequest, ReadRequest, LockHost, Lookup, LookupFails,
                CopyAddr, UnlockHost, Connect, ConnectFails, Forward, Relay, LockFile, OpenLog,
                OpenLogFails, WriteLog, CloseLog, UnlockFile, Finish, Step, At
<1>7. /\ csock' \in [Conn -> {"none", "open", "closed"}]
      /\ ssock' \in [Conn -> {"none", "open", "closed"}]
    BY <1>2 DEF ThreadStep, Accept, NoRequest, ReadRequest, LockHost, Lookup, LookupFails,
                CopyAddr, UnlockHost, Connect, ConnectFails, Forward, Relay, LockFile, OpenLog,
                OpenLogFails, WriteLog, CloseLog, UnlockFile, Finish, sockets
<1>8. mutex_host' \in {0, 1} /\ mutex_file' \in {0, 1}
    BY <1>2, <1>3, <1>4
    DEF ThreadStep, Accept, NoRequest, ReadRequest, LockHost, Lookup, LookupFails,
        CopyAddr, UnlockHost, Connect, ConnectFails, Forward, Relay, LockFile, OpenLog,
        OpenLogFails, WriteLog, CloseLog, UnlockFile, Finish, locks
<1>9. hostent' \in Site \cup {None} /\ logfile' \in Conn \cup {None}
    BY <1>2, <1>5
    DEF ThreadStep, Accept, NoRequest, ReadRequest, LockHost, Lookup, LookupFails,
        CopyAddr, UnlockHost, Connect, ConnectFails, Forward, Relay, LockFile, OpenLog,
        OpenLogFails, WriteLog, CloseLog, UnlockFile, Finish
<1> QED BY <1>1, <1>6, <1>7, <1>8, <1>9 DEF TypeOK

\* The lookup of a name: the buffer that gethostbyname answers in belongs to
\* the thread that holds mutex_host.
LEMMA HostStep ==
    ASSUME Inv, NEW k \in Conn, Accept(k) \/ ThreadStep(k)
    PROVE  HostExcludes' /\ HostentMine' /\ AddressMine'
<1> DEFINE Past == {"unlock_host", "connect", "request", "relay"}
<1>1. /\ thr \in [Conn -> ThreadState] /\ thr[k] \in ThreadState
      /\ mutex_host \in {0, 1}
      /\ HostExcludes /\ HostentMine
      /\ \A j \in Conn : thr[j].pc \in Past => thr[j].addr = thr[j].site
    BY DEF Inv, TypeOK, AddressMine
<1>2. \A j \in Conn : j # k => thr'[j] = thr[j]
    BY ThreadTypes DEF Inv
<1>3. thr' \in [Conn -> ThreadState]
    BY ThreadTypes DEF Inv
\* A step outside the section that leaves the semaphore alone.
<1>4. ASSUME UNCHANGED mutex_host, ~ InHost(k), ~ InHost(k)', 
             thr'[k].pc \in Past => thr'[k].addr = thr'[k].site
      PROVE  HostExcludes' /\ AddressMine'
    BY <1>1, <1>2, <1>4 DEF HostExcludes, InHost, AddressMine
<1>5. ASSUME UNCHANGED hostent, thr'[k].pc # "copy" PROVE HostentMine'
    BY <1>1, <1>2, <1>5 DEF HostentMine
<1>6. CASE LockHost(k)
  <2>1. /\ mutex_host = 1 /\ mutex_host' = 0 /\ UNCHANGED hostent
        /\ thr'[k].pc = "lookup"
    BY <1>1, <1>6 DEF LockHost, Step, At, ThreadState
  <2>2. HostExcludes'
    BY <1>1, <1>2, <2>1 DEF HostExcludes, InHost
  <2>3. AddressMine'
    BY <1>1, <1>2, <2>1 DEF AddressMine
  <2> QED BY <1>5, <2>1, <2>2, <2>3
<1>7. CASE Lookup(k)
  <2>1. /\ InHost(k) /\ UNCHANGED mutex_host /\ hostent' = thr[k].site
        /\ thr'[k].pc = "copy" /\ thr'[k].site = thr[k].site
    BY <1>1, <1>7 DEF Lookup, Step, At, ThreadState, locks, InHost
  <2>2. HostExcludes'
    BY <1>1, <1>2, <2>1 DEF HostExcludes, InHost
  <2>3. \A j \in Conn : j # k => thr'[j].pc # "copy"
    BY <1>1, <1>2, <2>1 DEF HostExcludes, InHost
  <2>4. HostentMine' /\ AddressMine'
    BY <1>1, <1>2, <2>1, <2>3 DEF HostentMine, AddressMine
  <2> QED BY <2>2, <2>4
<1>8. CASE LookupFails(k)
  <2>1. /\ InHost(k) /\ UNCHANGED <<mutex_host, hostent>> /\ thr'[k].pc = "done"
    BY <1>1, <1>8 DEF LookupFails, At, ThreadState, locks, InHost
  <2>2. HostExcludes'
    BY <1>1, <1>2, <2>1 DEF HostExcludes, InHost
  <2>3. AddressMine'
    BY <1>1, <1>2, <2>1 DEF AddressMine
  <2> QED BY <1>5, <2>1, <2>2, <2>3
<1>9. CASE CopyAddr(k)
  <2>1. /\ InHost(k) /\ UNCHANGED <<mutex_host, hostent>> /\ thr'[k].pc = "unlock_host"
        /\ thr[k].pc = "copy" /\ thr'[k].addr = hostent /\ thr'[k].site = thr[k].site
    BY <1>1, <1>9 DEF CopyAddr, At, ThreadState, locks, InHost
  <2>2. HostExcludes'
    BY <1>1, <1>2, <2>1 DEF HostExcludes, InHost
  <2>3. AddressMine'
    BY <1>1, <1>2, <2>1 DEF AddressMine, HostentMine
  <2> QED BY <1>5, <2>1, <2>2, <2>3
<1>10. CASE UnlockHost(k)
  <2>1. /\ InHost(k) /\ mutex_host' = mutex_host + 1 /\ UNCHANGED hostent
        /\ thr'[k].pc = "connect" /\ thr[k].pc = "unlock_host"
        /\ thr'[k].addr = thr[k].addr /\ thr'[k].site = thr[k].site
    BY <1>1, <1>10 DEF UnlockHost, Step, At, ThreadState, InHost
  <2>2. \A j \in Conn : ~ InHost(j)'
    BY <1>1, <1>2, <2>1 DEF HostExcludes, InHost
  <2>3. AddressMine'
    BY <1>1, <1>2, <2>1 DEF AddressMine
  <2> QED BY <1>5, <2>1, <2>2, <2>3 DEF HostExcludes
<1>11. CASE ConnectFails(k) \/ OpenLogFails(k)
    BY <1>1, <1>11
    DEF ConnectFails, OpenLogFails, locks, HostExcludes, InHost, HostentMine, AddressMine
\* All the others are outside.
<1>12. ASSUME NEW s \in Site, ReadRequest(k, s) PROVE HostExcludes' /\ HostentMine' /\ AddressMine'
  <2>1. /\ thr[k].pc = "line" /\ thr'[k].pc = "lock_host" /\ UNCHANGED <<mutex_host, hostent>>
    BY <1>1, <1>12 DEF ReadRequest, At, ThreadState, locks
  <2> QED BY <1>4, <1>5, <2>1 DEF InHost
<1>13. ASSUME NEW pc, NEW next \in Pc, Step(k, pc, next),
              pc \notin {"lookup", "copy", "unlock_host"},
              next \notin {"lookup", "copy", "unlock_host"}, next \in Past => pc \in Past,
              UNCHANGED <<mutex_host, hostent>>
       PROVE  HostExcludes' /\ HostentMine' /\ AddressMine'
  <2>1. thr[k].pc = pc /\ thr'[k] = [thr[k] EXCEPT !.pc = next]
    BY <1>13, MoveTypes DEF Inv
  <2>2. thr'[k].pc = next /\ thr'[k].addr = thr[k].addr /\ thr'[k].site = thr[k].site
    BY <1>1, <2>1 DEF ThreadState
  <2> QED BY <1>1, <1>4, <1>5, <1>13, <2>1, <2>2 DEF InHost
<1>14. {"line", "done", "request", "relay", "lock_file", "open_log", "write_log", "close_log",
        "unlock_file", "finish"} \subseteq Pc
    BY DEF Pc
<1>15. CASE \/ Accept(k) \/ NoRequest(k) \/ Connect(k) \/ Forward(k) \/ Relay(k)
            \/ OpenLog(k) \/ WriteLog(k) \/ CloseLog(k) \/ Finish(k)
    BY <1>13, <1>14, <1>15
    DEF locks, Accept, NoRequest, Connect, Forward, Relay, OpenLog, WriteLog, CloseLog, Finish
<1>16. CASE LockFile(k) \/ UnlockFile(k)
    BY <1>13, <1>14, <1>16 DEF LockFile, UnlockFile
<1> QED BY <1>6, <1>7, <1>8, <1>9, <1>10, <1>11, <1>12, <1>15, <1>16 DEF ThreadStep

\* The log: the global stream belongs to the thread that holds mutex_file.
LEMMA FileStep ==
    ASSUME Inv, NEW k \in Conn, Accept(k) \/ ThreadStep(k)
    PROVE  FileExcludes' /\ LogMine'
<1>1. /\ thr \in [Conn -> ThreadState] /\ thr[k] \in ThreadState
      /\ mutex_file \in {0, 1}
      /\ FileExcludes /\ LogMine
    BY DEF Inv, TypeOK
<1>2. \A j \in Conn : j # k => thr'[j] = thr[j]
    BY ThreadTypes DEF Inv
<1>3. thr' \in [Conn -> ThreadState]
    BY ThreadTypes DEF Inv
\* A step outside the section.
<1>4. ASSUME UNCHANGED <<mutex_file, logfile>>, ~ InFile(k), ~ InFile(k)'
      PROVE  FileExcludes' /\ LogMine'
  <2>1. FileExcludes'
    BY <1>1, <1>2, <1>4 DEF FileExcludes, InFile
  <2>2. LogMine'
    BY <1>1, <1>2, <1>4 DEF LogMine, InFile
  <2> QED BY <2>1, <2>2
<1>5. CASE LockFile(k)
  <2>1. /\ mutex_file = 1 /\ mutex_file' = 0 /\ thr'[k].pc = "open_log"
        /\ UNCHANGED logfile
    BY <1>1, <1>5 DEF LockFile, Step, At, ThreadState
  <2>2. FileExcludes'
    BY <1>1, <1>2, <2>1 DEF FileExcludes, InFile
  <2>3. LogMine'
    BY <1>1, <1>2, <2>1 DEF LogMine
  <2> QED BY <2>2, <2>3
\* A step inside: nobody else is at a statement that uses the stream.
<1>6. ASSUME InFile(k), InFile(k)', UNCHANGED mutex_file,
             thr'[k].pc \in {"write_log", "close_log"} => logfile' = k
      PROVE  FileExcludes' /\ LogMine'
  <2>1. FileExcludes'
    BY <1>1, <1>2, <1>6 DEF FileExcludes, InFile
  <2>2. \A j \in Conn : j # k => thr'[j].pc \notin {"write_log", "close_log"}
    BY <1>1, <1>2, <1>6 DEF FileExcludes, InFile
  <2> QED BY <1>6, <2>1, <2>2 DEF LogMine
<1>7. CASE OpenLog(k)
  <2>1. InFile(k) /\ InFile(k)' /\ UNCHANGED mutex_file /\ logfile' = k
    BY <1>1, <1>7 DEF OpenLog, Step, At, ThreadState, InFile, locks
  <2> QED BY <1>6, <2>1
<1>8. CASE WriteLog(k)
  <2>1. /\ InFile(k) /\ InFile(k)' /\ UNCHANGED <<mutex_file, logfile>>
        /\ thr[k].pc = "write_log"
    BY <1>1, <1>8 DEF WriteLog, Step, At, ThreadState, InFile, locks
  <2> QED BY <1>1, <1>6, <2>1 DEF LogMine
<1>9. CASE CloseLog(k)
  <2>1. InFile(k) /\ InFile(k)' /\ UNCHANGED mutex_file /\ thr'[k].pc = "unlock_file"
    BY <1>1, <1>9 DEF CloseLog, Step, At, ThreadState, InFile, locks
  <2> QED BY <1>6, <2>1
<1>10. CASE UnlockFile(k)
  <2>1. InFile(k) /\ mutex_file' = mutex_file + 1 /\ thr'[k].pc = "finish"
    BY <1>1, <1>10 DEF UnlockFile, Step, At, ThreadState, InFile
  <2>2. \A j \in Conn : ~ InFile(j)'
    BY <1>1, <1>2, <2>1 DEF FileExcludes, InFile
  <2> QED BY <2>2 DEF FileExcludes, LogMine, InFile
\* All the others are outside, or do not move the thread at all.
<1>11. ASSUME NEW pc, NEW next, Step(k, pc, next), UNCHANGED <<mutex_file, logfile>>,
              pc \notin {"open_log", "write_log", "close_log", "unlock_file"},
              next \notin {"open_log", "write_log", "close_log", "unlock_file"}
       PROVE  FileExcludes' /\ LogMine'
  <2>1. thr[k].pc = pc /\ thr'[k].pc = next
    BY <1>1, <1>11 DEF Step, At, ThreadState
  <2> QED BY <1>4, <1>11, <2>1 DEF InFile
<1>12. CASE \/ Accept(k) \/ NoRequest(k) \/ LockHost(k) \/ Lookup(k) \/ UnlockHost(k)
            \/ Connect(k) \/ Forward(k) \/ Relay(k) \/ Finish(k)
    BY <1>11, <1>12
    DEF locks, Accept, NoRequest, LockHost, Lookup, UnlockHost, Connect, Forward, Relay, Finish
<1>13. CASE LookupFails(k) \/ CopyAddr(k) \/ \E s \in Site : ReadRequest(k, s)
  <2>1. /\ ~ InFile(k) /\ ~ InFile(k)' /\ UNCHANGED <<mutex_file, logfile>>
    BY <1>1, <1>13 DEF LookupFails, CopyAddr, ReadRequest, At, ThreadState, InFile, locks
  <2> QED BY <1>4, <2>1
<1>14. CASE ConnectFails(k) \/ OpenLogFails(k)
    BY <1>1, <1>14 DEF ConnectFails, OpenLogFails, locks, FileExcludes, InFile, LogMine
<1> QED BY <1>5, <1>7, <1>8, <1>9, <1>10, <1>12, <1>13, <1>14 DEF ThreadStep

LEMMA InvStep == Inv /\ [Next]_vars => Inv'
<1> SUFFICES ASSUME Inv, [Next]_vars PROVE Inv'
    OBVIOUS
<1>1. CASE UNCHANGED vars
    BY <1>1 DEF vars, Inv, TypeOK, HostExcludes, FileExcludes, InHost, InFile, HostentMine,
                AddressMine, LogMine
<1>2. CASE Next
    BY <1>2, OtherTypes, HostStep, FileStep DEF Next, Inv
<1> QED BY <1>1, <1>2

\* A thread connects to the site that its own request names, however many threads
\* look up names at the same time (open_clientfd_ts, between P and V).
THEOREM OwnAddress == Spec => []AddressMine
<1>1. Inv => AddressMine
    BY DEF Inv
<1> QED BY <1>1, InvInit, InvStep, PTL DEF Spec

\* A thread writes its log line through the stream that it opened, and closes
\* that one (doit, between P and V of mutex_file).
THEOREM OwnLog == Spec => []LogMine
<1>1. Inv => LogMine
    BY DEF Inv
<1> QED BY <1>1, InvInit, InvStep, PTL DEF Spec

\* Neither semaphore is ever raised above 1, and every variable keeps its type.
THEOREM ProxyTypes == Spec => []TypeOK
<1>1. Inv => TypeOK
    BY DEF Inv
<1> QED BY <1>1, InvInit, InvStep, PTL DEF Spec
=============================================================================
