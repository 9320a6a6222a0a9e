------------------------------- MODULE Proxy -------------------------------
(***************************************************************************)
(* The threads of the web proxy of LabExercise1/project7/c/proxy.c: main   *)
(* accepts connections and creates one detached thread for each, which     *)
(* runs doit.  The threads share two semaphores, the static buffer that    *)
(* gethostbyname answers in, the global variable logfile and the process   *)
(* itself.  What doit relays between its two sockets is module Relay; here *)
(* the relay is one step, after which doit writes its line in the log.     *)
(***************************************************************************)
EXTENDS Naturals

CONSTANTS
    Conn,        \* the connections main accepts, numbered in their order
    Site,        \* the servers that a request may name
    Unknown,     \* the sites that gethostbyname may fail to find
    Refusing,    \* the sites that may refuse the connection
    None

ASSUME ProxyAssumption ==
    /\ Conn \subseteq Nat
    /\ Unknown \subseteq Site /\ Refusing \subseteq Site
    /\ None \notin Site \cup Conn

VARIABLES
    running,     \* the process has not exited
    thr,         \* the thread of a connection: where it is, the site, its address
    info,        \* the clientinfo that main allocated for it
    csock,       \* the socket of the client, and below that of the server
    ssock,
    mutex_host,
    mutex_file,
    hostent,     \* the address that gethostbyname left in its static buffer
    logfile      \* whose fopen the global stream is from

vars == <<running, thr, info, csock, ssock, mutex_host, mutex_file, hostent, logfile>>

Pc == {"none", "line", "lock_host", "lookup", "copy", "unlock_host", "connect", "request",
       "relay", "lock_file", "open_log", "write_log", "close_log", "unlock_file", "finish",
       "done"}

ThreadState == [pc : Pc, site : Site \cup {None}, addr : Site \cup {None},
                lost : BOOLEAN]      \* lost: gethostbyname failed

TypeOK ==
    /\ running \in BOOLEAN
    /\ thr \in [Conn -> ThreadState]
    /\ info \in [Conn -> {"none", "live", "freed"}]
    /\ csock \in [Conn -> {"none", "open", "closed"}]
    /\ ssock \in [Conn -> {"none", "open", "closed"}]
    /\ mutex_host \in {0, 1} /\ mutex_file \in {0, 1}
    /\ hostent \in Site \cup {None}
    /\ logfile \in Conn \cup {None}

Init ==
    /\ running = TRUE
    /\ thr = [k \in Conn |-> [pc |-> "none", site |-> None, addr |-> None, lost |-> FALSE]]
    /\ info = [k \in Conn |-> "none"]
    /\ csock = [k \in Conn |-> "none"]
    /\ ssock = [k \in Conn |-> "none"]
    /\ mutex_host = 1 /\ mutex_file = 1
    /\ hostent = None
    /\ logfile = None

-----------------------------------------------------------------------------
\* The thread of k runs the statement at pc and goes on at next.
At(k, pc) == running /\ thr[k].pc = pc
Step(k, pc, next) == At(k, pc) /\ thr' = [thr EXCEPT ![k].pc = next]

sockets == <<csock, ssock>>
locks   == <<mutex_host, mutex_file>>

\* main: the clientinfo is filled in by Accept and handed to the new thread.
Accept(k) ==
    /\ \A j \in Conn : j < k => thr[j].pc # "none"
    /\ Step(k, "none", "line")
    /\ info' = [info EXCEPT ![k] = "live"]
    /\ csock' = [csock EXCEPT ![k] = "open"]
    /\ UNCHANGED <<running, ssock, locks, hostent, logfile>>

\* doit returns before it reaches a server: the client sent nothing, or a line
\* that parse_uri rejects.  The socket is closed; nobody frees the clientinfo.
NoRequest(k) ==
    /\ Step(k, "line", "done")
    /\ csock' = [csock EXCEPT ![k] = "closed"]
    /\ UNCHANGED <<running, info, ssock, locks, hostent, logfile>>

\* The request names a site; open_clientfd_ts makes a socket first.
ReadRequest(k, s) ==
    /\ At(k, "line")
    /\ thr' = [thr EXCEPT ![k].pc = "lock_host", ![k].site = s]
    /\ ssock' = [ssock EXCEPT ![k] = "open"]
    /\ UNCHANGED <<running, info, csock, locks, hostent, logfile>>

\* MUTANT of LockHost: without P(mutex_host).
LockHostNot(k) ==
    /\ Step(k, "lock_host", "lookup")
    /\ UNCHANGED <<running, info, sockets, locks, hostent, logfile>>

\* P(mutex_host).
LockHost(k) ==
    /\ mutex_host > 0
    /\ Step(k, "lock_host", "lookup")
    /\ mutex_host' = mutex_host - 1
    /\ UNCHANGED <<running, info, sockets, mutex_file, hostent, logfile>>

\* gethostbyname finds the site; every thread gets the same buffer from it.
Lookup(k) ==
    /\ Step(k, "lookup", "copy")
    /\ hostent' = thr[k].site
    /\ UNCHANGED <<running, info, sockets, locks, logfile>>

\* It does not: open_clientfd_ts returns -2 between P and V, dns_error only
\* prints, and doit closes the client's socket and returns.
LookupFails(k) ==
    /\ At(k, "lookup") /\ thr[k].site \in Unknown
    /\ thr' = [thr EXCEPT ![k].pc = "done", ![k].lost = TRUE]
    /\ csock' = [csock EXCEPT ![k] = "closed"]
    /\ UNCHANGED <<running, info, ssock, locks, hostent, logfile>>

CopyAddr(k) ==
    /\ At(k, "copy")
    /\ thr' = [thr EXCEPT ![k].pc = "unlock_host", ![k].addr = hostent]
    /\ UNCHANGED <<running, info, sockets, locks, hostent, logfile>>

\* MUTANT of UnlockHost: the V is forgotten on the successful path too.
UnlockHostNot(k) ==
    /\ Step(k, "unlock_host", "connect")
    /\ UNCHANGED <<running, info, sockets, locks, hostent, logfile>>

\* V(mutex_host).
UnlockHost(k) ==
    /\ Step(k, "unlock_host", "connect")
    /\ mutex_host' = mutex_host + 1
    /\ UNCHANGED <<running, info, sockets, mutex_file, hostent, logfile>>

Connect(k) ==
    /\ Step(k, "connect", "request")
    /\ UNCHANGED <<running, info, sockets, locks, hostent, logfile>>

\* connect fails: unix_error calls exit(0), which ends every thread.
ConnectFails(k) ==
    /\ At(k, "connect") /\ thr[k].addr \in Refusing
    /\ running' = FALSE
    /\ UNCHANGED <<thr, info, sockets, locks, hostent, logfile>>

\* The request goes to the server.
Forward(k) ==
    /\ Step(k, "request", "relay")
    /\ UNCHANGED <<running, info, sockets, locks, hostent, logfile>>

\* The response comes back (module Relay).
Relay(k) ==
    /\ Step(k, "relay", "lock_file")
    /\ UNCHANGED <<running, info, sockets, locks, hostent, logfile>>

\* MUTANT of LockFile: without P(mutex_file).
LockFileNot(k) ==
    /\ Step(k, "lock_file", "open_log")
    /\ UNCHANGED <<running, info, sockets, locks, hostent, logfile>>

\* P(mutex_file).
LockFile(k) ==
    /\ mutex_file > 0
    /\ Step(k, "lock_file", "open_log")
    /\ mutex_file' = mutex_file - 1
    /\ UNCHANGED <<running, info, sockets, mutex_host, hostent, logfile>>

\* logfile = fopen(..): the variable is global.
OpenLog(k) ==
    /\ Step(k, "open_log", "write_log")
    /\ logfile' = k
    /\ UNCHANGED <<running, info, sockets, locks, hostent>>

\* fopen returns NULL, for instance when sockets that were never closed have used up the
\* descriptors; fprintf on it ends the process.
OpenLogFails(k) ==
    /\ At(k, "open_log")
    /\ running' = FALSE
    /\ UNCHANGED <<thr, info, sockets, locks, hostent, logfile>>

\* fprintf(logfile, ..).
WriteLog(k) ==
    /\ Step(k, "write_log", "close_log")
    /\ UNCHANGED <<running, info, sockets, locks, hostent, logfile>>

\* fclose(logfile): the variable is not reset, but what it points to is gone.
CloseLog(k) ==
    /\ Step(k, "close_log", "unlock_file")
    /\ logfile' = None
    /\ UNCHANGED <<running, info, sockets, locks, hostent>>

\* V(mutex_file).
UnlockFile(k) ==
    /\ Step(k, "unlock_file", "finish")
    /\ mutex_file' = mutex_file + 1
    /\ UNCHANGED <<running, info, sockets, mutex_host, hostent, logfile>>

\* Both sockets are closed and the clientinfo is freed.
Finish(k) ==
    /\ Step(k, "finish", "done")
    /\ csock' = [csock EXCEPT ![k] = "closed"]
    /\ ssock' = [ssock EXCEPT ![k] = "closed"]
    /\ info' = [info EXCEPT ![k] = "freed"]
    /\ UNCHANGED <<running, locks, hostent, logfile>>

-----------------------------------------------------------------------------
ThreadStep(k) ==
    \/ NoRequest(k) \/ \E s \in Site : ReadRequest(k, s)
    \/ LockHost(k) \/ Lookup(k) \/ LookupFails(k) \/ CopyAddr(k) \/ UnlockHost(k)
    \/ Connect(k) \/ ConnectFails(k) \/ Forward(k) \/ Relay(k)
    \/ LockFile(k) \/ OpenLog(k) \/ OpenLogFails(k) \/ WriteLog(k) \/ CloseLog(k)
    \/ UnlockFile(k) \/ Finish(k)

Next == \E k \in Conn : Accept(k) \/ ThreadStep(k)

Spec == Init /\ [][Next]_vars

\* Every thread that can run does run; clients and servers answer or hang up.
FairSpec == Spec /\ \A k \in Conn : WF_vars(ThreadStep(k))

-----------------------------------------------------------------------------
(* Properties.                                                             *)

\* A thread connects to the site its own request names: no other thread's call
\* of gethostbyname comes between its own and the copy (open_clientfd_ts).
AddressMine ==
    \A k \in Conn : thr[k].pc \in {"unlock_host", "connect", "request", "relay"} =>
        thr[k].addr = thr[k].site

\* The stream a thread writes its log line to, and closes, is the one it opened
\* (doit, under mutex_file).
LogMine ==
    \A k \in Conn : thr[k].pc \in {"write_log", "close_log"} => logfile = k

\* proxy.c:348: open_clientfd_ts is "a thread-safe version of open_clientfd".  So
\* the semaphore is taken only while some thread is between P and V.
HostLockHeld ==
    mutex_host = 0 =>
        \E k \in Conn : thr[k].pc \in {"lookup", "copy", "unlock_host"}

\* As long as no lookup has failed, a thread that has a request serves it to the
\* end, unless a server that refuses, or a log that cannot be opened, ends the process
\* for all.
Served ==
    \A k \in Conn :
        thr[k].pc # "none" ~>
            \/ thr[k].pc = "done" \/ ~ running
            \/ \E j \in Conn : thr[j].lost
=============================================================================
