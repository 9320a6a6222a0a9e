-------------------------------- MODULE Ftp --------------------------------
(***************************************************************************)
(* The FTP system of LabExercise1/project5/cpp: client/client.cpp, one     *)
(* process per user, and server/server.cpp, one process with one thread    *)
(* per control connection.  What the threads share is the whole point: one *)
(* current directory and one file system for the process, and on the       *)
(* client side one fixed data port (sizes.h: DATA_PORT) for each host.     *)
(*                                                                         *)
(* A data connection is opened by the SERVER towards the host of the       *)
(* client, and nothing in it says which session it belongs to.             *)
(***************************************************************************)
EXTENDS Naturals, Sequences, FiniteSets

CONSTANTS
    Client,      \* client processes (a user at a console)
    Host,        \* machines that clients run on
    HostOf,      \* the machine of each client
    Conn,        \* control connections, numbered in the order they are made; each
                 \* run of a client uses up one, and the set bounds the runs
    Sock,        \* data connections; one that both ends closed is used again
    Dir,         \* directories of the server, as absolute paths
    Name,        \* file names
    Block,       \* what one send or one flushed write carries of a file
    Denied,      \* directories the server may enter but not list or write
    InitDir,     \* the directory the server is started in
    InitFs,      \* the server's files at the start
    InitLocal,   \* each client's own files at the start
    Menu,        \* the commands each user may type
    MayDie,      \* the clients whose process may be killed
    None, NoFile, NoDir,
    Hole,        \* the bytes NTFS shows where nothing was ever written
    Errstr       \* the text SendFileList sends instead of a listing

\* A block of a stored file, or what a data connection carries: file data,
\* the listing of a directory (named by that directory) or the error text.
Item    == Block \cup Dir \cup {Hole, Errstr}
Content == Seq(Item)

Transfer == {"LS", "DOWN", "UP"}      \* the commands with a data connection

Command == [id : {"LS", "PWD", "QUIT"}, arg : {None}]
             \cup [id : {"CD"}, arg : Dir \cup {NoDir}]
             \cup [id : {"DOWN", "UP"}, arg : Name]

ASSUME FtpAssumption ==
    /\ HostOf \in [Client -> Host]
    /\ Conn \subseteq Nat /\ Sock \subseteq Nat
    /\ Denied \subseteq Dir /\ InitDir \in Dir \ Denied
    /\ InitFs \in [Dir -> [Name -> Content \cup {NoFile}]]
    /\ InitLocal \in [Client -> [Name -> Content \cup {NoFile}]]
    /\ Menu \in [Client -> SUBSET Command]
    /\ MayDie \subseteq Client

ASSUME DistinctNone ==
    /\ None \notin Client \cup Conn \cup Sock \cup Dir \cup Name
                     \cup Command \cup [dir : Dir, name : Name]
    /\ NoFile \notin Content /\ NoDir \notin Dir

\* rspns_packet: which command it answers is in its text.
Reply == [to : {"HELLO", "PWD", "CD", "DOWN", "UP", "QUIT"},
          id : {"OK", "ERR"}, text : Dir \cup {None}]

CmdBacklog  == 3      \* listen() in InitFTP
DataBacklog == 1      \* listen() in create_data_socket

VARIABLES
    proc,     \* a client: where it is, its connections, command, file position
    local,    \* the files of a client's working directory
    port,     \* which client is bound to DATA_PORT of a host
    pend,     \* data connections waiting there to be accepted
    ctl,      \* a control connection: the state of both ends, both queues
    dat,      \* a data connection: the thread that opened it, both ends, both streams
    thr,      \* the thread of a control connection
    cwd,      \* the current directory of the server process
    fs,       \* the server's files
    up        \* the server process is running

vars == <<proc, local, port, pend, ctl, dat, thr, cwd, fs, up>>

clientVars == <<proc, local, port>>
serverVars == <<thr, cwd, fs, up>>

EndState == {"none", "open", "closed", "killed"}

NoProc   == [pc |-> "off", conn |-> None, cmd |-> None, data |-> None, pos |-> 0]
NoCtl    == [by |-> None, cli |-> "none", srv |-> "none", req |-> <<>>, rsp |-> <<>>]
NoDat    == [by |-> None, cli |-> "none", srv |-> "none", toCli |-> <<>>, toSrv |-> <<>>]
NoThread == [pc |-> "none", cmd |-> None, data |-> None, file |-> None, pos |-> 0]

ProcState == [pc : {"off", "hello", "ready", "write", "reply", "accept", "get", "put"},
              conn : Conn \cup {None}, cmd : Command \cup {None},
              data : Sock \cup {None}, pos : Nat]
CtlState  == [by : Client \cup {None}, cli : EndState, srv : EndState,
              req : Seq(Command), rsp : Seq(Reply)]
DatState  == [by : Conn \cup {None}, cli : EndState, srv : EndState,
              toCli : Seq(Item), toSrv : Seq(Item)]
ThrState  == [pc : {"none", "queued", "welcome", "recv", "cdtext", "connect", "list",
                    "send", "create", "store", "end"},
              cmd : Command \cup {None}, data : Sock \cup {None},
              file : [dir : Dir, name : Name] \cup {None}, pos : Nat]

TypeOK ==
    /\ proc \in [Client -> ProcState]
    /\ local \in [Client -> [Name -> Content \cup {NoFile}]]
    /\ port \in [Host -> Client \cup {None}]
    /\ pend \in [Host -> Seq(Sock)]
    /\ ctl \in [Conn -> CtlState]
    /\ dat \in [Sock -> DatState]
    /\ thr \in [Conn -> ThrState]
    /\ cwd \in Dir
    /\ fs \in [Dir -> [Name -> Content \cup {NoFile}]]
    /\ up \in BOOLEAN

Init ==
    /\ proc = [c \in Client |-> NoProc]
    /\ local = InitLocal
    /\ port = [h \in Host |-> None]
    /\ pend = [h \in Host |-> <<>>]
    /\ ctl = [k \in Conn |-> NoCtl]
    /\ dat = [s \in Sock |-> NoDat]
    /\ thr = [k \in Conn |-> NoThread]
    /\ cwd = InitDir
    /\ fs = InitFs
    /\ up = TRUE

-----------------------------------------------------------------------------
(* The client process.                                                     *)

\* A data connection of which both ends are closed is no more.
Live(d) == [s \in Sock |-> IF d[s].cli # "open" /\ d[s].srv # "open" THEN NoDat ELSE d[s]]

\* The connections that wait at host h and nobody accepted are reset.
ResetWaiting(d, h) ==
    [s \in Sock |-> IF \E i \in DOMAIN pend[h] : pend[h][i] = s
                    THEN [d[s] EXCEPT !.cli = "killed"] ELSE d[s]]

\* Closing the listening data socket frees the port of the host; d is the state
\* of the data connections after the client's own steps on them.
ClosePort(c, d) ==
    LET h == HostOf[c] IN
    IF port[h] = c
    THEN /\ port' = [port EXCEPT ![h] = None]
         /\ pend' = [pend EXCEPT ![h] = <<>>]
         /\ dat' = Live(ResetWaiting(d, h))
    ELSE /\ dat' = Live(d)
         /\ UNCHANGED <<port, pend>>

\* The data connections once c has closed its end of the one it accepted.
CloseData(c, how) ==
    [s \in Sock |-> IF proc[c].data = s THEN [dat[s] EXCEPT !.cli = how] ELSE dat[s]]

\* The process ends, by exit(1), by returning from main or because it is killed;
\* the system closes whatever it had open.
Gone(c, how) ==
    /\ proc' = [proc EXCEPT ![c] = NoProc]
    /\ ctl' = [ctl EXCEPT ![proc[c].conn].cli = how]
    /\ ClosePort(c, CloseData(c, "killed"))

Connect(c, k) ==
    /\ proc[c].pc = "off" /\ up
    /\ ctl[k].by = None /\ \A q \in Conn : q < k => ctl[q].by # None
    /\ Cardinality({q \in Conn : thr[q].pc = "queued"}) < CmdBacklog
    /\ proc' = [proc EXCEPT ![c] = [NoProc EXCEPT !.pc = "hello", !.conn = k]]
    /\ ctl' = [ctl EXCEPT ![k] = [NoCtl EXCEPT !.by = c, !.cli = "open", !.srv = "open"]]
    /\ thr' = [thr EXCEPT ![k].pc = "queued"]
    /\ UNCHANGED <<local, port, pend, dat, cwd, fs, up>>

\* do_read_rspns delivers the whole response r to a client waiting at pc.
Reads(c, pc, r) ==
    /\ proc[c].pc = pc
    /\ ctl[proc[c].conn].rsp # <<>>
    /\ r = Head(ctl[proc[c].conn].rsp)
    /\ ctl' = [ctl EXCEPT ![proc[c].conn].rsp = Tail(@)]

ReadHello(c) ==
    /\ \E r \in Reply : Reads(c, "hello", r)
    /\ proc' = [proc EXCEPT ![c].pc = "ready"]
    /\ UNCHANGED <<local, port, pend, dat, serverVars>>

\* The server is gone: do_read_rspns calls exit(1).  A reset also throws away
\* what had arrived.
ReadFails(c) ==
    /\ proc[c].pc \in {"hello", "reply"}
    /\ \/ ctl[proc[c].conn].srv = "killed"
       \/ ctl[proc[c].conn].srv = "closed" /\ ctl[proc[c].conn].rsp = <<>>
    /\ Gone(c, "closed")
    /\ UNCHANGED <<local, serverVars>>

\* get_file opens its local file with "wb", which empties it, before anything
\* else; put_file gives up when it has no such file (no change of state).
OpensLocal(c, m) ==
    /\ m.id = "UP" => local[c][m.arg] # NoFile
    /\ local' = IF m.id = "DOWN" THEN [local EXCEPT ![c][m.arg] = <<>>] ELSE local

\* MUTANT of Type: the data socket is bound with SO_REUSEADDR, so that bind()
\* succeeds although another client of the machine holds the port.
TypeReuse(c, m) ==
    /\ proc[c].pc = "ready" /\ m \in Menu[c]
    /\ port' = IF m.id \in Transfer THEN [port EXCEPT ![HostOf[c]] = c] ELSE port
    /\ OpensLocal(c, m)
    /\ proc' = [proc EXCEPT ![c].pc = "write", ![c].cmd = m]
    /\ UNCHANGED <<pend, ctl, dat, serverVars>>

\* The user types a command; list, get_file and put_file call create_data_socket
\* before they write it to the server.
Type(c, m) ==
    /\ proc[c].pc = "ready" /\ m \in Menu[c]
    /\ m.id \in Transfer => port[HostOf[c]] = None
    /\ port' = IF m.id \in Transfer THEN [port EXCEPT ![HostOf[c]] = c] ELSE port
    /\ OpensLocal(c, m)
    /\ proc' = [proc EXCEPT ![c].pc = "write", ![c].cmd = m]
    /\ UNCHANGED <<pend, ctl, dat, serverVars>>

\* create_data_socket cannot bind, because another process of this host is
\* bound to DATA_PORT: exit(1).
BindFails(c, m) ==
    /\ proc[c].pc = "ready" /\ m \in Menu[c]
    /\ m.id \in Transfer /\ port[HostOf[c]] # None
    /\ OpensLocal(c, m)
    /\ Gone(c, "closed")
    /\ UNCHANGED serverVars

\* MUTANT of WriteCmd: cd does not wait for its response either.
WriteCmdForget(c) ==
    /\ proc[c].pc = "write"
    /\ ctl' = [ctl EXCEPT ![proc[c].conn].req = Append(@, proc[c].cmd)]
    /\ proc' = [proc EXCEPT ![c].pc = CASE proc[c].cmd.id = "LS" -> "accept"
                                         [] proc[c].cmd.id = "CD" -> "ready"
                                         [] OTHER -> "reply"]
    /\ UNCHANGED <<local, port, pend, dat, serverVars>>

\* do_write_cmd; what is sent to a closed connection is lost.  list does not
\* wait for a response, it goes straight to accept().
WriteCmd(c) ==
    /\ proc[c].pc = "write"
    /\ ctl' = IF ctl[proc[c].conn].srv = "open"
              THEN [ctl EXCEPT ![proc[c].conn].req = Append(@, proc[c].cmd)] ELSE ctl
    /\ proc' = [proc EXCEPT ![c].pc = IF proc[c].cmd.id = "LS" THEN "accept" ELSE "reply"]
    /\ UNCHANGED <<local, port, pend, dat, serverVars>>

WriteFails(c) ==
    /\ proc[c].pc = "write" /\ ctl[proc[c].conn].srv # "open"
    /\ Gone(c, "closed")
    /\ UNCHANGED <<local, serverVars>>

\* pwd and cd are done with the response; so are get_file and put_file when it
\* is an ERR, and then get_file deletes the local file it had opened.
Answered(c) ==
    \E r \in Reply :
      /\ Reads(c, "reply", r)
      /\ \/ proc[c].cmd.id \in {"PWD", "CD"} /\ UNCHANGED local
         \/ proc[c].cmd.id = "UP" /\ r.id = "ERR" /\ UNCHANGED local
         \/ /\ proc[c].cmd.id = "DOWN" /\ r.id = "ERR"
            /\ local' = [local EXCEPT ![c][proc[c].cmd.arg] = NoFile]
      /\ ClosePort(c, dat)
      /\ proc' = [proc EXCEPT ![c].pc = "ready", ![c].cmd = None]
      /\ UNCHANGED serverVars

Granted(c) ==
    /\ \E r \in Reply : Reads(c, "reply", r) /\ r.id # "ERR"
    /\ proc[c].cmd.id \in {"DOWN", "UP"}
    /\ proc' = [proc EXCEPT ![c].pc = "accept"]
    /\ UNCHANGED <<local, port, pend, dat, serverVars>>

\* quit prints the response and main returns.
Leave(c) ==
    /\ proc[c].pc = "reply" /\ proc[c].cmd.id = "QUIT"
    /\ ctl[proc[c].conn].rsp # <<>>
    /\ Gone(c, "closed")
    /\ UNCHANGED <<local, serverVars>>

\* accept() on the data socket takes whoever connected first.
AcceptData(c) ==
    LET h == HostOf[c] IN
    /\ proc[c].pc = "accept" /\ pend[h] # <<>>
    /\ proc' = [proc EXCEPT ![c].pc = IF proc[c].cmd.id = "UP" THEN "put" ELSE "get",
                            ![c].data = Head(pend[h]), ![c].pos = 0]
    /\ pend' = [pend EXCEPT ![h] = Tail(@)]
    /\ UNCHANGED <<local, port, ctl, dat, serverVars>>

\* The receive loops of list (prints) and get_file (writes the local file).
Get(c) ==
    LET s == proc[c].data IN
    /\ proc[c].pc = "get" /\ dat[s].toCli # <<>>
    /\ local' = IF proc[c].cmd.id = "DOWN"
                THEN [local EXCEPT ![c][proc[c].cmd.arg] = Append(@, Head(dat[s].toCli))]
                ELSE local
    /\ dat' = [dat EXCEPT ![s].toCli = Tail(@)]
    /\ UNCHANGED <<proc, port, pend, ctl, serverVars>>

\* MUTANT of CloseTransfer: the listening socket is left open.
CloseTransferKeeps(c) ==
    /\ proc' = [proc EXCEPT ![c].pc = "ready", ![c].cmd = None,
                            ![c].data = None, ![c].pos = 0]
    /\ dat' = Live(CloseData(c, "closed"))
    /\ UNCHANGED <<local, port, pend, ctl, serverVars>>

\* The command is over: both sockets are closed and main reads the next one.
CloseTransfer(c) ==
    /\ proc' = [proc EXCEPT ![c].pc = "ready", ![c].cmd = None,
                            ![c].data = None, ![c].pos = 0]
    /\ ClosePort(c, CloseData(c, "closed"))
    /\ UNCHANGED <<local, ctl, serverVars>>

\* MUTANT of GetEnds: a recv that finds nothing yet counts as the end.
GetEndsEarly(c) ==
    /\ proc[c].pc = "get" /\ dat[proc[c].data].toCli = <<>>
    /\ CloseTransfer(c)

\* recv returns 0; the loop of get_file also ends when it returns an error,
\* and does not tell one from the other.
GetEnds(c) ==
    LET s == proc[c].data IN
    /\ proc[c].pc = "get"
    /\ \/ dat[s].srv \in {"closed", "killed"} /\ dat[s].toCli = <<>>
       \/ dat[s].srv = "killed" /\ proc[c].cmd.id = "DOWN"
    /\ CloseTransfer(c)

\* list treats an error of recv as fatal: exit(1).
ListFails(c) ==
    /\ proc[c].pc = "get" /\ proc[c].cmd.id = "LS" /\ dat[proc[c].data].srv = "killed"
    /\ Gone(c, "closed")
    /\ UNCHANGED <<local, serverVars>>

\* The send loop of put_file, which ignores the result of send.
Put(c) ==
    LET s == proc[c].data  src == local[c][proc[c].cmd.arg] IN
    /\ proc[c].pc = "put" /\ proc[c].pos < Len(src)
    /\ dat' = IF dat[s].srv = "open"
              THEN [dat EXCEPT ![s].toSrv = Append(@, src[proc[c].pos + 1])] ELSE dat
    /\ proc' = [proc EXCEPT ![c].pos = @ + 1]
    /\ UNCHANGED <<local, port, pend, ctl, serverVars>>

PutEnds(c) ==
    /\ proc[c].pc = "put" /\ proc[c].pos >= Len(local[c][proc[c].cmd.arg])
    /\ CloseTransfer(c)

\* The user closes the window, or the machine does.
Kill(c) ==
    /\ c \in MayDie /\ proc[c].pc # "off"
    /\ Gone(c, "killed")
    /\ UNCHANGED <<local, serverVars>>

-----------------------------------------------------------------------------
(* The server process.                                                     *)

\* ThreadFunc leaves its loop: closesocket, delete, return.  A FILE that the
\* path to here did not fclose stays open for the life of the process.
EndThread(k, file) ==
    /\ thr' = [thr EXCEPT ![k] = [NoThread EXCEPT !.pc = "end", !.file = file]]
    /\ ctl' = [ctl EXCEPT ![k].srv = "closed"]

\* SendRspns succeeds in the state x of the control connections; a response to
\* a client that has gone is lost.
SendRspns(x, k, to, id, text) ==
    IF x[k].cli = "open"
    THEN [x EXCEPT ![k].rsp = Append(@, [to |-> to, id |-> id, text |-> text])] ELSE x

\* The command packet is taken off the queue by the step that handles it.
Taken(k) == [ctl EXCEPT ![k].req = Tail(@)]

\* main: accept and CreateThread.
AcceptCtl(k) ==
    /\ thr[k].pc = "queued"
    /\ thr' = [thr EXCEPT ![k].pc = "welcome"]
    /\ UNCHANGED <<clientVars, pend, ctl, dat, cwd, fs, up>>

NoThreadForIt(k) ==
    /\ thr[k].pc = "queued"
    /\ EndThread(k, None)
    /\ UNCHANGED <<clientVars, pend, dat, cwd, fs, up>>

\* The welcome response; ThreadFunc ignores whether it could be sent.
Welcome(k) ==
    /\ thr[k].pc = "welcome"
    /\ thr' = [thr EXCEPT ![k].pc = "recv"]
    /\ ctl' = SendRspns(ctl, k, "HELLO", "OK", None)
    /\ UNCHANGED <<clientVars, pend, dat, cwd, fs, up>>

\* MUTANT of RecvFails: only an orderly close is noticed, not a reset.
RecvFailsOrderly(k) ==
    /\ thr[k].pc = "recv" /\ ctl[k].cli = "closed"
    /\ EndThread(k, None)
    /\ UNCHANGED <<clientVars, pend, dat, cwd, fs, up>>

\* RecvCmd returns 0: the client has gone (a reset throws away its last command).
RecvFails(k) ==
    /\ thr[k].pc = "recv" /\ ctl[k].cli # "open"
    /\ EndThread(k, None)
    /\ UNCHANGED <<clientVars, pend, dat, cwd, fs, up>>

\* RecvCmd delivers a whole command packet of kind id; ProcessCmd dispatches on
\* it.
Received(k, id) ==
    /\ thr[k].pc = "recv" /\ ctl[k].req # <<>>
    /\ Head(ctl[k].req).id = id

Arg(k) == Head(ctl[k].req).arg

\* SendRspns fails, which it can only when the client has gone.
ReplyFails(k) ==
    /\ ctl[k].cli # "open"
    /\ \/ thr[k].pc = "cdtext"
       \/ \E id \in {"PWD", "DOWN", "UP"} : Received(k, id)
       \/ Received(k, "CD") /\ Arg(k) \notin Dir
    /\ EndThread(k, None)
    /\ UNCHANGED <<clientVars, pend, dat, cwd, fs, up>>

Ls(k) ==
    /\ Received(k, "LS")
    /\ thr' = [thr EXCEPT ![k].pc = "connect", ![k].cmd = Head(ctl[k].req)]
    /\ ctl' = Taken(k)
    /\ UNCHANGED <<clientVars, pend, dat, cwd, fs, up>>

Pwd(k) ==
    /\ Received(k, "PWD")
    /\ ctl' = SendRspns(Taken(k), k, "PWD", "OK", cwd)
    /\ UNCHANGED <<clientVars, pend, dat, serverVars>>

\* SetCurrentDirectory succeeds: it changes the directory of every thread.
Cd(k) ==
    /\ Received(k, "CD") /\ Arg(k) \in Dir
    /\ cwd' = Arg(k)
    /\ ctl' = Taken(k)
    /\ thr' = [thr EXCEPT ![k].pc = "cdtext"]
    /\ UNCHANGED <<clientVars, pend, dat, fs, up>>

\* Only then it asks for the current directory, to put it in the response.
CdText(k) ==
    /\ thr[k].pc = "cdtext"
    /\ ctl' = SendRspns(ctl, k, "CD", "OK", cwd)
    /\ thr' = [thr EXCEPT ![k].pc = "recv"]
    /\ UNCHANGED <<clientVars, pend, dat, cwd, fs, up>>

\* MUTANT of CdFails: the response echoes the parameter.
CdFailsEchoes(k) ==
    /\ Received(k, "CD") /\ Arg(k) \notin Dir
    /\ \E id \in {"OK", "ERR"} : ctl' = SendRspns(Taken(k), k, "CD", id, Arg(k))
    /\ UNCHANGED <<clientVars, pend, dat, serverVars>>

\* No such directory.  The code never sets rspnsid on this path: what is sent
\* is whatever the stack held.
CdFails(k) ==
    /\ Received(k, "CD") /\ Arg(k) \notin Dir
    /\ \E id \in {"OK", "ERR"} : ctl' = SendRspns(Taken(k), k, "CD", id, None)
    /\ UNCHANGED <<clientVars, pend, dat, serverVars>>

\* fopen(.., "rb") in the current directory, before the response is sent.
Down(k) ==
    /\ Received(k, "DOWN") /\ fs[cwd][Arg(k)] # NoFile
    /\ ctl' = SendRspns(Taken(k), k, "DOWN", "OK", None)
    /\ thr' = [thr EXCEPT ![k].pc = "connect", ![k].cmd = Head(ctl[k].req),
                          ![k].file = [dir |-> cwd, name |-> Arg(k)], ![k].pos = 0]
    /\ UNCHANGED <<clientVars, pend, dat, cwd, fs, up>>

\* MUTANT of DownRefused: the ERR response is forgotten.
DownRefusedSilent(k) ==
    /\ Received(k, "DOWN") /\ fs[cwd][Arg(k)] = NoFile
    /\ ctl' = Taken(k)
    /\ UNCHANGED <<clientVars, pend, dat, serverVars>>

DownRefused(k) ==
    /\ Received(k, "DOWN") /\ fs[cwd][Arg(k)] = NoFile
    /\ ctl' = SendRspns(Taken(k), k, "DOWN", "ERR", None)
    /\ UNCHANGED <<clientVars, pend, dat, serverVars>>

\* FileExists: FindFirstFile in the current directory, which finds nothing where it
\* may not look.  The file itself is created only in RecvFile, once the data
\* connection is there.
FileExists(n) == cwd \notin Denied /\ fs[cwd][n] # NoFile

\* MUTANT of Up: the check is dropped.
UpUnchecked(k) ==
    /\ Received(k, "UP")
    /\ ctl' = SendRspns(Taken(k), k, "UP", "OK", None)
    /\ thr' = [thr EXCEPT ![k].pc = "connect", ![k].cmd = Head(ctl[k].req)]
    /\ UNCHANGED <<clientVars, pend, dat, cwd, fs, up>>

Up(k) ==
    /\ Received(k, "UP") /\ ~ FileExists(Arg(k))
    /\ ctl' = SendRspns(Taken(k), k, "UP", "OK", None)
    /\ thr' = [thr EXCEPT ![k].pc = "connect", ![k].cmd = Head(ctl[k].req)]
    /\ UNCHANGED <<clientVars, pend, dat, cwd, fs, up>>

UpRefused(k) ==
    /\ Received(k, "UP") /\ FileExists(Arg(k))
    /\ ctl' = SendRspns(Taken(k), k, "UP", "ERR", None)
    /\ UNCHANGED <<clientVars, pend, dat, serverVars>>

\* The result of SendRspns is ignored; the thread ends in any case.
Quit(k) ==
    /\ Received(k, "QUIT")
    /\ thr' = [thr EXCEPT ![k] = [NoThread EXCEPT !.pc = "end"]]
    /\ ctl' = [SendRspns(Taken(k), k, "QUIT", "OK", None) EXCEPT ![k].srv = "closed"]
    /\ UNCHANGED <<clientVars, pend, dat, cwd, fs, up>>

\* InitDataSocket: connect to DATA_PORT of the machine the control connection
\* came from, whichever process listens there.
Listening(h) == port[h] # None /\ Len(pend[h]) < DataBacklog

PeerHost(k) == HostOf[ctl[k].by]

FreeSock == {s \in Sock : dat[s] = NoDat}

ConnectData(k) ==
    /\ thr[k].pc = "connect" /\ Listening(PeerHost(k))
    /\ \E s \in FreeSock :
         /\ \A q \in FreeSock : s <= q
         /\ pend' = [pend EXCEPT ![PeerHost(k)] = Append(@, s)]
         /\ dat' = [dat EXCEPT ![s] = [NoDat EXCEPT !.by = k, !.cli = "open", !.srv = "open"]]
         /\ thr' = [thr EXCEPT ![k].pc = CASE thr[k].cmd.id = "LS"   -> "list"
                                           [] thr[k].cmd.id = "DOWN" -> "send"
                                           [] thr[k].cmd.id = "UP"   -> "create",
                               ![k].data = s]
    /\ UNCHANGED <<clientVars, ctl, cwd, fs, up>>

\* ProcessCmd returns 0; for DOWN it closes the file first.
ConnectFails(k) ==
    /\ thr[k].pc = "connect" /\ ~ Listening(PeerHost(k))
    /\ EndThread(k, None)
    /\ UNCHANGED <<clientVars, pend, dat, cwd, fs, up>>

\* One send on the data connection of k; what is sent to a closed end is lost.
SendsData(k, item) ==
    LET s == thr[k].data IN
    IF dat[s].cli = "open" THEN [dat EXCEPT ![s].toCli = Append(@, item)] ELSE dat

\* closesocket on the data connection of k, after d.
ClosesData(k, d) ==
    dat' = Live([s \in Sock |-> IF thr[k].data = s THEN [d[s] EXCEPT !.srv = "closed"] ELSE d[s]])

\* The command was carried out; the thread goes back to RecvCmd.
NextCommand(k) == thr' = [thr EXCEPT ![k] = [NoThread EXCEPT !.pc = "recv"]]

\* SendFileList: the whole enumeration is of the directory that is current when
\* it starts.
SendList(k) ==
    /\ thr[k].pc = "list" /\ cwd \notin Denied
    /\ ClosesData(k, SendsData(k, cwd))
    /\ NextCommand(k)
    /\ UNCHANGED <<clientVars, pend, ctl, cwd, fs, up>>

\* FindFirstFile fails: the error text goes out instead, and the session ends.
SendListDenied(k) ==
    /\ thr[k].pc = "list" /\ cwd \in Denied
    /\ ClosesData(k, SendsData(k, Errstr))
    /\ EndThread(k, None)
    /\ UNCHANGED <<clientVars, pend, cwd, fs, up>>

\* SendFile: one turn of the loop reads a block where this FILE stands.
Opened(k) == fs[thr[k].file.dir][thr[k].file.name]

SendBlock(k) ==
    /\ thr[k].pc = "send" /\ thr[k].pos < Len(Opened(k))
    /\ dat' = SendsData(k, Opened(k)[thr[k].pos + 1])
    /\ thr' = [thr EXCEPT ![k].pos = @ + 1]
    /\ UNCHANGED <<clientVars, pend, ctl, cwd, fs, up>>

\* MUTANT of SendEnds: the short read at the end of the file is not sent.
SendEndsShort(k) ==
    /\ thr[k].pc = "send" /\ thr[k].pos + 1 >= Len(Opened(k))
    /\ ClosesData(k, dat)
    /\ NextCommand(k)
    /\ UNCHANGED <<clientVars, pend, ctl, cwd, fs, up>>

\* A short read ends the loop; ProcessCmd closes the file.
SendEnds(k) ==
    /\ thr[k].pc = "send" /\ thr[k].pos >= Len(Opened(k))
    /\ ClosesData(k, dat)
    /\ NextCommand(k)
    /\ UNCHANGED <<clientVars, pend, ctl, cwd, fs, up>>

\* send fails because the client closed its end: the session ends, and on this
\* path nobody closes the file that DOWN opened.
SendFails(k) ==
    /\ thr[k].pc \in {"list", "send"} /\ dat[thr[k].data].cli # "open"
    /\ ClosesData(k, dat)
    /\ EndThread(k, thr[k].file)
    /\ UNCHANGED <<clientVars, pend, cwd, fs, up>>

\* RecvFile: fopen(.., "wb") creates or empties the file in what is now the
\* current directory.
CreateFile(k) ==
    /\ thr[k].pc = "create" /\ cwd \notin Denied
    /\ fs' = [fs EXCEPT ![cwd][thr[k].cmd.arg] = <<>>]
    /\ thr' = [thr EXCEPT ![k].pc = "store", ![k].pos = 0,
                          ![k].file = [dir |-> cwd, name |-> thr[k].cmd.arg]]
    /\ UNCHANGED <<clientVars, pend, ctl, dat, cwd, up>>

\* fopen fails and the code calls fclose(NULL).  One outcome: the run-time
\* library reports an invalid parameter and the thread goes on to its error return.
CreateFails(k) ==
    /\ thr[k].pc = "create" /\ cwd \in Denied
    /\ ClosesData(k, dat)
    /\ EndThread(k, None)
    /\ UNCHANGED <<clientVars, pend, cwd, fs, up>>

\* The other: its invalid-parameter handler ends the process, with every thread,
\* every connection and every partly stored file.
Aborted(end) == IF end.srv = "open" THEN [end EXCEPT !.srv = "killed"] ELSE end

CreateAborts(k) ==
    /\ thr[k].pc = "create" /\ cwd \in Denied
    /\ up' = FALSE
    /\ thr' = [q \in Conn |-> IF thr[q].pc = "none" THEN thr[q]
                              ELSE [NoThread EXCEPT !.pc = "end"]]
    /\ ctl' = [q \in Conn |-> Aborted(ctl[q])]
    /\ dat' = Live([s \in Sock |-> Aborted(dat[s])])
    /\ UNCHANGED <<clientVars, pend, cwd, fs>>

\* A write where this FILE stands, whatever others did to the file meanwhile.
WriteAt(s, p, b) ==
    [i \in 1 .. (IF p + 1 > Len(s) THEN p + 1 ELSE Len(s)) |->
        IF i = p + 1 THEN b ELSE IF i <= Len(s) THEN s[i] ELSE Hole]

\* MUTANT of RecvBlock: the file is opened for every block.
RecvBlockReopens(k) ==
    LET s == thr[k].data IN
    /\ thr[k].pc = "store" /\ dat[s].toSrv # <<>>
    /\ fs' = [fs EXCEPT ![thr[k].file.dir][thr[k].file.name] = <<Head(dat[s].toSrv)>>]
    /\ dat' = [dat EXCEPT ![s].toSrv = Tail(@)]
    /\ thr' = [thr EXCEPT ![k].pos = @ + 1]
    /\ UNCHANGED <<clientVars, pend, ctl, cwd, up>>

RecvBlock(k) ==
    LET s == thr[k].data IN
    /\ thr[k].pc = "store" /\ dat[s].toSrv # <<>>
    /\ fs' = [fs EXCEPT ![thr[k].file.dir][thr[k].file.name] =
                            WriteAt(@, thr[k].pos, Head(dat[s].toSrv))]
    /\ dat' = [dat EXCEPT ![s].toSrv = Tail(@)]
    /\ thr' = [thr EXCEPT ![k].pos = @ + 1]
    /\ UNCHANGED <<clientVars, pend, ctl, cwd, up>>

\* MUTANT of RecvEnds: the close is noticed before what was sent is read.
RecvEndsEarly(k) ==
    /\ thr[k].pc = "store" /\ dat[thr[k].data].cli # "open"
    /\ ClosesData(k, dat)
    /\ NextCommand(k)
    /\ UNCHANGED <<clientVars, pend, ctl, cwd, fs, up>>

\* recv returns 0: the file is taken to be complete.
RecvEnds(k) ==
    /\ thr[k].pc = "store"
    /\ dat[thr[k].data].toSrv = <<>> /\ dat[thr[k].data].cli # "open"
    /\ ClosesData(k, dat)
    /\ NextCommand(k)
    /\ UNCHANGED <<clientVars, pend, ctl, cwd, fs, up>>

\* recv returns an error: the session ends and what was stored stays.
RecvBroken(k) ==
    /\ thr[k].pc = "store" /\ dat[thr[k].data].cli = "killed"
    /\ ClosesData(k, dat)
    /\ EndThread(k, None)
    /\ UNCHANGED <<clientVars, pend, cwd, fs, up>>

-----------------------------------------------------------------------------
\* What a client does by itself once the user has typed a command.
ClientStep(c) ==
    \/ ReadHello(c) \/ ReadFails(c) \/ WriteCmd(c) \/ WriteFails(c)
    \/ Answered(c) \/ Granted(c) \/ Leave(c)
    \/ AcceptData(c) \/ Get(c) \/ GetEnds(c) \/ ListFails(c) \/ Put(c) \/ PutEnds(c)

\* What users and the environment do, when they like.
UserStep(c) ==
    \/ \E k \in Conn : Connect(c, k)
    \/ \E m \in Menu[c] : Type(c, m) \/ BindFails(c, m)
    \/ Kill(c)

ThreadStep(k) ==
    \/ AcceptCtl(k) \/ NoThreadForIt(k) \/ Welcome(k) \/ RecvFails(k) \/ ReplyFails(k)
    \/ Ls(k) \/ Pwd(k) \/ Cd(k) \/ CdText(k) \/ CdFails(k)
    \/ Down(k) \/ DownRefused(k) \/ Up(k) \/ UpRefused(k) \/ Quit(k)
    \/ ConnectData(k) \/ ConnectFails(k) \/ SendList(k) \/ SendListDenied(k)
    \/ SendBlock(k) \/ SendEnds(k) \/ SendFails(k)
    \/ CreateFile(k) \/ CreateFails(k) \/ CreateAborts(k)
    \/ RecvBlock(k) \/ RecvEnds(k) \/ RecvBroken(k)

Next == \/ \E c \in Client : ClientStep(c) \/ UserStep(c)
        \/ \E k \in Conn : ThreadStep(k)

Spec == Init /\ [][Next]_vars

\* Every process and thread that can run does run; users owe nothing.
Fairness == /\ \A c \in Client : WF_vars(ClientStep(c))
            /\ \A k \in Conn : WF_vars(ThreadStep(k))

FairSpec == Spec /\ Fairness

-----------------------------------------------------------------------------
(* Properties.                                                             *)

\* A command is answered by its own answer: what do_read_rspns finds is the one
\* response to the command the client is waiting on, and a client that waits
\* for none has none coming.  The packets carry no number that would tell.
ReplyIsMine ==
    \A c \in Client : proc[c].pc # "off" =>
      LET k == proc[c].conn IN
      /\ proc[c].pc \notin {"hello", "reply"} => ctl[k].rsp = <<>>
      /\ ctl[k].rsp # <<>> =>
           /\ Len(ctl[k].rsp) = 1 /\ ctl[k].req = <<>>
           /\ Head(ctl[k].rsp).to =
                IF proc[c].pc = "hello" THEN "HELLO" ELSE proc[c].cmd.id

KilledOn(h) == \E q \in Conn : ctl[q].cli = "killed" /\ HostOf[ctl[q].by] = h

\* The data connection a client accepts is the one its own session opened, as
\* long as no client process of its machine was ever killed: nothing but the
\* fixed port and the order of the steps ensures it (create_data_socket,
\* InitDataSocket).
OwnData ==
    \A c \in Client : proc[c].data # None =>
        dat[proc[c].data].by = proc[c].conn \/ KilledOn(HostOf[c])

\* A session ends with its file still open (the return of ProcessCmd after a
\* failed SendFile) only if a client process of that machine was killed: its
\* own, or one whose thread came first to the port of this client.
LeakNeedsKill ==
    \A k \in Conn : thr[k].pc = "end" /\ thr[k].file # None => KilledOn(HostOf[ctl[k].by])

\* The data port of a machine is taken only while a client on it is in a
\* transfer: every way out of list, get_file and put_file gives it back.
PortInTransferOnly ==
    \A h \in Host : port[h] # None =>
        /\ HostOf[port[h]] = h
        /\ proc[port[h]].pc \in {"write", "reply", "accept", "get", "put"}
        /\ proc[port[h]].cmd.id \in Transfer

\* server.cpp:524, in ProcessCmd: "first see whether the server already has
\* this file; if it has, tell the client there is no need to transfer".  So a
\* file that is there changes only under the thread that is storing it.
ExistingKept ==
    [][\A d \in Dir, n \in Name : fs[d][n] \notin {NoFile, fs'[d][n]} =>
          \E k \in Conn : thr[k].pc = "store" /\ thr[k].file = [dir |-> d, name |-> n]]_vars

\* What the check before an upload does guarantee when nobody changes the
\* directory: the files the server was started with are never touched.
InitialFilesKept ==
    \A d \in Dir, n \in Name : InitFs[d][n] # NoFile => fs[d][n] = InitFs[d][n]

\* What a session has been granted, as Store sees it: until the file is created it is
\* a name in whatever directory is current.
Writer(k) ==
    CASE thr[k].pc \in {"connect", "create"} /\ thr[k].cmd.id = "UP" ->
            [stage |-> "granted", file |-> [dir |-> cwd, name |-> thr[k].cmd.arg],
             blocks |-> 0]
      [] thr[k].pc = "store" ->
            [stage |-> "storing", file |-> thr[k].file, blocks |-> thr[k].pos]
      [] OTHER -> [stage |-> "idle", file |-> None, blocks |-> 0]

Files == INSTANCE Store WITH Session <- Conn, writer <- [k \in Conn |-> Writer(k)]

\* ProcessCmd and RecvFile implement Store for as long as nobody changes the current
\* directory: between the check and the creation of a file there are a response and a
\* data connection, and a CD of another session there breaks it (ExistingKept).
StoreServes == Files!Spec

\* The user may type UP, or DOWN, with this name.
MayUpload(c, n) == [id |-> "UP", arg |-> n] \in Menu[c]
MayDownload(c, n) == [id |-> "DOWN", arg |-> n] \in Menu[c]

\* Nobody stores this name; one session at most could; nobody changes the directory.
Untouched(n) == \A c \in Client : ~ MayUpload(c, n)
OneUploader(n) ==
    \A j, k \in Conn : /\ ctl[j].by \in Client /\ MayUpload(ctl[j].by, n)
                       /\ ctl[k].by \in Client /\ MayUpload(ctl[k].by, n)
                       => j = k
Stays == \A c \in Client : \A m \in Menu[c] : m.id # "CD"

\* When RecvFile takes an upload to be complete, and the client closed the data
\* connection itself, the file on the server is the client's file, whatever the other
\* users did to the current directory meanwhile.  Three things break this: a client that
\* was killed, whose thread may come to the port of the same user's next session and
\* empty the file that one is storing; another upload of that name at the same time,
\* for the check comes before the creation (it may be the user's own: put_file returns
\* before the thread has created the file, and the next session stores it again); and a
\* DOWN of that name by the same user, which empties the local file while the thread is
\* still storing what it was.
UploadWhole ==
    [][\A k \in Conn :
          /\ thr[k].pc = "store" /\ thr'[k].pc = "recv"
          /\ dat[thr[k].data].cli = "closed" /\ ~ KilledOn(PeerHost(k))
          /\ \A c \in Client \ {ctl[k].by} : ~ MayUpload(c, thr[k].cmd.arg)
          /\ ~ MayDownload(ctl[k].by, thr[k].cmd.arg)
          /\ \A j \in Conn \ {k} : thr[j].cmd # thr[k].cmd
          => Opened(k) = local[ctl[k].by][thr[k].cmd.arg]]_vars

\* When get_file returns and its data connection was not cut off, no client process of
\* the machine was killed and nobody stores that name meanwhile, the local file is the
\* whole of a file of that name on the server.  After a kill one transfer may take the
\* connection of the one before it: a list, accepted late, is then stored as the file.
DownloadWhole ==
    [][\A c \in Client :
          /\ proc[c].pc = "get" /\ proc[c].cmd.id = "DOWN" /\ proc'[c].pc = "ready"
          /\ dat[proc[c].data].srv = "closed" /\ ~ KilledOn(HostOf[c])
          /\ Untouched(proc[c].cmd.arg)
          => \E d \in Dir : local[c][proc[c].cmd.arg] = fs[d][proc[c].cmd.arg]]_vars

\* A file may be fetched while another session stores it: SendFile opens what there is
\* and the client is told nothing.  What get_file has then is the beginning of a file of
\* that name, if no client of the machine was killed, nobody may change the directory
\* and one session at most could store the name.  A second one may empty the file under
\* the reader; and so may the only one, if the directory is changed between its check
\* and the creation of its file.
DownloadPart ==
    [][\A c \in Client :
          /\ proc[c].pc = "get" /\ proc[c].cmd.id = "DOWN" /\ proc'[c].pc = "ready"
          /\ ~ KilledOn(HostOf[c])
          /\ Stays /\ OneUploader(proc[c].cmd.arg)
          => LET mine == local[c][proc[c].cmd.arg] IN
             \E d \in Dir : LET theirs == fs[d][proc[c].cmd.arg] IN
                /\ theirs # NoFile /\ Len(mine) <= Len(theirs)
                /\ mine = SubSeq(theirs, 1, Len(mine))]_vars

\* A command that was typed is over some day, and its user is asked for another, if no
\* client process of the machine is killed: the thread of a killed one may come to the
\* port of another, and its upload then waits for ever (create_data_socket, ProcessCmd).
CommandDone ==
    \A c \in Client : proc[c].pc \notin {"off", "ready"} ~>
                         proc[c].pc \in {"off", "ready"} \/ KilledOn(HostOf[c])

\* The thread of a session whose client has gone ends, wherever it was, unless its upload
\* has reached another client's port: then it waits as long as that one holds on.
ThreadEnds ==
    \A k \in Conn : ctl[k].cli \in {"closed", "killed"} ~>
        \/ thr[k].pc = "end"
        \/ thr[k].pc = "store" /\ dat[thr[k].data].cli = "open"
=============================================================================
