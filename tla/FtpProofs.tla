----------------------------- MODULE FtpProofs -----------------------------
(* What holds of Ftp for every set of clients, hosts, files and commands:   *)
(* types, what a client and its thread say to each other on the control     *)
(* connection, who holds the data port of a machine, which files stay, that *)
(* Ftp implements Store when no user may type CD; then whose a data         *)
(* connection is, and what the files are that go over it.                   *)
EXTENDS Ftp, TLAPS

-----------------------------------------------------------------------------
(* Type correctness.  TypeOK is not inductive: that a transfer reads and    *)
(* writes files that exist depends on where each client and thread is.      *)

ClientShape(c) ==
    /\ proc[c].pc \in {"write", "reply", "accept", "get", "put"} => proc[c].cmd \in Command
    /\ proc[c].pc \in {"get", "put"} => proc[c].data \in Sock
    /\ proc[c].pc = "put" => proc[c].cmd.id = "UP"
    /\ proc[c].cmd # None /\ proc[c].cmd.id \in {"DOWN", "UP"} =>
          local[c][proc[c].cmd.arg] \in Content

ThreadShape(k) ==
    /\ thr[k].pc = "connect" => thr[k].cmd \in Command /\ thr[k].cmd.id \in Transfer
    /\ thr[k].pc = "connect" /\ thr[k].cmd.id = "DOWN" => thr[k].file # None
    /\ thr[k].pc \in {"list", "send", "create", "store"} => thr[k].data \in Sock
    /\ thr[k].pc = "create" => thr[k].cmd \in Command /\ thr[k].cmd.id = "UP"
    /\ thr[k].pc \in {"send", "store"} => thr[k].file # None
    /\ thr[k].file # None => Opened(k) \in Content

Shape == /\ \A c \in Client : ClientShape(c)
         /\ \A k \in Conn : ThreadShape(k)

TypeInv == TypeOK /\ Shape

\* The records a process, a connection or a thread starts from are well typed.
LEMMA FreshTypes == /\ NoProc \in ProcState /\ NoCtl \in CtlState
                    /\ NoDat \in DatState /\ NoThread \in ThrState
BY DistinctNone DEF NoProc, NoCtl, NoDat, NoThread, ProcState, CtlState, DatState,
                    ThrState, EndState

LEMMA EmptyTypes == <<>> \in Seq(Sock) /\ <<>> \in Content
BY DEF Content

\* Closing either end of a data connection, however it is closed.
LEMMA ClosedEndType ==
    ASSUME NEW x \in DatState, NEW e \in EndState
    PROVE  [x EXCEPT !.cli = e] \in DatState /\ [x EXCEPT !.srv = e] \in DatState
BY DEF DatState

\* What the two processes do to the queues of a control connection.
LEMMA QueueTypes ==
    ASSUME NEW x \in CtlState
    PROVE  /\ x.rsp # <<>> => [x EXCEPT !.rsp = Tail(@)] \in CtlState
           /\ x.req # <<>> => [x EXCEPT !.req = Tail(@)] \in CtlState
                              /\ Head(x.req) \in Command
           /\ \A m \in Command : [x EXCEPT !.req = Append(@, m)] \in CtlState
           /\ \A r \in Reply : [x EXCEPT !.rsp = Append(@, r)] \in CtlState
           /\ \A e \in EndState : [x EXCEPT !.srv = e] \in CtlState
                                  /\ [x EXCEPT !.cli = e] \in CtlState
<1>1. x.rsp # <<>> => Tail(x.rsp) \in Seq(Reply)
    BY DEF CtlState
<1>2. x.req # <<>> => Tail(x.req) \in Seq(Command) /\ Head(x.req) \in Command
    BY DEF CtlState
<1>3. /\ \A m \in Command : Append(x.req, m) \in Seq(Command)
      /\ \A r \in Reply : Append(x.rsp, r) \in Seq(Reply)
    BY DEF CtlState
<1> QED BY <1>1, <1>2, <1>3 DEF CtlState

\* What they do to the streams of a data connection.
LEMMA StreamTypes ==
    ASSUME NEW x \in DatState
    PROVE  /\ x.toCli # <<>> => [x EXCEPT !.toCli = Tail(@)] \in DatState
                                /\ Head(x.toCli) \in Item
           /\ x.toSrv # <<>> => [x EXCEPT !.toSrv = Tail(@)] \in DatState
                                /\ Head(x.toSrv) \in Item
           /\ \A i \in Item : /\ [x EXCEPT !.toCli = Append(@, i)] \in DatState
                              /\ [x EXCEPT !.toSrv = Append(@, i)] \in DatState
<1>1. x.toCli # <<>> => Tail(x.toCli) \in Seq(Item) /\ Head(x.toCli) \in Item
    BY DEF DatState
<1>2. x.toSrv # <<>> => Tail(x.toSrv) \in Seq(Item) /\ Head(x.toSrv) \in Item
    BY DEF DatState
<1>3. \A i \in Item : Append(x.toCli, i) \in Seq(Item) /\ Append(x.toSrv, i) \in Seq(Item)
    BY DEF DatState
<1> QED BY <1>1, <1>2, <1>3 DEF DatState

LEMMA ReadsTypes ==
    ASSUME TypeOK, NEW c \in Client, NEW pc, NEW r, Reads(c, pc, r)
    PROVE  ctl' \in [Conn -> CtlState]
<1> DEFINE k == proc[c].conn
<1>1. ctl' = [ctl EXCEPT ![k] = [ctl[k] EXCEPT !.rsp = Tail(ctl[k].rsp)]] /\ ctl[k].rsp # <<>>
    BY DEF Reads
<1>2. CASE k \in Conn
  <2>1. [ctl[k] EXCEPT !.rsp = Tail(ctl[k].rsp)] \in CtlState
    BY <1>1, <1>2, QueueTypes DEF TypeOK
  <2> QED BY <1>1, <2>1 DEF TypeOK
<1>3. CASE k \notin Conn
    BY <1>1, <1>3 DEF TypeOK
<1> QED BY <1>2, <1>3

LEMMA TypeInit == Init => TypeInv
<1> SUFFICES ASSUME Init PROVE TypeInv
    OBVIOUS
<1>1. TypeOK
    BY FreshTypes, FtpAssumption DEF Init, TypeOK
<1>2. Shape
    BY DistinctNone DEF Init, Shape, ClientShape, ThreadShape, NoProc, NoThread
<1> QED BY <1>1, <1>2 DEF TypeInv

\* Closing the data port leaves the port, its queue and the data connections
\* well typed.
LEMMA ClosePortTypes ==
    ASSUME TypeOK, NEW c \in Client, NEW d \in [Sock -> DatState], ClosePort(c, d)
    PROVE  /\ port' \in [Host -> Client \cup {None}]
           /\ pend' \in [Host -> Seq(Sock)]
           /\ dat' \in [Sock -> DatState]
<1>1. ASSUME NEW e \in [Sock -> DatState] PROVE Live(e) \in [Sock -> DatState]
    BY <1>1, FreshTypes DEF Live
<1>2. ResetWaiting(d, HostOf[c]) \in [Sock -> DatState]
    BY ClosedEndType DEF ResetWaiting, EndState
<1>3. CASE port[HostOf[c]] = c
  <2>1. /\ port' = [port EXCEPT ![HostOf[c]] = None]
        /\ pend' = [pend EXCEPT ![HostOf[c]] = <<>>]
        /\ dat' = Live(ResetWaiting(d, HostOf[c]))
    BY <1>3 DEF ClosePort
  <2>2. dat' \in [Sock -> DatState]
    BY <1>1, <1>2, <2>1
  <2>3. port' \in [Host -> Client \cup {None}]
    BY <2>1 DEF TypeOK
  <2>4. pend' \in [Host -> Seq(Sock)]
    BY <2>1, EmptyTypes DEF TypeOK
  <2> QED BY <2>2, <2>3, <2>4
<1>4. CASE port[HostOf[c]] # c
    BY <1>1, <1>4, FtpAssumption DEF ClosePort, TypeOK
<1> QED BY <1>3, <1>4

LEMMA GoneTypes ==
    ASSUME TypeInv, NEW c \in Client, NEW how \in EndState, Gone(c, how)
    PROVE  /\ proc' \in [Client -> ProcState]
           /\ port' \in [Host -> Client \cup {None}]
           /\ pend' \in [Host -> Seq(Sock)]
           /\ ctl' \in [Conn -> CtlState]
           /\ dat' \in [Sock -> DatState]
           /\ \A q \in Client : proc'[q] = IF q = c THEN NoProc ELSE proc[q]
<1>1. CloseData(c, "killed") \in [Sock -> DatState]
    BY ClosedEndType DEF TypeInv, TypeOK, CloseData, EndState
<1>2. ClosePort(c, CloseData(c, "killed"))
    BY DEF Gone
<1>3. proc' = [proc EXCEPT ![c] = NoProc] /\ ctl' = [ctl EXCEPT ![proc[c].conn].cli = how]
    BY DEF Gone
<1>4. ctl' \in [Conn -> CtlState]
    BY <1>3 DEF TypeInv, TypeOK, CtlState
<1> QED BY <1>1, <1>2, <1>3, <1>4, ClosePortTypes, FreshTypes DEF TypeInv, TypeOK

LEMMA CommandTypes ==
    ASSUME NEW m \in Command
    PROVE  m # None /\ (m.id \in {"DOWN", "UP"} => m.arg \in Name)
BY DistinctNone DEF Command

\* The shape of the clients depends on proc and local alone, that of the
\* threads on thr and fs.
LEMMA ShapeFrames ==
    /\ UNCHANGED <<proc, local>> => ((\A c \in Client : ClientShape(c)) =>
                                     (\A c \in Client : ClientShape(c)'))
    /\ UNCHANGED <<thr, fs>> => ((\A k \in Conn : ThreadShape(k)) =>
                                 (\A k \in Conn : ThreadShape(k)'))
BY DEF ClientShape, ThreadShape, Opened

\* A client process that ends, whatever it did to its own files last.
LEMMA GoneStep ==
    ASSUME TypeInv, NEW c \in Client, NEW how \in EndState, Gone(c, how),
           UNCHANGED serverVars,
           local' \in [Client -> [Name -> Content \cup {NoFile}]],
           \A q \in Client : q # c => local'[q] = local[q]
    PROVE  TypeInv'
<1>1. TypeOK'
    BY GoneTypes DEF TypeInv, TypeOK, serverVars
<1>2. ASSUME NEW q \in Client PROVE ClientShape(q)'
  <2>1. CASE q = c
    BY <2>1, GoneTypes DEF ClientShape, NoProc
  <2>2. CASE q # c
    BY <2>2, GoneTypes DEF ClientShape, TypeInv, Shape
  <2> QED BY <2>1, <2>2
<1>3. \A k \in Conn : ThreadShape(k)'
    BY ShapeFrames DEF TypeInv, Shape, serverVars
<1> QED BY <1>1, <1>2, <1>3 DEF TypeInv, Shape

\* What list, get_file and put_file do to the local files before the transfer.
LEMMA OpensLocalTypes ==
    ASSUME TypeInv, NEW c \in Client, NEW m \in Command, OpensLocal(c, m)
    PROVE  /\ local' \in [Client -> [Name -> Content \cup {NoFile}]]
           /\ \A q \in Client : q # c => local'[q] = local[q]
           /\ m.id \in {"DOWN", "UP"} => local'[c][m.arg] \in Content
<1>1. CASE m.id = "DOWN"
    BY <1>1, CommandTypes, EmptyTypes DEF OpensLocal, TypeInv, TypeOK
<1>2. CASE m.id # "DOWN"
    BY <1>2, CommandTypes DEF OpensLocal, TypeInv, TypeOK
<1> QED BY <1>1, <1>2

\* Each step of a client process keeps TypeInv.
LEMMA ClientTypes ==
    ASSUME TypeInv, NEW c \in Client, ClientStep(c)
    PROVE  TypeInv'
<1> USE DEF TypeInv
<1>0. \A how \in {"closed", "killed"} : how \in EndState
    BY DEF EndState
<1>a. /\ TypeOK /\ ClientShape(c) /\ proc[c] \in ProcState
      /\ \A q \in Client : ClientShape(q)
      /\ \A k \in Conn : ThreadShape(k)
    BY DEF TypeOK, Shape
<1>b. ASSUME UNCHANGED local, UNCHANGED serverVars, Gone(c, "closed") PROVE TypeInv'
    BY <1>0, <1>b, GoneStep, Zenon DEF TypeOK
<1>1. CASE ReadHello(c)
  <2>1. ctl' \in [Conn -> CtlState]
    BY <1>1, <1>a, ReadsTypes DEF ReadHello
  <2>a. proc' \in [Client -> ProcState]
    BY <1>1, <1>a DEF ReadHello, TypeOK, ProcState
  <2>2. TypeOK'
    BY <1>1, <1>a, <2>1, <2>a DEF ReadHello, TypeOK, serverVars
  <2>3. \A q \in Client : ClientShape(q)'
    BY <1>1, <1>a DEF ReadHello, ClientShape, TypeOK, ProcState
  <2> QED BY <1>1, <1>a, <2>2, <2>3, ShapeFrames DEF ReadHello, serverVars, Shape
<1>2. CASE ReadFails(c)
    BY <1>2, <1>b DEF ReadFails
<1>3. CASE WriteFails(c)
    BY <1>3, <1>b DEF WriteFails
<1>4. CASE Leave(c)
    BY <1>4, <1>b DEF Leave
<1>5. CASE ListFails(c)
    BY <1>5, <1>b DEF ListFails
<1>6. CASE WriteCmd(c)
  <2>1. ctl' \in [Conn -> CtlState]
    BY <1>6, <1>a, QueueTypes DEF WriteCmd, TypeOK, ClientShape
  <2>2. proc' \in [Client -> ProcState]
    BY <1>6, <1>a DEF WriteCmd, TypeOK, ProcState
  <2>3. TypeOK'
    BY <1>6, <1>a, <2>1, <2>2 DEF WriteCmd, TypeOK, serverVars
  <2>4. \A q \in Client : ClientShape(q)'
    BY <1>6, <1>a DEF WriteCmd, ClientShape, TypeOK, ProcState
  <2> QED BY <1>6, <1>a, <2>3, <2>4, ShapeFrames DEF WriteCmd, serverVars, Shape
<1>7. CASE Answered(c)
  <2>1. PICK r \in Reply : Reads(c, "reply", r)
    BY <1>7 DEF Answered
  <2>2. ctl' \in [Conn -> CtlState]
    BY <1>a, <2>1, ReadsTypes
  <2>3. ClosePort(c, dat) /\ dat \in [Sock -> DatState]
    BY <1>7, <1>a DEF Answered, TypeOK
  <2>4. /\ local' \in [Client -> [Name -> Content \cup {NoFile}]]
        /\ \A q \in Client : q # c => local'[q] = local[q]
    <3>1. CASE UNCHANGED local
      BY <3>1, <1>a DEF TypeOK
    <3>2. CASE proc[c].cmd.id = "DOWN"
               /\ local' = [local EXCEPT ![c][proc[c].cmd.arg] = NoFile]
      BY <3>2, <1>a DEF TypeOK
    <3> QED BY <1>7, <3>1, <3>2 DEF Answered
  <2>5. proc' = [proc EXCEPT ![c].pc = "ready", ![c].cmd = None]
    BY <1>7 DEF Answered
  <2>6. proc' \in [Client -> ProcState]
    BY <1>a, <2>5 DEF TypeOK, ProcState
  <2>7. TypeOK'
    BY <1>7, <1>a, <2>2, <2>3, <2>4, <2>6, ClosePortTypes DEF Answered, TypeOK, serverVars
  <2>8. \A q \in Client : ClientShape(q)'
    BY <1>a, <2>4, <2>5 DEF ClientShape, TypeOK, ProcState
  <2> QED BY <1>7, <1>a, <2>7, <2>8, ShapeFrames DEF Answered, serverVars, Shape
<1>8. CASE Granted(c)
  <2>1. ctl' \in [Conn -> CtlState]
    BY <1>8, <1>a, ReadsTypes DEF Granted
  <2>2. proc' \in [Client -> ProcState]
    BY <1>8, <1>a DEF Granted, TypeOK, ProcState
  <2>3. TypeOK'
    BY <1>8, <1>a, <2>1, <2>2 DEF Granted, TypeOK, serverVars
  <2>4. \A q \in Client : ClientShape(q)'
    BY <1>8, <1>a DEF Granted, Reads, ClientShape, TypeOK, ProcState
  <2> QED BY <1>8, <1>a, <2>3, <2>4, ShapeFrames DEF Granted, serverVars, Shape
<1>9. CASE AcceptData(c)
  <2> DEFINE h == HostOf[c]
  <2>1. h \in Host /\ pend[h] \in Seq(Sock) /\ pend[h] # <<>>
    BY <1>9, <1>a, FtpAssumption DEF AcceptData, TypeOK
  <2>2. Head(pend[h]) \in Sock /\ Tail(pend[h]) \in Seq(Sock)
    BY <2>1
  <2>3. pend' = [pend EXCEPT ![h] = Tail(pend[h])]
    BY <1>9 DEF AcceptData
  <2>4. proc' = [proc EXCEPT ![c].pc = IF proc[c].cmd.id = "UP" THEN "put" ELSE "get",
                             ![c].data = Head(pend[h]), ![c].pos = 0]
    BY <1>9 DEF AcceptData
  <2>5. proc' \in [Client -> ProcState]
    BY <1>a, <2>2, <2>4 DEF TypeOK, ProcState
  <2>6. pend' \in [Host -> Seq(Sock)]
    BY <1>a, <2>2, <2>3 DEF TypeOK
  <2>7. TypeOK'
    BY <1>9, <1>a, <2>5, <2>6 DEF AcceptData, TypeOK, serverVars
  <2>8. \A q \in Client : ClientShape(q)'
    <3>1. /\ proc'[c].pc \in {"put", "get"} /\ proc'[c].cmd = proc[c].cmd
          /\ proc'[c].data \in Sock /\ (proc'[c].pc = "put" => proc[c].cmd.id = "UP")
          /\ \A q \in Client : q # c => proc'[q] = proc[q]
      BY <1>a, <2>2, <2>4 DEF TypeOK, ProcState
    <3>2. proc[c].pc = "accept" /\ local' = local
      BY <1>9 DEF AcceptData
    <3> QED BY <1>a, <3>1, <3>2 DEF ClientShape
  <2> QED BY <1>9, <1>a, <2>7, <2>8, ShapeFrames DEF AcceptData, serverVars, Shape
<1>10. CASE Get(c)
  <2> DEFINE s == proc[c].data
  <2>1. s \in Sock /\ dat[s].toCli # <<>>
    BY <1>10, <1>a DEF Get, ClientShape
  <2>2. Head(dat[s].toCli) \in Item /\ [dat[s] EXCEPT !.toCli = Tail(@)] \in DatState
    BY <1>a, <2>1, StreamTypes DEF TypeOK
  <2>3. dat' \in [Sock -> DatState]
    BY <1>10, <1>a, <2>1, <2>2 DEF Get, TypeOK
  <2>4. CASE proc[c].cmd.id = "DOWN"
    <3> DEFINE n == proc[c].cmd.arg
    <3>1. n \in Name /\ local[c][n] \in Content
      BY <1>10, <1>a, <2>4, CommandTypes DEF Get, ClientShape
    <3>2. Append(local[c][n], Head(dat[s].toCli)) \in Content
      BY <2>2, <3>1 DEF Content
    <3>3. local' = [local EXCEPT ![c][n] = Append(local[c][n], Head(dat[s].toCli))]
      BY <1>10, <2>4 DEF Get
    <3>4. local' \in [Client -> [Name -> Content \cup {NoFile}]]
      BY <1>a, <3>1, <3>2, <3>3 DEF TypeOK
    <3>5. TypeOK'
      BY <1>10, <1>a, <2>3, <3>4 DEF Get, TypeOK, serverVars
    <3>6. \A q \in Client : ClientShape(q)'
      BY <1>10, <1>a, <3>1, <3>2, <3>3 DEF Get, ClientShape, TypeOK
    <3> QED BY <1>10, <1>a, <3>5, <3>6, ShapeFrames DEF Get, serverVars, Shape
  <2>5. CASE proc[c].cmd.id # "DOWN"
    <3>1. UNCHANGED <<proc, local>>
      BY <1>10, <2>5 DEF Get
    <3>2. TypeOK'
      BY <1>10, <1>a, <2>3, <3>1 DEF Get, TypeOK, serverVars
    <3> QED BY <1>10, <1>a, <3>1, <3>2, ShapeFrames DEF Get, serverVars, Shape
  <2> QED BY <2>4, <2>5
<1>11. ASSUME CloseTransfer(c) PROVE TypeInv'
  <2>1. CloseData(c, "closed") \in [Sock -> DatState]
    BY <1>0, <1>a, ClosedEndType DEF TypeOK, CloseData
  <2>2. proc' = [proc EXCEPT ![c].pc = "ready", ![c].cmd = None, ![c].data = None, ![c].pos = 0]
    BY <1>11 DEF CloseTransfer
  <2>3. proc' \in [Client -> ProcState]
    BY <1>a, <2>2 DEF TypeOK, ProcState
  <2>4. TypeOK'
    BY <1>11, <1>a, <2>1, <2>3, ClosePortTypes DEF CloseTransfer, TypeOK, serverVars
  <2>5. \A q \in Client : ClientShape(q)'
    BY <1>11, <1>a, <2>2 DEF CloseTransfer, ClientShape, TypeOK, ProcState
  <2> QED BY <1>11, <1>a, <2>4, <2>5, ShapeFrames DEF CloseTransfer, serverVars, Shape
<1>12. CASE GetEnds(c)
    BY <1>11, <1>12 DEF GetEnds
<1>13. CASE PutEnds(c)
    BY <1>11, <1>13 DEF PutEnds
<1>14. CASE Put(c)
  <2> DEFINE s == proc[c].data  src == local[c][proc[c].cmd.arg]
  <2>1. s \in Sock /\ src \in Content /\ proc[c].pos \in Nat /\ proc[c].pos < Len(src)
    BY <1>14, <1>a, CommandTypes DEF Put, ClientShape, ProcState
  <2>2. src[proc[c].pos + 1] \in Item
    BY <2>1 DEF Content
  <2>3. [dat[s] EXCEPT !.toSrv = Append(@, src[proc[c].pos + 1])] \in DatState
    BY <1>a, <2>1, <2>2, StreamTypes DEF TypeOK
  <2>4. dat' \in [Sock -> DatState]
    BY <1>14, <1>a, <2>1, <2>3 DEF Put, TypeOK
  <2>5. proc' \in [Client -> ProcState]
    <3>1. proc' = [proc EXCEPT ![c].pos = proc[c].pos + 1] /\ proc[c].pos + 1 \in Nat
      BY <1>14, <2>1 DEF Put
    <3> QED BY <1>a, <3>1 DEF TypeOK, ProcState
  <2>6. TypeOK'
    BY <1>14, <1>a, <2>4, <2>5 DEF Put, TypeOK, serverVars
  <2>7. \A q \in Client : ClientShape(q)'
    BY <1>14, <1>a DEF Put, ClientShape, TypeOK, ProcState
  <2> QED BY <1>14, <1>a, <2>6, <2>7, ShapeFrames DEF Put, serverVars, Shape
<1> QED
    BY <1>1, <1>2, <1>3, <1>4, <1>5, <1>6, <1>7, <1>8, <1>9, <1>10, <1>12, <1>13, <1>14
    DEF ClientStep

\* So does each step of a user.
LEMMA UserTypes ==
    ASSUME TypeInv, NEW c \in Client, UserStep(c)
    PROVE  TypeInv'
<1> USE DEF TypeInv
<1>0. "closed" \in EndState /\ "killed" \in EndState
    BY DEF EndState
<1>a. /\ TypeOK /\ \A q \in Client : ClientShape(q)
      /\ \A k \in Conn : ThreadShape(k)
    BY DEF TypeOK, Shape
<1>1. ASSUME NEW k \in Conn, Connect(c, k) PROVE TypeInv'
  <2>1. /\ [NoProc EXCEPT !.pc = "hello", !.conn = k] \in ProcState
        /\ [NoCtl EXCEPT !.by = c, !.cli = "open", !.srv = "open"] \in CtlState
    BY FreshTypes DEF ProcState, CtlState, EndState
  <2>2. proc' \in [Client -> ProcState] /\ ctl' \in [Conn -> CtlState]
    BY <1>1, <1>a, <2>1 DEF Connect, TypeOK
  <2>3. thr' \in [Conn -> ThrState]
    <3>1. [thr[k] EXCEPT !.pc = "queued"] \in ThrState
      BY <1>a DEF TypeOK, ThrState
    <3> QED BY <1>1, <1>a, <3>1 DEF Connect, TypeOK
  <2>4. TypeOK'
    BY <1>1, <1>a, <2>2, <2>3 DEF Connect, TypeOK
  <2>5. \A q \in Client : ClientShape(q)'
    <3>1. /\ proc'[c].pc = "hello" /\ proc'[c].cmd = None /\ local' = local
          /\ \A q \in Client : q # c => proc'[q] = proc[q]
      BY <1>1, <1>a DEF Connect, TypeOK, NoProc
    <3> QED BY <1>a, <3>1 DEF ClientShape
  <2>6. ASSUME NEW q \in Conn PROVE ThreadShape(q)'
    <3>1. /\ thr'[q] = thr[q] \/ thr'[q] = [thr[q] EXCEPT !.pc = "queued"]
          /\ fs' = fs /\ thr[q] \in ThrState
      BY <1>1, <1>a DEF Connect, TypeOK
    <3> QED BY <1>a, <3>1 DEF ThreadShape, Opened, ThrState
  <2> QED BY <2>4, <2>5, <2>6 DEF Shape
<1>2. ASSUME NEW m \in Menu[c], Type(c, m) PROVE TypeInv'
  <2>1. m \in Command /\ OpensLocal(c, m)
    BY <1>2, FtpAssumption DEF Type
  <2>2. proc' = [proc EXCEPT ![c].pc = "write", ![c].cmd = m]
    BY <1>2 DEF Type
  <2>3. proc' \in [Client -> ProcState]
    <3>1. [proc[c] EXCEPT !.pc = "write", !.cmd = m] \in ProcState
      BY <1>a, <2>1 DEF TypeOK, ProcState
    <3> QED BY <1>a, <2>2, <3>1 DEF TypeOK
  <2>4. port' \in [Host -> Client \cup {None}]
    <3>1. port' = port \/ port' = [port EXCEPT ![HostOf[c]] = c]
      BY <1>2 DEF Type
    <3> QED BY <1>a, <3>1 DEF TypeOK
  <2>5. TypeOK'
    BY <1>2, <1>a, <2>1, <2>3, <2>4, OpensLocalTypes DEF Type, TypeOK, serverVars
  <2>6. /\ proc'[c].pc = "write" /\ proc'[c].cmd = m
        /\ \A q \in Client : q # c => proc'[q] = proc[q]
    BY <1>a, <2>2 DEF TypeOK, ProcState
  <2>7. \A q \in Client : ClientShape(q)'
    BY <1>a, <2>1, <2>6, OpensLocalTypes DEF ClientShape
  <2> QED BY <1>2, <1>a, <2>5, <2>7, ShapeFrames DEF Type, serverVars, Shape
<1>3. ASSUME NEW m \in Menu[c], BindFails(c, m) PROVE TypeInv'
  <2>1. m \in Command /\ OpensLocal(c, m)
    BY <1>3, FtpAssumption DEF BindFails
  <2> QED BY <1>0, <1>3, <2>1, OpensLocalTypes, GoneStep DEF BindFails
<1>4. CASE Kill(c)
  <2>1. Gone(c, "killed") /\ UNCHANGED local /\ UNCHANGED serverVars
    BY <1>4 DEF Kill
  <2> QED BY <1>0, <1>a, <2>1, GoneStep, Zenon DEF TypeOK
<1> QED BY <1>1, <1>2, <1>3, <1>4 DEF UserStep

\* What thread k leaves alone when it runs.
LEMMA ThreadFrame ==
    ASSUME TypeInv, NEW k \in Conn, UNCHANGED clientVars,
           pend' \in [Host -> Seq(Sock)], ctl' \in [Conn -> CtlState],
           dat' \in [Sock -> DatState], cwd' \in Dir, up' \in BOOLEAN,
           fs' \in [Dir -> [Name -> Content \cup {NoFile}]],
           \A d \in Dir, n \in Name : fs[d][n] \in Content => fs'[d][n] \in Content,
           NEW t \in ThrState, thr' = [thr EXCEPT ![k] = t], ThreadShape(k)'
    PROVE  TypeInv'
<1>1. TypeOK'
    BY DEF TypeInv, TypeOK, clientVars
<1>2. \A c \in Client : ClientShape(c)'
    BY ShapeFrames DEF TypeInv, Shape, clientVars
<1>3. ASSUME NEW q \in Conn, q # k PROVE ThreadShape(q)'
  <2>1. thr'[q] = thr[q] /\ thr[q] \in ThrState /\ ThreadShape(q)
    BY <1>3 DEF TypeInv, TypeOK, Shape
  <2>2. thr[q].file # None => Opened(q)' \in Content
    BY <2>1 DEF ThreadShape, Opened, ThrState
  <2> QED BY <2>1, <2>2 DEF ThreadShape
<1> QED BY <1>1, <1>2, <1>3 DEF TypeInv, Shape

\* The updates of a thread's record that the steps of the server make.
LEMMA ThreadUpdates ==
    ASSUME NEW t \in ThrState
    PROVE  /\ \A f \in [dir : Dir, name : Name] \cup {None} :
                [NoThread EXCEPT !.pc = "end", !.file = f] \in ThrState
           /\ [NoThread EXCEPT !.pc = "recv"] \in ThrState
           /\ \A x \in {"welcome", "recv", "cdtext"} : [t EXCEPT !.pc = x] \in ThrState
           /\ \A m \in Command : [t EXCEPT !.pc = "connect", !.cmd = m] \in ThrState
           /\ [t EXCEPT !.pos = @ + 1] \in ThrState
<1>1. t.pos + 1 \in Nat
    BY DEF ThrState
<1> QED BY <1>1, FreshTypes DEF ThrState

\* A thread that ends, and one that goes back to RecvCmd, keep TypeInv.
LEMMA EndStep ==
    ASSUME TypeInv, NEW k \in Conn, NEW f \in {None, thr[k].file}, EndThread(k, f),
           UNCHANGED <<clientVars, pend, cwd, fs, up>>, dat' \in [Sock -> DatState]
    PROVE  TypeInv'
<1> DEFINE t == [NoThread EXCEPT !.pc = "end", !.file = f]
<1>1. f \in [dir : Dir, name : Name] \cup {None}
    BY DEF TypeInv, TypeOK, ThrState
<1>2. t \in ThrState /\ thr' = [thr EXCEPT ![k] = t]
    BY <1>1, FreshTypes, ThreadUpdates DEF EndThread
<1>3. "closed" \in EndState
    BY DEF EndState
<1>4. ctl' \in [Conn -> CtlState]
    BY <1>3, QueueTypes DEF EndThread, TypeInv, TypeOK
<1>5. f # None => f = thr[k].file /\ Opened(k) \in Content
    BY DEF TypeInv, Shape, ThreadShape
<1>6. thr'[k].pc = "end" /\ thr'[k].file = f /\ fs' = fs
    BY <1>2 DEF TypeInv, TypeOK, NoThread
<1>7. ThreadShape(k)'
    BY <1>5, <1>6 DEF ThreadShape, Opened
<1> HIDE DEF t
<1> QED BY <1>2, <1>4, <1>7, ThreadFrame DEF TypeInv, TypeOK

LEMMA NextCommandStep ==
    ASSUME TypeInv, NEW k \in Conn, NextCommand(k), UNCHANGED <<clientVars, cwd, up>>,
           UNCHANGED <<pend, ctl, fs>>, dat' \in [Sock -> DatState]
    PROVE  TypeInv'
<1> DEFINE t == [NoThread EXCEPT !.pc = "recv"]
<1>1. t \in ThrState /\ thr' = [thr EXCEPT ![k] = t]
    BY FreshTypes, ThreadUpdates DEF NextCommand
<1>2. thr'[k].pc = "recv" /\ thr'[k].file = None
    BY <1>1 DEF TypeInv, TypeOK, NoThread
<1>3. ThreadShape(k)'
    BY <1>2 DEF ThreadShape
<1> HIDE DEF t
<1> QED BY <1>1, <1>3, ThreadFrame DEF TypeInv, TypeOK

\* Taking a command and sending a response leave the queues well typed.
LEMMA SendsTypes ==
    ASSUME NEW x \in [Conn -> CtlState], NEW k \in Conn,
           NEW to \in {"HELLO", "PWD", "CD", "DOWN", "UP", "QUIT"},
           NEW id \in {"OK", "ERR"}, NEW text \in Dir \cup {None}
    PROVE  SendRspns(x, k, to, id, text) \in [Conn -> CtlState]
<1> DEFINE r == [to |-> to, id |-> id, text |-> text]
<1>1. r \in Reply
    BY DEF Reply
<1> HIDE DEF r
<1>2. [x[k] EXCEPT !.rsp = Append(x[k].rsp, r)] \in CtlState
    BY <1>1, QueueTypes
<1>3. SendRspns(x, k, to, id, text) \in {[x EXCEPT ![k].rsp = Append(x[k].rsp, r)], x}
    BY DEF SendRspns, r
<1> QED BY <1>2, <1>3

LEMMA TakenTypes ==
    ASSUME TypeInv, NEW k \in Conn, ctl[k].req # <<>>
    PROVE  Taken(k) \in [Conn -> CtlState]
<1>1. [ctl[k] EXCEPT !.req = Tail(ctl[k].req)] \in CtlState
    BY QueueTypes DEF TypeInv, TypeOK
<1> QED BY <1>1 DEF Taken, TypeInv, TypeOK

\* A write at any position of a file leaves a file.
LEMMA WriteAtType ==
    ASSUME NEW s \in Content, NEW p \in Nat, NEW b \in Item
    PROVE  WriteAt(s, p, b) \in Content
<1> DEFINE n == IF p + 1 > Len(s) THEN p + 1 ELSE Len(s)
           f(i) == IF i = p + 1 THEN b ELSE IF i <= Len(s) THEN s[i] ELSE Hole
<1>1. n \in Nat /\ Len(s) \in Nat
    BY DEF Content
<1>2. ASSUME NEW i \in 1 .. n PROVE f(i) \in Item
    BY <1>1, <1>2 DEF Content, Item
<1>3. [i \in 1 .. n |-> f(i)] \in Seq(Item)
    BY <1>1, <1>2
<1>4. WriteAt(s, p, b) = [i \in 1 .. n |-> f(i)]
    BY DEF WriteAt
<1> QED BY <1>3, <1>4 DEF Content

\* Each step of a thread keeps TypeInv.
LEMMA ThreadTypes ==
    ASSUME TypeInv, NEW k \in Conn, ThreadStep(k)
    PROVE  TypeInv'
<1> DEFINE t == thr[k]
<1>a. /\ TypeOK /\ ThreadShape(k) /\ t \in ThrState
    BY DEF TypeInv, TypeOK, Shape
<1>b. /\ ctl \in [Conn -> CtlState] /\ dat \in [Sock -> DatState]
      /\ pend \in [Host -> Seq(Sock)] /\ cwd \in Dir /\ up \in BOOLEAN
      /\ fs \in [Dir -> [Name -> Content \cup {NoFile}]]
      /\ thr \in [Conn -> ThrState]
    BY <1>a DEF TypeOK
\* The steps that end the thread, with or without a data connection to close.
<1>c. ASSUME NEW d \in [Sock -> DatState], ClosesData(k, d)
      PROVE  dat' \in [Sock -> DatState]
  <2> DEFINE e == [s \in Sock |-> IF t.data = s THEN [d[s] EXCEPT !.srv = "closed"] ELSE d[s]]
  <2>1. e \in [Sock -> DatState]
    BY <1>c, ClosedEndType DEF EndState
  <2> HIDE DEF e
  <2>2. Live(e) \in [Sock -> DatState]
    BY <2>1, FreshTypes DEF Live
  <2> QED BY <1>c, <2>2 DEF ClosesData, e
<1>d. ASSUME NEW item \in Item PROVE SendsData(k, item) \in [Sock -> DatState]
    BY <1>b, <1>d, StreamTypes DEF SendsData
<1>e. ASSUME NEW id, Received(k, id)
      PROVE  /\ ctl[k].req # <<>> /\ Head(ctl[k].req) \in Command
             /\ Head(ctl[k].req).id = id /\ Taken(k) \in [Conn -> CtlState]
    BY <1>b, <1>e, TakenTypes, QueueTypes DEF Received
<1>1. CASE AcceptCtl(k)
  <2>1. [t EXCEPT !.pc = "welcome"] \in ThrState
        /\ thr' = [thr EXCEPT ![k] = [t EXCEPT !.pc = "welcome"]]
    BY <1>1, <1>a, ThreadUpdates DEF AcceptCtl
  <2>2. ThreadShape(k)'
    BY <1>1, <1>a, <1>b, <2>1 DEF AcceptCtl, ThreadShape, Opened, ThrState
  <2> QED BY <1>1, <1>b, <2>1, <2>2, ThreadFrame DEF AcceptCtl
<1>2. CASE NoThreadForIt(k)
    BY <1>2, <1>b, EndStep DEF NoThreadForIt
<1>3. CASE Welcome(k)
  <2>1. [t EXCEPT !.pc = "recv"] \in ThrState
        /\ thr' = [thr EXCEPT ![k] = [t EXCEPT !.pc = "recv"]]
    BY <1>3, <1>a, ThreadUpdates DEF Welcome
  <2>2. ThreadShape(k)'
    BY <1>3, <1>a, <1>b, <2>1 DEF Welcome, ThreadShape, Opened, ThrState
  <2>3. ctl' \in [Conn -> CtlState]
    BY <1>3, <1>b, SendsTypes DEF Welcome
  <2> QED BY <1>3, <1>b, <2>1, <2>2, <2>3, ThreadFrame DEF Welcome
<1>4. CASE RecvFails(k)
    BY <1>4, <1>b, EndStep DEF RecvFails
<1>5. CASE ReplyFails(k)
    BY <1>5, <1>b, EndStep DEF ReplyFails
<1>6. CASE Ls(k)
  <2> DEFINE m == Head(ctl[k].req)
  <2>1. m \in Command /\ m.id = "LS" /\ ctl' \in [Conn -> CtlState]
    BY <1>6, <1>e DEF Ls
  <2>2. [t EXCEPT !.pc = "connect", !.cmd = m] \in ThrState
        /\ thr' = [thr EXCEPT ![k] = [t EXCEPT !.pc = "connect", !.cmd = m]]
    BY <1>6, <1>a, <2>1, ThreadUpdates DEF Ls
  <2>3. ThreadShape(k)'
    BY <1>6, <1>a, <1>b, <2>1, <2>2 DEF Ls, ThreadShape, Opened, ThrState, Transfer
  <2> QED BY <1>6, <1>b, <2>1, <2>2, <2>3, ThreadFrame DEF Ls
<1>7. ASSUME ctl' \in [Conn -> CtlState], UNCHANGED <<clientVars, pend, dat, serverVars>>
      PROVE  TypeInv'
  <2>1. thr' = [thr EXCEPT ![k] = t] /\ fs' = fs
    BY <1>7, <1>b DEF serverVars
  <2>2. ThreadShape(k)'
    BY <1>7, <1>a, <2>1 DEF ThreadShape, Opened, serverVars
  <2> QED BY <1>7, <1>a, <1>b, <2>1, <2>2, ThreadFrame DEF serverVars
<1>8. CASE Pwd(k)
    BY <1>8, <1>7, <1>b, <1>e, SendsTypes DEF Pwd
<1>9. CASE CdFails(k)
    BY <1>9, <1>7, <1>e, SendsTypes DEF CdFails
<1>10. CASE DownRefused(k)
    BY <1>10, <1>7, <1>e, SendsTypes DEF DownRefused
<1>11. CASE UpRefused(k)
    BY <1>11, <1>7, <1>e, SendsTypes DEF UpRefused
<1>12. CASE Cd(k)
  <2>1. [t EXCEPT !.pc = "cdtext"] \in ThrState
        /\ thr' = [thr EXCEPT ![k] = [t EXCEPT !.pc = "cdtext"]]
    BY <1>12, <1>a, ThreadUpdates DEF Cd
  <2>2. ThreadShape(k)'
    BY <1>12, <1>a, <1>b, <2>1 DEF Cd, ThreadShape, Opened, ThrState
  <2>3. ctl' \in [Conn -> CtlState] /\ cwd' \in Dir
    BY <1>12, <1>e DEF Cd
  <2> QED BY <1>12, <1>b, <2>1, <2>2, <2>3, ThreadFrame DEF Cd
<1>13. CASE CdText(k)
  <2>1. [t EXCEPT !.pc = "recv"] \in ThrState
        /\ thr' = [thr EXCEPT ![k] = [t EXCEPT !.pc = "recv"]]
    BY <1>13, <1>a, ThreadUpdates DEF CdText
  <2>2. ThreadShape(k)'
    BY <1>13, <1>a, <1>b, <2>1 DEF CdText, ThreadShape, Opened, ThrState
  <2>3. ctl' \in [Conn -> CtlState]
    BY <1>13, <1>b, SendsTypes DEF CdText
  <2> QED BY <1>13, <1>b, <2>1, <2>2, <2>3, ThreadFrame DEF CdText
<1>14. CASE Down(k)
  <2> DEFINE m == Head(ctl[k].req)
             f == [dir |-> cwd, name |-> m.arg]
             u == [t EXCEPT !.pc = "connect", !.cmd = m, !.file = f, !.pos = 0]
  <2>1. m \in Command /\ m.id = "DOWN" /\ m.arg \in Name
        /\ fs[cwd][m.arg] \in Content
    BY <1>14, <1>b, <1>e, CommandTypes DEF Down, Arg
  <2>2. f \in [dir : Dir, name : Name] /\ f # None
    BY <1>b, <2>1, DistinctNone
  <2>3. u \in ThrState
    BY <1>a, <2>1, <2>2 DEF ThrState
  <2>4. thr' = [thr EXCEPT ![k] = u]
    BY <1>14 DEF Down, Arg
  <2>5. /\ thr'[k].pc = "connect" /\ thr'[k].cmd = m /\ thr'[k].file = f /\ fs' = fs
    <3>1. u.pc = "connect" /\ u.cmd = m /\ u.file = f
      BY <1>a DEF ThrState
    <3> HIDE DEF u
    <3>2. thr'[k] = u /\ fs' = fs
      BY <1>14, <1>b, <2>4 DEF Down
    <3> QED BY <3>1, <3>2
  <2>6. ThreadShape(k)'
    BY <2>1, <2>2, <2>5 DEF ThreadShape, Opened, Transfer
  <2>7. ctl' \in [Conn -> CtlState]
    BY <1>14, <1>e, SendsTypes DEF Down
  <2> HIDE DEF u
  <2> QED BY <1>14, <1>b, <2>3, <2>4, <2>6, <2>7, ThreadFrame DEF Down
<1>15. CASE Up(k)
  <2> DEFINE m == Head(ctl[k].req)
  <2>1. m \in Command /\ m.id = "UP" /\ ctl' \in [Conn -> CtlState]
    BY <1>15, <1>e, SendsTypes DEF Up
  <2>2. [t EXCEPT !.pc = "connect", !.cmd = m] \in ThrState
        /\ thr' = [thr EXCEPT ![k] = [t EXCEPT !.pc = "connect", !.cmd = m]]
    BY <1>15, <1>a, <2>1, ThreadUpdates DEF Up
  <2>3. ThreadShape(k)'
    BY <1>15, <1>a, <1>b, <2>1, <2>2 DEF Up, ThreadShape, Opened, ThrState, Transfer
  <2> QED BY <1>15, <1>b, <2>1, <2>2, <2>3, ThreadFrame DEF Up
<1>16. CASE Quit(k)
  <2> DEFINE u == [NoThread EXCEPT !.pc = "end"]
  <2>1. u \in ThrState /\ thr' = [thr EXCEPT ![k] = u]
    BY <1>16, FreshTypes DEF Quit, ThrState
  <2>2. thr'[k].pc = "end" /\ thr'[k].file = None
    BY <1>b, <2>1 DEF NoThread
  <2>3. ThreadShape(k)'
    BY <2>2 DEF ThreadShape
  <2>4. SendRspns(Taken(k), k, "QUIT", "OK", None) \in [Conn -> CtlState]
    BY <1>16, <1>e, SendsTypes DEF Quit
  <2>5. ctl' \in [Conn -> CtlState]
    BY <1>16, <2>4, QueueTypes DEF Quit, EndState
  <2> HIDE DEF u
  <2> QED BY <1>16, <1>b, <2>1, <2>3, <2>5, ThreadFrame DEF Quit
<1>17. CASE ConnectData(k)
  <2>1. PICK s \in FreeSock :
          /\ pend' = [pend EXCEPT ![PeerHost(k)] = Append(@, s)]
          /\ dat' = [dat EXCEPT ![s] = [NoDat EXCEPT !.by = k, !.cli = "open", !.srv = "open"]]
          /\ thr' = [thr EXCEPT ![k].pc = CASE thr[k].cmd.id = "LS"   -> "list"
                                           [] thr[k].cmd.id = "DOWN" -> "send"
                                           [] thr[k].cmd.id = "UP"   -> "create",
                                ![k].data = s]
    BY <1>17 DEF ConnectData
  <2>2. s \in Sock
    BY DEF FreeSock
  <2>3. t.cmd \in Command /\ t.cmd.id \in {"LS", "DOWN", "UP"} /\ fs' = fs
    BY <1>17, <1>a DEF ConnectData, ThreadShape, Transfer
  <2>4. PICK x \in {"list", "send", "create"} :
          /\ thr' = [thr EXCEPT ![k] = [t EXCEPT !.pc = x, !.data = s]]
          /\ x = "send" => t.cmd.id = "DOWN"
          /\ x = "create" => t.cmd.id = "UP"
    BY <2>1, <2>3
  <2>5. [t EXCEPT !.pc = x, !.data = s] \in ThrState
    BY <1>a, <2>2 DEF ThrState
  <2>6. /\ thr'[k].pc = x /\ thr'[k].data = s
        /\ thr'[k].cmd = t.cmd /\ thr'[k].file = t.file
    BY <1>a, <1>b, <2>4 DEF ThrState
  <2>7. t.pc = "connect"
    BY <1>17 DEF ConnectData
  <2>8. ThreadShape(k)'
    BY <1>a, <2>2, <2>3, <2>4, <2>6, <2>7 DEF ThreadShape, Opened
  <2>9. dat' \in [Sock -> DatState]
    BY <1>b, <2>1, FreshTypes DEF DatState, EndState
  <2>10. pend' \in [Host -> Seq(Sock)]
    <3>1. \A q \in Seq(Sock) : Append(q, s) \in Seq(Sock)
      BY <2>2
    <3> QED BY <1>b, <2>1, <3>1
  <2> QED BY <1>17, <1>b, <2>4, <2>5, <2>8, <2>9, <2>10, ThreadFrame DEF ConnectData
<1>18. CASE ConnectFails(k)
    BY <1>18, <1>b, EndStep DEF ConnectFails
<1>19. CASE SendList(k)
  <2>1. dat' \in [Sock -> DatState]
    BY <1>19, <1>b, <1>c, <1>d DEF SendList, Item
  <2> QED BY <1>19, <2>1, NextCommandStep DEF SendList
<1>20. CASE SendListDenied(k)
  <2>1. dat' \in [Sock -> DatState]
    BY <1>20, <1>c, <1>d DEF SendListDenied, Item
  <2> QED BY <1>20, <2>1, EndStep DEF SendListDenied
<1>21. CASE SendBlock(k)
  <2>1. Opened(k) \in Seq(Item) /\ t.pos \in Nat /\ t.pos < Len(Opened(k))
    BY <1>21, <1>a DEF SendBlock, ThreadShape, ThrState, Content
  <2>2. Opened(k)[t.pos + 1] \in Item
    BY <2>1
  <2>3. dat' \in [Sock -> DatState]
    BY <1>21, <1>d, <2>2 DEF SendBlock
  <2>4. [t EXCEPT !.pos = @ + 1] \in ThrState
        /\ thr' = [thr EXCEPT ![k] = [t EXCEPT !.pos = @ + 1]]
    BY <1>21, <1>a, ThreadUpdates DEF SendBlock
  <2>5. ThreadShape(k)'
    <3>1. /\ thr'[k].pc = "send" /\ thr'[k].file = t.file /\ thr'[k].data = t.data
          /\ t.pc = "send" /\ fs' = fs
      BY <1>21, <1>a, <1>b, <2>4 DEF SendBlock, ThrState
    <3> QED BY <1>a, <3>1 DEF ThreadShape, Opened
  <2> QED BY <1>21, <1>b, <2>3, <2>4, <2>5, ThreadFrame DEF SendBlock
<1>22. CASE SendEnds(k)
    BY <1>22, <1>b, <1>c, NextCommandStep DEF SendEnds
<1>23. CASE SendFails(k)
    BY <1>23, <1>b, <1>c, EndStep DEF SendFails
<1>24. CASE CreateFile(k)
  <2> DEFINE n == t.cmd.arg
             f == [dir |-> cwd, name |-> n]
             u == [t EXCEPT !.pc = "store", !.pos = 0, !.file = f]
  <2>1. n \in Name
    BY <1>24, <1>a, CommandTypes DEF CreateFile, ThreadShape
  <2>2. f \in [dir : Dir, name : Name]
    BY <1>b, <2>1
  <2>3. u \in ThrState /\ thr' = [thr EXCEPT ![k] = u]
    BY <1>24, <1>a, <2>2 DEF CreateFile, ThrState
  <2>4. fs' = [fs EXCEPT ![cwd][n] = <<>>]
    BY <1>24 DEF CreateFile
  <2>5. /\ fs' \in [Dir -> [Name -> Content \cup {NoFile}]]
        /\ \A d \in Dir, q \in Name : fs[d][q] \in Content => fs'[d][q] \in Content
        /\ fs'[cwd][n] \in Content
    BY <1>b, <2>1, <2>4, EmptyTypes
  <2>6. /\ thr'[k].pc = "store" /\ thr'[k].file = f /\ thr'[k].data \in Sock
    BY <1>24, <1>a, <1>b, <2>3 DEF CreateFile, ThreadShape, ThrState
  <2>7. ThreadShape(k)'
    BY <2>2, <2>5, <2>6, DistinctNone DEF ThreadShape, Opened
  <2> HIDE DEF u
  <2> QED BY <1>24, <1>b, <2>3, <2>5, <2>7, ThreadFrame DEF CreateFile
<1>25. CASE CreateFails(k)
    BY <1>25, <1>b, <1>c, EndStep DEF CreateFails
<1>26. CASE CreateAborts(k)
  <2>1. /\ \A x \in CtlState : Aborted(x) \in CtlState
        /\ \A x \in DatState : Aborted(x) \in DatState
    BY QueueTypes, ClosedEndType DEF Aborted, EndState
  <2> DEFINE e == [s \in Sock |-> Aborted(dat[s])]
  <2>2. e \in [Sock -> DatState]
    BY <1>b, <2>1
  <2> HIDE DEF e
  <2>3. Live(e) \in [Sock -> DatState]
    BY <2>2, FreshTypes DEF Live
  <2>4. dat' \in [Sock -> DatState] /\ ctl' \in [Conn -> CtlState]
    BY <1>26, <1>b, <2>1, <2>3 DEF CreateAborts, e
  <2>5. [NoThread EXCEPT !.pc = "end"] \in ThrState
    BY FreshTypes DEF ThrState
  <2>6. thr' \in [Conn -> ThrState] /\ up' \in BOOLEAN
    BY <1>26, <1>b, <2>5 DEF CreateAborts
  <2>7. TypeOK'
    BY <1>26, <1>a, <2>4, <2>6 DEF CreateAborts, TypeOK, clientVars
  <2>8. ASSUME NEW q \in Conn PROVE ThreadShape(q)'
    <3>1. \/ thr'[q] = thr[q] /\ thr[q].pc = "none"
          \/ thr'[q].pc = "end" /\ thr'[q].file = None
      BY <1>26, <1>b DEF CreateAborts, NoThread
    <3>2. fs' = fs /\ ThreadShape(q)
      BY <1>26 DEF CreateAborts, TypeInv, Shape
    <3> QED BY <3>1, <3>2 DEF ThreadShape, Opened
  <2>9. \A c \in Client : ClientShape(c)'
    BY <1>26, ShapeFrames DEF CreateAborts, clientVars, TypeInv, Shape
  <2> QED BY <2>7, <2>8, <2>9 DEF TypeInv, Shape
<1>27. CASE RecvBlock(k)
  <2> DEFINE s == t.data
             d == t.file.dir
             n == t.file.name
             b == Head(dat[s].toSrv)
  <2>1. s \in Sock /\ d \in Dir /\ n \in Name /\ fs[d][n] \in Content /\ t.pos \in Nat
    BY <1>27, <1>a DEF RecvBlock, ThreadShape, ThrState, Opened
  <2>2. b \in Item /\ [dat[s] EXCEPT !.toSrv = Tail(@)] \in DatState
    BY <1>27, <1>b, <2>1, StreamTypes DEF RecvBlock
  <2>3. dat' \in [Sock -> DatState]
    BY <1>27, <1>b, <2>1, <2>2 DEF RecvBlock
  <2>4. WriteAt(fs[d][n], t.pos, b) \in Content
    BY <2>1, <2>2, WriteAtType
  <2>5. fs' = [fs EXCEPT ![d][n] = WriteAt(fs[d][n], t.pos, b)]
    BY <1>27 DEF RecvBlock
  <2>6. /\ fs' \in [Dir -> [Name -> Content \cup {NoFile}]]
        /\ \A x \in Dir, y \in Name : fs[x][y] \in Content => fs'[x][y] \in Content
    BY <1>b, <2>1, <2>4, <2>5
  <2>7. [t EXCEPT !.pos = @ + 1] \in ThrState
        /\ thr' = [thr EXCEPT ![k] = [t EXCEPT !.pos = @ + 1]]
    BY <1>27, <1>a, ThreadUpdates DEF RecvBlock
  <2>8. /\ thr'[k].pc = "store" /\ thr'[k].file = t.file /\ thr'[k].data = s
    BY <1>27, <1>a, <1>b, <2>7 DEF RecvBlock, ThrState
  <2>9. ThreadShape(k)'
    BY <1>27, <1>a, <2>1, <2>6, <2>8 DEF RecvBlock, ThreadShape, Opened
  <2> QED BY <1>27, <1>b, <2>3, <2>6, <2>7, <2>9, ThreadFrame DEF RecvBlock
<1>28. CASE RecvEnds(k)
    BY <1>28, <1>b, <1>c, NextCommandStep DEF RecvEnds
<1>29. CASE RecvBroken(k)
    BY <1>29, <1>b, <1>c, EndStep DEF RecvBroken
<1> HIDE DEF t
<1> QED
    BY <1>1, <1>2, <1>3, <1>4, <1>5, <1>6, <1>8, <1>9, <1>10, <1>11, <1>12, <1>13, <1>14,
       <1>15, <1>16, <1>17, <1>18, <1>19, <1>20, <1>21, <1>22, <1>23, <1>24, <1>25, <1>26,
       <1>27, <1>28, <1>29
    DEF ThreadStep

LEMMA TypeStep == TypeInv /\ [Next]_vars => TypeInv'
<1> SUFFICES ASSUME TypeInv, [Next]_vars PROVE TypeInv'
    OBVIOUS
<1>1. CASE UNCHANGED vars
    BY <1>1 DEF vars, TypeInv, TypeOK, Shape, ClientShape, ThreadShape, Opened
<1>2. CASE Next
    BY <1>2, ClientTypes, UserTypes, ThreadTypes DEF Next
<1> QED BY <1>1, <1>2

\* The whole state is well typed in every behaviour of the system.
THEOREM TypeCorrect == Spec => []TypeOK
<1>1. TypeInv => TypeOK
    BY DEF TypeInv
<1> QED BY TypeInit, TypeStep, <1>1, PTL DEF Spec

-----------------------------------------------------------------------------
(* When no user changes the directory, the check before an upload is enough *)
(* for the files the server started with: the command being handled, the    *)
(* one in the queue and the one being typed are never CD, so the directory  *)
(* that was checked is the directory the file is created in.                *)

Staying == {m \in Command : m.id # "CD"}

NobodyMoves ==
    /\ \A c \in Client : proc[c].cmd # None => proc[c].cmd \in Staying
    /\ \A k \in Conn : ctl[k].req \in Seq(Staying)
    /\ cwd = InitDir

\* A thread past the check of an upload stores into a file that was not there.
UploadsNew(k) ==
    /\ thr[k].pc \in {"connect", "create"} /\ thr[k].cmd.id = "UP" =>
          InitFs[InitDir][thr[k].cmd.arg] = NoFile
    /\ thr[k].pc = "store" => InitFs[thr[k].file.dir][thr[k].file.name] = NoFile

KeptInv == /\ NobodyMoves
           /\ \A k \in Conn : UploadsNew(k)
           /\ InitialFilesKept

\* A client only ever appends the command it holds to its own queue.
LEMMA ClientKeeps ==
    ASSUME \A c \in Client : Menu[c] \subseteq Staying,
           TypeInv, KeptInv, NEW c \in Client, ClientStep(c) \/ UserStep(c)
    PROVE  KeptInv'
<1>a. /\ proc \in [Client -> ProcState] /\ ctl \in [Conn -> CtlState]
      /\ thr \in [Conn -> ThrState] /\ ClientShape(c)
    BY DEF TypeInv, TypeOK, Shape
<1>b. /\ \A q \in Client : proc[q].cmd # None => proc[q].cmd \in Staying
      /\ \A k \in Conn : ctl[k].req \in Seq(Staying)
      /\ cwd = InitDir /\ InitialFilesKept /\ \A k \in Conn : UploadsNew(k)
    BY DEF KeptInv, NobodyMoves
<1>c. NoProc.cmd = None /\ NoCtl.req = <<>> /\ <<>> \in Seq(Staying)
    BY DEF NoProc, NoCtl
\* A step of the process that leaves the server alone.
<1>d. ASSUME UNCHANGED serverVars,
             \A q \in Client : proc'[q].cmd \in {None, proc[q].cmd} \cup Staying,
             \A k \in Conn : ctl'[k].req \in Seq(Staying)
      PROVE  KeptInv'
    BY <1>b, <1>d DEF KeptInv, NobodyMoves, UploadsNew, InitialFilesKept, serverVars
<1>e. ASSUME NEW how, Gone(c, how), UNCHANGED serverVars PROVE KeptInv'
  <2>1. \A q \in Client : proc'[q].cmd \in {None, proc[q].cmd}
    BY <1>a, <1>c, <1>e DEF Gone
  <2>2. \A k \in Conn : ctl'[k].req = ctl[k].req
    BY <1>a, <1>e DEF Gone, CtlState
  <2> QED BY <1>b, <1>d, <1>e, <2>1, <2>2
<1>f. ASSUME NEW pc, NEW r, Reads(c, pc, r) PROVE \A k \in Conn : ctl'[k].req = ctl[k].req
    BY <1>a, <1>f DEF Reads, CtlState
<1>1. CASE ReadHello(c)
    BY <1>1, <1>a, <1>b, <1>d, <1>f DEF ReadHello, ProcState
<1>2. CASE ReadFails(c) \/ WriteFails(c) \/ Leave(c) \/ ListFails(c) \/ Kill(c)
    BY <1>2, <1>e DEF ReadFails, WriteFails, Leave, ListFails, Kill
<1>3. CASE WriteCmd(c)
  <2>1. proc[c].cmd \in Staying
    BY <1>3, <1>a, <1>b, CommandTypes DEF WriteCmd, ClientShape
  <2>2. \A k \in Conn : Append(ctl[k].req, proc[c].cmd) \in Seq(Staying)
    BY <1>b, <2>1
  <2>3. \A k \in Conn : ctl'[k].req \in Seq(Staying)
    BY <1>3, <1>a, <1>b, <2>2 DEF WriteCmd, CtlState
  <2>4. \A q \in Client : proc'[q].cmd = proc[q].cmd
    BY <1>3, <1>a DEF WriteCmd, ProcState
  <2> QED BY <1>3, <1>d, <2>3, <2>4 DEF WriteCmd
<1>4. CASE Answered(c)
    BY <1>4, <1>a, <1>b, <1>d, <1>f DEF Answered, ProcState
<1>5. CASE Granted(c)
    BY <1>5, <1>a, <1>b, <1>d, <1>f DEF Granted, ProcState
<1>6. CASE AcceptData(c)
    BY <1>6, <1>a, <1>b, <1>d DEF AcceptData, ProcState
<1>7. CASE Get(c)
    BY <1>7, <1>b, <1>d DEF Get
<1>8. CASE GetEnds(c) \/ PutEnds(c)
  <2>1. CloseTransfer(c)
    BY <1>8 DEF GetEnds, PutEnds
  <2>2. /\ UNCHANGED ctl /\ UNCHANGED serverVars
        /\ proc' = [proc EXCEPT ![c].pc = "ready", ![c].cmd = None,
                                ![c].data = None, ![c].pos = 0]
    BY <2>1 DEF CloseTransfer
  <2>3. \A q \in Client : proc'[q].cmd \in {None, proc[q].cmd}
    BY <1>a, <2>2 DEF ProcState
  <2> QED BY <1>b, <1>d, <2>2, <2>3
<1>9. CASE Put(c)
    BY <1>9, <1>a, <1>b, <1>d DEF Put, ProcState
<1>10. ASSUME NEW k \in Conn, Connect(c, k) PROVE KeptInv'
  <2>1. \A q \in Client : proc'[q].cmd \in {None, proc[q].cmd}
    BY <1>10, <1>a, <1>c DEF Connect, NoProc
  <2>2. \A q \in Conn : ctl'[q].req \in Seq(Staying)
    BY <1>10, <1>a, <1>b, <1>c DEF Connect, NoCtl
  <2>3. /\ \A q \in Conn : q # k => thr'[q] = thr[q]
        /\ thr'[k].pc = "queued" /\ cwd' = cwd /\ fs' = fs
    BY <1>10, <1>a DEF Connect, ThrState
  <2> QED BY <1>b, <2>1, <2>2, <2>3 DEF KeptInv, NobodyMoves, UploadsNew, InitialFilesKept
<1>11. ASSUME NEW m \in Menu[c], Type(c, m) PROVE KeptInv'
    BY <1>11, <1>a, <1>b, <1>d DEF Type, ProcState
<1>12. ASSUME NEW m \in Menu[c], BindFails(c, m) PROVE KeptInv'
    BY <1>12, <1>e DEF BindFails
<1> QED
    BY <1>1, <1>2, <1>3, <1>4, <1>5, <1>6, <1>7, <1>8, <1>9, <1>10, <1>11, <1>12
    DEF ClientStep, UserStep

\* A thread creates a file only where the check found none.
LEMMA ThreadKeeps ==
    ASSUME TypeInv, KeptInv, NEW k \in Conn, ThreadStep(k)
    PROVE  KeptInv'
<1> DEFINE t == thr[k]
<1>a. /\ ctl \in [Conn -> CtlState] /\ thr \in [Conn -> ThrState] /\ t \in ThrState
      /\ fs \in [Dir -> [Name -> Content \cup {NoFile}]] /\ ThreadShape(k)
    BY DEF TypeInv, TypeOK, Shape
<1>b. /\ \A q \in Client : proc[q].cmd # None => proc[q].cmd \in Staying
      /\ \A q \in Conn : ctl[q].req \in Seq(Staying)
      /\ cwd = InitDir /\ InitialFilesKept /\ \A q \in Conn : UploadsNew(q)
    BY DEF KeptInv, NobodyMoves
<1>c. /\ NoThread.pc = "none" /\ [NoThread EXCEPT !.pc = "recv"].pc = "recv"
      /\ \A f : [NoThread EXCEPT !.pc = "end", !.file = f].pc = "end"
      /\ [NoThread EXCEPT !.pc = "end"].pc = "end"
    BY DEF NoThread
\* The queues after taking a command, and after any response.
<1>d. ASSUME ctl[k].req # <<>>
      PROVE  /\ Head(ctl[k].req) \in Staying
             /\ \A q \in Conn : Taken(k)[q].req \in Seq(Staying)
             /\ Taken(k) \in [Conn -> CtlState]
  <2>1. Head(ctl[k].req) \in Staying /\ Tail(ctl[k].req) \in Seq(Staying)
    BY <1>b, <1>d
  <2> QED BY <1>a, <1>b, <1>d, <2>1, TakenTypes DEF Taken, CtlState
<1>e. ASSUME NEW x \in [Conn -> CtlState], NEW to, NEW id, NEW text, NEW q \in Conn
      PROVE  SendRspns(x, k, to, id, text)[q].req = x[q].req
    BY <1>e DEF SendRspns, CtlState
\* A step that keeps the files and the directory, after which this thread has
\* either nothing to store or what it had before.
<1>f. ASSUME UNCHANGED clientVars, UNCHANGED fs, UNCHANGED cwd,
             \A q \in Conn : ctl'[q].req \in Seq(Staying),
             \A q \in Conn : q # k => thr'[q] = thr[q],
             \/ thr'[k].pc \notin {"connect", "create", "store"}
             \/ UploadsNew(k)'
      PROVE  KeptInv'
  <2>1. \A q \in Conn : UploadsNew(q)'
    BY <1>b, <1>f DEF UploadsNew
  <2> QED BY <1>b, <1>f, <2>1 DEF KeptInv, NobodyMoves, InitialFilesKept, clientVars
<1>g. ASSUME NEW f, EndThread(k, f), UNCHANGED <<clientVars, pend, cwd, fs, up>> PROVE KeptInv'
  <2>1. \A q \in Conn : ctl'[q].req = ctl[q].req
    BY <1>a, <1>g DEF EndThread, CtlState
  <2>2. /\ \A q \in Conn : q # k => thr'[q] = thr[q]
        /\ thr'[k].pc = "end"
    BY <1>a, <1>c, <1>g DEF EndThread
  <2> QED BY <1>b, <1>f, <1>g, <2>1, <2>2
<1>h. ASSUME NextCommand(k), UNCHANGED <<clientVars, cwd, fs, ctl>> PROVE KeptInv'
  <2>1. /\ \A q \in Conn : q # k => thr'[q] = thr[q]
        /\ thr'[k].pc = "recv"
    BY <1>a, <1>c, <1>h DEF NextCommand
  <2> QED BY <1>b, <1>f, <1>h, <2>1
<1>1. CASE AcceptCtl(k)
    BY <1>1, <1>a, <1>b, <1>f DEF AcceptCtl, ThrState
<1>2. CASE Welcome(k)
    BY <1>2, <1>a, <1>b, <1>e, <1>f DEF Welcome, ThrState
<1>3. CASE NoThreadForIt(k) \/ RecvFails(k) \/ ReplyFails(k) \/ ConnectFails(k)
           \/ SendListDenied(k) \/ SendFails(k) \/ CreateFails(k) \/ RecvBroken(k)
    BY <1>3, <1>g DEF NoThreadForIt, RecvFails, ReplyFails, ConnectFails, SendListDenied,
                      SendFails, CreateFails, RecvBroken
<1>4. CASE SendList(k) \/ SendEnds(k) \/ RecvEnds(k)
    BY <1>4, <1>h DEF SendList, SendEnds, RecvEnds
<1>5. CASE Ls(k)
  <2>1. Head(ctl[k].req).id = "LS" /\ ctl' = Taken(k) /\ ctl[k].req # <<>>
    BY <1>5 DEF Ls, Received
  <2>2. /\ thr'[k].pc = "connect" /\ thr'[k].cmd.id = "LS"
        /\ \A q \in Conn : q # k => thr'[q] = thr[q]
    BY <1>5, <1>a, <2>1 DEF Ls, ThrState
  <2> QED BY <1>5, <1>d, <1>f, <2>1, <2>2 DEF Ls, UploadsNew
<1>6. CASE Pwd(k) \/ CdFails(k) \/ DownRefused(k) \/ UpRefused(k)
  <2>1. ctl[k].req # <<>> /\ UNCHANGED <<clientVars, thr, cwd, fs>>
    BY <1>6 DEF Pwd, CdFails, DownRefused, UpRefused, Received, serverVars
  <2>2. \A q \in Conn : ctl'[q].req = Taken(k)[q].req
    BY <1>6, <1>d, <1>e, <2>1 DEF Pwd, CdFails, DownRefused, UpRefused
  <2>3. UploadsNew(k)'
    BY <1>b, <2>1 DEF UploadsNew
  <2> QED BY <1>d, <1>f, <2>1, <2>2, <2>3
<1>7. CASE Cd(k)
    BY <1>7, <1>d DEF Cd, Received, Staying
<1>8. CASE CdText(k)
    BY <1>8, <1>a, <1>b, <1>e, <1>f DEF CdText, ThrState
<1>9. CASE Down(k)
  <2>1. Head(ctl[k].req).id = "DOWN" /\ ctl[k].req # <<>>
    BY <1>9 DEF Down, Received
  <2>2. \A q \in Conn : ctl'[q].req = Taken(k)[q].req
    BY <1>9, <1>d, <1>e, <2>1 DEF Down
  <2>3. /\ thr'[k].pc = "connect" /\ thr'[k].cmd.id = "DOWN"
        /\ \A q \in Conn : q # k => thr'[q] = thr[q]
    BY <1>9, <1>a, <2>1 DEF Down, ThrState
  <2> QED BY <1>9, <1>d, <1>f, <2>1, <2>2, <2>3 DEF Down, UploadsNew
<1>10. CASE Up(k)
  <2> DEFINE m == Head(ctl[k].req)
  <2>1. m \in Command /\ m.id = "UP" /\ ctl[k].req # <<>> /\ fs[cwd][m.arg] = NoFile
    BY <1>10, <1>b, <1>d, FtpAssumption DEF Up, Received, Arg, FileExists, Staying
  <2>2. \A q \in Conn : ctl'[q].req = Taken(k)[q].req
    BY <1>10, <1>d, <1>e, <2>1 DEF Up
  <2>3. /\ thr'[k].pc = "connect" /\ thr'[k].cmd = m
        /\ \A q \in Conn : q # k => thr'[q] = thr[q]
    BY <1>10, <1>a DEF Up, ThrState
  <2>4. InitFs[InitDir][m.arg] = NoFile
    BY <1>b, <2>1, CommandTypes, FtpAssumption DEF InitialFilesKept
  <2>5. UploadsNew(k)'
    BY <2>3, <2>4 DEF UploadsNew
  <2> QED BY <1>10, <1>d, <1>f, <2>1, <2>2, <2>3, <2>5 DEF Up
<1>11. CASE ConnectData(k)
  <2>1. /\ t.pc = "connect" /\ UNCHANGED <<clientVars, ctl, cwd, fs>>
        /\ thr'[k].cmd = t.cmd
        /\ thr'[k].pc = "create" => t.cmd.id = "UP"
        /\ thr'[k].pc \in {"list", "send", "create"}
        /\ \A q \in Conn : q # k => thr'[q] = thr[q]
    BY <1>11, <1>a DEF ConnectData, ThrState, ThreadShape, Transfer
  <2>2. UploadsNew(k)'
    BY <1>b, <2>1 DEF UploadsNew
  <2> QED BY <1>b, <1>f, <2>1, <2>2
<1>12. CASE SendBlock(k)
  <2>1. /\ UNCHANGED <<clientVars, ctl, cwd, fs>> /\ thr'[k].pc = "send"
        /\ \A q \in Conn : q # k => thr'[q] = thr[q]
    BY <1>12, <1>a DEF SendBlock, ThrState
  <2> QED BY <1>b, <1>f, <2>1
<1>13. CASE CreateFile(k)
  <2> DEFINE n == t.cmd.arg
             f == [dir |-> cwd, name |-> n]
  <2>1. InitFs[InitDir][n] = NoFile /\ n \in Name
    BY <1>13, <1>a, <1>b, CommandTypes DEF CreateFile, UploadsNew, ThreadShape
  <2>2. /\ thr'[k].pc = "store" /\ thr'[k].file = f
        /\ \A q \in Conn : q # k => thr'[q] = thr[q]
    BY <1>13, <1>a DEF CreateFile, ThrState
  <2>3. f.dir = InitDir /\ f.name = n
    BY <1>b
  <2>4. UploadsNew(k)'
    BY <2>1, <2>2, <2>3 DEF UploadsNew
  <2>5. \A q \in Conn : UploadsNew(q)'
    BY <1>b, <2>2, <2>4 DEF UploadsNew
  <2>6. fs' = [fs EXCEPT ![cwd][n] = <<>>]
    BY <1>13 DEF CreateFile
  <2>7. InitialFilesKept'
    BY <1>a, <1>b, <2>1, <2>6 DEF InitialFilesKept
  <2> QED BY <1>13, <1>b, <2>5, <2>7 DEF CreateFile, KeptInv, NobodyMoves, clientVars
<1>14. CASE CreateAborts(k)
  <2>1. \A q \in Conn : ctl'[q].req = ctl[q].req
    BY <1>14, <1>a DEF CreateAborts, Aborted, CtlState
  <2>2. \A q \in Conn : thr'[q] = thr[q] \/ thr'[q].pc = "end"
    BY <1>14, <1>c DEF CreateAborts
  <2>3. \A q \in Conn : UploadsNew(q)'
    BY <1>b, <2>2 DEF UploadsNew
  <2> QED BY <1>14, <1>b, <2>1, <2>3
          DEF CreateAborts, KeptInv, NobodyMoves, InitialFilesKept, clientVars
<1>15. CASE RecvBlock(k)
  <2> DEFINE d == t.file.dir
             n == t.file.name
  <2>1. /\ t.pc = "store" /\ UNCHANGED <<clientVars, ctl, cwd>>
        /\ \E v : fs' = [fs EXCEPT ![d][n] = v]
    BY <1>15 DEF RecvBlock
  <2>2. InitFs[d][n] = NoFile
    BY <1>b, <2>1 DEF UploadsNew
  <2>3. InitialFilesKept'
    BY <1>a, <1>b, <2>1, <2>2 DEF InitialFilesKept
  <2>4. /\ thr'[k].pc = "store" /\ thr'[k].file = t.file
        /\ \A q \in Conn : q # k => thr'[q] = thr[q]
    BY <1>15, <1>a DEF RecvBlock, ThrState
  <2>5. \A q \in Conn : UploadsNew(q)'
    BY <1>b, <2>2, <2>4 DEF UploadsNew
  <2> QED BY <1>b, <2>1, <2>3, <2>5 DEF KeptInv, NobodyMoves, clientVars
<1>16. CASE Quit(k)
  <2>1. ctl[k].req # <<>> /\ UNCHANGED <<clientVars, cwd, fs>>
    BY <1>16 DEF Quit, Received
  <2>2. SendRspns(Taken(k), k, "QUIT", "OK", None) \in [Conn -> CtlState]
    BY <1>d, <2>1, SendsTypes
  <2> DEFINE y == SendRspns(Taken(k), k, "QUIT", "OK", None)
  <2>a. \A q \in Conn : y[q].req = Taken(k)[q].req
    BY <1>d, <1>e, <2>1
  <2>b. ctl' = [y EXCEPT ![k].srv = "closed"]
    BY <1>16 DEF Quit
  <2> HIDE DEF y
  <2>c. \A q \in Conn : ctl'[q].req = y[q].req
    BY <2>2, <2>b DEF CtlState, y
  <2>3. \A q \in Conn : ctl'[q].req = Taken(k)[q].req
    BY <2>a, <2>c
  <2>4. /\ \A q \in Conn : q # k => thr'[q] = thr[q]
        /\ thr'[k].pc = "end"
    BY <1>16, <1>a, <1>c DEF Quit
  <2> QED BY <1>d, <1>f, <2>1, <2>3, <2>4
<1> HIDE DEF t
<1>17. \/ AcceptCtl(k) \/ Welcome(k) \/ Ls(k) \/ Cd(k) \/ CdText(k) \/ Down(k) \/ Up(k)
       \/ ConnectData(k) \/ SendBlock(k) \/ CreateFile(k) \/ CreateAborts(k) \/ RecvBlock(k)
       \/ Quit(k)
       \/ Pwd(k) \/ CdFails(k) \/ DownRefused(k) \/ UpRefused(k)
       \/ SendList(k) \/ SendEnds(k) \/ RecvEnds(k)
       \/ NoThreadForIt(k) \/ RecvFails(k) \/ ReplyFails(k) \/ ConnectFails(k)
       \/ SendListDenied(k) \/ SendFails(k) \/ CreateFails(k) \/ RecvBroken(k)
    BY Zenon DEF ThreadStep
<1> QED
    BY <1>1, <1>2, <1>3, <1>4, <1>5, <1>6, <1>7, <1>8, <1>9, <1>10, <1>11, <1>12, <1>13,
       <1>14, <1>15, <1>16, <1>17

\* KeptInv and the types hold in every state, if no user may type CD.
LEMMA AlwaysKept ==
    ASSUME \A c \in Client : Menu[c] \subseteq Staying
    PROVE  Spec => [](TypeInv /\ KeptInv)
<1>1. Init => KeptInv
  <2> SUFFICES ASSUME Init PROVE KeptInv
    OBVIOUS
  <2>1. /\ \A c \in Client : proc[c].cmd = None
        /\ \A k \in Conn : ctl[k].req = <<>> /\ thr[k].pc = "none"
        /\ cwd = InitDir /\ fs = InitFs
    BY DEF Init, NoProc, NoCtl, NoThread
  <2>2. <<>> \in Seq(Staying)
    OBVIOUS
  <2> QED BY <2>1, <2>2 DEF KeptInv, NobodyMoves, UploadsNew, InitialFilesKept
<1>2. TypeInv /\ KeptInv /\ [Next]_vars => KeptInv'
  <2> SUFFICES ASSUME TypeInv, KeptInv, [Next]_vars PROVE KeptInv'
    OBVIOUS
  <2>1. CASE UNCHANGED vars
    BY <2>1 DEF vars, KeptInv, NobodyMoves, UploadsNew, InitialFilesKept
  <2>2. CASE Next
    BY <2>2, ClientKeeps, ThreadKeeps DEF Next
  <2> QED BY <2>1, <2>2
<1> QED BY TypeInit, TypeStep, <1>1, <1>2, PTL DEF Spec

\* When no user may type CD, the files the server was started with stay as they
\* were, whatever the clients do and whoever is killed (ProcessCmd, case UP).
THEOREM FilesKept ==
    ASSUME \A c \in Client : Menu[c] \subseteq Staying
    PROVE  Spec => []InitialFilesKept
<1>1. KeptInv => InitialFilesKept
    BY DEF KeptInv
<1> QED BY AlwaysKept, <1>1, PTL

-----------------------------------------------------------------------------
(* The data port.  That it is held in a transfer only is inductive.         *)

\* No step of a client leaves the transfer and keeps the port.
LEMMA ClosePortFrees ==
    ASSUME TypeInv, PortInTransferOnly, NEW c \in Client, NEW d, ClosePort(c, d)
    PROVE  \A h \in Host : /\ port'[h] # None => port'[h] = port[h] /\ port'[h] # c
<1>1. port \in [Host -> Client \cup {None}] /\ HostOf[c] \in Host
    BY FtpAssumption DEF TypeInv, TypeOK
<1>2. \A h \in Host : port[h] = c => h = HostOf[c]
    BY DistinctNone DEF PortInTransferOnly
<1> QED BY <1>1, <1>2 DEF ClosePort

\* No step of the server touches a client, its files or its port.
LEMMA ThreadLeavesClients ==
    ASSUME NEW k \in Conn, ThreadStep(k)
    PROVE  UNCHANGED clientVars
<1>1. CASE AcceptCtl(k) \/ NoThreadForIt(k) \/ Welcome(k) \/ RecvFails(k) \/
           ReplyFails(k) \/ Ls(k) \/ Pwd(k)
    BY <1>1, SMT DEF AcceptCtl, NoThreadForIt, Welcome, RecvFails, ReplyFails, Ls, Pwd
<1>2. CASE Cd(k) \/ CdText(k) \/ CdFails(k) \/ Down(k) \/ DownRefused(k) \/ Up(k) \/
           UpRefused(k)
    BY <1>2, SMT DEF Cd, CdText, CdFails, Down, DownRefused, Up, UpRefused
<1>3. CASE Quit(k) \/ ConnectData(k) \/ ConnectFails(k) \/ SendList(k) \/
           SendListDenied(k) \/ SendBlock(k) \/ SendEnds(k)
    BY <1>3, SMT DEF Quit, ConnectData, ConnectFails, SendList, SendListDenied,
                    SendBlock, SendEnds
<1>4. CASE SendFails(k) \/ CreateFile(k) \/ CreateFails(k) \/ CreateAborts(k) \/
           RecvBlock(k) \/ RecvEnds(k) \/ RecvBroken(k)
    BY <1>4, SMT DEF SendFails, CreateFile, CreateFails, CreateAborts, RecvBlock,
                    RecvEnds, RecvBroken
<1> QED BY <1>1, <1>2, <1>3, <1>4, Zenon DEF ThreadStep

LEMMA PortStep ==
    ASSUME TypeInv, PortInTransferOnly, [Next]_vars
    PROVE  PortInTransferOnly'
<1>a. /\ proc \in [Client -> ProcState] /\ port \in [Host -> Client \cup {None}]
      /\ None \notin Client
    BY DistinctNone DEF TypeInv, TypeOK
\* A step after which only c is elsewhere, and c does not hold a port.
<1>b. ASSUME NEW c \in Client,
             \A q \in Client : q # c => proc'[q] = proc[q],
             \A h \in Host : port'[h] # None => port'[h] = port[h] /\ port'[h] # c
      PROVE  PortInTransferOnly'
    BY <1>a, <1>b DEF PortInTransferOnly
<1>c. ASSUME NEW c \in Client, NEW how, Gone(c, how) PROVE PortInTransferOnly'
  <2>1. \A q \in Client : q # c => proc'[q] = proc[q]
    BY <1>a, <1>c DEF Gone
  <2> QED BY <1>b, <1>c, <2>1, ClosePortFrees DEF Gone
<1>d. ASSUME NEW c \in Client, CloseTransfer(c) PROVE PortInTransferOnly'
  <2>1. \A q \in Client : q # c => proc'[q] = proc[q]
    BY <1>a, <1>d DEF CloseTransfer
  <2> QED BY <1>b, <1>d, <2>1, ClosePortFrees DEF CloseTransfer
\* A step that moves c from one place to another of the same command.
<1>e. ASSUME NEW c \in Client, UNCHANGED port,
             \A q \in Client : q # c => proc'[q] = proc[q],
             \/ /\ proc'[c].pc \in {"write", "reply", "accept", "get", "put"}
                /\ proc'[c].cmd = proc[c].cmd
             \/ proc[c].pc \notin {"write", "reply", "accept", "get", "put"}
      PROVE  PortInTransferOnly'
    BY <1>a, <1>e DEF PortInTransferOnly
<1>1. ASSUME NEW c \in Client, ClientStep(c) PROVE PortInTransferOnly'
  <2>1. CASE ReadHello(c)
    BY <2>1, <1>a, <1>e DEF ReadHello, Reads
  <2>2. CASE ReadFails(c) \/ WriteFails(c) \/ Leave(c) \/ ListFails(c)
    BY <2>2, <1>c DEF ReadFails, WriteFails, Leave, ListFails
  <2>3. CASE WriteCmd(c)
    <3>1. /\ proc' = [proc EXCEPT ![c].pc = IF proc[c].cmd.id = "LS" THEN "accept" ELSE "reply"]
          /\ UNCHANGED port
      BY <2>3 DEF WriteCmd
    <3> QED BY <3>1, <1>a, <1>e DEF ProcState
  <2>4. CASE Answered(c)
    <3>1. ClosePort(c, dat) /\ proc' = [proc EXCEPT ![c].pc = "ready", ![c].cmd = None]
      BY <2>4 DEF Answered
    <3>2. \A q \in Client : q # c => proc'[q] = proc[q]
      BY <3>1, <1>a
    <3> QED BY <1>b, <3>1, <3>2, ClosePortFrees
  <2>5. CASE Granted(c)
    BY <2>5, <1>a, <1>e DEF Granted, ProcState
  <2>6. CASE AcceptData(c)
    BY <2>6, <1>a, <1>e DEF AcceptData, ProcState
  <2>7. CASE Get(c)
    BY <2>7 DEF Get, PortInTransferOnly
  <2>8. CASE GetEnds(c) \/ PutEnds(c)
    BY <2>8, <1>d DEF GetEnds, PutEnds
  <2>9. CASE Put(c)
    BY <2>9, <1>a, <1>e DEF Put, ProcState
  <2> QED BY <1>1, <2>1, <2>2, <2>3, <2>4, <2>5, <2>6, <2>7, <2>8, <2>9 DEF ClientStep
<1>2. ASSUME NEW c \in Client, UserStep(c) PROVE PortInTransferOnly'
  <2>1. ASSUME NEW k \in Conn, Connect(c, k) PROVE PortInTransferOnly'
    BY <2>1, <1>a, <1>e DEF Connect
  <2>2. ASSUME NEW m \in Menu[c], Type(c, m) PROVE PortInTransferOnly'
    <3>1. /\ proc[c].pc = "ready" /\ UNCHANGED ctl
          /\ proc' = [proc EXCEPT ![c].pc = "write", ![c].cmd = m]
          /\ port' = IF m.id \in Transfer THEN [port EXCEPT ![HostOf[c]] = c] ELSE port
      BY <2>2 DEF Type
    <3>2. /\ \A q \in Client : q # c => proc'[q] = proc[q]
          /\ proc'[c].pc = "write" /\ proc'[c].cmd = m
      BY <3>1, <1>a DEF ProcState
    <3>3. CASE m.id \in Transfer
      <4>1. \A h \in Host : port'[h] = IF h = HostOf[c] THEN c ELSE port[h]
        BY <3>1, <3>3, <1>a
      <4>2. \A h \in Host : port[h] # c
        BY <3>1, <1>a DEF PortInTransferOnly
      <4> QED BY <3>2, <3>3, <4>1, <4>2, <1>a DEF PortInTransferOnly
    <3>4. CASE m.id \notin Transfer
      BY <3>1, <3>2, <3>4, <1>e
    <3> QED BY <3>3, <3>4
  <2>3. ASSUME NEW m \in Menu[c], BindFails(c, m) PROVE PortInTransferOnly'
    BY <2>3, <1>c DEF BindFails
  <2>4. CASE Kill(c)
    BY <2>4, <1>c DEF Kill
  <2> QED BY <1>2, <2>1, <2>2, <2>3, <2>4 DEF UserStep
<1>3. ASSUME NEW k \in Conn, ThreadStep(k) PROVE UNCHANGED <<proc, port>>
    BY <1>3, ThreadLeavesClients DEF clientVars
<1> QED BY <1>1, <1>2, <1>3 DEF Next, vars, PortInTransferOnly

\* The data port of a machine is held only by a client of that machine, and only while it
\* is in a transfer: list, get_file and put_file give it back on every way out.
THEOREM PortGivenBack == Spec => []PortInTransferOnly
<1>1. Init => PortInTransferOnly
    BY DEF Init, PortInTransferOnly
<1> QED BY TypeInit, TypeStep, PortStep, <1>1, PTL DEF Spec

-----------------------------------------------------------------------------
(* Each command is answered by its own answer.  The packets are not numbered, *)
(* so what makes it true is how many answers can be on their way: at most one, *)
(* and none at all when the client is not waiting.  A LIST has no answer, and  *)
(* a client may be past it, or past any transfer, before its thread is.        *)

\* Nothing but LISTs waits to be handled.
OnlyListing(q) == \A i \in 1 .. Len(q) : q[i].id = "LS"

\* Behind some LISTs there is one command that will be answered by `what'.
Awaits(q, what) == /\ q # <<>> /\ q[Len(q)].id = what
                   /\ \A i \in 1 .. Len(q) - 1 : q[i].id = "LS"

Owing == {"queued", "welcome", "cdtext"}     \* a thread between a request and its answer

Owes(pc, what) == \/ pc \in {"queued", "welcome"} /\ what = "HELLO"
                  \/ pc = "cdtext" /\ what = "CD"

\* No answer is on its way on k, or there yet.
Silent(k) == ctl[k].rsp = <<>> /\ thr[k].pc \notin Owing /\ OnlyListing(ctl[k].req)

\* The answer to `what', and no other, may be on its way on k, or there.
Coming(k, what) ==
    \/ Silent(k)
    \/ ctl[k].rsp = <<>> /\ thr[k].pc \notin Owing /\ Awaits(ctl[k].req, what)
    \/ ctl[k].rsp = <<>> /\ Owes(thr[k].pc, what) /\ ctl[k].req = <<>>
    \/ /\ Len(ctl[k].rsp) = 1 /\ ctl[k].rsp[1].to = what
       /\ thr[k].pc \notin Owing /\ ctl[k].req = <<>>

Wanted(c) == IF proc[c].pc = "hello" THEN "HELLO" ELSE proc[c].cmd.id

Talk(c) ==
    LET k == proc[c].conn IN
    proc[c].pc # "off" =>
      /\ k \in Conn /\ ctl[k].by = c
      /\ IF proc[c].pc \in {"hello", "reply"} THEN Coming(k, Wanted(c)) ELSE Silent(k)

TalkInv == \A c \in Client : Talk(c)

LEMMA TalkMeansMine == TypeInv /\ TalkInv => ReplyIsMine
<1> SUFFICES ASSUME TypeInv, TalkInv, NEW c \in Client, proc[c].pc # "off"
             PROVE  LET k == proc[c].conn IN
                    /\ proc[c].pc \notin {"hello", "reply"} => ctl[k].rsp = <<>>
                    /\ ctl[k].rsp # <<>> =>
                         /\ Len(ctl[k].rsp) = 1 /\ ctl[k].req = <<>>
                         /\ Head(ctl[k].rsp).to =
                              IF proc[c].pc = "hello" THEN "HELLO" ELSE proc[c].cmd.id
    BY DEF ReplyIsMine
<1> DEFINE k == proc[c].conn
<1>1. Talk(c) /\ k \in Conn /\ ctl[k].rsp \in Seq(Reply)
    BY DEF TalkInv, Talk, TypeInv, TypeOK, CtlState
<1>2. Head(ctl[k].rsp) = ctl[k].rsp[1] \/ ctl[k].rsp = <<>>
    BY <1>1
<1> QED BY <1>1, <1>2 DEF Talk, Coming, Silent, Wanted

\* What adding a command to a queue and taking one off it do to what is awaited.
LEMMA QueueAwaits ==
    ASSUME NEW q \in Seq(Command)
    PROVE  /\ OnlyListing(<<>>)
           /\ \A m \in Command : OnlyListing(q) =>
                /\ Awaits(Append(q, m), m.id)
                /\ m.id = "LS" => OnlyListing(Append(q, m))
           /\ q # <<>> => \A what :
                /\ OnlyListing(q) => Head(q).id = "LS" /\ OnlyListing(Tail(q))
                /\ Awaits(q, what) /\ Head(q).id = "LS" =>
                     OnlyListing(Tail(q)) \/ Awaits(Tail(q), what)
                /\ Awaits(q, what) /\ Head(q).id # "LS" => Tail(q) = <<>> /\ Head(q).id = what
<1>1. OnlyListing(<<>>)
    BY DEF OnlyListing
<1>2. ASSUME NEW m \in Command, OnlyListing(q)
      PROVE  /\ Awaits(Append(q, m), m.id)
             /\ m.id = "LS" => OnlyListing(Append(q, m))
  <2>1. /\ Len(Append(q, m)) = Len(q) + 1 /\ Append(q, m)[Len(q) + 1] = m
        /\ \A i \in 1 .. Len(q) : Append(q, m)[i] = q[i]
        /\ Append(q, m) # <<>> /\ Len(q) \in Nat
    OBVIOUS
  <2> QED BY <1>2, <2>1 DEF OnlyListing, Awaits
<1>3. ASSUME q # <<>>, NEW what
      PROVE  /\ OnlyListing(q) => Head(q).id = "LS" /\ OnlyListing(Tail(q))
             /\ Awaits(q, what) /\ Head(q).id = "LS" =>
                  OnlyListing(Tail(q)) \/ Awaits(Tail(q), what)
             /\ Awaits(q, what) /\ Head(q).id # "LS" => Tail(q) = <<>> /\ Head(q).id = what
  <2>a. /\ Len(q) \in Nat \ {0} /\ Head(q) = q[1] /\ Len(Tail(q)) = Len(q) - 1
        /\ Tail(q) \in Seq(Command)
    BY <1>3
  <2>b. \A i \in 1 .. Len(q) - 1 : Tail(q)[i] = q[i + 1]
    BY <1>3, <2>a
  <2>c. \A s \in Seq(Command) : Len(s) = 0 <=> s = <<>>
    OBVIOUS
  <2>d. Len(Tail(q)) = 0 <=> Tail(q) = <<>>
    BY <2>a, <2>c, Zenon
  <2>e. Len(q) = 1 <=> Len(Tail(q)) = 0
    BY <2>a
  <2>1. /\ Len(q) \in Nat \ {0} /\ Head(q) = q[1] /\ Len(Tail(q)) = Len(q) - 1
        /\ \A i \in 1 .. Len(q) - 1 : Tail(q)[i] = q[i + 1]
        /\ Len(q) = 1 => Tail(q) = <<>>
        /\ Len(q) # 1 => Tail(q) # <<>>
    BY <2>a, <2>b, <2>d, <2>e, Zenon
  <2>2. OnlyListing(q) => Head(q).id = "LS" /\ OnlyListing(Tail(q))
    BY <2>1 DEF OnlyListing
  <2>3. CASE Len(q) = 1
    BY <2>1, <2>2, <2>3, <1>1 DEF Awaits
  <2>4. CASE Len(q) # 1
    <3>1. Awaits(q, what) => q[1].id = "LS" /\ Awaits(Tail(q), what)
      BY <2>1, <2>4 DEF Awaits
    <3> QED BY <2>1, <2>2, <3>1
  <2> QED BY <2>3, <2>4
<1> QED BY <1>1, <1>2, <1>3

\* What a step of a thread may do to the talk on q.
TalkKept(q) == /\ ctl'[q].by = ctl[q].by
               /\ Silent(q) => Silent(q)'
               /\ \A what : Coming(q, what) => Coming(q, what)'

\* Steps that neither take a command nor send an answer.
LEMMA QuietStep ==
    ASSUME NEW q \in Conn,
           ctl'[q].by = ctl[q].by, ctl'[q].req = ctl[q].req, ctl'[q].rsp = ctl[q].rsp,
           \/ thr'[q].pc = thr[q].pc
           \/ thr'[q].pc \notin Owing
           \/ thr[q].pc = "queued" /\ thr'[q].pc = "welcome"
    PROVE  TalkKept(q)
<1>1. Silent(q) => Silent(q)'
    BY DEF Silent, Owing
<1>2. ASSUME NEW what, Coming(q, what) PROVE Coming(q, what)'
  <2>1. CASE Silent(q)
    BY <1>1, <2>1 DEF Coming
  <2>2. CASE ctl[q].rsp = <<>> /\ thr[q].pc \notin Owing /\ Awaits(ctl[q].req, what)
    BY <2>2 DEF Coming, Owing
  <2>3. CASE ctl[q].rsp = <<>> /\ Owes(thr[q].pc, what) /\ ctl[q].req = <<>>
    <3>1. OnlyListing(ctl[q].req)
      BY <2>3 DEF OnlyListing
    <3>2. thr'[q].pc \in Owing => Owes(thr'[q].pc, what)
      BY <2>3 DEF Owes, Owing
    <3> QED BY <2>3, <3>1, <3>2 DEF Coming, Silent
  <2>4. CASE /\ Len(ctl[q].rsp) = 1 /\ ctl[q].rsp[1].to = what
             /\ thr[q].pc \notin Owing /\ ctl[q].req = <<>>
    BY <2>4 DEF Coming, Owing
  <2> QED BY <1>2, <2>1, <2>2, <2>3, <2>4 DEF Coming
<1> QED BY <1>1, <1>2 DEF TalkKept

\* A command with an answer is taken and, unless the client has gone, answered.
LEMMA AnswerStep ==
    ASSUME NEW k \in Conn, ctl[k].req \in Seq(Command), ctl[k].rsp \in Seq(Reply),
           ctl[k].req # <<>>, Head(ctl[k].req).id # "LS", NEW r,
           r.to = Head(ctl[k].req).id,
           ctl'[k].by = ctl[k].by, ctl'[k].req = Tail(ctl[k].req),
           ctl'[k].rsp \in {ctl[k].rsp, Append(ctl[k].rsp, r)},
           thr[k].pc \notin Owing, thr'[k].pc \notin Owing
    PROVE  TalkKept(k)
<1>1. ~ Silent(k)
    BY QueueAwaits DEF Silent
<1>2. ASSUME NEW what, Coming(k, what) PROVE Coming(k, what)'
  <2>1. ctl[k].rsp = <<>> /\ Awaits(ctl[k].req, what)
    BY <1>1, <1>2 DEF Coming
  <2>2. Tail(ctl[k].req) = <<>> /\ Head(ctl[k].req).id = what
    BY <2>1, QueueAwaits
  <2>3. CASE ctl'[k].rsp = ctl[k].rsp
    BY <2>1, <2>2, <2>3, QueueAwaits DEF Coming, Silent
  <2>4. CASE ctl'[k].rsp = Append(ctl[k].rsp, r)
    <3>1. ctl'[k].rsp = <<r>>
      BY <2>1, <2>4
    <3>2. Len(ctl'[k].rsp) = 1 /\ ctl'[k].rsp[1] = r
      BY <3>1
    <3> QED BY <2>2, <3>2 DEF Coming
  <2> QED BY <2>3, <2>4
<1> QED BY <1>1, <1>2 DEF TalkKept

\* The thread sends the answer that it owed.
LEMMA OwedStep ==
    ASSUME NEW k \in Conn, NEW r, Owes(thr[k].pc, r.to), ctl[k].rsp \in Seq(Reply),
           ctl'[k].by = ctl[k].by, ctl'[k].req = ctl[k].req,
           ctl'[k].rsp \in {ctl[k].rsp, Append(ctl[k].rsp, r)},
           thr'[k].pc \notin Owing
    PROVE  TalkKept(k)
<1>1. thr[k].pc \in Owing
    BY DEF Owes, Owing
<1>2. ~ Silent(k)
    BY <1>1 DEF Silent
<1>3. ASSUME NEW what, Coming(k, what) PROVE Coming(k, what)'
  <2>1. ctl[k].rsp = <<>> /\ ctl[k].req = <<>> /\ Owes(thr[k].pc, what)
    BY <1>1, <1>2, <1>3 DEF Coming
  <2>2. what = r.to
    BY <2>1 DEF Owes
  <2>3. CASE ctl'[k].rsp = ctl[k].rsp
    BY <2>1, <2>3 DEF Coming, Silent, OnlyListing
  <2>4. CASE ctl'[k].rsp = Append(ctl[k].rsp, r)
    <3>1. ctl'[k].rsp = <<r>>
      BY <2>1, <2>4
    <3>2. Len(ctl'[k].rsp) = 1 /\ ctl'[k].rsp[1] = r
      BY <3>1
    <3> QED BY <2>1, <2>2, <3>2 DEF Coming
  <2> QED BY <2>3, <2>4
<1> QED BY <1>2, <1>3 DEF TalkKept

\* No step of the server puts an answer where none is awaited, on any connection.
LEMMA ThreadTalks ==
    ASSUME TypeInv, NEW k \in Conn, ThreadStep(k), NEW q \in Conn
    PROVE  TalkKept(q)
<1>a. /\ ctl \in [Conn -> CtlState] /\ thr \in [Conn -> ThrState]
      /\ ctl[k] \in CtlState /\ ctl[k].req \in Seq(Command) /\ ctl[k].rsp \in Seq(Reply)
    BY DEF TypeInv, TypeOK, CtlState
<1>b. /\ [NoThread EXCEPT !.pc = "recv"].pc = "recv"
      /\ \A f : [NoThread EXCEPT !.pc = "end", !.file = f].pc = "end"
      /\ [NoThread EXCEPT !.pc = "end"].pc = "end"
      /\ "recv" \notin Owing /\ "end" \notin Owing
    BY DEF NoThread, Owing
\* The thread may go on to another place, and the connection stays as it is.
<1>c. ASSUME ctl' = ctl, \A p \in Conn : p # k => thr'[p] = thr[p],
             \/ thr'[k].pc \notin Owing
             \/ thr[k].pc = "queued" /\ thr'[k].pc = "welcome"
      PROVE  TalkKept(q)
    BY <1>c, QuietStep
<1>d. ASSUME NEW f, EndThread(k, f) PROVE TalkKept(q)
  <2>1. /\ thr'[q].pc = thr[q].pc \/ thr'[q].pc \notin Owing
        /\ ctl'[q].by = ctl[q].by /\ ctl'[q].req = ctl[q].req /\ ctl'[q].rsp = ctl[q].rsp
    BY <1>a, <1>b, <1>d DEF EndThread, CtlState
  <2> QED BY <2>1, QuietStep
<1>e. ASSUME NextCommand(k), UNCHANGED ctl PROVE TalkKept(q)
  <2>1. (\A p \in Conn : p # k => thr'[p] = thr[p]) /\ thr'[k].pc \notin Owing
    BY <1>a, <1>b, <1>e DEF NextCommand
  <2> QED BY <1>c, <1>e, <2>1
\* What a response leaves of the state x of the connections.
<1>f. ASSUME NEW x \in [Conn -> CtlState], NEW to, NEW id, NEW text
      PROVE  LET y == SendRspns(x, k, to, id, text)
                 r == [to |-> to, id |-> id, text |-> text]
             IN /\ \A p \in Conn : p # k => y[p] = x[p]
                /\ y[k].by = x[k].by /\ y[k].req = x[k].req
                /\ y[k].rsp \in {x[k].rsp, Append(x[k].rsp, r)}
    BY <1>f DEF SendRspns, CtlState
<1>g. ctl[k].req # <<>> =>
        /\ Taken(k) \in [Conn -> CtlState]
        /\ \A p \in Conn : p # k => Taken(k)[p] = ctl[p]
        /\ Taken(k)[k].by = ctl[k].by /\ Taken(k)[k].req = Tail(ctl[k].req)
        /\ Taken(k)[k].rsp = ctl[k].rsp
    BY <1>a, TakenTypes DEF Taken, CtlState
\* A command is handled by a response; the thread is not between the two.
<1>h. ASSUME NEW what, Received(k, what), what # "LS", NEW id, NEW text, NEW y,
             y = SendRspns(Taken(k), k, what, id, text),
             \A p \in Conn : p # k => ctl'[p] = y[p] /\ thr'[p] = thr[p],
             ctl'[k].by = y[k].by, ctl'[k].req = y[k].req, ctl'[k].rsp = y[k].rsp,
             thr'[k].pc \notin Owing
      PROVE  TalkKept(q)
  <2> DEFINE r == [to |-> what, id |-> id, text |-> text]
  <2>1. /\ ctl[k].req # <<>> /\ Head(ctl[k].req).id = what /\ thr[k].pc \notin Owing
        /\ r.to = what
    BY <1>h DEF Received, Owing
  <2>2. /\ \A p \in Conn : p # k => y[p] = Taken(k)[p]
        /\ y[k].by = Taken(k)[k].by /\ y[k].req = Taken(k)[k].req
        /\ y[k].rsp \in {Taken(k)[k].rsp, Append(Taken(k)[k].rsp, r)}
    BY <1>f, <1>g, <1>h, <2>1
  <2> HIDE DEF r
  <2>3. CASE q = k
    <3>1. ctl'[k].rsp \in {ctl[k].rsp, Append(ctl[k].rsp, r)}
      BY <1>g, <1>h, <2>1, <2>2
    <3>2. ctl'[k].by = ctl[k].by /\ ctl'[k].req = Tail(ctl[k].req)
      BY <1>g, <1>h, <2>1, <2>2
    <3> QED BY <1>a, <1>h, <2>1, <2>3, <3>1, <3>2, AnswerStep
  <2>4. CASE q # k
    <3>1. ctl'[q] = ctl[q] /\ thr'[q] = thr[q]
      BY <1>g, <1>h, <2>1, <2>2, <2>4
    <3> QED BY <3>1, QuietStep
  <2> QED BY <2>3, <2>4
\* A response that was owed is sent, and the thread is at RecvCmd again.
<1>i. ASSUME NEW what, Owes(thr[k].pc, what), NEW id, NEW text,
             ctl' = SendRspns(ctl, k, what, id, text),
             \A p \in Conn : p # k => thr'[p] = thr[p], thr'[k].pc \notin Owing
      PROVE  TalkKept(q)
  <2> DEFINE r == [to |-> what, id |-> id, text |-> text]
  <2>1. /\ \A p \in Conn : p # k => ctl'[p] = ctl[p]
        /\ ctl'[k].by = ctl[k].by /\ ctl'[k].req = ctl[k].req
        /\ ctl'[k].rsp \in {ctl[k].rsp, Append(ctl[k].rsp, r)}
    BY <1>a, <1>f, <1>i
  <2>2. r.to = what
    OBVIOUS
  <2> HIDE DEF r
  <2>3. CASE q = k
    BY <1>a, <1>i, <2>1, <2>2, <2>3, OwedStep
  <2>4. CASE q # k
    BY <1>i, <2>1, <2>4, QuietStep
  <2> QED BY <2>3, <2>4
<1>1. CASE AcceptCtl(k)
  <2>1. /\ thr[k].pc = "queued" /\ thr'[k].pc = "welcome" /\ ctl' = ctl
        /\ \A p \in Conn : p # k => thr'[p] = thr[p]
    BY <1>1, <1>a DEF AcceptCtl, ThrState
  <2> QED BY <1>c, <2>1
<1>2. CASE NoThreadForIt(k) \/ RecvFails(k) \/ ReplyFails(k) \/ ConnectFails(k)
           \/ SendListDenied(k) \/ SendFails(k) \/ CreateFails(k) \/ RecvBroken(k)
    BY <1>2, <1>d DEF NoThreadForIt, RecvFails, ReplyFails, ConnectFails, SendListDenied,
                      SendFails, CreateFails, RecvBroken
<1>3. CASE SendList(k) \/ SendEnds(k) \/ RecvEnds(k)
    BY <1>3, <1>e DEF SendList, SendEnds, RecvEnds
<1>4. CASE Welcome(k)
  <2>1. /\ Owes(thr[k].pc, "HELLO") /\ ctl' = SendRspns(ctl, k, "HELLO", "OK", None)
        /\ thr'[k].pc = "recv" /\ \A p \in Conn : p # k => thr'[p] = thr[p]
    BY <1>4, <1>a DEF Welcome, Owes, ThrState
  <2> QED BY <1>b, <1>i, <2>1
<1>5. CASE CdText(k)
  <2>1. /\ Owes(thr[k].pc, "CD") /\ ctl' = SendRspns(ctl, k, "CD", "OK", cwd)
        /\ thr'[k].pc = "recv" /\ \A p \in Conn : p # k => thr'[p] = thr[p]
    BY <1>5, <1>a DEF CdText, Owes, ThrState
  <2> QED BY <1>b, <1>i, <2>1
<1>6. CASE Ls(k)
  <2>1. /\ ctl[k].req # <<>> /\ Head(ctl[k].req).id = "LS" /\ thr[k].pc \notin Owing
        /\ ctl' = Taken(k) /\ thr'[k].pc = "connect"
        /\ \A p \in Conn : p # k => thr'[p] = thr[p]
    BY <1>6, <1>a DEF Ls, Received, Owing, ThrState
  <2>2. CASE q # k
    BY <1>g, <2>1, <2>2, QuietStep
  <2>3. CASE q = k
    <3>1. /\ ctl'[k].by = ctl[k].by /\ ctl'[k].req = Tail(ctl[k].req)
          /\ ctl'[k].rsp = ctl[k].rsp /\ thr'[k].pc \notin Owing
      BY <1>g, <2>1 DEF Owing
    <3>2. Silent(k) => Silent(k)'
      BY <1>a, <2>1, <3>1, QueueAwaits DEF Silent
    <3>3. ASSUME NEW what, Coming(k, what) PROVE Coming(k, what)'
      <4>1. CASE Silent(k)
        BY <3>2, <4>1 DEF Coming
      <4>2. CASE ~ Silent(k)
        <5>1. ctl[k].rsp = <<>> /\ Awaits(ctl[k].req, what)
          BY <2>1, <3>3, <4>2 DEF Coming, Owes, Owing
        <5>2. OnlyListing(Tail(ctl[k].req)) \/ Awaits(Tail(ctl[k].req), what)
          BY <1>a, <2>1, <5>1, QueueAwaits
        <5> QED BY <3>1, <5>1, <5>2 DEF Coming, Silent
      <4> QED BY <4>1, <4>2
    <3> QED BY <2>3, <3>1, <3>2, <3>3 DEF TalkKept
  <2> QED BY <2>2, <2>3
<1>7. CASE Cd(k)
  <2>1. /\ ctl[k].req # <<>> /\ Head(ctl[k].req).id = "CD" /\ thr[k].pc \notin Owing
        /\ ctl' = Taken(k) /\ thr'[k].pc = "cdtext"
        /\ \A p \in Conn : p # k => thr'[p] = thr[p]
    BY <1>7, <1>a DEF Cd, Received, Owing, ThrState
  <2>2. CASE q # k
    BY <1>g, <2>1, <2>2, QuietStep
  <2>3. CASE q = k
    <3>1. ~ Silent(k)
      BY <1>a, <2>1, QueueAwaits DEF Silent
    <3>2. ASSUME NEW what, Coming(k, what) PROVE Coming(k, what)'
      <4>1. ctl[k].rsp = <<>> /\ Awaits(ctl[k].req, what)
        BY <2>1, <3>1, <3>2 DEF Coming, Owes, Owing
      <4>2. Tail(ctl[k].req) = <<>> /\ what = "CD"
        BY <1>a, <2>1, <4>1, QueueAwaits
      <4> QED BY <1>g, <2>1, <4>1, <4>2 DEF Coming, Owes
    <3> QED BY <1>g, <2>1, <2>3, <3>1, <3>2 DEF TalkKept
  <2> QED BY <2>2, <2>3
<1>8. CASE Pwd(k)
  <2>1. /\ Received(k, "PWD") /\ ctl' = SendRspns(Taken(k), k, "PWD", "OK", cwd)
        /\ thr' = thr /\ thr[k].pc \notin Owing
    BY <1>8 DEF Pwd, Received, Owing, serverVars
  <2> QED BY <1>h, <2>1
<1>9. CASE CdFails(k)
  <2>1. PICK id \in {"OK", "ERR"} : ctl' = SendRspns(Taken(k), k, "CD", id, None)
    BY <1>9 DEF CdFails
  <2>2. Received(k, "CD") /\ thr' = thr /\ thr[k].pc \notin Owing
    BY <1>9 DEF CdFails, Received, Owing, serverVars
  <2> QED BY <1>h, <2>1, <2>2
<1>10. CASE DownRefused(k)
  <2>1. /\ Received(k, "DOWN") /\ ctl' = SendRspns(Taken(k), k, "DOWN", "ERR", None)
        /\ thr' = thr /\ thr[k].pc \notin Owing
    BY <1>10 DEF DownRefused, Received, Owing, serverVars
  <2> QED BY <1>h, <2>1
<1>11. CASE UpRefused(k)
  <2>1. /\ Received(k, "UP") /\ ctl' = SendRspns(Taken(k), k, "UP", "ERR", None)
        /\ thr' = thr /\ thr[k].pc \notin Owing
    BY <1>11 DEF UpRefused, Received, Owing, serverVars
  <2> QED BY <1>h, <2>1
<1>12. CASE Down(k)
  <2>1. /\ Received(k, "DOWN") /\ ctl' = SendRspns(Taken(k), k, "DOWN", "OK", None)
        /\ thr'[k].pc = "connect" /\ \A p \in Conn : p # k => thr'[p] = thr[p]
    BY <1>12, <1>a DEF Down, ThrState
  <2>2. thr'[k].pc \notin Owing
    BY <2>1 DEF Owing
  <2> QED BY <1>h, <2>1, <2>2
<1>13. CASE Up(k)
  <2>1. /\ Received(k, "UP") /\ ctl' = SendRspns(Taken(k), k, "UP", "OK", None)
        /\ thr'[k].pc = "connect" /\ \A p \in Conn : p # k => thr'[p] = thr[p]
    BY <1>13, <1>a DEF Up, ThrState
  <2>2. thr'[k].pc \notin Owing
    BY <2>1 DEF Owing
  <2> QED BY <1>h, <2>1, <2>2
<1>14. CASE Quit(k)
  <2> DEFINE y == SendRspns(Taken(k), k, "QUIT", "OK", None)
  <2>1. /\ Received(k, "QUIT") /\ ctl[k].req # <<>> /\ ctl' = [y EXCEPT ![k].srv = "closed"]
        /\ thr'[k].pc = "end" /\ \A p \in Conn : p # k => thr'[p] = thr[p]
    BY <1>14, <1>a, <1>b DEF Quit, Received
  <2>2. y \in [Conn -> CtlState]
    BY <1>g, <2>1, SendsTypes
  <2>3. y = SendRspns(Taken(k), k, "QUIT", "OK", None)
    OBVIOUS
  <2> HIDE DEF y
  <2>4. /\ \A p \in Conn : p # k => ctl'[p] = y[p]
        /\ ctl'[k].by = y[k].by /\ ctl'[k].req = y[k].req /\ ctl'[k].rsp = y[k].rsp
    BY <2>1, <2>2 DEF CtlState
  <2> QED BY <1>b, <1>h, <2>1, <2>3, <2>4
<1>15. CASE ConnectData(k)
  <2>1. /\ thr'[k].pc \in {"list", "send", "create"} /\ UNCHANGED ctl
        /\ \A p \in Conn : p # k => thr'[p] = thr[p]
    BY <1>15, <1>a DEF ConnectData, ThrState, TypeInv, Shape, ThreadShape, Transfer
  <2> QED BY <1>c, <2>1 DEF Owing
<1>16. CASE SendBlock(k) \/ CreateFile(k) \/ RecvBlock(k)
  <2>1. /\ thr'[k].pc \in {"send", "store"} /\ UNCHANGED ctl
        /\ \A p \in Conn : p # k => thr'[p] = thr[p]
    BY <1>16, <1>a DEF SendBlock, CreateFile, RecvBlock, ThrState
  <2> QED BY <1>c, <2>1 DEF Owing
<1>17. CASE CreateAborts(k)
  <2>1. \A p \in Conn : thr'[p].pc = thr[p].pc \/ thr'[p].pc = "end"
    BY <1>17, <1>b DEF CreateAborts
  <2>2. \A p \in Conn : /\ ctl'[p].by = ctl[p].by /\ ctl'[p].req = ctl[p].req
                        /\ ctl'[p].rsp = ctl[p].rsp
    BY <1>17, <1>a DEF CreateAborts, Aborted, CtlState
  <2> QED BY <1>b, <2>1, <2>2, QuietStep
<1>18. \/ AcceptCtl(k) \/ Welcome(k) \/ Ls(k) \/ Cd(k) \/ CdText(k) \/ Down(k) \/ Up(k)
       \/ ConnectData(k) \/ CreateAborts(k) \/ Quit(k)
       \/ SendBlock(k) \/ CreateFile(k) \/ RecvBlock(k)
       \/ Pwd(k) \/ CdFails(k) \/ DownRefused(k) \/ UpRefused(k)
       \/ SendList(k) \/ SendEnds(k) \/ RecvEnds(k)
       \/ NoThreadForIt(k) \/ RecvFails(k) \/ ReplyFails(k) \/ ConnectFails(k)
       \/ SendListDenied(k) \/ SendFails(k) \/ CreateFails(k) \/ RecvBroken(k)
    BY Zenon DEF ThreadStep
<1> QED
    BY <1>1, <1>2, <1>3, <1>4, <1>5, <1>6, <1>7, <1>8, <1>9, <1>10, <1>11, <1>12, <1>13,
       <1>14, <1>15, <1>16, <1>17, <1>18

\* A client whose process and connection do not change, and their thread.
LEMMA TalkFrame ==
    ASSUME NEW q \in Client, NEW p \in Conn, p = proc[q].conn, Talk(q),
           proc'[q] = proc[q], ctl'[p] = ctl[p], thr'[p] = thr[p]
    PROVE  Talk(q)'
<1>1. (Silent(p) => Silent(p)') /\ \A what : Coming(p, what) => Coming(p, what)'
    BY QuietStep DEF TalkKept
<1>2. Wanted(q)' = Wanted(q) /\ proc'[q].conn = p
    BY DEF Wanted
<1> QED BY <1>1, <1>2 DEF Talk

\* No step of a client leaves an answer behind, or asks before it has the last one.
LEMMA ClientTalks ==
    ASSUME TypeInv, TalkInv, NEW c \in Client, ClientStep(c) \/ UserStep(c)
    PROVE  TalkInv'
<1>0. PICK k : k = proc[c].conn
    OBVIOUS
<1>a. /\ proc \in [Client -> ProcState] /\ ctl \in [Conn -> CtlState]
      /\ thr \in [Conn -> ThrState] /\ ClientShape(c) /\ None \notin Client
    BY DistinctNone DEF TypeInv, TypeOK, Shape
<1>b. proc[c].pc # "off" =>
        /\ k \in Conn /\ ctl[k].by = c /\ ctl[k].req \in Seq(Command) /\ ctl[k].rsp \in Seq(Reply)
        /\ IF proc[c].pc \in {"hello", "reply"} THEN Coming(k, Wanted(c)) ELSE Silent(k)
    BY <1>0, <1>a DEF TalkInv, Talk, CtlState
\* Only c and its own connection change.
<1>c. ASSUME proc[c].pc # "off", \A q \in Client : q # c => proc'[q] = proc[q],
             \A p \in Conn : p # k => ctl'[p] = ctl[p],
             UNCHANGED thr, Talk(c)'
      PROVE  TalkInv'
  <2>1. ASSUME NEW q \in Client, q # c PROVE Talk(q)'
    <3>1. CASE proc[q].pc = "off"
      BY <1>c, <2>1, <3>1 DEF Talk
    <3>2. CASE proc[q].pc # "off"
      <4>0. PICK p : p = proc[q].conn
        OBVIOUS
      <4>1. p \in Conn /\ ctl[p].by = q /\ Talk(q)
        BY <3>2, <4>0 DEF TalkInv, Talk
      <4>2. p # k
        BY <1>b, <1>c, <2>1, <4>1
      <4>3. ctl'[p] = ctl[p] /\ thr'[p] = thr[p] /\ proc'[q] = proc[q]
        BY <1>c, <2>1, <4>1, <4>2
      <4> QED BY <4>0, <4>1, <4>3, TalkFrame
    <3> QED BY <3>1, <3>2
  <2> QED BY <1>c, <2>1 DEF TalkInv
<1>d. ASSUME NEW how, Gone(c, how), proc[c].pc # "off", UNCHANGED serverVars PROVE TalkInv'
  <2>1. /\ \A q \in Client : q # c => proc'[q] = proc[q]
        /\ proc'[c].pc = "off" /\ \A p \in Conn : p # k => ctl'[p] = ctl[p]
    BY <1>0, <1>a, <1>d DEF Gone, NoProc
  <2>2. Talk(c)'
    BY <2>1 DEF Talk
  <2> QED BY <1>c, <1>d, <2>1, <2>2 DEF serverVars
\* A step of a client that was not waiting, and is not after it, says nothing.
<1>e. ASSUME UNCHANGED <<ctl, thr>>, \A q \in Client : q # c => proc'[q] = proc[q],
             proc[c].pc \notin {"off", "hello", "reply"},
             proc'[c].pc \notin {"hello", "reply"}, proc'[c].conn = k
      PROVE  TalkInv'
  <2>1. Silent(k) /\ k \in Conn /\ ctl[k].by = c
    BY <1>b, <1>e
  <2>2. Silent(k)'
    BY <1>e, <2>1 DEF Silent
  <2>3. Talk(c)'
    BY <1>e, <2>1, <2>2 DEF Talk
  <2> QED BY <1>c, <1>e, <2>3
\* A client reads the answer: nothing else is coming.
<1>f. ASSUME NEW pc \in {"hello", "reply"}, NEW r, Reads(c, pc, r), UNCHANGED thr,
             \A q \in Client : q # c => proc'[q] = proc[q],
             proc'[c].pc \notin {"hello", "reply"}, proc'[c].conn = k
      PROVE  TalkInv'
  <2>1. /\ proc[c].pc = pc /\ ctl[k].rsp # <<>>
        /\ ctl' = [ctl EXCEPT ![k].rsp = Tail(ctl[k].rsp)]
    BY <1>0, <1>f DEF Reads
  <2>2. k \in Conn /\ ctl[k].by = c /\ Coming(k, Wanted(c)) /\ ctl[k].rsp \in Seq(Reply)
    BY <1>b, <1>f, <2>1
  <2>3. Len(ctl[k].rsp) = 1 /\ thr[k].pc \notin Owing /\ ctl[k].req = <<>>
    BY <2>1, <2>2 DEF Coming, Silent
  <2>4. /\ \A p \in Conn : p # k => ctl'[p] = ctl[p]
        /\ ctl'[k].by = ctl[k].by /\ ctl'[k].req = ctl[k].req
        /\ ctl'[k].rsp = Tail(ctl[k].rsp)
    BY <1>a, <2>1, <2>2 DEF CtlState
  <2>5. Tail(ctl[k].rsp) = <<>>
    <3>1. Tail(ctl[k].rsp) \in Seq(Reply) /\ Len(Tail(ctl[k].rsp)) = 0
      BY <2>1, <2>2, <2>3
    <3>2. \A s \in Seq(Reply) : Len(s) = 0 => s = <<>>
      OBVIOUS
    <3> QED BY <3>1, <3>2, Zenon
  <2>6. Silent(k)'
    BY <1>f, <2>3, <2>4, <2>5 DEF Silent, OnlyListing
  <2>7. Talk(c)'
    BY <1>f, <2>2, <2>4, <2>6 DEF Talk
  <2> QED BY <1>c, <1>f, <2>1, <2>4, <2>7
<1>1. CASE ReadHello(c)
  <2>1. PICK r \in Reply : Reads(c, "hello", r)
    BY <1>1 DEF ReadHello
  <2>2. /\ \A q \in Client : q # c => proc'[q] = proc[q]
        /\ proc'[c].pc = "ready" /\ proc'[c].conn = k /\ UNCHANGED thr
    BY <1>0, <1>1, <1>a DEF ReadHello, ProcState, serverVars
  <2> QED BY <1>f, <2>1, <2>2
<1>2. CASE ReadFails(c) \/ WriteFails(c) \/ Leave(c) \/ ListFails(c) \/ Kill(c)
    BY <1>2, <1>d DEF ReadFails, WriteFails, Leave, ListFails, Kill
<1>3. CASE WriteCmd(c)
  <2>0. PICK m : m = proc[c].cmd
    OBVIOUS
  <2>1. /\ m \in Command /\ proc[c].pc = "write" /\ UNCHANGED thr
        /\ \A q \in Client : q # c => proc'[q] = proc[q]
        /\ proc'[c].pc = (IF m.id = "LS" THEN "accept" ELSE "reply")
        /\ proc'[c].conn = k /\ proc'[c].cmd = m
    BY <1>0, <1>3, <1>a, <2>0 DEF WriteCmd, ClientShape, ProcState, serverVars
  <2>2. Silent(k) /\ k \in Conn /\ ctl[k].by = c /\ ctl[k].req \in Seq(Command)
    BY <1>b, <2>1
  <2>3. /\ \A p \in Conn : p # k => ctl'[p] = ctl[p]
        /\ ctl'[k].by = c /\ ctl'[k].rsp = ctl[k].rsp
        /\ ctl'[k].req \in {ctl[k].req, Append(ctl[k].req, m)}
    BY <1>0, <1>3, <1>a, <2>0, <2>2 DEF WriteCmd, CtlState
  <2>4. /\ Awaits(Append(ctl[k].req, m), m.id)
        /\ m.id = "LS" => OnlyListing(Append(ctl[k].req, m))
    BY <2>1, <2>2, QueueAwaits DEF Silent
  <2>5. IF m.id = "LS" THEN Silent(k)' ELSE Coming(k, m.id)'
    BY <1>0, <2>1, <2>2, <2>3, <2>4 DEF Silent, Coming
  <2>6. m.id # "LS" => Wanted(c)' = m.id
    BY <2>1 DEF Wanted
  <2>7. Talk(c)'
    BY <2>1, <2>2, <2>3, <2>5, <2>6 DEF Talk
  <2> QED BY <1>c, <2>1, <2>3, <2>7
<1>4. CASE Answered(c)
  <2>1. PICK r \in Reply : Reads(c, "reply", r)
    BY <1>4 DEF Answered
  <2>2. /\ \A q \in Client : q # c => proc'[q] = proc[q]
        /\ proc'[c].pc = "ready" /\ proc'[c].conn = k /\ UNCHANGED thr
    BY <1>0, <1>4, <1>a DEF Answered, ProcState, serverVars
  <2> QED BY <1>f, <2>1, <2>2
<1>5. CASE Granted(c)
  <2>1. PICK r \in Reply : Reads(c, "reply", r)
    BY <1>5 DEF Granted
  <2>2. /\ \A q \in Client : q # c => proc'[q] = proc[q]
        /\ proc'[c].pc = "accept" /\ proc'[c].conn = k /\ UNCHANGED thr
    BY <1>0, <1>5, <1>a DEF Granted, ProcState, serverVars
  <2> QED BY <1>f, <2>1, <2>2
<1>6. CASE AcceptData(c)
  <2>1. /\ proc[c].pc = "accept" /\ proc'[c].pc \in {"put", "get"} /\ proc'[c].conn = k
        /\ UNCHANGED <<ctl, thr>> /\ \A q \in Client : q # c => proc'[q] = proc[q]
    BY <1>0, <1>6, <1>a DEF AcceptData, ProcState, serverVars
  <2> QED BY <1>e, <2>1
<1>7. CASE Get(c)
    BY <1>0, <1>7, <1>e DEF Get, serverVars
<1>8. CASE GetEnds(c) \/ PutEnds(c)
  <2>1. CloseTransfer(c) /\ proc[c].pc \in {"get", "put"}
    BY <1>8 DEF GetEnds, PutEnds
  <2>2. /\ proc'[c].pc = "ready" /\ proc'[c].conn = k
        /\ UNCHANGED <<ctl, thr>> /\ \A q \in Client : q # c => proc'[q] = proc[q]
    BY <1>0, <1>a, <2>1 DEF CloseTransfer, ProcState, serverVars
  <2> QED BY <1>e, <2>1, <2>2
<1>9. CASE Put(c)
  <2>1. /\ proc[c].pc = "put" /\ proc'[c].pc = "put" /\ proc'[c].conn = k
        /\ UNCHANGED <<ctl, thr>> /\ \A q \in Client : q # c => proc'[q] = proc[q]
    BY <1>0, <1>9, <1>a DEF Put, ProcState, serverVars
  <2> QED BY <1>e, <2>1
<1>10. ASSUME NEW n \in Conn, Connect(c, n) PROVE TalkInv'
  <2>1. /\ ctl[n].by = None /\ \A q \in Client : q # c => proc'[q] = proc[q]
        /\ proc'[c].pc = "hello" /\ proc'[c].conn = n
        /\ \A p \in Conn : p # n => ctl'[p] = ctl[p] /\ thr'[p] = thr[p]
        /\ ctl'[n].by = c /\ ctl'[n].req = <<>> /\ ctl'[n].rsp = <<>>
        /\ thr'[n].pc = "queued"
    BY <1>10, <1>a DEF Connect, NoProc, NoCtl, ThrState
  <2>2. Talk(c)'
    BY <2>1 DEF Talk, Coming, Owes, Wanted
  <2>3. ASSUME NEW q \in Client, q # c PROVE Talk(q)'
    <3>1. CASE proc[q].pc = "off"
      BY <2>1, <2>3, <3>1 DEF Talk
    <3>2. CASE proc[q].pc # "off"
      <4>0. PICK p : p = proc[q].conn
        OBVIOUS
      <4>1. p \in Conn /\ ctl[p].by = q /\ Talk(q)
        BY <3>2, <4>0 DEF TalkInv, Talk
      <4>2. p # n
        BY <1>a, <2>1, <4>1
      <4>3. ctl'[p] = ctl[p] /\ thr'[p] = thr[p] /\ proc'[q] = proc[q]
        BY <2>1, <2>3, <4>1, <4>2
      <4> QED BY <4>0, <4>1, <4>3, TalkFrame
    <3> QED BY <3>1, <3>2
  <2> QED BY <2>2, <2>3 DEF TalkInv
<1>11. ASSUME NEW m \in Menu[c], Type(c, m) PROVE TalkInv'
  <2>1. /\ proc[c].pc = "ready" /\ proc'[c].pc = "write" /\ proc'[c].conn = k
        /\ UNCHANGED <<ctl, thr>> /\ \A q \in Client : q # c => proc'[q] = proc[q]
    BY <1>0, <1>11, <1>a DEF Type, ProcState, serverVars
  <2> QED BY <1>e, <2>1
<1>12. ASSUME NEW m \in Menu[c], BindFails(c, m) PROVE TalkInv'
    BY <1>12, <1>d DEF BindFails
<1> QED
    BY <1>1, <1>2, <1>3, <1>4, <1>5, <1>6, <1>7, <1>8, <1>9, <1>10, <1>11, <1>12
    DEF ClientStep, UserStep

LEMMA TalkStep ==
    ASSUME TypeInv, TalkInv, [Next]_vars
    PROVE  TalkInv'
<1>1. CASE UNCHANGED vars
    BY <1>1 DEF vars, TalkInv, Talk, Coming, Silent, Wanted
<1>2. ASSUME NEW k \in Conn, ThreadStep(k) PROVE TalkInv'
  <2> SUFFICES ASSUME NEW c \in Client, proc[c].pc # "off" PROVE Talk(c)'
    BY <1>2, ThreadLeavesClients DEF TalkInv, Talk, clientVars
  <2> DEFINE q == proc[c].conn
  <2>1. q \in Conn /\ ctl[q].by = c /\ Talk(c) /\ proc' = proc
    BY <1>2, ThreadLeavesClients DEF TalkInv, Talk, clientVars
  <2>2. TalkKept(q)
    BY <1>2, <2>1, ThreadTalks
  <2>3. Wanted(c)' = Wanted(c)
    BY <2>1 DEF Wanted
  <2> QED BY <2>1, <2>2, <2>3 DEF Talk, TalkKept
<1> QED BY <1>1, <1>2, ClientTalks DEF Next

\* Each command is answered by its own answer, and a client that waits for none has none
\* coming, although the packets carry no number: with any number of clients and sessions,
\* whoever is killed, and after transfers that took another session's data connection
\* (do_read_rspns, SendRspns).
THEOREM AnswersMatch == Spec => []ReplyIsMine
<1>1. Init => TalkInv
    BY DEF Init, TalkInv, Talk, NoProc
<1>2. TypeInv /\ TalkInv /\ [Next]_vars => TalkInv'
    BY TalkStep
<1> QED BY TypeInit, TypeStep, TalkMeansMine, <1>1, <1>2, PTL DEF Spec

-----------------------------------------------------------------------------
(* What Store sees of a step.                                              *)

\* A thread is seen only in what it was granted and how far it is.
LEMMA OtherWriters ==
    ASSUME NEW k \in Conn, UNCHANGED cwd, \A q \in Conn : q # k => thr'[q] = thr[q]
    PROVE  \A q \in Conn : q # k => Writer(q)' = Writer(q)
    BY DEF Writer

\* The files are as they were, and at most one session's transfer is over.
LEMMA Finished ==
    ASSUME NEW k \in Conn, UNCHANGED fs, \A q \in Conn : q # k => Writer(q)' = Writer(q),
           Writer(k)' \in {Writer(k), Files!Idle}
    PROVE  [Files!Next]_(Files!vars)
<1>1. CASE Writer(k)' = Writer(k)
    BY <1>1 DEF Files!vars
<1>2. CASE Writer(k)' # Writer(k)
  <2>1. Writer(k) # Files!Idle /\ Writer(k)' = Files!Idle
    BY <1>2
  <2>2. Files!Done(k)
    BY <2>1 DEF Files!Done
  <2> QED BY <2>2 DEF Files!Next
<1> QED BY <1>1, <1>2

\* A thread at any other point is idle to Store.
LEMMA IdleWriter ==
    ASSUME NEW k \in Conn, thr[k].pc \notin {"connect", "create", "store"}
    PROVE  Writer(k) = Files!Idle
    BY DEF Writer, Files!Idle

LEMMA IdleAfter ==
    ASSUME NEW k \in Conn, thr'[k].pc \notin {"connect", "create", "store"}
    PROVE  Writer(k)' = Files!Idle
    BY DEF Writer, Files!Idle

LEMMA InitServes == Init => Files!Init
<1> SUFFICES ASSUME Init PROVE Files!Init
    OBVIOUS
<1>1. \A k \in Conn : thr[k].pc = "none"
    BY DEF Init, NoThread
<1>2. \A k \in Conn : Writer(k) = Files!Idle
    BY <1>1, IdleWriter
<1> QED BY <1>2 DEF Files!Init

\* Clients do not touch the server's files, and a new connection has no transfer.
LEMMA ClientServes ==
    ASSUME TypeInv, NEW c \in Client, ClientStep(c) \/ UserStep(c)
    PROVE  [Files!Next]_(Files!vars)
<1>1. CASE UNCHANGED serverVars
  <2>1. \A q \in Conn : Writer(q)' = Writer(q)
    BY <1>1 DEF serverVars, Writer
  <2> QED BY <1>1, <2>1 DEF serverVars, Files!vars
<1>2. ASSUME NEW k \in Conn, Connect(c, k) PROVE [Files!Next]_(Files!vars)
  <2>1. /\ UNCHANGED <<cwd, fs>> /\ \A q \in Conn : q # k => thr'[q] = thr[q]
        /\ thr'[k].pc = "queued"
    BY <1>2 DEF Connect, TypeInv, TypeOK, ThrState
  <2>2. Writer(k)' = Files!Idle
    BY <2>1, IdleAfter
  <2> QED BY <2>1, <2>2, OtherWriters, Finished
<1>3. ClientStep(c) => UNCHANGED serverVars
  <2>1. CloseTransfer(c) => UNCHANGED serverVars
    BY DEF CloseTransfer
  <2>2. /\ ReadHello(c) => UNCHANGED serverVars
        /\ ReadFails(c) => UNCHANGED serverVars
        /\ WriteCmd(c) => UNCHANGED serverVars
        /\ WriteFails(c) => UNCHANGED serverVars
        /\ Leave(c) => UNCHANGED serverVars
        /\ ListFails(c) => UNCHANGED serverVars
    BY DEF ReadHello, ReadFails, WriteCmd, WriteFails, Leave, ListFails
  <2>3. /\ Answered(c) => UNCHANGED serverVars
        /\ Granted(c) => UNCHANGED serverVars
        /\ AcceptData(c) => UNCHANGED serverVars
        /\ Get(c) => UNCHANGED serverVars
        /\ Put(c) => UNCHANGED serverVars
        /\ GetEnds(c) \/ PutEnds(c) => UNCHANGED serverVars
    BY <2>1 DEF Answered, Granted, AcceptData, Get, Put, GetEnds, PutEnds
  <2> QED BY <2>2, <2>3 DEF ClientStep
<1>4. UserStep(c) => UNCHANGED serverVars \/ \E k \in Conn : Connect(c, k)
    BY DEF UserStep, Type, BindFails, Kill
<1> QED BY <1>1, <1>2, <1>3, <1>4

-----------------------------------------------------------------------------
(* The steps of a thread.  KeptInv gives that the directory stays the same  *)
(* between what was granted and what is created.                            *)

\* Steps after which the thread has nothing to store.
LEMMA ThreadIdles ==
    ASSUME TypeInv, NEW k \in Conn, UNCHANGED <<cwd, fs>>,
           \A q \in Conn : q # k => thr'[q] = thr[q],
           thr'[k].pc \notin {"connect", "create", "store"}
    PROVE  [Files!Next]_(Files!vars)
    BY OtherWriters, IdleAfter, Finished

\* Steps that leave what it was granted, or had not been granted anything.
LEMMA ThreadWaits ==
    ASSUME TypeInv, NEW k \in Conn, UNCHANGED <<cwd, fs>>,
           \A q \in Conn : q # k => thr'[q] = thr[q],
           Writer(k)' = Writer(k)
    PROVE  [Files!Next]_(Files!vars)
    BY OtherWriters, Finished

LEMMA UpServes ==
    ASSUME TypeInv, cwd \notin Denied, NEW k \in Conn, Up(k)
    PROVE  Files!Grant(k)
<1> DEFINE m == Head(ctl[k].req)
           file == [dir |-> cwd, name |-> m.arg]
<1>1. /\ ctl \in [Conn -> CtlState] /\ thr \in [Conn -> ThrState] /\ cwd \in Dir
    BY DEF TypeInv, TypeOK
<1>2. m \in Command /\ m.id = "UP" /\ fs[cwd][m.arg] = NoFile /\ thr[k].pc = "recv"
    BY <1>1 DEF Up, Received, Arg, FileExists, CtlState
<1>3. /\ thr'[k].pc = "connect" /\ thr'[k].cmd = m /\ UNCHANGED <<cwd, fs>>
      /\ \A q \in Conn : q # k => thr'[q] = thr[q]
    BY <1>1 DEF Up, ThrState
<1>4. file \in Files!File
    BY <1>1, <1>2, CommandTypes DEF Files!File
<1>5. Writer(k) = Files!Idle
    BY <1>2, IdleWriter
<1>6. Writer(k)' = [stage |-> "granted", file |-> file, blocks |-> 0]
    BY <1>2, <1>3 DEF Writer
<1>7. \A q \in Conn : q # k => Writer(q)' = Writer(q)
    BY <1>3, OtherWriters
<1>8. fs[file.dir][file.name] = NoFile
    BY <1>2
<1> HIDE DEF file
<1> QED BY <1>3, <1>4, <1>5, <1>6, <1>7, <1>8 DEF Files!Grant

LEMMA CreateServes ==
    ASSUME TypeInv, NEW k \in Conn, CreateFile(k)
    PROVE  Files!Create(k)
<1> DEFINE file == [dir |-> cwd, name |-> thr[k].cmd.arg]
           writers == [q \in Conn |-> Writer(q)]
<1>1. thr \in [Conn -> ThrState] /\ thr[k].pc = "create" /\ thr[k].cmd.id = "UP"
    BY DEF TypeInv, TypeOK, Shape, ThreadShape, CreateFile
<1>2. /\ thr'[k].pc = "store" /\ thr'[k].file = file /\ thr'[k].pos = 0
      /\ UNCHANGED cwd /\ \A q \in Conn : q # k => thr'[q] = thr[q]
    BY <1>1 DEF CreateFile, ThrState
<1>3. fs' = [fs EXCEPT ![file.dir][file.name] = <<>>]
    BY DEF CreateFile
<1>4. Writer(k) = [stage |-> "granted", file |-> file, blocks |-> 0]
    BY <1>1 DEF Writer
<1>5. Writer(k)' = [stage |-> "storing", file |-> file, blocks |-> 0]
    BY <1>2 DEF Writer
<1>6. \A q \in Conn : q # k => Writer(q)' = Writer(q)
    BY <1>2, OtherWriters
<1>7. Writer(k)' = [Writer(k) EXCEPT !.stage = "storing"]
    BY <1>4, <1>5
<1>8. writers' = [writers EXCEPT ![k].stage = "storing"]
    BY <1>6, <1>7
<1> HIDE DEF file
<1>9. writers[k].stage = "granted" /\ writers[k].file = file
    BY <1>4
<1>10. Files!Becomes(writers[k].file, <<>>)
    BY <1>3, <1>9 DEF Files!Becomes
<1> QED BY <1>8, <1>9, <1>10 DEF Files!Create

\* What is written stands where the FILE stands, and what the file had elsewhere is kept.
LEMMA WriteGrows ==
    ASSUME NEW s \in Content, NEW p \in Nat, NEW b \in Item
    PROVE  /\ WriteAt(s, p, b) # NoFile
           /\ Len(WriteAt(s, p, b)) = IF p + 1 > Len(s) THEN p + 1 ELSE Len(s)
           /\ \A i \in 1 .. Len(s) : i # p + 1 => WriteAt(s, p, b)[i] = s[i]
<1> DEFINE top == IF p + 1 > Len(s) THEN p + 1 ELSE Len(s)
<1>1. top \in Nat /\ top >= p + 1 /\ top >= Len(s) /\ Len(s) \in Nat
    BY DEF Content
<1>2. WriteAt(s, p, b) \in Seq(Item) /\ WriteAt(s, p, b) # NoFile
    BY WriteAtType, DistinctNone DEF Content
<1>3. DOMAIN WriteAt(s, p, b) = 1 .. top
    BY DEF WriteAt
<1>4. ASSUME NEW i \in 1 .. Len(s), i # p + 1 PROVE WriteAt(s, p, b)[i] = s[i]
  <2>1. i \in 1 .. top /\ i <= Len(s)
    BY <1>1
  <2> QED BY <1>4, <2>1 DEF WriteAt
<1> HIDE DEF top
<1>5. Len(WriteAt(s, p, b)) = top
    BY <1>1, <1>2, <1>3
<1> QED BY <1>2, <1>4, <1>5 DEF top

LEMMA BlockServes ==
    ASSUME TypeInv, NEW k \in Conn, RecvBlock(k)
    PROVE  Files!Grow(k)
<1> DEFINE file == thr[k].file
           old  == fs[file.dir][file.name]
           new  == WriteAt(old, thr[k].pos, Head(dat[thr[k].data].toSrv))
           writers == [q \in Conn |-> Writer(q)]
<1>1. /\ thr \in [Conn -> ThrState] /\ thr[k] \in ThrState /\ thr[k].pc = "store"
      /\ fs \in [Dir -> [Name -> Content \cup {NoFile}]] /\ ThreadShape(k)
    BY DEF TypeInv, TypeOK, Shape, RecvBlock
<1>2. file \in [dir : Dir, name : Name] /\ old \in Content /\ thr[k].pos \in Nat
    BY <1>1 DEF ThrState, ThreadShape, Opened
<1>3. Head(dat[thr[k].data].toSrv) \in Item
    BY <1>1, StreamTypes DEF TypeInv, TypeOK, ThreadShape, RecvBlock
<1>4. /\ new # NoFile
      /\ Len(new) = IF thr[k].pos + 1 > Len(old) THEN thr[k].pos + 1 ELSE Len(old)
      /\ \A i \in 1 .. Len(old) : i # thr[k].pos + 1 => new[i] = old[i]
    BY <1>2, <1>3, WriteGrows
<1>5. /\ fs' = [fs EXCEPT ![file.dir][file.name] = new]
      /\ thr' = [thr EXCEPT ![k].pos = @ + 1] /\ UNCHANGED cwd
    BY DEF RecvBlock
<1> HIDE DEF new
<1>6. fs'[file.dir][file.name] = new
    BY <1>1, <1>2, <1>5
<1>7. /\ thr'[k].pc = "store" /\ thr'[k].file = file /\ thr'[k].pos = thr[k].pos + 1
      /\ \A q \in Conn : q # k => thr'[q] = thr[q]
    BY <1>1, <1>5 DEF ThrState
<1>8. Writer(k) = [stage |-> "storing", file |-> file, blocks |-> thr[k].pos]
    BY <1>1 DEF Writer
<1>9. Writer(k)' = [stage |-> "storing", file |-> file, blocks |-> thr[k].pos + 1]
    BY <1>7 DEF Writer
<1>10. \A q \in Conn : q # k => Writer(q)' = Writer(q)
    BY <1>5, <1>7, OtherWriters
<1>11. Writer(k)' = [Writer(k) EXCEPT !.blocks = thr[k].pos + 1]
    BY <1>8, <1>9
<1>12. writers' = [writers EXCEPT ![k].blocks = thr[k].pos + 1]
    BY <1>10, <1>11
<1> HIDE DEF file
<1>13. /\ writers[k].stage = "storing" /\ writers[k].file = file
       /\ writers[k].blocks = thr[k].pos
    BY <1>8
<1>14. Files!Becomes(writers[k].file, fs'[file.dir][file.name])
    BY <1>5, <1>6, <1>13 DEF Files!Becomes
<1>15. writers' = [writers EXCEPT ![k].blocks = writers[k].blocks + 1]
    BY <1>12, <1>13
<1> HIDE DEF old, writers
<1>16. LET f    == writers[k].file
           now  == fs[f.dir][f.name]
           then == fs'[f.dir][f.name]
           next == writers[k].blocks + 1
       IN  /\ Files!Becomes(f, then)
           /\ then # NoFile
           /\ Len(then) = IF next > Len(now) THEN next ELSE Len(now)
           /\ \A i \in 1 .. Len(now) : i # next => then[i] = now[i]
    BY <1>4, <1>6, <1>13, <1>14 DEF old
<1> QED BY ONLY <1>13, <1>15, <1>16 DEF Files!Grow, writers

\* Every step of a thread is one of Store's, or is not seen there.
LEMMA ThreadServes ==
    ASSUME TypeInv, KeptInv, NEW k \in Conn, ThreadStep(k)
    PROVE  [Files!Next]_(Files!vars)
<1>a. /\ thr \in [Conn -> ThrState] /\ thr[k] \in ThrState /\ ThreadShape(k)
    BY DEF TypeInv, TypeOK, Shape
<1>h. cwd \notin Denied
    BY FtpAssumption DEF KeptInv, NobodyMoves
<1>b. ASSUME NEW f, EndThread(k, f), UNCHANGED <<cwd, fs>> PROVE [Files!Next]_(Files!vars)
  <2>1. thr'[k].pc = "end" /\ \A q \in Conn : q # k => thr'[q] = thr[q]
    BY <1>a, <1>b DEF EndThread, NoThread
  <2> QED BY <1>b, <2>1, ThreadIdles
<1>c. ASSUME NextCommand(k), UNCHANGED <<cwd, fs>> PROVE [Files!Next]_(Files!vars)
  <2>1. thr'[k].pc = "recv" /\ \A q \in Conn : q # k => thr'[q] = thr[q]
    BY <1>a, <1>c DEF NextCommand, NoThread
  <2> QED BY <1>c, <2>1, ThreadIdles
<1>1. CASE NoThreadForIt(k) \/ RecvFails(k) \/ ReplyFails(k) \/ ConnectFails(k)
           \/ SendListDenied(k) \/ SendFails(k) \/ CreateFails(k) \/ RecvBroken(k)
    BY <1>1, <1>b DEF NoThreadForIt, RecvFails, ReplyFails, ConnectFails, SendListDenied,
                      SendFails, CreateFails, RecvBroken
<1>2. CASE SendList(k) \/ SendEnds(k) \/ RecvEnds(k)
    BY <1>2, <1>c DEF SendList, SendEnds, RecvEnds
<1>3. CASE AcceptCtl(k) \/ Welcome(k) \/ CdText(k)
  <2>1. /\ UNCHANGED <<cwd, fs>> /\ \A q \in Conn : q # k => thr'[q] = thr[q]
        /\ thr'[k].pc \in {"welcome", "recv"}
    BY <1>3, <1>a DEF AcceptCtl, Welcome, CdText, ThrState
  <2> QED BY <2>1, ThreadIdles
<1>4. CASE Quit(k)
  <2>1. /\ UNCHANGED <<cwd, fs>> /\ \A q \in Conn : q # k => thr'[q] = thr[q]
        /\ thr'[k].pc = "end"
    BY <1>4, <1>a DEF Quit, NoThread
  <2> QED BY <2>1, ThreadIdles
<1>5. CASE SendBlock(k)
  <2>1. /\ UNCHANGED <<cwd, fs>> /\ \A q \in Conn : q # k => thr'[q] = thr[q]
        /\ thr'[k].pc = "send"
    BY <1>5, <1>a DEF SendBlock, ThrState
  <2> QED BY <2>1, ThreadIdles
<1>6. CASE Pwd(k) \/ CdFails(k) \/ DownRefused(k) \/ UpRefused(k)
  <2>1. UNCHANGED <<thr, cwd, fs>>
    BY <1>6 DEF Pwd, CdFails, DownRefused, UpRefused, serverVars
  <2>2. Writer(k)' = Writer(k)
    BY <2>1 DEF Writer
  <2> QED BY <2>1, <2>2, ThreadWaits
\* A list or a download is nothing to Store, from the command to the connection.
<1>7. CASE Ls(k) \/ Down(k)
  <2>1. /\ UNCHANGED <<cwd, fs>> /\ \A q \in Conn : q # k => thr'[q] = thr[q]
        /\ thr[k].pc = "recv" /\ thr'[k].pc = "connect"
        /\ thr'[k].cmd.id \in {"LS", "DOWN"}
    BY <1>7, <1>a DEF Ls, Down, Received, ThrState
  <2>2. Writer(k) = Files!Idle /\ Writer(k)' = Files!Idle
    BY <2>1 DEF Writer, Files!Idle
  <2> QED BY <2>1, <2>2, ThreadWaits
<1>8. CASE ConnectData(k)
  <2>1. /\ UNCHANGED <<cwd, fs>> /\ \A q \in Conn : q # k => thr'[q] = thr[q]
        /\ thr[k].pc = "connect" /\ thr'[k].cmd = thr[k].cmd
        /\ \/ thr'[k].pc \in {"list", "send"} /\ thr[k].cmd.id # "UP"
           \/ thr'[k].pc = "create" /\ thr[k].cmd.id = "UP"
    BY <1>8, <1>a DEF ConnectData, ThrState, ThreadShape, Transfer
  <2>2. Writer(k)' = Writer(k)
    BY <2>1 DEF Writer
  <2> QED BY <2>1, <2>2, ThreadWaits
<1>9. CASE Up(k)
    BY <1>9, <1>h, UpServes DEF Files!Next
<1>10. CASE CreateFile(k)
    BY <1>10, CreateServes DEF Files!Next
<1>11. CASE RecvBlock(k)
    BY <1>11, BlockServes DEF Files!Next
<1>12. CASE CreateAborts(k)
  <2>1. UNCHANGED fs /\ \A q \in Conn : thr'[q].pc \in {"none", "end"}
    BY <1>12, <1>a DEF CreateAborts, NoThread
  <2>2. \A q \in Conn : Writer(q)' = Files!Idle
    BY <2>1, IdleAfter
  <2>3. Files!Crash
    BY <2>1, <2>2 DEF Files!Crash
  <2> QED BY <2>3 DEF Files!Next
\* No CD is ever queued.
<1>13. CASE Cd(k)
  <2>1. ctl[k].req # <<>> /\ Head(ctl[k].req).id = "CD" /\ ctl[k].req \in Seq(Staying)
    BY <1>13 DEF Cd, Received, KeptInv, NobodyMoves
  <2>2. Head(ctl[k].req) \in Staying
    BY <2>1
  <2> QED BY <2>1, <2>2 DEF Staying
<1>14. \/ AcceptCtl(k) \/ Welcome(k) \/ CdText(k) \/ Quit(k) \/ SendBlock(k)
       \/ Ls(k) \/ Down(k) \/ ConnectData(k) \/ Cd(k)
       \/ Up(k) \/ CreateFile(k) \/ RecvBlock(k) \/ CreateAborts(k)
       \/ Pwd(k) \/ CdFails(k) \/ DownRefused(k) \/ UpRefused(k)
       \/ SendList(k) \/ SendEnds(k) \/ RecvEnds(k)
       \/ NoThreadForIt(k) \/ RecvFails(k) \/ ReplyFails(k) \/ ConnectFails(k)
       \/ SendListDenied(k) \/ SendFails(k) \/ CreateFails(k) \/ RecvBroken(k)
    BY Zenon DEF ThreadStep
<1> QED
    BY <1>1, <1>2, <1>3, <1>4, <1>5, <1>6, <1>7, <1>8, <1>9, <1>10, <1>11, <1>12, <1>13,
       <1>14

-----------------------------------------------------------------------------
\* When no user may type CD, all that ever happens to the files of the server is what
\* Store allows: a session creates a name that was free when it asked, and then stores
\* one block behind the other and leaves the rest alone (ProcessCmd, case UP; RecvFile).
THEOREM ImplementsStore ==
    ASSUME \A c \in Client : Menu[c] \subseteq Staying
    PROVE  Spec => StoreServes
<1>1. TypeInv /\ KeptInv /\ [Next]_vars => [Files!Next]_(Files!vars)
  <2> SUFFICES ASSUME TypeInv, KeptInv, [Next]_vars PROVE [Files!Next]_(Files!vars)
    OBVIOUS
  <2>1. CASE UNCHANGED vars
    <3>1. \A q \in Conn : Writer(q)' = Writer(q)
      BY <2>1 DEF vars, Writer
    <3> QED BY <2>1, <3>1 DEF vars, Files!vars
  <2>2. CASE Next
    BY <2>2, ClientServes, ThreadServes DEF Next
  <2> QED BY <2>1, <2>2
<1> QED BY InitServes, AlwaysKept, <1>1, PTL DEF Spec, StoreServes, Files!Spec

-----------------------------------------------------------------------------
(* The data connections: on a machine where no client process was ever      *)
(* killed, a client accepts the connection of its own session, and no       *)
(* thread ends with its file open.  Then the files that go over them: what  *)
(* a download stores, and what an upload leaves on the server.              *)
(*                                                                          *)
(* None of this is inductive.  Who connects to the port of a machine is     *)
(* decided by which command each thread still has to take, and that by how  *)
(* far each client is; and a data connection that is used again must not be *)
(* one that somebody still has.  The invariant has one part that holds      *)
(* whatever is killed (Wired) and one that speaks of calm machines.  What a *)
(* connection carries is then right because both its ends are of one        *)
(* session, and because of what the others may type.                        *)

InTransfer == {"write", "reply", "accept", "get", "put"}
Moving     == {"list", "send", "create", "store"}   \* a thread with a data connection
Over       == {"none", "end"}

\* A data connection that a client on h has, or will accept.
InUse(s, h) == /\ dat[s].cli = "open" /\ dat[s].by \in Conn
               /\ ctl[dat[s].by].by \in Client /\ PeerHost(dat[s].by) = h

ProcWired(c) ==
    /\ proc[c].pc # "off" => ctl[proc[c].conn].cli = "open"
    /\ proc[c].pc \in {"get", "put"} <=> proc[c].data # None
    /\ proc[c].data # None => InUse(proc[c].data, HostOf[c])
    /\ proc[c].pc \in {"accept", "get", "put"} => proc[c].cmd.id \in Transfer
    /\ proc[c].pc = "get" => proc[c].cmd.id # "UP"
    /\ proc[c].pc \in InTransfer /\ proc[c].cmd.id \in Transfer => port[HostOf[c]] = c

ThrWired(k) ==
    /\ ctl[k].cli = "open" => proc[ctl[k].by].pc # "off" /\ proc[ctl[k].by].conn = k
    /\ ctl[k].cli # "none" \/ thr[k].pc # "none" => ctl[k].by \in Client
    /\ ctl[k].srv = "open" <=> thr[k].pc \notin Over
    /\ thr[k].pc \in Moving => dat[thr[k].data].by = k /\ dat[thr[k].data].srv = "open"
    /\ thr[k].pc = "list" => thr[k].cmd.id = "LS"
    /\ thr[k].pc = "send" => thr[k].cmd.id = "DOWN"
    /\ thr[k].pc \in {"create", "store"} => thr[k].cmd.id = "UP"

HostWired(h) ==
    /\ port[h] = None => pend[h] = <<>>
    /\ Len(pend[h]) <= 1
    /\ pend[h] # <<>> => InUse(pend[h][1], h)

\* No data connection is two clients', or accepted and waiting too.
Unshared ==
    \A c \in Client : proc[c].data # None =>
        /\ \A q \in Client : q # c => proc[q].data # proc[c].data
        /\ pend[HostOf[c]] # <<>> => pend[HostOf[c]][1] # proc[c].data

Wired == /\ \A c \in Client : ProcWired(c)
         /\ \A k \in Conn : ThrWired(k)
         /\ \A h \in Host : HostWired(h)
         /\ Unshared

\* The client of k is in the transfer that its thread is in.
Together(k) == /\ ctl[k].cli = "open" /\ ctl[k].req = <<>>
               /\ proc[ctl[k].by].cmd = thr[k].cmd

\* It is going to accept: it was told OK, or will read that it was.
Accepting(k) ==
    LET c == ctl[k].by IN
    \/ proc[c].pc = "accept"
    \/ proc[c].pc = "reply" /\ ctl[k].rsp # <<>> /\ ctl[k].rsp[1].id = "OK"

\* Both ends of the data connection of k are where they should be.
Joined(k) ==
    LET s == thr[k].data IN
    /\ Together(k) /\ dat[s].cli = "open"
    /\ \/ Accepting(k) /\ pend[PeerHost(k)] = <<s>>
       \/ proc[ctl[k].by].data = s

\* A command in the queue is the one the client is waiting on.
Asked(k) ==
    LET c == ctl[k].by IN
    /\ ctl[k].cli = "open" /\ ctl[k].req = <<proc[c].cmd>>
    /\ proc[c].pc = IF proc[c].cmd.id = "LS" THEN "accept" ELSE "reply"
    /\ proc[c].cmd.id \in Transfer => pend[PeerHost(k)] = <<>>
    /\ thr[k].pc \notin {"connect", "list", "send"} \cup Owing

Session(k) ==
    /\ ctl[k].req # <<>> /\ thr[k].pc \notin Over => Asked(k)
    /\ thr[k].pc = "connect" => Together(k) /\ Accepting(k) /\ pend[PeerHost(k)] = <<>>
    /\ thr[k].pc \in {"list", "send"} => Joined(k)
    /\ thr[k].pc \in {"create", "store"} => dat[thr[k].data].cli = "closed" \/ Joined(k)
    /\ thr[k].pc = "end" => thr[k].file = None

Waiting(h) ==
    pend[h] # <<>> => /\ proc[port[h]].pc \in {"reply", "accept"}
                      /\ dat[pend[h][1]].by = proc[port[h]].conn

Calm(h) == ~ KilledOn(h)

Calmly == /\ \A k \in Conn : ctl[k].by \in Client /\ Calm(PeerHost(k)) => Session(k)
          /\ \A h \in Host : Calm(h) => Waiting(h)
          /\ OwnData

DataInv == TypeInv /\ PortInTransferOnly /\ TalkInv /\ Wired /\ Calmly

\* The two properties are parts of the invariant.
LEMMA DataInvMeans == DataInv => OwnData /\ LeakNeedsKill
<1> SUFFICES ASSUME DataInv, NEW k \in Conn, thr[k].pc = "end", thr[k].file # None
             PROVE  KilledOn(HostOf[ctl[k].by])
    BY DEF DataInv, Calmly, LeakNeedsKill
<1>1. ctl[k].by \in Client
    BY DEF DataInv, Wired, ThrWired
<1> QED BY <1>1 DEF DataInv, Calmly, Session, Calm, PeerHost

-----------------------------------------------------------------------------
(* What a step cannot disturb.                                              *)

LEMMA DataTypes ==
    ASSUME TypeInv
    PROVE  /\ proc \in [Client -> ProcState] /\ ctl \in [Conn -> CtlState]
           /\ thr \in [Conn -> ThrState] /\ dat \in [Sock -> DatState]
           /\ pend \in [Host -> Seq(Sock)] /\ port \in [Host -> Client \cup {None}]
           /\ HostOf \in [Client -> Host]
           /\ None \notin Client /\ None \notin Conn /\ None \notin Sock
BY FtpAssumption, DistinctNone DEF TypeInv, TypeOK

\* A machine that is calm after a step was calm before it.
LEMMA CalmBefore ==
    ASSUME \A q \in Conn : ctl[q].cli = "killed" => /\ ctl'[q].cli = "killed"
                                                    /\ ctl'[q].by = ctl[q].by
    PROVE  \A h : Calm(h)' => Calm(h)
BY DEF Calm, KilledOn

\* The session of a connection, when neither of its ends moves: another client, or one
\* that is past this session, may do anything but touch the data connection; and what
\* waits at the port concerns only the client that holds it.
LEMMA SessionKept ==
    ASSUME TypeInv, Wired, NEW q \in Conn, ctl[q].by \in Client, Session(q),
           ctl'[q] = ctl[q], thr'[q] = thr[q],
           ctl[q].cli = "open" => proc'[ctl[q].by] = proc[ctl[q].by],
           \/ pend'[PeerHost(q)] = pend[PeerHost(q)]
           \/ port[PeerHost(q)] # ctl[q].by
           \/ ctl[q].cli # "open",
           thr[q].pc \in Moving => dat'[thr[q].data].cli = dat[thr[q].data].cli
    PROVE  Session(q)'
<1>0. PICK c \in Client : c = ctl[q].by
    OBVIOUS
<1>1. PeerHost(q) = HostOf[c] /\ PeerHost(q)' = HostOf[c]
    BY <1>0 DEF PeerHost
<1>2. CASE ctl[q].cli # "open"
  <2>1. ~ Asked(q) /\ ~ Together(q)
    BY <1>2 DEF Asked, Together
  <2>2. /\ thr[q].pc \notin {"connect", "list", "send"}
        /\ thr[q].pc \in {"create", "store"} => dat[thr[q].data].cli = "closed"
        /\ ctl[q].req # <<>> => thr[q].pc \in Over
        /\ thr[q].pc = "end" => thr[q].file = None
    BY <2>1 DEF Session, Joined
  <2> QED BY <2>2 DEF Session, Moving
<1>3. CASE ctl[q].cli = "open"
  <2>1. proc'[c] = proc[c]
    BY <1>0, <1>3
  <2>2. (Together(q) <=> Together(q)') /\ (Accepting(q) <=> Accepting(q)')
    BY <1>0, <2>1 DEF Together, Accepting
  <2>3. CASE pend'[HostOf[c]] = pend[HostOf[c]]
    <3>1. Asked(q) => Asked(q)'
      BY <1>0, <1>1, <2>1, <2>3 DEF Asked
    <3>2. thr[q].pc \in Moving => (Joined(q) => Joined(q)')
      BY <1>0, <1>1, <2>1, <2>2, <2>3 DEF Joined
    <3> QED BY <1>1, <2>2, <2>3, <3>1, <3>2 DEF Session, Moving
  <2>4. CASE pend'[HostOf[c]] # pend[HostOf[c]]
    <3>1. port[HostOf[c]] # c
      BY <1>0, <1>1, <1>3, <2>4
    <3>2. proc[c].pc \in {"reply", "accept"} => proc[c].cmd.id \notin Transfer
      BY <3>1 DEF Wired, ProcWired, InTransfer
    <3>3. thr[q].pc \in {"connect"} \cup Moving => thr[q].cmd.id \in Transfer
      BY DEF TypeInv, Shape, ThreadShape, Wired, ThrWired, Moving, Transfer
    <3>4. ~ (Together(q) /\ Accepting(q) /\ thr[q].pc \in {"connect"} \cup Moving)
      BY <1>0, <3>2, <3>3 DEF Together, Accepting
    <3>5. Asked(q) => Asked(q)'
      BY <1>0, <2>1, <3>2 DEF Asked
    <3>6. thr[q].pc \in Moving => (Joined(q) => Joined(q)')
      BY <1>0, <2>1, <2>2, <3>4 DEF Joined
    <3> QED BY <2>2, <3>4, <3>5, <3>6 DEF Session, Moving
  <2> QED BY <2>3, <2>4
<1> QED BY <1>2, <1>3

-----------------------------------------------------------------------------
(* The steps of the server.                                                 *)

\* Any step of the thread of k that neither opens a data connection nor ends the
\* process: what it does to the two connections, and that its own session is in order.
LEMMA ThreadEffect ==
    ASSUME DataInv, NEW k \in Conn, UNCHANGED <<proc, port, pend>>,
           thr[k].pc # "none", thr'[k].pc # "none",
           \A q \in Conn : ctl'[q].by = ctl[q].by /\ ctl'[q].cli = ctl[q].cli,
           \A q \in Conn : q # k => thr'[q] = thr[q] /\ ctl'[q] = ctl[q],
           ctl'[k].srv = "open" <=> thr'[k].pc \notin Over,
           \A s \in Sock : dat[s].cli = "open" => /\ dat'[s].cli = "open"
                                                  /\ dat'[s].by = dat[s].by,
           \A s \in Sock : dat[s].srv = "open" /\ dat[s].by # k =>
                /\ dat'[s].srv = "open" /\ dat'[s].by = dat[s].by
                /\ dat'[s].cli = dat[s].cli,
           thr'[k].pc \in Moving =>
                /\ dat'[thr'[k].data].by = k /\ dat'[thr'[k].data].srv = "open"
                /\ thr'[k].cmd.id = CASE thr'[k].pc = "list" -> "LS"
                                      [] thr'[k].pc = "send" -> "DOWN"
                                      [] OTHER -> "UP",
           ctl[k].by \in Client /\ Calm(PeerHost(k)) => Session(k)'
    PROVE  Wired' /\ Calmly'
<1>a. /\ proc \in [Client -> ProcState] /\ pend \in [Host -> Seq(Sock)]
      /\ thr \in [Conn -> ThrState] /\ HostOf \in [Client -> Host] /\ None \notin Sock
    BY DataTypes DEF DataInv
<1>b. /\ \A c \in Client : ProcWired(c)
      /\ \A q \in Conn : ThrWired(q)
      /\ \A h \in Host : HostWired(h)
    BY DEF DataInv, Wired
<1>c. \A q \in Conn : PeerHost(q)' = PeerHost(q)
    BY DEF PeerHost
<1>d. \A s \in Sock, h \in Host : InUse(s, h) => InUse(s, h)'
    BY <1>c DEF InUse
<1>1. \A c \in Client : ProcWired(c)'
  <2> SUFFICES ASSUME NEW c \in Client PROVE ProcWired(c)'
    OBVIOUS
  <2>1. proc[c].data \in Sock \cup {None} /\ HostOf[c] \in Host
    BY <1>a DEF ProcState
  <2>2. proc[c].pc # "off" => proc[c].conn \in Conn
    BY DEF DataInv, TalkInv, Talk
  <2> QED BY <1>b, <1>d, <2>1, <2>2 DEF ProcWired
<1>2. \A q \in Conn : ThrWired(q)'
  <2> SUFFICES ASSUME NEW q \in Conn PROVE ThrWired(q)'
    OBVIOUS
  <2>1. ThrWired(q)
    BY <1>b
  <2>2. CASE q = k
    <3>1. thr'[k].pc \notin Moving => thr'[k].pc \notin {"list", "send", "create", "store"}
      BY DEF Moving
    <3>2. ctl[k].by \in Client
      BY <1>b DEF ThrWired
    <3> QED BY <2>1, <2>2, <3>1, <3>2 DEF ThrWired, Moving
  <2>3. CASE q # k
    <3>1. thr'[q] = thr[q] /\ ctl'[q] = ctl[q]
      BY <2>3
    <3>2. thr[q].pc \in Moving => /\ thr[q].data \in Sock /\ dat[thr[q].data].by = q
                                  /\ dat[thr[q].data].srv = "open"
      BY <2>1 DEF ThrWired, DataInv, TypeInv, Shape, ThreadShape, Moving
    <3>3. thr[q].pc \in Moving => /\ dat'[thr[q].data].by = q
                                  /\ dat'[thr[q].data].srv = "open"
      BY <2>3, <3>2
    <3> QED BY <2>1, <3>1, <3>3 DEF ThrWired
  <2> QED BY <2>2, <2>3
<1>3. \A h \in Host : HostWired(h)'
  <2> SUFFICES ASSUME NEW h \in Host PROVE HostWired(h)'
    OBVIOUS
  <2>1. pend[h] # <<>> => pend[h][1] \in Sock
    BY <1>a
  <2> QED BY <1>b, <1>d, <2>1 DEF HostWired
<1>4. Wired'
    BY <1>1, <1>2, <1>3 DEF Wired, Unshared, DataInv
<1>5. \A h : Calm(h)' <=> Calm(h)
    BY DEF Calm, KilledOn
<1>6. ASSUME NEW q \in Conn, ctl'[q].by \in Client, Calm(PeerHost(q))' PROVE Session(q)'
  <2>1. ctl[q].by \in Client /\ Calm(PeerHost(q))
    BY <1>5, <1>6, <1>c
  <2>2. CASE q = k
    BY <2>1, <2>2
  <2>3. CASE q # k
    <3>1. thr[q].pc \in Moving => /\ thr[q].data \in Sock /\ dat[thr[q].data].by = q
                                  /\ dat[thr[q].data].srv = "open"
      BY <1>b DEF ThrWired, DataInv, TypeInv, Shape, ThreadShape, Moving
    <3>2. Session(q)
      BY <2>1 DEF DataInv, Calmly
    <3> QED BY <2>1, <2>3, <3>1, <3>2, SessionKept DEF DataInv
  <2> QED BY <2>2, <2>3
<1>7. ASSUME NEW h \in Host, Calm(h)' PROVE Waiting(h)'
  <2>1. Waiting(h) /\ HostWired(h) /\ (pend[h] # <<>> => pend[h][1] \in Sock)
    BY <1>5, <1>7, <1>a, <1>b DEF DataInv, Calmly
  <2> QED BY <2>1 DEF Waiting, HostWired, InUse
<1>8. OwnData'
  <2> SUFFICES ASSUME NEW c \in Client, proc[c].data # None
               PROVE  dat'[proc[c].data].by = proc[c].conn \/ KilledOn(HostOf[c])'
    BY DEF OwnData
  <2>1. proc[c].data \in Sock /\ dat[proc[c].data].cli = "open"
    BY <1>a, <1>b DEF ProcWired, InUse, ProcState
  <2>2. KilledOn(HostOf[c])' <=> KilledOn(HostOf[c])
    BY <1>5 DEF Calm
  <2> QED BY <2>1, <2>2 DEF DataInv, Calmly, OwnData
<1> QED BY <1>4, <1>6, <1>7, <1>8 DEF Calmly

\* Sending on its data connection and closing its end of it: a thread touches no other
\* connection, and the client's end of none.
LEMMA ServerCloses ==
    ASSUME DataInv, NEW k \in Conn, thr[k].pc \in Moving, NEW d,
           d = dat \/ \E item : d = SendsData(k, item), ClosesData(k, d)
    PROVE  /\ \A s \in Sock : dat[s].cli = "open" => /\ dat'[s].cli = "open"
                                                     /\ dat'[s].by = dat[s].by
           /\ \A s \in Sock : dat[s].srv = "open" /\ dat[s].by # k =>
                /\ dat'[s].srv = "open" /\ dat'[s].by = dat[s].by
                /\ dat'[s].cli = dat[s].cli
<1> DEFINE s0 == thr[k].data
           e == [s \in Sock |-> IF s0 = s THEN [d[s] EXCEPT !.srv = "closed"] ELSE d[s]]
<1>1. s0 \in Sock /\ dat[s0].by = k /\ dat \in [Sock -> DatState]
    BY DataTypes DEF DataInv, Wired, ThrWired, TypeInv, Shape, ThreadShape, Moving
<1>2. \A s \in Sock : /\ e[s].cli = dat[s].cli /\ e[s].by = dat[s].by
                      /\ s # s0 => e[s].srv = dat[s].srv
  <2>1. CASE d = dat
    BY <1>1, <2>1 DEF DatState
  <2>2. ASSUME NEW item, d = SendsData(k, item), dat[s0].cli = "open"
        PROVE  \A s \in Sock : /\ e[s].cli = dat[s].cli /\ e[s].by = dat[s].by
                               /\ s # s0 => e[s].srv = dat[s].srv
    <3> DEFINE x == [dat[s0] EXCEPT !.toCli = Append(dat[s0].toCli, item)]
    <3>1. d = [dat EXCEPT ![s0] = x]
      BY <2>2 DEF SendsData
    <3>2. /\ x.cli = dat[s0].cli /\ x.by = dat[s0].by
          /\ [x EXCEPT !.srv = "closed"].cli = x.cli /\ [x EXCEPT !.srv = "closed"].by = x.by
      BY <1>1 DEF DatState
    <3> HIDE DEF x
    <3> QED BY <1>1, <3>1, <3>2
  <2>3. ASSUME NEW item, d = SendsData(k, item), dat[s0].cli # "open" PROVE d = dat
    BY <2>3 DEF SendsData
  <2> QED BY <2>1, <2>2, <2>3
<1>4. dat' = Live(e)
    BY DEF ClosesData
<1> HIDE DEF e
<1>5. \A s \in Sock : e[s].cli = "open" \/ e[s].srv = "open" => dat'[s] = e[s]
    BY <1>4 DEF Live
<1> QED BY <1>1, <1>2, <1>5

\* A queue with an asked command has it alone, so that taking it empties the queue, and
\* no answer is there yet.
LEMMA AskedAlone ==
    ASSUME DataInv, NEW k \in Conn, Asked(k)
    PROVE  /\ ctl[k].by \in Client /\ ctl[k].rsp = <<>>
           /\ Head(ctl[k].req) = proc[ctl[k].by].cmd
           /\ Tail(ctl[k].req) = <<>>
<1>1. /\ ctl[k].by \in Client /\ ctl[k].cli = "open"
      /\ proc[ctl[k].by].pc # "off" /\ proc[ctl[k].by].conn = k
    BY DEF Asked, DataInv, Wired, ThrWired
<1>2. Talk(ctl[k].by)
    BY <1>1 DEF DataInv, TalkInv
<1>3. ctl[k].req = <<proc[ctl[k].by].cmd>>
    BY DEF Asked
<1>a. \A x : <<x>> # <<>>
    OBVIOUS
<1>b. ctl[k].req # <<>>
    BY <1>3, <1>a, Zenon
<1>4. ctl[k].rsp = <<>>
    BY <1>1, <1>2, <1>b DEF Talk, Coming, Silent
<1>5. ASSUME NEW x PROVE Head(<<x>>) = x /\ Tail(<<x>>) = <<>>
  <2>1. <<x>> \in Seq({x}) /\ Len(<<x>>) = 1 /\ Head(<<x>>) = x
    OBVIOUS
  <2>2. \A s \in Seq({x}) : Len(s) = 1 => Tail(s) \in Seq({x}) /\ Len(Tail(s)) = 0
    OBVIOUS
  <2>3. \A s \in Seq({x}) : Len(s) = 0 => s = <<>>
    OBVIOUS
  <2> QED BY <2>1, <2>2, <2>3, Zenon
<1> QED BY <1>1, <1>3, <1>4, <1>5

\* Every step of a thread but opening a data connection and ending the process.
LEMMA ThreadData ==
    ASSUME DataInv, NEW k \in Conn, ThreadStep(k), ~ ConnectData(k), ~ CreateAborts(k)
    PROVE  Wired' /\ Calmly'
<1>a. /\ ctl \in [Conn -> CtlState] /\ thr \in [Conn -> ThrState]
      /\ dat \in [Sock -> DatState] /\ ctl[k] \in CtlState /\ thr[k] \in ThrState
    BY DataTypes DEF DataInv
<1>b. ThrWired(k) /\ (ctl[k].by \in Client /\ Calm(PeerHost(k)) => Session(k))
    BY DEF DataInv, Wired, Calmly
<1>c. UNCHANGED <<proc, local, port>>
    BY ThreadLeavesClients DEF clientVars
<1>d. /\ [NoThread EXCEPT !.pc = "recv"].pc = "recv"
      /\ \A f : /\ [NoThread EXCEPT !.pc = "end", !.file = f].pc = "end"
                /\ [NoThread EXCEPT !.pc = "end", !.file = f].file = f
      /\ [NoThread EXCEPT !.pc = "end"].pc = "end"
      /\ [NoThread EXCEPT !.pc = "end"].file = None
    BY DEF NoThread
<1>e. \A s \in Sock : dat'[s] = dat[s] =>
        /\ dat[s].cli = "open" => dat'[s].cli = "open" /\ dat'[s].by = dat[s].by
        /\ dat[s].srv = "open" /\ dat[s].by # k =>
             /\ dat'[s].srv = "open" /\ dat'[s].by = dat[s].by /\ dat'[s].cli = dat[s].cli
    OBVIOUS
\* A thread that has no data connection says or hears something.
<1>f. ASSUME UNCHANGED <<pend, dat>>, thr[k].pc \notin Over, thr'[k].pc \notin Over,
             thr'[k].pc \notin Moving,
             ctl'[k].by = ctl[k].by, ctl'[k].cli = ctl[k].cli, ctl'[k].srv = ctl[k].srv,
             \A q \in Conn : q # k => thr'[q] = thr[q] /\ ctl'[q] = ctl[q],
             ctl[k].by \in Client /\ Calm(PeerHost(k)) => Session(k)'
      PROVE  Wired' /\ Calmly'
  <2>1. \A q \in Conn : ctl'[q].by = ctl[q].by /\ ctl'[q].cli = ctl[q].cli
    BY <1>f
  <2>2. ctl'[k].srv = "open" <=> thr'[k].pc \notin Over
    BY <1>b, <1>f DEF ThrWired
  <2>3. thr[k].pc # "none" /\ thr'[k].pc # "none"
    BY <1>f DEF Over
  <2> QED BY <1>c, <1>e, <1>f, <2>1, <2>2, <2>3, ThreadEffect
\* The thread ends, with its connections closed.
<1>g. ASSUME NEW y \in [Conn -> CtlState], y[k].by = ctl[k].by, y[k].cli = ctl[k].cli,
             \A q \in Conn : q # k => y[q] = ctl[q],
             ctl' = [y EXCEPT ![k].srv = "closed"],
             NEW f, NEW v, v.pc = "end", v.file = f, thr' = [thr EXCEPT ![k] = v],
             ctl[k].by \in Client /\ Calm(PeerHost(k)) => f = None,
             thr[k].pc # "none", UNCHANGED pend,
             \/ UNCHANGED dat
             \/ thr[k].pc \in Moving /\ ClosesData(k, dat)
             \/ thr[k].pc \in Moving /\ \E item : ClosesData(k, SendsData(k, item))
      PROVE  Wired' /\ Calmly'
  <2>1. thr'[k].pc = "end" /\ thr'[k].file = f /\ \A q \in Conn : q # k => thr'[q] = thr[q]
    BY <1>a, <1>d, <1>g
  <2>2. /\ \A q \in Conn : ctl'[q].by = ctl[q].by /\ ctl'[q].cli = ctl[q].cli
        /\ \A q \in Conn : q # k => ctl'[q] = ctl[q]
        /\ ctl'[k].srv = "closed"
    BY <1>g DEF CtlState
  <2>3. /\ \A s \in Sock : dat[s].cli = "open" => /\ dat'[s].cli = "open"
                                                  /\ dat'[s].by = dat[s].by
        /\ \A s \in Sock : dat[s].srv = "open" /\ dat[s].by # k =>
             /\ dat'[s].srv = "open" /\ dat'[s].by = dat[s].by
             /\ dat'[s].cli = dat[s].cli
    BY <1>e, <1>g, ServerCloses
  <2>4. ctl[k].by \in Client /\ Calm(PeerHost(k)) => Session(k)'
    BY <1>g, <2>1 DEF Session, Over
  <2>5. "end" \in Over /\ "end" \notin Moving /\ thr'[k].pc # "none"
    BY <2>1 DEF Over, Moving
  <2> QED BY <1>c, <1>g, <2>1, <2>2, <2>3, <2>4, <2>5, ThreadEffect
<1>h. ASSUME NEW f, EndThread(k, f),
             ctl[k].by \in Client /\ Calm(PeerHost(k)) => f = None,
             thr[k].pc # "none", UNCHANGED pend,
             \/ UNCHANGED dat
             \/ thr[k].pc \in Moving /\ ClosesData(k, dat)
             \/ thr[k].pc \in Moving /\ \E item : ClosesData(k, SendsData(k, item))
      PROVE  Wired' /\ Calmly'
    BY <1>a, <1>d, <1>g, <1>h DEF EndThread
\* The data connection is closed and the thread goes back to RecvCmd.
<1>i. ASSUME NextCommand(k), UNCHANGED <<pend, ctl>>, thr[k].pc \in Moving,
             \/ ClosesData(k, dat)
             \/ \E item : ClosesData(k, SendsData(k, item)),
             thr[k].pc \in {"list", "send", "store"}
      PROVE  Wired' /\ Calmly'
  <2>1. thr'[k].pc = "recv" /\ \A q \in Conn : q # k => thr'[q] = thr[q]
    BY <1>a, <1>d, <1>i DEF NextCommand
  <2>2. /\ \A s \in Sock : dat[s].cli = "open" => /\ dat'[s].cli = "open"
                                                  /\ dat'[s].by = dat[s].by
        /\ \A s \in Sock : dat[s].srv = "open" /\ dat[s].by # k =>
             /\ dat'[s].srv = "open" /\ dat'[s].by = dat[s].by
             /\ dat'[s].cli = dat[s].cli
    BY <1>i, ServerCloses
  <2>3. ASSUME Session(k) PROVE Session(k)'
    <3>1. CASE ctl[k].req = <<>>
      BY <1>i, <2>1, <3>1 DEF Session
    <3>2. CASE ctl[k].req # <<>>
      <4>1. Asked(k)
        BY <1>i, <2>3, <3>2 DEF Session, Over
      <4>2. Asked(k)'
        BY <1>c, <1>i, <2>1, <4>1 DEF Asked, Owing, PeerHost
      <4> QED BY <2>1, <4>2 DEF Session
    <3> QED BY <3>1, <3>2
  <2>4. /\ "recv" \notin Over /\ "recv" \notin Moving /\ thr'[k].pc # "none"
        /\ thr[k].pc \notin Over /\ thr[k].pc # "none"
    BY <1>i, <2>1 DEF Over, Moving
  <2>5. ctl'[k].srv = "open" <=> thr'[k].pc \notin Over
    BY <1>b, <1>i, <2>1, <2>4 DEF ThrWired
  <2> QED BY <1>b, <1>c, <1>i, <2>1, <2>2, <2>3, <2>4, <2>5, ThreadEffect
\* A block is moved, or the file created, on the data connection.
<1>j. ASSUME UNCHANGED <<pend, ctl>>, thr[k].pc \in {"send", "create", "store"},
             thr'[k].pc = (IF thr[k].pc = "send" THEN "send" ELSE "store"),
             thr'[k].data = thr[k].data, thr'[k].cmd = thr[k].cmd,
             \A q \in Conn : q # k => thr'[q] = thr[q],
             \A s \in Sock : /\ dat'[s].cli = dat[s].cli /\ dat'[s].srv = dat[s].srv
                             /\ dat'[s].by = dat[s].by
      PROVE  Wired' /\ Calmly'
  <2>1. thr[k].data \in Sock
    BY <1>j DEF DataInv, TypeInv, Shape, ThreadShape
  <2>2. ASSUME Session(k) PROVE Session(k)'
    <3>1. PeerHost(k)' = PeerHost(k) /\ (Joined(k) => Joined(k)')
      BY <1>c, <1>j, <2>1 DEF Joined, Together, Accepting, PeerHost
    <3>2. Asked(k) => Asked(k)'
      BY <1>c, <1>j, <3>1 DEF Asked, Owing
    <3>3. thr[k].pc \notin Over /\ dat'[thr[k].data].cli = dat[thr[k].data].cli
      BY <1>j, <2>1 DEF Over
    <3> QED BY <1>j, <2>2, <3>1, <3>2, <3>3 DEF Session
  <2>3. /\ thr[k].pc \in Moving /\ thr'[k].pc \in Moving /\ thr'[k].pc \notin Over
        /\ thr[k].pc \notin Over /\ thr[k].pc # "none" /\ thr'[k].pc # "none"
    BY <1>j DEF Moving, Over
  <2>4. /\ dat'[thr'[k].data].by = k /\ dat'[thr'[k].data].srv = "open"
        /\ ctl'[k].srv = "open" <=> thr'[k].pc \notin Over
    BY <1>b, <1>j, <2>1, <2>3 DEF ThrWired
  <2>5. thr'[k].cmd.id = CASE thr'[k].pc = "list" -> "LS"
                           [] thr'[k].pc = "send" -> "DOWN"
                           [] OTHER -> "UP"
    BY <1>b, <1>j DEF ThrWired
  <2> QED BY <1>b, <1>c, <1>j, <2>2, <2>3, <2>4, <2>5, ThreadEffect
\* What taking a command leaves of the connections.
<1>l. ctl[k].req # <<>> =>
        /\ Taken(k) \in [Conn -> CtlState]
        /\ \A q \in Conn : q # k => Taken(k)[q] = ctl[q]
        /\ Taken(k)[k].by = ctl[k].by /\ Taken(k)[k].cli = ctl[k].cli
        /\ Taken(k)[k].srv = ctl[k].srv
        /\ Taken(k)[k].req = Tail(ctl[k].req) /\ Taken(k)[k].rsp = ctl[k].rsp
    BY <1>a, TakenTypes DEF Taken, CtlState, DataInv
\* A command is taken; what is left to do about it is said by the place of the thread.
<1>m. ASSUME NEW what, Received(k, what), UNCHANGED <<pend, dat>>,
             \A q \in Conn : q # k => thr'[q] = thr[q] /\ ctl'[q] = ctl[q],
             ctl'[k].by = ctl[k].by, ctl'[k].cli = ctl[k].cli, ctl'[k].srv = ctl[k].srv,
             ctl'[k].req = Tail(ctl[k].req),
             \/ thr'[k].pc \in {"recv", "cdtext"}
             \/ /\ thr'[k].pc = "connect" /\ thr'[k].cmd = Head(ctl[k].req)
                /\ what \in Transfer
                /\ what # "LS" /\ ctl[k].cli = "open" =>
                     \E r : r.id = "OK" /\ ctl'[k].rsp = Append(ctl[k].rsp, r)
      PROVE  Wired' /\ Calmly'
  <2>1. ctl[k].req # <<>> /\ thr[k].pc = "recv" /\ Head(ctl[k].req).id = what
    BY <1>m DEF Received
  <2>2. /\ thr[k].pc \notin Over /\ thr'[k].pc \notin Over /\ thr'[k].pc \notin Moving
    BY <1>m, <2>1 DEF Over, Moving
  <2>3. ASSUME Session(k) PROVE Session(k)'
    <3>1. Asked(k)
      BY <2>1, <2>2, <2>3 DEF Session
    <3>2. /\ ctl'[k].req = <<>> /\ ctl[k].rsp = <<>> /\ ctl[k].cli = "open"
          /\ Head(ctl[k].req) = proc[ctl[k].by].cmd
      BY <1>m, <3>1, AskedAlone DEF Asked
    <3>3. CASE thr'[k].pc \in {"recv", "cdtext"}
      BY <3>2, <3>3 DEF Session
    <3>4. CASE thr'[k].pc = "connect"
      <4>1. thr'[k].cmd = Head(ctl[k].req) /\ what \in Transfer
        BY <1>m, <3>4
      <4>2. Together(k)'
        BY <1>c, <1>m, <3>2, <4>1 DEF Together
      <4>3. pend'[PeerHost(k)'] = <<>>
        BY <1>m, <2>1, <3>1, <3>2, <4>1 DEF Asked, PeerHost
      <4>4. Accepting(k)'
        <5>1. CASE what = "LS"
          BY <1>c, <1>m, <2>1, <3>1, <3>2, <5>1 DEF Asked, Accepting
        <5>2. CASE what # "LS"
          <6>1. PICK r : r.id = "OK" /\ ctl'[k].rsp = Append(<<>>, r)
            BY <1>m, <3>2, <3>4, <5>2
          <6>2. ctl'[k].rsp # <<>> /\ ctl'[k].rsp[1].id = "OK"
            BY <6>1
          <6>3. proc[ctl[k].by].pc = "reply"
            BY <2>1, <3>1, <3>2, <5>2 DEF Asked
          <6> QED BY <1>c, <1>m, <6>2, <6>3 DEF Accepting
        <5> QED BY <5>1, <5>2
      <4> QED BY <3>2, <3>4, <4>2, <4>3, <4>4 DEF Session
    <3> QED BY <1>m, <3>3, <3>4
  <2> QED BY <1>b, <1>f, <1>m, <2>2, <2>3
\* A thread that is between a request and its answer has no other request.
<1>n. ASSUME thr[k].pc \in Owing, UNCHANGED <<pend, dat>>,
             \A q \in Conn : q # k => thr'[q] = thr[q] /\ ctl'[q] = ctl[q],
             ctl'[k].by = ctl[k].by, ctl'[k].cli = ctl[k].cli, ctl'[k].srv = ctl[k].srv,
             ctl'[k].req = ctl[k].req, thr'[k].pc \in {"welcome", "recv"}
      PROVE  Wired' /\ Calmly'
  <2>1. thr[k].pc \notin Over /\ thr'[k].pc \notin Over /\ thr'[k].pc \notin Moving
    BY <1>n DEF Over, Owing, Moving
  <2>2. Session(k) => ctl[k].req = <<>>
    BY <1>n, <2>1 DEF Session, Asked
  <2>3. Session(k) => Session(k)'
    BY <1>n, <2>2 DEF Session
  <2> QED BY <1>b, <1>f, <1>n, <2>1, <2>3
<1>1. CASE AcceptCtl(k)
    BY <1>1, <1>a, <1>n DEF AcceptCtl, Owing, ThrState
<1>2. CASE Welcome(k)
  <2>1. /\ thr[k].pc = "welcome" /\ thr'[k].pc = "recv" /\ UNCHANGED <<pend, dat>>
        /\ \A q \in Conn : q # k => thr'[q] = thr[q]
        /\ ctl' = SendRspns(ctl, k, "HELLO", "OK", None)
    BY <1>2, <1>a DEF Welcome, ThrState
  <2>2. /\ \A q \in Conn : q # k => ctl'[q] = ctl[q]
        /\ ctl'[k].by = ctl[k].by /\ ctl'[k].cli = ctl[k].cli /\ ctl'[k].srv = ctl[k].srv
        /\ ctl'[k].req = ctl[k].req
    BY <1>a, <2>1 DEF SendRspns, CtlState
  <2> QED BY <1>n, <2>1, <2>2 DEF Owing
<1>3. CASE CdText(k)
  <2>1. /\ thr[k].pc = "cdtext" /\ thr'[k].pc = "recv" /\ UNCHANGED <<pend, dat>>
        /\ \A q \in Conn : q # k => thr'[q] = thr[q]
        /\ ctl' = SendRspns(ctl, k, "CD", "OK", cwd)
    BY <1>3, <1>a DEF CdText, ThrState
  <2>2. /\ \A q \in Conn : q # k => ctl'[q] = ctl[q]
        /\ ctl'[k].by = ctl[k].by /\ ctl'[k].cli = ctl[k].cli /\ ctl'[k].srv = ctl[k].srv
        /\ ctl'[k].req = ctl[k].req
    BY <1>a, <2>1 DEF SendRspns, CtlState
  <2> QED BY <1>n, <2>1, <2>2 DEF Owing
<1>4. CASE NoThreadForIt(k) \/ RecvFails(k) \/ ReplyFails(k) \/ ConnectFails(k)
    BY <1>4, <1>h DEF NoThreadForIt, RecvFails, ReplyFails, ConnectFails, Received
<1>5. CASE SendListDenied(k)
    BY <1>5, <1>h DEF SendListDenied, Moving
<1>6. CASE CreateFails(k) \/ RecvBroken(k)
    BY <1>6, <1>h DEF CreateFails, RecvBroken, Moving
<1>7. CASE SendFails(k)
  <2>1. /\ thr[k].pc \in {"list", "send"} /\ dat[thr[k].data].cli # "open"
        /\ EndThread(k, thr[k].file) /\ ClosesData(k, dat) /\ UNCHANGED pend
    BY <1>7 DEF SendFails
  <2>2. ~ (ctl[k].by \in Client /\ Calm(PeerHost(k)))
    BY <1>b, <2>1 DEF Session, Joined
  <2> QED BY <1>h, <2>1, <2>2 DEF Moving
<1>8. CASE SendList(k) \/ SendEnds(k) \/ RecvEnds(k)
    BY <1>8, <1>i DEF SendList, SendEnds, RecvEnds, Moving
<1>9. CASE SendBlock(k)
  <2>1. /\ thr[k].pc = "send" /\ UNCHANGED <<pend, ctl>> /\ thr'[k].pc = "send"
        /\ thr'[k].data = thr[k].data /\ thr'[k].cmd = thr[k].cmd
        /\ \A q \in Conn : q # k => thr'[q] = thr[q]
        /\ \E item : dat' = SendsData(k, item)
    BY <1>9, <1>a DEF SendBlock, ThrState
  <2>2. \A s \in Sock : /\ dat'[s].cli = dat[s].cli /\ dat'[s].srv = dat[s].srv
                        /\ dat'[s].by = dat[s].by
    BY <1>a, <2>1 DEF SendsData, DatState
  <2> QED BY <1>j, <2>1, <2>2
<1>10. CASE CreateFile(k)
    BY <1>10, <1>a, <1>j DEF CreateFile, ThrState
<1>11. CASE RecvBlock(k)
  <2>1. /\ thr[k].pc = "store" /\ UNCHANGED <<pend, ctl>> /\ thr'[k].pc = "store"
        /\ thr'[k].data = thr[k].data /\ thr'[k].cmd = thr[k].cmd
        /\ \A q \in Conn : q # k => thr'[q] = thr[q]
    BY <1>11, <1>a DEF RecvBlock, ThrState
  <2>2. \A s \in Sock : /\ dat'[s].cli = dat[s].cli /\ dat'[s].srv = dat[s].srv
                        /\ dat'[s].by = dat[s].by
    BY <1>11, <1>a DEF RecvBlock, DatState
  <2> QED BY <1>j, <2>1, <2>2
<1>12. CASE Ls(k)
  <2>1. /\ Received(k, "LS") /\ ctl[k].req # <<>> /\ UNCHANGED <<pend, dat>>
        /\ thr'[k].pc = "connect" /\ thr'[k].cmd = Head(ctl[k].req)
        /\ \A q \in Conn : q # k => thr'[q] = thr[q]
        /\ ctl' = Taken(k)
    BY <1>12, <1>a DEF Ls, Received, ThrState
  <2> QED BY <1>l, <1>m, <2>1 DEF Transfer
<1>13. CASE Cd(k)
  <2>1. /\ Received(k, "CD") /\ ctl[k].req # <<>> /\ UNCHANGED <<pend, dat>>
        /\ thr'[k].pc = "cdtext"
        /\ \A q \in Conn : q # k => thr'[q] = thr[q]
        /\ ctl' = Taken(k)
    BY <1>13, <1>a DEF Cd, Received, ThrState
  <2> QED BY <1>l, <1>m, <2>1
<1>14. CASE Pwd(k) \/ CdFails(k) \/ DownRefused(k) \/ UpRefused(k)
  <2>1. PICK what, id, text : /\ Received(k, what)
                              /\ ctl' = SendRspns(Taken(k), k, what, id, text)
    BY <1>14 DEF Pwd, CdFails, DownRefused, UpRefused
  <2>2. ctl[k].req # <<>> /\ UNCHANGED <<pend, dat, thr>> /\ thr[k].pc = "recv"
    BY <1>14 DEF Pwd, CdFails, DownRefused, UpRefused, Received, serverVars
  <2>3. /\ \A q \in Conn : q # k => ctl'[q] = ctl[q]
        /\ ctl'[k].by = ctl[k].by /\ ctl'[k].cli = ctl[k].cli /\ ctl'[k].srv = ctl[k].srv
        /\ ctl'[k].req = Tail(ctl[k].req)
    BY <1>l, <2>1, <2>2 DEF SendRspns, CtlState
  <2> QED BY <1>m, <2>1, <2>2, <2>3
<1>15. CASE Down(k) \/ Up(k)
  <2>1. PICK what \in {"DOWN", "UP"} :
            Received(k, what) /\ ctl' = SendRspns(Taken(k), k, what, "OK", None)
    BY <1>15 DEF Down, Up
  <2>2. /\ ctl[k].req # <<>> /\ UNCHANGED <<pend, dat>>
        /\ thr'[k].pc = "connect" /\ thr'[k].cmd = Head(ctl[k].req)
        /\ \A q \in Conn : q # k => thr'[q] = thr[q]
    BY <1>15, <1>a DEF Down, Up, Received, ThrState
  <2> DEFINE r == [to |-> what, id |-> "OK", text |-> None]
  <2>3. r.id = "OK" /\ (ctl[k].cli = "open" => ctl'[k].rsp = Append(ctl[k].rsp, r))
    BY <1>l, <2>1, <2>2 DEF SendRspns, CtlState
  <2> HIDE DEF r
  <2>4. /\ \A q \in Conn : q # k => ctl'[q] = ctl[q]
        /\ ctl'[k].by = ctl[k].by /\ ctl'[k].cli = ctl[k].cli /\ ctl'[k].srv = ctl[k].srv
        /\ ctl'[k].req = Tail(ctl[k].req)
    BY <1>l, <2>1, <2>2 DEF SendRspns, CtlState
  <2>5. what \in Transfer
    BY DEF Transfer
  <2> QED BY <1>m, <2>1, <2>2, <2>3, <2>4, <2>5
<1>16. CASE Quit(k)
  <2> DEFINE y == SendRspns(Taken(k), k, "QUIT", "OK", None)
  <2>1. /\ Received(k, "QUIT") /\ ctl[k].req # <<>> /\ ctl' = [y EXCEPT ![k].srv = "closed"]
        /\ thr' = [thr EXCEPT ![k] = [NoThread EXCEPT !.pc = "end"]]
        /\ UNCHANGED <<pend, dat>> /\ thr[k].pc = "recv"
    BY <1>16 DEF Quit, Received
  <2>2. y \in [Conn -> CtlState]
    BY <1>l, <2>1, SendsTypes
  <2>a. y = SendRspns(Taken(k), k, "QUIT", "OK", None)
    OBVIOUS
  <2> HIDE DEF y
  <2>3. /\ y[k].by = ctl[k].by /\ y[k].cli = ctl[k].cli
        /\ \A q \in Conn : q # k => y[q] = ctl[q]
    BY <1>l, <2>1, <2>a DEF SendRspns, CtlState
  <2> DEFINE v == [NoThread EXCEPT !.pc = "end"]
  <2>4. v.pc = "end" /\ v.file = None /\ thr' = [thr EXCEPT ![k] = v]
    BY <1>d, <2>1
  <2>5. thr[k].pc # "none"
    BY <2>1
  <2> HIDE DEF v
  <2> QED BY <1>g, <2>1, <2>2, <2>3, <2>4, <2>5
<1>17. \/ AcceptCtl(k) \/ Welcome(k) \/ CdText(k) \/ SendListDenied(k)
       \/ NoThreadForIt(k) \/ RecvFails(k) \/ ReplyFails(k) \/ ConnectFails(k)
       \/ CreateFails(k) \/ RecvBroken(k) \/ SendFails(k)
       \/ SendList(k) \/ SendEnds(k) \/ RecvEnds(k)
       \/ SendBlock(k) \/ CreateFile(k) \/ RecvBlock(k) \/ Ls(k) \/ Cd(k)
       \/ Pwd(k) \/ CdFails(k) \/ DownRefused(k) \/ UpRefused(k)
       \/ Down(k) \/ Up(k) \/ Quit(k)
    BY Zenon DEF ThreadStep
<1> QED
    BY <1>1, <1>2, <1>3, <1>4, <1>5, <1>6, <1>7, <1>8, <1>9, <1>10, <1>11, <1>12, <1>13,
       <1>14, <1>15, <1>16, <1>17

\* InitDataSocket: on a calm machine the port is held by the client of this session,
\* which is going to accept.
LEMMA ConnectDataKeeps ==
    ASSUME DataInv, NEW k \in Conn, ConnectData(k)
    PROVE  Wired' /\ Calmly'
<1>a. /\ proc \in [Client -> ProcState] /\ pend \in [Host -> Seq(Sock)]
      /\ thr \in [Conn -> ThrState] /\ dat \in [Sock -> DatState]
      /\ HostOf \in [Client -> Host] /\ None \notin Sock
    BY DataTypes DEF DataInv
<1>b. /\ \A c \in Client : ProcWired(c)
      /\ \A q \in Conn : ThrWired(q)
      /\ \A h \in Host : HostWired(h)
    BY DEF DataInv, Wired
<1>1. PICK s \in FreeSock :
        /\ pend' = [pend EXCEPT ![PeerHost(k)] = Append(@, s)]
        /\ dat' = [dat EXCEPT ![s] = [NoDat EXCEPT !.by = k, !.cli = "open", !.srv = "open"]]
        /\ thr' = [thr EXCEPT ![k].pc = CASE thr[k].cmd.id = "LS"   -> "list"
                                          [] thr[k].cmd.id = "DOWN" -> "send"
                                          [] thr[k].cmd.id = "UP"   -> "create",
                              ![k].data = s]
    BY DEF ConnectData
<1>2. /\ thr[k].pc = "connect" /\ UNCHANGED <<proc, port, ctl>>
      /\ port[PeerHost(k)] # None /\ Len(pend[PeerHost(k)]) < 1
    BY DEF ConnectData, Listening, DataBacklog, clientVars
<1>3. /\ s \in Sock /\ dat[s].cli = "none" /\ dat[s].srv = "none"
      /\ dat'[s].by = k /\ dat'[s].cli = "open" /\ dat'[s].srv = "open"
      /\ \A x \in Sock : x # s => dat'[x] = dat[x]
    BY <1>1, <1>a DEF FreeSock, NoDat
<1>4. PICK c \in Client : c = ctl[k].by
    BY <1>2, <1>b DEF ThrWired
<1>5. PICK h \in Host : h = HostOf[c] /\ h = PeerHost(k)
    BY <1>4, <1>a DEF PeerHost
<1>6. /\ \A g \in Host : g # h => pend'[g] = pend[g]
      /\ pend'[h] = <<s>> /\ pend[h] = <<>>
  <2>1. pend[h] \in Seq(Sock) /\ Len(pend[h]) = 0
    BY <1>2, <1>5, <1>a
  <2>2. \A x \in Seq(Sock) : Len(x) = 0 => x = <<>>
    OBVIOUS
  <2>3. pend[h] = <<>>
    BY <2>1, <2>2, Zenon
  <2>4. pend' = [pend EXCEPT ![h] = Append(<<>>, s)]
    BY <1>1, <1>5, <2>3
  <2> QED BY <1>a, <1>3, <2>3, <2>4
<1>7. /\ thr[k].cmd.id \in Transfer
      /\ thr'[k].cmd = thr[k].cmd /\ thr'[k].data = s
      /\ thr'[k].pc = CASE thr[k].cmd.id = "LS"   -> "list"
                        [] thr[k].cmd.id = "DOWN" -> "send"
                        [] thr[k].cmd.id = "UP"   -> "create"
      /\ \A q \in Conn : q # k => thr'[q] = thr[q]
  <2>1. thr[k].cmd.id \in Transfer
    BY <1>2 DEF DataInv, TypeInv, Shape, ThreadShape
  <2> QED BY <2>1, <1>1, <1>a DEF ThrState
<1>8. /\ thr'[k].pc \in {"list", "send", "create"}
      /\ thr'[k].pc = "list" => thr'[k].cmd.id = "LS"
      /\ thr'[k].pc = "send" => thr'[k].cmd.id = "DOWN"
      /\ thr'[k].pc = "create" => thr'[k].cmd.id = "UP"
    BY <1>7 DEF Transfer
<1>9. \A x \in Sock, g \in Host : InUse(x, g) => x # s /\ InUse(x, g)'
    BY <1>2, <1>3 DEF InUse, PeerHost
<1>10. \A d \in Client : ProcWired(d)'
  <2> SUFFICES ASSUME NEW d \in Client PROVE ProcWired(d)'
    OBVIOUS
  <2>1. proc[d].data \in Sock \cup {None} /\ HostOf[d] \in Host
    BY <1>a DEF ProcState
  <2> QED BY <1>2, <1>9, <1>b, <2>1 DEF ProcWired
<1>11. \A q \in Conn : ThrWired(q)'
  <2> SUFFICES ASSUME NEW q \in Conn PROVE ThrWired(q)'
    OBVIOUS
  <2>1. CASE q = k
    BY <1>2, <1>3, <1>7, <1>8, <1>b, <2>1 DEF ThrWired, Over
  <2>2. CASE q # k
    <3>1. thr[q].pc \in Moving => /\ thr[q].data \in Sock /\ thr[q].data # s
                                  /\ dat[thr[q].data].by = q
                                  /\ dat[thr[q].data].srv = "open"
      BY <1>3, <1>b DEF ThrWired, DataInv, TypeInv, Shape, ThreadShape, Moving
    <3> QED BY <1>2, <1>3, <1>7, <1>b, <2>2, <3>1 DEF ThrWired
  <2> QED BY <2>1, <2>2
<1>12. \A g \in Host : HostWired(g)'
  <2> SUFFICES ASSUME NEW g \in Host PROVE HostWired(g)'
    OBVIOUS
  <2>1. CASE g = h
    <3>1. InUse(s, h)'
      BY <1>2, <1>3, <1>4, <1>5 DEF InUse, PeerHost
    <3>2. Len(<<s>>) = 1 /\ <<s>>[1] = s
      OBVIOUS
    <3>3. Len(pend'[h]) = 1 /\ pend'[h][1] = s
      BY <1>6, <3>2, Zenon
    <3>4. port'[h] # None
      BY <1>2, <1>5
    <3> QED BY <2>1, <3>1, <3>3, <3>4 DEF HostWired
  <2>2. CASE g # h
    <3>1. pend[g] # <<>> => pend[g][1] \in Sock
      BY <1>a
    <3> QED BY <1>2, <1>6, <1>9, <1>b, <2>2, <3>1 DEF HostWired
  <2> QED BY <2>1, <2>2
<1>13. Unshared'
  <2> SUFFICES ASSUME NEW d \in Client, proc[d].data # None
               PROVE  /\ \A q \in Client : q # d => proc[q].data # proc[d].data
                      /\ pend'[HostOf[d]] # <<>> => pend'[HostOf[d]][1] # proc[d].data
    BY <1>2 DEF Unshared
  <2>1. proc[d].data \in Sock /\ HostOf[d] \in Host
    BY <1>a DEF ProcState
  <2>2. proc[d].data # s
    BY <1>9, <1>b, <2>1 DEF ProcWired
  <2>3. Unshared /\ <<s>>[1] = s
    BY DEF DataInv, Wired
  <2> QED BY <1>6, <2>1, <2>2, <2>3 DEF Unshared
<1>14. \A g : Calm(g)' <=> Calm(g)
    BY <1>2 DEF Calm, KilledOn
<1>15. Calm(h) => /\ Session(k) /\ Together(k) /\ Accepting(k)
                  /\ port[h] = c /\ proc[c].conn = k
                  /\ proc[c].pc \in {"reply", "accept"}
  <2> SUFFICES ASSUME Calm(h)
               PROVE  /\ Session(k) /\ Together(k) /\ Accepting(k)
                      /\ port[h] = c /\ proc[c].conn = k
                      /\ proc[c].pc \in {"reply", "accept"}
    OBVIOUS
  <2>1. Session(k)
    BY <1>4, <1>5 DEF DataInv, Calmly
  <2>2. Together(k) /\ Accepting(k)
    BY <1>2, <2>1 DEF Session
  <2>3. /\ proc[c].pc \in {"reply", "accept"} /\ proc[c].cmd.id \in Transfer
        /\ proc[c].conn = k
    BY <1>4, <1>7, <1>b, <2>2 DEF Together, Accepting, ThrWired
  <2>4. port[h] = c
    BY <1>5, <1>b, <2>3 DEF ProcWired, InTransfer
  <2> QED BY <2>1, <2>2, <2>3, <2>4
<1>16. ASSUME NEW q \in Conn, ctl'[q].by \in Client, Calm(PeerHost(q))' PROVE Session(q)'
  <2>1. ctl[q].by \in Client /\ Calm(PeerHost(q)) /\ ctl'[q] = ctl[q] /\ proc' = proc
    BY <1>2, <1>14, <1>16 DEF PeerHost
  <2>2. CASE q = k
    <3>1. Together(k) /\ Accepting(k)
      BY <1>5, <1>15, <2>1, <2>2
    <3>2. Together(k)' /\ Accepting(k)'
      BY <1>2, <1>7, <3>1 DEF Together, Accepting
    <3>3. Joined(k)'
      BY <1>2, <1>3, <1>5, <1>6, <1>7, <3>2 DEF Joined, PeerHost
    <3> QED BY <1>2, <1>8, <2>2, <3>2, <3>3 DEF Session, Together
  <2>3. CASE q # k
    <3>1. thr[q].pc \in Moving => /\ thr[q].data \in Sock /\ thr[q].data # s
      BY <1>3, <1>b DEF ThrWired, DataInv, TypeInv, Shape, ThreadShape, Moving
    <3>2. PICK g \in Host : g = PeerHost(q)
      BY <1>a, <2>1 DEF PeerHost
    <3>3. g = h => port[h] # ctl[q].by \/ ctl[q].cli # "open"
      BY <1>15, <1>b, <2>1, <2>3, <3>2 DEF ThrWired
    <3>4. Session(q) /\ thr'[q] = thr[q]
      BY <1>7, <2>1, <2>3 DEF DataInv, Calmly
    <3> QED BY <1>3, <1>6, <2>1, <3>1, <3>2, <3>3, <3>4, SessionKept DEF DataInv
  <2> QED BY <2>2, <2>3
<1>17. ASSUME NEW g \in Host, Calm(g)' PROVE Waiting(g)'
  <2>1. Waiting(g) /\ HostWired(g) /\ Calm(g)
    BY <1>14, <1>17, <1>b DEF DataInv, Calmly
  <2>2. CASE g = h
    <3>1. <<s>>[1] = s
      OBVIOUS
    <3> QED BY <1>2, <1>3, <1>6, <1>15, <2>1, <2>2, <3>1 DEF Waiting
  <2>3. CASE g # h
    <3>1. pend[g] # <<>> => pend[g][1] \in Sock /\ dat'[pend[g][1]] = dat[pend[g][1]]
      BY <1>3, <1>9, <1>a, <2>1 DEF HostWired
    <3> QED BY <1>2, <1>6, <2>1, <2>3, <3>1 DEF Waiting
  <2> QED BY <2>2, <2>3
<1>18. OwnData'
  <2> SUFFICES ASSUME NEW d \in Client, proc[d].data # None
               PROVE  dat'[proc[d].data].by = proc[d].conn \/ KilledOn(HostOf[d])'
    BY <1>2 DEF OwnData
  <2>1. proc[d].data \in Sock /\ HostOf[d] \in Host
    BY <1>a DEF ProcState
  <2>2. dat'[proc[d].data] = dat[proc[d].data]
    BY <1>3, <1>9, <1>b, <2>1 DEF ProcWired
  <2>3. KilledOn(HostOf[d])' <=> KilledOn(HostOf[d])
    BY <1>14 DEF Calm
  <2> QED BY <2>2, <2>3 DEF DataInv, Calmly, OwnData
<1> QED BY <1>10, <1>11, <1>12, <1>13, <1>16, <1>17, <1>18 DEF Wired, Calmly

\* The process ends: every thread is over, and what the clients have stays theirs.
LEMMA CreateAbortsKeeps ==
    ASSUME DataInv, NEW k \in Conn, CreateAborts(k)
    PROVE  Wired' /\ Calmly'
<1>a. /\ proc \in [Client -> ProcState] /\ pend \in [Host -> Seq(Sock)]
      /\ ctl \in [Conn -> CtlState] /\ dat \in [Sock -> DatState]
      /\ HostOf \in [Client -> Host] /\ None \notin Sock
    BY DataTypes DEF DataInv
<1>b. /\ \A c \in Client : ProcWired(c)
      /\ \A q \in Conn : ThrWired(q)
      /\ \A h \in Host : HostWired(h)
    BY DEF DataInv, Wired
<1>1. /\ UNCHANGED <<proc, port, pend>>
      /\ \A q \in Conn : /\ thr[q].pc = "none" => thr'[q] = thr[q]
                         /\ thr[q].pc # "none" => thr'[q].pc = "end" /\ thr'[q].file = None
    BY DEF CreateAborts, clientVars, NoThread
<1>2. \A q \in Conn : /\ ctl'[q].by = ctl[q].by /\ ctl'[q].cli = ctl[q].cli
                      /\ ctl'[q].srv # "open"
    BY <1>a DEF CreateAborts, Aborted, CtlState
<1>3. \A s \in Sock : dat[s].cli = "open" => dat'[s].cli = "open" /\ dat'[s].by = dat[s].by
  <2> DEFINE e == [s \in Sock |-> Aborted(dat[s])]
  <2>1. \A s \in Sock : e[s].cli = dat[s].cli /\ e[s].by = dat[s].by
    BY <1>a DEF Aborted, DatState
  <2>2. dat' = Live(e)
    BY DEF CreateAborts
  <2> HIDE DEF e
  <2> QED BY <2>1, <2>2 DEF Live
<1>4. \A x \in Sock, g \in Host : InUse(x, g) => InUse(x, g)'
    BY <1>2, <1>3 DEF InUse, PeerHost
<1>5. \A q \in Conn : thr'[q].pc \in Over
    BY <1>1 DEF Over
<1>6. Wired'
  <2>1. \A c \in Client : ProcWired(c)'
    <3> SUFFICES ASSUME NEW c \in Client PROVE ProcWired(c)'
      OBVIOUS
    <3>1. proc[c].data \in Sock \cup {None} /\ HostOf[c] \in Host
      BY <1>a DEF ProcState
    <3>2. proc[c].pc # "off" => proc[c].conn \in Conn
      BY DEF DataInv, TalkInv, Talk
    <3> QED BY <1>1, <1>2, <1>4, <1>b, <3>1, <3>2 DEF ProcWired
  <2>2. \A q \in Conn : ThrWired(q)'
    BY <1>1, <1>2, <1>5, <1>b DEF ThrWired, Over, Moving
  <2>3. \A h \in Host : HostWired(h)'
    <3> SUFFICES ASSUME NEW h \in Host PROVE HostWired(h)'
      OBVIOUS
    <3>1. pend[h] # <<>> => pend[h][1] \in Sock
      BY <1>a
    <3> QED BY <1>1, <1>4, <1>b, <3>1 DEF HostWired
  <2> QED BY <1>1, <2>1, <2>2, <2>3 DEF Wired, Unshared, DataInv
<1>7. \A g : Calm(g)' <=> Calm(g)
    BY <1>2 DEF Calm, KilledOn
<1>8. ASSUME NEW q \in Conn, ctl'[q].by \in Client, Calm(PeerHost(q))' PROVE Session(q)'
    BY <1>1, <1>5 DEF Session, Over
<1>9. ASSUME NEW h \in Host, Calm(h)' PROVE Waiting(h)'
  <2>1. Waiting(h) /\ HostWired(h) /\ (pend[h] # <<>> => pend[h][1] \in Sock)
    BY <1>7, <1>9, <1>a, <1>b DEF DataInv, Calmly
  <2> QED BY <1>1, <1>3, <2>1 DEF Waiting, HostWired, InUse
<1>10. OwnData'
  <2> SUFFICES ASSUME NEW c \in Client, proc[c].data # None
               PROVE  dat'[proc[c].data].by = proc[c].conn \/ KilledOn(HostOf[c])'
    BY <1>1 DEF OwnData
  <2>1. proc[c].data \in Sock /\ dat[proc[c].data].cli = "open"
    BY <1>a, <1>b DEF ProcWired, InUse, ProcState
  <2>2. KilledOn(HostOf[c])' <=> KilledOn(HostOf[c])
    BY <1>7 DEF Calm
  <2> QED BY <1>3, <2>1, <2>2 DEF DataInv, Calmly, OwnData
<1> QED BY <1>6, <1>8, <1>9, <1>10 DEF Calmly

-----------------------------------------------------------------------------
(* The steps of a client.                                                   *)

\* A data connection that c has, or that waits at the port it holds.
Holds(c, s) == \/ proc[c].data = s
               \/ /\ port[HostOf[c]] = c /\ pend[HostOf[c]] # <<>>
                  /\ pend[HostOf[c]][1] = s

\* Nobody else has such a connection, and on a calm machine it is of the session of c.
LEMMA HeldAlone ==
    ASSUME DataInv, NEW c \in Client, proc[c].pc # "off", NEW s \in Sock, Holds(c, s)
    PROVE  /\ InUse(s, HostOf[c])
           /\ \A q \in Client : q # c => proc[q].data # s
           /\ \A g \in Host : g # HostOf[c] /\ pend[g] # <<>> => pend[g][1] # s
           /\ Calm(HostOf[c]) => dat[s].by = proc[c].conn
<1>a. /\ proc \in [Client -> ProcState] /\ pend \in [Host -> Seq(Sock)]
      /\ HostOf \in [Client -> Host] /\ None \notin Sock /\ None \notin Client
    BY DataTypes DEF DataInv
<1>b. /\ \A q \in Client : ProcWired(q)
      /\ \A g \in Host : HostWired(g)
      /\ Unshared
    BY DEF DataInv, Wired
<1>1. PICK h \in Host : h = HostOf[c]
    BY <1>a
<1>2. InUse(s, h)
    BY <1>1, <1>a, <1>b DEF Holds, ProcWired, HostWired
<1>3. ASSUME NEW q \in Client, q # c, proc[q].data = s PROVE FALSE
  <2>1. InUse(s, HostOf[q]) /\ proc[q].data # None
    BY <1>3, <1>a, <1>b DEF ProcWired
  <2>2. HostOf[q] = h
    BY <1>2, <2>1 DEF InUse
  <2>3. proc[c].data # s
    BY <1>3, <1>b, <2>1 DEF Unshared
  <2> QED BY <1>1, <1>3, <1>b, <2>1, <2>2, <2>3 DEF Holds, Unshared
<1>4. ASSUME NEW g \in Host, g # h, pend[g] # <<>> PROVE pend[g][1] # s
    BY <1>2, <1>4, <1>b DEF HostWired, InUse
<1>5. Calm(h) => dat[s].by = proc[c].conn
  <2>1. CASE proc[c].data = s
    BY <1>1, <1>a, <2>1 DEF DataInv, Calmly, OwnData, Calm
  <2>2. CASE port[h] = c /\ pend[h] # <<>> /\ pend[h][1] = s
    BY <1>1, <2>2 DEF DataInv, Calmly, Waiting
  <2> QED BY <1>1, <2>1, <2>2 DEF Holds
<1> QED BY <1>1, <1>2, <1>3, <1>4, <1>5

\* A step of a client that has a connection: what it may do to the port, the connections
\* and the queue of its own session, and that its own things are in order after it.
LEMMA ClientEffect ==
    ASSUME DataInv, NEW c \in Client, NEW k \in Conn, k = proc[c].conn,
           NEW h \in Host, h = HostOf[c], proc[c].pc # "off", UNCHANGED thr,
           \A q \in Client : q # c => proc'[q] = proc[q],
           \A q \in Conn : q # k => ctl'[q] = ctl[q],
           ctl'[k].by = ctl[k].by, ctl'[k].srv = ctl[k].srv, ctl'[k].cli # "none",
           ctl'[k].cli = "open" => proc'[c].pc # "off" /\ proc'[c].conn = k,
           \A g \in Host : g # h => port'[g] = port[g] /\ pend'[g] = pend[g],
           port'[h] = port[h] \/ port[h] \in {None, c},
           pend'[h] = pend[h] \/ (port[h] = c /\ pend'[h] = <<>>),
           \A s \in Sock : dat[s].srv = "open" => /\ dat'[s].srv = "open"
                                                  /\ dat'[s].by = dat[s].by,
           \A s \in Sock :
              ~ Holds(c, s) /\ (dat[s].cli = "open" \/ dat[s].srv = "open") =>
                 dat'[s].cli = dat[s].cli /\ dat'[s].srv = dat[s].srv /\ dat'[s].by = dat[s].by,
           ProcWired(c)', HostWired(h)',
           proc'[c].data # None =>
              /\ Holds(c, proc'[c].data)
              /\ pend'[h] # <<>> => pend'[h][1] # proc'[c].data,
           Calm(h) /\ Calm(h)' => /\ Session(k)' /\ Waiting(h)'
                                  /\ proc'[c].data # None => dat'[proc'[c].data].by = proc'[c].conn
    PROVE  Wired' /\ Calmly'
<1>a. /\ proc \in [Client -> ProcState] /\ pend \in [Host -> Seq(Sock)]
      /\ thr \in [Conn -> ThrState] /\ port \in [Host -> Client \cup {None}]
      /\ HostOf \in [Client -> Host] /\ None \notin Sock /\ None \notin Client
    BY DataTypes DEF DataInv
<1>b. /\ \A q \in Client : ProcWired(q)
      /\ \A q \in Conn : ThrWired(q)
      /\ \A g \in Host : HostWired(g)
      /\ Unshared
    BY DEF DataInv, Wired
<1>c. ctl[k].by = c /\ ctl[k].cli = "open" /\ PeerHost(k) = h
    BY <1>b DEF ProcWired, DataInv, TalkInv, Talk, PeerHost
<1>d. \A q \in Conn : PeerHost(q)' = PeerHost(q) /\ ctl'[q].by = ctl[q].by
    BY DEF PeerHost
<1>e. \A s \in Sock, g \in Host : InUse(s, g) /\ ~ Holds(c, s) => InUse(s, g)'
    BY <1>d DEF InUse
<1>f. \A s \in Sock : Holds(c, s) =>
           /\ \A q \in Client : q # c => proc[q].data # s
           /\ \A g \in Host : g # h /\ pend[g] # <<>> => pend[g][1] # s
           /\ Calm(h) => dat[s].by = k
           /\ PeerHost(dat[s].by) = h
    BY HeldAlone DEF InUse
<1>g. \A g : Calm(g)' => Calm(g)
  <2>1. \A q \in Conn : ctl[q].cli = "killed" => ctl'[q].cli = "killed" /\ ctl'[q].by = ctl[q].by
    BY <1>c
  <2> QED BY <2>1, CalmBefore
<1>1. ASSUME NEW q \in Client PROVE ProcWired(q)'
  <2>1. CASE q = c
    BY <2>1
  <2>2. CASE q # c
    <3>1. ProcWired(q) /\ proc'[q] = proc[q] /\ HostOf[q] \in Host
      BY <1>a, <1>b, <2>2
    <3>2. proc[q].data \in Sock \cup {None}
      BY <1>a DEF ProcState
    <3>3. proc[q].data # None => InUse(proc[q].data, HostOf[q])'
      BY <1>e, <1>f, <2>2, <3>1, <3>2 DEF ProcWired
    <3>4. proc[q].pc # "off" => ctl'[proc[q].conn].cli = "open"
      <4>1. CASE proc[q].pc # "off"
        <5>1. proc[q].conn \in Conn /\ ctl[proc[q].conn].by = q
          BY <4>1 DEF DataInv, TalkInv, Talk
        <5>2. proc[q].conn # k
          BY <1>c, <2>2, <5>1
        <5> QED BY <3>1, <4>1, <5>1, <5>2 DEF ProcWired
      <4> QED BY <4>1
    <3>5. port[HostOf[q]] = q => port'[HostOf[q]] = q
      BY <1>a, <2>2, <3>1
    <3> QED BY <3>1, <3>3, <3>4, <3>5 DEF ProcWired
  <2> QED BY <2>1, <2>2
<1>2. ASSUME NEW q \in Conn PROVE ThrWired(q)'
  <2>1. ThrWired(q) /\ thr'[q] = thr[q]
    BY <1>b
  <2>2. thr[q].pc \in Moving => /\ thr[q].data \in Sock /\ dat[thr[q].data].by = q
                                /\ dat[thr[q].data].srv = "open"
    BY <2>1 DEF ThrWired, DataInv, TypeInv, Shape, ThreadShape, Moving
  <2>3. thr[q].pc \in Moving => dat'[thr[q].data].by = q /\ dat'[thr[q].data].srv = "open"
    BY <2>2
  <2>4. CASE q = k
    BY <1>c, <2>1, <2>3, <2>4 DEF ThrWired
  <2>5. CASE q # k
    <3>1. ctl[q].cli = "open" => ctl[q].by # c /\ ctl[q].by \in Client
      BY <2>1, <2>5 DEF ThrWired
    <3> QED BY <2>1, <2>3, <2>5, <3>1 DEF ThrWired
  <2> QED BY <2>4, <2>5
<1>3. ASSUME NEW g \in Host PROVE HostWired(g)'
  <2>1. CASE g = h
    BY <2>1
  <2>2. CASE g # h
    <3>1. pend[g] # <<>> => pend[g][1] \in Sock
      BY <1>a
    <3>2. pend[g] # <<>> => InUse(pend[g][1], g)'
      BY <1>b, <1>e, <1>f, <2>2, <3>1 DEF HostWired
    <3> QED BY <1>b, <2>2, <3>2 DEF HostWired
  <2> QED BY <2>1, <2>2
<1>4. Unshared'
  <2> SUFFICES ASSUME NEW d \in Client, proc'[d].data # None
               PROVE  /\ \A q \in Client : q # d => proc'[q].data # proc'[d].data
                      /\ pend'[HostOf[d]] # <<>> => pend'[HostOf[d]][1] # proc'[d].data
    BY DEF Unshared
  <2>1. proc'[c].data # None => /\ proc'[c].data \in Sock
                                /\ \A q \in Client : q # c => proc[q].data # proc'[c].data
    <3>1. proc'[c].data # None => proc'[c].data \in Sock
      BY <1>a DEF Holds, ProcState
    <3> QED BY <1>f, <3>1
  <2>2. CASE d = c
    BY <2>1, <2>2
  <2>3. CASE d # c
    <3>1. proc'[d] = proc[d] /\ HostOf[d] \in Host
      BY <1>a, <2>3
    <3>2. \A q \in Client : q # d => proc'[q].data # proc[d].data
      BY <1>b, <2>1, <2>3, <3>1 DEF Unshared
    <3>3. pend'[HostOf[d]] # <<>> => pend'[HostOf[d]] = pend[HostOf[d]]
      BY <3>1
    <3> QED BY <1>b, <3>1, <3>2, <3>3 DEF Unshared
  <2> QED BY <2>2, <2>3
<1>5. ASSUME NEW q \in Conn, ctl'[q].by \in Client, Calm(PeerHost(q))' PROVE Session(q)'
  <2>1. ctl[q].by \in Client /\ Calm(PeerHost(q)) /\ Session(q) /\ ThrWired(q)
    BY <1>5, <1>b, <1>d, <1>g DEF DataInv, Calmly
  <2>2. CASE q = k
    BY <1>5, <1>c, <1>d, <2>1, <2>2
  <2>3. CASE q # k
    <3>1. ctl'[q] = ctl[q] /\ thr'[q] = thr[q]
      BY <2>3
    <3>2. ctl[q].cli = "open" => ctl[q].by # c
      BY <2>1, <2>3 DEF ThrWired
    <3>3. ctl[q].cli = "open" => proc'[ctl[q].by] = proc[ctl[q].by]
      BY <2>1, <3>2
    <3>4. PICK g \in Host : g = PeerHost(q)
      BY <1>a, <2>1 DEF PeerHost
    <3>5. \/ pend'[g] = pend[g]
          \/ port[g] # ctl[q].by
          \/ ctl[q].cli # "open"
      BY <3>2
    <3>6. thr[q].pc \in Moving => dat'[thr[q].data].cli = dat[thr[q].data].cli
      <4>1. CASE thr[q].pc \in Moving
        <5>1. /\ thr[q].data \in Sock /\ dat[thr[q].data].by = q
              /\ dat[thr[q].data].srv = "open"
          BY <2>1, <4>1 DEF ThrWired, DataInv, TypeInv, Shape, ThreadShape, Moving
        <5>2. ~ Holds(c, thr[q].data)
          BY <1>f, <2>1, <2>3, <5>1
        <5> QED BY <5>1, <5>2
      <4> QED BY <4>1
    <3> QED BY <2>1, <3>1, <3>3, <3>4, <3>5, <3>6, SessionKept DEF DataInv
  <2> QED BY <2>2, <2>3
<1>6. ASSUME NEW g \in Host, Calm(g)' PROVE Waiting(g)'
  <2>1. CASE g = h
    BY <1>6, <1>g, <2>1
  <2>2. CASE g # h
    <3>1. Waiting(g) /\ HostWired(g)
      BY <1>6, <1>b, <1>g DEF DataInv, Calmly
    <3>2. CASE pend[g] = <<>>
      BY <2>2, <3>2 DEF Waiting
    <3>3. CASE pend[g] # <<>>
      <4>1. pend[g][1] \in Sock /\ port[g] \in Client
        BY <1>a, <3>1, <3>3 DEF HostWired
      <4>2. ~ Holds(c, pend[g][1]) /\ dat[pend[g][1]].cli = "open"
        BY <1>f, <2>2, <3>1, <3>3, <4>1 DEF HostWired, InUse
      <4>3. port[g] # c
        BY <2>2, <4>1, <1>a DEF DataInv, PortInTransferOnly
      <4>4. dat'[pend[g][1]].by = dat[pend[g][1]].by /\ proc'[port[g]] = proc[port[g]]
        BY <4>1, <4>2, <4>3
      <4> QED BY <2>2, <3>1, <4>4 DEF Waiting
    <3> QED BY <3>2, <3>3
  <2> QED BY <2>1, <2>2
<1>7. OwnData'
  <2> SUFFICES ASSUME NEW d \in Client, proc'[d].data # None, ~ KilledOn(HostOf[d])'
               PROVE  dat'[proc'[d].data].by = proc'[d].conn
    BY DEF OwnData
  <2>1. Calm(HostOf[d]) /\ Calm(HostOf[d])'
    BY <1>g DEF Calm
  <2>2. CASE d = c
    BY <2>1, <2>2
  <2>3. CASE d # c
    <3>1. proc'[d] = proc[d] /\ proc[d].data \in Sock
      BY <1>a, <2>3 DEF ProcState
    <3>2. dat[proc[d].data].cli = "open" /\ ~ Holds(c, proc[d].data)
      BY <1>b, <1>f, <2>3, <3>1 DEF ProcWired, InUse
    <3> QED BY <1>a, <2>1, <3>1, <3>2 DEF DataInv, Calmly, OwnData, Calm
  <2> QED BY <2>2, <2>3
<1> QED BY <1>1, <1>2, <1>3, <1>4, <1>5, <1>6, <1>7 DEF Wired, Calmly

\* ClosePort, when d differs from dat at most in how the client's own data connection was
\* closed: what it resets was the client's, or waited for it.
LEMMA PortCloses ==
    ASSUME DataInv, NEW c \in Client, NEW h \in Host, h = HostOf[c], NEW d, ClosePort(c, d),
           \A s \in Sock : /\ d[s].srv = dat[s].srv /\ d[s].by = dat[s].by
                           /\ proc[c].data # s => d[s] = dat[s]
    PROVE  /\ \A g \in Host : g # h => port'[g] = port[g] /\ pend'[g] = pend[g]
           /\ IF port[h] = c THEN port'[h] = None /\ pend'[h] = <<>>
                             ELSE port'[h] = port[h] /\ pend'[h] = pend[h]
           /\ \A s \in Sock : dat[s].srv = "open" => /\ dat'[s].srv = "open"
                                                     /\ dat'[s].by = dat[s].by
           /\ \A s \in Sock : dat[s].srv = "open" /\ pend[h] = <<>> => dat'[s].cli = d[s].cli
           /\ \A s \in Sock :
                ~ Holds(c, s) /\ (dat[s].cli = "open" \/ dat[s].srv = "open") =>
                  dat'[s].cli = dat[s].cli /\ dat'[s].srv = dat[s].srv /\ dat'[s].by = dat[s].by
<1>a. /\ port \in [Host -> Client \cup {None}] /\ pend \in [Host -> Seq(Sock)]
      /\ dat \in [Sock -> DatState]
    BY DataTypes DEF DataInv
<1>b. Len(pend[h]) <= 1
    BY DEF DataInv, Wired, HostWired
<1> DEFINE e == ResetWaiting(d, h)
<1>1. CASE port[h] = c
  <2>1. /\ port' = [port EXCEPT ![h] = None] /\ pend' = [pend EXCEPT ![h] = <<>>]
        /\ dat' = Live(e)
    BY <1>1 DEF ClosePort
  <2>2. \A s \in Sock : /\ e[s].srv = dat[s].srv /\ e[s].by = dat[s].by
                        /\ pend[h] = <<>> => e[s].cli = d[s].cli
                        /\ ~ Holds(c, s) => e[s].cli = dat[s].cli
    <3> SUFFICES ASSUME NEW s \in Sock
                 PROVE  /\ e[s].srv = dat[s].srv /\ e[s].by = dat[s].by
                        /\ pend[h] = <<>> => e[s].cli = d[s].cli
                        /\ ~ Holds(c, s) => e[s].cli = dat[s].cli
      OBVIOUS
    <3>1. d[s].srv = dat[s].srv /\ d[s].by = dat[s].by
      OBVIOUS
    <3>2. CASE \E i \in DOMAIN pend[h] : pend[h][i] = s
      <4>1. e[s] = [d[s] EXCEPT !.cli = "killed"]
        BY <3>2 DEF ResetWaiting
      <4>2. e[s].srv = d[s].srv /\ e[s].by = d[s].by
        BY <4>1
      <4>3. pend[h] # <<>> /\ pend[h][1] = s
        BY <1>a, <1>b, <3>2
      <4> QED BY <1>1, <3>1, <4>2, <4>3 DEF Holds
    <3>3. CASE ~ \E i \in DOMAIN pend[h] : pend[h][i] = s
      <4>1. e[s] = d[s]
        BY <3>3 DEF ResetWaiting
      <4>2. ~ Holds(c, s) => d[s] = dat[s]
        BY DEF Holds
      <4> QED BY <3>1, <4>1, <4>2
    <3> QED BY <3>2, <3>3
  <2> HIDE DEF e
  <2>3. \A s \in Sock : dat[s].srv = "open" => dat'[s] = e[s]
    BY <2>1, <2>2 DEF Live
  <2>4. \A s \in Sock : ~ Holds(c, s) /\ dat[s].cli = "open" => dat'[s] = e[s]
    BY <2>1, <2>2 DEF Live
  <2> QED BY <1>1, <1>a, <2>1, <2>2, <2>3, <2>4
<1>2. CASE port[h] # c
  <2>1. port' = port /\ pend' = pend /\ dat' = Live(d)
    BY <1>2 DEF ClosePort
  <2>2. \A s \in Sock : dat[s].srv = "open" => dat'[s] = d[s]
    BY <2>1 DEF Live
  <2>3. \A s \in Sock : ~ Holds(c, s) => d[s] = dat[s]
    BY DEF Holds
  <2>4. \A s \in Sock : ~ Holds(c, s) /\ dat[s].cli = "open" => dat'[s] = dat[s]
    BY <2>1, <2>3 DEF Live
  <2> QED BY <1>2, <2>1, <2>2, <2>3, <2>4
<1> QED BY <1>1, <1>2

\* The thread of a client that is outside the transfer, or leaves it, on a calm machine: the
\* thread is over, or has no data connection, or one that this client closed properly.
LEMMA ThreadLeft ==
    ASSUME DataInv, NEW c \in Client, NEW k \in Conn, k = proc[c].conn, proc[c].pc # "off",
           Session(k),
           \/ thr[k].pc \in Over
           \/ /\ proc[c].pc = "reply" /\ ctl[k].rsp # <<>>
              /\ proc[c].cmd.id \notin Transfer \/ ctl[k].rsp[1].id # "OK"
           \/ proc[c].pc = "get" /\ dat[proc[c].data].srv # "open"
           \/ proc[c].pc \in {"hello", "ready", "write", "put"}
    PROVE  /\ thr[k].pc \notin Over => ctl[k].req = <<>>
           /\ thr[k].pc \notin {"connect", "list", "send"}
           /\ thr[k].pc \in {"create", "store"} =>
                \/ dat[thr[k].data].cli = "closed"
                \/ proc[c].pc = "put" /\ proc[c].data = thr[k].data
<1>a. ctl[k].by = c /\ ProcWired(c) /\ ThrWired(k) /\ Talk(c)
    BY DEF DataInv, Wired, TalkInv, Talk
<1>b. thr[k].pc \in Moving => thr[k].data \in Sock /\ None \notin Sock
    BY DataTypes DEF DataInv, TypeInv, Shape, ThreadShape, Moving
<1>c. thr[k].pc = "connect" => thr[k].cmd.id \in Transfer
    BY DEF DataInv, TypeInv, Shape, ThreadShape
<1>d. proc[c].pc = "put" => proc[c].cmd.id = "UP"
    BY DEF DataInv, TypeInv, Shape, ClientShape
<1>1. CASE thr[k].pc \in Over
    BY <1>1 DEF Over
<1>2. CASE /\ proc[c].pc = "reply" /\ ctl[k].rsp # <<>>
           /\ proc[c].cmd.id \notin Transfer \/ ctl[k].rsp[1].id # "OK"
  <2>1. ctl[k].req = <<>>
    BY <1>2, <1>a DEF Talk, Coming, Silent
  <2>2. proc[c].data = None
    BY <1>2, <1>a DEF ProcWired
  <2>3. ~ (Together(k) /\ Accepting(k) /\ thr[k].pc \in {"connect"} \cup Moving)
    BY <1>2, <1>a, <1>c DEF Together, Accepting, ThrWired, Moving, Transfer
  <2>4. thr[k].pc \in Moving => ~ Joined(k)
    BY <1>a, <1>b, <2>2, <2>3 DEF Joined
  <2> QED BY <2>1, <2>3, <2>4 DEF Session, Moving
<1>3. CASE /\ proc[c].pc \in {"hello", "ready", "write", "get", "put"}
           /\ thr[k].pc \notin Over
  <2>1. ~ Accepting(k) /\ ~ Asked(k)
    BY <1>3, <1>a DEF Accepting, Asked
  <2>2. ctl[k].req = <<>> /\ thr[k].pc # "connect"
    BY <1>3, <2>1 DEF Session
  <2>3. thr[k].pc \in Moving /\ Joined(k) => /\ proc[c].data = thr[k].data
                                             /\ proc[c].cmd = thr[k].cmd
                                             /\ dat[proc[c].data].srv = "open"
                                             /\ proc[c].pc \in {"get", "put"}
    BY <1>a, <1>b, <2>1 DEF Joined, Together, ThrWired, ProcWired
  <2>4. CASE \/ proc[c].pc = "get" /\ dat[proc[c].data].srv # "open"
             \/ proc[c].pc \in {"hello", "ready", "write"}
    BY <2>2, <2>3, <2>4 DEF Session, Moving
  <2>5. CASE proc[c].pc = "put"
    BY <1>a, <1>d, <2>2, <2>3, <2>5 DEF Session, Moving, ThrWired
  <2> QED BY <1>3, <2>4, <2>5
<1> QED BY <1>1, <1>2, <1>3

\* A client leaves its command, or its process: it closes what it has, and the port.
Leaves(c, k, h, d) ==
    /\ k = proc[c].conn /\ h = HostOf[c] /\ proc[c].pc # "off" /\ UNCHANGED thr
    /\ ClosePort(c, d)
    /\ \A s \in Sock : /\ d[s].srv = dat[s].srv /\ d[s].by = dat[s].by
                       /\ proc[c].data # s => d[s] = dat[s]
    /\ \A q \in Client : q # c => proc'[q] = proc[q]
    /\ \A q \in Conn : q # k => ctl'[q] = ctl[q]
    /\ ctl'[k].by = ctl[k].by /\ ctl'[k].srv = ctl[k].srv /\ ctl'[k].req = ctl[k].req
    /\ ctl'[k].cli # "none" /\ proc'[c].data = None
    /\ \/ proc'[c].pc = "off" /\ ctl'[k].cli # "open"
       \/ proc'[c].pc = "ready" /\ proc'[c].conn = k /\ ctl'[k].cli = "open"
    /\ \/ ctl'[k].cli = "killed"
       \/ thr[k].pc \in Over
       \/ /\ proc[c].pc = "reply" /\ ctl[k].rsp # <<>>
          /\ proc[c].cmd.id \notin Transfer \/ ctl[k].rsp[1].id # "OK"
       \/ proc[c].pc = "get" /\ dat[proc[c].data].srv # "open"
       \/ proc[c].pc = "put" /\ d[proc[c].data].cli = "closed"
       \/ proc[c].pc = "ready"

\* It takes nothing from the others and breaks no session.
LEMMA ClientLeaves ==
    ASSUME DataInv, NEW c \in Client, NEW k \in Conn, NEW h \in Host, NEW d,
           Leaves(c, k, h, d)
    PROVE  Wired' /\ Calmly'
<1> USE DEF Leaves
<1>a. /\ proc \in [Client -> ProcState] /\ pend \in [Host -> Seq(Sock)]
      /\ port \in [Host -> Client \cup {None}]
      /\ HostOf \in [Client -> Host] /\ None \notin Sock /\ None \notin Client
    BY DataTypes DEF DataInv
<1>b. /\ ProcWired(c) /\ ThrWired(k) /\ HostWired(h)
      /\ ctl[k].by = c /\ PeerHost(k) = h /\ PeerHost(k)' = h
    BY DEF DataInv, Wired, TalkInv, Talk, PeerHost
<1>1. /\ \A g \in Host : g # h => port'[g] = port[g] /\ pend'[g] = pend[g]
      /\ IF port[h] = c THEN port'[h] = None /\ pend'[h] = <<>>
                        ELSE port'[h] = port[h] /\ pend'[h] = pend[h]
      /\ \A s \in Sock : dat[s].srv = "open" => /\ dat'[s].srv = "open"
                                                /\ dat'[s].by = dat[s].by
      /\ \A s \in Sock : dat[s].srv = "open" /\ pend[h] = <<>> => dat'[s].cli = d[s].cli
      /\ \A s \in Sock :
           ~ Holds(c, s) /\ (dat[s].cli = "open" \/ dat[s].srv = "open") =>
             dat'[s].cli = dat[s].cli /\ dat'[s].srv = dat[s].srv /\ dat'[s].by = dat[s].by
    BY PortCloses
<1>2. ProcWired(c)'
    BY DEF ProcWired, InTransfer
<1>3. port[h] # c /\ pend[h] # <<>> =>
         /\ pend[h][1] \in Sock /\ ~ Holds(c, pend[h][1]) /\ InUse(pend[h][1], h)
         /\ port[h] \in Client
  <2> SUFFICES ASSUME port[h] # c, pend[h] # <<>>
               PROVE  /\ pend[h][1] \in Sock /\ ~ Holds(c, pend[h][1]) /\ InUse(pend[h][1], h)
                      /\ port[h] \in Client
    OBVIOUS
  <2>1. pend[h][1] \in Sock /\ InUse(pend[h][1], h) /\ port[h] \in Client
    BY <1>a, <1>b DEF HostWired
  <2>2. proc[c].data # pend[h][1]
    BY <1>a, <2>1 DEF DataInv, Wired, Unshared
  <2> QED BY <2>1, <2>2 DEF Holds
<1>4. HostWired(h)'
  <2>1. CASE port[h] = c
    <3>1. Len(<<>>) = 0
      OBVIOUS
    <3> QED BY <1>1, <2>1, <3>1 DEF HostWired
  <2>2. CASE port[h] # c
    <3>1. \A q \in Conn : PeerHost(q)' = PeerHost(q)
      BY DEF PeerHost
    <3>2. ASSUME NEW s \in Sock, NEW q \in Conn, q = dat[s].by,
                 ~ Holds(c, s), InUse(s, h)
          PROVE  InUse(s, h)'
      <4>1. dat[s].cli = "open" /\ ctl[q].by \in Client /\ PeerHost(q) = h
        BY <3>2 DEF InUse
      <4>2. dat'[s].cli = "open" /\ dat'[s].by = q
        BY <1>1, <3>2, <4>1
      <4>3. ctl'[q].by = ctl[q].by /\ PeerHost(q)' = h
        BY <3>1, <4>1
      <4> QED BY <4>1, <4>2, <4>3 DEF InUse
    <3>3. ASSUME pend[h] # <<>> PROVE InUse(pend[h][1], h)'
      <4>1. PICK s \in Sock : s = pend[h][1] /\ ~ Holds(c, s) /\ InUse(s, h)
        BY <1>3, <2>2, <3>3
      <4>2. PICK q \in Conn : q = dat[s].by
        BY <4>1 DEF InUse
      <4>3. InUse(s, h)'
        BY <3>2, <4>1, <4>2
      <4>4. s = pend'[h][1]
        BY <1>1, <2>2, <4>1
      <4> QED BY <4>3, <4>4 DEF InUse
    <3> QED BY <1>1, <1>b, <2>2, <3>3 DEF HostWired
  <2> QED BY <2>1, <2>2
<1>5. ASSUME Calm(h), Calm(h)' PROVE Session(k)' /\ Waiting(h)'
  <2>1. Session(k) /\ Waiting(h)
    BY <1>5, <1>b DEF DataInv, Calmly
  <2>2. ctl'[k].cli # "killed"
    BY <1>5, <1>b DEF Calm, KilledOn
  <2>3. /\ thr[k].pc \notin Over => ctl[k].req = <<>>
        /\ thr[k].pc \notin {"connect", "list", "send"}
        /\ thr[k].pc \in {"create", "store"} =>
             \/ dat[thr[k].data].cli = "closed"
             \/ proc[c].pc = "put" /\ proc[c].data = thr[k].data
    BY <2>1, <2>2, ThreadLeft
  <2>4. thr[k].pc \in {"create", "store"} => dat'[thr[k].data].cli = "closed"
    <3> SUFFICES ASSUME thr[k].pc \in {"create", "store"}
                 PROVE  dat'[thr[k].data].cli = "closed"
      OBVIOUS
    <3>1. thr[k].data \in Sock /\ dat[thr[k].data].srv = "open" /\ thr[k].pc \notin Over
      BY <1>b DEF ThrWired, Moving, Over, DataInv, TypeInv, Shape, ThreadShape
    <3>2. CASE dat[thr[k].data].cli = "closed"
      <4>1. ~ Holds(c, thr[k].data)
        BY <3>1, <3>2, HeldAlone DEF InUse
      <4> QED BY <1>1, <3>1, <3>2, <4>1
    <3>3. CASE proc[c].pc = "put" /\ proc[c].data = thr[k].data
      <4>1. d[thr[k].data].cli = "closed"
        BY <2>2, <3>1, <3>3
      <4>2. port[h] = c
        BY <1>b, <3>3 DEF ProcWired, InTransfer
      <4>3. pend[h] = <<>>
        BY <2>1, <3>3, <4>2 DEF Waiting
      <4> QED BY <1>1, <3>1, <4>1, <4>3
    <3> QED BY <2>3, <3>2, <3>3
  <2>5. Session(k)'
    BY <2>1, <2>3, <2>4 DEF Session
  <2>6. Waiting(h)'
    <3>1. CASE port[h] = c
      BY <1>1, <3>1 DEF Waiting
    <3>2. CASE port[h] # c
      <4>1. pend[h] # <<>> => /\ proc'[port[h]] = proc[port[h]]
                              /\ dat'[pend[h][1]].by = dat[pend[h][1]].by
        BY <1>1, <1>3, <3>2 DEF InUse
      <4> QED BY <1>1, <2>1, <3>2, <4>1 DEF Waiting
    <3> QED BY <3>1, <3>2
  <2> QED BY <2>5, <2>6
<1>6. ctl'[k].cli = "open" => proc'[c].pc # "off" /\ proc'[c].conn = k
    OBVIOUS
<1>7. /\ port'[h] = port[h] \/ port[h] \in {None, c}
      /\ pend'[h] = pend[h] \/ (port[h] = c /\ pend'[h] = <<>>)
    BY <1>1
<1>8. /\ \A g \in Host : g # h => port'[g] = port[g] /\ pend'[g] = pend[g]
      /\ \A s \in Sock : dat[s].srv = "open" => /\ dat'[s].srv = "open"
                                                /\ dat'[s].by = dat[s].by
      /\ \A s \in Sock :
           ~ Holds(c, s) /\ (dat[s].cli = "open" \/ dat[s].srv = "open") =>
             dat'[s].cli = dat[s].cli /\ dat'[s].srv = dat[s].srv /\ dat'[s].by = dat[s].by
    BY <1>1
<1>9. proc'[c].data # None =>
         /\ Holds(c, proc'[c].data)
         /\ pend'[h] # <<>> => pend'[h][1] # proc'[c].data
    OBVIOUS
<1>10. Calm(h) /\ Calm(h)' => /\ Session(k)' /\ Waiting(h)'
                              /\ proc'[c].data # None => dat'[proc'[c].data].by = proc'[c].conn
    BY <1>5
<1> QED BY <1>2, <1>4, <1>6, <1>7, <1>8, <1>9, <1>10, ClientEffect

\* A step of a client that neither accepts a connection nor closes one: it may take the
\* port, and go where its command takes it.
LEMMA ClientMoves ==
    ASSUME DataInv, NEW c \in Client, NEW k \in Conn, k = proc[c].conn,
           NEW h \in Host, h = HostOf[c], proc[c].pc # "off", UNCHANGED <<thr, pend>>,
           \A q \in Client : q # c => proc'[q] = proc[q],
           \A q \in Conn : q # k => ctl'[q] = ctl[q],
           ctl'[k].by = ctl[k].by, ctl'[k].srv = ctl[k].srv, ctl'[k].cli = ctl[k].cli,
           \A g \in Host : port'[g] = port[g] \/ (g = h /\ port[g] = None /\ port'[g] = c),
           \A s \in Sock : /\ dat'[s].cli = dat[s].cli /\ dat'[s].srv = dat[s].srv
                           /\ dat'[s].by = dat[s].by,
           proc'[c].conn = k, proc'[c].data = proc[c].data,
           proc'[c].pc \in {"ready", "write", "reply", "accept"} \/ proc'[c].pc = proc[c].pc,
           proc[c].data # None => proc'[c].pc = proc[c].pc,
           port[h] = c => proc'[c].pc \in {"reply", "accept"} \/ proc'[c].pc = proc[c].pc,
           proc'[c].pc \in InTransfer => \/ proc'[c].cmd = proc[c].cmd /\ proc[c].pc \in InTransfer
                                         \/ proc'[c].cmd.id \in Transfer => port'[h] = c,
           proc'[c].pc = proc[c].pc => proc'[c].cmd = proc[c].cmd,
           proc'[c].pc = "accept" => proc'[c].cmd.id \in Transfer,
           Calm(h) => Session(k)'
    PROVE  Wired' /\ Calmly'
<1>a. /\ proc \in [Client -> ProcState] /\ port \in [Host -> Client \cup {None}]
      /\ HostOf \in [Client -> Host] /\ pend \in [Host -> Seq(Sock)]
      /\ None \notin Sock /\ None \notin Client
    BY DataTypes DEF DataInv
<1>b. /\ ProcWired(c) /\ ThrWired(k) /\ HostWired(h) /\ Unshared
      /\ ctl[k].by = c /\ ctl[k].cli = "open"
    BY DEF DataInv, Wired, TalkInv, Talk, ProcWired
<1>1. \A q \in Conn : PeerHost(q)' = PeerHost(q) /\ ctl'[q].by = ctl[q].by
    BY DEF PeerHost
<1>2. \A s \in Sock, g \in Host : InUse(s, g) => InUse(s, g)'
    BY <1>1 DEF InUse
<1>3. proc[c].data \in Sock \cup {None} /\ proc'[c].pc # "off"
    BY <1>a DEF ProcState
<1>4. port[h] = c => port'[h] = c
    BY <1>a
<1>5. /\ proc'[c].pc \in {"get", "put"} <=> proc'[c].data # None
      /\ proc'[c].pc \in {"accept", "get", "put"} => proc'[c].cmd.id \in Transfer
      /\ proc'[c].pc = "get" => proc'[c].cmd.id # "UP"
    BY <1>b DEF ProcWired
<1>6. proc'[c].pc \in InTransfer /\ proc'[c].cmd.id \in Transfer => port'[h] = c
    BY <1>4, <1>b DEF ProcWired
<1>7. ProcWired(c)'
    BY <1>2, <1>3, <1>5, <1>6, <1>b DEF ProcWired
<1>8. HostWired(h)'
  <2>1. pend[h] # <<>> => pend[h][1] \in Sock /\ InUse(pend[h][1], h)'
    BY <1>2, <1>a, <1>b DEF HostWired
  <2>2. port'[h] = None => port[h] = None
    BY <1>a
  <2> QED BY <1>b, <2>1, <2>2 DEF HostWired
<1>9. ASSUME Calm(h) PROVE Waiting(h)'
  <2> SUFFICES ASSUME pend[h] # <<>>
               PROVE  /\ proc'[port'[h]].pc \in {"reply", "accept"}
                      /\ dat'[pend[h][1]].by = proc'[port'[h]].conn
    BY DEF Waiting
  <2>1. /\ proc[port[h]].pc \in {"reply", "accept"} /\ dat[pend[h][1]].by = proc[port[h]].conn
        /\ pend[h][1] \in Sock /\ port[h] \in Client /\ port'[h] = port[h]
    BY <1>9, <1>a, <1>b DEF DataInv, Calmly, Waiting, HostWired
  <2> QED BY <2>1
<1>10. proc'[c].data # None =>
         /\ Holds(c, proc'[c].data)
         /\ pend'[h] # <<>> => pend'[h][1] # proc'[c].data
    BY <1>b DEF Holds, Unshared
<1>11. Calm(h) /\ Calm(h)' =>
         /\ Session(k)' /\ Waiting(h)'
         /\ proc'[c].data # None => dat'[proc'[c].data].by = proc'[c].conn
    BY <1>3, <1>9 DEF DataInv, Calmly, OwnData, Calm
<1>12. ctl'[k].cli # "none" /\ \A g \in Host : g # h => port'[g] = port[g] /\ pend'[g] = pend[g]
    BY <1>b
<1>13. port'[h] = port[h] \/ port[h] \in {None, c}
    OBVIOUS
<1> QED BY <1>3, <1>7, <1>8, <1>10, <1>11, <1>12, <1>13, ClientEffect

\* A session that nobody has moved in is as it was.
LEMMA SessionStays ==
    ASSUME NEW k \in Conn, Session(k), UNCHANGED <<thr, pend, ctl>>,
           NEW c, c = ctl[k].by, proc'[c].pc = proc[c].pc, proc'[c].cmd = proc[c].cmd,
           proc'[c].data = proc[c].data,
           thr[k].pc \in Moving => dat'[thr[k].data].cli = dat[thr[k].data].cli
    PROVE  Session(k)'
<1>1. (Together(k) <=> Together(k)') /\ (Accepting(k) <=> Accepting(k)') /\ PeerHost(k)' = PeerHost(k)
    BY DEF Together, Accepting, PeerHost
<1>2. Asked(k) <=> Asked(k)'
    BY <1>1 DEF Asked
<1>3. thr[k].pc \in Moving => (Joined(k) <=> Joined(k)')
    BY <1>1 DEF Joined
<1> QED BY <1>1, <1>2, <1>3 DEF Session, Moving

\* A new session: nothing of the others is its own.
LEMMA ConnectKeeps ==
    ASSUME DataInv, NEW c \in Client, NEW n \in Conn, Connect(c, n)
    PROVE  Wired' /\ Calmly'
<1>a. /\ proc \in [Client -> ProcState] /\ ctl \in [Conn -> CtlState]
      /\ thr \in [Conn -> ThrState] /\ pend \in [Host -> Seq(Sock)]
      /\ HostOf \in [Client -> Host] /\ None \notin Sock /\ None \notin Client
    BY DataTypes DEF DataInv
<1>b. /\ \A q \in Client : ProcWired(q)
      /\ \A q \in Conn : ThrWired(q)
      /\ \A g \in Host : HostWired(g)
      /\ Unshared
    BY DEF DataInv, Wired
<1>1. /\ UNCHANGED <<port, pend, dat>> /\ proc[c].pc = "off" /\ ctl[n].by = None
      /\ \A q \in Client : q # c => proc'[q] = proc[q]
      /\ proc'[c].pc = "hello" /\ proc'[c].conn = n /\ proc'[c].data = None
      /\ \A q \in Conn : q # n => ctl'[q] = ctl[q] /\ thr'[q] = thr[q]
      /\ ctl'[n].by = c /\ ctl'[n].cli = "open" /\ ctl'[n].srv = "open"
      /\ ctl'[n].req = <<>> /\ thr'[n].pc = "queued"
    BY <1>a DEF Connect, NoProc, NoCtl, ThrState
<1>2. ctl[n].cli = "none" /\ ctl[n].by \notin Client
    BY <1>1, <1>a, <1>b DEF ThrWired
<1>3. \A s \in Sock, g \in Host : InUse(s, g) => InUse(s, g)'
    BY <1>1, <1>2 DEF InUse, PeerHost
<1>4. \A q \in Conn : q # n => PeerHost(q)' = PeerHost(q)
    BY <1>1 DEF PeerHost
<1>5. \A g : Calm(g)' => Calm(g)
  <2>1. \A q \in Conn : ctl[q].cli = "killed" => ctl'[q].cli = "killed" /\ ctl'[q].by = ctl[q].by
    BY <1>1, <1>2
  <2> QED BY <2>1, CalmBefore
<1>6. ASSUME NEW q \in Client PROVE ProcWired(q)'
  <2>1. CASE q = c
    BY <1>1, <2>1 DEF ProcWired, InTransfer
  <2>2. CASE q # c
    <3>1. proc[q].data \in Sock \cup {None} /\ HostOf[q] \in Host /\ proc'[q] = proc[q]
      BY <1>1, <1>a, <2>2 DEF ProcState
    <3>2. proc[q].pc # "off" => proc[q].conn \in Conn /\ ctl'[proc[q].conn].cli = "open"
      BY <1>1, <1>2, <1>b DEF ProcWired, DataInv, TalkInv, Talk
    <3> QED BY <1>1, <1>3, <1>b, <3>1, <3>2 DEF ProcWired
  <2> QED BY <2>1, <2>2
<1>7. ASSUME NEW q \in Conn PROVE ThrWired(q)'
  <2>1. CASE q = n
    BY <1>1, <2>1 DEF ThrWired, Over, Moving
  <2>2. CASE q # n
    <3>1. ctl[q].cli = "open" => ctl[q].by # c
      BY <1>1, <1>b DEF ThrWired
    <3>2. ctl[q].cli = "open" => proc'[ctl[q].by] = proc[ctl[q].by]
      BY <1>1, <1>b, <3>1 DEF ThrWired
    <3> QED BY <1>1, <1>b, <2>2, <3>2 DEF ThrWired
  <2> QED BY <2>1, <2>2
<1>8. ASSUME NEW g \in Host PROVE HostWired(g)'
  <2>1. pend[g] # <<>> => pend[g][1] \in Sock
    BY <1>a
  <2> QED BY <1>1, <1>3, <1>b, <2>1 DEF HostWired
<1>9. Unshared'
    BY <1>1, <1>b DEF Unshared
<1>10. ASSUME NEW q \in Conn, ctl'[q].by \in Client, Calm(PeerHost(q))' PROVE Session(q)'
  <2>1. CASE q = n
    BY <1>1, <2>1 DEF Session
  <2>2. CASE q # n
    <3>1. ctl[q].by \in Client /\ Session(q) /\ ctl'[q] = ctl[q] /\ thr'[q] = thr[q]
      BY <1>1, <1>4, <1>5, <1>10, <2>2 DEF DataInv, Calmly
    <3>2. ctl[q].cli = "open" => proc'[ctl[q].by] = proc[ctl[q].by]
      BY <1>1, <1>b, <3>1 DEF ThrWired
    <3> QED BY <1>1, <3>1, <3>2, SessionKept DEF DataInv
  <2> QED BY <2>1, <2>2
<1>11. ASSUME NEW g \in Host, Calm(g)' PROVE Waiting(g)'
  <2>1. Waiting(g)
    BY <1>5, <1>11 DEF DataInv, Calmly
  <2>2. pend[g] # <<>> => proc'[port[g]] = proc[port[g]]
    <3>1. pend[g] # <<>> => port[g] \in Client
      BY <1>b, DataTypes DEF HostWired, DataInv
    <3> QED BY <1>1, <2>1, <3>1 DEF Waiting
  <2> QED BY <1>1, <2>1, <2>2 DEF Waiting
<1>12. OwnData'
  <2> SUFFICES ASSUME NEW d \in Client, proc'[d].data # None, ~ KilledOn(HostOf[d])'
               PROVE  dat'[proc'[d].data].by = proc'[d].conn
    BY DEF OwnData
  <2>1. d # c /\ proc'[d] = proc[d] /\ ~ KilledOn(HostOf[d])
    BY <1>1, <1>5 DEF Calm
  <2> QED BY <1>1, <2>1 DEF DataInv, Calmly, OwnData
<1> QED BY <1>6, <1>7, <1>8, <1>9, <1>10, <1>11, <1>12 DEF Wired, Calmly

\* accept() empties the queue of the port, which holds one (DataBacklog).
LEMMA LastTaken ==
    ASSUME NEW s \in Seq(Sock), s # <<>>, Len(s) <= 1
    PROVE  Tail(s) = <<>>
<1>1. \A z \in Seq(Sock) : Len(z) = 0 => z = <<>>
    OBVIOUS
<1>2. Len(s) # 0
    BY <1>1, Zenon
<1>3. Len(s) \in Nat /\ Len(Tail(s)) = Len(s) - 1 /\ Tail(s) \in Seq(Sock)
    OBVIOUS
<1>4. Len(Tail(s)) = 0
    BY <1>2, <1>3
<1> QED BY <1>1, <1>3, <1>4, Zenon

LEMMA ClientData ==
    ASSUME DataInv, NEW c \in Client, ClientStep(c) \/ UserStep(c)
    PROVE  Wired' /\ Calmly'
<1>a. /\ proc \in [Client -> ProcState] /\ ctl \in [Conn -> CtlState]
      /\ dat \in [Sock -> DatState] /\ thr \in [Conn -> ThrState]
      /\ pend \in [Host -> Seq(Sock)] /\ port \in [Host -> Client \cup {None}]
      /\ HostOf \in [Client -> Host] /\ None \notin Sock /\ None \notin Client
    BY DataTypes DEF DataInv
<1>1. ASSUME NEW n \in Conn, Connect(c, n) PROVE Wired' /\ Calmly'
    BY <1>1, ConnectKeeps
<1>2. CASE proc[c].pc = "off"
  <2>1. \A pc, r : Reads(c, pc, r) => pc = "off"
    BY <1>2 DEF Reads
  <2>2. ~ ClientStep(c)
    BY <1>2, <2>1 DEF ClientStep, ReadHello, ReadFails, WriteCmd, WriteFails, Answered, Granted,
         Leave, AcceptData, Get, GetEnds, ListFails, Put, PutEnds
  <2>3. ~ Kill(c) /\ \A m : ~ Type(c, m) /\ ~ BindFails(c, m)
    BY <1>2 DEF Kill, Type, BindFails
  <2> QED BY <1>1, <2>2, <2>3 DEF UserStep
<1>3. CASE proc[c].pc # "off"
  <2>0. PICK k \in Conn : k = proc[c].conn
    BY <1>3 DEF DataInv, TalkInv, Talk
  <2>00. PICK h \in Host : h = HostOf[c]
    BY <1>a
  <2>a. /\ ctl[k].by = c /\ ctl[k].cli = "open" /\ PeerHost(k) = h /\ PeerHost(k)' = HostOf[ctl'[k].by]
        /\ ProcWired(c) /\ ThrWired(k) /\ HostWired(h) /\ Talk(c)
    BY <1>3, <2>0, <2>00 DEF DataInv, Wired, ProcWired, TalkInv, Talk, PeerHost
  <2>b. Calm(h) => Session(k) /\ Waiting(h)
    BY <2>a DEF DataInv, Calmly
  <2>c. /\ ctl[k].req \in Seq(Command) /\ ctl[k].rsp \in Seq(Reply)
        /\ ctl[k].rsp # <<>> => Head(ctl[k].rsp) = ctl[k].rsp[1] /\ ctl[k].rsp[1] \in Reply
    BY <1>a DEF CtlState
\* What a client that ends leaves.
  <2>d. ASSUME NEW how \in {"closed", "killed"}, Gone(c, how), UNCHANGED serverVars,
               \/ how = "killed"
               \/ thr[k].pc \in Over
               \/ /\ proc[c].pc = "reply" /\ ctl[k].rsp # <<>>
                  /\ proc[c].cmd.id \notin Transfer \/ ctl[k].rsp[1].id # "OK"
               \/ proc[c].pc = "get" /\ dat[proc[c].data].srv # "open"
               \/ proc[c].pc = "ready"
        PROVE  Wired' /\ Calmly'
    <3>0. PICK d : d = CloseData(c, "killed")
      OBVIOUS
    <3>1. /\ ClosePort(c, d) /\ UNCHANGED thr
          /\ proc' = [proc EXCEPT ![c] = NoProc] /\ ctl' = [ctl EXCEPT ![k].cli = how]
      BY <2>0, <2>d, <3>0 DEF Gone, serverVars
    <3>2. /\ \A q \in Client : q # c => proc'[q] = proc[q]
          /\ \A q \in Conn : q # k => ctl'[q] = ctl[q]
          /\ proc'[c].pc = "off" /\ proc'[c].data = None
          /\ ctl'[k].cli = how /\ ctl'[k].by = ctl[k].by
          /\ ctl'[k].srv = ctl[k].srv /\ ctl'[k].req = ctl[k].req
      BY <1>a, <3>1 DEF NoProc, CtlState
    <3>3. \A s \in Sock : /\ d[s].srv = dat[s].srv /\ d[s].by = dat[s].by
                          /\ proc[c].data # s => d[s] = dat[s]
      BY <1>a, <3>0 DEF CloseData, DatState
    <3>4. Leaves(c, k, h, d)
      BY <1>3, <2>0, <2>00, <2>d, <3>1, <3>2, <3>3 DEF Leaves
    <3> QED BY <3>4, ClientLeaves
  <2>1. CASE ReadHello(c)
    <3>1. PICK r : Reads(c, "hello", r)
      BY <2>1 DEF ReadHello
    <3>2. /\ proc[c].pc = "hello" /\ ctl' = [ctl EXCEPT ![k].rsp = Tail(@)]
          /\ proc' = [proc EXCEPT ![c].pc = "ready"] /\ UNCHANGED <<thr, pend, port, dat>>
      BY <2>0, <2>1, <3>1 DEF ReadHello, Reads, serverVars
    <3>3. /\ \A q \in Client : q # c => proc'[q] = proc[q]
          /\ \A q \in Conn : q # k => ctl'[q] = ctl[q]
          /\ proc'[c].pc = "ready" /\ proc'[c].conn = k /\ proc'[c].data = proc[c].data
          /\ ctl'[k].cli = ctl[k].cli /\ ctl'[k].by = ctl[k].by
          /\ ctl'[k].srv = ctl[k].srv /\ ctl'[k].req = ctl[k].req
      BY <1>a, <2>0, <3>2 DEF ProcState, CtlState
    <3>4. Calm(h) => Session(k)'
      BY <1>3, <2>0, <2>b, <3>2, <3>3, ThreadLeft DEF Session
    <3>5. proc[c].data = None /\ port[h] # c
      BY <2>00, <2>a, <3>2, <1>a, Zenon DEF ProcWired, DataInv, PortInTransferOnly
    <3> QED BY <1>3, <2>0, <2>00, <3>2, <3>3, <3>4, <3>5, ClientMoves DEF InTransfer
  <2>2. CASE WriteCmd(c)
    <3>0. PICK m : m = proc[c].cmd
      OBVIOUS
    <3>1. /\ proc[c].pc = "write" /\ m \in Command /\ UNCHANGED <<thr, pend, port, dat>>
          /\ proc' = [proc EXCEPT ![c].pc = IF m.id = "LS" THEN "accept" ELSE "reply"]
          /\ ctl' = IF ctl[k].srv = "open" THEN [ctl EXCEPT ![k].req = Append(@, m)] ELSE ctl
      BY <2>0, <2>2, <3>0 DEF WriteCmd, serverVars, DataInv, TypeInv, Shape, ClientShape
    <3>2. /\ \A q \in Client : q # c => proc'[q] = proc[q]
          /\ proc'[c].pc = (IF m.id = "LS" THEN "accept" ELSE "reply") /\ proc'[c].conn = k
          /\ proc'[c].data = proc[c].data /\ proc'[c].cmd = m
      BY <1>a, <2>0, <3>0, <3>1 DEF ProcState
    <3>3. /\ \A q \in Conn : q # k => ctl'[q] = ctl[q]
          /\ ctl'[k].cli = ctl[k].cli /\ ctl'[k].by = ctl[k].by /\ ctl'[k].srv = ctl[k].srv
          /\ ctl'[k].req = IF ctl[k].srv = "open" THEN Append(ctl[k].req, m) ELSE ctl[k].req
      BY <1>a, <3>1 DEF CtlState
    <3>4. ASSUME Calm(h) PROVE Session(k)'
      <4>1. /\ thr[k].pc \notin Over => ctl[k].req = <<>>
            /\ thr[k].pc \notin {"connect", "list", "send"}
            /\ thr[k].pc \in {"create", "store"} => dat[thr[k].data].cli = "closed"
            /\ thr[k].pc = "end" => thr[k].file = None
        BY <1>3, <2>0, <2>b, <3>1, <3>4, ThreadLeft DEF Session
      <4>2. thr[k].pc \notin Over => ctl'[k].req = <<m>>
        <5>1. Append(<<>>, m) = <<m>>
          OBVIOUS
        <5>2. thr[k].pc \notin Over => ctl'[k].req = Append(ctl[k].req, m) /\ ctl[k].req = <<>>
          BY <2>a, <3>3, <4>1 DEF ThrWired
        <5> QED BY <5>1, <5>2, Zenon
      <4>3. thr[k].pc \notin Owing
        BY <2>0, <2>a, <3>1 DEF Talk, Silent
      <4>4. m.id \in Transfer => pend[h] = <<>>
        BY <2>00, <2>a, <2>b, <3>0, <3>1, <3>4 DEF ProcWired, InTransfer, Waiting
      <4>5. PeerHost(k)' = h
        BY <2>00, <2>a, <3>3 DEF PeerHost
      <4>6. thr[k].pc \notin Over => Asked(k)'
        BY <2>a, <3>1, <3>2, <3>3, <4>1, <4>2, <4>3, <4>4, <4>5 DEF Asked
      <4> QED BY <3>1, <4>1, <4>6 DEF Session
    <3>5. proc[c].data = None
      BY <2>a, <3>1 DEF ProcWired
    <3>6. proc'[c].pc \in {"reply", "accept"} /\ (proc'[c].pc = "accept" => m.id \in Transfer)
      BY <3>2 DEF Transfer
    <3>7. proc[c].pc \in InTransfer
      BY <3>1 DEF InTransfer
    <3> QED BY <1>3, <2>0, <2>00, <3>0, <3>1, <3>2, <3>3, <3>4, <3>5, <3>6, <3>7, ClientMoves, Zenon
  <2>3. CASE Granted(c)
    <3>1. PICK r \in Reply : Reads(c, "reply", r) /\ r.id # "ERR"
      BY <2>3 DEF Granted
    <3>2. /\ proc[c].pc = "reply" /\ ctl' = [ctl EXCEPT ![k].rsp = Tail(@)]
          /\ proc[c].cmd.id \in {"DOWN", "UP"} /\ ctl[k].rsp # <<>>
          /\ proc' = [proc EXCEPT ![c].pc = "accept"] /\ UNCHANGED <<thr, pend, port, dat>>
      BY <2>0, <2>3, <3>1 DEF Granted, Reads, serverVars
    <3>3. /\ \A q \in Client : q # c => proc'[q] = proc[q]
          /\ \A q \in Conn : q # k => ctl'[q] = ctl[q]
          /\ proc'[c].pc = "accept" /\ proc'[c].conn = k /\ proc'[c].data = proc[c].data
          /\ proc'[c].cmd = proc[c].cmd
          /\ ctl'[k].cli = ctl[k].cli /\ ctl'[k].by = ctl[k].by
          /\ ctl'[k].srv = ctl[k].srv /\ ctl'[k].req = ctl[k].req
      BY <1>a, <2>0, <3>2 DEF ProcState, CtlState
    <3>4. ctl[k].req = <<>>
      BY <2>0, <2>a, <3>2 DEF Talk, Coming, Silent
    <3>5. PeerHost(k)' = PeerHost(k) /\ (Together(k) => Together(k)') /\ Accepting(k)'
      BY <2>a, <3>2, <3>3 DEF PeerHost, Together, Accepting
    <3>6. thr[k].pc \in Moving => (Joined(k) => Joined(k)')
      BY <2>a, <3>2, <3>3, <3>5 DEF Joined
    <3>7. Calm(h) => Session(k)'
      BY <2>b, <3>2, <3>3, <3>4, <3>5, <3>6 DEF Session, Moving
    <3>8. proc[c].data = None
      BY <2>a, <3>2 DEF ProcWired
    <3>9. proc[c].pc \in InTransfer /\ proc[c].cmd.id \in Transfer
      BY <3>2 DEF InTransfer, Transfer
    <3> QED BY <1>3, <2>0, <2>00, <3>2, <3>3, <3>7, <3>8, <3>9, ClientMoves
  <2>4. ASSUME NEW m \in Menu[c], Type(c, m) PROVE Wired' /\ Calmly'
    <3>1. /\ proc[c].pc = "ready" /\ UNCHANGED <<thr, pend, ctl, dat>>
          /\ m.id \in Transfer => port[h] = None
          /\ port' = IF m.id \in Transfer THEN [port EXCEPT ![h] = c] ELSE port
          /\ proc' = [proc EXCEPT ![c].pc = "write", ![c].cmd = m]
      BY <2>00, <2>4 DEF Type, serverVars
    <3>2. /\ \A q \in Client : q # c => proc'[q] = proc[q]
          /\ proc'[c].pc = "write" /\ proc'[c].conn = k /\ proc'[c].data = proc[c].data
          /\ proc'[c].cmd = m
      BY <1>a, <2>0, <3>1 DEF ProcState
    <3>3. /\ \A g \in Host : port'[g] = port[g] \/ (g = h /\ port[g] = None /\ port'[g] = c)
          /\ m.id \in Transfer => port'[h] = c
      BY <1>a, <3>1
    <3>4. Calm(h) => Session(k)'
      BY <1>3, <2>0, <2>b, <3>1, <3>2, ThreadLeft DEF Session
    <3>5. proc[c].data = None /\ port[h] # c
      BY <2>00, <2>a, <3>1, <1>a DEF ProcWired, DataInv, PortInTransferOnly
    <3> QED BY <1>3, <2>0, <2>00, <3>1, <3>2, <3>3, <3>4, <3>5, ClientMoves DEF InTransfer
  <2>5. CASE Get(c) \/ Put(c)
    <3>1. /\ proc[c].pc \in {"get", "put"} /\ UNCHANGED <<thr, pend, ctl, port>>
          /\ \A q \in Client : q # c => proc'[q] = proc[q]
          /\ proc'[c].pc = proc[c].pc /\ proc'[c].conn = k /\ proc'[c].data = proc[c].data
          /\ proc'[c].cmd = proc[c].cmd
      BY <1>a, <2>0, <2>5 DEF Get, Put, serverVars, ProcState
    <3>2. \A s \in Sock : /\ dat'[s].cli = dat[s].cli /\ dat'[s].srv = dat[s].srv
                          /\ dat'[s].by = dat[s].by
      <4>0. PICK s : s = proc[c].data
        OBVIOUS
      <4>1. \/ dat' = [dat EXCEPT ![s].toCli = Tail(dat[s].toCli)]
            \/ \E b : dat' = [dat EXCEPT ![s].toSrv = Append(dat[s].toSrv, b)]
            \/ dat' = dat
        <5>1. CASE Get(c)
          BY <4>0, <5>1 DEF Get
        <5>2. CASE Put(c)
          BY <4>0, <5>2, Zenon DEF Put
        <5> QED BY <2>5, <5>1, <5>2
      <4>2. CASE dat' = [dat EXCEPT ![s].toCli = Tail(dat[s].toCli)]
        BY <1>a, <4>2 DEF DatState
      <4>3. ASSUME NEW b, dat' = [dat EXCEPT ![s].toSrv = Append(dat[s].toSrv, b)]
            PROVE  \A x \in Sock : /\ dat'[x].cli = dat[x].cli /\ dat'[x].srv = dat[x].srv
                                  /\ dat'[x].by = dat[x].by
        BY <1>a, <4>3 DEF DatState
      <4> QED BY <4>1, <4>2, <4>3
    <3>3. thr[k].pc \in Moving => dat'[thr[k].data].cli = dat[thr[k].data].cli
      BY <3>2 DEF DataInv, TypeInv, Shape, ThreadShape, Moving
    <3>4. Calm(h) => Session(k)'
      BY <2>a, <2>b, <3>1, <3>3, SessionStays
    <3>5. proc[c].pc \in InTransfer
      BY <3>1 DEF InTransfer
    <3> QED BY <1>3, <2>0, <2>00, <3>1, <3>2, <3>4, <3>5, ClientMoves
  <2>6. CASE ReadFails(c) \/ WriteFails(c)
    <3>1. Gone(c, "closed") /\ UNCHANGED serverVars /\ ctl[k].srv # "open"
      BY <2>0, <2>6 DEF ReadFails, WriteFails
    <3>2. thr[k].pc \in Over
      BY <2>a, <3>1 DEF ThrWired
    <3> QED BY <2>d, <3>1, <3>2
  <2>7. CASE Leave(c)
    <3>1. /\ Gone(c, "closed") /\ UNCHANGED serverVars
          /\ proc[c].pc = "reply" /\ ctl[k].rsp # <<>> /\ proc[c].cmd.id \notin Transfer
      BY <2>0, <2>7 DEF Leave, Transfer
    <3> QED BY <2>d, <3>1
  <2>8. CASE ListFails(c)
    <3>1. /\ Gone(c, "closed") /\ UNCHANGED serverVars
          /\ proc[c].pc = "get" /\ dat[proc[c].data].srv # "open"
      BY <2>8 DEF ListFails
    <3> QED BY <2>d, <3>1
  <2>9. ASSUME NEW m \in Menu[c], BindFails(c, m) PROVE Wired' /\ Calmly'
    <3>1. Gone(c, "closed") /\ UNCHANGED serverVars /\ proc[c].pc = "ready"
      BY <2>9 DEF BindFails
    <3> QED BY <2>d, <3>1
  <2>10. CASE Kill(c)
    <3>1. Gone(c, "killed") /\ UNCHANGED serverVars
      BY <2>10 DEF Kill
    <3> QED BY <2>d, <3>1
  <2>11. CASE GetEnds(c) \/ PutEnds(c)
    <3>0. PICK d : d = CloseData(c, "closed")
      OBVIOUS
    <3>1. /\ ClosePort(c, d) /\ UNCHANGED <<thr, ctl>>
          /\ proc' = [proc EXCEPT ![c].pc = "ready", ![c].cmd = None,
                                  ![c].data = None, ![c].pos = 0]
      BY <2>11, <3>0 DEF GetEnds, PutEnds, CloseTransfer, serverVars
    <3>2. /\ \A q \in Client : q # c => proc'[q] = proc[q]
          /\ proc'[c].pc = "ready" /\ proc'[c].conn = k /\ proc'[c].data = None
      BY <1>a, <2>0, <3>1 DEF ProcState
    <3>3. \A s \in Sock : /\ d[s].srv = dat[s].srv /\ d[s].by = dat[s].by
                          /\ proc[c].data # s => d[s] = dat[s]
                          /\ proc[c].data = s => d[s].cli = "closed"
      BY <1>a, <3>0 DEF CloseData, DatState
    <3>4. \/ proc[c].pc = "get" /\ dat[proc[c].data].srv # "open"
          \/ proc[c].pc = "put" /\ proc[c].data \in Sock
      BY <2>11 DEF GetEnds, PutEnds, DataInv, TypeInv, Shape, ClientShape
    <3>5. \/ proc[c].pc = "get" /\ dat[proc[c].data].srv # "open"
          \/ proc[c].pc = "put" /\ d[proc[c].data].cli = "closed"
      BY <3>3, <3>4
    <3>6. /\ \A s \in Sock : /\ d[s].srv = dat[s].srv /\ d[s].by = dat[s].by
                             /\ proc[c].data # s => d[s] = dat[s]
          /\ \A q \in Conn : q # k => ctl'[q] = ctl[q]
          /\ ctl'[k].by = ctl[k].by /\ ctl'[k].srv = ctl[k].srv /\ ctl'[k].req = ctl[k].req
          /\ ctl'[k].cli = "open" /\ ctl'[k].cli # "none"
          /\ ClosePort(c, d) /\ UNCHANGED thr
      BY <2>a, <3>1, <3>3
    <3>7. Leaves(c, k, h, d)
      BY <1>3, <2>0, <2>00, <3>2, <3>5, <3>6 DEF Leaves
    <3> QED BY <3>7, ClientLeaves
  <2>12. CASE Answered(c)
    <3>1. PICK r \in Reply :
            /\ Reads(c, "reply", r) /\ ClosePort(c, dat)
            /\ proc[c].cmd.id \in {"PWD", "CD"} \/ r.id = "ERR"
            /\ proc' = [proc EXCEPT ![c].pc = "ready", ![c].cmd = None] /\ UNCHANGED thr
      BY <2>12 DEF Answered, serverVars
    <3>2. /\ proc[c].pc = "reply" /\ ctl[k].rsp # <<>> /\ r = ctl[k].rsp[1]
          /\ ctl' = [ctl EXCEPT ![k].rsp = Tail(@)]
      BY <2>0, <2>c, <3>1 DEF Reads
    <3>3. /\ \A q \in Client : q # c => proc'[q] = proc[q]
          /\ \A q \in Conn : q # k => ctl'[q] = ctl[q]
          /\ proc'[c].pc = "ready" /\ proc'[c].conn = k /\ proc'[c].data = proc[c].data
          /\ ctl'[k].cli = ctl[k].cli /\ ctl'[k].by = ctl[k].by
          /\ ctl'[k].srv = ctl[k].srv /\ ctl'[k].req = ctl[k].req
      BY <1>a, <2>0, <3>1, <3>2 DEF ProcState, CtlState
    <3>4. proc[c].data = None
      BY <2>a, <3>2 DEF ProcWired
    <3>5. proc[c].cmd.id \notin Transfer \/ ctl[k].rsp[1].id # "OK"
      BY <3>1, <3>2 DEF Transfer
    <3>6. PICK d : d = dat
      OBVIOUS
    <3>7. Leaves(c, k, h, d)
      BY <1>3, <2>0, <2>00, <2>a, <3>1, <3>2, <3>3, <3>4, <3>5, <3>6, Zenon DEF Leaves
    <3> QED BY <3>7, ClientLeaves
  <2>13. CASE AcceptData(c)
    <3>1. /\ proc[c].pc = "accept" /\ pend[h] # <<>> /\ UNCHANGED <<thr, port, ctl, dat>>
          /\ proc' = [proc EXCEPT ![c].pc = IF proc[c].cmd.id = "UP" THEN "put" ELSE "get",
                                  ![c].data = Head(pend[h]), ![c].pos = 0]
          /\ pend' = [pend EXCEPT ![h] = Tail(pend[h])]
      BY <2>00, <2>13 DEF AcceptData, serverVars
    <3>2. PICK x \in Sock : x = pend[h][1]
      BY <1>a, <3>1
    <3>3. /\ \A q \in Client : q # c => proc'[q] = proc[q]
          /\ proc'[c].pc = (IF proc[c].cmd.id = "UP" THEN "put" ELSE "get")
          /\ proc'[c].conn = k /\ proc'[c].data = x /\ proc'[c].cmd = proc[c].cmd
      BY <1>a, <2>0, <3>1, <3>2 DEF ProcState
    <3>4. /\ \A g \in Host : g # h => pend'[g] = pend[g]
          /\ pend'[h] = <<>>
      <4>1. pend[h] \in Seq(Sock) /\ Len(pend[h]) <= 1
        BY <1>a, <2>a DEF HostWired
      <4>2. Tail(pend[h]) = <<>>
        BY <3>1, <4>1, LastTaken
      <4> QED BY <1>a, <3>1, <4>2
    <3>5. proc[c].cmd.id \in Transfer /\ port[h] = c /\ proc[c].data = None
      BY <2>00, <2>a, <3>1 DEF ProcWired, InTransfer
    <3>6. \A s \in Sock, g \in Host : InUse(s, g) => InUse(s, g)'
      BY <3>1 DEF InUse, PeerHost
    <3>7. InUse(x, h) /\ Holds(c, x)
      BY <2>00, <2>a, <3>1, <3>2, <3>5 DEF HostWired, Holds
    <3>8. ProcWired(c)'
      BY <1>a, <2>00, <2>0, <2>a, <3>1, <3>3, <3>5, <3>6, <3>7 DEF ProcWired
    <3>9. HostWired(h)'
      <4>1. Len(<<>>) = 0
        OBVIOUS
      <4> QED BY <3>4, <4>1 DEF HostWired
    <3>10. Waiting(h)'
      BY <3>4 DEF Waiting
    <3>11. ASSUME Calm(h) PROVE Session(k)' /\ dat'[x].by = k
      <4>1. Session(k) /\ Waiting(h)
        BY <2>b, <3>11
      <4>2. dat'[x].by = k
        BY <2>0, <3>1, <3>2, <3>5, <4>1 DEF Waiting
      <4>3. ~ Asked(k) /\ (Together(k) => Together(k)')
        BY <2>a, <3>1, <3>3, <3>5 DEF Asked, Together
      <4>4. thr[k].pc \in Moving => (Joined(k) => Joined(k)')
        <5>1. ASSUME thr[k].pc \in Moving, Joined(k) PROVE thr[k].data = x
          <6>1. thr[k].data \in Sock
            BY <5>1 DEF DataInv, TypeInv, Shape, ThreadShape, Moving
          <6>2. pend[h] = <<thr[k].data>>
            BY <1>a, <2>a, <3>5, <5>1, <6>1 DEF Joined
          <6>3. <<thr[k].data>>[1] = thr[k].data
            OBVIOUS
          <6> QED BY <3>2, <6>2, <6>3
        <5> QED BY <2>a, <3>1, <3>3, <4>3, <5>1 DEF Joined
      <4>5. thr[k].pc # "connect"
        BY <2>a, <3>1, <4>1 DEF Session
      <4> QED BY <3>1, <4>1, <4>2, <4>3, <4>4, <4>5 DEF Session, Moving
    <3>12. /\ \A q \in Conn : q # k => ctl'[q] = ctl[q]
           /\ ctl'[k].by = ctl[k].by /\ ctl'[k].srv = ctl[k].srv /\ ctl'[k].cli # "none"
           /\ ctl'[k].cli = "open" => proc'[c].pc # "off" /\ proc'[c].conn = k
      BY <2>a, <3>1, <3>3
    <3>13. /\ \A g \in Host : g # h => port'[g] = port[g] /\ pend'[g] = pend[g]
           /\ port'[h] = port[h] \/ port[h] \in {None, c}
           /\ pend'[h] = pend[h] \/ (port[h] = c /\ pend'[h] = <<>>)
      BY <3>1, <3>4, <3>5
    <3>14. proc'[c].data # None =>
              /\ Holds(c, proc'[c].data)
              /\ pend'[h] # <<>> => pend'[h][1] # proc'[c].data
      BY <3>3, <3>4, <3>7
    <3>15. Calm(h) /\ Calm(h)' =>
              /\ Session(k)' /\ Waiting(h)'
              /\ proc'[c].data # None => dat'[proc'[c].data].by = proc'[c].conn
      BY <3>3, <3>10, <3>11
    <3> QED BY Zenon, <1>3, <2>0, <2>00, <3>1, <3>3, <3>8, <3>9, <3>12, <3>13, <3>14, <3>15,
               ClientEffect
  <2> QED BY <1>1, <2>1, <2>2, <2>3, <2>4, <2>5, <2>6, <2>7, <2>8, <2>9, <2>10, <2>11, <2>12, <2>13
      DEF ClientStep, UserStep
<1> QED BY <1>2, <1>3

-----------------------------------------------------------------------------
(* The two theorems.                                                        *)

LEMMA DataStep ==
    ASSUME DataInv, [Next]_vars
    PROVE  DataInv'
<1>1. TypeInv' /\ PortInTransferOnly' /\ TalkInv'
    BY TypeStep, PortStep, TalkStep DEF DataInv
<1>2. CASE UNCHANGED vars
  <2>1. Wired'
    <3>1. \A s, h : InUse(s, h)' <=> InUse(s, h)
      BY <1>2 DEF vars, InUse, PeerHost
    <3>2. \A c \in Client : ProcWired(c) => ProcWired(c)'
      BY <1>2, <3>1 DEF vars, ProcWired
    <3>3. \A k \in Conn : ThrWired(k) => ThrWired(k)'
      BY <1>2 DEF vars, ThrWired
    <3>4. \A h \in Host : HostWired(h) => HostWired(h)'
      <4> SUFFICES ASSUME NEW h \in Host, HostWired(h) PROVE HostWired(h)'
        OBVIOUS
      <4>1. port' = port /\ pend' = pend /\ proc' = proc
        BY <1>2 DEF vars
      <4>2. InUse(pend[h][1], h)' <=> InUse(pend[h][1], h)
        BY <1>2 DEF vars, InUse, PeerHost
      <4> QED BY <4>1, <4>2 DEF HostWired
    <3>5. Unshared => Unshared'
      BY <1>2 DEF vars, Unshared
    <3> QED BY <3>2, <3>3, <3>4, <3>5 DEF DataInv, Wired
  <2>2. \A h : Calm(h)' <=> Calm(h)
    BY <1>2 DEF vars, Calm, KilledOn
  <2>3. \A k \in Conn : Session(k) => Session(k)'
    BY <1>2 DEF vars, Session, Asked, Together, Joined, Accepting, PeerHost
  <2>4. \A h \in Host : Waiting(h) => Waiting(h)'
    BY <1>2 DEF vars, Waiting
  <2>5. OwnData'
    BY <1>2, <2>2 DEF vars, DataInv, Calmly, OwnData, Calm
  <2>6. Calmly'
    BY <1>2, <2>2, <2>3, <2>4, <2>5 DEF vars, DataInv, Calmly, PeerHost
  <2> QED BY <1>1, <2>1, <2>6 DEF DataInv
<1>3. ASSUME NEW k \in Conn, ThreadStep(k) PROVE Wired' /\ Calmly'
    BY <1>3, ThreadData, ConnectDataKeeps, CreateAbortsKeeps
<1> QED BY <1>1, <1>2, <1>3, ClientData DEF Next, DataInv

LEMMA DataInit == Init => DataInv
<1> SUFFICES ASSUME Init PROVE DataInv
    OBVIOUS
<1>1. TypeInv /\ PortInTransferOnly /\ TalkInv
    BY TypeInit DEF Init, PortInTransferOnly, TalkInv, Talk, NoProc
<1>2. \A c \in Client : ProcWired(c)
    BY DEF Init, NoProc, ProcWired, InTransfer
<1>3. \A k \in Conn : ThrWired(k) /\ Session(k) /\ ctl[k].by \notin Client
    BY DistinctNone DEF Init, NoCtl, NoThread, ThrWired, Session, Over, Moving
<1>4. \A h \in Host : HostWired(h) /\ Waiting(h)
  <2>1. Len(<<>>) = 0
    OBVIOUS
  <2> QED BY <2>1 DEF Init, HostWired, Waiting
<1>5. Unshared /\ OwnData
    BY DEF Init, NoProc, Unshared, OwnData
<1> QED BY <1>1, <1>2, <1>3, <1>4, <1>5 DEF DataInv, Wired, Calmly

LEMMA DataHolds == Spec => []DataInv
<1>1. DataInv /\ [Next]_vars => DataInv'
    BY DataStep
<1> QED BY DataInit, <1>1, PTL DEF Spec

\* The data connection a client accepts is the one its own session opened, on every
\* machine where no client process was killed, with any number of users and sessions on
\* it: the fixed port and the order of the steps are enough (create_data_socket,
\* InitDataSocket), and there is nothing else that would ensure it.
THEOREM OwnConnection == Spec => []OwnData
BY DataHolds, DataInvMeans, PTL

\* No session ends with its file open, on a machine where no client process was killed:
\* the one path that forgets the file, the return of ProcessCmd when a send of SendFile
\* fails, needs a client that closes the connection before the file is sent.
THEOREM FilesClosed == Spec => []LeakNeedsKill
BY DataHolds, DataInvMeans, PTL


-----------------------------------------------------------------------------
(* The files.  What a transfer brings is right because both ends of its     *)
(* data connection are of one session, and because of what the others may   *)
(* type.                                                                    *)

\* A thread has opened the file that its command names.
Opens(k) ==
    /\ thr[k].pc \in {"connect", "send"} /\ thr[k].cmd.id = "DOWN" =>
          thr[k].file.name = thr[k].cmd.arg
    /\ thr[k].pc = "connect" /\ thr[k].cmd.id = "DOWN" => thr[k].pos = 0
    /\ thr[k].pc = "store" => thr[k].cmd \in Command /\ thr[k].file.name = thr[k].cmd.arg

\* Every command was typed by the user of its session.
Listed(k) ==
    /\ \A i \in DOMAIN ctl[k].req : ctl[k].req[i] \in Menu[ctl[k].by]
    /\ thr[k].cmd # None => ctl[k].by \in Client /\ thr[k].cmd \in Menu[ctl[k].by]
    /\ Opens(k)

Typed == /\ \A c \in Client : proc[c].cmd # None => proc[c].cmd \in Menu[c]
         /\ \A k \in Conn : Listed(k)

\* When the directory stays, the only session that could store a name finds its file
\* missing until it creates it, and from then on stands at its end.
Extends(k) ==
    /\ thr[k].pc \in {"connect", "create"} => fs[InitDir][thr[k].cmd.arg] = NoFile
    /\ thr[k].pc = "store" => thr[k].pos = Len(Opened(k))

Alone == Stays => /\ KeptInv
                  /\ \A k \in Conn : /\ thr[k].cmd # None /\ thr[k].cmd.id = "UP"
                                     /\ OneUploader(thr[k].cmd.arg)
                                     => Extends(k)

-----------------------------------------------------------------------------
(* Pieces of files.                                                         *)

\* x, and then y, are a beginning of f.
Begins(x, y, f) ==
    /\ Len(x) + Len(y) <= Len(f)
    /\ \A i \in 1 .. Len(x) : x[i] = f[i]
    /\ \A i \in 1 .. Len(y) : y[i] = f[Len(x) + i]

LEMMA NothingYet ==
    ASSUME NEW f \in Content
    PROVE  Begins(<<>>, <<>>, f) /\ Len(<<>>) + Len(<<>>) = 0
BY DEF Begins, Content

\* A block is received.
LEMMA Receives ==
    ASSUME NEW f \in Content, NEW x \in Content, NEW y \in Content, y # <<>>, Begins(x, y, f)
    PROVE  /\ Begins(Append(x, Head(y)), Tail(y), f)
           /\ Len(Append(x, Head(y))) + Len(Tail(y)) = Len(x) + Len(y)
<1>1. PICK a \in Nat, b \in Nat, m \in Nat : a = Len(x) /\ b = Len(y) /\ m = Len(f)
    BY DEF Content
<1>2. b > 0 /\ Head(y) = y[1] /\ a + b <= m
    BY <1>1 DEF Content, Begins
<1>3. PICK u, v : u = Append(x, Head(y)) /\ v = Tail(y)
    OBVIOUS
<1>4. /\ Len(u) = a + 1 /\ u[a + 1] = y[1] /\ \A i \in 1 .. a : u[i] = x[i]
    BY <1>1, <1>2, <1>3 DEF Content
<1>5. Len(v) = b - 1 /\ \A i \in 1 .. b - 1 : v[i] = y[i + 1]
    BY <1>1, <1>2, <1>3 DEF Content
<1>6. y[1] = f[a + 1]
    BY <1>1, <1>2 DEF Begins
<1>7. ASSUME NEW i \in 1 .. a + 1 PROVE u[i] = f[i]
    BY <1>1, <1>4, <1>6 DEF Begins
<1>8. ASSUME NEW i \in 1 .. b - 1 PROVE v[i] = f[(a + 1) + i]
  <2>1. i + 1 \in 1 .. b /\ a + (i + 1) = (a + 1) + i
    OBVIOUS
  <2> QED BY <1>1, <1>5, <2>1 DEF Begins
<1> QED BY <1>1, <1>2, <1>3, <1>4, <1>5, <1>7, <1>8 DEF Begins

\* A block is sent.
LEMMA Sends ==
    ASSUME NEW f \in Content, NEW x \in Content, NEW y \in Content, Begins(x, y, f),
           NEW p \in Nat, p = Len(x) + Len(y), p < Len(f)
    PROVE  /\ Begins(x, Append(y, f[p + 1]), f)
           /\ Len(x) + Len(Append(y, f[p + 1])) = p + 1
<1>1. PICK a \in Nat, b \in Nat, m \in Nat : a = Len(x) /\ b = Len(y) /\ m = Len(f)
    BY DEF Content
<1>2. PICK v, z : v = Append(y, z) /\ z = f[p + 1]
    OBVIOUS
<1>3. Len(v) = b + 1 /\ v[b + 1] = z /\ \A i \in 1 .. b : v[i] = y[i]
    BY <1>1, <1>2 DEF Content
<1>4. ASSUME NEW i \in 1 .. b + 1 PROVE v[i] = f[a + i]
    BY <1>1, <1>2, <1>3 DEF Begins
<1> QED BY <1>1, <1>2, <1>3, <1>4 DEF Begins

\* The file grows.
LEMMA StillBegins ==
    ASSUME NEW f \in Content, NEW g \in Content, NEW x \in Content, NEW y \in Content,
           Begins(x, y, f), Begins(f, <<>>, g)
    PROVE  Begins(x, y, g)
<1>1. PICK a \in Nat, b \in Nat, m \in Nat, n \in Nat :
         a = Len(x) /\ b = Len(y) /\ m = Len(f) /\ n = Len(g)
    BY DEF Content
<1>2. Len(<<>>) = 0
    OBVIOUS
<1>3. m <= n /\ a + b <= m /\ \A i \in 1 .. m : f[i] = g[i]
    BY <1>1, <1>2 DEF Begins
<1> QED BY <1>1, <1>3 DEF Begins

-----------------------------------------------------------------------------
(* What the steps of a client do to files, commands and data.              *)

Alive(s) == dat[s].cli = "open" \/ dat[s].srv = "open"

\* A command with a file is its kind and the name.
LEMMA FileCommand ==
    ASSUME NEW m \in Command, m.id \in {"DOWN", "UP"}
    PROVE  m = [id |-> m.id, arg |-> m.arg] /\ m.arg \in Name
BY DEF Command

\* ClosePort touches nothing of a connection of others, and of the client's own only what
\* the client did to it, if none waits.
LEMMA ClosesOwn ==
    ASSUME DataInv, NEW c \in Client, NEW d, ClosePort(c, d),
           DOMAIN d = Sock,
           \A s \in Sock : /\ d[s].srv = dat[s].srv
                           /\ proc[c].data # s => d[s] = dat[s],
           NEW s \in Sock
    PROVE  /\ ~ Holds(c, s) /\ Alive(s) => dat'[s] = dat[s]
           /\ dat[s].srv = "open" /\ pend[HostOf[c]] = <<>> => dat'[s] = d[s]
<1>1. pend[HostOf[c]] \in Seq(Sock) /\ Len(pend[HostOf[c]]) <= 1
    BY DataTypes DEF DataInv, Wired, HostWired
<1>2. CASE port[HostOf[c]] = c
  <2> DEFINE e == ResetWaiting(d, HostOf[c])
  <2>1. dat' = Live(e)
    BY <1>2 DEF ClosePort
  <2>2. CASE \E i \in DOMAIN pend[HostOf[c]] : pend[HostOf[c]][i] = s
    <3>1. pend[HostOf[c]] # <<>> /\ pend[HostOf[c]][1] = s
      BY <1>1, <2>2
    <3> QED BY <1>2, <3>1 DEF Holds
  <2>3. CASE ~ \E i \in DOMAIN pend[HostOf[c]] : pend[HostOf[c]][i] = s
    <3>1. e[s] = d[s]
      BY <2>3 DEF ResetWaiting
    <3> HIDE DEF e
    <3> QED BY <2>1, <3>1 DEF Live, Holds, Alive
  <2> QED BY <2>2, <2>3
<1>3. CASE port[HostOf[c]] # c
  <2>1. dat' = Live(d)
    BY <1>3 DEF ClosePort
  <2> QED BY <2>1 DEF Live, Holds, Alive
<1> QED BY <1>2, <1>3

\* The ports that others hold, and what waits there.
PortsKept(c) == \A h \in Host : port'[h] \notin {None, c} =>
                  port'[h] = port[h] /\ pend'[h] = pend[h]

\* A step of client c leaves the server's files, the others' files and commands, and
\* every connection that c does not have; what it types is on its menu.
ClientTouches(c) ==
    /\ UNCHANGED <<cwd, fs>>
    /\ \A q \in Client : q # c => proc'[q] = proc[q] /\ local'[q] = local[q]
    /\ \A n \in Name : local'[c][n] = local[c][n] \/ MayDownload(c, n)
    /\ proc'[c].cmd \in {None, proc[c].cmd} \cup Menu[c]
    /\ \A k \in Conn :
          /\ thr'[k] = thr[k] \/ (thr'[k].pc = "queued" /\ ctl[k].by = None)
          /\ thr'[k].cmd = thr[k].cmd
          /\ ctl'[k].by = ctl[k].by \/ (ctl[k].by = None /\ ctl'[k].req = <<>>)
          /\ \/ ctl'[k].req \in {<<>>, ctl[k].req}
             \/ /\ ctl[k].by = c /\ proc[c].cmd # None
                /\ ctl'[k].req = Append(ctl[k].req, proc[c].cmd)
    /\ \A s \in Sock : ~ Holds(c, s) /\ Alive(s) => dat'[s] = dat[s]
    /\ PortsKept(c)

LEMMA ClientDoes ==
    ASSUME DataInv, Typed, NEW c \in Client, ClientStep(c) \/ UserStep(c)
    PROVE  ClientTouches(c)
<1>a. /\ proc \in [Client -> ProcState] /\ ctl \in [Conn -> CtlState]
      /\ dat \in [Sock -> DatState] /\ thr \in [Conn -> ThrState]
      /\ port \in [Host -> Client \cup {None}] /\ pend \in [Host -> Seq(Sock)]
      /\ HostOf \in [Client -> Host]
      /\ local \in [Client -> [Name -> Content \cup {NoFile}]]
    BY DataTypes DEF DataInv, TypeInv, TypeOK
<1>b. /\ Menu[c] \subseteq Command
      /\ proc[c].cmd # None => proc[c].cmd \in Menu[c]
    BY FtpAssumption DEF Typed
<1>c. proc[c].pc # "off" => ctl[proc[c].conn].by = c
    BY DEF DataInv, TalkInv, Talk
\* A step of the process alone.
<1>d. ASSUME UNCHANGED serverVars,
             \A q \in Client : q # c => proc'[q] = proc[q] /\ local'[q] = local[q],
             \A n \in Name : local'[c][n] = local[c][n] \/ MayDownload(c, n),
             proc'[c].cmd \in {None, proc[c].cmd} \cup Menu[c],
             \A k \in Conn : ctl'[k].by = ctl[k].by /\ ctl'[k].req = ctl[k].req,
             \A s \in Sock : ~ Holds(c, s) /\ Alive(s) => dat'[s] = dat[s],
             PortsKept(c)
      PROVE  ClientTouches(c)
    BY <1>d DEF ClientTouches, serverVars
<1>p. UNCHANGED <<port, pend>> => PortsKept(c)
    BY DEF PortsKept
<1>q. ASSUME NEW d, ClosePort(c, d) PROVE PortsKept(c)
    BY <1>a, <1>q DEF ClosePort, PortsKept
<1>e. ASSUME NEW how, Gone(c, how), UNCHANGED serverVars,
             \A q \in Client : q # c => local'[q] = local[q],
             \A n \in Name : local'[c][n] = local[c][n] \/ MayDownload(c, n)
      PROVE  ClientTouches(c)
  <2>1. /\ \A q \in Client : q # c => proc'[q] = proc[q]
        /\ proc'[c].cmd = None
    BY <1>a, <1>e DEF Gone, NoProc
  <2>2. \A k \in Conn : ctl'[k].by = ctl[k].by /\ ctl'[k].req = ctl[k].req
    BY <1>a, <1>e DEF Gone, CtlState
  <2>3. PICK d : d = CloseData(c, "killed") /\ ClosePort(c, d)
    BY <1>e DEF Gone
  <2>4. /\ DOMAIN d = Sock
        /\ \A s \in Sock : d[s].srv = dat[s].srv /\ (proc[c].data # s => d[s] = dat[s])
    BY <1>a, <2>3 DEF CloseData, DatState
  <2>5. \A s \in Sock : ~ Holds(c, s) /\ Alive(s) => dat'[s] = dat[s]
    BY <2>3, <2>4, ClosesOwn
  <2> QED BY <1>d, <1>e, <1>q, <2>1, <2>2, <2>3, <2>5
<1>f. ASSUME NEW pc, NEW r, Reads(c, pc, r)
      PROVE  \A k \in Conn : ctl'[k].by = ctl[k].by /\ ctl'[k].req = ctl[k].req
    BY <1>a, <1>f DEF Reads, CtlState
<1>g. ASSUME NEW m \in Command, m.id = "DOWN", m \in Menu[c] PROVE MayDownload(c, m.arg)
    BY <1>g, FileCommand DEF MayDownload
<1>h. ASSUME NEW m \in Menu[c], OpensLocal(c, m)
      PROVE  /\ \A q \in Client : q # c => local'[q] = local[q]
             /\ \A n \in Name : local'[c][n] = local[c][n] \/ MayDownload(c, n)
    BY <1>a, <1>b, <1>g, <1>h DEF OpensLocal
<1>i. proc[c].cmd # None /\ proc[c].cmd.id = "DOWN" => MayDownload(c, proc[c].cmd.arg)
    BY <1>b, <1>g
<1>j. proc[c].pc \in InTransfer => proc[c].cmd # None
    BY CommandTypes DEF DataInv, TypeInv, Shape, ClientShape, InTransfer
<1>1. CASE ReadHello(c) \/ Granted(c)
    BY <1>1, <1>a, <1>d, <1>f, <1>p DEF ReadHello, Granted, ProcState
<1>2. CASE ReadFails(c) \/ WriteFails(c) \/ Leave(c) \/ ListFails(c) \/ Kill(c)
    BY <1>2, <1>e DEF ReadFails, WriteFails, Leave, ListFails, Kill
<1>3. CASE WriteCmd(c)
  <2>1. /\ UNCHANGED <<local, port, pend, dat, cwd, fs, thr>> /\ proc[c].pc = "write"
        /\ \A q \in Client : proc'[q].cmd = proc[q].cmd
        /\ \A q \in Client : q # c => proc'[q] = proc[q]
    BY <1>3, <1>a DEF WriteCmd, ProcState, serverVars
  <2>2. \A k \in Conn : /\ ctl'[k].by = ctl[k].by
                        /\ \/ ctl'[k].req = ctl[k].req
                           \/ k = proc[c].conn /\ ctl'[k].req = Append(ctl[k].req, proc[c].cmd)
    BY <1>3, <1>a DEF WriteCmd, CtlState
  <2>3. proc[c].cmd # None
    BY <1>j, <2>1 DEF InTransfer
  <2> QED BY <1>c, <1>p, <2>1, <2>2, <2>3 DEF ClientTouches
<1>4. CASE Answered(c)
  <2>1. /\ ClosePort(c, dat) /\ UNCHANGED serverVars /\ proc[c].pc = "reply"
        /\ proc' = [proc EXCEPT ![c].pc = "ready", ![c].cmd = None]
        /\ \A k \in Conn : ctl'[k].by = ctl[k].by /\ ctl'[k].req = ctl[k].req
        /\ \/ UNCHANGED local
           \/ proc[c].cmd.id = "DOWN" /\ local' = [local EXCEPT ![c][proc[c].cmd.arg] = NoFile]
    BY <1>4, <1>f DEF Answered, Reads
  <2>2. \A s \in Sock : ~ Holds(c, s) /\ Alive(s) => dat'[s] = dat[s]
    BY <1>a, <2>1, ClosesOwn
  <2>3. proc[c].cmd # None
    BY <1>j, <2>1 DEF InTransfer
  <2>4. /\ \A q \in Client : q # c => local'[q] = local[q]
        /\ \A n \in Name : local'[c][n] = local[c][n] \/ MayDownload(c, n)
    BY <1>a, <1>i, <2>1, <2>3
  <2>5. /\ \A q \in Client : q # c => proc'[q] = proc[q]
        /\ proc'[c].cmd = None
    BY <1>a, <2>1 DEF ProcState
  <2> QED BY <1>d, <1>q, <2>1, <2>2, <2>4, <2>5
<1>5. CASE AcceptData(c)
  <2>1. port[HostOf[c]] = c
    BY <1>5 DEF AcceptData, DataInv, Wired, ProcWired, InTransfer
  <2>2. PortsKept(c)
    BY <1>5, <1>a, <2>1 DEF AcceptData, PortsKept
  <2> QED BY <1>5, <1>a, <1>d, <2>2 DEF AcceptData, ProcState
<1>6. CASE Get(c)
  <2>1. /\ proc[c].pc = "get" /\ UNCHANGED <<proc, port, pend, ctl, serverVars>>
        /\ local' = IF proc[c].cmd.id = "DOWN"
                    THEN [local EXCEPT ![c][proc[c].cmd.arg] =
                            Append(local[c][proc[c].cmd.arg], Head(dat[proc[c].data].toCli))]
                    ELSE local
        /\ dat' = [dat EXCEPT ![proc[c].data].toCli = Tail(@)]
    BY <1>6 DEF Get
  <2>2. proc[c].cmd # None
    BY <1>j, <2>1 DEF InTransfer
  <2>3. /\ \A q \in Client : q # c => local'[q] = local[q]
        /\ \A n \in Name : local'[c][n] = local[c][n] \/ MayDownload(c, n)
    BY <1>a, <1>i, <2>1, <2>2
  <2>4. \A s \in Sock : ~ Holds(c, s) => dat'[s] = dat[s]
    BY <1>a, <2>1 DEF Holds
  <2> QED BY <1>d, <1>p, <2>1, <2>3, <2>4
<1>7. CASE GetEnds(c) \/ PutEnds(c)
  <2>1. /\ UNCHANGED <<local, ctl, serverVars>>
        /\ proc' = [proc EXCEPT ![c].pc = "ready", ![c].cmd = None,
                                ![c].data = None, ![c].pos = 0]
    BY <1>7 DEF GetEnds, PutEnds, CloseTransfer
  <2>2. PICK d : d = CloseData(c, "closed") /\ ClosePort(c, d)
    BY <1>7 DEF GetEnds, PutEnds, CloseTransfer
  <2>3. /\ DOMAIN d = Sock
        /\ \A s \in Sock : d[s].srv = dat[s].srv /\ (proc[c].data # s => d[s] = dat[s])
    BY <1>a, <2>2 DEF CloseData, DatState
  <2>4. \A s \in Sock : ~ Holds(c, s) /\ Alive(s) => dat'[s] = dat[s]
    BY <2>2, <2>3, ClosesOwn
  <2>5. /\ \A q \in Client : q # c => proc'[q] = proc[q]
        /\ proc'[c].cmd = None
    BY <1>a, <2>1 DEF ProcState
  <2> QED BY <1>d, <1>q, <2>1, <2>2, <2>4, <2>5
<1>8. CASE Put(c)
  <2>1. /\ UNCHANGED <<local, port, pend, ctl, serverVars>>
        /\ proc' = [proc EXCEPT ![c].pos = @ + 1]
    BY <1>8 DEF Put
  <2>2. \A s \in Sock : s # proc[c].data => dat'[s] = dat[s]
    BY <1>8, <1>a DEF Put
  <2>3. /\ \A q \in Client : q # c => proc'[q] = proc[q]
        /\ proc'[c].cmd = proc[c].cmd
    BY <1>a, <2>1 DEF ProcState
  <2> QED BY <1>d, <1>p, <2>1, <2>2, <2>3 DEF Holds
<1>9. ASSUME NEW k \in Conn, Connect(c, k) PROVE ClientTouches(c)
  <2>1. /\ UNCHANGED <<local, port, pend, dat, cwd, fs>> /\ ctl[k].by = None
        /\ \A q \in Client : q # c => proc'[q] = proc[q]
        /\ proc'[c].cmd = None
    BY <1>9, <1>a DEF Connect, NoProc
  <2>2. /\ \A q \in Conn : q # k => ctl'[q] = ctl[q] /\ thr'[q] = thr[q]
        /\ ctl'[k].req = <<>>
        /\ thr'[k].pc = "queued" /\ thr'[k].cmd = thr[k].cmd
    BY <1>9, <1>a DEF Connect, NoCtl, ThrState
  <2> QED BY <1>p, <2>1, <2>2 DEF ClientTouches
<1>10. ASSUME NEW m \in Menu[c], Type(c, m) PROVE ClientTouches(c)
  <2>1. /\ UNCHANGED <<ctl, dat, serverVars>> /\ OpensLocal(c, m)
        /\ proc' = [proc EXCEPT ![c].pc = "write", ![c].cmd = m]
    BY <1>10 DEF Type
  <2>2. /\ \A q \in Client : q # c => proc'[q] = proc[q]
        /\ proc'[c].cmd = m
    BY <1>a, <2>1 DEF ProcState
  <2>3. PortsKept(c)
    BY <1>10, <1>a DEF Type, PortsKept
  <2> QED BY <1>d, <1>h, <2>1, <2>2, <2>3
<1>11. ASSUME NEW m \in Menu[c], BindFails(c, m) PROVE ClientTouches(c)
  <2>1. Gone(c, "closed") /\ UNCHANGED serverVars /\ OpensLocal(c, m)
    BY <1>11 DEF BindFails
  <2> QED BY <1>e, <1>h, <2>1
<1> QED
    BY <1>1, <1>2, <1>3, <1>4, <1>5, <1>6, <1>7, <1>8, <1>9, <1>10, <1>11
    DEF ClientStep, UserStep

-----------------------------------------------------------------------------
(* What the steps of a thread do to files, commands and data.              *)

\* It has no data connection any more, or had none.
Idles(k) == /\ UNCHANGED fs
            /\ thr'[k].cmd \in {None, thr[k].cmd}
            /\ thr'[k].pc \in {"welcome", "recv", "cdtext", "end"}

\* It takes a command with a data connection.
Starts(k) == LET m == Head(ctl[k].req) IN
    /\ UNCHANGED <<cwd, fs>> /\ ctl[k].req # <<>>
    /\ thr'[k].pc = "connect" /\ thr'[k].cmd = m
    /\ m.id = "DOWN" => /\ thr'[k].pos = 0
                        /\ thr'[k].file = [dir |-> cwd, name |-> m.arg]
    /\ m.id = "UP" /\ cwd \notin Denied => fs[cwd][m.arg] = NoFile

ThreadTouches(k) ==
    /\ \A q \in Conn : q # k => thr'[q] = thr[q]
    /\ \A q \in Conn : /\ ctl'[q].by = ctl[q].by /\ ctl'[q].cli = ctl[q].cli
                       /\ \/ ctl'[q].req = ctl[q].req
                          \/ ctl[q].req # <<>> /\ ctl'[q].req = Tail(ctl[q].req)
    /\ \A s \in Sock : Alive(s) /\ ~ (thr[k].pc \in Moving /\ thr[k].data = s) =>
                         dat'[s] = dat[s]
    /\ \/ Idles(k) \/ Starts(k) \/ ConnectData(k)
       \/ SendBlock(k) \/ CreateFile(k) \/ RecvBlock(k)

LEMMA ThreadDoes ==
    ASSUME DataInv, NEW k \in Conn, ThreadStep(k), ~ CreateAborts(k)
    PROVE  ThreadTouches(k)
<1>a. /\ ctl \in [Conn -> CtlState] /\ dat \in [Sock -> DatState] /\ thr \in [Conn -> ThrState]
      /\ ThreadShape(k)
    BY DataTypes DEF DataInv, TypeInv, Shape
<1>b. /\ [NoThread EXCEPT !.pc = "recv"].pc = "recv"
      /\ [NoThread EXCEPT !.pc = "recv"].cmd = None
      /\ \A f : /\ [NoThread EXCEPT !.pc = "end", !.file = f].pc = "end"
                /\ [NoThread EXCEPT !.pc = "end", !.file = f].cmd = None
      /\ [NoThread EXCEPT !.pc = "end"].pc = "end"
      /\ [NoThread EXCEPT !.pc = "end"].cmd = None
    BY DEF NoThread
\* The connections: what is taken, said, sent and closed.
<1>c. ASSUME NEW to, NEW id, NEW text, NEW x \in [Conn -> CtlState],
             ctl' = SendRspns(x, k, to, id, text),
             \A q \in Conn : /\ x[q].by = ctl[q].by /\ x[q].cli = ctl[q].cli
                             /\ \/ x[q].req = ctl[q].req
                                \/ ctl[q].req # <<>> /\ x[q].req = Tail(ctl[q].req)
      PROVE  \A q \in Conn : /\ ctl'[q].by = ctl[q].by /\ ctl'[q].cli = ctl[q].cli
                             /\ \/ ctl'[q].req = ctl[q].req
                                \/ ctl[q].req # <<>> /\ ctl'[q].req = Tail(ctl[q].req)
    BY <1>c DEF SendRspns, CtlState
<1>d. ASSUME ctl[k].req # <<>>
      PROVE  /\ Taken(k) \in [Conn -> CtlState]
             /\ \A q \in Conn : /\ Taken(k)[q].by = ctl[q].by /\ Taken(k)[q].cli = ctl[q].cli
                                /\ \/ Taken(k)[q].req = ctl[q].req
                                   \/ ctl[q].req # <<>> /\ Taken(k)[q].req = Tail(ctl[q].req)
  <2>1. Taken(k) \in [Conn -> CtlState]
    BY <1>d, TakenTypes DEF DataInv
  <2>2. \A q \in Conn : /\ Taken(k)[q].by = ctl[q].by /\ Taken(k)[q].cli = ctl[q].cli
                        /\ Taken(k)[q].req = ctl[q].req \/ (q = k /\ Taken(k)[q].req = Tail(ctl[q].req))
    BY <1>a DEF Taken, CtlState
  <2> QED BY <1>d, <2>1, <2>2
<1>e. ASSUME NEW d, d = dat \/ \E item : d = SendsData(k, item), ClosesData(k, d)
      PROVE  \A s \in Sock : Alive(s) /\ thr[k].data # s => dat'[s] = dat[s]
  <2>1. \A s \in Sock : thr[k].data # s => d[s] = dat[s]
    BY <1>a, <1>e DEF SendsData
  <2> QED BY <1>e, <2>1 DEF ClosesData, Live, Alive
\* The kinds of steps.
<1>f. ASSUME NEW f, EndThread(k, f), UNCHANGED fs,
             \/ UNCHANGED dat
             \/ thr[k].pc \in Moving /\ ClosesData(k, dat)
             \/ thr[k].pc \in Moving /\ \E item : ClosesData(k, SendsData(k, item))
      PROVE  ThreadTouches(k)
  <2>1. /\ \A q \in Conn : q # k => thr'[q] = thr[q]
        /\ thr'[k].pc = "end" /\ thr'[k].cmd = None
        /\ \A q \in Conn : /\ ctl'[q].by = ctl[q].by /\ ctl'[q].req = ctl[q].req
                           /\ ctl'[q].cli = ctl[q].cli
    BY <1>a, <1>b, <1>f DEF EndThread, CtlState
  <2>2. \A s \in Sock : Alive(s) /\ ~ (thr[k].pc \in Moving /\ thr[k].data = s) =>
                         dat'[s] = dat[s]
    BY <1>e, <1>f
  <2> QED BY <1>f, <2>1, <2>2 DEF ThreadTouches, Idles
<1>g. ASSUME NextCommand(k), UNCHANGED <<ctl, fs>>, thr[k].pc \in Moving,
             ClosesData(k, dat) \/ \E item : ClosesData(k, SendsData(k, item))
      PROVE  ThreadTouches(k)
  <2>1. /\ \A q \in Conn : q # k => thr'[q] = thr[q]
        /\ thr'[k].pc = "recv" /\ thr'[k].cmd = None
    BY <1>a, <1>b, <1>g DEF NextCommand
  <2>2. \A s \in Sock : Alive(s) /\ thr[k].data # s => dat'[s] = dat[s]
    BY <1>e, <1>g
  <2> QED BY <1>g, <2>1, <2>2 DEF ThreadTouches, Idles
<1>h. ASSUME UNCHANGED <<dat, fs>>, NEW pc \in {"welcome", "recv", "cdtext"},
             thr' = [thr EXCEPT ![k].pc = pc],
             \A q \in Conn : /\ ctl'[q].by = ctl[q].by /\ ctl'[q].cli = ctl[q].cli
                             /\ \/ ctl'[q].req = ctl[q].req
                                \/ ctl[q].req # <<>> /\ ctl'[q].req = Tail(ctl[q].req)
      PROVE  ThreadTouches(k)
  <2>1. /\ \A q \in Conn : q # k => thr'[q] = thr[q]
        /\ thr'[k].pc = pc /\ thr'[k].cmd = thr[k].cmd
    BY <1>a, <1>h DEF ThrState
  <2> QED BY <1>h, <2>1 DEF ThreadTouches, Idles
<1>i. ASSUME UNCHANGED <<dat, fs, thr>>, thr[k].pc = "recv",
             \A q \in Conn : /\ ctl'[q].by = ctl[q].by /\ ctl'[q].cli = ctl[q].cli
                             /\ \/ ctl'[q].req = ctl[q].req
                                \/ ctl[q].req # <<>> /\ ctl'[q].req = Tail(ctl[q].req)
      PROVE  ThreadTouches(k)
    BY <1>i DEF ThreadTouches, Idles
<1>1. CASE NoThreadForIt(k) \/ RecvFails(k) \/ ReplyFails(k) \/ ConnectFails(k)
  <2>1. \E f : EndThread(k, f) /\ UNCHANGED <<dat, fs>>
    BY <1>1 DEF NoThreadForIt, RecvFails, ReplyFails, ConnectFails
  <2> QED BY <1>f, <2>1
<1>2. CASE SendFails(k)
    BY <1>2, <1>f DEF SendFails, Moving
<1>3. CASE SendListDenied(k)
    BY <1>3, <1>f DEF SendListDenied, Moving
<1>4. CASE CreateFails(k) \/ RecvBroken(k)
    BY <1>4, <1>f DEF CreateFails, RecvBroken, Moving
<1>5. CASE SendList(k)
    BY <1>5, <1>g DEF SendList, Moving
<1>6. CASE SendEnds(k) \/ RecvEnds(k)
    BY <1>6, <1>g DEF SendEnds, RecvEnds, Moving
<1>7. CASE AcceptCtl(k)
    BY <1>7, <1>h DEF AcceptCtl
<1>8. CASE Welcome(k)
  <2>1. \A q \in Conn : /\ ctl'[q].by = ctl[q].by /\ ctl'[q].cli = ctl[q].cli
                        /\ \/ ctl'[q].req = ctl[q].req
                           \/ ctl[q].req # <<>> /\ ctl'[q].req = Tail(ctl[q].req)
    BY <1>8, <1>a, <1>c DEF Welcome
  <2> QED BY <1>8, <1>h, <2>1 DEF Welcome
<1>9. CASE CdText(k)
  <2>1. \A q \in Conn : /\ ctl'[q].by = ctl[q].by /\ ctl'[q].cli = ctl[q].cli
                        /\ \/ ctl'[q].req = ctl[q].req
                           \/ ctl[q].req # <<>> /\ ctl'[q].req = Tail(ctl[q].req)
    BY <1>9, <1>a, <1>c DEF CdText
  <2> QED BY <1>9, <1>h, <2>1 DEF CdText
<1>10. CASE Cd(k)
    BY <1>10, <1>d, <1>h DEF Cd, Received
<1>11. CASE Pwd(k) \/ CdFails(k) \/ DownRefused(k) \/ UpRefused(k)
  <2>1. /\ ctl[k].req # <<>> /\ thr[k].pc = "recv" /\ UNCHANGED <<dat, fs, thr>>
        /\ \E to, id, text : ctl' = SendRspns(Taken(k), k, to, id, text)
    BY <1>11 DEF Pwd, CdFails, DownRefused, UpRefused, Received, serverVars
  <2>2. \A q \in Conn : /\ ctl'[q].by = ctl[q].by /\ ctl'[q].cli = ctl[q].cli
                        /\ \/ ctl'[q].req = ctl[q].req
                           \/ ctl[q].req # <<>> /\ ctl'[q].req = Tail(ctl[q].req)
    BY <1>c, <1>d, <2>1
  <2> QED BY <1>i, <2>1, <2>2
<1>12. CASE Quit(k)
  <2>0. PICK x : x = SendRspns(Taken(k), k, "QUIT", "OK", None)
    OBVIOUS
  <2>1. /\ ctl[k].req # <<>> /\ UNCHANGED <<dat, fs>>
        /\ thr' = [thr EXCEPT ![k] = [NoThread EXCEPT !.pc = "end"]]
        /\ ctl' = [x EXCEPT ![k].srv = "closed"]
    BY <1>12, <2>0 DEF Quit, Received
  <2>2. x \in [Conn -> CtlState]
    BY <1>d, <2>0, <2>1, SendsTypes
  <2>3. \A q \in Conn : /\ x[q].by = ctl[q].by /\ x[q].cli = ctl[q].cli
                        /\ \/ x[q].req = ctl[q].req
                           \/ ctl[q].req # <<>> /\ x[q].req = Tail(ctl[q].req)
    BY <1>d, <2>0, <2>1 DEF SendRspns, CtlState
  <2>4. \A q \in Conn : /\ ctl'[q].by = x[q].by /\ ctl'[q].req = x[q].req
                        /\ ctl'[q].cli = x[q].cli
    BY <2>1, <2>2 DEF CtlState
  <2>5. /\ \A q \in Conn : q # k => thr'[q] = thr[q]
        /\ thr'[k].pc = "end" /\ thr'[k].cmd = None
    BY <1>a, <1>b, <2>1
  <2> QED BY <2>1, <2>3, <2>4, <2>5 DEF ThreadTouches, Idles
<1>13. CASE Ls(k) \/ Down(k) \/ Up(k)
  <2>1. ctl[k].req # <<>> /\ UNCHANGED <<dat, cwd, fs>>
    BY <1>13 DEF Ls, Down, Up, Received
  <2>2. \A q \in Conn : /\ ctl'[q].by = ctl[q].by /\ ctl'[q].cli = ctl[q].cli
                        /\ \/ ctl'[q].req = ctl[q].req
                           \/ ctl[q].req # <<>> /\ ctl'[q].req = Tail(ctl[q].req)
    BY <1>13, <1>c, <1>d, <2>1 DEF Ls, Down, Up
  <2>3. \A q \in Conn : q # k => thr'[q] = thr[q]
    BY <1>13, <1>a DEF Ls, Down, Up
  <2>4. Starts(k)
    <3>1. CASE Ls(k)
      BY <1>a, <2>1, <3>1 DEF Ls, Received, Starts, ThrState
    <3>2. CASE Down(k)
      BY <1>a, <2>1, <3>2 DEF Down, Received, Arg, Starts, ThrState
    <3>3. CASE Up(k)
      BY <1>a, <2>1, <3>3 DEF Up, Received, Arg, FileExists, Starts, ThrState
    <3> QED BY <1>13, <3>1, <3>2, <3>3
  <2> QED BY <2>1, <2>2, <2>3, <2>4 DEF ThreadTouches
<1>14. CASE ConnectData(k)
  <2>1. UNCHANGED ctl /\ \A q \in Conn : q # k => thr'[q] = thr[q]
    BY <1>14, <1>a DEF ConnectData
  <2>2. \A s \in Sock : Alive(s) => dat'[s] = dat[s]
    BY <1>14, <1>a DEF ConnectData, FreeSock, Alive, NoDat
  <2> QED BY <1>14, <2>1, <2>2 DEF ThreadTouches
<1>15. CASE SendBlock(k)
  <2>1. UNCHANGED ctl /\ thr[k].pc \in Moving /\ \A q \in Conn : q # k => thr'[q] = thr[q]
    BY <1>15, <1>a DEF SendBlock, Moving
  <2>2. \A s \in Sock : s # thr[k].data => dat'[s] = dat[s]
    BY <1>15, <1>a DEF SendBlock, SendsData
  <2> QED BY <1>15, <2>1, <2>2 DEF ThreadTouches
<1>16. CASE CreateFile(k)
  <2>1. UNCHANGED <<ctl, dat>> /\ \A q \in Conn : q # k => thr'[q] = thr[q]
    BY <1>16, <1>a DEF CreateFile
  <2> QED BY <1>16, <2>1 DEF ThreadTouches
<1>17. CASE RecvBlock(k)
  <2>1. UNCHANGED ctl /\ thr[k].pc \in Moving /\ \A q \in Conn : q # k => thr'[q] = thr[q]
    BY <1>17, <1>a DEF RecvBlock, Moving
  <2>2. \A s \in Sock : s # thr[k].data => dat'[s] = dat[s]
    BY <1>17, <1>a DEF RecvBlock
  <2> QED BY <1>17, <2>1, <2>2 DEF ThreadTouches
<1> QED
    BY <1>1, <1>2, <1>3, <1>4, <1>5, <1>6, <1>7, <1>8, <1>9, <1>10, <1>11, <1>12, <1>13,
       <1>14, <1>15, <1>16, <1>17 DEF ThreadStep

\* A block is sent.
LEMMA BlockSent ==
    ASSUME DataInv, NEW k \in Conn, SendBlock(k)
    PROVE  /\ UNCHANGED <<proc, local, port, pend, ctl, cwd, fs>>
           /\ thr[k].pc = "send" /\ thr[k].pos < Len(Opened(k)) /\ thr'[k].pc = "send"
           /\ thr'[k].cmd = thr[k].cmd /\ thr'[k].data = thr[k].data
           /\ thr'[k].file = thr[k].file /\ thr'[k].pos = thr[k].pos + 1
           /\ Opened(k)' = Opened(k)
           /\ \A s \in Sock : s = thr[k].data /\ dat[s].cli = "open" =>
                /\ dat'[s].toCli = Append(dat[s].toCli, Opened(k)[thr[k].pos + 1])
                /\ dat'[s].by = dat[s].by /\ dat'[s].srv = dat[s].srv /\ dat'[s].cli = dat[s].cli
<1>1. /\ thr \in [Conn -> ThrState] /\ thr[k] \in ThrState /\ dat \in [Sock -> DatState]
    BY DataTypes DEF DataInv
<1>2. /\ thr' = [thr EXCEPT ![k].pos = @ + 1]
      /\ UNCHANGED <<proc, local, port, pend, ctl, cwd, fs>>
      /\ thr[k].pc = "send" /\ thr[k].pos < Len(Opened(k))
    BY DEF SendBlock, clientVars
<1>3. /\ thr'[k].pc = "send"
      /\ thr'[k].cmd = thr[k].cmd /\ thr'[k].data = thr[k].data
      /\ thr'[k].file = thr[k].file /\ thr'[k].pos = thr[k].pos + 1
    BY <1>1, <1>2 DEF ThrState
<1>4. Opened(k)' = Opened(k)
    BY <1>2, <1>3 DEF Opened
<1>5. ASSUME NEW s \in Sock, s = thr[k].data, dat[s].cli = "open"
      PROVE  /\ dat'[s].toCli = Append(dat[s].toCli, Opened(k)[thr[k].pos + 1])
             /\ dat'[s].by = dat[s].by /\ dat'[s].srv = dat[s].srv /\ dat'[s].cli = dat[s].cli
  <2>1. PICK b : b = Opened(k)[thr[k].pos + 1]
    OBVIOUS
  <2>2. dat' = [dat EXCEPT ![s].toCli = Append(dat[s].toCli, b)]
    BY <1>5, <2>1 DEF SendBlock, SendsData
  <2> QED BY <1>1, <2>1, <2>2 DEF DatState
<1> QED BY <1>2, <1>3, <1>4, <1>5

\* The file of an upload is created.
LEMMA FileCreated ==
    ASSUME DataInv, NEW k \in Conn, CreateFile(k)
    PROVE  /\ UNCHANGED <<proc, local, port, pend, ctl, dat, cwd>>
           /\ thr[k].pc = "create" /\ thr[k].cmd \in Command /\ thr[k].cmd.id = "UP"
           /\ thr[k].cmd.arg \in Name /\ cwd \in Dir
           /\ thr'[k].pc = "store" /\ thr'[k].cmd = thr[k].cmd /\ thr'[k].data = thr[k].data
           /\ thr'[k].pos = 0 /\ thr'[k].file = [dir |-> cwd, name |-> thr[k].cmd.arg]
           /\ fs'[cwd][thr[k].cmd.arg] = <<>>
           /\ \A d \in Dir, n \in Name : d # cwd \/ n # thr[k].cmd.arg => fs'[d][n] = fs[d][n]
<1>1. /\ thr \in [Conn -> ThrState] /\ thr[k] \in ThrState /\ ThreadShape(k)
      /\ fs \in [Dir -> [Name -> Content \cup {NoFile}]] /\ cwd \in Dir
    BY DataTypes DEF DataInv, TypeInv, TypeOK, Shape
<1>2. /\ thr' = [thr EXCEPT ![k].pc = "store", ![k].pos = 0,
                            ![k].file = [dir |-> cwd, name |-> thr[k].cmd.arg]]
      /\ fs' = [fs EXCEPT ![cwd][thr[k].cmd.arg] = <<>>]
      /\ UNCHANGED <<proc, local, port, pend, ctl, dat, cwd>>
      /\ thr[k].pc = "create"
    BY DEF CreateFile, clientVars
<1>3. thr[k].cmd \in Command /\ thr[k].cmd.id = "UP" /\ thr[k].cmd.arg \in Name
    BY <1>1, <1>2, CommandTypes DEF ThreadShape
<1>4. /\ thr'[k].pc = "store" /\ thr'[k].cmd = thr[k].cmd /\ thr'[k].data = thr[k].data
      /\ thr'[k].pos = 0 /\ thr'[k].file = [dir |-> cwd, name |-> thr[k].cmd.arg]
    BY <1>1, <1>2 DEF ThrState
<1>5. /\ fs'[cwd][thr[k].cmd.arg] = <<>>
      /\ \A d \in Dir, n \in Name : d # cwd \/ n # thr[k].cmd.arg => fs'[d][n] = fs[d][n]
    BY <1>1, <1>2, <1>3
<1> QED BY <1>1, <1>2, <1>3, <1>4, <1>5

\* A block of an upload is stored.
LEMMA BlockStored ==
    ASSUME DataInv, NEW k \in Conn, RecvBlock(k)
    PROVE  /\ UNCHANGED <<proc, local, port, pend, ctl, cwd>>
           /\ thr[k].pc = "store" /\ thr[k].file \in [dir : Dir, name : Name]
           /\ Opened(k) \in Content
           /\ thr'[k].pc = "store" /\ thr'[k].cmd = thr[k].cmd /\ thr'[k].data = thr[k].data
           /\ thr'[k].file = thr[k].file /\ thr'[k].pos = thr[k].pos + 1
           /\ thr[k].data \in Sock /\ dat[thr[k].data].toSrv # <<>>
           /\ Head(dat[thr[k].data].toSrv) \in Item
           /\ LET s == thr[k].data IN
                /\ dat'[s].toSrv = Tail(dat[s].toSrv) /\ dat'[s].by = dat[s].by
                /\ dat'[s].srv = dat[s].srv /\ dat'[s].cli = dat[s].cli
           /\ Opened(k)' = WriteAt(Opened(k), thr[k].pos, Head(dat[thr[k].data].toSrv))
           /\ \A d \in Dir, n \in Name : d # thr[k].file.dir \/ n # thr[k].file.name =>
                fs'[d][n] = fs[d][n]
<1>1. /\ thr \in [Conn -> ThrState] /\ thr[k] \in ThrState /\ ThreadShape(k)
      /\ fs \in [Dir -> [Name -> Content \cup {NoFile}]] /\ dat \in [Sock -> DatState]
    BY DataTypes DEF DataInv, TypeInv, TypeOK, Shape
<1>2. PICK s, file, b : s = thr[k].data /\ file = thr[k].file /\ b = Head(dat[s].toSrv)
    OBVIOUS
<1>3. /\ thr' = [thr EXCEPT ![k].pos = @ + 1]
      /\ fs' = [fs EXCEPT ![file.dir][file.name] = WriteAt(@, thr[k].pos, b)]
      /\ dat' = [dat EXCEPT ![s].toSrv = Tail(dat[s].toSrv)]
      /\ UNCHANGED <<proc, local, port, pend, ctl, cwd>>
      /\ thr[k].pc = "store" /\ dat[s].toSrv # <<>>
    BY <1>2 DEF RecvBlock, clientVars
<1>4. s \in Sock /\ Opened(k) \in Content /\ file \in [dir : Dir, name : Name]
    BY <1>1, <1>2, <1>3 DEF ThreadShape, ThrState
<1>5. b \in Item
    BY <1>1, <1>2, <1>3, <1>4, StreamTypes
<1>6. /\ thr'[k].pc = "store" /\ thr'[k].cmd = thr[k].cmd /\ thr'[k].data = thr[k].data
      /\ thr'[k].file = thr[k].file /\ thr'[k].pos = thr[k].pos + 1
    BY <1>1, <1>3 DEF ThrState
<1>7. /\ dat'[s].toSrv = Tail(dat[s].toSrv) /\ dat'[s].by = dat[s].by
      /\ dat'[s].srv = dat[s].srv /\ dat'[s].cli = dat[s].cli
    BY <1>1, <1>3, <1>4 DEF DatState
<1>8. /\ fs'[file.dir][file.name] = WriteAt(fs[file.dir][file.name], thr[k].pos, b)
      /\ \A d \in Dir, n \in Name : d # file.dir \/ n # file.name => fs'[d][n] = fs[d][n]
    BY <1>1, <1>3, <1>4
<1>9. Opened(k)' = WriteAt(Opened(k), thr[k].pos, b)
    BY <1>2, <1>6, <1>8 DEF Opened
<1> QED BY <1>2, <1>3, <1>4, <1>5, <1>6, <1>7, <1>8, <1>9, Zenon

\* A data connection is opened.
LEMMA DataOpened ==
    ASSUME DataInv, NEW k \in Conn, ConnectData(k), ctl[k].by \in Client
    PROVE  /\ UNCHANGED <<proc, local, port, ctl, cwd, fs>>
           /\ thr[k].pc = "connect" /\ port[PeerHost(k)] # None /\ pend[PeerHost(k)] = <<>>
           /\ thr'[k].cmd = thr[k].cmd /\ thr'[k].file = thr[k].file
           /\ thr'[k].pos = thr[k].pos
           /\ thr'[k].pc = CASE thr[k].cmd.id = "LS"   -> "list"
                             [] thr[k].cmd.id = "DOWN" -> "send"
                             [] thr[k].cmd.id = "UP"   -> "create"
           /\ \E s \in Sock :
                /\ dat[s] = NoDat /\ thr'[k].data = s
                /\ pend' = [pend EXCEPT ![PeerHost(k)] = <<s>>]
                /\ dat'[s].by = k /\ dat'[s].cli = "open" /\ dat'[s].srv = "open"
                /\ dat'[s].toCli = <<>> /\ dat'[s].toSrv = <<>>
                /\ \A x \in Sock : x # s => dat'[x] = dat[x]
<1>1. /\ thr \in [Conn -> ThrState] /\ thr[k] \in ThrState /\ dat \in [Sock -> DatState]
      /\ pend \in [Host -> Seq(Sock)] /\ PeerHost(k) \in Host
    BY DataTypes DEF DataInv, PeerHost
<1>2. PICK s \in Sock :
        /\ dat[s] = NoDat
        /\ pend' = [pend EXCEPT ![PeerHost(k)] = Append(@, s)]
        /\ dat' = [dat EXCEPT ![s] = [NoDat EXCEPT !.by = k, !.cli = "open", !.srv = "open"]]
        /\ thr' = [thr EXCEPT ![k].pc = CASE thr[k].cmd.id = "LS"   -> "list"
                                          [] thr[k].cmd.id = "DOWN" -> "send"
                                          [] thr[k].cmd.id = "UP"   -> "create",
                              ![k].data = s]
    BY DEF ConnectData, FreeSock
<1>3. /\ UNCHANGED <<proc, local, port, ctl, cwd, fs>>
      /\ thr[k].pc = "connect" /\ port[PeerHost(k)] # None /\ Len(pend[PeerHost(k)]) < 1
    BY DEF ConnectData, clientVars, Listening, DataBacklog
<1>4. pend[PeerHost(k)] = <<>> /\ Append(pend[PeerHost(k)], s) = <<s>>
  <2>1. pend[PeerHost(k)] = <<>>
    BY <1>1, <1>3
  <2> QED BY <2>1
<1>5. /\ thr'[k].cmd = thr[k].cmd /\ thr'[k].file = thr[k].file
      /\ thr'[k].pos = thr[k].pos /\ thr'[k].data = s
      /\ thr'[k].pc = CASE thr[k].cmd.id = "LS"   -> "list"
                        [] thr[k].cmd.id = "DOWN" -> "send"
                        [] thr[k].cmd.id = "UP"   -> "create"
    BY <1>1, <1>2 DEF ThrState
<1>6. /\ dat'[s].by = k /\ dat'[s].cli = "open" /\ dat'[s].srv = "open"
      /\ dat'[s].toCli = <<>> /\ dat'[s].toSrv = <<>>
      /\ \A x \in Sock : x # s => dat'[x] = dat[x]
    BY <1>1, <1>2 DEF NoDat
<1> QED BY <1>2, <1>3, <1>4, <1>5, <1>6

\* The process ends, with every thread.
LEMMA AllAborted ==
    ASSUME DataInv, NEW k \in Conn, CreateAborts(k)
    PROVE  /\ UNCHANGED <<proc, local, port, pend, cwd, fs>>
           /\ \A q \in Conn : /\ ctl'[q].by = ctl[q].by /\ ctl'[q].req = ctl[q].req
                              /\ ctl'[q].cli = ctl[q].cli
                              /\ \/ thr'[q] = thr[q] /\ thr[q].pc = "none"
                                 \/ thr'[q].pc = "end" /\ thr'[q].cmd = None
           /\ \A s \in Sock : dat[s].cli = "open" =>
                /\ dat'[s].by = dat[s].by /\ dat'[s].toCli = dat[s].toCli
                /\ dat'[s].srv # "open" /\ (dat'[s].srv = "closed" => dat[s].srv = "closed")
<1>1. /\ thr \in [Conn -> ThrState] /\ dat \in [Sock -> DatState] /\ ctl \in [Conn -> CtlState]
    BY DataTypes DEF DataInv
<1>2. /\ UNCHANGED <<proc, local, port, pend, cwd, fs>>
      /\ \A q \in Conn : \/ thr'[q] = thr[q] /\ thr[q].pc = "none"
                         \/ thr'[q].pc = "end" /\ thr'[q].cmd = None
    BY <1>1 DEF CreateAborts, clientVars, NoThread
<1>3. \A q \in Conn : /\ ctl'[q].by = ctl[q].by /\ ctl'[q].req = ctl[q].req
                      /\ ctl'[q].cli = ctl[q].cli
    BY <1>1 DEF CreateAborts, Aborted, CtlState
<1>4. ASSUME NEW s \in Sock, dat[s].cli = "open"
      PROVE  /\ dat'[s].by = dat[s].by /\ dat'[s].toCli = dat[s].toCli
             /\ dat'[s].srv # "open" /\ (dat'[s].srv = "closed" => dat[s].srv = "closed")
  <2>1. PICK e : e = [x \in Sock |-> Aborted(dat[x])] /\ dat' = Live(e)
    BY DEF CreateAborts
  <2>2. e[s].cli = "open" /\ e[s].by = dat[s].by /\ e[s].toCli = dat[s].toCli
        /\ e[s].srv # "open" /\ (e[s].srv = "closed" => dat[s].srv = "closed")
    BY <1>1, <1>4, <2>1 DEF Aborted, DatState
  <2>3. dat'[s] = e[s]
    BY <2>1, <2>2 DEF Live
  <2> QED BY <2>2, <2>3
<1> QED BY <1>2, <1>3, <1>4

-----------------------------------------------------------------------------
(* What is typed and what is opened.                                       *)

\* A connection has a user as long as its thread does anything.
LEMMA ThreadUser ==
    ASSUME DataInv, NEW k \in Conn, ThreadStep(k)
    PROVE  ctl[k].by \in Client
<1>1. ThrWired(k)
    BY DEF DataInv, Wired
<1>2. CASE thr[k].pc # "none"
    BY <1>1, <1>2 DEF ThrWired
<1>3. CASE thr[k].pc = "none"
    BY <1>3 DEF ThreadStep, AcceptCtl, NoThreadForIt, Welcome, RecvFails, ReplyFails, Received,
                Ls, Pwd, Cd, CdText, CdFails, Down, DownRefused, Up, UpRefused, Quit, ConnectData,
                ConnectFails, SendList, SendListDenied, SendBlock, SendEnds, SendFails, CreateFile,
                CreateFails, CreateAborts, RecvBlock, RecvEnds, RecvBroken
<1> QED BY <1>2, <1>3

LEMMA QueueListed ==
    ASSUME NEW q \in Seq(Command), NEW M, \A i \in DOMAIN q : q[i] \in M
    PROVE  /\ \A m \in M \cap Command : \A i \in DOMAIN Append(q, m) : Append(q, m)[i] \in M
           /\ q # <<>> => /\ Head(q) \in M
                          /\ \A i \in DOMAIN Tail(q) : Tail(q)[i] \in M
<1>1. ASSUME NEW m \in M \cap Command
      PROVE  \A i \in DOMAIN Append(q, m) : Append(q, m)[i] \in M
    BY <1>1
<1>2. ASSUME q # <<>> PROVE Head(q) \in M /\ \A i \in DOMAIN Tail(q) : Tail(q)[i] \in M
  <2>1. /\ Len(q) \in Nat /\ Len(q) > 0 /\ DOMAIN q = 1 .. Len(q) /\ Head(q) = q[1]
        /\ DOMAIN Tail(q) = 1 .. (Len(q) - 1)
        /\ \A i \in 1 .. (Len(q) - 1) : Tail(q)[i] = q[i + 1]
    BY <1>2
  <2>2. \A i \in 1 .. (Len(q) - 1) : i + 1 \in 1 .. Len(q)
    BY <2>1
  <2> QED BY <2>1, <2>2
<1> QED BY <1>1, <1>2

LEMMA TypedClient ==
    ASSUME DataInv, Typed, NEW c \in Client, ClientStep(c) \/ UserStep(c)
    PROVE  Typed'
<1>1. ClientTouches(c)
    BY ClientDoes
<1>2. ASSUME NEW q \in Client, proc'[q].cmd # None PROVE proc'[q].cmd \in Menu[q]
    BY <1>1, <1>2 DEF ClientTouches, Typed
<1>3. ASSUME NEW k \in Conn PROVE Listed(k)'
  <2>1. /\ Listed(k) /\ None \notin Client /\ ThrWired(k)
    BY DataTypes DEF Typed, DataInv, Wired
  <2>2. ctl[k].req \in Seq(Command) /\ Menu[c] \subseteq Command
    BY DataTypes, FtpAssumption DEF DataInv, CtlState
  <2>3. thr[k].cmd # None => ctl'[k].by = ctl[k].by
    BY <1>1, <2>1 DEF ClientTouches, Listed
  <2>4. \A i \in DOMAIN ctl'[k].req : ctl'[k].req[i] \in Menu[ctl'[k].by]
    <3>1. CASE ctl'[k].by = ctl[k].by /\ ctl'[k].req = ctl[k].req
      BY <2>1, <3>1 DEF Listed
    <3>2. CASE ctl'[k].req = <<>>
      BY <3>2
    <3>3. CASE /\ ctl[k].by = c /\ proc[c].cmd # None /\ ctl'[k].by = ctl[k].by
               /\ ctl'[k].req = Append(ctl[k].req, proc[c].cmd)
      <4>1. proc[c].cmd \in Menu[c] \cap Command
        BY <2>2, <3>3 DEF Typed
      <4>2. \A i \in DOMAIN ctl[k].req : ctl[k].req[i] \in Menu[c]
        BY <2>1, <3>3 DEF Listed
      <4> QED BY <2>2, <3>3, <4>1, <4>2, QueueListed
    <3>4. ctl'[k].by = ctl[k].by \/ ctl'[k].req = <<>>
      BY <1>1 DEF ClientTouches
    <3> QED BY <1>1, <3>1, <3>2, <3>3, <3>4 DEF ClientTouches
  <2>5. thr'[k].cmd # None => ctl'[k].by \in Client /\ thr'[k].cmd \in Menu[ctl'[k].by]
    BY <1>1, <2>1, <2>3 DEF ClientTouches, Listed
  <2>6. thr'[k] = thr[k] \/ thr'[k].pc = "queued"
    BY <1>1 DEF ClientTouches
  <2> QED BY <2>1, <2>4, <2>5, <2>6 DEF Listed, Opens
<1> QED BY <1>2, <1>3 DEF Typed

LEMMA TypedThread ==
    ASSUME DataInv, Typed, NEW k \in Conn, ThreadStep(k)
    PROVE  Typed'
<1>1. CASE CreateAborts(k)
    BY <1>1, AllAborted DEF Typed, Listed, Opens
<1>2. CASE ~ CreateAborts(k)
  <2>1. ThreadTouches(k) /\ ctl[k].by \in Client /\ proc' = proc
    BY <1>2, ThreadDoes, ThreadUser, ThreadLeavesClients DEF clientVars
  <2>2. ASSUME NEW q \in Conn
        PROVE  \A i \in DOMAIN ctl'[q].req : ctl'[q].req[i] \in Menu[ctl'[q].by]
    <3>1. /\ Listed(q) /\ ctl[q].req \in Seq(Command) /\ ctl'[q].by = ctl[q].by
          /\ \/ ctl'[q].req = ctl[q].req
             \/ ctl[q].req # <<>> /\ ctl'[q].req = Tail(ctl[q].req)
      BY <2>1, DataTypes DEF Typed, DataInv, CtlState, ThreadTouches
    <3> QED BY <3>1, QueueListed DEF Listed
  <2>3. ASSUME NEW q \in Conn, q # k PROVE Listed(q)'
    <3>1. Listed(q) /\ thr'[q] = thr[q] /\ ctl'[q].by = ctl[q].by
      BY <2>1, <2>3 DEF Typed, ThreadTouches
    <3> QED BY <2>2, <3>1 DEF Listed, Opens
  <2>4. /\ Listed(k) /\ ctl'[k].by = ctl[k].by /\ ctl[k].req \in Seq(Command)
    BY <2>1, DataTypes DEF Typed, ThreadTouches, DataInv, CtlState
  <2>5. /\ thr'[k].cmd # None => thr'[k].cmd \in Menu[ctl[k].by]
        /\ Opens(k)'
    <3>1. CASE Idles(k)
      BY <2>4, <3>1 DEF Idles, Listed, Opens
    <3>2. CASE Starts(k)
      <4>1. Head(ctl[k].req) \in Menu[ctl[k].by]
        BY <2>4, <3>2, QueueListed DEF Starts, Listed
      <4> QED BY <3>2, <4>1 DEF Starts, Opens
    <3>3. CASE ConnectData(k)
      <4>1. /\ thr'[k].cmd = thr[k].cmd /\ thr'[k].file = thr[k].file /\ thr[k].pc = "connect"
            /\ thr[k].cmd.id \in Transfer
            /\ thr'[k].pc = CASE thr[k].cmd.id = "LS"   -> "list"
                              [] thr[k].cmd.id = "DOWN" -> "send"
                              [] thr[k].cmd.id = "UP"   -> "create"
        BY <2>1, <3>3, DataOpened DEF DataInv, TypeInv, Shape, ThreadShape
      <4>2. thr'[k].pc \in {"list", "send", "create"}
        BY <4>1 DEF Transfer
      <4> QED BY <2>4, <4>1, <4>2 DEF Listed, Opens
    <3>4. CASE SendBlock(k)
      BY <2>4, <3>4, BlockSent DEF Listed, Opens
    <3>5. CASE CreateFile(k)
      <4>1. /\ thr[k].cmd \in Command /\ thr'[k].cmd = thr[k].cmd /\ thr'[k].pc = "store"
            /\ thr'[k].file = [dir |-> cwd, name |-> thr[k].cmd.arg]
        BY <3>5, FileCreated
      <4> QED BY <2>4, <4>1 DEF Listed, Opens
    <3>6. CASE RecvBlock(k)
      BY <2>4, <3>6, BlockStored DEF Listed, Opens
    <3> QED BY <2>1, <3>1, <3>2, <3>3, <3>4, <3>5, <3>6 DEF ThreadTouches
  <2>6. Listed(k)'
    BY <2>1, <2>2, <2>4, <2>5 DEF Listed, Opens
  <2> QED BY <2>1, <2>3, <2>6 DEF Typed
<1> QED BY <1>1, <1>2

-----------------------------------------------------------------------------
(* Which files change.                                                     *)

\* A write where a file ends makes it longer.
LEMMA WriteIs ==
    ASSUME NEW s \in Content, NEW p \in Nat, NEW b \in Item
    PROVE  /\ WriteAt(s, p, b) \in Content
           /\ Len(WriteAt(s, p, b)) = IF p + 1 > Len(s) THEN p + 1 ELSE Len(s)
           /\ WriteAt(s, p, b)[p + 1] = b
           /\ \A i \in 1 .. Len(s) : i # p + 1 => WriteAt(s, p, b)[i] = s[i]
<1>0. PICK w : w = WriteAt(s, p, b)
    OBVIOUS
<1>1. PICK m \in Nat : m = Len(s)
    BY DEF Content
<1>2. PICK top \in Nat : top = IF p + 1 > m THEN p + 1 ELSE m
    OBVIOUS
<1>3. w = [i \in 1 .. top |-> IF i = p + 1 THEN b ELSE IF i <= m THEN s[i] ELSE Hole]
    BY <1>0, <1>1, <1>2 DEF WriteAt
<1>4. w \in Content
    BY <1>0, WriteAtType
<1>5. DOMAIN w = 1 .. top
    BY <1>3
<1>6. Len(w) = top
    BY <1>4, <1>5 DEF Content
<1>7. p + 1 \in 1 .. top /\ \A i \in 1 .. m : i \in 1 .. top
    BY <1>2
<1>8. w[p + 1] = b /\ \A i \in 1 .. m : i # p + 1 => w[i] = s[i]
    BY <1>3, <1>7
<1> QED BY <1>0, <1>1, <1>2, <1>4, <1>6, <1>8

LEMMA WriteAppends ==
    ASSUME NEW s \in Content, NEW b \in Item
    PROVE  /\ WriteAt(s, Len(s), b) \in Content
           /\ Len(WriteAt(s, Len(s), b)) = Len(s) + 1
           /\ Begins(s, <<>>, WriteAt(s, Len(s), b))
<1>1. PICK m \in Nat, w \in Content : m = Len(s) /\ w = WriteAt(s, m, b)
    BY WriteIs DEF Content
<1>0. /\ w \in Content /\ Len(w) = (IF m + 1 > Len(s) THEN m + 1 ELSE Len(s))
      /\ \A i \in 1 .. Len(s) : i # m + 1 => w[i] = s[i]
    BY <1>1, WriteIs
<1>2. w \in Content /\ Len(w) = m + 1 /\ \A i \in 1 .. m : w[i] = s[i]
    BY <1>0, <1>1
<1>3. Len(<<>>) = 0
    OBVIOUS
<1> QED BY <1>1, <1>2, <1>3 DEF Begins

\* The user of a session that stores a file may upload its name.
LEMMA UploadListed ==
    ASSUME DataInv, Typed, NEW k \in Conn,
           \/ thr[k].pc = "connect" /\ thr[k].cmd.id = "UP"
           \/ thr[k].pc \in {"create", "store"}
    PROVE  /\ ctl[k].by \in Client /\ thr[k].cmd \in Command /\ thr[k].cmd.arg \in Name
           /\ thr[k].cmd = [id |-> "UP", arg |-> thr[k].cmd.arg]
           /\ MayUpload(ctl[k].by, thr[k].cmd.arg)
<1>1. thr[k].cmd \in Command /\ thr[k].cmd.id = "UP"
    BY DEF DataInv, Wired, ThrWired, TypeInv, Shape, ThreadShape, Typed, Listed, Opens
<1>2. thr[k].cmd # None
    BY <1>1, CommandTypes
<1>3. ctl[k].by \in Client /\ thr[k].cmd \in Menu[ctl[k].by]
    BY <1>2 DEF Typed, Listed
<1> QED BY <1>1, <1>3, FileCommand DEF MayUpload

\* A file changes only under a thread that stores its name.
LEMMA FileChanges ==
    ASSUME DataInv, Typed, NEW k \in Conn, ThreadStep(k), NEW d \in Dir, NEW n \in Name,
           fs'[d][n] # fs[d][n]
    PROVE  /\ \/ CreateFile(k) /\ d = cwd
              \/ RecvBlock(k) /\ thr[k].file = [dir |-> d, name |-> n]
           /\ thr[k].cmd.arg = n /\ ctl[k].by \in Client /\ MayUpload(ctl[k].by, n)
<1>1. ~ CreateAborts(k)
    BY AllAborted
<1>2. CreateFile(k) \/ RecvBlock(k)
    BY <1>1, ThreadDoes, DataOpened, BlockSent, ThreadUser DEF ThreadTouches, Idles, Starts
<1>3. CASE CreateFile(k)
  <2>1. d = cwd /\ n = thr[k].cmd.arg /\ thr[k].pc = "create"
    BY <1>3, FileCreated
  <2> QED BY <1>3, <2>1, UploadListed
<1>4. CASE RecvBlock(k)
  <2>1. /\ d = thr[k].file.dir /\ n = thr[k].file.name /\ thr[k].pc = "store"
        /\ thr[k].file \in [dir : Dir, name : Name]
    BY <1>4, BlockStored
  <2>2. thr[k].file = [dir |-> d, name |-> n]
    BY <2>1
  <2> QED BY <1>4, <2>1, <2>2, UploadListed DEF Typed, Listed, Opens
<1> QED BY <1>2, <1>3, <1>4

LEMMA KeptStep ==
    ASSUME DataInv, Typed, [Next]_vars, NEW n \in Name, Untouched(n), NEW d \in Dir
    PROVE  fs'[d][n] = fs[d][n]
<1>1. CASE UNCHANGED vars
    BY <1>1 DEF vars
<1>2. ASSUME NEW c \in Client, ClientStep(c) \/ UserStep(c) PROVE fs'[d][n] = fs[d][n]
    BY <1>2, ClientDoes DEF ClientTouches
<1>3. ASSUME NEW k \in Conn, ThreadStep(k) PROVE fs'[d][n] = fs[d][n]
    BY <1>3, FileChanges DEF Untouched
<1> QED BY <1>1, <1>2, <1>3 DEF Next

\* There was at most one that could store n, if there is now.
LEMMA OneBefore ==
    ASSUME \A q \in Conn : ctl'[q].by = ctl[q].by \/ ctl[q].by \notin Client, NEW n
    PROVE  OneUploader(n)' => OneUploader(n)
BY DEF OneUploader

LEMMA AloneClient ==
    ASSUME DataInv, Typed, Alone, NEW c \in Client, ClientStep(c) \/ UserStep(c)
    PROVE  Alone'
<1> SUFFICES ASSUME Stays
             PROVE  /\ KeptInv'
                    /\ \A k \in Conn : /\ thr'[k].cmd # None /\ thr'[k].cmd.id = "UP"
                                       /\ OneUploader(thr[k].cmd.arg)'
                                       /\ thr'[k].cmd = thr[k].cmd
                                       => Extends(k)'
  <2>1. \A k \in Conn : thr'[k].cmd = thr[k].cmd
    BY ClientDoes DEF ClientTouches
  <2> QED BY <2>1 DEF Alone, Stays, OneUploader
<1>1. \A q \in Client : Menu[q] \subseteq Staying
    BY FtpAssumption DEF Stays, Staying
<1>2. KeptInv'
    BY <1>1, ClientKeeps DEF DataInv, Alone
<1>3. ASSUME NEW k \in Conn, thr'[k].cmd # None, thr'[k].cmd.id = "UP",
             OneUploader(thr[k].cmd.arg)', thr'[k].cmd = thr[k].cmd
      PROVE  Extends(k)'
  <2>1. ClientTouches(c) /\ None \notin Client
    BY ClientDoes, DataTypes DEF DataInv
  <2>2. PICK n : n = thr[k].cmd.arg
    OBVIOUS
  <2>3. OneUploader(n)'
    BY <1>3, <2>2 DEF OneUploader
  <2>4. OneUploader(n)
    BY <2>1, <2>3, OneBefore DEF ClientTouches
  <2>5. Extends(k)
    BY <1>3, <2>2, <2>4 DEF Alone
  <2>6. fs' = fs /\ (thr'[k] = thr[k] \/ thr'[k].pc = "queued")
    BY <2>1 DEF ClientTouches
  <2> QED BY <2>5, <2>6 DEF Extends, Opened
<1> QED BY <1>2, <1>3

LEMMA AloneThread ==
    ASSUME DataInv, Typed, Alone, NEW k \in Conn, ThreadStep(k)
    PROVE  Alone'
<1>a. thr \in [Conn -> ThrState] /\ fs \in [Dir -> [Name -> Content \cup {NoFile}]]
    BY DataTypes DEF DataInv, TypeInv, TypeOK
<1>1. \A q \in Conn : ctl'[q].by = ctl[q].by
    BY AllAborted, ThreadDoes DEF ThreadTouches
<1>2. \A n : OneUploader(n)' => OneUploader(n)
    BY <1>1 DEF OneUploader
<1> SUFFICES ASSUME Stays
             PROVE  /\ KeptInv'
                    /\ \A q \in Conn : \A n : /\ thr'[q].cmd # None /\ thr'[q].cmd.id = "UP"
                                               /\ n = thr'[q].cmd.arg /\ OneUploader(n)
                                               => Extends(q)'
    BY <1>2 DEF Alone, Stays
<1>3. KeptInv /\ cwd = InitDir /\ InitDir \in Dir
    BY FtpAssumption DEF Alone, KeptInv, NobodyMoves
<1>4. KeptInv'
    BY <1>3, ThreadKeeps DEF DataInv
<1>5. ASSUME NEW q \in Conn, NEW n, thr'[q].cmd # None, thr'[q].cmd.id = "UP",
             n = thr'[q].cmd.arg, OneUploader(n)
      PROVE  Extends(q)'
  <2>1. CASE CreateAborts(k)
    BY <1>5, <2>1, AllAborted DEF Extends
  <2>2. CASE ~ CreateAborts(k) /\ q # k
    <3>1. thr'[q] = thr[q]
      BY <2>2, ThreadDoes DEF ThreadTouches
    <3>2. Extends(q)
      BY <1>5, <3>1 DEF Alone
    <3>3. CASE thr[q].pc \notin {"connect", "create", "store"}
      BY <3>1, <3>3 DEF Extends
    <3>4. CASE thr[q].pc \in {"connect", "create", "store"}
      <4>1. ctl[q].by \in Client /\ n \in Name /\ MayUpload(ctl[q].by, n)
        BY <1>5, <3>1, <3>4, UploadListed
      <4>2. ASSUME NEW d \in Dir PROVE fs'[d][n] = fs[d][n]
        <5>1. fs'[d][n] # fs[d][n] => ctl[k].by \in Client /\ MayUpload(ctl[k].by, n)
          BY <4>1, FileChanges
        <5> QED BY <1>5, <2>2, <4>1, <5>1 DEF OneUploader
      <4>3. thr[q].pc = "store" => /\ thr[q].file \in [dir : Dir, name : Name]
                                   /\ thr[q].file.name = n
        BY <1>5, <1>a, <3>1
        DEF DataInv, TypeInv, Shape, ThreadShape, ThrState, Typed, Listed, Opens
      <4>4. thr[q].pc = "store" => Opened(q)' = Opened(q)
        BY <3>1, <4>2, <4>3 DEF Opened
      <4> QED BY <1>3, <1>5, <3>1, <3>2, <4>2, <4>4 DEF Extends
    <3> QED BY <3>3, <3>4
  <2>3. CASE ~ CreateAborts(k) /\ q = k
    <3>1. CASE Idles(k)
      BY <2>3, <3>1 DEF Idles, Extends
    <3>2. CASE Starts(k)
      BY <1>3, <1>5, <2>3, <3>2, FtpAssumption DEF Starts, Extends
    <3>3. CASE ConnectData(k)
      <4>1. /\ thr'[k].cmd = thr[k].cmd /\ fs' = fs /\ thr[k].pc = "connect"
            /\ thr'[k].pc = "create"
        BY <1>5, <2>3, <3>3, DataOpened, ThreadUser
      <4>2. Extends(k)
        BY <1>5, <2>3, <4>1 DEF Alone
      <4> QED BY <2>3, <4>1, <4>2 DEF Extends
    <3>4. CASE SendBlock(k)
      BY <2>3, <3>4, BlockSent DEF Extends
    <3>5. CASE CreateFile(k)
      <4>1. /\ thr'[k].pc = "store" /\ thr'[k].pos = 0 /\ fs'[cwd][thr[k].cmd.arg] = <<>>
            /\ thr'[k].file = [dir |-> cwd, name |-> thr[k].cmd.arg]
        BY <3>5, FileCreated
      <4>2. Opened(k)' = <<>>
        BY <4>1 DEF Opened
      <4>3. Len(<<>>) = 0
        OBVIOUS
      <4> QED BY <2>3, <4>1, <4>2, <4>3 DEF Extends
    <3>6. CASE RecvBlock(k)
      <4>1. PICK f \in Content, b \in Item :
              /\ f = Opened(k) /\ Opened(k)' = WriteAt(f, thr[k].pos, b)
              /\ thr'[k].pos = thr[k].pos + 1 /\ thr'[k].cmd = thr[k].cmd
              /\ thr[k].pc = "store" /\ thr'[k].pc = "store"
        BY <3>6, BlockStored
      <4>2. thr[k].pos = Len(f)
        BY <1>5, <2>3, <4>1 DEF Alone, Extends
      <4>3. Len(WriteAt(f, Len(f), b)) = Len(f) + 1
        BY WriteAppends
      <4> QED BY <2>3, <4>1, <4>2, <4>3 DEF Extends
    <3> QED BY <2>3, <3>1, <3>2, <3>3, <3>4, <3>5, <3>6, ThreadDoes DEF ThreadTouches
  <2> QED BY <2>1, <2>2, <2>3
<1> QED BY <1>4, <1>5

\* What the readers of a file rely on: it is never shortened or overwritten.
Steady(n) == Untouched(n) \/ (Stays /\ OneUploader(n))

LEMMA FileGrows ==
    ASSUME DataInv, Typed, Alone, [Next]_vars, NEW n \in Name, Steady(n), NEW d \in Dir,
           fs[d][n] # NoFile
    PROVE  /\ fs[d][n] \in Content /\ fs'[d][n] \in Content
           /\ Begins(fs[d][n], <<>>, fs'[d][n])
           /\ Untouched(n) => fs'[d][n] = fs[d][n]
<1>1. fs[d][n] \in Content
    BY DEF DataInv, TypeInv, TypeOK
<1>2. CASE fs'[d][n] = fs[d][n]
  <2>1. PICK f \in Content, m \in Nat : f = fs[d][n] /\ m = Len(f)
    BY <1>1 DEF Content
  <2>2. Len(<<>>) = 0
    OBVIOUS
  <2>3. Begins(f, <<>>, f)
    BY <2>1, <2>2 DEF Begins
  <2> QED BY <1>2, <2>1, <2>3
<1>3. CASE fs'[d][n] # fs[d][n]
  <2>1. ~ Untouched(n) /\ Stays /\ OneUploader(n)
    BY <1>3, KeptStep DEF Steady
  <2>2. PICK k \in Conn : ThreadStep(k)
    BY <1>3, ClientDoes DEF ClientTouches, Next, vars
  <2>3. /\ \/ CreateFile(k) /\ d = cwd
           \/ RecvBlock(k) /\ thr[k].file = [dir |-> d, name |-> n]
        /\ thr[k].cmd.arg = n
    BY <1>3, <2>2, FileChanges
  <2>4. /\ thr[k].pc \in {"create", "store"} /\ thr[k].cmd # None /\ thr[k].cmd.id = "UP"
    <3>1. thr[k].pc \in {"create", "store"}
      BY <2>3, FileCreated, BlockStored
    <3>2. PICK m \in Command : m = thr[k].cmd /\ m = [id |-> "UP", arg |-> m.arg]
      BY <3>1, UploadListed
    <3> QED BY <3>1, <3>2, CommandTypes
  <2>5. Extends(k) /\ cwd = InitDir
    BY <2>1, <2>3, <2>4 DEF Alone, KeptInv, NobodyMoves
  <2>6. RecvBlock(k) /\ thr[k].file = [dir |-> d, name |-> n]
    BY <2>3, <2>5, FileCreated DEF Extends
  <2>7. PICK b \in Item : /\ Opened(k)' = WriteAt(Opened(k), thr[k].pos, b)
                          /\ thr'[k].file = thr[k].file /\ thr[k].pc = "store"
    BY <2>6, BlockStored
  <2>8. Opened(k) = fs[d][n] /\ Opened(k)' = fs'[d][n]
    BY <2>6, <2>7 DEF Opened
  <2>9. fs'[d][n] = WriteAt(fs[d][n], Len(fs[d][n]), b)
    BY <2>5, <2>7, <2>8 DEF Extends
  <2> QED BY <1>1, <2>1, <2>9, WriteAppends
<1> QED BY <1>1, <1>2, <1>3

-----------------------------------------------------------------------------
(* Downloads.                                                              *)

\* Who was killed stays killed.
LEMMA CalmStep ==
    ASSUME DataInv, [Next]_vars, NEW h, Calm(h)'
    PROVE  Calm(h)
<1>a. ctl \in [Conn -> CtlState] /\ None \notin Client
    BY DataTypes DEF DataInv
<1>1. ASSUME NEW c \in Client, ClientStep(c) \/ UserStep(c), NEW q \in Conn, ctl[q].cli = "killed"
      PROVE  ctl'[q].cli = "killed" /\ ctl'[q].by = ctl[q].by
  <2>1. ctl[q].by # None
    BY <1>1, <1>a DEF DataInv, Wired, ThrWired
  <2>2. proc[c].pc # "off" => q # proc[c].conn
    BY <1>1 DEF DataInv, Wired, ProcWired
  <2>3. ASSUME NEW how, Gone(c, how), proc[c].pc # "off"
        PROVE  ctl'[q].cli = "killed" /\ ctl'[q].by = ctl[q].by
    BY <1>1, <1>a, <2>2, <2>3 DEF Gone
  <2>4. ASSUME NEW pc, NEW r, Reads(c, pc, r), pc # "off"
        PROVE  ctl'[q].cli = "killed" /\ ctl'[q].by = ctl[q].by
    BY <1>1, <1>a, <2>2, <2>4 DEF Reads
  <2>5. CASE ReadFails(c) \/ WriteFails(c) \/ Leave(c) \/ ListFails(c) \/ Kill(c)
             \/ \E m \in Menu[c] : BindFails(c, m)
    BY <2>3, <2>5 DEF ReadFails, WriteFails, Leave, ListFails, Kill, BindFails
  <2>6. CASE ReadHello(c) \/ Answered(c) \/ Granted(c)
    BY <2>4, <2>6 DEF ReadHello, Answered, Granted
  <2>7. CASE AcceptData(c) \/ Get(c) \/ GetEnds(c) \/ Put(c) \/ PutEnds(c)
             \/ \E m \in Menu[c] : Type(c, m)
    BY <1>1, <2>7, Zenon DEF AcceptData, Get, GetEnds, Put, PutEnds, Type, CloseTransfer
  <2>8. CASE WriteCmd(c)
    BY <1>1, <1>a, <2>2, <2>8 DEF WriteCmd
  <2>9. ASSUME NEW k \in Conn, Connect(c, k)
        PROVE  ctl'[q].cli = "killed" /\ ctl'[q].by = ctl[q].by
    BY <1>1, <1>a, <2>1, <2>9 DEF Connect
  <2> QED BY <1>1, <2>5, <2>6, <2>7, <2>8, <2>9 DEF ClientStep, UserStep
<1>2. ASSUME NEW k \in Conn, ThreadStep(k), NEW q \in Conn
      PROVE  ctl'[q].cli = ctl[q].cli /\ ctl'[q].by = ctl[q].by
    BY <1>2, ThreadDoes, AllAborted DEF ThreadTouches
<1>3. ASSUME NEW q \in Conn, ctl[q].cli = "killed"
      PROVE  ctl'[q].cli = "killed" /\ ctl'[q].by = ctl[q].by
    BY <1>1, <1>2, <1>3 DEF Next, vars
<1> QED BY <1>3, CalmBefore

\* A connection that a client has or will accept is one client's.
LEMMA HeldByOne ==
    ASSUME DataInv, NEW c \in Client, NEW q \in Client, NEW s \in Sock, Holds(c, s), Holds(q, s)
    PROVE  c = q
<1>1. /\ None \notin Client /\ None \notin Sock /\ HostOf \in [Client -> Host]
      /\ \A x \in Client : ProcWired(x)
    BY DataTypes DEF DataInv, Wired
<1>2. \A x \in Client : Holds(x, s) => proc[x].pc # "off"
  <2> SUFFICES ASSUME NEW x \in Client, Holds(x, s) PROVE proc[x].pc # "off"
    OBVIOUS
  <2>1. port[HostOf[x]] = x => proc[x].pc # "off"
    BY <1>1 DEF DataInv, PortInTransferOnly
  <2>2. proc[x].data = s => proc[x].pc # "off"
    BY <1>1 DEF ProcWired
  <2> QED BY <2>1, <2>2 DEF Holds
<1>3. InUse(s, HostOf[c]) /\ InUse(s, HostOf[q])
    BY <1>2, HeldAlone
<1>4. HostOf[c] = HostOf[q]
    BY <1>3 DEF InUse
<1>5. proc[c].data = s => proc[q].data # s \/ c = q
    BY <1>2, HeldAlone
<1>6. proc[c].data = s \/ proc[q].data = s =>
         ~ (pend[HostOf[c]] # <<>> /\ pend[HostOf[c]][1] = s)
    BY <1>1, <1>4 DEF DataInv, Wired, Unshared
<1> QED BY <1>4, <1>5, <1>6 DEF Holds

\* What client c will find in connection s, after what it stored already, is a beginning of
\* a file of the name it asked for: of the one the thread is sending, or of one that is still
\* there.  It is the whole file if the thread finished and nobody stores that name.
Fetched(c, s) ==
    LET n == proc[c].cmd.arg
        k == dat[s].by
        got == Len(local[c][n]) + Len(dat[s].toCli)
    IN
    IF dat[s].srv = "open"
    THEN /\ thr[k].pc = "send" /\ thr[k].data = s /\ thr[k].cmd = proc[c].cmd
         /\ got = thr[k].pos /\ Begins(local[c][n], dat[s].toCli, Opened(k))
    ELSE \E d \in Dir :
           /\ fs[d][n] # NoFile /\ Begins(local[c][n], dat[s].toCli, fs[d][n])
           /\ dat[s].srv = "closed" /\ Untouched(n) => got = Len(fs[d][n])

Downloading(c) == /\ Calm(HostOf[c])
                  /\ proc[c].pc \in InTransfer /\ proc[c].cmd.id = "DOWN"

Fetching(c) ==
    Downloading(c) =>
      /\ proc[c].pc \in {"write", "reply", "accept"} => local[c][proc[c].cmd.arg] = <<>>
      /\ Steady(proc[c].cmd.arg) => \A s \in Sock : Holds(c, s) => Fetched(c, s)

\* The file that a thread sends.
LEMMA SentFile ==
    ASSUME DataInv, Typed, NEW k \in Conn, thr[k].pc = "send"
    PROVE  /\ thr[k].file.dir \in Dir /\ thr[k].file.name = thr[k].cmd.arg
           /\ thr[k].pos \in Nat /\ Opened(k) \in Content /\ Opened(k) # NoFile
<1>1. thr[k] \in ThrState /\ ThreadShape(k) /\ ThrWired(k) /\ Opens(k)
    BY DataTypes DEF DataInv, TypeInv, Shape, Wired, Typed, Listed
<1>2. thr[k].file \in [dir : Dir, name : Name] /\ Opened(k) \in Content /\ thr[k].pos \in Nat
    BY <1>1 DEF ThreadShape, ThrState
<1>3. thr[k].file.name = thr[k].cmd.arg
    BY <1>1 DEF ThrWired, Opens
<1> QED BY <1>2, <1>3, DistinctNone

\* Neither the client nor the thread that sends does anything, and the file may grow.
LEMMA FetchedKept ==
    ASSUME DataInv, Typed, Alone, [Next]_vars,
           NEW c \in Client, NEW n \in Name, proc[c].cmd.arg = n, Steady(n),
           local[c][n] \in Content,
           NEW s \in Sock, dat[s].by \in Conn, Fetched(c, s),
           proc'[c].cmd = proc[c].cmd, local'[c][n] = local[c][n], dat'[s] = dat[s],
           dat[s].srv = "open" => thr'[dat[s].by] = thr[dat[s].by]
    PROVE  Fetched(c, s)'
<1>1. PICK k \in Conn, x \in Content, y \in Content :
        k = dat[s].by /\ x = local[c][n] /\ y = dat[s].toCli
    BY DataTypes DEF DataInv, DatState, Content
<1>2. CASE dat[s].srv = "open"
  <2>1. /\ thr[k].pc = "send" /\ thr[k].data = s /\ thr[k].cmd = proc[c].cmd
        /\ Len(x) + Len(y) = thr[k].pos /\ Begins(x, y, Opened(k))
    BY <1>1, <1>2 DEF Fetched
  <2>2. PICK d \in Dir : d = thr[k].file.dir /\ thr[k].file.name = n
    BY <2>1, SentFile
  <2>3. thr'[k] = thr[k] /\ Opened(k) = fs[d][n] /\ Opened(k)' = fs'[d][n]
    BY <1>1, <1>2, <2>2 DEF Opened
  <2>4. fs[d][n] # NoFile
    BY <2>1, <2>3, SentFile
  <2>5. Begins(x, y, fs'[d][n])
    BY <1>1, <2>1, <2>3, <2>4, FileGrows, StillBegins
  <2> QED BY <1>1, <1>2, <2>1, <2>3, <2>5 DEF Fetched
<1>3. CASE dat[s].srv # "open"
  <2>1. PICK d \in Dir :
          /\ fs[d][n] # NoFile /\ Begins(x, y, fs[d][n])
          /\ dat[s].srv = "closed" /\ Untouched(n) => Len(x) + Len(y) = Len(fs[d][n])
    BY <1>1, <1>3 DEF Fetched
  <2>2. /\ fs[d][n] \in Content /\ fs'[d][n] \in Content
        /\ Begins(fs[d][n], <<>>, fs'[d][n])
        /\ Untouched(n) => fs'[d][n] = fs[d][n]
    BY <2>1, FileGrows
  <2>3. Begins(x, y, fs'[d][n]) /\ fs'[d][n] # NoFile
    BY <2>1, <2>2, StillBegins, DistinctNone
  <2>4. dat[s].srv = "closed" /\ Untouched(n) => Len(x) + Len(y) = Len(fs'[d][n])
    BY <2>1, <2>2
  <2>5. Untouched(n)' <=> Untouched(n)
    BY DEF Untouched
  <2> QED BY <1>1, <1>3, <2>3, <2>4, <2>5 DEF Fetched
<1> QED BY <1>2, <1>3

\* The thread, or the process, closes its end.
LEMMA FetchedClosed ==
    ASSUME DataInv, Typed,
           NEW c \in Client, NEW n \in Name, proc[c].cmd.arg = n, local[c][n] \in Content,
           NEW s \in Sock, dat[s].by \in Conn, Fetched(c, s),
           proc'[c].cmd = proc[c].cmd, local'[c][n] = local[c][n], fs' = fs,
           dat'[s].toCli = dat[s].toCli, dat'[s].srv # "open",
           dat'[s].srv = "closed" =>
             \/ dat[s].srv = "closed"
             \/ dat[s].srv = "open" /\ thr[dat[s].by].pos >= Len(Opened(dat[s].by))
    PROVE  Fetched(c, s)'
<1>1. PICK k \in Conn, x \in Content, y \in Content :
        k = dat[s].by /\ x = local[c][n] /\ y = dat[s].toCli
    BY DataTypes DEF DataInv, DatState, Content
<1>2. Untouched(n)' <=> Untouched(n)
    BY DEF Untouched
<1>3. CASE dat[s].srv = "open"
  <2>1. /\ thr[k].pc = "send" /\ thr[k].data = s /\ thr[k].cmd = proc[c].cmd
        /\ Len(x) + Len(y) = thr[k].pos /\ Begins(x, y, Opened(k))
    BY <1>1, <1>3 DEF Fetched
  <2>2. PICK d \in Dir : d = thr[k].file.dir /\ thr[k].file.name = n
    BY <2>1, SentFile
  <2>3. Opened(k) = fs[d][n] /\ fs[d][n] # NoFile /\ fs[d][n] \in Content
    BY <2>1, <2>2, SentFile DEF Opened
  <2>4. PICK a \in Nat, b \in Nat, m \in Nat :
          a = Len(x) /\ b = Len(y) /\ m = Len(fs[d][n])
    BY <1>1, <2>3 DEF Content
  <2>5. dat'[s].srv = "closed" => a + b = m
    <3>1. a + b <= m
      BY <2>1, <2>3, <2>4 DEF Begins
    <3>2. ASSUME dat'[s].srv = "closed" PROVE thr[k].pos >= Len(Opened(k))
      BY <1>1, <1>3, <3>2
    <3>3. thr[k].pos = a + b /\ Len(Opened(k)) = m
      BY <2>1, <2>3, <2>4
    <3> QED BY <3>1, <3>2, <3>3
  <2>6. /\ fs'[d][n] # NoFile /\ Begins(x, y, fs'[d][n])
        /\ dat'[s].srv = "closed" => Len(x) + Len(y) = Len(fs'[d][n])
    BY <2>1, <2>3, <2>4, <2>5
  <2>7. x = local'[c][n] /\ y = dat'[s].toCli /\ proc'[c].cmd.arg = n
    BY <1>1
  <2> QED BY <2>6, <2>7 DEF Fetched
<1>4. CASE dat[s].srv # "open"
    BY <1>1, <1>2, <1>4 DEF Fetched
<1> QED BY <1>3, <1>4

LEMMA DownloadHas ==
    ASSUME DataInv, NEW c \in Client, proc[c].pc \in InTransfer, proc[c].cmd.id = "DOWN"
    PROVE  /\ proc[c].pc # "off" /\ proc[c].cmd \in Command /\ proc[c].cmd # None
           /\ proc[c].cmd.arg \in Name /\ local[c][proc[c].cmd.arg] \in Content
           /\ \A s \in Sock : Holds(c, s) =>
                /\ dat[s].cli = "open" /\ dat[s].by \in Conn /\ ctl[dat[s].by].by \in Client
<1>1. /\ proc[c].pc # "off" /\ proc[c].cmd \in Command
    BY DEF DataInv, TypeInv, Shape, ClientShape, InTransfer
<1>2. proc[c].cmd # None /\ proc[c].cmd.arg \in Name
    BY <1>1, CommandTypes
<1>3. local[c][proc[c].cmd.arg] \in Content
    BY <1>2 DEF DataInv, TypeInv, Shape, ClientShape
<1>4. ASSUME NEW s \in Sock, Holds(c, s) PROVE InUse(s, HostOf[c])
    BY <1>1, <1>4, HeldAlone
<1> QED BY <1>1, <1>2, <1>3, <1>4 DEF InUse

\* Whose names the others may store does not grow.
LEMMA SteadyBefore ==
    ASSUME \A q \in Conn : ctl'[q].by = ctl[q].by \/ ctl[q].by \notin Client, NEW n
    PROVE  Steady(n)' => Steady(n)
BY OneBefore DEF Steady, Untouched, Stays

LEMMA UsersStay ==
    ASSUME DataInv, Typed, [Next]_vars, NEW k \in Conn
    PROVE  ctl'[k].by = ctl[k].by \/ ctl[k].by \notin Client
<1>1. ASSUME NEW c \in Client, ClientStep(c) \/ UserStep(c)
      PROVE  ctl'[k].by = ctl[k].by \/ ctl[k].by \notin Client
    BY <1>1, ClientDoes, DataTypes DEF ClientTouches, DataInv
<1>2. ASSUME NEW q \in Conn, ThreadStep(q) PROVE ctl'[k].by = ctl[k].by
    BY <1>2, ThreadDoes, AllAborted DEF ThreadTouches
<1>3. CASE UNCHANGED vars
    BY <1>3 DEF vars
<1> QED BY <1>1, <1>2, <1>3 DEF Next

\* Another client does something.
LEMMA FetchingBeside ==
    ASSUME DataInv, Typed, Alone, NEW c \in Client, Fetching(c),
           NEW q \in Client, q # c, ClientStep(q) \/ UserStep(q)
    PROVE  Fetching(c)'
<1>a. [Next]_vars
    BY DEF Next
<1>b. ClientTouches(q) /\ None \notin Client /\ None \notin Sock /\ HostOf[c] \in Host
    BY ClientDoes, DataTypes DEF DataInv
<1>1. proc'[c] = proc[c] /\ local'[c] = local[c]
    BY <1>b DEF ClientTouches
<1> SUFFICES ASSUME Downloading(c)'
             PROVE  /\ proc[c].pc \in {"write", "reply", "accept"} =>
                         local[c][proc[c].cmd.arg] = <<>>
                    /\ \A n : n = proc[c].cmd.arg /\ Steady(n)' =>
                         \A s \in Sock : Holds(c, s)' => Fetched(c, s)'
    BY <1>1 DEF Fetching, Steady, OneUploader, Untouched
<1>2. Downloading(c)
    BY <1>a, <1>1, CalmStep DEF Downloading
<1>3. proc[c].pc \in {"write", "reply", "accept"} => local[c][proc[c].cmd.arg] = <<>>
    BY <1>2 DEF Fetching
<1>4. ASSUME NEW n, n = proc[c].cmd.arg, Steady(n)', NEW s \in Sock, Holds(c, s)'
      PROVE  Fetched(c, s)'
  <2>1. proc[c].pc \in InTransfer /\ proc[c].cmd.id = "DOWN"
    BY <1>2 DEF Downloading
  <2>2. Steady(n)
    BY <1>a, <1>4, UsersStay, SteadyBefore
  <2>3. Holds(c, s)
    <3>1. CASE proc[c].data = s
      BY <3>1 DEF Holds
    <3>2. CASE port'[HostOf[c]] = c /\ pend'[HostOf[c]] # <<>> /\ pend'[HostOf[c]][1] = s
      <4>1. port'[HostOf[c]] = port[HostOf[c]] /\ pend'[HostOf[c]] = pend[HostOf[c]]
        BY <1>b, <3>2 DEF ClientTouches, PortsKept
      <4> QED BY <3>2, <4>1 DEF Holds
    <3> QED BY <1>1, <1>4, <3>1, <3>2 DEF Holds
  <2>4. Fetched(c, s) /\ n \in Name /\ local[c][n] \in Content
    BY <1>2, <1>4, <2>1, <2>2, <2>3, DownloadHas DEF Fetching
  <2>5. dat[s].cli = "open" /\ dat[s].by \in Conn /\ ctl[dat[s].by].by \in Client
    BY <2>1, <2>3, DownloadHas
  <2>6. ~ Holds(q, s)
    BY <2>3, HeldByOne
  <2>7. dat'[s] = dat[s]
    BY <1>b, <2>5, <2>6 DEF ClientTouches, Alive
  <2>8. thr'[dat[s].by] = thr[dat[s].by]
    BY <1>b, <2>5 DEF ClientTouches
  <2> QED BY <1>a, <1>1, <1>4, <2>2, <2>4, <2>5, <2>7, <2>8, FetchedKept
<1> QED BY <1>3, <1>4

\* The steps with which a client begins a download, or goes on with one.
LEMMA DownloadSteps ==
    ASSUME DataInv, NEW c \in Client, ClientStep(c) \/ UserStep(c),
           proc'[c].pc \in InTransfer, proc'[c].cmd.id = "DOWN"
    PROVE  \/ \E m \in Menu[c] : Type(c, m)
           \/ WriteCmd(c) \/ Granted(c) \/ AcceptData(c) \/ Get(c)
<1>a. proc \in [Client -> ProcState]
    BY DataTypes DEF DataInv
<1>b. NoProc.pc = "off" /\ [NoProc EXCEPT !.pc = "hello"].pc = "hello"
    BY DEF NoProc
<1>1. ASSUME NEW how, Gone(c, how) PROVE FALSE
  <2>1. proc'[c] = NoProc
    BY <1>a, <1>1 DEF Gone
  <2> QED BY <1>b, <2>1 DEF InTransfer
<1>2. CASE ReadFails(c) \/ WriteFails(c) \/ Leave(c) \/ ListFails(c) \/ Kill(c)
           \/ \E m \in Menu[c] : BindFails(c, m)
    BY <1>1, <1>2 DEF ReadFails, WriteFails, Leave, ListFails, Kill, BindFails
<1>3. CASE ReadHello(c) \/ Answered(c)
  <2>1. proc'[c].pc = "ready"
    BY <1>a, <1>3 DEF ReadHello, Answered, ProcState
  <2> QED BY <2>1 DEF InTransfer
<1>4. CASE GetEnds(c) \/ PutEnds(c)
  <2>1. proc'[c].pc = "ready"
    BY <1>a, <1>4 DEF GetEnds, PutEnds, CloseTransfer, ProcState
  <2> QED BY <2>1 DEF InTransfer
<1>5. CASE Put(c)
  <2>1. proc'[c].cmd = proc[c].cmd /\ proc[c].pc = "put"
    BY <1>a, <1>5 DEF Put, ProcState
  <2> QED BY <2>1 DEF DataInv, TypeInv, Shape, ClientShape
<1>6. ASSUME NEW k \in Conn, Connect(c, k) PROVE FALSE
  <2>1. proc'[c].pc = "hello"
    BY <1>a, <1>b, <1>6 DEF Connect
  <2> QED BY <2>1 DEF InTransfer
<1> QED BY <1>2, <1>3, <1>4, <1>5, <1>6 DEF ClientStep, UserStep

\* The client itself does something.
LEMMA FetchingOwn ==
    ASSUME DataInv, Typed, Alone, NEW c \in Client, Fetching(c),
           ClientStep(c) \/ UserStep(c)
    PROVE  Fetching(c)'
<1>a. [Next]_vars
    BY DEF Next
<1>b. /\ proc \in [Client -> ProcState] /\ port \in [Host -> Client \cup {None}]
      /\ pend \in [Host -> Seq(Sock)] /\ dat \in [Sock -> DatState]
      /\ local \in [Client -> [Name -> Content \cup {NoFile}]]
      /\ None \notin Client /\ None \notin Sock /\ HostOf[c] \in Host
    BY DataTypes DEF DataInv, TypeInv, TypeOK
<1> SUFFICES ASSUME Downloading(c)'
             PROVE  /\ proc'[c].pc \in {"write", "reply", "accept"} =>
                         local'[c][proc'[c].cmd.arg] = <<>>
                    /\ \A n : n = proc'[c].cmd.arg /\ Steady(n)' =>
                         \A s \in Sock : Holds(c, s)' => Fetched(c, s)'
    BY DEF Fetching, Steady, OneUploader, Untouched
<1>1. proc'[c].pc \in InTransfer /\ proc'[c].cmd.id = "DOWN"
    BY DEF Downloading
<1>2. Calm(HostOf[c])
    BY <1>a, CalmStep DEF Downloading
<1>3. ASSUME NEW m \in Menu[c], Type(c, m)
      PROVE  /\ proc'[c].pc \in {"write", "reply", "accept"} =>
                  local'[c][proc'[c].cmd.arg] = <<>>
             /\ \A s \in Sock : ~ Holds(c, s)'
  <2>1. /\ proc'[c].cmd = m /\ proc'[c].data = proc[c].data /\ proc[c].pc = "ready"
        /\ OpensLocal(c, m) /\ pend' = pend
        /\ m.id \in Transfer => port[HostOf[c]] = None
    BY <1>b, <1>3 DEF Type, ProcState
  <2>2. m.id = "DOWN" /\ m \in Command
    BY <1>1, <2>1, FtpAssumption
  <2>3. m.arg \in Name
    BY <2>2, CommandTypes
  <2>4. local'[c][m.arg] = <<>>
    BY <1>b, <2>1, <2>2, <2>3 DEF OpensLocal
  <2>5. proc[c].data = None /\ pend[HostOf[c]] = <<>>
    BY <1>b, <2>1, <2>2 DEF DataInv, Wired, ProcWired, HostWired, Transfer
  <2> QED BY <1>b, <2>1, <2>4, <2>5 DEF Holds
\* The command stays, and what the client has was had before.
<1>4. ASSUME proc'[c].cmd = proc[c].cmd, proc[c].pc \in InTransfer, local' = local,
             proc'[c].pc \in {"write", "reply", "accept"} =>
               proc[c].pc \in {"write", "reply", "accept"},
             thr' = thr, dat' = dat,
             \A s \in Sock : Holds(c, s)' => Holds(c, s)
      PROVE  /\ proc'[c].pc \in {"write", "reply", "accept"} =>
                  local'[c][proc'[c].cmd.arg] = <<>>
             /\ \A n : n = proc'[c].cmd.arg /\ Steady(n)' =>
                  \A s \in Sock : Holds(c, s)' => Fetched(c, s)'
  <2>1. Downloading(c) /\ proc[c].cmd.id = "DOWN"
    BY <1>1, <1>2, <1>4 DEF Downloading
  <2>2. ASSUME NEW n, n = proc'[c].cmd.arg, Steady(n)', NEW s \in Sock, Holds(c, s)'
        PROVE  Fetched(c, s)'
    <3>1. Steady(n) /\ Holds(c, s)
      BY <1>a, <1>4, <2>2, UsersStay, SteadyBefore
    <3>2. /\ Fetched(c, s) /\ n \in Name /\ local[c][n] \in Content
          /\ dat[s].by \in Conn
      BY <1>4, <2>1, <2>2, <3>1, DownloadHas DEF Fetching
    <3> QED BY <1>a, <1>4, <2>2, <3>1, <3>2, FetchedKept
  <2> QED BY <1>4, <2>1, <2>2 DEF Fetching
<1>5. CASE WriteCmd(c) \/ Granted(c)
  <2>1. /\ UNCHANGED <<local, port, pend, dat, thr>>
        /\ proc'[c].cmd = proc[c].cmd /\ proc'[c].data = proc[c].data
        /\ proc[c].pc \in {"write", "reply"}
    BY <1>5, <1>b DEF WriteCmd, Granted, Reads, serverVars, ProcState
  <2>2. \A s \in Sock : Holds(c, s)' => Holds(c, s)
    BY <2>1 DEF Holds
  <2>3. proc[c].pc \in InTransfer
    BY <2>1 DEF InTransfer
  <2>4. UNCHANGED <<local, thr, dat>>
    BY <2>1
  <2> QED BY <1>4, <2>1, <2>2, <2>3, <2>4
<1>6. CASE AcceptData(c)
  <2>1. /\ UNCHANGED <<local, port, dat, thr>> /\ proc[c].pc = "accept"
        /\ pend[HostOf[c]] # <<>> /\ pend' = [pend EXCEPT ![HostOf[c]] = Tail(@)]
        /\ proc'[c].cmd = proc[c].cmd /\ proc'[c].data = Head(pend[HostOf[c]])
        /\ proc'[c].pc \in {"get", "put"}
    BY <1>6, <1>b DEF AcceptData, serverVars, ProcState
  <2>2. port[HostOf[c]] = c /\ Len(pend[HostOf[c]]) <= 1
    BY <1>b, <2>1 DEF DataInv, Wired, ProcWired, HostWired, InTransfer
  <2>3. pend'[HostOf[c]] = <<>> /\ Head(pend[HostOf[c]]) = pend[HostOf[c]][1]
    BY <1>b, <2>1, <2>2, LastTaken
  <2>4. \A s \in Sock : Holds(c, s)' => Holds(c, s)
    BY <2>1, <2>2, <2>3 DEF Holds
  <2>5. proc[c].pc \in InTransfer
    BY <2>1 DEF InTransfer
  <2>6. UNCHANGED <<local, thr, dat>>
    BY <2>1
  <2> QED BY <1>4, <2>1, <2>4, <2>5, <2>6
<1>7. CASE Get(c)
  <2>1. PICK t, n : t = proc[c].data /\ n = proc[c].cmd.arg
    OBVIOUS
  <2>2. /\ UNCHANGED <<proc, port, pend, thr, fs>> /\ proc[c].pc = "get"
        /\ dat[t].toCli # <<>> /\ dat' = [dat EXCEPT ![t].toCli = Tail(dat[t].toCli)]
    BY <1>7, <2>1 DEF Get, serverVars
  <2>3. /\ proc[c].cmd.id = "DOWN" /\ proc[c].pc \in InTransfer
        /\ n \in Name /\ local[c][n] \in Content /\ t \in Sock
    BY <1>1, <2>1, <2>2, DownloadHas
    DEF InTransfer, DataInv, TypeInv, Shape, ClientShape
  <2>4. local' = [local EXCEPT ![c][n] = Append(local[c][n], Head(dat[t].toCli))]
    BY <1>7, <2>1, <2>3 DEF Get
  <2>5. Downloading(c)
    BY <1>2, <2>3 DEF Downloading
  <2>6. ASSUME Steady(n)', NEW s \in Sock, Holds(c, s)' PROVE Fetched(c, s)'
    <3>1. Steady(n)
      BY <1>a, <2>6, UsersStay, SteadyBefore
    <3>2. Holds(c, s)
      BY <2>2, <2>6 DEF Holds
    <3>3. s = t
      <4>1. Waiting(HostOf[c])
        BY <1>2, <1>b DEF DataInv, Calmly
      <4> QED BY <2>1, <2>2, <3>2, <4>1 DEF Waiting, Holds
    <3>4. Fetched(c, s)
      BY <2>1, <2>5, <3>1, <3>2 DEF Fetching
    <3>5. PICK x \in Content, y \in Content, k \in Conn :
            x = local[c][n] /\ y = dat[s].toCli /\ k = dat[s].by /\ y # <<>>
      <4>1. dat[s].by \in Conn /\ local[c][n] \in Content
        BY <2>3, <3>2, DownloadHas
      <4>2. dat[s].toCli \in Content /\ dat[s].toCli # <<>>
        BY <1>b, <2>2, <3>3 DEF DatState, Content
      <4> QED BY <4>1, <4>2
    <3>6. PICK u, v : u = Append(x, Head(y)) /\ v = Tail(y)
      OBVIOUS
    <3>7. /\ local'[c][n] = u /\ dat'[s].toCli = v
          /\ dat'[s].srv = dat[s].srv /\ dat'[s].by = k
      BY <1>b, <2>2, <2>3, <2>4, <3>3, <3>5, <3>6 DEF DatState
    <3>8. \A f \in Content : Begins(x, y, f) =>
            Begins(u, v, f) /\ Len(u) + Len(v) = Len(x) + Len(y)
      BY <3>5, <3>6, Receives
    <3>9. CASE dat[s].srv = "open"
      <4>1. /\ thr[k].pc = "send" /\ thr[k].data = s /\ thr[k].cmd = proc[c].cmd
            /\ Len(x) + Len(y) = thr[k].pos /\ Begins(x, y, Opened(k))
        BY <2>1, <3>4, <3>5, <3>9 DEF Fetched
      <4>2. Opened(k) \in Content
        BY <3>5, <4>1, <2>3, <3>2, DownloadHas, SentFile
      <4>3. Begins(u, v, Opened(k)) /\ Len(u) + Len(v) = thr[k].pos
        BY <3>8, <4>1, <4>2
      <4>4. Opened(k)' = Opened(k) /\ thr'[k] = thr[k] /\ proc'[c] = proc[c]
        BY <2>2 DEF Opened
      <4> QED BY <2>1, <3>7, <3>9, <4>1, <4>3, <4>4 DEF Fetched
    <3>10. CASE dat[s].srv # "open"
      <4>1. PICK d \in Dir :
              /\ fs[d][n] # NoFile /\ Begins(x, y, fs[d][n])
              /\ dat[s].srv = "closed" /\ Untouched(n) => Len(x) + Len(y) = Len(fs[d][n])
        BY <2>1, <3>4, <3>5, <3>10 DEF Fetched
      <4>2. fs[d][n] \in Content
        BY <2>3, <4>1 DEF DataInv, TypeInv, TypeOK
      <4>3. /\ Begins(u, v, fs[d][n])
            /\ dat[s].srv = "closed" /\ Untouched(n) => Len(u) + Len(v) = Len(fs[d][n])
        BY <3>8, <4>1, <4>2
      <4>4. Untouched(n)' <=> Untouched(n)
        BY DEF Untouched
      <4>5. proc'[c] = proc[c] /\ fs' = fs
        BY <2>2
      <4> QED BY <2>1, <3>7, <3>10, <4>1, <4>3, <4>4, <4>5 DEF Fetched
    <3> QED BY <3>9, <3>10
  <2>7. proc'[c].cmd.arg = n /\ proc'[c].pc = "get"
    BY <2>1, <2>2
  <2> QED BY <2>6, <2>7
<1>8. \/ \E m \in Menu[c] : Type(c, m)
      \/ WriteCmd(c) \/ Granted(c) \/ AcceptData(c) \/ Get(c)
    BY <1>1, DownloadSteps
<1> QED BY <1>3, <1>5, <1>6, <1>7, <1>8

\* What waits at a port changes only when a data connection is opened.
LEMMA ThreadPends ==
    ASSUME NEW k \in Conn, ThreadStep(k), ~ ConnectData(k)
    PROVE  pend' = pend
BY Zenon DEF ThreadStep, AcceptCtl, NoThreadForIt, Welcome, RecvFails, ReplyFails,
       Ls, Pwd, Cd, CdText, CdFails, Down, DownRefused, Up, UpRefused, Quit,
       ConnectFails, SendList, SendListDenied, SendBlock, SendEnds, SendFails, CreateFile,
       CreateFails, CreateAborts, RecvBlock, RecvEnds, RecvBroken

\* What a thread that is sending a file may do.
LEMMA SendingSteps ==
    ASSUME NEW k \in Conn, ThreadStep(k), thr[k].pc = "send"
    PROVE  SendBlock(k) \/ SendEnds(k) \/ SendFails(k)
BY Zenon DEF ThreadStep, AcceptCtl, NoThreadForIt, Welcome, RecvFails, ReplyFails, Received,
       Ls, Pwd, Cd, CdText, CdFails, Down, DownRefused, Up, UpRefused, Quit, ConnectData,
       ConnectFails, SendList, SendListDenied, SendBlock, SendEnds, SendFails, CreateFile,
       CreateFails, CreateAborts, RecvBlock, RecvEnds, RecvBroken

\* The file is sent.
LEMMA SentWhole ==
    ASSUME DataInv, NEW k \in Conn, SendEnds(k), NEW s \in Sock, s = thr[k].data,
           dat[s].cli = "open"
    PROVE  /\ fs' = fs /\ thr[k].pos >= Len(Opened(k))
           /\ dat'[s].srv = "closed" /\ dat'[s].toCli = dat[s].toCli
<1>1. dat[s] \in DatState
    BY DataTypes DEF DataInv
<1>2. PICK e : /\ e = [x \in Sock |-> IF thr[k].data = x THEN [dat[x] EXCEPT !.srv = "closed"]
                                                      ELSE dat[x]]
               /\ dat' = Live(e)
    BY DEF SendEnds, ClosesData
<1>3. e[s] = [dat[s] EXCEPT !.srv = "closed"]
    BY <1>2
<1>4. e[s].srv = "closed" /\ e[s].cli = "open" /\ e[s].toCli = dat[s].toCli
    BY <1>1, <1>3 DEF DatState
<1>5. dat'[s] = e[s]
    BY <1>2, <1>4 DEF Live
<1> QED BY <1>4, <1>5 DEF SendEnds

\* A client that waits for its download at the port of its machine is joined by its own thread.
LEMMA FetchingStarts ==
    ASSUME DataInv, Typed, NEW c \in Client, Fetching(c), Downloading(c),
           NEW k \in Conn, ConnectData(k), NEW s \in Sock, thr'[k].data = s,
           dat[s] = NoDat, Holds(c, s)'
    PROVE  Fetched(c, s)'
<1>a. /\ pend \in [Host -> Seq(Sock)] /\ None \notin Client /\ HostOf \in [Client -> Host]
      /\ thr[k] \in ThrState /\ ThreadShape(k)
    BY DataTypes DEF DataInv, TypeInv, Shape
<1>b. ctl[k].by \in Client
    BY ThreadUser DEF ThreadStep
<1>1. PICK h \in Host, q \in Client, n \in Name : /\ h = HostOf[c] /\ q = ctl[k].by
                                                 /\ n = proc[c].cmd.arg
    BY <1>a, <1>b, DownloadHas DEF Downloading
<1>2. /\ UNCHANGED <<proc, local, port, ctl, cwd, fs>>
      /\ thr[k].pc = "connect" /\ pend[PeerHost(k)] = <<>>
      /\ thr'[k].cmd = thr[k].cmd /\ thr'[k].file = thr[k].file
      /\ thr'[k].pos = thr[k].pos
      /\ thr'[k].pc = CASE thr[k].cmd.id = "LS"   -> "list"
                        [] thr[k].cmd.id = "DOWN" -> "send"
                        [] thr[k].cmd.id = "UP"   -> "create"
      /\ pend' = [pend EXCEPT ![PeerHost(k)] = <<s>>]
      /\ dat'[s].by = k /\ dat'[s].srv = "open" /\ dat'[s].toCli = <<>>
  <2>1. PICK t \in Sock :
          /\ thr'[k].data = t /\ pend' = [pend EXCEPT ![PeerHost(k)] = <<t>>]
          /\ dat'[t].by = k /\ dat'[t].srv = "open" /\ dat'[t].toCli = <<>>
    BY <1>b, DataOpened
  <2>2. t = s
    BY <2>1
  <2>3. /\ UNCHANGED <<proc, local, port, ctl, cwd, fs>>
        /\ thr[k].pc = "connect" /\ pend[PeerHost(k)] = <<>>
        /\ thr'[k].cmd = thr[k].cmd /\ thr'[k].file = thr[k].file
        /\ thr'[k].pos = thr[k].pos
        /\ thr'[k].pc = CASE thr[k].cmd.id = "LS"   -> "list"
                          [] thr[k].cmd.id = "DOWN" -> "send"
                          [] thr[k].cmd.id = "UP"   -> "create"
    BY <1>b, DataOpened
  <2> QED BY <2>1, <2>2, <2>3
<1>3. /\ n \in Name /\ proc[c].pc \in InTransfer /\ proc[c].cmd.id = "DOWN"
      /\ \A x \in Sock : Holds(c, x) => dat[x].cli = "open"
    BY <1>1, DownloadHas DEF Downloading
<1>4. ~ Holds(c, s)
    BY <1>3 DEF NoDat
<1>5. port[h] = c /\ PeerHost(k) = h
    BY <1>1, <1>2, <1>4, <1>a DEF Holds, PeerHost
<1>6. Session(k)
    BY <1>1, <1>5, <1>b DEF Downloading, DataInv, Calmly
<1>7. /\ proc[q].cmd = thr[k].cmd /\ proc[q].pc \in {"reply", "accept"}
      /\ thr[k].cmd.id \in Transfer
    BY <1>1, <1>2, <1>6, <1>a DEF Session, Together, Accepting, ThreadShape
<1>8. port[HostOf[q]] = q /\ HostOf[q] = h
    BY <1>1, <1>5, <1>7 DEF DataInv, Wired, ProcWired, InTransfer, PeerHost
<1>9. q = c
    BY <1>5, <1>8
<1>10. thr[k].cmd = proc[c].cmd /\ thr'[k].pc = "send" /\ local[c][n] = <<>>
    BY <1>1, <1>2, <1>3, <1>7, <1>9 DEF Fetching
<1>11. thr[k].pos = 0 /\ Opened(k) \in Content
    BY <1>2, <1>3, <1>10, <1>a DEF Typed, Listed, Opens, ThreadShape
<1>12. Opened(k)' = Opened(k)
    BY <1>2 DEF Opened
<1>13. Begins(<<>>, <<>>, Opened(k)) /\ Len(<<>>) + Len(<<>>) = 0
    BY <1>11, NothingYet
<1> QED BY <1>1, <1>2, <1>10, <1>11, <1>12, <1>13 DEF Fetched

\* A thread does something.
LEMMA FetchingBySend ==
    ASSUME DataInv, Typed, Alone, NEW c \in Client, Fetching(c),
           NEW k \in Conn, ThreadStep(k)
    PROVE  Fetching(c)'
<1>a. [Next]_vars
    BY DEF Next
<1>b. /\ proc' = proc /\ local' = local /\ port' = port
    BY ThreadLeavesClients DEF clientVars
<1>c. /\ pend \in [Host -> Seq(Sock)] /\ None \notin Client /\ None \notin Sock
      /\ HostOf[c] \in Host
      /\ dat \in [Sock -> DatState]
    BY DataTypes DEF DataInv
<1> SUFFICES ASSUME Downloading(c)'
             PROVE  /\ proc[c].pc \in {"write", "reply", "accept"} =>
                         local[c][proc[c].cmd.arg] = <<>>
                    /\ \A n : n = proc[c].cmd.arg /\ Steady(n)' =>
                         \A s \in Sock : Holds(c, s)' => Fetched(c, s)'
    BY <1>b DEF Fetching, Steady, OneUploader, Untouched
<1>1. Downloading(c)
    BY <1>a, <1>b, CalmStep DEF Downloading
<1>2. proc[c].pc \in {"write", "reply", "accept"} => local[c][proc[c].cmd.arg] = <<>>
    BY <1>1 DEF Fetching
<1>3. ASSUME NEW n, n = proc[c].cmd.arg, Steady(n)', NEW s \in Sock, Holds(c, s)'
      PROVE  Fetched(c, s)'
  <2>1. proc[c].pc \in InTransfer /\ proc[c].cmd.id = "DOWN"
    BY <1>1 DEF Downloading
  <2>2. Steady(n) /\ n \in Name /\ local[c][n] \in Content
    BY <1>a, <1>3, <2>1, UsersStay, SteadyBefore, DownloadHas
  \* The connection was there before.
  <2>3. ASSUME Holds(c, s)
        PROVE  /\ Fetched(c, s) /\ dat[s].by \in Conn /\ dat[s].cli = "open"
               /\ thr[k].pc \in Moving /\ thr[k].data = s =>
                    dat[s].by = k /\ dat[s].srv = "open"
    BY <1>1, <1>3, <2>1, <2>2, <2>3, DownloadHas DEF Fetching, DataInv, Wired, ThrWired
  <2>4. ASSUME Holds(c, s), dat'[s] = dat[s], dat[s].srv = "open" => dat[s].by # k,
               ~ CreateAborts(k)
        PROVE  Fetched(c, s)'
    <3>1. dat[s].srv = "open" => thr'[dat[s].by] = thr[dat[s].by]
      BY <2>3, <2>4, ThreadDoes DEF ThreadTouches
    <3> QED BY <1>a, <1>b, <1>3, <2>2, <2>3, <2>4, <3>1, FetchedKept
  <2>5. CASE CreateAborts(k)
    <3>1. pend' = pend /\ fs' = fs
      BY <2>5, AllAborted
    <3>2. Holds(c, s)
      BY <1>3, <1>b, <3>1 DEF Holds
    <3>3. /\ dat'[s].toCli = dat[s].toCli /\ dat'[s].srv # "open"
          /\ dat'[s].srv = "closed" => dat[s].srv = "closed"
      BY <2>3, <2>5, <3>2, AllAborted
    <3> QED BY <1>3, <1>b, <2>2, <2>3, <3>1, <3>2, <3>3, FetchedClosed
  <2>6. CASE ConnectData(k)
    <3>1. ~ CreateAborts(k)
      BY <2>6 DEF ConnectData, CreateAborts
    <3>2. PICK t \in Sock :
            /\ dat[t] = NoDat /\ thr'[k].data = t
            /\ pend' = [pend EXCEPT ![PeerHost(k)] = <<t>>]
            /\ \A x \in Sock : x # t => dat'[x] = dat[x]
            /\ thr[k].pc = "connect"
      BY <2>6, ThreadUser, DataOpened
    <3>3. CASE s = t
      BY <1>1, <1>3, <2>6, <3>2, <3>3, FetchingStarts
    <3>4. CASE s # t
      <4>1. Holds(c, s)
        BY <1>3, <1>b, <1>c, <3>2, <3>4 DEF Holds
      <4>2. dat[s].srv = "open" => dat[s].by # k
        BY <2>3, <3>2, <4>1 DEF Fetched
      <4> QED BY <2>4, <3>1, <3>2, <3>4, <4>1, <4>2
    <3> QED BY <3>3, <3>4
  <2>7. CASE ~ CreateAborts(k) /\ ~ ConnectData(k)
    <3>1. Holds(c, s)
      BY <1>3, <1>b, <2>7, ThreadPends DEF Holds
    <3>2. CASE dat[s].srv = "open" /\ dat[s].by = k
      <4>1. thr[k].pc = "send" /\ thr[k].data = s /\ thr[k].cmd = proc[c].cmd
        BY <2>3, <3>1, <3>2 DEF Fetched
      <4>2. CASE SendBlock(k)
        <5>1. PICK x \in Content, y \in Content, f \in Content :
                x = local[c][n] /\ y = dat[s].toCli /\ f = Opened(k) /\ thr[k].pos \in Nat
          BY <1>c, <2>2, <4>1, SentFile DEF DatState, Content
        <5>2. Begins(x, y, f) /\ Len(x) + Len(y) = thr[k].pos
          BY <1>3, <2>3, <3>1, <3>2, <5>1 DEF Fetched
        <5>3. /\ thr[k].pos < Len(f) /\ thr'[k].pc = "send" /\ thr'[k].cmd = thr[k].cmd
              /\ thr'[k].data = thr[k].data /\ thr'[k].pos = thr[k].pos + 1
              /\ Opened(k)' = f
              /\ dat'[s].toCli = Append(y, f[thr[k].pos + 1])
              /\ dat'[s].by = dat[s].by /\ dat'[s].srv = dat[s].srv
          BY <2>3, <3>1, <4>1, <4>2, <5>1, BlockSent
        <5>4. /\ Begins(x, dat'[s].toCli, f)
              /\ Len(x) + Len(dat'[s].toCli) = thr[k].pos + 1
          <6>1. PICK p \in Nat : p = thr[k].pos
            BY <5>1
          <6>2. p = Len(x) + Len(y) /\ p < Len(f)
            BY <5>2, <5>3, <6>1
          <6>3. /\ Begins(x, Append(y, f[p + 1]), f)
                /\ Len(x) + Len(Append(y, f[p + 1])) = p + 1
            BY <5>2, <6>2, Sends
          <6> QED BY <5>3, <6>1, <6>3
        <5>5. /\ x = local'[c][n] /\ proc'[c].cmd.arg = n /\ dat'[s].by = k
              /\ dat'[s].srv = "open" /\ thr'[k].cmd = proc'[c].cmd /\ thr'[k].data = s
          BY <1>3, <1>b, <3>2, <4>1, <5>1, <5>3
        <5>6. Len(x) + Len(dat'[s].toCli) = thr'[k].pos /\ Begins(x, dat'[s].toCli, Opened(k)')
          BY <5>3, <5>4
        <5> QED BY <5>3, <5>5, <5>6 DEF Fetched
      <4>3. CASE SendEnds(k)
        <5>1. /\ fs' = fs /\ thr[k].pos >= Len(Opened(k))
              /\ dat'[s].srv = "closed" /\ dat'[s].toCli = dat[s].toCli
          BY <2>3, <3>1, <4>1, <4>3, SentWhole
        <5>2. dat'[s].srv # "open"
          BY <5>1
        <5> QED BY <1>3, <1>b, <2>2, <2>3, <3>1, <3>2, <5>1, <5>2, FetchedClosed
      <4>4. ~ SendFails(k)
        BY <2>3, <3>1, <4>1 DEF SendFails
      <4> QED BY <4>1, <4>2, <4>3, <4>4, SendingSteps
    <3>3. CASE ~ (dat[s].srv = "open" /\ dat[s].by = k)
      <4>1. dat'[s] = dat[s]
        BY <2>3, <2>7, <3>1, <3>3, ThreadDoes DEF ThreadTouches, Alive
      <4> QED BY <2>4, <2>7, <3>1, <3>3, <4>1
    <3> QED BY <3>2, <3>3
  <2> QED BY <2>5, <2>6, <2>7
<1> QED BY <1>2, <1>3

LEMMA FetchingStep ==
    ASSUME DataInv, Typed, Alone, [Next]_vars, NEW c \in Client, Fetching(c)
    PROVE  Fetching(c)'
<1>1. CASE UNCHANGED vars
  <2>1. \A s : (Holds(c, s)' <=> Holds(c, s)) /\ (Fetched(c, s)' <=> Fetched(c, s))
    BY <1>1 DEF vars, Holds, Fetched, Untouched, Opened
  <2>2. Steady(proc[c].cmd.arg)' <=> Steady(proc[c].cmd.arg)
    BY <1>1 DEF vars, Steady, OneUploader, Untouched
  <2>3. Downloading(c)' <=> Downloading(c)
    BY <1>1 DEF vars, Downloading, Calm, KilledOn
  <2>4. proc' = proc /\ local' = local
    BY <1>1 DEF vars
  <2> QED BY <2>1, <2>2, <2>3, <2>4 DEF Fetching
<1>2. ASSUME NEW q \in Client, ClientStep(q) \/ UserStep(q) PROVE Fetching(c)'
    BY <1>2, FetchingBeside, FetchingOwn
<1> QED BY <1>1, <1>2, FetchingBySend DEF Next

\* A client that comes back from a download found its end.
LEMMA DownloadEnds ==
    ASSUME DataInv, Typed, [Next]_vars, NEW c \in Client,
           proc[c].pc = "get", proc'[c].pc = "ready"
    PROVE  GetEnds(c)
<1>a. proc \in [Client -> ProcState]
    BY DataTypes DEF DataInv
<1>1. ASSUME NEW q \in Client, ClientStep(q) \/ UserStep(q) PROVE q = c
    BY <1>1, ClientDoes DEF ClientTouches
<1>2. ASSUME NEW k \in Conn, ThreadStep(k) PROVE FALSE
    BY <1>2, ThreadLeavesClients DEF clientVars
<1>3. ClientStep(c) \/ UserStep(c)
    BY <1>1, <1>2 DEF Next, vars
<1>4. ASSUME NEW how, Gone(c, how) PROVE FALSE
    BY <1>a, <1>4 DEF Gone, NoProc
<1>5. ~ ReadHello(c) /\ ~ Granted(c) /\ ~ Answered(c)
    BY DEF ReadHello, Granted, Answered, Reads
<1>6. ~ WriteCmd(c) /\ ~ AcceptData(c) /\ ~ Put(c) /\ ~ PutEnds(c) /\ ~ Get(c)
    BY DEF WriteCmd, AcceptData, Put, PutEnds, Get
<1>7. /\ ~ ReadFails(c) /\ ~ WriteFails(c) /\ ~ Leave(c) /\ ~ ListFails(c) /\ ~ Kill(c)
      /\ \A m \in Menu[c] : ~ BindFails(c, m) /\ ~ Type(c, m)
      /\ \A k \in Conn : ~ Connect(c, k)
    BY <1>4 DEF ReadFails, WriteFails, Leave, ListFails, Kill, BindFails, Type, Connect
<1> QED BY <1>3, <1>5, <1>6, <1>7 DEF ClientStep, UserStep

\* What it then has.
LEMMA DownloadHere ==
    ASSUME DataInv, NEW c \in Client, Fetching(c), GetEnds(c), proc[c].cmd.id = "DOWN",
           Calm(HostOf[c]), NEW n, n = proc[c].cmd.arg, Steady(n)
    PROVE  \E d \in Dir :
             /\ fs[d][n] \in Content /\ local[c][n] \in Content
             /\ Begins(local[c][n], <<>>, fs[d][n])
             /\ dat[proc[c].data].srv = "closed" /\ Untouched(n) =>
                  Len(local[c][n]) = Len(fs[d][n])
<1>1. PICK s \in Sock : s = proc[c].data /\ proc[c].pc = "get"
    BY DEF GetEnds, DataInv, TypeInv, Shape, ClientShape
<1>2. Fetched(c, s)
    BY <1>1 DEF Fetching, Downloading, InTransfer, Holds
<1>3. n \in Name /\ local[c][n] \in Content
    BY <1>1, DownloadHas DEF InTransfer
<1>4. PICK x \in Content, y \in Content : x = local[c][n] /\ y = dat[s].toCli
    BY <1>3, DataTypes DEF DataInv, DatState, Content
<1>5. dat[s].srv # "open" /\ (dat[s].srv = "closed" => y = <<>>)
    BY <1>1, <1>4 DEF GetEnds
<1>6. PICK d \in Dir : /\ fs[d][n] # NoFile /\ Begins(x, y, fs[d][n])
                       /\ dat[s].srv = "closed" /\ Untouched(n) =>
                            Len(x) + Len(y) = Len(fs[d][n])
    BY <1>2, <1>4, <1>5 DEF Fetched
<1>7. fs[d][n] \in Content
    BY <1>3, <1>6 DEF DataInv, TypeInv, TypeOK
<1>8. PICK a \in Nat, b \in Nat, m \in Nat : a = Len(x) /\ b = Len(y) /\ m = Len(fs[d][n])
    BY <1>4, <1>7 DEF Content
<1>9. Len(<<>>) = 0
    OBVIOUS
<1>10. Begins(x, <<>>, fs[d][n])
    BY <1>6, <1>8, <1>9 DEF Begins
<1>11. dat[s].srv = "closed" /\ Untouched(n) => a = m
    BY <1>5, <1>6, <1>8, <1>9
<1> QED BY <1>1, <1>3, <1>4, <1>7, <1>8, <1>10, <1>11

LEMMA BeginsIs ==
    ASSUME NEW x \in Content, NEW f \in Content, Begins(x, <<>>, f)
    PROVE  /\ Len(x) <= Len(f) /\ x = SubSeq(f, 1, Len(x))
           /\ Len(x) = Len(f) => x = f
<1>1. PICK a \in Nat, m \in Nat : a = Len(x) /\ m = Len(f)
    BY DEF Content
<1>2. Len(<<>>) = 0
    OBVIOUS
<1>3. a <= m /\ \A i \in 1 .. a : x[i] = f[i]
    BY <1>1, <1>2 DEF Begins
<1>4. PICK z : z = SubSeq(f, 1, a)
    OBVIOUS
<1>5. z \in Seq(Item) /\ Len(z) = a /\ \A i \in 1 .. a : z[i] = f[i]
    BY <1>1, <1>3, <1>4 DEF Content
<1>6. x = z
    BY <1>1, <1>3, <1>5 DEF Content
<1>7. ASSUME a = m PROVE x = f
  <2>1. /\ x \in Seq(Item) /\ Len(x) = a /\ f \in Seq(Item) /\ Len(f) = a
        /\ \A i \in 1 .. a : x[i] = f[i]
    BY <1>1, <1>3, <1>7 DEF Content
  <2> QED BY ONLY <2>1
<1> QED BY <1>1, <1>3, <1>4, <1>6, <1>7

FetchInv == DataInv /\ Typed /\ Alone /\ \A c \in Client : Fetching(c)

LEMMA FetchInit == Init => FetchInv
<1> SUFFICES ASSUME Init PROVE FetchInv
    OBVIOUS
<1>1. DataInv
    BY DataInit
<1>2. Typed
  <2>1. DOMAIN <<>> = {}
    OBVIOUS
  <2> QED BY <2>1 DEF Init, Typed, Listed, Opens, NoProc, NoCtl, NoThread
<1>3. Alone
  <2>0. <<>> \in Seq(Staying)
    OBVIOUS
  <2>1. NobodyMoves
    BY <2>0 DEF Init, NobodyMoves, NoProc, NoCtl, NoThread
  <2> QED BY <2>1 DEF Init, Alone, KeptInv, UploadsNew, InitialFilesKept, NoThread
<1>4. \A c \in Client : Fetching(c)
    BY DEF Init, Fetching, Downloading, InTransfer, NoProc
<1> QED BY <1>1, <1>2, <1>3, <1>4 DEF FetchInv

LEMMA FetchStep == FetchInv /\ [Next]_vars => FetchInv'
<1> SUFFICES ASSUME FetchInv, [Next]_vars PROVE FetchInv'
    OBVIOUS
<1>1. DataInv'
    BY DataStep DEF FetchInv
<1>2. Typed'
  <2>1. CASE UNCHANGED vars
    BY <2>1 DEF vars, FetchInv, Typed, Listed, Opens
  <2> QED BY <2>1, TypedClient, TypedThread DEF FetchInv, Next
<1>3. Alone'
  <2>1. CASE UNCHANGED vars
    BY <2>1 DEF vars, FetchInv, Alone, Extends, KeptInv, NobodyMoves, UploadsNew,
                InitialFilesKept, OneUploader, Opened
  <2> QED BY <2>1, AloneClient, AloneThread DEF FetchInv, Next
<1>4. \A c \in Client : Fetching(c)'
    BY FetchingStep DEF FetchInv
<1> QED BY <1>1, <1>2, <1>3, <1>4 DEF FetchInv

LEMMA FetchHolds == Spec => []FetchInv
BY FetchInit, FetchStep, PTL DEF Spec

\* What get_file stored is a whole file of that name on the server, if its connection was not
\* cut off, no client of its machine was killed and nobody may store the name: the end of
\* the data connection is the only sign of the end of a file.
THEOREM DownloadsWhole == Spec => DownloadWhole
<1>1. ASSUME FetchInv, [Next]_vars, NEW c \in Client,
             proc[c].pc = "get", proc[c].cmd.id = "DOWN", proc'[c].pc = "ready",
             dat[proc[c].data].srv = "closed", ~ KilledOn(HostOf[c]),
             Untouched(proc[c].cmd.arg)
      PROVE  \E d \in Dir : local[c][proc[c].cmd.arg] = fs[d][proc[c].cmd.arg]
  <2>1. DataInv /\ Typed /\ Fetching(c) /\ GetEnds(c)
    BY <1>1, DownloadEnds DEF FetchInv
  <2>2. PICK n : n = proc[c].cmd.arg
    OBVIOUS
  <2>3. Untouched(n) /\ Steady(n)
    BY <1>1, <2>2 DEF Steady
  <2>4. PICK d \in Dir : /\ fs[d][n] \in Content /\ local[c][n] \in Content
                         /\ Begins(local[c][n], <<>>, fs[d][n])
                         /\ Len(local[c][n]) = Len(fs[d][n])
    BY <1>1, <2>1, <2>2, <2>3, DownloadHere DEF Calm
  <2>5. local[c][n] = fs[d][n]
    BY <2>4, BeginsIs
  <2> QED BY <2>2, <2>5
<1>2. FetchInv /\ [Next]_vars =>
        [\A c \in Client :
            /\ proc[c].pc = "get" /\ proc[c].cmd.id = "DOWN" /\ proc'[c].pc = "ready"
            /\ dat[proc[c].data].srv = "closed" /\ ~ KilledOn(HostOf[c])
            /\ Untouched(proc[c].cmd.arg)
            => \E d \in Dir : local[c][proc[c].cmd.arg] = fs[d][proc[c].cmd.arg]]_vars
    BY <1>1
<1> QED BY <1>2, FetchHolds, PTL DEF Spec, DownloadWhole

\* And it is the beginning of such a file even while one session stores it, as long as
\* nobody may change the directory: the only session that could empty the file found the
\* name free when it was granted (the check of ProcessCmd, long before the fopen of RecvFile).
THEOREM DownloadsPart == Spec => DownloadPart
<1>1. ASSUME FetchInv, [Next]_vars, NEW c \in Client,
             proc[c].pc = "get", proc[c].cmd.id = "DOWN", proc'[c].pc = "ready",
             ~ KilledOn(HostOf[c]), Stays, OneUploader(proc[c].cmd.arg)
      PROVE  LET mine == local[c][proc[c].cmd.arg] IN
             \E d \in Dir : LET theirs == fs[d][proc[c].cmd.arg] IN
                /\ theirs # NoFile /\ Len(mine) <= Len(theirs)
                /\ mine = SubSeq(theirs, 1, Len(mine))
  <2>1. DataInv /\ Typed /\ Fetching(c) /\ GetEnds(c)
    BY <1>1, DownloadEnds DEF FetchInv
  <2>2. PICK n : n = proc[c].cmd.arg
    OBVIOUS
  <2>3. Steady(n)
    BY <1>1, <2>2 DEF Steady, OneUploader
  <2>4. PICK d \in Dir : /\ fs[d][n] \in Content /\ local[c][n] \in Content
                         /\ Begins(local[c][n], <<>>, fs[d][n])
    BY <1>1, <2>1, <2>2, <2>3, DownloadHere DEF Calm
  <2>5. /\ fs[d][n] # NoFile /\ Len(local[c][n]) <= Len(fs[d][n])
        /\ local[c][n] = SubSeq(fs[d][n], 1, Len(local[c][n]))
    BY <2>4, BeginsIs, DistinctNone
  <2> QED BY <2>2, <2>5
<1>2. FetchInv /\ [Next]_vars =>
        [\A c \in Client :
            /\ proc[c].pc = "get" /\ proc[c].cmd.id = "DOWN" /\ proc'[c].pc = "ready"
            /\ ~ KilledOn(HostOf[c])
            /\ Stays /\ OneUploader(proc[c].cmd.arg)
            => LET mine == local[c][proc[c].cmd.arg] IN
               \E d \in Dir : LET theirs == fs[d][proc[c].cmd.arg] IN
                  /\ theirs # NoFile /\ Len(mine) <= Len(theirs)
                  /\ mine = SubSeq(theirs, 1, Len(mine))]_vars
    BY <1>1
<1> QED BY <1>2, FetchHolds, PTL DEF Spec, DownloadPart

-----------------------------------------------------------------------------
(* Uploads.                                                                *)

\* Only c stores this name, and c does not fetch it: its own file stays what it was.
Sole(c, n) == /\ \A q \in Client \ {c} : ~ MayUpload(q, n)
              /\ ~ MayDownload(c, n)

LocalKept(c) == \A n \in Name : ~ MayDownload(c, n) => local[c][n] = InitLocal[c][n]

\* The blocks the thread of k has written.
Stored(k) == IF thr[k].pc = "store" THEN thr[k].pos ELSE 0

\* What is on its way to the thread of k is the rest of file x, as far as it was sent.
Arriving(k, x) ==
    LET c == ctl[k].by
        s == thr[k].data
        y == dat[s].toSrv
    IN
    /\ x \in Content /\ Stored(k) + Len(y) <= Len(x)
    /\ \A i \in 1 .. Len(y) : y[i] = x[Stored(k) + i]
    /\ proc[c].data = s => proc[c].pos = Stored(k) + Len(y)
    /\ dat[s].cli = "open" /\ proc[c].data # s => y = <<>> /\ Stored(k) = 0
    /\ dat[s].cli = "closed" => Stored(k) + Len(y) = Len(x)

\* What the thread of k wrote is in the file, or another one that stores the same file will
\* write it again: two sessions of one user may both have found the name free.
Written(k, x) ==
    /\ Len(Opened(k)) <= Len(x)
    /\ \A i \in 1 .. thr[k].pos :
         \/ i <= Len(Opened(k)) /\ Opened(k)[i] = x[i]
         \/ \E j \in Conn : thr[j].pc = "store" /\ thr[j].file = thr[k].file /\ thr[j].pos < i

Undisturbed(k) == /\ ctl[k].by \in Client /\ Calm(PeerHost(k))
                  /\ thr[k].pc \in {"create", "store"} /\ Sole(ctl[k].by, thr[k].cmd.arg)

Mine(k) == InitLocal[ctl[k].by][thr[k].cmd.arg]

Uploading(k) == Undisturbed(k) => \A x : x = Mine(k) =>
                    Arriving(k, x) /\ (thr[k].pc = "store" => Written(k, x))

LEMMA LocalStep ==
    ASSUME DataInv, Typed, [Next]_vars, NEW c \in Client, LocalKept(c)
    PROVE  LocalKept(c)'
<1>1. ASSUME NEW q \in Client, ClientStep(q) \/ UserStep(q), NEW n \in Name, ~ MayDownload(c, n)
      PROVE  local'[c][n] = local[c][n]
    BY <1>1, ClientDoes DEF ClientTouches
<1>2. ASSUME NEW k \in Conn, ThreadStep(k) PROVE local' = local
    BY <1>2, ThreadLeavesClients DEF clientVars
<1> QED BY <1>1, <1>2 DEF Next, vars, LocalKept, MayDownload

\* Where a thread that stores has its data from.
LEMMA StoringHas ==
    ASSUME DataInv, Typed, NEW k \in Conn, thr[k].pc \in {"create", "store"}
    PROVE  /\ thr[k].data \in Sock /\ dat[thr[k].data] \in DatState
           /\ dat[thr[k].data].by = k /\ dat[thr[k].data].srv = "open"
           /\ Stored(k) \in Nat /\ thr[k].pos \in Nat
           /\ ctl[k].by \in Client /\ thr[k].cmd.arg \in Name
           /\ thr[k].cmd = [id |-> "UP", arg |-> thr[k].cmd.arg]
           /\ MayUpload(ctl[k].by, thr[k].cmd.arg)
           /\ thr[k].pc = "store" => /\ thr[k].file \in [dir : Dir, name : Name]
                                     /\ thr[k].file.name = thr[k].cmd.arg
                                     /\ Opened(k) \in Content
<1>1. thr[k] \in ThrState /\ ThreadShape(k) /\ ThrWired(k) /\ Opens(k)
    BY DataTypes DEF DataInv, TypeInv, Shape, Wired, Typed, Listed
<1>2. thr[k].data \in Sock /\ thr[k].pos \in Nat /\ Stored(k) \in Nat
    BY <1>1 DEF ThreadShape, ThrState, Stored
<1>3. dat[thr[k].data].by = k /\ dat[thr[k].data].srv = "open"
    BY <1>1 DEF ThrWired, Moving
<1>4. dat[thr[k].data] \in DatState
    BY <1>2, DataTypes DEF DataInv
<1>5. thr[k].pc = "store" => /\ thr[k].file \in [dir : Dir, name : Name]
                             /\ thr[k].file.name = thr[k].cmd.arg
                             /\ Opened(k) \in Content
    BY <1>1 DEF ThreadShape, ThrState, Opens
<1> QED BY <1>2, <1>3, <1>4, <1>5, UploadListed

\* What a client does to data that go to the server.
LEMMA UploadTouches ==
    ASSUME DataInv, NEW c \in Client, ClientStep(c) \/ UserStep(c),
           NEW s \in Sock, dat[s].srv = "open", ~ Put(c), ~ GetEnds(c), ~ PutEnds(c)
    PROVE  /\ dat'[s].toSrv = dat[s].toSrv /\ dat'[s].cli \in {dat[s].cli, "killed"}
           /\ proc'[c].data = s =>
                \/ proc[c].data = s /\ proc'[c].pos = proc[c].pos
                \/ Holds(c, s) /\ proc[c].data # s /\ proc'[c].pos = 0
           /\ dat'[s].cli = "open" /\ proc'[c].data # s => proc[c].data # s
<1>a. /\ proc \in [Client -> ProcState] /\ dat \in [Sock -> DatState]
      /\ pend \in [Host -> Seq(Sock)] /\ None \notin Sock /\ HostOf[c] \in Host
    BY DataTypes DEF DataInv
<1>b. ProcWired(c)
    BY DEF DataInv, Wired
\* ClosePort after d.
<1>1. ASSUME NEW d, ClosePort(c, d), d[s].srv = "open", d[s].toSrv = dat[s].toSrv,
             d[s].cli \in {dat[s].cli, "killed"}, d[s] \in DatState
      PROVE  dat'[s].toSrv = dat[s].toSrv /\ dat'[s].cli \in {d[s].cli, "killed"}
  <2>1. PICK e : e = ResetWaiting(d, HostOf[c])
    OBVIOUS
  <2>2. e[s] = d[s] \/ e[s] = [d[s] EXCEPT !.cli = "killed"]
    BY <2>1 DEF ResetWaiting
  <2>3. e[s].srv = "open" /\ e[s].toSrv = dat[s].toSrv /\ e[s].cli \in {d[s].cli, "killed"}
    BY <1>1, <2>2 DEF DatState
  <2>4. dat' = Live(e) \/ dat' = Live(d)
    BY <1>1, <2>1 DEF ClosePort
  <2>5. dat'[s] = e[s] \/ dat'[s] = d[s]
    BY <1>1, <2>3, <2>4 DEF Live
  <2> QED BY <1>1, <2>3, <2>5
<1>2. ASSUME NEW how, Gone(c, how)
      PROVE  /\ dat'[s].toSrv = dat[s].toSrv /\ dat'[s].cli \in {dat[s].cli, "killed"}
             /\ proc'[c].data = None
             /\ dat'[s].cli = "open" => proc[c].data # s
  <2>1. PICK d : d = CloseData(c, "killed") /\ ClosePort(c, d)
    BY <1>2 DEF Gone
  <2>2. d[s] = IF proc[c].data = s THEN [dat[s] EXCEPT !.cli = "killed"] ELSE dat[s]
    BY <2>1 DEF CloseData
  <2>3. /\ d[s].srv = "open" /\ d[s].toSrv = dat[s].toSrv /\ d[s] \in DatState
        /\ d[s].cli = IF proc[c].data = s THEN "killed" ELSE dat[s].cli
    BY <1>a, <2>2 DEF DatState, EndState
  <2>4. dat'[s].toSrv = dat[s].toSrv /\ dat'[s].cli \in {d[s].cli, "killed"}
    BY <1>1, <2>1, <2>3
  <2>5. proc'[c].data = None
    BY <1>2, <1>a DEF Gone, NoProc
  <2> QED BY <2>3, <2>4, <2>5
<1>3. CASE ReadFails(c) \/ WriteFails(c) \/ Leave(c) \/ ListFails(c) \/ Kill(c)
           \/ \E m \in Menu[c] : BindFails(c, m)
  <2>1. PICK how : Gone(c, how)
    BY <1>3 DEF ReadFails, WriteFails, Leave, ListFails, Kill, BindFails
  <2> QED BY <1>2, <1>a, <2>1
<1>4. CASE ReadHello(c) \/ WriteCmd(c) \/ Granted(c) \/ \E m \in Menu[c] : Type(c, m)
  <2>1. dat' = dat /\ proc'[c].data = proc[c].data /\ proc'[c].pos = proc[c].pos
    BY <1>4, <1>a DEF ReadHello, WriteCmd, Granted, Type, ProcState
  <2> QED BY <2>1
<1>5. CASE Answered(c)
  <2>1. /\ ClosePort(c, dat) /\ proc[c].pc = "reply"
        /\ proc'[c].data = proc[c].data /\ proc'[c].pos = proc[c].pos
    BY <1>5, <1>a DEF Answered, Reads, ProcState
  <2>2. proc[c].data = None
    BY <1>b, <2>1 DEF ProcWired
  <2>3. dat'[s].toSrv = dat[s].toSrv /\ dat'[s].cli \in {dat[s].cli, "killed"}
    BY <1>1, <1>a, <2>1
  <2> QED BY <1>a, <2>1, <2>2, <2>3
<1>6. CASE AcceptData(c)
  <2>1. /\ dat' = dat /\ proc[c].pc = "accept" /\ pend[HostOf[c]] # <<>>
        /\ proc'[c].data = Head(pend[HostOf[c]]) /\ proc'[c].pos = 0
    BY <1>6, <1>a DEF AcceptData, ProcState
  <2>2. port[HostOf[c]] = c /\ proc[c].data = None
    BY <1>b, <2>1 DEF ProcWired, InTransfer
  <2>3. Head(pend[HostOf[c]]) = pend[HostOf[c]][1]
    BY <1>a, <2>1
  <2> QED BY <1>a, <2>1, <2>2, <2>3 DEF Holds
<1>7. CASE Get(c)
  <2>1. proc' = proc /\ dat' = [dat EXCEPT ![proc[c].data].toCli = Tail(@)]
    BY <1>7 DEF Get
  <2>2. dat'[s].toSrv = dat[s].toSrv /\ dat'[s].cli = dat[s].cli
    BY <1>a, <2>1 DEF DatState
  <2> QED BY <2>1, <2>2
<1>8. ASSUME NEW k \in Conn, Connect(c, k)
      PROVE  dat' = dat /\ proc'[c].data = None /\ proc[c].data = None
  <2>1. dat' = dat /\ proc'[c].data = None /\ proc[c].pc = "off"
    BY <1>8, <1>a DEF Connect, NoProc
  <2> QED BY <1>b, <2>1 DEF ProcWired
<1> QED BY <1>3, <1>4, <1>5, <1>6, <1>7, <1>8, <1>a DEF ClientStep, UserStep

\* The client closes after the last block.
LEMMA LastPut ==
    ASSUME DataInv, NEW c \in Client, PutEnds(c), Calm(HostOf[c]),
           NEW s \in Sock, s = proc[c].data, dat[s].srv = "open"
    PROVE  /\ proc[c].pos >= Len(local[c][proc[c].cmd.arg])
           /\ dat'[s].toSrv = dat[s].toSrv /\ dat'[s].cli = "closed"
           /\ proc'[c].data = None
<1>1. PICK d : d = CloseData(c, "closed") /\ ClosePort(c, d)
    BY DEF PutEnds, CloseTransfer
<1>2. /\ dat \in [Sock -> DatState] /\ proc \in [Client -> ProcState] /\ HostOf[c] \in Host
      /\ pend \in [Host -> Seq(Sock)]
    BY DataTypes DEF DataInv
<1>3. proc[c].pc = "put" /\ proc[c].pos >= Len(local[c][proc[c].cmd.arg])
    BY DEF PutEnds
<1>4. port[HostOf[c]] = c
    BY <1>3 DEF DataInv, Wired, ProcWired, InTransfer
<1>5. pend[HostOf[c]] = <<>>
    BY <1>2, <1>3, <1>4 DEF DataInv, Calmly, Waiting
<1>6. /\ DOMAIN d = Sock
      /\ \A t \in Sock : d[t].srv = dat[t].srv /\ (proc[c].data # t => d[t] = dat[t])
      /\ d[s] = [dat[s] EXCEPT !.cli = "closed"]
    BY <1>1, <1>2 DEF CloseData, DatState
<1>7. dat'[s] = d[s]
    BY <1>1, <1>5, <1>6, ClosesOwn
<1>8. proc'[c].data = None
    BY <1>2 DEF PutEnds, CloseTransfer, ProcState
<1>9. dat'[s].toSrv = dat[s].toSrv /\ dat'[s].cli = "closed"
    BY <1>2, <1>6, <1>7 DEF DatState
<1> QED BY <1>3, <1>8, <1>9

\* What is on its way after a step of a client.
LEMMA ArrivingClient ==
    ASSUME DataInv, Typed, NEW q \in Client, ClientStep(q) \/ UserStep(q),
           NEW k \in Conn, thr[k].pc \in {"create", "store"}, Calm(PeerHost(k)),
           NEW x, Arriving(k, x),
           NEW n, n = thr[k].cmd.arg, x = local[ctl[k].by][n],
           thr'[k] = thr[k], ctl'[k].by = ctl[k].by
    PROVE  Arriving(k, x)'
<1>a. PICK c \in Client, s \in Sock : c = ctl[k].by /\ s = thr[k].data
    BY StoringHas
<1>b. /\ dat[s] \in DatState /\ dat[s].by = k /\ dat[s].srv = "open"
      /\ Stored(k) \in Nat /\ Stored(k)' = Stored(k) /\ PeerHost(k) = HostOf[c]
    BY <1>a, StoringHas DEF Stored, PeerHost
<1>c. PICK y \in Content, w \in Nat : y = dat[s].toSrv /\ w = Stored(k)
    BY <1>b DEF DatState, Content
<1>d. x \in Content
    BY DEF Arriving
<1>e. PICK a \in Nat, m \in Nat : a = Len(y) /\ m = Len(x)
    BY <1>c, <1>d DEF Content
<1>g. /\ w + a <= m /\ \A i \in 1 .. a : y[i] = x[w + i]
      /\ proc[c].data = s => proc[c].pos = w + a
      /\ dat[s].cli = "open" /\ proc[c].data # s => y = <<>> /\ w = 0
      /\ dat[s].cli = "closed" => w + a = m
  <2>1. /\ w + Len(y) <= Len(x)
        /\ \A i \in 1 .. Len(y) : y[i] = x[w + i]
        /\ proc[c].data = s => proc[c].pos = w + Len(y)
        /\ dat[s].cli = "open" /\ proc[c].data # s => y = <<>> /\ w = 0
        /\ dat[s].cli = "closed" => w + Len(y) = Len(x)
    BY <1>a, <1>c, Zenon DEF Arriving
  <2> QED BY <1>e, <2>1, Zenon
<1>h. y = <<>> => a = 0
    BY <1>e
\* It is enough to say what became of the two ends.
<1>f. ASSUME NEW z \in Content, dat'[s].toSrv = z, NEW b \in Nat, b = Len(z), w + b <= m,
             \A i \in 1 .. b : z[i] = x[w + i],
             proc'[c].data = s => proc'[c].pos = w + b,
             dat'[s].cli = "open" /\ proc'[c].data # s => z = <<>> /\ w = 0,
             dat'[s].cli = "closed" => w + b = m
      PROVE  Arriving(k, x)'
  <2>1. ctl'[k].by = c /\ thr'[k].data = s /\ Stored(k)' = w
    BY <1>a, <1>b, <1>c
  <2>2. /\ w + Len(z) <= Len(x)
        /\ \A i \in 1 .. Len(z) : z[i] = x[w + i]
        /\ proc'[c].data = s => proc'[c].pos = w + Len(z)
        /\ dat'[s].cli = "closed" => w + Len(z) = Len(x)
    BY <1>e, <1>f, Zenon
  <2> QED BY <1>d, <1>f, <2>1, <2>2 DEF Arriving
<1>i. proc[c].data = s => proc[c].pos = w + a
    BY <1>g
<1>k. a \in Nat /\ w \in Nat /\ m \in Nat
    OBVIOUS
<1>j. w + a <= m /\ \A i \in 1 .. a : y[i] = x[w + i]
    BY <1>g, Zenon
<1>1. CASE q # c
  <2>1. ~ Holds(q, s)
    <3> SUFFICES ASSUME Holds(q, s) PROVE FALSE
      OBVIOUS
    <3>1. proc[q].pc # "off"
      <4>1. /\ ProcWired(q) /\ None \notin Sock /\ None \notin Client
            /\ HostOf[q] \in Host /\ PortInTransferOnly
        BY DataTypes DEF DataInv, Wired
      <4>2. proc[q].data = s => proc[q].pc # "off"
        BY <4>1 DEF ProcWired
      <4>3. port[HostOf[q]] = q => proc[q].pc # "off"
        BY <4>1 DEF PortInTransferOnly
      <4> QED BY <4>2, <4>3 DEF Holds
    <3>2. InUse(s, HostOf[q]) /\ (Calm(HostOf[q]) => dat[s].by = proc[q].conn)
      BY <3>1, HeldAlone
    <3>3. proc[q].conn = k
      BY <1>b, <3>2 DEF InUse
    <3>4. ctl[k].by = q
      BY <3>1, <3>3 DEF DataInv, TalkInv, Talk
    <3> QED BY <1>1, <1>a, <3>4
  <2>2. dat'[s] = dat[s] /\ proc'[c] = proc[c]
    BY <1>1, <1>b, <2>1, ClientDoes DEF ClientTouches, Alive
  <2> QED BY <1>c, <1>e, <1>g, <1>f, <2>2, Zenon
<1>2. CASE q = c /\ ~ Put(c) /\ ~ GetEnds(c) /\ ~ PutEnds(c)
  <2>1. /\ dat'[s].toSrv = y /\ dat'[s].cli \in {dat[s].cli, "killed"}
        /\ proc'[c].data = s =>
             \/ proc[c].data = s /\ proc'[c].pos = proc[c].pos
             \/ Holds(c, s) /\ proc[c].data # s /\ proc'[c].pos = 0
        /\ dat'[s].cli = "open" /\ proc'[c].data # s => proc[c].data # s
    BY <1>2, <1>b, <1>c, UploadTouches
  <2>2. Holds(c, s) /\ proc[c].data # s => dat[s].cli = "open"
    <3>1. ASSUME Holds(c, s), proc[c].data # s PROVE InUse(s, HostOf[c])
      BY <3>1, DataTypes DEF Holds, DataInv, Wired, HostWired
    <3> QED BY <3>1 DEF InUse
  <2>3. Holds(c, s) /\ proc[c].data # s => w = 0 /\ a = 0
    BY <1>g, <1>h, <2>2
  <2>4. ASSUME proc'[c].data = s PROVE proc'[c].pos = w + a
    <3>1. CASE proc[c].data = s /\ proc'[c].pos = proc[c].pos
      BY <1>i, <3>1
    <3>2. CASE Holds(c, s) /\ proc[c].data # s /\ proc'[c].pos = 0
      BY <2>3, <3>2
    <3> QED BY <2>1, <2>4, <3>1, <3>2
  <2>5. dat'[s].cli = "open" /\ proc'[c].data # s => y = <<>> /\ w = 0
    BY <1>g, <2>1
  <2>6. dat'[s].cli = "closed" => w + a = m
    BY <1>g, <2>1
  <2> QED BY <1>e, <1>f, <1>g, <2>1, <2>4, <2>5, <2>6, Zenon
\* The client has the connection, and its command is the one the thread carries out.
<1>3. ASSUME proc[c].data = s PROVE proc[c].cmd = thr[k].cmd /\ proc[c].pc = "put"
  <2>1. Session(k) /\ ProcWired(c) /\ None \notin Sock
    BY <1>a, DataTypes DEF DataInv, Calmly, Wired
  <2>2. proc[c].pc \in {"get", "put"} /\ dat[s].cli = "open"
    BY <1>3, <2>1 DEF ProcWired, InUse
  <2>3. proc[c].cmd = thr[k].cmd
    BY <1>a, <2>1, <2>2 DEF Session, Joined, Together
  <2>4. thr[k].cmd.id = "UP"
    BY DEF DataInv, Wired, ThrWired
  <2> QED BY <2>1, <2>2, <2>3, <2>4 DEF ProcWired
<1>4. CASE q = c /\ Put(c)
  <2>1. CASE proc[c].data # s
    <3>1. proc'[c].data = proc[c].data /\ dat'[s] = dat[s]
      BY <1>4, <2>1, DataTypes DEF DataInv, Put, ProcState
    <3> QED BY <1>c, <1>e, <1>g, <1>f, <2>1, <3>1, Zenon
  <2>2. CASE proc[c].data = s
    <3>1. x = local[c][proc[c].cmd.arg]
      BY <1>3, <1>a, <2>2
    <3>2. PICK p : p = proc[c].pos
      OBVIOUS
    <3>3. /\ p < Len(x) /\ p \in Nat
          /\ dat'[s].toSrv = Append(dat[s].toSrv, x[p + 1]) /\ dat'[s].cli = dat[s].cli
          /\ proc'[c].data = s /\ proc'[c].pos = p + 1
      <4>1. /\ c \in Client /\ s \in Sock
            /\ Put(c) /\ s = proc[c].data /\ dat[s].srv = "open"
        BY <1>4, <1>b, <2>2
      <4>2. /\ proc[c] \in ProcState /\ proc \in [Client -> ProcState]
            /\ dat \in [Sock -> DatState]
        BY DataTypes DEF DataInv
      <4>3. /\ p < Len(x) /\ dat' = [dat EXCEPT ![s].toSrv = Append(dat[s].toSrv, x[p + 1])]
            /\ proc' = [proc EXCEPT ![c].pos = p + 1]
        BY ONLY <3>1, <3>2, <4>1 DEF Put
      <4>4. proc'[c].data = s /\ proc'[c].pos = p + 1 /\ p \in Nat
        BY <3>2, <4>1, <4>2, <4>3, Zenon DEF ProcState
      <4>5. /\ dat'[s].toSrv = Append(dat[s].toSrv, x[p + 1]) /\ dat'[s].cli = dat[s].cli
        BY <4>2, <4>3, Zenon DEF DatState
      <4> QED BY <4>3, <4>4, <4>5, Zenon
    <3>4. p = w + a /\ p < m
      BY <1>e, <1>i, <2>2, <3>2, <3>3, Zenon
    <3>5. PICK v \in Item : v = x[p + 1]
      <4>1. p + 1 \in 1 .. m
        <5>1. p \in Nat /\ p < m
          BY <3>3, <3>4
        <5> QED BY ONLY <5>1, <1>k
      <4>2. x \in Seq(Item) /\ m = Len(x)
        BY <1>d, <1>e DEF Content
      <4>3. x[p + 1] \in Item
        BY ONLY <4>1, <4>2
      <4> QED BY <4>3, Zenon
    <3>6. PICK z : z = Append(y, v)
      OBVIOUS
    <3>7. /\ z \in Content /\ Len(z) = a + 1 /\ z[a + 1] = v
          /\ \A i \in 1 .. a : z[i] = y[i]
      <4>1. y \in Seq(Item) /\ v \in Item /\ a = Len(y) /\ a \in Nat
        BY <1>c, <1>e DEF Content
      <4> QED BY ONLY <4>1, <3>6 DEF Content
    <3>8. ASSUME NEW i \in 1 .. a + 1 PROVE z[i] = x[w + i]
      <4>1. CASE i \in 1 .. a
        BY <1>j, <3>7, <4>1, Zenon
      <4>2. CASE i = a + 1
        <5>1. w + i = p + 1
          BY ONLY <3>3, <3>4, <4>2, <1>k
        <5>2. x[w + i] = v
          BY <3>5, <5>1, Zenon
        <5> QED BY <3>7, <4>2, <5>2
      <4>3. i \in 1 .. a \/ i = a + 1
        BY <1>k
      <4> QED BY <4>1, <4>2, <4>3, Zenon
    <3>9. dat'[s].cli = "open" /\ dat'[s].toSrv = z
      <4>1. Session(k) /\ ProcWired(c) /\ None \notin Sock
        BY <1>a, DataTypes DEF DataInv, Calmly, Wired
      <4>2. dat[s].cli = "open"
        BY <2>2, <4>1 DEF ProcWired, InUse
      <4> QED BY <1>c, <3>3, <3>5, <3>6, <4>2, Zenon
    <3>10. a + 1 \in Nat /\ w + (a + 1) <= m /\ p + 1 = w + (a + 1)
      BY ONLY <3>3, <3>4, <1>k
    <3> QED BY <1>f, <3>3, <3>7, <3>8, <3>9, <3>10, Zenon
  <2> QED BY <2>1, <2>2
<1>5. CASE q = c /\ (GetEnds(c) \/ PutEnds(c))
  <2>1. CASE proc[c].data # s
    <3>1. ~ Holds(c, s)
      <4>1. proc[c].pc \in {"get", "put"} /\ HostOf[c] \in Host
        BY <1>5, DataTypes DEF GetEnds, PutEnds, DataInv
      <4> QED BY <2>1, <4>1, <1>b DEF Holds, DataInv, Calmly, Waiting
    <3>2. dat'[s] = dat[s]
      BY <1>5, <1>b, <3>1, ClientDoes DEF ClientTouches, Alive
    <3>3. proc'[c].data = None /\ None \notin Sock
      BY <1>5, DataTypes DEF DataInv, GetEnds, PutEnds, CloseTransfer, ProcState
    <3> QED BY <1>c, <1>e, <1>g, <1>f, <2>1, <3>2, <3>3, Zenon
  <2>2. CASE proc[c].data = s
    <3>1. PutEnds(c) /\ x = local[c][proc[c].cmd.arg]
      BY <1>3, <1>5, <1>a, <2>2 DEF GetEnds
    <3>2. /\ proc[c].pos >= Len(x) /\ dat'[s].toSrv = y /\ dat'[s].cli = "closed"
          /\ proc'[c].data = None
      BY <1>b, <1>c, <2>2, <3>1, LastPut
    <3>3. w + a = m
      <4>1. proc[c].pos = w + a /\ proc[c].pos >= m
        BY <1>e, <1>g, <2>2, <3>2, Zenon
      <4> QED BY <1>g, <4>1
    <3>4. proc'[c].data # s /\ dat'[s].cli # "open"
      BY <3>2, DataTypes DEF DataInv
    <3> QED BY <1>c, <1>e, <1>f, <1>g, <3>2, <3>3, <3>4, Zenon
  <2> QED BY <2>1, <2>2
<1> QED BY <1>1, <1>2, <1>4, <1>5

\* Nobody moves in the file of k.
LEMMA WrittenFrame ==
    ASSUME NEW k \in Conn, NEW x, Written(k, x), thr'[k].pos = thr[k].pos,
           thr'[k].file = thr[k].file, Opened(k)' = Opened(k),
           \A j \in Conn : thr[j].pc = "store" /\ thr[j].file = thr[k].file =>
              thr'[j].pc = "store" /\ thr'[j].file = thr[j].file /\ thr'[j].pos = thr[j].pos
    PROVE  Written(k, x)'
<1>1. Len(Opened(k)') <= Len(x)
    BY DEF Written
<1>2. ASSUME NEW i \in 1 .. thr'[k].pos
      PROVE  \/ i <= Len(Opened(k)') /\ Opened(k)'[i] = x[i]
             \/ \E j \in Conn : thr'[j].pc = "store" /\ thr'[j].file = thr'[k].file
                                /\ thr'[j].pos < i
  <2>1. \/ i <= Len(Opened(k)) /\ Opened(k)[i] = x[i]
        \/ \E j \in Conn : thr[j].pc = "store" /\ thr[j].file = thr[k].file /\ thr[j].pos < i
    BY DEF Written
  <2>2. ASSUME NEW j \in Conn, thr[j].pc = "store", thr[j].file = thr[k].file, thr[j].pos < i
        PROVE  thr'[j].pc = "store" /\ thr'[j].file = thr'[k].file /\ thr'[j].pos < i
    BY <2>2
  <2> QED BY <2>1, <2>2
<1> QED BY <1>1, <1>2 DEF Written

\* If the thread of k is undisturbed after a step that leaves its command, it was before.
LEMMA UndisturbedBefore ==
    ASSUME DataInv, Typed, [Next]_vars, NEW k \in Conn, Undisturbed(k)',
           thr[k].pc \in {"create", "store"}, thr'[k].cmd = thr[k].cmd
    PROVE  Undisturbed(k) /\ Mine(k)' = Mine(k) /\ ctl'[k].by = ctl[k].by
<1>1. ctl[k].by \in Client
    BY StoringHas
<1>2. ctl'[k].by = ctl[k].by
    BY <1>1, UsersStay
<1>3. PICK h : h = HostOf[ctl[k].by]
    OBVIOUS
<1>4. Calm(h)'
    BY <1>2, <1>3 DEF Undisturbed, Calm, KilledOn, PeerHost
<1>5. Calm(h)
    BY <1>4, CalmStep
<1>6. Sole(ctl[k].by, thr[k].cmd.arg)
    BY <1>2 DEF Undisturbed, Sole
<1>7. Mine(k)' = Mine(k)
    BY <1>2 DEF Mine
<1> QED BY <1>1, <1>2, <1>3, <1>5, <1>6, <1>7 DEF Undisturbed, PeerHost

LEMMA UploadingClient ==
    ASSUME DataInv, Typed, \A c \in Client : LocalKept(c),
           NEW q \in Client, ClientStep(q) \/ UserStep(q), NEW k \in Conn, Uploading(k)
    PROVE  Uploading(k)'
<1> SUFFICES ASSUME Undisturbed(k)', NEW x, x = Mine(k)'
             PROVE  Arriving(k, x)' /\ (thr'[k].pc = "store" => Written(k, x)')
    BY DEF Uploading
<1>1. ClientTouches(q) /\ [Next]_vars
    BY ClientDoes DEF Next
<1>2. thr'[k] = thr[k] /\ thr[k].pc \in {"create", "store"}
    BY <1>1 DEF ClientTouches, Undisturbed
<1>3. Undisturbed(k) /\ x = Mine(k) /\ ctl'[k].by = ctl[k].by
    BY <1>1, <1>2, UndisturbedBefore
<1>4. Arriving(k, x) /\ (thr[k].pc = "store" => Written(k, x))
    BY <1>3 DEF Uploading
<1>5. PICK n \in Name : n = thr[k].cmd.arg
    BY <1>2, StoringHas
<1>6. x = local[ctl[k].by][n]
    BY <1>3, <1>5 DEF Undisturbed, LocalKept, Sole, Mine
<1>7. Arriving(k, x)'
    BY <1>2, <1>3, <1>4, <1>5, <1>6, ArrivingClient DEF Undisturbed
<1>8. ASSUME thr[k].pc = "store" PROVE Written(k, x)'
  <2>1. Opened(k)' = Opened(k)
    BY <1>1, <1>2 DEF ClientTouches, Opened
  <2>2. ASSUME NEW j \in Conn, thr[j].pc = "store" PROVE thr'[j] = thr[j]
    <3>1. ctl[j].by \in Client /\ None \notin Client
      BY <2>2, StoringHas, DataTypes DEF DataInv
    <3> QED BY <1>1, <3>1 DEF ClientTouches
  <2> QED BY <1>2, <1>4, <1>8, <2>1, <2>2, WrittenFrame
<1> QED BY <1>2, <1>7, <1>8

\* What a thread that stores a file may do.
LEMMA StoringSteps ==
    ASSUME NEW k \in Conn, ThreadStep(k), thr[k].pc = "store"
    PROVE  RecvBlock(k) \/ RecvEnds(k) \/ RecvBroken(k)
BY Zenon DEF ThreadStep, AcceptCtl, NoThreadForIt, Welcome, RecvFails, ReplyFails, Received,
       Ls, Pwd, Cd, CdText, CdFails, Down, DownRefused, Up, UpRefused, Quit, ConnectData, ConnectFails,
       SendList, SendListDenied, SendBlock, SendEnds, SendFails, CreateFile, CreateFails,
       CreateAborts

\* A block of x, written at its place.
LEMMA WriteFits ==
    ASSUME NEW f \in Content, NEW x \in Content, Len(f) <= Len(x),
           NEW p \in Nat, p + 1 <= Len(x), NEW b \in Item, b = x[p + 1],
           NEW g, g = WriteAt(f, p, b)
    PROVE  /\ Len(g) <= Len(x) /\ p + 1 <= Len(g) /\ g[p + 1] = x[p + 1]
           /\ \A i \in Nat : 0 < i /\ i <= Len(f) /\ f[i] = x[i] =>
                i <= Len(g) /\ g[i] = x[i]
<1>1. PICK m \in Nat, n \in Nat : m = Len(f) /\ n = Len(x)
    BY DEF Content
<1>2. /\ Len(g) = IF p + 1 > m THEN p + 1 ELSE m
      /\ g[p + 1] = b
      /\ \A i \in 1 .. m : i # p + 1 => g[i] = f[i]
    BY <1>1, WriteIs, Zenon
<1>3. m <= n /\ p + 1 <= n
    BY <1>1
<1>4. Len(g) <= n /\ p + 1 <= Len(g) /\ m <= Len(g)
    BY <1>2, <1>3
<1>5. ASSUME NEW i \in Nat, 0 < i, i <= m, f[i] = x[i]
      PROVE  i <= Len(g) /\ g[i] = x[i]
  <2>1. i \in 1 .. m
    BY <1>5
  <2>2. i <= Len(g)
    BY <1>2, <1>5
  <2>3. CASE i = p + 1
    BY <1>2, <2>2, <2>3
  <2>4. CASE i # p + 1
    BY <1>2, <1>5, <2>1, <2>2, <2>4
  <2> QED BY <2>3, <2>4
<1> QED BY <1>1, <1>2, <1>4, <1>5

\* The thread of j, which is that of k or another one with the same file, stores a block.
LEMMA WrittenBlock ==
    ASSUME DataInv, Typed, NEW k \in Conn, NEW j \in Conn, RecvBlock(j),
           thr[k].pc = "store", thr[j].file = thr[k].file, NEW x,
           Written(k, x), Arriving(j, x)
    PROVE  Written(k, x)'
<1>a. thr[j].pc = "store" /\ \A q \in Conn : q # j => thr'[q] = thr[q]
    BY DEF RecvBlock
<1>b. /\ thr'[j].pc = "store" /\ thr'[j].file = thr[j].file /\ thr'[j].pos = thr[j].pos + 1
      /\ dat[thr[j].data].toSrv # <<>>
      /\ Opened(j)' = WriteAt(Opened(j), thr[j].pos, Head(dat[thr[j].data].toSrv))
    BY BlockStored
<1>c. Opened(j) = Opened(k) /\ Opened(j)' = Opened(k)'
    BY <1>a, <1>b DEF Opened
<1>d. PICK f \in Content, p \in Nat, r \in Nat :
        f = Opened(k) /\ p = thr[j].pos /\ r = thr[k].pos
    BY <1>a, <1>c, StoringHas
<1>e. PICK y \in Content : y = dat[thr[j].data].toSrv /\ y # <<>>
    BY <1>a, <1>b, StoringHas DEF DatState, Content
<1>f. PICK b \in Item : b = Head(y) /\ b = y[1]
    BY <1>e DEF Content
<1>g. PICK g : g = WriteAt(f, p, b) /\ g = Opened(k)'
    BY <1>b, <1>c, <1>d, <1>e, <1>f
<1>h. x \in Content /\ p + 1 <= Len(x) /\ b = x[p + 1]
  <2>1. PICK a \in Nat, m \in Nat : a = Len(y) /\ m = Len(x) /\ x \in Content /\ 0 < a
    BY <1>e DEF Arriving, Content
  <2>2. p + a <= m /\ \A i \in 1 .. a : y[i] = x[p + i]
    BY <1>a, <1>d, <1>e, <2>1 DEF Arriving, Stored
  <2>3. 1 \in 1 .. a
    BY <2>1
  <2>4. y[1] = x[p + 1]
    BY <2>2, <2>3
  <2> QED BY <1>f, <2>1, <2>2, <2>4
<1>i. Len(f) <= Len(x)
    BY <1>d DEF Written
<1>1. /\ Len(g) <= Len(x) /\ p + 1 <= Len(g) /\ g[p + 1] = x[p + 1]
      /\ \A i \in Nat : 0 < i /\ i <= Len(f) /\ f[i] = x[i] => i <= Len(g) /\ g[i] = x[i]
  <2>1. /\ f \in Content /\ x \in Content /\ Len(f) <= Len(x) /\ p \in Nat
        /\ p + 1 <= Len(x) /\ b \in Item /\ b = x[p + 1] /\ g = WriteAt(f, p, b)
    BY <1>g, <1>h, <1>i
  <2>2. Len(g) <= Len(x) /\ p + 1 <= Len(g) /\ g[p + 1] = x[p + 1]
    BY ONLY <2>1, WriteFits
  <2>3. \A i \in Nat : 0 < i /\ i <= Len(f) /\ f[i] = x[i] => i <= Len(g) /\ g[i] = x[i]
    BY ONLY <2>1, WriteFits
  <2> QED BY <2>2, <2>3
<1>2. ASSUME NEW i \in 1 .. thr'[k].pos
      PROVE  \/ i <= Len(g) /\ g[i] = x[i]
             \/ \E q \in Conn : thr'[q].pc = "store" /\ thr'[q].file = thr'[k].file
                                /\ thr'[q].pos < i
  <2>1. CASE i = p + 1
    BY <1>1, <2>1
  <2>2. CASE i # p + 1
    <3>0. thr'[k].pos = r \/ (p = r /\ thr'[k].pos = r + 1)
      BY <1>a, <1>b, <1>d
    <3>1. i \in Nat /\ 0 < i /\ i \in 1 .. r
      BY <2>2, <3>0
    <3>2. thr'[k].file = thr[k].file
      BY <1>a, <1>b
    <3>3. CASE i <= Len(f) /\ f[i] = x[i]
      BY <1>1, <3>1, <3>3
    <3>4. ASSUME NEW q \in Conn, thr[q].pc = "store", thr[q].file = thr[k].file, thr[q].pos < i
          PROVE  thr'[q].pc = "store" /\ thr'[q].file = thr'[k].file /\ thr'[q].pos < i
      <4>1. CASE q # j
        BY <1>a, <3>2, <3>4, <4>1
      <4>2. CASE q = j
        <5>1. p + 1 < i
          BY <1>d, <2>2, <3>1, <3>4, <4>2
        <5> QED BY <1>b, <1>d, <3>2, <4>2, <5>1
      <4> QED BY <4>1, <4>2
    <3>5. \/ i <= Len(f) /\ f[i] = x[i]
          \/ \E q \in Conn : thr[q].pc = "store" /\ thr[q].file = thr[k].file /\ thr[q].pos < i
      BY <1>d, <3>1 DEF Written
    <3> QED BY <3>3, <3>4, <3>5
  <2> QED BY <2>1, <2>2
<1> QED BY <1>1, <1>2, <1>g DEF Written

\* Nothing moves on the connection of k.
LEMMA ArrivingFrame ==
    ASSUME NEW k \in Conn, NEW x, Arriving(k, x), Stored(k)' = Stored(k),
           thr'[k].data = thr[k].data, ctl'[k].by = ctl[k].by, proc' = proc,
           dat'[thr[k].data].toSrv = dat[thr[k].data].toSrv,
           dat'[thr[k].data].cli = dat[thr[k].data].cli
    PROVE  Arriving(k, x)'
<1>1. PICK s, y, w, c : /\ s = thr[k].data /\ y = dat[s].toSrv /\ w = Stored(k)
                        /\ c = ctl[k].by
    OBVIOUS
<1>2. /\ x \in Content /\ w + Len(y) <= Len(x)
      /\ \A i \in 1 .. Len(y) : y[i] = x[w + i]
      /\ proc[c].data = s => proc[c].pos = w + Len(y)
      /\ dat[s].cli = "open" /\ proc[c].data # s => y = <<>> /\ w = 0
      /\ dat[s].cli = "closed" => w + Len(y) = Len(x)
    BY <1>1 DEF Arriving
<1>3. /\ s = thr'[k].data /\ y = dat'[s].toSrv /\ w = Stored(k)' /\ c = ctl'[k].by
      /\ proc'[c] = proc[c] /\ dat'[s].cli = dat[s].cli
    BY <1>1
<1> QED BY ONLY <1>2, <1>3 DEF Arriving

\* The thread takes a block off its connection.
LEMMA ArrivingBlock ==
    ASSUME DataInv, Typed, NEW k \in Conn, RecvBlock(k), NEW x, Arriving(k, x)
    PROVE  Arriving(k, x)'
<1>a. /\ UNCHANGED <<proc, ctl>> /\ thr[k].pc = "store" /\ thr'[k].pc = "store"
      /\ thr'[k].data = thr[k].data /\ thr'[k].pos = thr[k].pos + 1
      /\ dat[thr[k].data].toSrv # <<>>
      /\ dat'[thr[k].data].toSrv = Tail(dat[thr[k].data].toSrv)
      /\ dat'[thr[k].data].cli = dat[thr[k].data].cli
    BY BlockStored
<1>1. PICK s \in Sock, y \in Content, w \in Nat, c \in Client :
        /\ s = thr[k].data /\ y = dat[s].toSrv /\ w = thr[k].pos /\ c = ctl[k].by
        /\ y # <<>>
  <2>1. PICK s \in Sock, w \in Nat, c \in Client :
          s = thr[k].data /\ w = thr[k].pos /\ c = ctl[k].by
    BY <1>a, StoringHas
  <2>2. dat[s].toSrv \in Content
    BY <1>a, <2>1, StoringHas DEF DatState, Content
  <2> QED BY <1>a, <2>1, <2>2
<1>2. PICK a \in Nat, m \in Nat : a = Len(y) /\ m = Len(x) /\ 0 < a
    BY <1>1 DEF Arriving, Content
<1>3. /\ x \in Content /\ w + a <= m
      /\ \A i \in 1 .. a : y[i] = x[w + i]
      /\ proc[c].data = s => proc[c].pos = w + a
      /\ dat[s].cli = "open" /\ proc[c].data # s => y = <<>> /\ w = 0
      /\ dat[s].cli = "closed" => w + a = m
  <2>1. /\ x \in Content /\ w + Len(y) <= Len(x)
        /\ \A i \in 1 .. Len(y) : y[i] = x[w + i]
        /\ proc[c].data = s => proc[c].pos = w + Len(y)
        /\ dat[s].cli = "open" /\ proc[c].data # s => y = <<>> /\ w = 0
        /\ dat[s].cli = "closed" => w + Len(y) = Len(x)
    BY <1>1, <1>a DEF Arriving, Stored
  <2> QED BY <1>2, <2>1
<1>4. PICK z \in Content : z = Tail(y) /\ Len(z) = a - 1 /\ \A i \in 1 .. a - 1 : z[i] = y[i + 1]
  <2>1. y \in Seq(Item) /\ y # <<>> /\ a = Len(y) /\ a \in Nat
    BY <1>1, <1>2 DEF Content
  <2>2. Tail(y) \in Seq(Item) /\ Len(Tail(y)) = a - 1
    BY ONLY <2>1
  <2>3. \A i \in 1 .. a - 1 : Tail(y)[i] = y[i + 1]
    BY ONLY <2>1
  <2> QED BY <2>2, <2>3 DEF Content
<1>5. PICK b \in Nat : b = a - 1 /\ b = Len(z) /\ a = b + 1
    BY <1>2, <1>4
<1>6. ASSUME NEW i \in 1 .. b PROVE z[i] = x[(w + 1) + i]
  <2>1. i + 1 \in 1 .. a /\ w + (i + 1) = (w + 1) + i /\ z[i] = y[i + 1]
    BY <1>4, <1>5
  <2>2. y[i + 1] = x[w + (i + 1)]
    BY <1>3, <2>1
  <2> QED BY <2>1, <2>2
<1>7. (w + 1) + b = w + a
    BY <1>5
<1>8. /\ x \in Content /\ (w + 1) + Len(z) <= Len(x)
      /\ \A i \in 1 .. Len(z) : z[i] = x[(w + 1) + i]
      /\ proc[c].data = s => proc[c].pos = (w + 1) + Len(z)
      /\ ~ (dat[s].cli = "open" /\ proc[c].data # s)
      /\ dat[s].cli = "closed" => (w + 1) + Len(z) = Len(x)
    BY <1>1, <1>2, <1>3, <1>5, <1>6, <1>7
<1>9. /\ s = thr'[k].data /\ z = dat'[s].toSrv /\ w + 1 = Stored(k)' /\ c = ctl'[k].by
      /\ proc'[c] = proc[c] /\ dat'[s].cli = dat[s].cli
    BY <1>a, <1>1, <1>4 DEF Stored
<1> QED BY ONLY <1>8, <1>9 DEF Arriving

\* The data connection of an upload is opened; its client is going to accept it.
LEMMA ArrivingOpens ==
    ASSUME DataInv, Typed, NEW k \in Conn, ConnectData(k), thr[k].cmd.id = "UP",
           NEW c \in Client, c = ctl[k].by, Calm(HostOf[c]),
           NEW x, x = local[c][thr[k].cmd.arg]
    PROVE  Arriving(k, x)' /\ thr'[k].pc = "create"
<1>1. PICK s \in Sock :
        /\ dat[s] = NoDat /\ thr'[k].data = s
        /\ dat'[s].cli = "open" /\ dat'[s].toSrv = <<>>
  <2>1. \E s \in Sock :
          /\ dat[s] = NoDat /\ thr'[k].data = s
          /\ pend' = [pend EXCEPT ![PeerHost(k)] = <<s>>]
          /\ dat'[s].by = k /\ dat'[s].cli = "open" /\ dat'[s].srv = "open"
          /\ dat'[s].toCli = <<>> /\ dat'[s].toSrv = <<>>
          /\ \A t \in Sock : t # s => dat'[t] = dat[t]
    BY DataOpened
  <2> QED BY <2>1
<1>2. /\ UNCHANGED <<proc, ctl>> /\ thr[k].pc = "connect" /\ thr'[k].pc = "create"
    BY DataOpened
<1>3. Session(k) /\ PeerHost(k) = HostOf[c]
    BY DEF DataInv, Calmly, PeerHost
<1>4. proc[c].cmd = thr[k].cmd /\ proc[c].pc \in {"reply", "accept"}
    BY <1>2, <1>3 DEF Session, Together, Accepting
<1>5. x \in Content
  <2>1. proc[c].cmd \in Command /\ ClientShape(c)
    BY <1>4 DEF DataInv, TypeInv, Shape, ClientShape
  <2> QED BY <1>4, <2>1, CommandTypes DEF ClientShape
<1>6. proc[c].data # s
    BY <1>4, DataTypes DEF DataInv, Wired, ProcWired
<1>7. Stored(k)' = 0
    BY <1>2 DEF Stored
<1>8. PICK m \in Nat : m = Len(x)
    BY <1>5 DEF Content
<1>9. 0 + Len(<<>>) <= Len(x) /\ Len(<<>>) = 0
    BY <1>8
<1>10. /\ s = thr'[k].data /\ dat'[s].toSrv = <<>> /\ Stored(k)' = 0 /\ c = ctl'[k].by
       /\ proc'[c].data # s /\ dat'[s].cli = "open"
    BY <1>1, <1>2, <1>6, <1>7
<1>11. Arriving(k, x)'
    BY ONLY <1>5, <1>9, <1>10 DEF Arriving
<1> QED BY <1>2, <1>11

\* How a thread comes to store, or goes on.
LEMMA UploadSteps ==
    ASSUME DataInv, NEW k \in Conn, ThreadStep(k), thr'[k].pc \in {"create", "store"}
    PROVE  ConnectData(k) \/ CreateFile(k) \/ RecvBlock(k)
<1>1. ~ CreateAborts(k)
    BY AllAborted
<1>2. ThreadTouches(k)
    BY <1>1, ThreadDoes
<1>3. ~ SendBlock(k)
    BY BlockSent
<1> QED BY <1>2, <1>3 DEF ThreadTouches, Idles, Starts

\* Two threads that store one file store it for one user, if nobody else may.
LEMMA SameUpload ==
    ASSUME DataInv, Typed, NEW k \in Conn, Undisturbed(k), NEW j \in Conn,
           thr[k].pc = "store", thr[j].pc = "store", thr[j].file = thr[k].file
    PROVE  Undisturbed(j) /\ Mine(j) = Mine(k)
<1>1. /\ thr[j].cmd.arg = thr[k].cmd.arg /\ ctl[j].by \in Client
      /\ MayUpload(ctl[j].by, thr[k].cmd.arg)
  <2>1. thr[k].file.name = thr[k].cmd.arg
    BY StoringHas
  <2>2. thr[j].file.name = thr[j].cmd.arg /\ ctl[j].by \in Client
    BY StoringHas
  <2>3. MayUpload(ctl[j].by, thr[j].cmd.arg)
    BY StoringHas
  <2> QED BY <2>1, <2>2, <2>3
<1>2. ctl[j].by = ctl[k].by
    BY <1>1 DEF Undisturbed, Sole
<1> QED BY <1>1, <1>2 DEF Undisturbed, Mine, PeerHost

\* Another thread opens the same file, and has all of it before it.
LEMMA WrittenCreate ==
    ASSUME DataInv, NEW k \in Conn, NEW j \in Conn, j # k, CreateFile(j),
           thr[k].file = [dir |-> cwd, name |-> thr[j].cmd.arg], NEW x \in Content
    PROVE  Written(k, x)'
<1>1. /\ thr'[k] = thr[k] /\ thr'[j].pc = "store" /\ thr'[j].pos = 0
      /\ thr'[j].file = thr[k].file /\ fs'[cwd][thr[j].cmd.arg] = <<>>
  <2>1. thr'[k] = thr[k]
    BY DataTypes DEF DataInv, CreateFile
  <2> QED BY <2>1, FileCreated
<1>2. Opened(k)' = <<>>
    BY <1>1 DEF Opened
<1>3. PICK m \in Nat : m = Len(x)
    BY DEF Content
<1>4. Len(Opened(k)') <= Len(x)
    BY <1>2, <1>3
<1>5. ASSUME NEW i \in 1 .. thr'[k].pos
      PROVE  thr'[j].pc = "store" /\ thr'[j].file = thr'[k].file /\ thr'[j].pos < i
  <2>1. i \in Nat /\ 0 < i
    BY <1>5
  <2> QED BY <1>1, <2>1
<1> QED BY <1>4, <1>5 DEF Written

\* Another thread is done with the same file: it wrote the whole of it.
LEMMA WrittenEnds ==
    ASSUME DataInv, Typed, NEW k \in Conn, NEW j \in Conn, j # k,
           RecvEnds(j) \/ RecvBroken(j), thr[k].pc = "store", thr[j].file = thr[k].file,
           ctl[j].by \in Client, Calm(PeerHost(j)),
           NEW x, Written(k, x), Arriving(k, x), Arriving(j, x)
    PROVE  Written(k, x)'
<1>1. /\ fs' = fs /\ thr[j].pc = "store" /\ dat[thr[j].data].cli # "open"
      /\ \A q \in Conn : q # j => thr'[q] = thr[q]
    BY DataTypes DEF DataInv, RecvEnds, RecvBroken, NextCommand, EndThread
<1>2. dat[thr[j].data].cli = "closed"
    BY <1>1 DEF DataInv, Calmly, Session, Joined
<1>3. dat[thr[j].data].toSrv = <<>>
    BY <1>2 DEF RecvEnds, RecvBroken
<1>4. PICK p \in Nat, r \in Nat, m \in Nat :
        p = thr[j].pos /\ r = thr[k].pos /\ m = Len(x)
  <2>1. thr[j].pos \in Nat /\ thr[k].pos \in Nat
    BY <1>1, StoringHas
  <2>2. x \in Seq(Item)
    BY DEF Arriving, Content
  <2> QED BY <2>1, <2>2
<1>5. p = m
  <2>1. Stored(j) + Len(dat[thr[j].data].toSrv) = Len(x)
    BY <1>2 DEF Arriving
  <2>2. Stored(j) = p /\ Len(dat[thr[j].data].toSrv) = 0
    BY <1>1, <1>3, <1>4 DEF Stored
  <2> QED BY <1>4, <2>1, <2>2
<1>6. r <= m
  <2>1. PICK a \in Nat : a = Len(dat[thr[k].data].toSrv)
    <3>1. dat[thr[k].data] \in DatState
      BY StoringHas
    <3>2. dat[thr[k].data].toSrv \in Seq(Item)
      BY <3>1 DEF DatState
    <3> QED BY <3>2
  <2>2. Stored(k) + Len(dat[thr[k].data].toSrv) <= Len(x)
    BY DEF Arriving
  <2>3. r + a <= m
    BY <1>4, <2>1, <2>2 DEF Stored
  <2> QED BY <1>4, <2>1, <2>3
<1>7. thr'[k] = thr[k] /\ Opened(k)' = Opened(k)
    BY <1>1 DEF Opened
<1>8. ASSUME NEW i \in 1 .. r
      PROVE  \/ i <= Len(Opened(k)) /\ Opened(k)[i] = x[i]
             \/ \E q \in Conn : thr'[q].pc = "store" /\ thr'[q].file = thr[k].file
                                /\ thr'[q].pos < i
  <2>1. \/ i <= Len(Opened(k)) /\ Opened(k)[i] = x[i]
        \/ \E q \in Conn : thr[q].pc = "store" /\ thr[q].file = thr[k].file /\ thr[q].pos < i
    BY <1>4 DEF Written
  <2>2. ASSUME NEW q \in Conn, thr[q].pc = "store", thr[q].file = thr[k].file, thr[q].pos < i
        PROVE  thr'[q] = thr[q]
    <3>1. CASE q = j
      <4>1. p < i /\ i <= r
        BY <1>4, <2>2, <3>1
      <4> QED BY <1>5, <1>6, <4>1
    <3> QED BY <1>1, <3>1
  <2> QED BY <2>1, <2>2
<1>9. Len(Opened(k)) <= Len(x)
    BY DEF Written
<1> QED BY <1>4, <1>7, <1>8, <1>9 DEF Written

LEMMA UploadingThread ==
    ASSUME DataInv, Typed, \A c \in Client : LocalKept(c), \A q \in Conn : Uploading(q),
           NEW j \in Conn, ThreadStep(j), NEW k \in Conn
    PROVE  Uploading(k)'
<1> SUFFICES ASSUME Undisturbed(k)', NEW x, x = Mine(k)'
             PROVE  Arriving(k, x)' /\ (thr'[k].pc = "store" => Written(k, x)')
    BY DEF Uploading
<1>a. [Next]_vars /\ proc' = proc /\ local' = local
    BY ThreadLeavesClients DEF Next, clientVars
<1>b. thr'[k].pc \in {"create", "store"}
    BY DEF Undisturbed
<1>c. ~ CreateAborts(j)
    BY <1>b, AllAborted
<1>d. ThreadTouches(j)
    BY <1>c, ThreadDoes
<1>e. ctl'[k].by = ctl[k].by
    BY <1>d DEF ThreadTouches
\* The thread itself.
<1>1. CASE j = k
  <2>1. CASE ConnectData(k)
    <3>1. PICK c \in Client, h \in Host : c = ctl[k].by /\ h = HostOf[c]
      BY <1>e, DataTypes DEF DataInv, Undisturbed
    <3>2. thr'[k].cmd = thr[k].cmd /\ thr[k].cmd.id = "UP"
      <4>1. /\ thr'[k].cmd = thr[k].cmd
            /\ thr'[k].pc = CASE thr[k].cmd.id = "LS"   -> "list"
                              [] thr[k].cmd.id = "DOWN" -> "send"
                              [] thr[k].cmd.id = "UP"   -> "create"
        BY <2>1, <3>1, DataOpened
      <4>2. thr[k].cmd.id \in Transfer
        BY <2>1 DEF ConnectData, DataInv, TypeInv, Shape, ThreadShape
      <4> QED BY <1>b, <4>1, <4>2 DEF Transfer
    <3>3. Calm(h)' /\ Sole(c, thr[k].cmd.arg)
      BY <1>e, <3>1, <3>2 DEF Undisturbed, Calm, KilledOn, PeerHost, Sole
    <3>4. Calm(h)
      BY <1>a, <3>3, CalmStep
    <3>5. thr[k].cmd.arg \in Name
      BY <2>1, <3>2, UploadListed DEF ConnectData
    <3>6. x = local[c][thr[k].cmd.arg]
      BY <1>e, <3>1, <3>2, <3>3, <3>5 DEF Mine, LocalKept, Sole
    <3> QED BY <2>1, <3>1, <3>2, <3>4, <3>6, ArrivingOpens
  <2>2. CASE CreateFile(k)
    <3>1. /\ UNCHANGED <<proc, ctl, dat>> /\ thr[k].pc = "create" /\ thr'[k].pc = "store"
          /\ thr'[k].cmd = thr[k].cmd /\ thr'[k].data = thr[k].data /\ thr'[k].pos = 0
          /\ thr'[k].file = [dir |-> cwd, name |-> thr[k].cmd.arg]
          /\ fs'[cwd][thr[k].cmd.arg] = <<>>
      BY <2>2, FileCreated
    <3>2. Undisturbed(k) /\ x = Mine(k)
      BY <1>a, <3>1, UndisturbedBefore
    <3>3. Arriving(k, x) /\ x \in Content
      BY <3>2 DEF Uploading, Arriving
    <3>4. Stored(k)' = Stored(k)
      BY <3>1 DEF Stored
    <3>5. Arriving(k, x)'
      BY <3>1, <3>3, <3>4, ArrivingFrame
    <3>6. Opened(k)' = <<>> /\ \A i \in 1 .. thr'[k].pos : FALSE
      BY <3>1 DEF Opened
    <3>7. Len(<<>>) <= Len(x)
      BY <3>3 DEF Content
    <3>8. Written(k, x)'
      BY <3>6, <3>7 DEF Written
    <3> QED BY <3>5, <3>8
  <2>3. CASE RecvBlock(k)
    <3>1. thr[k].pc = "store" /\ thr'[k].cmd = thr[k].cmd
      BY <2>3, BlockStored
    <3>2. Undisturbed(k) /\ x = Mine(k)
      BY <1>a, <3>1, UndisturbedBefore
    <3>3. Arriving(k, x) /\ Written(k, x)
      BY <3>1, <3>2 DEF Uploading
    <3>4. Arriving(k, x)'
      BY <2>3, <3>3, ArrivingBlock
    <3>5. Written(k, x)'
      BY <2>3, <3>1, <3>3, WrittenBlock
    <3> QED BY <3>4, <3>5
  <2> QED BY <1>1, <1>b, <2>1, <2>2, <2>3, UploadSteps
\* Another thread.
<1>2. CASE j # k
  <2>1. thr'[k] = thr[k]
    BY <1>2, <1>d DEF ThreadTouches
  <2>2. Undisturbed(k) /\ x = Mine(k) /\ thr[k].pc \in {"create", "store"}
    BY <1>a, <1>b, <2>1, UndisturbedBefore
  <2>3. Arriving(k, x) /\ (thr[k].pc = "store" => Written(k, x)) /\ x \in Content
    BY <2>2 DEF Uploading, Arriving
  <2>4. dat'[thr[k].data] = dat[thr[k].data]
    <3>1. PICK s \in Sock : s = thr[k].data /\ dat[s].by = k /\ dat[s].srv = "open"
      <4>1. thr[k].data \in Sock
        BY <2>2, StoringHas
      <4>2. dat[thr[k].data].by = k /\ dat[thr[k].data].srv = "open"
        BY <2>2 DEF DataInv, Wired, ThrWired, Moving
      <4> QED BY <4>1, <4>2
    <3>2. thr[j].pc \in Moving => thr[j].data # s
      BY <1>2, <3>1 DEF DataInv, Wired, ThrWired
    <3> QED BY <1>d, <3>1, <3>2 DEF ThreadTouches, Alive
  <2>5. Stored(k)' = Stored(k)
    BY <2>1 DEF Stored
  <2>6. Arriving(k, x)'
    BY <1>a, <1>e, <2>1, <2>3, <2>4, <2>5, ArrivingFrame
  <2>7. ASSUME thr[k].pc = "store" PROVE Written(k, x)'
    <3>a. Written(k, x)
      BY <2>3, <2>7
    <3>b. PICK d \in Dir, n \in Name : thr[k].file = [dir |-> d, name |-> n]
      BY <2>7, StoringHas
    \* A thread that has the same file open is about to write it.
    <3>c. ASSUME thr[j].pc = "store", thr[j].file = thr[k].file
          PROVE  Arriving(j, x) /\ ctl[j].by \in Client /\ Calm(PeerHost(j))
      <4>1. Undisturbed(j) /\ Mine(j) = x
        BY <2>2, <2>7, <3>c, SameUpload
      <4> QED BY <4>1 DEF Uploading, Undisturbed
    <3>1. CASE CreateFile(j) /\ cwd = d /\ thr[j].cmd.arg = n
      BY <1>2, <2>3, <3>1, <3>b, WrittenCreate
    <3>2. CASE thr[j].pc = "store" /\ thr[j].file = thr[k].file /\ RecvBlock(j)
      BY <2>7, <3>2, <3>a, <3>c, WrittenBlock
    <3>3. CASE thr[j].pc = "store" /\ thr[j].file = thr[k].file /\ ~ RecvBlock(j)
      BY <1>2, <2>3, <2>7, <3>3, <3>a, <3>c, StoringSteps, WrittenEnds
    <3>4. CASE /\ ~ (CreateFile(j) /\ cwd = d /\ thr[j].cmd.arg = n)
               /\ ~ (thr[j].pc = "store" /\ thr[j].file = thr[k].file)
      <4>1. fs'[d][n] = fs[d][n]
        <5>1. RecvBlock(j) => thr[j].pc = "store"
          BY BlockStored
        <5> QED BY <3>4, <3>b, <5>1, FileChanges
      <4>2. Opened(k)' = Opened(k)
        BY <2>1, <3>b, <4>1 DEF Opened
      <4>3. \A q \in Conn : thr[q].pc = "store" /\ thr[q].file = thr[k].file => thr'[q] = thr[q]
        BY <1>d, <3>4 DEF ThreadTouches
      <4> QED BY <2>1, <3>a, <4>2, <4>3, WrittenFrame
    <3> QED BY <3>1, <3>2, <3>3, <3>4
  <2> QED BY <2>1, <2>6, <2>7
<1> QED BY <1>1, <1>2

LEMMA UploadingStep ==
    ASSUME DataInv, Typed, \A c \in Client : LocalKept(c), \A q \in Conn : Uploading(q),
           [Next]_vars, NEW k \in Conn
    PROVE  Uploading(k)'
<1>1. CASE UNCHANGED vars
  <2>1. (Undisturbed(k)' <=> Undisturbed(k)) /\ Mine(k)' = Mine(k)
    BY <1>1 DEF vars, Undisturbed, Calm, KilledOn, PeerHost, Mine
  <2>2. \A x : (Arriving(k, x)' <=> Arriving(k, x)) /\ (Written(k, x)' <=> Written(k, x))
    BY <1>1 DEF vars, Arriving, Stored, Written, Opened
  <2>3. thr' = thr
    BY <1>1 DEF vars
  <2> QED BY <2>1, <2>2, <2>3 DEF Uploading
<1> QED BY <1>1, UploadingClient, UploadingThread DEF Next

\* The thread that finds the end of an upload has received it.
LEMMA UploadEnds ==
    ASSUME DataInv, Typed, [Next]_vars, NEW k \in Conn,
           thr[k].pc = "store", thr'[k].pc = "recv"
    PROVE  RecvEnds(k)
<1>1. ~ UNCHANGED vars
    BY DEF vars
<1>2. ASSUME NEW q \in Client, ClientStep(q) \/ UserStep(q) PROVE FALSE
    BY <1>2, ClientDoes DEF ClientTouches
<1>3. ASSUME NEW j \in Conn, ThreadStep(j) PROVE j = k /\ ~ CreateAborts(j)
  <2>1. ~ CreateAborts(j)
    BY AllAborted
  <2> QED BY <1>3, <2>1, ThreadDoes DEF ThreadTouches
<1>4. ThreadStep(k)
    BY <1>1, <1>2, <1>3 DEF Next
<1>5. ~ RecvBlock(k)
    BY BlockStored
<1>6. ~ RecvBroken(k)
    BY DataTypes DEF DataInv, RecvBroken, EndThread, NoThread
<1> QED BY <1>4, <1>5, <1>6, StoringSteps

\* What it wrote is the file, when no other thread is about to write it again.
LEMMA UploadHere ==
    ASSUME DataInv, Typed, NEW k \in Conn, Uploading(k), RecvEnds(k), Undisturbed(k),
           dat[thr[k].data].cli = "closed",
           \A j \in Conn \ {k} : thr[j].cmd # thr[k].cmd
    PROVE  Opened(k) = Mine(k)
<1>1. thr[k].pc = "store" /\ dat[thr[k].data].toSrv = <<>>
    BY DEF RecvEnds
<1>2. PICK x : x = Mine(k) /\ Arriving(k, x) /\ Written(k, x)
    BY <1>1 DEF Uploading
<1>3. PICK f \in Content, p \in Nat : f = Opened(k) /\ p = thr[k].pos
    BY <1>1, StoringHas
<1>4. PICK m \in Nat, n \in Nat : m = Len(x) /\ n = Len(f) /\ x \in Content
  <2>1. x \in Seq(Item) /\ f \in Seq(Item)
    BY <1>2 DEF Arriving, Content
  <2> QED BY <2>1 DEF Content
<1>5. p = m
  <2>1. Stored(k) + Len(dat[thr[k].data].toSrv) = Len(x)
    BY <1>2 DEF Arriving
  <2>2. Stored(k) = p /\ Len(dat[thr[k].data].toSrv) = 0
    BY <1>1, <1>3 DEF Stored
  <2> QED BY <1>4, <2>1, <2>2
<1>6. n <= m
    BY <1>2, <1>3, <1>4 DEF Written
<1>7. ASSUME NEW i \in 1 .. m PROVE i <= n /\ f[i] = x[i]
  <2>1. \/ i <= Len(Opened(k)) /\ Opened(k)[i] = x[i]
        \/ \E j \in Conn : thr[j].pc = "store" /\ thr[j].file = thr[k].file /\ thr[j].pos < i
    BY <1>2, <1>3, <1>5 DEF Written
  <2>2. ASSUME NEW j \in Conn, thr[j].pc = "store", thr[j].file = thr[k].file, thr[j].pos < i
        PROVE  FALSE
    <3>1. j # k
      <4>1. i \in Nat /\ i <= p
        BY <1>5
      <4>2. thr[k].pos = p /\ p \in Nat
        BY <1>3
      <4> QED BY <2>2, <4>1, <4>2
    <3>2. /\ thr[k].file.name = thr[k].cmd.arg
          /\ thr[k].cmd = [id |-> "UP", arg |-> thr[k].cmd.arg]
      BY <1>1, StoringHas
    <3>3. /\ thr[j].file.name = thr[j].cmd.arg
          /\ thr[j].cmd = [id |-> "UP", arg |-> thr[j].cmd.arg]
      BY <2>2, StoringHas
    <3> QED BY <2>2, <3>1, <3>2, <3>3
  <2> QED BY <1>3, <1>4, <2>1, <2>2
<1>8. n = m
  <2>1. m > 0 => m <= n
    BY <1>7
  <2> QED BY <1>4, <1>6, <2>1
<1>9. /\ x \in Seq(Item) /\ f \in Seq(Item) /\ Len(x) = Len(f)
      /\ \A i \in 1 .. Len(f) : f[i] = x[i]
    BY <1>4, <1>7, <1>8 DEF Content
<1>10. f = x
    BY ONLY <1>9
<1> QED BY <1>2, <1>3, <1>10

StoredInv == /\ DataInv /\ Typed /\ \A c \in Client : LocalKept(c)
             /\ \A k \in Conn : Uploading(k)

LEMMA StoredInit == Init => StoredInv
<1> SUFFICES ASSUME Init PROVE StoredInv
    OBVIOUS
<1>1. DataInv /\ Typed
    BY FetchInit DEF FetchInv
<1>2. \A c \in Client : LocalKept(c)
    BY DEF Init, LocalKept
<1>3. \A k \in Conn : Uploading(k)
    BY DEF Init, Uploading, Undisturbed, NoThread
<1> QED BY <1>1, <1>2, <1>3 DEF StoredInv

LEMMA StoredStep == StoredInv /\ [Next]_vars => StoredInv'
<1> SUFFICES ASSUME StoredInv, [Next]_vars PROVE StoredInv'
    OBVIOUS
<1>1. DataInv'
    BY DataStep DEF StoredInv
<1>2. Typed'
  <2>1. CASE UNCHANGED vars
    BY <2>1 DEF vars, StoredInv, Typed, Listed, Opens
  <2> QED BY <2>1, TypedClient, TypedThread DEF StoredInv, Next
<1>3. \A c \in Client : LocalKept(c)'
    BY LocalStep DEF StoredInv
<1>4. \A k \in Conn : Uploading(k)'
    BY UploadingStep DEF StoredInv
<1> QED BY <1>1, <1>2, <1>3, <1>4 DEF StoredInv

LEMMA StoredHolds == Spec => []StoredInv
BY StoredInit, StoredStep, PTL DEF Spec

\* A client that closes its data connection itself has the whole of its file on the server
\* when RecvFile is done with it, whatever the other sessions do to the current directory,
\* as long as no client of its machine is killed, nobody else may store that name, its own
\* user does not fetch it and no other thread has that upload still to do.
THEOREM UploadsWhole == Spec => UploadWhole
<1>1. ASSUME StoredInv, [Next]_vars, NEW k \in Conn,
             thr[k].pc = "store", thr'[k].pc = "recv",
             dat[thr[k].data].cli = "closed", ~ KilledOn(PeerHost(k)),
             \A c \in Client \ {ctl[k].by} : ~ MayUpload(c, thr[k].cmd.arg),
             ~ MayDownload(ctl[k].by, thr[k].cmd.arg),
             \A j \in Conn \ {k} : thr[j].cmd # thr[k].cmd
      PROVE  Opened(k) = local[ctl[k].by][thr[k].cmd.arg]
  <2>1. DataInv /\ Typed /\ Uploading(k) /\ RecvEnds(k)
    BY <1>1, UploadEnds DEF StoredInv
  <2>2. ctl[k].by \in Client /\ thr[k].cmd.arg \in Name
    BY <1>1, <2>1, StoringHas
  <2>3. Undisturbed(k)
    BY <1>1, <2>2 DEF Undisturbed, Calm, Sole
  <2>4. Opened(k) = Mine(k)
    BY <1>1, <2>1, <2>3, UploadHere
  <2> QED BY <1>1, <2>2, <2>4 DEF StoredInv, LocalKept, Mine
<1>2. StoredInv /\ [Next]_vars =>
        [\A k \in Conn :
            /\ thr[k].pc = "store" /\ thr'[k].pc = "recv"
            /\ dat[thr[k].data].cli = "closed" /\ ~ KilledOn(PeerHost(k))
            /\ \A c \in Client \ {ctl[k].by} : ~ MayUpload(c, thr[k].cmd.arg)
            /\ ~ MayDownload(ctl[k].by, thr[k].cmd.arg)
            /\ \A j \in Conn \ {k} : thr[j].cmd # thr[k].cmd
            => Opened(k) = local[ctl[k].by][thr[k].cmd.arg]]_vars
    BY <1>1
<1> QED BY <1>2, StoredHolds, PTL DEF Spec, UploadWhole
=============================================================================
