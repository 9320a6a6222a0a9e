# Computer Networks 2019: models of the network programs

TLA+ models of the programs in `src/LabExercise1` (seven networking exercises,
each written in C or C++, Java and Python), the TLC runs that check them on
small instances and TLAPS proofs for every instance. `LabExercise2` to
`LabExercise4` hold packet captures and pictures, no programs. The repository
has no tests, and its comments are the only statement of what the code is for;
the properties here say what the code has to do to be right when several
processes, threads or messages meet.

## 1. The system and what is modelled

| Part | Source | State it keeps | Module |
|---|---|---|---|
| FTP client | `project5/cpp/client/client.cpp` | control socket, command, data port, local file | `Ftp` |
| FTP server | `project5/cpp/server/server.cpp`, `sizes.h` | a thread per connection; one current directory and one file system for all | `Ftp`, refining `Store` |
| Proxy, threads | `project7/c/proxy.c` | a thread per connection; two semaphores, one static buffer, one log stream | `Proxy` |
| Proxy, relay | `project7/c/proxy.c` (`doit`) | the two streams of one request | `Relay` |
| Rio | `project7/c/csapp.c`, `csapp.h` | a buffer per socket, and the buffer of `doit` | `Rio`, refining `Stream` |
| POP3 client | `project4/c/popFunc.cpp` | one session, one socket, no buffer | `Pop3`; mail parsing is left out |
| Base64 | `project3/cpp` (`SMTP.cpp`), `project4/c/Func.cpp` | none | `Base64` |
| SMTP client | `project3/cpp/SMTP/SMTP/SMTP.cpp` | one session, one reply buffer | `Smtp` |
| Web servers | `project2/cpp`, `project2/java`, `project2/python` | a request and a reply buffer (C++), a thread for each connection | `Web` |
| Sensor servers and clients | `project1/cpp`, `project1/python`, `project1/java` | one client at a time; a receive buffer (C++) | `Sensor` |
| SMTP client in Java | `project3/java` | position in a list of requests | not modelled |
| FTP clients on libraries | `project5/java`, `project5/python` | the library's | not modelled |
| Mail clients on libraries | `project3/python`, `project4/java`, `project4/python` | the library's | not modelled |
| Downloads | `project6` | none | not modelled |
| Java and Python proxies | `project7/Java`, `project7/Python` | one request | not modelled |

How they interact. The seven exercises do not call one another; within one,
client and server meet over TCP. The FTP server answers on a control connection
and opens every *data* connection itself, towards a port that all clients of a
machine share. The threads of the proxy share semaphores, a buffer, a stream
and the process, which any of them may end. The POP3 and SMTP clients meet
servers, and the web servers browsers, that are not in the repository (external
in the map). Each client of `project1` is modelled with its server.

What is hard in this code, and listed line by line under `hazards` in
`PROJECT.json`: the current directory that belongs to all FTP threads; a check
and its use separated by a network round trip; responses and data connections
that carry no name of their session; killed clients whose threads live on; a
semaphore that one return keeps; a static buffer and a global stream; a length
that is unsigned; a buffer refilled between two bytes of a line; answers that TCP
merges or splits; answers that come after their timeout; numbers that are
compared before they are set; a request buffer that is never cleared.

## 2. The modules

`Ftp`, `Proxy`, `Relay`, `Rio`, `Pop3`, `Web` and `Sensor` are each self-contained; `Smtp`
extends `Base64`. `Store` and `Stream` are abstract: what a store of files and a
reader of a stream may do. `Ftp` and `Rio` instantiate them under a refinement
mapping. Each `MC` module extends the module it is named for with the instances
TLC checks; `FtpProofs`, `ProxyProofs`, `RelayProofs`, `RioProofs`, `Pop3Proofs`,
`SmtpProofs`, `WebProofs` and `SensorProofs` hold the theorems.
`TypeOK` of `Smtp` names the types and is in no run's list; those of `Web` and `Sensor`
are in none either and are proved.
Operators whose comment begins with MUTANT are not part of a specification: each is a
definition with one plausible mistake, kept to show that a property notices.

### Ftp

A client (`proc`) and a thread (`thr`) each have a program counter; one action is
what the code does between two points at which another process can be noticed.

| State | Code |
|---|---|
| `proc[c]`, `local[c]` | a `client.exe`: the function it is in, its sockets, and its files |
| `port`, `pend` | who is bound to `DATA_PORT` of a machine, and the backlog of that socket |
| `ctl[k]` | control connection k: both ends, command packets and responses on their way |
| `dat[s]` | data connection s: the session whose thread opened it, both ends, both streams |
| `thr[k]` | the thread: where in `ThreadFunc`/`ProcessCmd` it is, its `FILE` (`file`, `pos`) |
| `cwd`, `fs`, `up` | the server process: current directory, files, whether it runs |

| Actions | Code |
|---|---|
| `Connect`, `ReadHello`, `Type`, `Leave` | `main`, `quit` |
| `Type`/`BindFails`, `ClosePort` | `create_data_socket` and each close of its socket |
| `WriteCmd`, `WriteFails`, `Reads`, `ReadFails` | `do_write_cmd`, `do_read_rspns` |
| `Answered`, `Granted`, `AcceptData`, `Get`, `GetEnds`, `ListFails`, `Put`, `PutEnds` | `list`, `pwd`, `cd`, `get_file`, `put_file` |
| `AcceptCtl`, `NoThreadForIt`, `Welcome`, `RecvFails`, `EndThread` | `main`, `ThreadFunc`, `RecvCmd` |
| `Ls` .. `Quit`, `ReplyFails` | the cases of `ProcessCmd` |
| `ConnectData`, `ConnectFails` | `InitDataSocket` |
| `SendList`, `SendListDenied`, `SendBlock`, `SendEnds`, `SendFails` | `SendFileList`, `SendFile` |
| `CreateFile`, `CreateFails`, `CreateAborts`, `RecvBlock`, `RecvEnds`, `RecvBroken` | `RecvFile` |

`SetCurrentDirectory` and the `GetCurrentDirectory` after it are two actions
(`Cd`, `CdText`): another thread may come between. Files are sequences of
blocks, so that a transfer can be half done and a file can be emptied under a
thread that is writing it (`WriteAt` leaves a `Hole`, as NTFS does). Two
undefined outcomes are choices: the `rspnsid` that a failing CD never sets, and
`fclose(NULL)`, which may return or end the process. A reset may lose what had
arrived; a kill (`Kill`) is the only fault. Packets arrive whole: both sides
loop until a packet of fixed size is complete, so no property can tell.
Left out: texts, the arguments' syntax, listings record by record, `WSAStartup`.

The server is started in a directory that can be listed (`FtpAssumption`). In one that
cannot, `FileExists` finds nothing, whatever is there: `FindFirstFile` fails.

`HostOf` gives each client its machine, for the server takes the address from
the control connection. `client.cpp:680` connects to 127.0.0.1, so in every run
all clients are on one machine; the proofs hold for any `HostOf`.

### Store

What UP promises, without clients, connections or responses: a session is granted a name
that nothing has at that moment (`Grant`), makes it an empty file (`Create`), and puts one
block behind the other, each in the place after the last one it stored, while every other
place of the file keeps what it has (`Grow`), until it ends or breaks off (`Done`), alone
or with the process (`Crash`). Nothing else may happen to any file. Two sessions may have
been granted the same name: the code does not exclude it. `Ftp` implements it
(`StoreServes`) for as long as no user's menu has CD: the mapping `Writer` reads off the
thread what it was granted, and names the file by the *current* directory, which is what
the code will do at `fopen`. With CD the refinement fails, by the interleaving of
`ftp_overwrite`.

### Proxy

One action per statement between two accesses to what threads share. `mutex_host`
and `mutex_file` are counters, `hostent` is the static buffer of
`gethostbyname`, `logfile` the global stream, `info`, `csock` and `ssock` what
has to be given back. `ConnectFails` ends the process, as `unix_error` does;
`LookupFails` returns with the semaphore, as `open_clientfd_ts` does. `OpenLogFails` is
the `fopen` of 240 that returns NULL and the `fprintf` that ends the process on it. Assumed:
the calls wrapped by `Malloc`, `Socket` and `Pthread_create` succeed.

### Relay

The body of `doit` between its two sockets. A stream is a sequence of items,
lines or bytes, of which doit sees the kind: `length` and `coding` for the two
header lines it looks for, `last` for `0\r\n`, `tail` for a last line without a
newline, which `rio_readlineb` returns with a NUL byte more (`tailnul`). `Uint`
is 2^32 cut down to 16. `Truthful` is what is assumed of servers: they announce the length
they send, less than 2^32, a head has one blank line, and only the last line of a response
is without a newline. A line longer than `MAXLINE` is in `Rio`. `ClientGone` has one part
for each loop, for they differ in what doit has noted and counted when the write to the
client fails: bytes are counted before it (`GoneInBytes`), lines after (`GoneInHead`,
`GoneInLines`).

### Rio

The bytes of one peer are their positions in its stream, so that "which byte is
where" is all the state says. `Fill`, `Interrupted`, `EndOfStream` and
`ReadFails` are the outcomes of `read()` in `rio_read`; `TakeByte` and
`TakeBytes` are one turn of the loops of `rio_readlineb` and `rio_readnb`, with the
`memcpy` into `usrbuf`. `AskLine`, `AskBytes`, `LoopEnds`, `StartWrite`, `Write`,
`WriteEnds` and `WriteFails` are the loops of `doit` around them: the loop of the
request (`proxy.c:168`), of the head, and of the two kinds of body. `Fixed` is the
`if` at 188 and 213 that corrects the count of a line longer than the buffer; the
request loop has no such correction, and `SentOn` says so. A line of nothing but
its newline stands for `"\r\n"`. After the end of the stream the loop of the head goes on
to a body, and so it does after a read that failed, unless that was a reset, which clears
`serveron` (`LoopEnds`, 186, 209, 412-415): `skipped` remembers that, and no action reads
it. The second writing of the last chunk is left to
`Relay`.

### Stream

What one who calls `rio_readlineb` and `rio_readnb` may rely on: a call takes, at
one stroke, the next line or the next bytes of one stream, and returns their
number, one more for a line that no newline ends. `Rio` implements it
(`ReadsStream`): a call in progress has not taken anything yet, whatever it has
collected.

### Pop3

The client sends a command and takes what the next `recv` returns for the answer.
The server and the network are external. What the server sends arrives piece by
piece, and a `recv` takes whatever is there up to its room, or gives up while an
answer is on its way (`MayBeSlow`). A status line is `LineParts` pieces, so a `recv`
may find a part of one, and leave the rest for the next operation. What the code
makes of a part, or of text whose beginning it missed, is left open: `IsOk` ("the first
three characters are +OK"), `Digit` ("the fifth is a digit"), `Octets` (`atoi` from the
fifth on) and `Parsed` ("`strchr` or `StrStr` finds what is looked for") are the sets of
the outcomes, with one member if the line is there as a whole.

The server may refuse every command, may announce another size than it sends (a
stuffed dot makes a message longer than its size), may begin the text of its greeting
or of its answer to USER with a digit, and may break the connection at any point.
What a session has met with of all that is in `odd` (`Oddity`), a history variable that
no guard reads and that the properties are conditioned on.

| Actions | Code |
|---|---|
| `Connect`, `UserOk`, `PassOk`, `PassAgain`, `LoginFails` | `LoginEMail`, `IsOk`, `AnalyzePass`, `Clear` |
| `Call` | the `send` of every other operation |
| `Answered` | `DeleteMail`, `CancelDeleteMail`, `MailUpdate`, `GetMailCount`, `GetMailSize`, `GetID` |
| `RetrSize`, `RetrMore`, `TopRest` | `Look` and `Look(.., n)`, with `AnalyzeRetr1` |
| `CallFails` | every return after a `recv` that failed |
| `PassCrashes`, `AnswerCrashes`, `RetrCrashes`, `MailCrashes` | pointers that nothing checks |

`Size += 3` of `Look` is the one piece more that `RetrSize` adds to the announced
number. `strchr` and `StrStr` may return NULL: `AnalyzePass`, `GetMailCount` and `GetID`
then read or allocate by it, which is taken to end the program (`crashed`);
`GetMailSize` and `AnalyzeRetr1` do not use what they copied there, so for them it is a
choice between going on and crashing. When the client crashes, or closes its socket,
what the server has not worked off by then is lost. Assumed of servers: a number that
follows "+OK " has a space behind it, and the text of a refusal does not begin with one.

Not modelled: what `AnalyzeRetr2` makes of the text of a mail, apart from the fact
that it may crash on it (`MailCrashes`), so `MailWhole` is about what it is given; and a
second `LoginEMail` on an object that is connected.

### Base64 and Smtp

`Base64` has the encoder and the decoder of `SMTP.cpp` and the decoder of
`Func.cpp`, each translated from its loop, and `IsBase64`, a definition by bits that
shares nothing with them. `CString` is what `strlen`, `strcpy` and `sprintf` see.

`Smtp` is the dialogue of `main`, `AuthorizationLogin` and `SendMail`: after each
request one `GetResponse`, which takes all that has arrived and compares the
first three characters. Three outcomes of it are actions: `GetResponse`, `Guesses`
(the number was never set: what came does not begin with a code, or nothing came
because the connection is closed; the comparison may then come out either way)
and `RecvFails`. The line before the `strncpy`, which scans a buffer never written
to, only sets the same number. The server is the environment: it checks account
and password by `IsBase64`, keeps the order of the commands, may refuse any
request, answers EHLO with one reply or two, and may close or reset at any time;
`Deliver` brings its replies piece by piece. Left out: the texts of the mail, and
what is written past the end of the buffers at `SMTP.cpp:347` and 361 (undefined
from there on; the hazard is listed).

### Web

The three servers of `project2` in one module, `kind` saying which one runs. They
differ in when they accept (`Webserver.cpp` one connection at a time, the others a
thread each), in what they make of a request that has not come as a whole
(`ReadCpp`, `ReadJava`, `ReadPython`) and in how they answer (`ReplyCpp`, ..).
The request buffer of `Webserver.cpp` keeps, character by character, what earlier
clients sent, and `geturl` writes a NUL into it; a request without a space there
crashes the server (`up`). Left out: content types, the text of the headers,
files larger than the reply buffer, and a read that ends within `GET /`. A name is
letters, none of them a space or a NUL, and a request fits the buffer.

### Sensor

The three pairs of programs of `project1`, `kind` saying which one runs. Each server
serves one client until it has gone: `Accept`, `RecvQuery`, the answer (`AnswerCpp`,
`AnswerChecked`) and what a `recv` without data leads to, which is different in each
(`RecvNothingCpp` answers the old buffer once more, `RecvNothingPython` goes back to
`accept`, `RecvNothingJava` ends the program). A query is its digits, for
`Server.cpp` keeps the ones of the query before; an answer and the greeting are two
parts, so that TCP can cut them. `pieces` remembers on which connections it did: a
history variable that no action reads. Reading outside the C++ arrays is a choice
between an answer that is junk and the end of the process. Left out: the texts, queries
that are not numbers, the data files that Java reads again for each query, and the
overflow of `revData` by a message of 255 bytes.

## 3. The runs

| Run | Bounds | Distinct states | Shows |
|---|---|---|---|
| `ftp_mixed` | 2 users, 2 sessions, every command between them, 2 directories (one not listable), files of 1 and 2 blocks, either may be killed | 152,330 | `TypeOK`, `ReplyIsMine`, `OwnData`, `LeakNeedsKill`, `PortInTransferOnly`, `UploadWhole`, `DownloadWhole` |
| `ftp_overwrite` | 2 users, one CD | | `ExistingKept` fails (finding) |
| `ftp_live` | 2 users, 2 sessions; one lists and fetches what the other stores, either may be killed, no CD; fairness | 46,564 | `InitialFilesKept`, `StoreServes`, `DownloadPart`, `CommandDone`, `ThreadEnds` |
| `proxy_threads` | 3 threads, 3 sites (one unknown, one refusing); fairness | 121,200 | `TypeOK`, `AddressMine`, `LogMine`, `Served` |
| `proxy_lock` | 2 threads | | `HostLockHeld` fails (finding) |
| `relay_all` | bodies of 0 to 5 bytes read 2 at a time, 0 to 2 chunks, no framing; fairness | 23,600 | `TypeOK`, `ForwardedButEnd`, `NoUnderflow`, `NeverOvercounts`, `RelayEnds` |
| `relay_forward` | the same, nobody leaves | | `Forwarded` fails (finding) |
| `rio_lines` | 5 bytes with newlines anywhere, a buffer of 2, a user's buffer of 4, all failures; fairness | 1,008,424 | `TypeOK`, `InOrder`, `SentOn`, `ReadsStream`, `Drains` |
| `pop3_session` | 3 calls, 2 messages of 1 and 2 pieces, status lines of 2 pieces, a first buffer of 4, announced sizes 0 to 2 | 5,337,882 | `TypeOK`, `LoggedIn`, `OwnAnswer`, `Happened`, `MailWhole` |
| `smtp_mail` | 3 users, one of them unknown to the server, 5 attachments; fairness | 431,570 | `SendOk`, `InStep`, `ReadBack`, `Finishes` |
| `sensor_servers` | 3 pairs of programs, 2 clients of 2 and 1 queries out of 3, 11 readings; fairness | 684,836 | `OwnReading`, `EndsForCause`, `NextServed` |
| `web_servers` | 2 connections, a backlog of 1, 3 servers, names of 0 to 2 letters; fairness | 29,764 | `OwnPage`, `SeesEnd` |

Why the bounds are enough to be interesting. Every FTP hazard needs at most two sessions,
of two users or of one who was killed and came back; two blocks are the smallest file of
which a part can be there. Three threads let one wait for each semaphore while another
holds it. A `MaxLine` of 2 against 0 to 5 bytes gives an empty body, a short one, exact
multiples and remainders. In `rio_lines` a line may end before, at and after the end of
either buffer, and a stream of five is longer than both. In `pop3_session` the greeting
and the answers to USER and PASS can arrive together, one by one or cut in two, so that
the rest of USER's answer is read as PASS's; a message can come with its size line or
after it, and can be shorter or longer than announced; a first buffer of two whole lines
is full in the middle of a message. Three calls are a login and two operations, enough for
the rest of one answer to be read as the next. `smtp_mail` has credentials and files of
every length modulo 3, with the bytes 0, 1, 128 and 255. In `web_servers` the second
client comes before, while and after the first is served, and a name may be cut off at any
letter. In `sensor_servers` the digits of a short query over those of a long one make a
number that nobody typed and that is in no table.
Named bounds: `Conn` (runs of a client, connections), `Sock` (data connections at one
time), `MaxCalls`, `LineParts`, `Room`, `MaxSize`, `Length`, `MaxAsk` (queries of each
client). `CHECK_DEADLOCK FALSE` in all: users may stop, connections are used up, a relay
or a mail is over.

Things the properties had to say carefully, because TLC refuted the plainer
form and the trace is a true behaviour of the code:

- `OwnData`, `LeakNeedsKill`, `UploadWhole`, `DownloadWhole` and `CommandDone` hold while
  no client process of the machine was killed. Otherwise the thread of the killed client,
  on its way to `DATA_PORT`, connects to whoever listens there next: another user's
  `get_file`, which stores a listing as its file or waits for ever, or the same user's
  repeated upload, whose file it empties half-way.
- `DownloadWhole` also excludes connections that were cut off: `get_file` cannot tell.
  `UploadWhole` is for data connections the client closed itself, and for names its user
  does not fetch: DOWN empties the local file while the thread still stores what it was.
- `UploadWhole` and `DownloadWhole` are about names that nobody else stores meanwhile. Two
  users may both pass the check of UP before either file is created; so may two sessions
  of one user, for `put_file` returns before the thread has created the file, and a client
  that then finds the data port taken exits and can be started again. A DOWN during an
  upload gets a beginning of the file (`DownloadPart`) and no warning; and not even that
  if a second session may store the name, or the directory is changed between the check
  and the creation, for then the file may be emptied under the reader.
- `ThreadEnds` lets a thread wait for the data of an upload that has reached another
  client's port, as long as that one holds its end.
- `Served` holds until a lookup has failed; after that, P(mutex_host) blocks. It also
  leaves out that the process ends for all, by a refusing server or a log that cannot be
  opened.
- `OwnAnswer`, `Happened` and `MailWhole` hold as long as the session met with nothing odd
  (`Regular`): a `recv` that found a part of a status line, an answer after its timeout,
  `TOP`, a message of another size than announced, a digit before the answer to PASS.
  After any of them the client may be out of step for the rest of the session. In
  particular it does not survive a line cut by TCP, nor a dot-stuffed mail.
- `LoggedIn` holds, late answers or not, as long as no `recv` found a part of a line and
  neither the greeting nor the answer to USER has a digit behind its "+OK ": `AnalyzePass`
  takes such a digit for the number of messages and looks for no "+OK".
- `NeverOvercounts` says that the size in the log is never more than what was read. That
  it is what came would be false of every response: see section 4.
- `RelayEnds` is about responses that say where they end, or whose server closes.
- `SentOn` lets the loop of the request send NUL bytes: after a line that fills the buffer
  `rio_readlineb` returns one byte too many, and line 168 does not correct it. `SentOn`
  and `Drains` leave out that a read of the head failed without a reset (`skipped`): what
  it had collected is lost.
- `SendOk` and `InStep` hold until an uninitialised number was compared. One such
  comparison that comes out "equal" is enough to print "Send ok!" of a mail that the
  server has refused.
- `OwnPage` is, for `Webserver.cpp`, about requests whose name came as a whole: with a
  part of it the rest is the name of the client before. The Python server answers for the
  part it got.
- `OwnReading` is about connections whose messages TCP did not cut; the Java programs,
  which frame theirs, never come to have others. `EndsForCause` has to name, for
  `Server.cpp`, a client that leaves before anybody asked: `atoi` then reads what was
  never written.
- `SeesEnd` leaves out, for the Java server, a request cut off before the space and the
  name of a directory: both end in an exception that leaves the socket open.

Fairness. `Ftp`: weak fairness for each client once its user has typed and for
each thread; nothing is assumed of users, of kills or of connecting. These are
processes and threads of an operating system that block only in calls whose
condition is in the guard. `Proxy`: weak fairness for each thread, which takes
peers to answer or hang up; the semaphores need no strong fairness because the
set of threads is finite and none takes one twice. `Relay`: weak fairness for doit
and for a server that was asked, none for the client or for breaking. `Rio`: weak
fairness for reading and for the loops of doit; an interrupted `read()` is not, so
that it may not be interrupted for ever, and the peer sends its whole stream and
closes. `Smtp`: weak fairness for the client, for delivery, and for a server that
was asked, which answers, refuses or closes: `recv` has no time limit, so nothing
weaker would do. `Web`: weak fairness for accepting, for each connection being
served, and for a browser that has connected to ask or go, which is what the one
blocking `recv` of `Webserver.cpp` depends on; none for browsers to leave. `Sensor`:
weak fairness for the server and for every user to leave some day, since a server
that serves one client at a time owes the next one nothing before. `Pop3`
has no liveness property: the caller owes nothing.

## 4. Findings

1. `server.cpp:524` says a file that is there is not transferred; CD by another
   session between the check and the creation makes the upload replace one.
2. `proxy.c:348` says thread-safe; line 363 returns with the semaphore taken.
3. `proxy.c:183` says the response is forwarded; line 219 writes its last chunk a
   second time.

Seen while modelling, of one function and without an order of steps to check, and
for that reason in no run: `doit` does not free its `clientinfo` on the returns at
`proxy.c:125`, 133 and 143, though 82 says it will, and `thread_handler` reads it at
96 after 249 has freed it; 198 compares with a `sizeof` that counts the NUL, so that
the branch is never taken (a response is taken to be chunked when it has no
length); `unix_error` ends the process with all other relays; a refused download
deletes the local file of that name (`client.cpp:404`); an upload that broke leaves a
part that then refuses the repetition (`server.cpp:850`); a failing CD never sets
`rspnsid` (448); the handles of `FindFirstFile` (728, 892) are never closed; a data line
of a chunked body that is itself `0\r\n` ends the relay (`proxy.c:218`), and the body of a
request stays in the buffer that 184 empties; `SMTP.cpp:347` appends two characters to a
buffer that was allocated without them; `fopen` of the log is not checked (`proxy.c:240`);
a read of the head that fails, but not by a reset, passes on to the body (`proxy.c:412`).

The size that `doit` logs is not "the size in bytes of the response from the server"
(`proxy.c:300-302`), nor what 113 calls the received total length: the blank line of the head is
never counted, and of a chunked body the last chunk is counted once although it is written
twice, the 2 added at 220 standing for a blank line that is not relayed. A complete
response is logged two bytes short, or one, if its last line has no newline.

The POP3 client and its network disagree in more ways than `Regular` can say: `LoginEMail`
returns 0, which `popFunc.cpp:28` calls success, without the server's consent when the
rest of a cut answer to USER, or its text, has a digit where `AnalyzePass` looks for one;
a "+O" that comes before its "K" makes an operation fail and leaves the rest to be read as
the answer to the next; a size line that is cut, or a message whose dots are stuffed,
makes `Look` return a part of the mail as success, or leaves its end to the next
operation; and `GetID` of a message that is not there crashes (282-291).

## 5. What is proved

`FtpProofs.TypeCorrect`: `TypeOK` of `Ftp`, for any sets, menu, files and
machines; it rests on `FtpAssumption` and `DistinctNone`, has one lemma for each
group of actions and is used by the theorem that follows.

`FtpProofs.FilesKept`: `InitialFilesKept`, if no menu has CD. The invariant alone
is not inductive: a thread that was granted an upload creates the file later.
The strengthening says that the current directory stays `InitDir`, that no CD is
typed, queued or being handled (`NobodyMoves`), and that what a thread is to
store, or stores, is a name that `InitFs` does not have there. Kills, broken
uploads, aborts and crossed data connections are all in it.

`FtpProofs.PortGivenBack`: `PortInTransferOnly`, which is inductive with the types.

`FtpProofs.AnswersMatch`: `ReplyIsMine`, for any clients and sessions. No packet
says which command it answers, so the invariant counts what may be on its way: a client
that is not waiting has nothing coming (`Silent`: no response there, no thread that owes
one, and nothing but LISTs in the queue of commands, for LIST has no response), and one
that waits has at most one thing coming (`Coming`): its command in the queue behind such
LISTs, a thread that owes exactly that response, or the response itself. It holds
whatever is killed and whichever data connections are crossed.

`FtpProofs.OwnConnection` and `FilesClosed`: `OwnData` and `LeakNeedsKill`, for any
number of clients on any number of machines. Who connects to a port follows from where
both ends of each session are, hence the largest invariant here, `DataInv`. `Wired` holds
always: a client in a transfer holds the port, a thread with a data connection has it
open, and no data connection is two clients', or accepted and still waiting, which is
what lets a data connection be used again. `Calmly` is about machines where nobody was
killed: a thread in a transfer is in that of its client (`Together`), which is going to
accept (`Accepting`) or has accepted this thread's connection (`Joined`), a queued
command is the one its client waits on (`Asked`), and what waits at a port was opened for
the client that holds it (`Waiting`). `ThreadEffect`, `ClientEffect`, `ClientMoves` and
`ClientLeaves` say once what all steps of a kind leave in order.

`FtpProofs.DownloadsWhole` and `DownloadsPart`: `DownloadWhole` and `DownloadPart`.
`FetchInv` adds to `DataInv` what a data connection carries. While its thread sends
(`Fetched`), what the client stored followed by what is on its way is the part of the file
that was sent; when the thread has finished, it is a beginning of a file of that name,
and the whole of one that nobody stores. It needs that nobody empties the file
meanwhile: no one may store the name, or only one session may and nobody moves, and that
one found the name free long before it creates the file (`Alone`).

`FtpProofs.UploadsWhole`: `UploadWhole`. `StoredInv` says, of a thread that stores on a
calm machine, that what is on its way is the rest of the client's file (`Arriving`) and that
what it wrote is there (`Written`). The latter is not inductive as it stands: a session
of the same user, closed before its thread created the file, may be storing the same
file at the same time and empty it. What holds is that each block is in the file, or
another thread that stores it will write it again; a thread that no other of that
command runs beside then has it all. The local file stays what it was (`LocalKept`),
which is where the premise about DOWN comes in.

`FtpProofs.ImplementsStore`: Ftp implements `Store`, if no menu has CD. Every step
of a client, and every step of a thread outside an upload, stutters; `Up` grants,
`CreateFile` creates, `RecvBlock` grows (a block in a place of its own, the rest of the file
kept, which is what `WriteAt` does), each way out is `Done`, and the process that
aborts is `Crash`. It rests on the inductive invariant of `FilesKept`: that the
directory does not move keeps what was granted and what is created the same name,
and that no CD is queued excludes `Cd`.

`ProxyProofs.OwnAddress`, `OwnLog`, `ProxyTypes`: for any number of threads. The
inductive invariant `Inv` adds to the three properties that at most one thread is
between P and V of each semaphore, and none while its value is 1 (`HostExcludes`,
`FileExcludes`; not that one is there while it is 0, which `proxy_lock` refutes),
and that the static buffer holds the site of the thread that is about to copy it
(`HostentMine`). Types need it too: without exclusion a V could make a semaphore 2.

`RioProofs.TypeCorrect`, `BytesInOrder`, `ImplementsStream`: for every stream, every
size of the two buffers and every way `read()` and `write()` cut, fail or are
interrupted. The inductive invariant `Inv` is `TypeOK`, `InOrder`, and two facts the
refinement needs: a call goes on only while there is room (`Room`, which for lines
keeps the place of the NUL byte) and, for lines, only while it has met no newline
(`NoNewline`). `ImplementsStream` then maps every step: the refills and the
collecting stutter, and the step that returns is the one in which `Stream` takes
the whole line or all the bytes.

`RioProofs.StreamSentOn`: `SentOn`, for the same constants. `SendInv` follows a line or the
bytes from the call to the write: what a call returned lies in `usrbuf` in order
(`Collected`), what is to be written is that, or a NUL byte more (`ToWrite`), and of a
response that NUL byte is there only at the end of the stream, after which nothing is
written (`NulEnds`); what was sent on ends where reading has come to, less what waits
(`UpTo`). `SentOn` says it of each place of `out`, by the last byte of the stream before it,
so that no sequence has to be filtered and nothing counted. It holds unless a failed read
of the head was skipped; from then on nothing has to be kept.

`RelayProofs.RelayTypes`, `NeverWraps`, `Forwards`, `CountsNoMore`: every invariant of
`Relay`, for any requests, any truthful responses, any `MaxLine` and any `Uint`. The
invariant says where in the response each loop of doit can be, and what it knows of it
there (`Stage`: behind the head, `content_length` is what is left of the body, which is
`NoUnderflow`), what the client has (`Received`), and that `recv_len` counts no more than
was read, and in the loop of a chunked body less, by the blank line of the head, of which
the 2 for the last chunk takes its part (`Counted`). A server that breaks off in the head
sends doit into the loop of the body with nothing left to read, of which `Cut` takes care.
The sums are a recursive function (`Sizes`); what is needed of it for all lengths is
proved from the least length of which it would be false (`LeastNumber`, which the
library's facts about well-founded relations give without an induction over an operator).

`WebProofs.WebTypes` and `NobodyElsesPage`: `TypeOK` and `OwnPage`, for any connections, names,
files and size of the request buffer. The buffer of `Webserver.cpp` may hold anything
that earlier clients left there; `UrlWhole` shows that a name which was received with
its space is what `geturl` finds, for the first space of the buffer is then the one
behind it, and the characters before it are all new. The invariant carries that name
(`Right`) to the reply, because `url` of a connection that is being served is nobody
else's.

`Pop3Proofs.TypeCorrect`, `LoginConsent`, `AnswersTheirOwn`, `ReportsHappened`,
`MailsWhole`: every invariant of `Pop3`, for any mailbox, any room in the buffer, any number of
parts of a status line, and with every oddity in the model; what the properties say, they
say of sessions that have met none (`LoggedIn`: no cut line and no digit). `LoginInv` is what
the login rests on. While no line was cut, what has arrived begins with the first part of a
line (`FirstRead`), and what a `recv` takes is whole lines (`FirstWhole`); the answer to PASS
is the last thing there is, either its command alone in the queue or its line behind the
others (`LoginStream`), it says "+OK" only if the session has left `auth`, and no line
before it has a digit. `Talk` says what is on its way while a session is `Regular`: nothing
(`Idle`), the command that runs (`Sent`), or nothing but its answer (`Own`): a line of which
the rest is still to come (`LineComing`); of a message, what is missing, in order
(`MailComing`, `RestTalk`), or less than that if the connection broke, and then Look never
ends its loop with TRUE.

`SensorProofs.SensorTypes`, `AnswersOwn`, `EndsExplained`: `TypeOK`, `OwnReading` and
`EndsForCause` of `Sensor`, for any number of clients and any queries and tables. `OwnReading` follows
from `Inv`: a client is in the backlog once, and nothing is sent to it before it is served
(`Place`, `Once`), and of a connection whose messages came whole there is one thing at a
time, the query on its way, the query in `revData` while its client is served, or the
answer on its way (`Talk`). `EndsForCause` needs, beyond that, that `revData` is somebody's
query or a piece of one (`Known`), and that only the C++ server answers before it read
anything (`Loaded`).

`SmtpProofs.RepliesInStep`: `InStep`, for any credentials and files. Nothing but their
order connects replies with requests, so the invariant `Talk` looks at what is on its way,
in the order `GetResponse` will find it (`Flow`). `Orderly`: no piece is of a later step
than the client's; those of earlier steps carry no code, or the 250 of a second EHLO line
while the client waits for 334; and behind a piece of this step only a second line of
EHLO carries one. `Pending`: the one request on its way has not been answered, or has been
granted or refused. A guess breaks all of it, which is why everything is said of
`guesses = 0`.

`SmtpProofs.SendOkMeansSent`: `SendOk`. `Held` adds to `Talk` what the server has made of
the requests it granted: the account, then the user, then one mail. That the user is the
right one is a fact about base64: two sequences of bytes with the same base64 form are
the same (`Unique`, from the definition by bits), and `base64_encode` makes a base64 form
(`EncodesBase64`, from the bits of three bytes and four digits, `SameBits`).

`SmtpProofs.AttachmentsReadBack`: `ReadBack`, for files of any length. Both decoders work
group by group, so no induction is needed: a group of digits has the value of its three
bytes (`ValueOf`), the decoder of `Func.cpp` gives them all back with zeros behind the last
(`Pop3Reads`), and that of `SMTP.cpp` leaves out as many as there are '=' in the last group
(`Turn`, `SmtpReads`). It assumes, as `SmtpAssumption` does, that a file is bytes.

Only model-checked: liveness (`CommandDone`, `ThreadEnds`, `Served`, `RelayEnds`, `Drains`,
`Finishes`, `SeesEnd`, `NextServed`), for no prover here handles fairness and ENABLED.

## 6. Not modelled, and why

- The parsing of mail text in `popFunc.cpp` (376 to 787 in part): `strstr` walks over
  one string in memory, whose only inputs are the text of a mail; nothing of it is
  shared, ordered or timed.
- `csapp.c` outside Rio and the semaphores: wrappers that call the function they are
  named for and end the process when it fails. `rio_readn` is called by nobody.
- The clients and proxies built on `commons-net`, `ftplib`, `smtplib`, `poplib` and
  JavaMail, and the Java SMTP client, which prints every reply and checks none:
  their state is the library's, or a position in a list.
- The download programs: one library call each.

## 7. Where to go on

Every safety property of a passing run is proved. A mailbox with transactions (mark,
reset, commit), which `Pop3` should refine while `Regular`, and a lock for `Proxy` are the
abstract specifications still missing.
