------------------------------- MODULE MCFtp -------------------------------
(* Small instances of Ftp: two users, two directories, two file names.     *)
EXTENDS Ftp

CONSTANTS c1, c2, h1, d1, d2, n1, n2, a, b

\* Files have two blocks, so that a transfer can be seen half done.
FileA == <<a, b>>
FileB == <<b>>

\* The address that client.cpp connects to is 127.0.0.1: all on one machine.
OneHost == [c \in {c1, c2} |-> h1]

\* The server has n1 in its second directory only.
FilesApart == [d \in {d1, d2} |-> [n \in {n1, n2} |->
                 IF d = d2 /\ n = n1 THEN FileA ELSE NoFile]]
\* The server has n1 in the directory it starts in.
FilesHere  == [d \in {d1, d2} |-> [n \in {n1, n2} |->
                 IF d = d1 /\ n = n1 THEN FileA ELSE NoFile]]
\* Each client has its own version of n2, and c1 one of n1 too.
Local == [c \in {c1, c2} |-> [n \in {n1, n2} |->
            IF n = n1 THEN IF c = c1 THEN FileB ELSE NoFile ELSE FileB]]
\* What is uploaded has two blocks.
LocalLong == [c \in {c1, c2} |-> [n \in {n1, n2} |-> IF n = n2 THEN FileA ELSE NoFile]]

\* The one that stores also has a file of the name of the server's.
LocalBoth == [LocalLong EXCEPT ![c2][n1] = FileB]

Cmd(id, x) == [id |-> id, arg |-> x]
ls == Cmd("LS", None)
pwd == Cmd("PWD", None)
quit == Cmd("QUIT", None)

Menus(m1, m2) == [c \in {c1, c2} |-> IF c = c1 THEN m1 ELSE m2]

\* Every command between the two users, and both directories in use.
MenuMixed == Menus({ls, Cmd("UP", n2), quit},
                   {ls, Cmd("DOWN", n1), Cmd("CD", d2), Cmd("CD", NoDir)})
\* The upload of n1 finds no such file here, and the other user moves.
MenuFinding == Menus({Cmd("UP", n1)}, {Cmd("CD", d2)})
\* One user lists and fetches what the other stores.  That one also tries a name the
\* server has; nobody changes the directory.
MenuStore == Menus({Cmd("DOWN", n2), ls, pwd}, {Cmd("UP", n2), Cmd("UP", n1), quit})
=============================================================================
