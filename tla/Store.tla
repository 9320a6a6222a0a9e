------------------------------- MODULE Store -------------------------------
(***************************************************************************)
(* What the UP command of LabExercise1/project5 promises of the files on   *)
(* the server, without connections, responses or client processes: a       *)
(* session may store a file under a name that nothing had when it asked,   *)
(* it starts from an empty file, and then puts one block behind the other, *)
(* each of which leaves the rest of the file alone.  Two sessions may have *)
(* asked for one name; nothing else ever changes a file.                   *)
(***************************************************************************)
EXTENDS Integers, Sequences

CONSTANTS Session, Dir, Name, NoFile, None

VARIABLES
    fs,         \* the files
    writer      \* what a session was granted, whether it is storing it, and how far

vars == <<fs, writer>>

File == [dir : Dir, name : Name]
Idle == [stage |-> "idle", file |-> None, blocks |-> 0]

Init == writer = [k \in Session |-> Idle]

\* The only thing that may happen to a file: f is what it becomes.
Becomes(file, f) == fs' = [fs EXCEPT ![file.dir][file.name] = f]

Grant(k) ==
    /\ writer[k] = Idle
    /\ \E file \in File :
          /\ fs[file.dir][file.name] = NoFile
          /\ writer' = [writer EXCEPT ![k] = [stage |-> "granted", file |-> file, blocks |-> 0]]
    /\ UNCHANGED fs

Create(k) ==
    /\ writer[k].stage = "granted"
    /\ Becomes(writer[k].file, <<>>)
    /\ writer' = [writer EXCEPT ![k].stage = "storing"]

\* One block is stored, in the place after those the session stored before; every other
\* place of the file keeps what it had.
Grow(k) ==
    LET file == writer[k].file
        old  == fs[file.dir][file.name]
        new  == fs'[file.dir][file.name]
        next == writer[k].blocks + 1
    IN
    /\ writer[k].stage = "storing"
    /\ Becomes(file, new)
    /\ new # NoFile
    /\ Len(new) = IF next > Len(old) THEN next ELSE Len(old)
    /\ \A i \in 1 .. Len(old) : i # next => new[i] = old[i]
    /\ writer' = [writer EXCEPT ![k].blocks = next]

\* The transfer is over, or broke off at any point.
Done(k) ==
    /\ writer[k] # Idle
    /\ writer' = [writer EXCEPT ![k] = Idle]
    /\ UNCHANGED fs

\* The server process ends, with every transfer where it was.
Crash ==
    /\ writer' = [k \in Session |-> Idle]
    /\ UNCHANGED fs

Next == Crash \/ \E k \in Session : Grant(k) \/ Create(k) \/ Grow(k) \/ Done(k)

Spec == Init /\ [][Next]_vars
=============================================================================
