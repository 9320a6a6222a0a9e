------------------------------- MODULE MCSmtp -------------------------------
(* Small instances of Smtp: accounts, passwords and files of every length  *)
(* modulo three, with bytes at both ends of their range.                   *)
EXTENDS Smtp

User(a, p) == [account |-> a, password |-> p]
Users   == {User(<<103>>, <<72, 101>>), User(<<255, 1, 128>>, <<1>>),
            User(<<103>>, <<72>>)}
Known   == Users \ {User(<<103>>, <<72>>)}
\* The third file is cut off by a NUL byte.
AllFiles == {Absent, Locked, <<>>, <<255, 0, 7>>, <<1, 128, 255, 64>>}
=============================================================================
