------------------------------- MODULE MCShell -------------------------------
(* Shell on the tree of init_fs, or on what is left of it. *)
EXTENDS Shell

\* First fit: nodes are all of one size.
LowestFree(free) == {a \in free : \A b \in free : a <= b}

AllInstalled == {1, 2, 3, 4, 5, 6, 7, 9, 11}
AllAddresses == 1 .. 14

\* "/", /home, /home/liveuser, /etc, /etc/users, with the addresses they take,
\* and with one to spare.
HomesAndUsers == {1, 3, 4, 6, 9}
JustEnough == {1, 3, 4, 6, 9, 10}

Home == Absolute(<<"home", "liveuser">>)
UsersPath == Absolute(<<"etc", "users">>)

\* A name, the parent, and two absolute paths: the home and the users file.
UserPaths == {Relative(<<"d">>), Relative(<<"..">>), Home, UsersPath}

\* A name, the parent and the users file.
NearPaths == {Relative(<<"d">>), Relative(<<"..">>), UsersPath}

\* A new name below "/".
NewInRoot == {Absolute(<<"d">>)}

NoModes == {}

\* chmod 000 and chmod +x.
AnyMode == {[op |-> "=", rights |-> [owner |-> {}, group |-> {}, other |-> {}]],
            [op |-> "+", rights |-> {"x"}]}
=============================================================================
