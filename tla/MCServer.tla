------------------------------ MODULE MCServer ------------------------------
(* Instances of EasysyncServer for TLC.                                    *)
EXTENDS EasysyncRefinement, TLC

Client(user, host) == [user |-> user, host |-> host]

\* Two computers of one account.
TwoHosts == {Client("alice", "home"), Client("alice", "work")}

\* Three computers of one account.
ThreeHosts == TwoHosts \cup {Client("alice", "lab")}

\* ... and one of another account.
Accounts == TwoHosts \cup {Client("bob", "lab")}

\* carol is no valid user, and "?" is a host name left empty.
Strangers == TwoHosts \cup {Client("carol", "lab"), Client("alice", "?")}

NoEscape == [text \in {} |-> text]

\* One host under a valid and an invalid account, and under no name at all.
Mixed == {Client("alice", "home"), Client("carol", "home"), Client("alice", "?")}

SocketSymmetry == Permutations(Sockets)
=============================================================================
