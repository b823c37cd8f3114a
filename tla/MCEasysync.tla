----------------------------- MODULE MCEasysync -----------------------------
(* Instances of Easysync for TLC.                                          *)
EXTENDS Easysync, TLC

Client(user, host) == [user |-> user, host |-> host]

TwoHosts == {Client("alice", "home"), Client("alice", "work")}

ThreeHosts == TwoHosts \cup {Client("alice", "lab")}

NoEscape == [text \in {} |-> text]

SocketSymmetry == Permutations(Sockets)
=============================================================================
