----------------------------- MODULE Propagation -----------------------------
(***************************************************************************)
(* What the daemon promises, without sockets, lists, positions or rows: it *)
(* knows some hosts, each under an account; some of them owe a             *)
(* synchronisation; some are present.  Module EasysyncRefinement shows     *)
(* that EasysyncServer keeps the promise.                                  *)
(***************************************************************************)
EXTENDS Naturals

CONSTANTS Accounts, Hosts

VARIABLES
  account,   \* the account of each host that is known
  owes,      \* the known hosts that owe a synchronisation
  present,   \* the hosts that are connected and have said who they are
  inbox      \* how many notices each host has to read

books == << account, owes, present >>
vars  == << books, inbox >>

Known == DOMAIN account

TypeOK ==
  /\ Known \subseteq Hosts /\ account \in [Known -> Accounts]
  /\ owes \subseteq Known
  /\ present \subseteq Hosts
  /\ inbox \in [Hosts -> Nat]

Init ==
  /\ account = [h \in {} |-> CHOOSE a \in Accounts : TRUE]
  /\ owes = {} /\ present = {}

-----------------------------------------------------------------------------
(* The books.                                                              *)

\* A host says who it is.  One that was not known owes its first synchronisation.
Arrive(h, a) ==
  /\ h \notin present
  /\ present' = present \cup {h}
  /\ \/ h \in Known /\ UNCHANGED << account, owes >>
     \/ /\ h \notin Known
        /\ account' = [k \in Known \cup {h} |-> IF k = h THEN a ELSE account[k]]
        /\ owes' = owes \cup {h}

\* A host goes; what it owes is remembered.
Leave(h) ==
  /\ h \in present
  /\ present' = present \ {h}
  /\ UNCHANGED << account, owes >>

\* The daemon stops: everybody is gone, and nothing of what is owed is forgotten.
Stop == present' = {} /\ UNCHANGED << account, owes >>

\* A present host reports a change: every other known host of the account owes.
\* That is noted before anybody is told, so that a daemon which dies over the
\* telling has it noted all the same.
Report(h, a) ==
  /\ h \in present
  /\ owes' = owes \cup {k \in Known \ {h} : account[k] = a}
  /\ present' \in {present, {}}
  /\ UNCHANGED account

\* A present host has synchronised.
Answer(h) ==
  /\ h \in present
  /\ owes' = owes \ {h}
  /\ UNCHANGED << account, present >>

KeepBooks ==
  \/ Stop
  \/ \E h \in Hosts : Leave(h) \/ Answer(h) \/ \E a \in Accounts : Arrive(h, a) \/ Report(h, a)

Spec == Init /\ [][KeepBooks]_books

-----------------------------------------------------------------------------
(* The books and the notices: who is told, and when.                       *)

Tell(told) == inbox' = [h \in Hosts |-> IF h \in told THEN inbox[h] + 1 ELSE inbox[h]]

\* A host that arrives is told at once if it owes.
ArriveTold(h, a) == Arrive(h, a) /\ Tell({h} \cap owes')

\* Whoever is present and owes is told with every report.
ReportTold(h, a) == Report(h, a) /\ UNCHANGED present /\ Tell(present \cap owes')

AnswerTold(h) == Answer(h) /\ Tell({})

Read(h) ==
  /\ inbox[h] > 0
  /\ inbox' = [inbox EXCEPT ![h] = @ - 1]
  /\ UNCHANGED books

KeepTold ==
  \E h \in Hosts :
    \/ Read(h) \/ AnswerTold(h)
    \/ \E a \in Accounts : ArriveTold(h, a) \/ ReportTold(h, a)

ToldSpec == Init /\ inbox = [h \in Hosts |-> 0] /\ [][KeepTold]_vars
=============================================================================
