------------------------- MODULE EasysyncRefinement -------------------------
(***************************************************************************)
(* EasysyncServer implements Propagation: the lists and table hosts are    *)
(* the books, and the lines that wait for a client are its inbox.          *)
(***************************************************************************)
EXTENDS EasysyncServer

RowsOf(hostname) == {id \in DOMAIN hosts : hosts[id].hostname = hostname}

known == {hosts[id].hostname : id \in DOMAIN hosts}

\* There is one row for each host (OneRowPerHostname).
account == [h \in known |-> hosts[CHOOSE id \in RowsOf(h) : TRUE].user]

owes == {h \in known : \E id \in RowsOf(h) : hosts[id].must_sync = 1}

present == {peerNames[i] : i \in DOMAIN peerNames}

\* The line a client reads names it (NoticeNamesItsReader).
inbox ==
  [h \in Hostnames |->
     IF \E c \in Sockets : toClient[c] # << >> /\ peer[c].host = h
     THEN Len(toClient[CHOOSE c \in Sockets : toClient[c] # << >> /\ peer[c].host = h])
     ELSE 0]

P == INSTANCE Propagation WITH Accounts <- Usernames, Hosts <- Hostnames

\* Every step of the daemon, of its clients and of their failures is one step of
\* the abstract books or none: what a host owes appears, stays through crashes,
\* restarts and disconnections, and goes only as Propagation says.  Holds under
\* the conditions of ListsParallel and while nobody runs --adduser.  (A report or a
\* Roger whose UPDATE fails is none: what the report was about is lost, which only
\* ReportIsNoted says.)
KeepsTheBooks == P!Spec

\* While nobody leaves, the positions in socket_id lead every notice to the host
\* it is for: whoever is present and owes is told, once, and nobody else.
TellsWhoOwes == P!ToldSpec
=============================================================================
