------------------------------ MODULE DbManager ------------------------------
(***************************************************************************)
(* The statements that class DbManager (server/dbmanager.cpp) runs on the  *)
(* SQLite database, as operators from the value of a table to its value    *)
(* after the statement.                                                    *)
(*                                                                         *)
(* Table users is the set of the names it holds: names are all a statement *)
(* ever asks of it.  Table hosts is the sequence of its rows: a row's id   *)
(* is its position, since no statement deletes a single row.               *)
(*                                                                         *)
(* An operator whose name ends in _Mutant is the one after it with a bug    *)
(* planted, to show that a property notices.                               *)
(***************************************************************************)
EXTENDS Integers, Sequences, FiniteSets

CONSTANTS
  Usernames,   \* the account names people type into the client
  Hostnames,   \* the computer names people type into the client
  Escape       \* what sqlQuote makes of the names that hold a quote

ASSUME DbAssumption ==
  /\ Usernames # {} /\ Hostnames # {}
  /\ Escape = [text \in DOMAIN Escape |-> Escape[text]]

\* A row of table hosts.  The columns user_id and users.id are replaced by the
\* name they stand for.
Row == [user : Usernames, hostname : Hostnames, must_sync : {0, 1}, socket_id : Int]

\* sqlQuote replaces the quotes of a text that goes into a SELECT; the INSERTs
\* and UPDATEs bind the text as it is.
sqlQuote(text) == IF text \in DOMAIN Escape THEN Escape[text] ELSE text

-----------------------------------------------------------------------------
(* Table users.                                                            *)

\* The name is looked for in its quoted form and compared in its raw form.
isUserValid(users, username) ==
  /\ sqlQuote(username) \in users
  /\ sqlQuote(username) = username

addUser(users, username) == users \cup {username}

\* Table hosts after --adduser.  SQLite's driver never reports the size of a
\* result: query.size() is -1, so the tables are made anew on every call.
\* "create table users" fails when the table is there; "drop table hosts" does not.
createTables == << >>

-----------------------------------------------------------------------------
(* Table hosts.                                                            *)

voidConnection_Column_Mutant(hosts, hostname) ==
  [id \in DOMAIN hosts |->
     IF hosts[id].hostname = hostname THEN [hosts[id] EXCEPT !.must_sync = -1] ELSE hosts[id]]

voidConnection_All_Mutant(hosts, hostname) ==
  [id \in DOMAIN hosts |-> [hosts[id] EXCEPT !.socket_id = -1]]

voidConnection_Forgets_Mutant(hosts, hostname) ==
  [id \in DOMAIN hosts |->
     IF hosts[id].hostname = hostname
     THEN [hosts[id] EXCEPT !.socket_id = -1, !.must_sync = 0] ELSE hosts[id]]

\* UPDATE hosts SET socket_id = -1 WHERE hostname = :hostname
voidConnection(hosts, hostname) ==
  [id \in DOMAIN hosts |->
     IF hosts[id].hostname = hostname THEN [hosts[id] EXCEPT !.socket_id = -1] ELSE hosts[id]]

setNotifyAllExcept_Count_Mutant(hosts, users, username, hostname) ==
  [id \in DOMAIN hosts |->
     IF /\ hosts[id].hostname # hostname
        /\ sqlQuote(username) \in users
        /\ hosts[id].user = sqlQuote(username)
     THEN [hosts[id] EXCEPT !.must_sync = @ + 1]
     ELSE hosts[id]]

\* UPDATE hosts SET must_sync = 1 WHERE hostname != :hostname AND user_id = ...
setNotifyAllExcept(hosts, users, username, hostname) ==
  [id \in DOMAIN hosts |->
     IF /\ hosts[id].hostname # hostname
        /\ sqlQuote(username) \in users
        /\ hosts[id].user = sqlQuote(username)
     THEN [hosts[id] EXCEPT !.must_sync = 1]
     ELSE hosts[id]]

syncIsDone_All_Mutant(hosts, hostname) ==
  [id \in DOMAIN hosts |-> [hosts[id] EXCEPT !.must_sync = 0]]

\* UPDATE hosts SET must_sync = 0 WHERE hostname = :hostname
syncIsDone(hosts, hostname) ==
  [id \in DOMAIN hosts |->
     IF hosts[id].hostname = hostname THEN [hosts[id] EXCEPT !.must_sync = 0] ELSE hosts[id]]

isSyncNeeded(hosts, hostname) ==
  \E id \in DOMAIN hosts : hosts[id].hostname = sqlQuote(hostname) /\ hosts[id].must_sync = 1

clientsToSync_NotFirst_Mutant(hosts, users, username) ==
  {id \in DOMAIN hosts : hosts[id].must_sync = 1 /\ hosts[id].socket_id > 0}

clientsToSync_Connected_Mutant(hosts, users, username) ==
  {id \in DOMAIN hosts : hosts[id].socket_id # -1}

\* The ids of the rows whose socket_id the SELECT returns.  Its FROM names both
\* tables and its WHERE never relates them: one row of users joins every host.
clientsToSync(hosts, users, username) ==
  IF sqlQuote(username) \in users
  THEN {id \in DOMAIN hosts : hosts[id].must_sync = 1 /\ hosts[id].socket_id # -1}
  ELSE {}

isHostKnown_Connected_Mutant(hosts, users, username, hostname) ==
  \E id \in DOMAIN hosts : hosts[id].hostname = sqlQuote(hostname) /\ hosts[id].socket_id # -1

\* The SELECT that guards the INSERT does not relate the two tables either: a
\* host of any account with this name counts as known.
isHostKnown(hosts, users, username, hostname) ==
  /\ sqlQuote(username) \in users
  /\ \E id \in DOMAIN hosts : hosts[id].hostname = sqlQuote(hostname)

\* A host that is not known gets a row, which owes its first synchronisation.
withHostname(hosts, users, username, hostname) ==
  IF isHostKnown(hosts, users, username, hostname)
  THEN hosts
  ELSE Append(hosts, [user |-> username, hostname |-> hostname, must_sync |-> 1, socket_id |-> -1])

addHostname_Size_Mutant(hosts, users, username, hostname, socketId) ==
  LET withHost == withHostname(hosts, users, username, hostname) IN
  [id \in DOMAIN withHost |->
     IF withHost[id].hostname = hostname
     THEN [withHost[id] EXCEPT !.socket_id = socketId + 1] ELSE withHost[id]]

\* ... and then UPDATE hosts SET socket_id = :socket_id WHERE hostname = :hostname
addHostname(hosts, users, username, hostname, socketId) ==
  LET withHost == withHostname(hosts, users, username, hostname) IN
  [id \in DOMAIN withHost |->
     IF withHost[id].hostname = hostname
     THEN [withHost[id] EXCEPT !.socket_id = socketId] ELSE withHost[id]]
=============================================================================
