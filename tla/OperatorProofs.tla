--------------------------- MODULE OperatorProofs ---------------------------
(***************************************************************************)
(* What the operators that the server's bookkeeping is built from return,  *)
(* preserve and bound: the list operations of QList, for lists of any      *)
(* length, and the statements of DbManager, for a table of any size.       *)
(***************************************************************************)
EXTENDS QList, DbManager, FiniteSetTheorems, SequenceTheorems, TLAPS

-----------------------------------------------------------------------------
(* Lists.                                                                  *)

\* Positions of a list make a finite set, no larger than the list is long.
LEMMA PositionsFinite ==
  ASSUME NEW n \in Nat, NEW K \in SUBSET (1 .. n)
  PROVE  IsFiniteSet(K) /\ Cardinality(K) \in Nat /\ Cardinality(K) <= n
<1>1. IsFiniteSet(1 .. n) /\ Cardinality(1 .. n) = n
  BY FS_Interval
<1>2. IsFiniteSet(K) /\ Cardinality(K) <= Cardinality(1 .. n)
  BY <1>1, FS_Subset
<1>3. QED
  BY <1>1, <1>2, FS_CardinalityType

\* Among n kept positions there is one, and one only, for each rank 1 .. n: ranks
\* grow with positions, so the ranking is one-to-one and therefore onto.
LEMMA PositionExists ==
  ASSUME NEW n \in Nat, NEW K \in SUBSET (1 .. n), NEW i \in 1 .. Cardinality(K)
  PROVE  Position(K, i) \in K /\ Cardinality({j \in K : j <= Position(K, i)}) = i
<1> DEFINE Below(k) == {j \in K : j <= k}
           rank == [k \in K |-> Cardinality(Below(k))]
           ranks == 1 .. Cardinality(K)
<1>1. IsFiniteSet(K) /\ Cardinality(K) \in Nat
  BY PositionsFinite
<1>2. \A k \in K : IsFiniteSet(Below(k)) /\ Cardinality(Below(k)) \in ranks
  <2> TAKE k \in K
  <2>1. IsFiniteSet(Below(k)) /\ Cardinality(Below(k)) <= Cardinality(K)
    BY <1>1, FS_Subset
  <2>2. Cardinality(Below(k)) \in Nat
    BY <2>1, FS_CardinalityType
  <2>3. k \in Below(k)
    OBVIOUS
  <2>4. Cardinality(Below(k)) # 0
    BY <2>1, <2>3, FS_EmptySet
  <2>5. QED
    BY <1>1, <2>1, <2>2, <2>4
<1>3. \A k, m \in K : k < m => Cardinality(Below(k)) # Cardinality(Below(m))
  <2> SUFFICES ASSUME NEW k \in K, NEW m \in K, k < m
               PROVE  Cardinality(Below(k)) # Cardinality(Below(m))
    OBVIOUS
  <2>0. k \in Nat /\ m \in Nat /\ K \subseteq Nat
    OBVIOUS
  <2>1. Below(k) \in SUBSET Below(m)
    <3>1. \A j \in K : j <= k => j <= m
      BY <2>0
    <3>2. QED
      BY <3>1
  <2>2. Below(k) # Below(m)
    OBVIOUS
  <2>3. QED
    BY <1>2, <2>1, <2>2, FS_Subset
<1>4. rank \in Injection(K, ranks)
  <2>1. rank \in [K -> ranks]
    BY <1>2
  <2>2. \A k, m \in K : rank[k] = rank[m] => k = m
    BY <1>3
  <2>3. QED
    BY <2>1, <2>2 DEF Injection, IsInjective
<1>5. IsFiniteSet(ranks) /\ Cardinality(ranks) = Cardinality(K)
  BY <1>1, FS_Interval
<1>6. rank \in Surjection(K, ranks)
  BY <1>4, <1>5, FS_Injection
<1>7. \E k \in K : Cardinality(Below(k)) = i
  BY <1>6 DEF Surjection
<1>8. QED
  BY <1>7 DEF Position

\* Different ranks are different positions.
LEMMA PositionsDiffer ==
  ASSUME NEW n \in Nat, NEW K \in SUBSET (1 .. n),
         NEW i \in 1 .. Cardinality(K), NEW j \in 1 .. Cardinality(K),
         Position(K, i) = Position(K, j)
  PROVE  i = j
<1>1. Cardinality({k \in K : k <= Position(K, i)}) = i
  BY PositionExists
<1>2. Cardinality({k \in K : k <= Position(K, j)}) = j
  BY PositionExists
<1>3. QED
  BY <1>1, <1>2

\* Keep returns a list of the kept entries, as long as there are positions kept.
LEMMA KeepType ==
  ASSUME NEW S, NEW list \in Seq(S), NEW K \in SUBSET DOMAIN list
  PROVE  /\ Keep(list, K) \in Seq(S)
         /\ DOMAIN Keep(list, K) = 1 .. Cardinality(K)
         /\ Len(Keep(list, K)) = Cardinality(K)
         /\ Cardinality(K) \in Nat /\ Cardinality(K) <= Len(list)
         /\ \A i \in 1 .. Cardinality(K) :
              /\ Position(K, i) \in K
              /\ Keep(list, K)[i] = list[Position(K, i)]
<1>1. Len(list) \in Nat /\ DOMAIN list = 1 .. Len(list) /\ list \in [1 .. Len(list) -> S]
  BY LenProperties
<1>2. Cardinality(K) \in Nat /\ Cardinality(K) <= Len(list)
  BY <1>1, PositionsFinite
<1>3. \A i \in 1 .. Cardinality(K) : Position(K, i) \in K
  BY <1>1, PositionExists
<1>4. Keep(list, K) \in [1 .. Cardinality(K) -> S]
  BY <1>1, <1>3 DEF Keep
<1>5. Keep(list, K) \in Seq(S)
  BY <1>2, <1>4, SeqDef
<1>6. Len(Keep(list, K)) = Cardinality(K) /\ DOMAIN Keep(list, K) = 1 .. Cardinality(K)
  BY <1>2, <1>4, <1>5, LenProperties
<1>7. QED
  BY <1>2, <1>3, <1>5, <1>6 DEF Keep

\* indexOf finds a position of the value if there is one.
LEMMA IndexOfFinds ==
  ASSUME NEW S, NEW list \in Seq(S), NEW value
  PROVE  /\ indexOf(list, value) \in Int
         /\ indexOf(list, value) = -1 <=> \A i \in DOMAIN list : list[i] # value
         /\ indexOf(list, value) # -1 =>
              /\ indexOf(list, value) + 1 \in 1 .. Len(list)
              /\ InRange(list, indexOf(list, value))
              /\ list[indexOf(list, value) + 1] = value
<1> DEFINE K == {i \in DOMAIN list : list[i] = value}
<1>1. Len(list) \in Nat /\ DOMAIN list = 1 .. Len(list)
  BY LenProperties
<1>2. K \in SUBSET (1 .. Len(list))
  BY <1>1
<1>3. CASE K = {}
  BY <1>3 DEF indexOf
<1>4. CASE K # {}
  <2>1. 1 \in 1 .. Cardinality(K)
    <3>1. IsFiniteSet(K) /\ Cardinality(K) \in Nat
      BY <1>1, <1>2, PositionsFinite
    <3>2. Cardinality(K) # 0
      BY <1>4, <3>1, FS_EmptySet
    <3>3. QED
      BY <3>1, <3>2
  <2>2. Position(K, 1) \in K
    BY <1>1, <1>2, <2>1, PositionExists
  <2>3. indexOf(list, value) = Position(K, 1) - 1
    BY <1>4 DEF indexOf
  <2>4. QED
    BY <1>1, <1>4, <2>2, <2>3 DEF InRange
<1>5. QED
  BY <1>3, <1>4

\* Keeping all positions but one leaves a list one shorter.
LEMMA KeepAllButOne ==
  ASSUME NEW n \in Nat, NEW i \in 1 .. n
  PROVE  Cardinality((1 .. n) \ {i}) = n - 1
<1>1. IsFiniteSet(1 .. n) /\ Cardinality(1 .. n) = n
  BY FS_Interval
<1>2. QED
  BY <1>1, FS_RemoveElement

\* removeAll returns entries of the list, never the value, and repeats none that
\* the list does not repeat.
LEMMA RemoveAllType ==
  ASSUME NEW S, NEW list \in Seq(S), NEW value
  PROVE  /\ removeAll(list, value) \in Seq(S)
         /\ Len(removeAll(list, value)) \in Nat
         /\ DOMAIN removeAll(list, value) = 1 .. Len(removeAll(list, value))
         /\ \A i \in DOMAIN removeAll(list, value) :
              /\ removeAll(list, value)[i] # value
              /\ \E k \in DOMAIN list : removeAll(list, value)[i] = list[k]
<1> DEFINE K == {i \in DOMAIN list : list[i] # value}
<1>1. removeAll(list, value) = Keep(list, K)
  BY DEF removeAll
<1>2. K \in SUBSET DOMAIN list
  OBVIOUS
<1>3. /\ Keep(list, K) \in Seq(S) /\ Cardinality(K) \in Nat
      /\ Len(Keep(list, K)) = Cardinality(K) /\ DOMAIN Keep(list, K) = 1 .. Cardinality(K)
      /\ \A i \in 1 .. Cardinality(K) : Position(K, i) \in K /\ Keep(list, K)[i] = list[Position(K, i)]
  BY <1>2, KeepType
<1>4. \A k \in K : k \in DOMAIN list /\ list[k] # value
  OBVIOUS
<1> HIDE DEF K
<1>5. QED
  BY <1>1, <1>3, <1>4

LEMMA RemoveAllDiffer ==
  ASSUME NEW S, NEW list \in Seq(S), NEW value,
         \A i, j \in DOMAIN list : list[i] = list[j] => i = j
  PROVE  \A i, j \in DOMAIN removeAll(list, value) :
           removeAll(list, value)[i] = removeAll(list, value)[j] => i = j
<1> DEFINE K == {i \in DOMAIN list : list[i] # value}
<1>1. removeAll(list, value) = Keep(list, K)
  BY DEF removeAll
<1>2. K \in SUBSET DOMAIN list
  OBVIOUS
<1>3. Len(list) \in Nat /\ DOMAIN list = 1 .. Len(list)
  BY LenProperties
<1>4. /\ DOMAIN Keep(list, K) = 1 .. Cardinality(K)
      /\ \A i \in 1 .. Cardinality(K) : Position(K, i) \in K /\ Keep(list, K)[i] = list[Position(K, i)]
  BY <1>2, KeepType
<1> HIDE DEF K
<1>5. SUFFICES ASSUME NEW i \in 1 .. Cardinality(K), NEW j \in 1 .. Cardinality(K),
                      Keep(list, K)[i] = Keep(list, K)[j]
               PROVE  i = j
  BY <1>1, <1>4
<1>6. Position(K, i) = Position(K, j)
  BY <1>2, <1>4, <1>5
<1>7. QED
  BY <1>2, <1>3, <1>6, PositionsDiffer

\* A value that the list holds once leaves it one shorter: removeAll is Keep at
\* all other positions.
LEMMA RemoveAllOnce ==
  ASSUME NEW S, NEW list \in Seq(S), NEW value, NEW p \in DOMAIN list,
         \A i \in DOMAIN list : list[i] = value <=> i = p
  PROVE  /\ removeAll(list, value) = Keep(list, (1 .. Len(list)) \ {p})
         /\ Len(removeAll(list, value)) = Len(list) - 1
<1>1. Len(list) \in Nat /\ DOMAIN list = 1 .. Len(list)
  BY LenProperties
<1>2. {i \in DOMAIN list : list[i] # value} = (1 .. Len(list)) \ {p}
  BY <1>1
<1>3. removeAll(list, value) = Keep(list, (1 .. Len(list)) \ {p})
  BY <1>2 DEF removeAll
<1>4. Cardinality((1 .. Len(list)) \ {p}) = Len(list) - 1
  BY <1>1, KeepAllButOne
<1>5. (1 .. Len(list)) \ {p} \in SUBSET DOMAIN list
  BY <1>1
<1>6. QED
  BY <1>3, <1>4, <1>5, KeepType

\* Keeping positions without p leaves a list shorter.
LEMMA KeepShorter ==
  ASSUME NEW S, NEW list \in Seq(S), NEW p \in DOMAIN list,
         NEW K \in SUBSET DOMAIN list, p \notin K
  PROVE  Len(Keep(list, K)) <= Len(list) - 1
<1>1. Len(list) \in Nat /\ DOMAIN list = 1 .. Len(list)
  BY LenProperties
<1>2. Cardinality((1 .. Len(list)) \ {p}) = Len(list) - 1
  BY <1>1, KeepAllButOne
<1>3. IsFiniteSet((1 .. Len(list)) \ {p})
  BY <1>1, PositionsFinite
<1>4. K \in SUBSET ((1 .. Len(list)) \ {p})
  BY <1>1
<1>5. Cardinality(K) <= Len(list) - 1
  BY <1>2, <1>3, <1>4, FS_Subset
<1>6. QED
  BY <1>5, KeepType

\* Every position is the i-th for some i.
LEMMA PositionReaches ==
  ASSUME NEW n \in Nat, NEW K \in SUBSET (1 .. n), NEW k \in K
  PROVE  \E i \in 1 .. Cardinality(K) : Position(K, i) = k
<1> DEFINE Below(j) == {l \in K : l <= j}
           i == Cardinality(Below(k))
           p == Position(K, i)
<1>1. IsFiniteSet(K) /\ Cardinality(K) \in Nat
  BY PositionsFinite
<1>2. \A j \in K : /\ IsFiniteSet(Below(j)) /\ Cardinality(Below(j)) \in Nat
                   /\ Cardinality(Below(j)) <= Cardinality(K)
  BY <1>1, FS_Subset, FS_CardinalityType
<1>3. i \in 1 .. Cardinality(K)
  <2>1. Below(k) # {}
    OBVIOUS
  <2>2. i # 0
    BY <1>2, <2>1, FS_EmptySet
  <2>3. QED
    BY <1>1, <1>2, <2>2
<1>4. p \in K /\ Cardinality(Below(p)) = i
  BY <1>3, PositionExists
<1> HIDE DEF p
<1>5. ASSUME NEW a \in K, NEW b \in K, a < b, Cardinality(Below(a)) = Cardinality(Below(b))
      PROVE  FALSE
  <2>1. Below(a) \in SUBSET Below(b) /\ b \in Below(b) /\ b \notin Below(a)
    <3>1. a \in Int /\ b \in Int /\ \A j \in K : j \in Int
      OBVIOUS
    <3>2. \A j \in K : j <= a => j <= b
      BY <1>5, <3>1
    <3>3. b <= b /\ ~(b <= a)
      BY <1>5, <3>1
    <3>4. QED
      BY <3>2, <3>3
  <2>2. Below(a) = Below(b)
    BY <1>2, <1>5, <2>1, FS_Subset
  <2>3. QED
    BY <2>1, <2>2
<1>6. p = k
  BY <1>4, <1>5
<1>7. QED
  BY <1>3, <1>6 DEF p

\* removeAll leaves every other value.
LEMMA RemoveAllLeaves ==
  ASSUME NEW S, NEW list \in Seq(S), NEW value, NEW k \in DOMAIN list, list[k] # value
  PROVE  \E i \in DOMAIN removeAll(list, value) : removeAll(list, value)[i] = list[k]
<1> DEFINE K == {i \in DOMAIN list : list[i] # value}
<1>1. removeAll(list, value) = Keep(list, K)
  BY DEF removeAll
<1>2. Len(list) \in Nat /\ K \in SUBSET (1 .. Len(list)) /\ K \in SUBSET DOMAIN list
  BY LenProperties
<1>3. PICK i \in 1 .. Cardinality(K) : Position(K, i) = k
  BY <1>2, PositionReaches
<1>4. i \in DOMAIN Keep(list, K) /\ Keep(list, K)[i] = list[k]
  BY <1>2, <1>3, KeepType
<1>5. QED
  BY <1>1, <1>4

-----------------------------------------------------------------------------
(* Table hosts.                                                            *)

\* The table holds one row for each host name.
UniqueHostnames(hosts) ==
  \A i, j \in DOMAIN hosts : hosts[i].hostname = hosts[j].hostname => i = j

\* The UPDATEs keep the rows' number, owner and host name.
SameRows(old, new) ==
  /\ DOMAIN new = DOMAIN old
  /\ \A id \in DOMAIN old : new[id].user = old[id].user /\ new[id].hostname = old[id].hostname

\* A table with the rows of another has the other's host names, each once.
LEMMA SameRowsUnique ==
  ASSUME NEW old, NEW new, SameRows(old, new), UniqueHostnames(old)
  PROVE  UniqueHostnames(new)
BY DEF SameRows, UniqueHostnames

\* A function that changes rows of a table, in place, is a table.
LEMMA TableOfRows ==
  ASSUME NEW hosts \in Seq(Row), NEW new, DOMAIN new = DOMAIN hosts,
         new = [id \in DOMAIN new |-> new[id]],
         \A id \in DOMAIN hosts : new[id] \in Row
  PROVE  new \in Seq(Row)
<1>1. Len(hosts) \in Nat /\ DOMAIN hosts = 1 .. Len(hosts)
  BY LenProperties
<1>2. new \in [1 .. Len(hosts) -> Row]
  BY <1>1
<1>3. QED
  BY <1>1, <1>2, SeqDef

\* voidConnection: rows keep their must_sync; only rows of the host lose their index.
LEMMA VoidConnection ==
  ASSUME NEW hosts \in Seq(Row), NEW hostname
  PROVE  /\ voidConnection(hosts, hostname) \in Seq(Row)
         /\ SameRows(hosts, voidConnection(hosts, hostname))
         /\ \A id \in DOMAIN hosts :
              /\ voidConnection(hosts, hostname)[id].must_sync = hosts[id].must_sync
              /\ hosts[id].hostname # hostname =>
                   voidConnection(hosts, hostname)[id].socket_id = hosts[id].socket_id
<1> DEFINE new == voidConnection(hosts, hostname)
<1>1. \A id \in DOMAIN hosts : hosts[id] \in Row
  BY LenProperties, ElementOfSeq
<1>2. DOMAIN new = DOMAIN hosts /\ new = [id \in DOMAIN new |-> new[id]]
  BY DEF voidConnection
<1>3. \A id \in DOMAIN hosts : new[id] \in Row
  <2> TAKE id \in DOMAIN hosts
  <2> DEFINE minusOne == -1
  <2>1. minusOne \in Int
    OBVIOUS
  <2> HIDE DEF minusOne
  <2>2. hosts[id] \in Row
    BY <1>1
  <2>3. [hosts[id] EXCEPT !.socket_id = minusOne] \in Row
    BY <2>1, <2>2 DEF Row
  <2>4. new[id] = hosts[id] \/ new[id] = [hosts[id] EXCEPT !.socket_id = minusOne]
    BY DEF voidConnection, minusOne
  <2>5. QED
    BY <2>2, <2>3, <2>4
<1>4. new \in Seq(Row)
  BY <1>2, <1>3, TableOfRows
<1>5. \A id \in DOMAIN hosts :
        /\ new[id].user = hosts[id].user /\ new[id].hostname = hosts[id].hostname
        /\ new[id].must_sync = hosts[id].must_sync
        /\ hosts[id].hostname # hostname => new[id].socket_id = hosts[id].socket_id
  BY <1>1 DEF voidConnection, Row
<1>6. QED
  BY <1>2, <1>4, <1>5 DEF SameRows

\* setNotifyAllExcept: rows keep their index, and no row is released.
LEMMA SetNotifyAllExcept ==
  ASSUME NEW hosts \in Seq(Row), NEW users, NEW username, NEW hostname
  PROVE  LET new == setNotifyAllExcept(hosts, users, username, hostname) IN
         /\ new \in Seq(Row)
         /\ SameRows(hosts, new)
         /\ \A id \in DOMAIN hosts :
              /\ new[id].socket_id = hosts[id].socket_id
              /\ hosts[id].must_sync = 1 => new[id].must_sync = 1
<1> DEFINE new == setNotifyAllExcept(hosts, users, username, hostname)
<1>1. \A id \in DOMAIN hosts : hosts[id] \in Row
  BY LenProperties, ElementOfSeq
<1>2. DOMAIN new = DOMAIN hosts /\ new = [id \in DOMAIN new |-> new[id]]
  BY DEF setNotifyAllExcept
<1>3. \A id \in DOMAIN hosts : new[id] \in Row
  BY <1>1 DEF setNotifyAllExcept, Row
<1>4. new \in Seq(Row)
  BY <1>2, <1>3, TableOfRows
<1>5. \A id \in DOMAIN hosts :
        /\ new[id].user = hosts[id].user /\ new[id].hostname = hosts[id].hostname
        /\ new[id].socket_id = hosts[id].socket_id
        /\ hosts[id].must_sync = 1 => new[id].must_sync = 1
  BY <1>1 DEF setNotifyAllExcept, Row
<1>6. QED
  BY <1>2, <1>4, <1>5 DEF SameRows

\* syncIsDone: rows keep their index, and rows of other hosts their must_sync.
LEMMA SyncIsDone ==
  ASSUME NEW hosts \in Seq(Row), NEW hostname
  PROVE  LET new == syncIsDone(hosts, hostname) IN
         /\ new \in Seq(Row)
         /\ SameRows(hosts, new)
         /\ \A id \in DOMAIN hosts :
              /\ new[id].socket_id = hosts[id].socket_id
              /\ hosts[id].hostname # hostname => new[id].must_sync = hosts[id].must_sync
<1> DEFINE new == syncIsDone(hosts, hostname)
<1>1. \A id \in DOMAIN hosts : hosts[id] \in Row
  BY LenProperties, ElementOfSeq
<1>2. DOMAIN new = DOMAIN hosts /\ new = [id \in DOMAIN new |-> new[id]]
  BY DEF syncIsDone
<1>3. \A id \in DOMAIN hosts : new[id] \in Row
  BY <1>1 DEF syncIsDone, Row
<1>4. new \in Seq(Row)
  BY <1>2, <1>3, TableOfRows
<1>5. \A id \in DOMAIN hosts :
        /\ new[id].user = hosts[id].user /\ new[id].hostname = hosts[id].hostname
        /\ new[id].socket_id = hosts[id].socket_id
        /\ hosts[id].hostname # hostname => new[id].must_sync = hosts[id].must_sync
  BY <1>1 DEF syncIsDone, Row
<1>6. QED
  BY <1>2, <1>4, <1>5 DEF SameRows

\* withHostname: old rows stay as they are, a new one is the host's and has no
\* index; afterwards the host has a row, and one row only, if SELECTs find names as
\* they are.
LEMMA WithHostname ==
  ASSUME NEW hosts \in Seq(Row), NEW users,
         NEW username \in Usernames, NEW hostname \in Hostnames
  PROVE  LET new == withHostname(hosts, users, username, hostname) IN
         /\ new \in Seq(Row)
         /\ DOMAIN hosts \subseteq DOMAIN new
         /\ \A id \in DOMAIN hosts : new[id] = hosts[id]
         /\ \A id \in DOMAIN new :
              id \in DOMAIN hosts \/ (new[id].hostname = hostname /\ new[id].socket_id = -1)
         /\ hostname \notin DOMAIN Escape => \E id \in DOMAIN new : new[id].hostname = hostname
         /\ (hostname \notin DOMAIN Escape /\ sqlQuote(username) \in users /\ UniqueHostnames(hosts))
              => UniqueHostnames(new)
<1> DEFINE newRow == [user |-> username, hostname |-> hostname, must_sync |-> 1, socket_id |-> -1]
           known == isHostKnown(hosts, users, username, hostname)
           new == withHostname(hosts, users, username, hostname)
<1>1. newRow \in Row /\ newRow.hostname = hostname /\ newRow.socket_id = -1
  BY DEF Row
<1>2. Len(hosts) \in Nat /\ DOMAIN hosts = 1 .. Len(hosts)
  BY LenProperties
<1>3. (known => new = hosts) /\ (~known => new = Append(hosts, newRow))
  BY DEF withHostname
<1> HIDE DEF newRow, known, new
<1>4. /\ Append(hosts, newRow) \in Seq(Row)
      /\ DOMAIN Append(hosts, newRow) = 1 .. Len(hosts) + 1
      /\ \A id \in 1 .. Len(hosts) : Append(hosts, newRow)[id] = hosts[id]
      /\ Append(hosts, newRow)[Len(hosts) + 1] = newRow
  BY <1>1, <1>2, AppendProperties, LenProperties
<1>5. /\ new \in Seq(Row)
      /\ DOMAIN hosts \subseteq DOMAIN new
      /\ \A id \in DOMAIN hosts : new[id] = hosts[id]
      /\ \A id \in DOMAIN new : id \in DOMAIN hosts \/ new[id] = newRow
      /\ ~known => \E id \in DOMAIN new : new[id] = newRow
  <2>1. CASE known
    BY <1>3, <2>1
  <2>2. CASE ~known
    <3>1. new = Append(hosts, newRow)
      BY <1>3, <2>2
    <3>2. \A id \in 1 .. Len(hosts) + 1 : id \in 1 .. Len(hosts) \/ id = Len(hosts) + 1
      BY <1>2
    <3>3. Len(hosts) + 1 \in 1 .. Len(hosts) + 1 /\ 1 .. Len(hosts) \subseteq 1 .. Len(hosts) + 1
      BY <1>2
    <3>4. QED
      BY <1>2, <1>4, <3>1, <3>2, <3>3
  <2>3. QED
    BY <2>1, <2>2
<1>6. hostname \notin DOMAIN Escape => \E id \in DOMAIN new : new[id].hostname = hostname
  BY <1>1, <1>5 DEF known, isHostKnown, sqlQuote
<1>7. ASSUME hostname \notin DOMAIN Escape, sqlQuote(username) \in users, UniqueHostnames(hosts)
      PROVE  UniqueHostnames(new)
  <2>1. CASE known
    BY <1>3, <1>7, <2>1
  <2>2. CASE ~known
    <3>1. \A id \in DOMAIN hosts : hosts[id].hostname # hostname
      BY <1>7, <2>2 DEF known, isHostKnown, sqlQuote
    <3>2. /\ new = Append(hosts, newRow)
          /\ \A id \in DOMAIN new : id \in DOMAIN hosts \/ id = Len(hosts) + 1
      BY <1>2, <1>3, <1>4, <2>2
    <3>3. QED
      BY <1>1, <1>4, <1>5, <1>7, <3>1, <3>2 DEF UniqueHostnames
  <2>3. QED
    BY <2>1, <2>2
<1>8. QED
  BY <1>1, <1>5, <1>6, <1>7 DEF new

\* ... and one row of it at a time.
LEMMA WithHostnameKeeps ==
  ASSUME NEW hosts \in Seq(Row), NEW users,
         NEW username \in Usernames, NEW hostname \in Hostnames, NEW id \in DOMAIN hosts
  PROVE  withHostname(hosts, users, username, hostname)[id] = hosts[id]
<1> DEFINE new == withHostname(hosts, users, username, hostname)
<1> HIDE DEF new
<1>1. /\ new \in Seq(Row)
      /\ DOMAIN hosts \subseteq DOMAIN new
      /\ \A i \in DOMAIN hosts : new[i] = hosts[i]
      /\ \A i \in DOMAIN new :
           i \in DOMAIN hosts \/ (new[i].hostname = hostname /\ new[i].socket_id = -1)
      /\ hostname \notin DOMAIN Escape => \E i \in DOMAIN new : new[i].hostname = hostname
      /\ (hostname \notin DOMAIN Escape /\ sqlQuote(username) \in users /\ UniqueHostnames(hosts))
           => UniqueHostnames(new)
  BY WithHostname DEF new
<1>2. QED
  BY <1>1 DEF new

\* addHostname: old rows stay, with their must_sync and, for other hosts, their
\* index; a row is the host's and holds the index, or is as it was; the host has
\* a row, and one row only, if SELECTs find names as they are.
LEMMA AddHostname ==
  ASSUME NEW hosts \in Seq(Row), NEW users,
         NEW username \in Usernames, NEW hostname \in Hostnames, NEW socketId \in Int
  PROVE  LET new == addHostname(hosts, users, username, hostname, socketId) IN
         /\ new \in Seq(Row)
         /\ DOMAIN hosts \subseteq DOMAIN new
         /\ \A id \in DOMAIN hosts :
              /\ new[id].hostname = hosts[id].hostname
              /\ new[id].must_sync = hosts[id].must_sync
              /\ hosts[id].hostname # hostname => new[id].socket_id = hosts[id].socket_id
         /\ \A id \in DOMAIN new : new[id].hostname = hostname => new[id].socket_id = socketId
         /\ (hostname \notin DOMAIN Escape) =>
              \E id \in DOMAIN new : new[id].hostname = hostname
         /\ (hostname \notin DOMAIN Escape /\ sqlQuote(username) \in users /\ UniqueHostnames(hosts))
              => UniqueHostnames(new)
<1> DEFINE withHost == withHostname(hosts, users, username, hostname)
           new == addHostname(hosts, users, username, hostname, socketId)
<1> HIDE DEF withHost
<1>1. /\ withHost \in Seq(Row)
      /\ DOMAIN hosts \subseteq DOMAIN withHost
      /\ \A id \in DOMAIN hosts : withHost[id] = hosts[id]
      /\ \A id \in DOMAIN withHost :
           id \in DOMAIN hosts \/ (withHost[id].hostname = hostname /\ withHost[id].socket_id = -1)
      /\ hostname \notin DOMAIN Escape => \E id \in DOMAIN withHost : withHost[id].hostname = hostname
      /\ (hostname \notin DOMAIN Escape /\ sqlQuote(username) \in users /\ UniqueHostnames(hosts))
           => UniqueHostnames(withHost)
  BY WithHostname DEF withHost
<1>2. new = [id \in DOMAIN withHost |->
               IF withHost[id].hostname = hostname
               THEN [withHost[id] EXCEPT !.socket_id = socketId] ELSE withHost[id]]
  BY DEF addHostname, withHost
<1> HIDE DEF new
<1>3. \A id \in DOMAIN withHost : withHost[id] \in Row
  BY <1>1, LenProperties, ElementOfSeq
<1>4. DOMAIN new = DOMAIN withHost /\ new = [id \in DOMAIN new |-> new[id]]
  BY <1>2
<1>5. \A id \in DOMAIN withHost :
        /\ new[id] \in Row
        /\ new[id].hostname = withHost[id].hostname
        /\ new[id].must_sync = withHost[id].must_sync
        /\ withHost[id].hostname # hostname => new[id].socket_id = withHost[id].socket_id
        /\ withHost[id].hostname = hostname => new[id].socket_id = socketId
  BY <1>2, <1>3 DEF Row
<1>6. new \in Seq(Row)
  BY <1>1, <1>4, <1>5, TableOfRows
<1>7. UniqueHostnames(withHost) => UniqueHostnames(new)
  BY <1>4, <1>5 DEF UniqueHostnames
<1>8. QED
  BY <1>1, <1>4, <1>5, <1>6, <1>7 DEF new

\* ... and one row of it at a time.
LEMMA AddHostnameKeeps ==
  ASSUME NEW hosts \in Seq(Row), NEW users,
         NEW username \in Usernames, NEW hostname \in Hostnames, NEW socketId \in Int,
         NEW id \in DOMAIN hosts
  PROVE  /\ addHostname(hosts, users, username, hostname, socketId)[id].hostname = hosts[id].hostname
         /\ addHostname(hosts, users, username, hostname, socketId)[id].must_sync = hosts[id].must_sync
         /\ hosts[id].hostname # hostname =>
              addHostname(hosts, users, username, hostname, socketId)[id].socket_id = hosts[id].socket_id
<1> DEFINE new == addHostname(hosts, users, username, hostname, socketId)
<1>1. \A i \in DOMAIN hosts :
        /\ new[i].hostname = hosts[i].hostname
        /\ new[i].must_sync = hosts[i].must_sync
        /\ hosts[i].hostname # hostname => new[i].socket_id = hosts[i].socket_id
  BY AddHostname
<1> HIDE DEF new
<1>2. QED
  BY <1>1 DEF new

\* ... and the rows that are not the host's are as they were.
LEMMA AddHostnameRows ==
  ASSUME NEW hosts \in Seq(Row), NEW users,
         NEW username \in Usernames, NEW hostname \in Hostnames, NEW socketId \in Int
  PROVE  LET new == addHostname(hosts, users, username, hostname, socketId) IN
         \A id \in DOMAIN new :
           \/ new[id].hostname = hostname /\ new[id].socket_id = socketId
           \/ /\ id \in DOMAIN hosts
              /\ new[id].hostname = hosts[id].hostname /\ new[id].socket_id = hosts[id].socket_id
<1> DEFINE withHost == withHostname(hosts, users, username, hostname)
           new == addHostname(hosts, users, username, hostname, socketId)
<1>1. new = [id \in DOMAIN withHost |->
               IF withHost[id].hostname = hostname
               THEN [withHost[id] EXCEPT !.socket_id = socketId] ELSE withHost[id]]
  BY DEF addHostname
<1> HIDE DEF withHost, new
<1>2. /\ withHost \in Seq(Row)
      /\ DOMAIN hosts \subseteq DOMAIN withHost
      /\ \A id \in DOMAIN hosts : withHost[id] = hosts[id]
      /\ \A id \in DOMAIN withHost :
           id \in DOMAIN hosts \/ (withHost[id].hostname = hostname /\ withHost[id].socket_id = -1)
      /\ hostname \notin DOMAIN Escape => \E id \in DOMAIN withHost : withHost[id].hostname = hostname
      /\ (hostname \notin DOMAIN Escape /\ sqlQuote(username) \in users /\ UniqueHostnames(hosts))
           => UniqueHostnames(withHost)
  BY WithHostname DEF withHost
<1>3. \A id \in DOMAIN withHost : withHost[id] \in Row
  BY <1>2, LenProperties, ElementOfSeq
<1>4. QED
  BY <1>1, <1>2, <1>3 DEF new, Row
=============================================================================
