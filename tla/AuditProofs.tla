---------------------------- MODULE AuditProofs ----------------------------
(***************************************************************************)
(* The audit chain neither forks nor loses its head, for every number of   *)
(* transactions, rows and days, on both databases.                         *)
(*                                                                         *)
(* The invariant says who may extend the chain: only the transaction that  *)
(* holds the lock has rows of its own, and a transaction that could insert *)
(* has read the tip as it is (SeesTip). Hashes get longer along the ids    *)
(* (Grows), so no hash is met twice.                                       *)
(*                                                                         *)
(* A verification finds what was changed, and nothing else: a chunk leaves *)
(* no row out, rows that were changed before it started are ahead of it    *)
(* (AheadInv), and it has the hash of the row it is at (WalkInv).          *)
(***************************************************************************)
EXTENDS AuditChain, FiniteSetTheorems, WellFoundedInduction, TLAPS

HashValue == Seq(Record)
EventType == [prev : HashValue, rec : Record, stamp : Nat, hash : HashValue]
State == {"idle", "begun", "stamped", "tip", "inserted"}

\* Tables of audit rows, and the records of transactions.
Table == UNION {[S -> EventType] : S \in SUBSET (Nat \ {0})}
TxType == [st : State, snap : Nat, prev : HashValue, stamp : Nat, rows : Table]

Types ==
  /\ nextId \in Nat /\ version \in Nat /\ day \in Nat
  /\ tip \in [id : Nat, hash : HashValue] /\ tip.id < nextId
  /\ events \in Table

TxTypes ==
  /\ tx \in [Tx -> TxType]
  /\ \A t \in Tx : tx[t].snap <= version

\* The rows of a table: hashes get longer with the ids, starting after a hash.
Grows(f) ==
  \A i \in DOMAIN f :
    /\ Len(f[i].hash) = Len(f[i].prev) + 1
    /\ \A j \in DOMAIN f : i < j => Len(f[i].hash) <= Len(f[j].prev)

\* Retention has had nothing to delete yet.
Kept == AuditDays = 0 \/ day <= AuditDays

\* The committed rows end at the tip.
Committed ==
  /\ Grows(events)
  /\ \A i \in DOMAIN events :
       /\ i <= tip.id
       /\ Len(events[i].hash) <= Len(tip.hash)
       /\ i = tip.id => events[i].hash = tip.hash
  /\ Kept /\ DOMAIN events # {} => tip.id \in DOMAIN events

Greatest(S, m) == m \in S /\ \A x \in S : x <= m
Least(S, m) == m \in S /\ \A x \in S : m <= x

\* The rows of a transaction follow the tip, and it holds the lock.
Pending ==
  \A t \in Tx :
    /\ Grows(tx[t].rows)
    /\ \A i \in DOMAIN tx[t].rows :
         tip.id < i /\ i < nextId /\ Len(tip.hash) <= Len(tx[t].rows[i].prev)
    /\ DOMAIN tx[t].rows # {} =>
         /\ lock = t
         /\ \E m \in Nat : Greatest(DOMAIN tx[t].rows, m)
         /\ \E m \in Nat : Least(DOMAIN tx[t].rows, m)
    /\ tx[t].st = "inserted" => DOMAIN tx[t].rows # {}
    /\ tx[t].st \in {"idle", "begun"} => DOMAIN tx[t].rows = {}

\* A transaction that may insert has read the tip as it is.
SeesTip ==
  \A t \in Tx :
    /\ tx[t].st = "tip" /\ Dialect = "postgres" => lock = t
    /\ tx[t].st = "tip" /\ (lock = t \/ tx[t].snap = version) => tx[t].prev = TipSeen(t)

AuditInv == Types /\ TxTypes /\ Committed /\ Pending /\ SeesTip

(***************************************************************************)
(* Tables                                                                  *)
(***************************************************************************)

\* What a table consists of.
LEMMA TableFact ==
  ASSUME NEW f \in Table
  PROVE  /\ DOMAIN f \subseteq Nat \ {0}
         /\ f \in [DOMAIN f -> EventType]
BY DEF Table

\* What makes a table.
LEMMA TableMade ==
  ASSUME NEW f, DOMAIN f \subseteq Nat \ {0}, f \in [DOMAIN f -> EventType]
  PROVE  f \in Table
BY DEF Table

\* The rows of a table with more rows.
LEMMA AddFact ==
  ASSUME NEW f, NEW g
  PROVE  /\ DOMAIN Add(f, g) = DOMAIN f \cup DOMAIN g
         /\ \A x \in DOMAIN g : Add(f, g)[x] = g[x]
         /\ \A x \in DOMAIN f \ DOMAIN g : Add(f, g)[x] = f[x]
BY DEF Add

\* It is a table.
LEMMA AddTable ==
  ASSUME NEW f \in Table, NEW g \in Table
  PROVE  Add(f, g) \in Table
<1>1. Add(f, g) \in [DOMAIN f \cup DOMAIN g -> EventType]
  BY TableFact DEF Add
<1> QED
  BY <1>1, TableFact, TableMade

\* Max of the library, where there is a greatest element.
LEMMA MaxFact ==
  ASSUME NEW S, S \subseteq Int, NEW m \in Int, Greatest(S, m)
  PROVE  Max(S) = m
<1>1. \A x \in S : (\A y \in S : x >= y) => x = m
  BY DEF Greatest
<1> QED
  BY <1>1 DEF Max, Greatest

\* Min of the library, where there is a least element.
LEMMA MinFact ==
  ASSUME NEW S, S \subseteq Int, NEW m \in Int, Least(S, m)
  PROVE  Min(S) = m
<1>1. \A x \in S : (\A y \in S : x <= y) => x = m
  BY DEF Least
<1> QED
  BY <1>1 DEF Min, Least

\* The last id of a table that has rows.
LEMMA LastIdFact ==
  ASSUME NEW f, DOMAIN f \subseteq Nat \ {0}, NEW m \in Nat, Greatest(DOMAIN f, m)
  PROVE  LastId(f) = m
<1>1. Greatest({0} \cup DOMAIN f, m)
  BY DEF Greatest
<1> QED
  BY <1>1, MaxFact DEF LastId

\* A new row.
LEMMA EventFact ==
  ASSUME NEW p \in HashValue, NEW r \in Record, NEW d \in Nat
  PROVE  /\ Event(p, r, d) \in EventType
         /\ Event(p, r, d).prev = p
         /\ Len(Event(p, r, d).hash) = Len(p) + 1
BY DEF Event, EventType, HashValue, compute_audit_row_hash

\* The tip that a transaction sees is behind all rows it sees.
LEMMA TipSeenFact ==
  ASSUME AuditInv, NEW t \in Tx
  PROVE  /\ TipSeen(t) \in HashValue
         /\ DOMAIN tx[t].rows = {} => TipSeen(t) = tip.hash
         /\ \A m \in Nat : Greatest(DOMAIN tx[t].rows, m) => TipSeen(t) = tx[t].rows[m].hash
         /\ Len(tip.hash) <= Len(TipSeen(t))
         /\ \A i \in DOMAIN tx[t].rows : Len(tx[t].rows[i].hash) <= Len(TipSeen(t))
<1>1. CASE DOMAIN tx[t].rows = {}
  BY <1>1 DEF TipSeen, AuditInv, Types, HashValue, Greatest
<1>2. CASE DOMAIN tx[t].rows # {}
  <2>1. PICK m \in Nat : Greatest(DOMAIN tx[t].rows, m)
    BY <1>2 DEF AuditInv, Pending
  <2>2. /\ tx[t].rows \in Table
        /\ DOMAIN tx[t].rows \subseteq Nat \ {0}
        /\ m \in DOMAIN tx[t].rows
        /\ tx[t].rows[m] \in EventType
    BY <2>1, TableFact DEF AuditInv, TxTypes, TxType, Greatest
  <2>3. TipSeen(t) = tx[t].rows[m].hash
    BY <1>2, <2>1, <2>2, LastIdFact DEF TipSeen
  <2>4. \A n \in Nat : Greatest(DOMAIN tx[t].rows, n) => n = m
    BY <2>1 DEF Greatest
  <2>5. \A i \in DOMAIN tx[t].rows :
          /\ i \in Nat /\ i <= m
          /\ tx[t].rows[i] \in EventType
          /\ Len(tx[t].rows[i].hash) = Len(tx[t].rows[i].prev) + 1
          /\ i < m => Len(tx[t].rows[i].hash) <= Len(tx[t].rows[m].prev)
          /\ Len(tip.hash) <= Len(tx[t].rows[i].prev)
    BY <2>1, <2>2, TableFact DEF AuditInv, Pending, Grows, Greatest
  <2>6. /\ tip.hash \in HashValue
        /\ \A i \in DOMAIN tx[t].rows :
             tx[t].rows[i].prev \in HashValue /\ tx[t].rows[i].hash \in HashValue
    BY <2>5 DEF AuditInv, Types, EventType
  <2>7. \A h \in HashValue : Len(h) \in Nat
    BY DEF HashValue
  <2>8. Len(tip.hash) <= Len(tx[t].rows[m].hash)
    BY <2>2, <2>5, <2>6, <2>7
  <2>9. \A i \in DOMAIN tx[t].rows : Len(tx[t].rows[i].hash) <= Len(tx[t].rows[m].hash)
    <3> SUFFICES ASSUME NEW i \in DOMAIN tx[t].rows
                 PROVE  Len(tx[t].rows[i].hash) <= Len(tx[t].rows[m].hash)
      OBVIOUS
    <3>1. CASE i = m
      BY <3>1, <2>6, <2>7, <2>2
    <3>2. CASE i < m
      BY <3>2, <2>2, <2>5, <2>6, <2>7
    <3> QED
      BY <3>1, <3>2, <2>5
  <2> QED
    BY <1>2, <2>2, <2>3, <2>4, <2>6, <2>8, <2>9
<1> QED
  BY <1>1, <1>2

(***************************************************************************)
(* The invariant                                                           *)
(***************************************************************************)

\* An idle transaction has no rows.
LEMMA IdleType == Idle \in TxType /\ DOMAIN Idle.rows = {} /\ NoRows \in Table
<1>1. NoRows \in [{} -> EventType]
  BY DEF NoRows
<1>2. NoRows \in Table
  BY <1>1, TableMade
<1> QED
  BY <1>1, <1>2 DEF Idle, TxType, State, NoHash, HashValue

\* At the start there are no rows.
LEMMA AuditInit == Init => AuditInv
<1> SUFFICES ASSUME Init PROVE AuditInv
  OBVIOUS
<1>1. NoHash \in HashValue /\ Len(NoHash) = 0 /\ DOMAIN NoRows = {}
  BY DEF NoHash, HashValue, NoRows
<1>2. Types
  BY <1>1, IdleType DEF Types, Init
<1>3. TxTypes
  BY IdleType DEF TxTypes, Init, Idle
<1>4. Committed
  BY <1>1 DEF Committed, Grows, Init
<1>5. Pending
  BY IdleType DEF Pending, Grows, Init, Idle
<1>6. SeesTip
  BY DEF SeesTip, Init, Idle
<1> QED
  BY <1>2, <1>3, <1>4, <1>5, <1>6 DEF AuditInv

\* Time does not go back, and retention deletes nothing before its time.
LEMMA KeptFacts ==
  ASSUME AuditInv, [Next]_vars
  PROVE  /\ Kept' => Kept
         /\ Prune => ~Kept /\ ~Kept'
<1>1. day \in Nat /\ AuditDays \in Nat /\ day' \in {day, day + 1}
  BY AuditAssumption DEF AuditInv, Types, Next, vars, Begin, Stamp, ReadTip, Insert, Commit, Rollback,
                         Tick, Prune, Edit, VerifyStart, VerifyChunk
<1>2. Kept' => Kept
  BY <1>1 DEF Kept
<1>3. ASSUME Prune PROVE ~Kept /\ ~Kept'
  <2>1. AuditDays > 0 /\ day' = day
        /\ {i \in DOMAIN events : events[i].stamp >= day - AuditDays} # DOMAIN events
    BY <1>3 DEF Prune
  <2>2. PICK i \in DOMAIN events : ~(events[i].stamp >= day - AuditDays)
    BY <2>1
  <2>3. events[i].stamp \in Nat
    BY TableFact DEF AuditInv, Types, EventType
  <2> QED
    BY <1>1, <2>1, <2>2, <2>3 DEF Kept
<1> QED
  BY <1>2, <1>3

\* Steps of the environment and of the verification leave the chain to others.
LEMMA OutsideStep ==
  ASSUME AuditInv, Tick \/ Prune \/ VerifyChunk
                     \/ (\E i \in 1..MaxId, rec \in Record : Edit(i, rec))
                     \/ (\E i \in 0..MaxId : VerifyStart(i))
  PROVE  AuditInv'
<1>0. [Next]_vars
  BY DEF Next
<1> USE DEF AuditInv
<1>1. CASE Tick
  BY <1>0, <1>1, KeptFacts DEF Tick, Types, TxTypes, Committed, Pending, SeesTip, TipSeen
<1>2. CASE Prune
  <2> DEFINE kept == {i \in DOMAIN events : events[i].stamp >= day - AuditDays}
  <2>1. events' = [i \in kept |-> events[i]] /\ UNCHANGED <<tip, nextId, lock, tx, day>>
        /\ version' = version + 1
    BY <1>2 DEF Prune
  <2>2. events' \in [kept -> EventType] /\ kept \subseteq Nat \ {0}
    BY <2>1, TableFact DEF Types
  <2>3. events' \in Table
    BY <2>1, <2>2, TableMade
  <2>4. Types'
    BY <2>1, <2>3 DEF Types
  <2>5. TxTypes'
    BY <2>1 DEF TxTypes, TxType, Types
  <2>6. Committed'
    <3>1. ~Kept'
      BY <1>0, <1>2, KeptFacts
    <3> QED
      BY <2>1, <3>1 DEF Committed, Grows
  <2>7. Pending'
    BY <2>1 DEF Pending
  <2>8. SeesTip'
    BY <2>1 DEF SeesTip, TipSeen, TxTypes, TxType, Types
  <2> QED
    BY <2>4, <2>5, <2>6, <2>7, <2>8
<1>3. CASE VerifyChunk
  BY <1>3 DEF VerifyChunk, Types, TxTypes, Committed, Kept, Pending, SeesTip, TipSeen
<1>4. ASSUME NEW i \in 1..MaxId, NEW rec \in Record, Edit(i, rec)
      PROVE  AuditInv'
  <2>1. events' = [events EXCEPT ![i].rec = rec]
        /\ UNCHANGED <<tip, nextId, lock, tx, day, version>> /\ i \in DOMAIN events
    BY <1>4 DEF Edit
  <2>2. /\ events' \in [DOMAIN events -> EventType]
        /\ DOMAIN events' = DOMAIN events
        /\ \A j \in DOMAIN events :
             events'[j].prev = events[j].prev /\ events'[j].hash = events[j].hash
    BY <2>1, TableFact DEF Types, EventType
  <2>3. events' \in Table
    BY <2>2, TableFact, TableMade DEF Types
  <2>4. Types'
    BY <2>1, <2>3 DEF Types
  <2>5. Committed'
    BY <2>1, <2>2 DEF Committed, Grows, Kept
  <2>6. TxTypes' /\ Pending' /\ SeesTip'
    BY <2>1 DEF TxTypes, Pending, SeesTip, TipSeen
  <2> QED
    BY <2>4, <2>5, <2>6
<1>5. ASSUME NEW i \in 0..MaxId, VerifyStart(i)
      PROVE  AuditInv'
  BY <1>5 DEF VerifyStart, Types, TxTypes, Committed, Kept, Pending, SeesTip, TipSeen
<1> QED
  BY <1>1, <1>2, <1>3, <1>4, <1>5

\* Begin and Stamp change nothing but the state of their transaction, and on
\* SQLite Begin may take the lock.
LEMMA BeginStep ==
  ASSUME AuditInv, NEW t \in Tx, NEW wrote \in BOOLEAN, Begin(t, wrote)
  PROVE  AuditInv'
<1> USE DEF AuditInv
<1>1. /\ tx[t].st = "idle"
      /\ tx' = [tx EXCEPT ![t] = [Idle EXCEPT !.st = "begun"]]
      /\ UNCHANGED <<events, tip, nextId, version, day>>
      /\ lock' = lock \/ (lock = NoTx /\ lock' = t)
  BY DEF Begin
<1>2. /\ [Idle EXCEPT !.st = "begun"] \in TxType
      /\ DOMAIN [Idle EXCEPT !.st = "begun"].rows = {}
      /\ [Idle EXCEPT !.st = "begun"].snap = 0
  BY IdleType DEF TxType, State, Idle
<1>3. /\ \A u \in Tx \ {t} : tx'[u] = tx[u]
      /\ tx'[t].st = "begun" /\ DOMAIN tx'[t].rows = {} /\ tx'[t].snap = 0
      /\ tx' \in [Tx -> TxType]
  BY <1>1, <1>2, IdleType DEF TxTypes, Idle
<1>4. Types' /\ Committed'
  BY <1>1 DEF Types, Committed, Kept
<1>5. TxTypes'
  BY <1>1, <1>3 DEF TxTypes, Types
<1>6. Pending'
  BY <1>1, <1>3, AuditAssumption DEF Pending, Grows
<1>7. SeesTip'
  BY <1>1, <1>3, AuditAssumption DEF SeesTip, TipSeen
<1> QED
  BY <1>4, <1>5, <1>6, <1>7

\* The time is read.
LEMMA StampStep ==
  ASSUME AuditInv, NEW t \in Tx, Stamp(t)
  PROVE  AuditInv'
<1> USE DEF AuditInv
<1>1. /\ tx[t].st \in {"begun", "inserted"}
      /\ tx' = [tx EXCEPT ![t].st = "stamped", ![t].stamp = day]
      /\ UNCHANGED <<events, tip, nextId, version, day, lock>>
  BY DEF Stamp
<1>2. /\ \A u \in Tx \ {t} : tx'[u] = tx[u]
      /\ tx'[t].st = "stamped" /\ tx'[t].rows = tx[t].rows /\ tx'[t].snap = tx[t].snap
      /\ tx' \in [Tx -> TxType]
  BY <1>1 DEF TxTypes, TxType, State, Types
<1>3. Types' /\ Committed'
  BY <1>1 DEF Types, Committed, Kept
<1>4. TxTypes'
  BY <1>1, <1>2 DEF TxTypes, Types
<1>5. Pending'
  BY <1>1, <1>2 DEF Pending
<1>6. SeesTip'
  BY <1>1, <1>2 DEF SeesTip, TipSeen
<1> QED
  BY <1>3, <1>4, <1>5, <1>6

\* The tip is read, on Postgres under the lock.
LEMMA ReadTipStep ==
  ASSUME AuditInv, NEW t \in Tx, ReadTip(t)
  PROVE  AuditInv'
<1>0. TipSeen(t) \in HashValue
  BY TipSeenFact
<1> USE DEF AuditInv
<1>1. /\ tx[t].st = "stamped"
      /\ tx' = [tx EXCEPT ![t].st = "tip", ![t].prev = TipSeen(t), ![t].snap = version]
      /\ UNCHANGED <<events, tip, nextId, version, day>>
      /\ lock' = lock \/ (lock = NoTx /\ lock' = t)
      /\ Dialect = "postgres" => lock' = t
  BY DEF ReadTip
<1>2. /\ \A u \in Tx \ {t} : tx'[u] = tx[u]
      /\ tx'[t].st = "tip" /\ tx'[t].rows = tx[t].rows /\ tx'[t].snap = version
      /\ tx'[t].prev = TipSeen(t)
      /\ tx' \in [Tx -> TxType]
  BY <1>0, <1>1 DEF TxTypes, TxType, State, Types
<1>3. Types' /\ Committed'
  BY <1>1 DEF Types, Committed, Kept
<1>4. TxTypes'
  BY <1>1, <1>2 DEF TxTypes, Types
<1>5. Pending'
  BY <1>1, <1>2, AuditAssumption DEF Pending
<1>6. SeesTip'
  <2>1. \A u \in Tx : TipSeen(u)' = TipSeen(u)
    BY <1>1, <1>2 DEF TipSeen
  <2> QED
    BY <2>1, <1>1, <1>2, AuditAssumption DEF SeesTip
<1> QED
  BY <1>3, <1>4, <1>5, <1>6

\* A row is inserted, after the tip as the transaction sees it.
LEMMA InsertStep ==
  ASSUME AuditInv, NEW t \in Tx, NEW rec \in Record, Insert(t, rec)
  PROVE  AuditInv'
<1> DEFINE e    == Event(tx[t].prev, rec, tx[t].stamp)
           old  == tx[t].rows
           rows == Add(old, [i \in {nextId} |-> e])
<1>1. /\ tx[t].st = "tip"
      /\ MayInsert(t)
      /\ tx' = [tx EXCEPT ![t].st = "inserted", ![t].rows = rows]
      /\ lock' = IF Dialect = "sqlite" THEN t ELSE lock
      /\ nextId' = nextId + 1
      /\ UNCHANGED <<events, tip, version, day>>
  BY DEF Insert
<1>2. tx[t] \in TxType /\ old \in Table /\ nextId \in Nat /\ tip.id \in Nat
      /\ tip.id < nextId /\ tx[t].prev \in HashValue /\ tip.hash \in HashValue
  BY DEF AuditInv, TxTypes, TxType, Types
<1>3. tx[t].prev = TipSeen(t) /\ lock' = t /\ lock \in {t, NoTx}
      /\ (Dialect = "postgres" => lock = t)
  BY <1>1, AuditAssumption DEF AuditInv, SeesTip, MayInsert
<1>4. /\ e \in EventType
      /\ e.prev = TipSeen(t)
      /\ Len(e.hash) = Len(TipSeen(t)) + 1
  BY <1>2, <1>3, EventFact DEF TxType
<1>5. nextId \in Nat \ {0}
  BY <1>2
<1>6. [i \in {nextId} |-> e] \in Table
  BY <1>4, <1>5, TableMade
<1>7. /\ rows \in Table
      /\ DOMAIN rows = DOMAIN old \cup {nextId}
      /\ rows[nextId] = e
      /\ \A i \in DOMAIN old \ {nextId} : rows[i] = old[i]
  <2> DEFINE new == [i \in {nextId} |-> e]
  <2>1. DOMAIN new = {nextId} /\ new[nextId] = e
    OBVIOUS
  <2>2. rows \in Table
    BY <1>2, <1>6, AddTable
  <2>3. /\ DOMAIN rows = DOMAIN old \cup DOMAIN new
        /\ \A x \in DOMAIN new : rows[x] = new[x]
        /\ \A x \in DOMAIN old \ DOMAIN new : rows[x] = old[x]
    BY AddFact
  <2> HIDE DEF e, old, rows, new
  <2> QED
    BY <2>1, <2>2, <2>3
<1>8. \A i \in DOMAIN old :
        /\ i \in Nat /\ tip.id < i /\ i < nextId
        /\ old[i].hash \in HashValue /\ old[i].prev \in HashValue
        /\ Len(tip.hash) <= Len(old[i].prev)
        /\ Len(old[i].hash) <= Len(TipSeen(t))
  BY <1>2, TableFact, TipSeenFact DEF AuditInv, Pending, EventType
<1>9. /\ \A u \in Tx \ {t} : tx'[u] = tx[u]
      /\ tx'[t].st = "inserted" /\ tx'[t].rows = rows /\ tx'[t].snap = tx[t].snap
      /\ tx' \in [Tx -> TxType]
  BY <1>1, <1>7 DEF AuditInv, TxTypes, TxType, State
<1>10. Len(tip.hash) <= Len(TipSeen(t)) /\ TipSeen(t) \in HashValue
  BY TipSeenFact
<1>11. Types' /\ Committed'
  BY <1>1, <1>2 DEF AuditInv, Types, Committed, Kept
<1>12. TxTypes'
  BY <1>1, <1>9 DEF AuditInv, TxTypes
<1>13. Grows(rows)
  <2> SUFFICES ASSUME NEW i \in DOMAIN rows
               PROVE  /\ Len(rows[i].hash) = Len(rows[i].prev) + 1
                      /\ \A j \in DOMAIN rows : i < j => Len(rows[i].hash) <= Len(rows[j].prev)
    BY DEF Grows
  <2>1. CASE i = nextId
    BY <2>1, <1>2, <1>4, <1>7, <1>8
  <2>2. CASE i \in DOMAIN old
    <3>1. i # nextId /\ rows[i] = old[i]
      BY <2>2, <1>2, <1>7, <1>8
    <3>2. Len(old[i].hash) = Len(old[i].prev) + 1
          /\ \A j \in DOMAIN old : i < j => Len(old[i].hash) <= Len(old[j].prev)
      BY <2>2 DEF AuditInv, Pending, Grows
    <3>3. \A j \in DOMAIN old : rows[j] = old[j]
      BY <1>2, <1>7, <1>8
    <3> QED
      BY <2>2, <3>1, <3>2, <3>3, <1>4, <1>7, <1>8
  <2> QED
    BY <2>1, <2>2, <1>7
<1>14. /\ \A i \in DOMAIN rows :
            tip.id < i /\ i < nextId + 1 /\ Len(tip.hash) <= Len(rows[i].prev)
       /\ Greatest(DOMAIN rows, nextId)
       /\ \E m \in Nat : Least(DOMAIN rows, m)
  <2>1. \A i \in DOMAIN rows :
          tip.id < i /\ i < nextId + 1 /\ Len(tip.hash) <= Len(rows[i].prev)
    BY <1>2, <1>4, <1>7, <1>8, <1>10
  <2>2. Greatest(DOMAIN rows, nextId)
    BY <1>2, <1>7, <1>8 DEF Greatest
  <2>3. CASE DOMAIN old = {}
    <3>1. Least(DOMAIN rows, nextId)
      BY <2>3, <1>2, <1>7 DEF Least
    <3> QED
      BY <2>1, <2>2, <3>1, <1>2
  <2>4. CASE DOMAIN old # {}
    <3>1. PICK m \in Nat : Least(DOMAIN old, m)
      BY <2>4 DEF AuditInv, Pending
    <3>2. Least(DOMAIN rows, m)
      BY <3>1, <1>2, <1>7, <1>8 DEF Least
    <3> QED
      BY <2>1, <2>2, <3>2
  <2> QED
    BY <2>1, <2>2, <2>3, <2>4
<1>15. \A u \in Tx \ {t} : DOMAIN tx[u].rows = {}
  BY <1>3, AuditAssumption DEF AuditInv, Pending
<1>16. Pending'
  <2>1. \A u \in Tx \ {t} :
          /\ DOMAIN tx'[u].rows = {}
          /\ tx'[u].st = "inserted" => DOMAIN tx'[u].rows # {}
    BY <1>9, <1>15 DEF AuditInv, Pending
  <2> QED
    BY <2>1, <1>1, <1>2, <1>3, <1>7, <1>9, <1>13, <1>14 DEF Pending, Grows
<1>17. SeesTip'
  BY <1>1, <1>3, <1>9, AuditAssumption DEF AuditInv, SeesTip, TipSeen
<1> QED
  BY <1>11, <1>12, <1>16, <1>17 DEF AuditInv

\* The rows of a transaction become visible, and its last one the tip.
LEMMA CommitStep ==
  ASSUME AuditInv, NEW t \in Tx, Commit(t)
  PROVE  AuditInv'
<1> DEFINE rows == tx[t].rows
<1>1. /\ tx[t].st = "inserted"
      /\ events' = Add(events, rows)
      /\ tip' = NewTip(rows)
      /\ version' = version + 1 /\ lock' = NoTx
      /\ tx' = [tx EXCEPT ![t] = Idle]
      /\ UNCHANGED <<nextId, day>>
  BY DEF Commit
<1>2. /\ rows \in Table /\ events \in Table /\ DOMAIN rows # {} /\ lock = t
      /\ DOMAIN rows \subseteq Nat /\ DOMAIN events \subseteq Nat
      /\ nextId \in Nat /\ tip.id \in Nat /\ tip.hash \in HashValue /\ version \in Nat
  BY <1>1, TableFact DEF AuditInv, Types, TxTypes, TxType, Pending
<1>3. PICK m \in Nat : Greatest(DOMAIN rows, m)
  BY <1>2 DEF AuditInv, Pending
<1>4. /\ tip'.id = m /\ tip'.hash = rows[m].hash /\ m \in DOMAIN rows
      /\ tip' \in [id : Nat, hash : HashValue]
  BY <1>1, <1>2, <1>3, TableFact, LastIdFact DEF NewTip, Greatest, EventType
<1>5. /\ DOMAIN events' = DOMAIN events \cup DOMAIN rows
      /\ events' \in Table
      /\ \A i \in DOMAIN rows : events'[i] = rows[i]
      /\ \A i \in DOMAIN events : i \notin DOMAIN rows /\ events'[i] = events[i]
  <2>1. \A i \in DOMAIN events : i \notin DOMAIN rows
    BY <1>2 DEF AuditInv, Committed, Pending
  <2>2. events' \in Table
    BY <1>1, <1>2, AddTable
  <2>3. /\ DOMAIN events' = DOMAIN events \cup DOMAIN rows
        /\ \A x \in DOMAIN rows : events'[x] = rows[x]
        /\ \A x \in DOMAIN events \ DOMAIN rows : events'[x] = events[x]
    <3>1. events' = Add(events, rows)
      BY <1>1
    <3>2. /\ DOMAIN Add(events, rows) = DOMAIN events \cup DOMAIN rows
          /\ \A x \in DOMAIN rows : Add(events, rows)[x] = rows[x]
          /\ \A x \in DOMAIN events \ DOMAIN rows : Add(events, rows)[x] = events[x]
      BY AddFact
    <3> QED
      BY ONLY <3>1, <3>2
  <2> QED
    BY <2>1, <2>2, <2>3
<1>6. /\ \A u \in Tx \ {t} : tx'[u] = tx[u] /\ DOMAIN tx[u].rows = {}
      /\ tx'[t] = Idle /\ tx' \in [Tx -> TxType]
  BY <1>1, <1>2, IdleType DEF AuditInv, TxTypes, Pending
<1>7. Types'
  BY <1>1, <1>2, <1>3, <1>4, <1>5 DEF AuditInv, Types, Pending
<1>8. TxTypes'
  BY <1>1, <1>2, <1>6 DEF AuditInv, TxTypes, TxType, Idle
<1>9. /\ \A i \in DOMAIN rows :
           /\ tip.id < i /\ i <= m
           /\ rows[i].prev \in HashValue /\ rows[i].hash \in HashValue
           /\ Len(tip.hash) <= Len(rows[i].prev)
           /\ Len(rows[i].hash) <= Len(rows[m].hash)
      /\ \A i \in DOMAIN events :
           /\ i <= tip.id
           /\ events[i].prev \in HashValue /\ events[i].hash \in HashValue
           /\ Len(events[i].hash) <= Len(tip.hash)
      /\ Grows(rows) /\ Grows(events)
  <2>1. TipSeen(t) = rows[m].hash
    BY <1>3, TipSeenFact
  <2>2. \A i \in DOMAIN rows : Len(rows[i].hash) <= Len(TipSeen(t))
    BY TipSeenFact
  <2> QED
    BY <1>2, <1>3, <2>1, <2>2, TableFact
    DEF AuditInv, Pending, Committed, EventType, Greatest
<1>10. \A h \in HashValue : Len(h) \in Nat
  BY DEF HashValue
<1>11. \A i \in DOMAIN events, j \in DOMAIN rows :
         /\ i < j
         /\ Len(events[i].hash) <= Len(rows[j].prev)
         /\ Len(events[i].hash) <= Len(rows[m].hash)
  <2> SUFFICES ASSUME NEW i \in DOMAIN events, NEW j \in DOMAIN rows
               PROVE  /\ i < j
                      /\ Len(events[i].hash) <= Len(rows[j].prev)
                      /\ Len(events[i].hash) <= Len(rows[m].hash)
    OBVIOUS
  <2>1. Len(rows[m].hash) = Len(rows[m].prev) + 1
    BY <1>4, <1>9 DEF Grows
  <2>2. i < j
    BY <1>2, <1>9
  <2>3. /\ Len(events[i].hash) \in Nat /\ Len(tip.hash) \in Nat
        /\ Len(rows[j].prev) \in Nat /\ Len(rows[m].prev) \in Nat
    BY <1>2, <1>4, <1>9, <1>10
  <2>4. Len(events[i].hash) <= Len(tip.hash) /\ Len(tip.hash) <= Len(rows[j].prev)
        /\ Len(tip.hash) <= Len(rows[m].prev)
    BY <1>4, <1>9
  <2> HIDE DEF rows
  <2> QED
    BY <2>1, <2>2, <2>3, <2>4
<1>12. Grows(events)'
  <2> SUFFICES ASSUME NEW i \in DOMAIN events'
               PROVE  /\ Len(events'[i].hash) = Len(events'[i].prev) + 1
                      /\ \A j \in DOMAIN events' :
                           i < j => Len(events'[i].hash) <= Len(events'[j].prev)
    BY DEF Grows
  <2>1. CASE i \in DOMAIN events
    BY <2>1, <1>5, <1>9, <1>11 DEF Grows
  <2>2. CASE i \in DOMAIN rows
    <3>1. \A j \in DOMAIN events : ~(i < j)
      BY <2>2, <1>2, <1>11
    <3> QED
      BY <3>1, <2>2, <1>5, <1>9 DEF Grows
  <2> QED
    BY <2>1, <2>2, <1>5
<1>13. Committed'
  <2>1. \A i \in DOMAIN events' :
          /\ i <= m
          /\ Len(events'[i].hash) <= Len(rows[m].hash)
          /\ i = m => events'[i].hash = rows[m].hash
    BY <1>2, <1>4, <1>5, <1>9, <1>11
  <2> QED
    BY <2>1, <1>1, <1>4, <1>5, <1>12 DEF Committed, Kept
<1>14. Pending'
  <2>1. \A u \in Tx : DOMAIN tx'[u].rows = {}
    BY <1>6, IdleType
  <2>2. \A u \in Tx : tx'[u].st # "inserted"
    BY <1>6 DEF AuditInv, Pending, Idle
  <2> QED
    BY <2>1, <2>2 DEF Pending, Grows
<1>15. SeesTip'
  <2>1. \A u \in Tx \ {t} : tx'[u].snap # version' /\ lock' # u
    BY <1>1, <1>2, <1>6, AuditAssumption DEF AuditInv, TxTypes, TxType
  <2>2. \A u \in Tx \ {t} : tx'[u].st = "tip" => Dialect # "postgres"
    BY <1>2, <1>6 DEF AuditInv, SeesTip
  <2>3. tx'[t].st # "tip"
    BY <1>6 DEF Idle
  <2> QED
    BY <2>1, <2>2, <2>3 DEF SeesTip
<1> QED
  BY <1>7, <1>8, <1>13, <1>14, <1>15 DEF AuditInv

\* The rows of a transaction are gone; SQLite uses their ids again.
LEMMA RollbackStep ==
  ASSUME AuditInv, NEW t \in Tx, Rollback(t)
  PROVE  AuditInv'
<1> DEFINE rows == tx[t].rows
<1>1. /\ lock' = IF lock = t THEN NoTx ELSE lock
      /\ nextId' = IF Dialect = "sqlite" /\ DOMAIN rows # {} THEN Min(DOMAIN rows) ELSE nextId
      /\ tx' = [tx EXCEPT ![t] = Idle]
      /\ UNCHANGED <<events, tip, version, day>>
  BY DEF Rollback
<1>2. /\ \A u \in Tx \ {t} : tx'[u] = tx[u]
      /\ tx'[t] = Idle /\ tx' \in [Tx -> TxType]
  BY <1>1, IdleType DEF AuditInv, TxTypes
<1>3. \/ nextId' = nextId
      \/ /\ nextId' \in Nat /\ tip.id < nextId'
         /\ \A u \in Tx \ {t} : DOMAIN tx[u].rows = {}
  <2>1. CASE Dialect = "sqlite" /\ DOMAIN rows # {}
    <3>1. PICK m \in Nat : Least(DOMAIN rows, m)
      BY <2>1 DEF AuditInv, Pending
    <3>2. DOMAIN rows \subseteq Int
      BY TableFact DEF AuditInv, TxTypes, TxType
    <3>3. nextId' = m /\ m \in DOMAIN rows
      BY <1>1, <2>1, <3>1, <3>2, MinFact DEF Least
    <3>4. lock = t
      BY <2>1 DEF AuditInv, Pending
    <3> QED
      BY <3>1, <3>3, <3>4 DEF AuditInv, Pending
  <2> QED
    BY <1>1, <2>1
<1>4. Types' /\ Committed'
  BY <1>1, <1>3 DEF AuditInv, Types, Committed, Kept
<1>5. TxTypes'
  BY <1>1, <1>2 DEF AuditInv, TxTypes, Types, Idle
<1>6. Pending'
  <2>1. \A u \in Tx : DOMAIN tx'[u].rows # {} => u # t /\ lock' = u /\ nextId' = nextId
    BY <1>1, <1>2, <1>3, IdleType DEF AuditInv, Pending
  <2>2. DOMAIN tx'[t].rows = {} /\ tx'[t].st = "idle"
    BY <1>2, IdleType DEF Idle
  <2> QED
    BY <1>1, <1>2, <2>1, <2>2 DEF AuditInv, Pending, Grows
<1>7. SeesTip'
  BY <1>1, <1>2, AuditAssumption DEF AuditInv, SeesTip, TipSeen, Idle
<1> QED
  BY <1>4, <1>5, <1>6, <1>7 DEF AuditInv

\* Every step keeps the invariant.
LEMMA AuditNext == AuditInv /\ [Next]_vars => AuditInv'
<1> SUFFICES ASSUME AuditInv, [Next]_vars PROVE AuditInv'
  OBVIOUS
<1>1. CASE UNCHANGED vars
  BY <1>1 DEF vars, AuditInv, Types, TxTypes, Committed, Kept, Pending, SeesTip, TipSeen
<1>2. CASE Next
  BY <1>2, OutsideStep, BeginStep, StampStep, ReadTipStep, InsertStep, CommitStep,
     RollbackStep DEF Next
<1> QED
  BY <1>1, <1>2

\* record_audit_on: only the transaction that holds the lock extends the chain, and it
\* has read the tip as it is.
THEOREM AuditInvCorrect == Spec => []AuditInv
BY AuditInit, AuditNext, PTL DEF Spec

\* record_audit_on: two rows never claim the same predecessor, on Postgres because
\* of FOR UPDATE and on SQLite because of snapshot promotion.
THEOREM NoForkCorrect == Spec => []NoFork
<1>1. AuditInv => NoFork
  <2> SUFFICES ASSUME AuditInv, NEW i \in DOMAIN events, NEW j \in DOMAIN events
               PROVE  /\ events[i].prev = events[j].prev => i = j
                      /\ events[i].hash = events[j].prev => i < j
    BY DEF NoFork
  <2>1. /\ i \in Nat /\ j \in Nat
        /\ events[i].prev \in HashValue /\ events[i].hash \in HashValue
        /\ events[j].prev \in HashValue /\ events[j].hash \in HashValue
    BY TableFact DEF AuditInv, Types, EventType
  <2>2. \A h \in HashValue : Len(h) \in Nat
    BY DEF HashValue
  <2>3. /\ Len(events[i].hash) = Len(events[i].prev) + 1
        /\ Len(events[j].hash) = Len(events[j].prev) + 1
        /\ i < j => Len(events[i].hash) <= Len(events[j].prev)
        /\ j < i => Len(events[j].hash) <= Len(events[i].prev)
    BY DEF AuditInv, Committed, Grows
  <2>4. \/ i = j
        \/ i < j /\ Len(events[i].prev) # Len(events[j].prev)
        \/ j < i /\ Len(events[i].prev) # Len(events[j].prev)
                 /\ Len(events[i].hash) # Len(events[j].prev)
    BY <2>1, <2>2, <2>3
  <2>5. Len(events[i].hash) # Len(events[i].prev)
    BY <2>1, <2>2, <2>3
  <2> QED
    BY <2>1, <2>4, <2>5
<1> QED
  BY <1>1, AuditInvCorrect, PTL

\* audit_chain_tip names the row with the highest id, whatever ids rollbacks used
\* up, and the row is there as long as retention deletes nothing.
THEOREM TipIsHeadCorrect == Spec => []TipIsHead
<1>1. AuditInv => TipIsHead
  BY DEF AuditInv, Committed, TipIsHead, Kept
<1> QED
  BY <1>1, AuditInvCorrect, PTL

(***************************************************************************)
(* Rows name the row before them                                           *)
(***************************************************************************)

\* The rows of f in id order are linked, and the first follows the hash h.
Linked(f, h) ==
  \A i \in DOMAIN f :
    \/ (\A j \in DOMAIN f : i <= j) /\ f[i].prev = h
    \/ \E j \in DOMAIN f :
         /\ j < i /\ \A k \in DOMAIN f : k < i => k <= j
         /\ f[i].prev = f[j].hash

LinkInv ==
  Kept =>
    /\ Linked(events, NoHash)
    /\ DOMAIN events = {} => tip.hash = NoHash
    /\ \A t \in Tx : Linked(tx[t].rows, tip.hash)

\* No rows are linked.
LEMMA LinkInit == Init => LinkInv
<1>1. DOMAIN NoRows = {}
  BY DEF NoRows
<1> QED
  BY <1>1, IdleType DEF Init, LinkInv, Linked

\* Steps that insert and commit nothing.
LEMMA LinkKept ==
  ASSUME LinkInv, Kept, tip' = tip,
         DOMAIN events' = DOMAIN events,
         \A i \in DOMAIN events :
           events'[i].prev = events[i].prev /\ events'[i].hash = events[i].hash,
         \A u \in Tx : tx'[u].rows = tx[u].rows \/ DOMAIN tx'[u].rows = {}
  PROVE  LinkInv'
<1>1. Linked(events', NoHash)
  BY DEF LinkInv, Linked
<1>2. \A u \in Tx : Linked(tx'[u].rows, tip.hash)
  BY DEF LinkInv, Linked
<1> QED
  BY <1>1, <1>2 DEF LinkInv

\* A row is linked to the tip that its transaction sees.
LEMMA LinkInsert ==
  ASSUME AuditInv, LinkInv, Kept,
         NEW t \in Tx, NEW rec \in Record, Insert(t, rec)
  PROVE  LinkInv'
<1> DEFINE e    == Event(tx[t].prev, rec, tx[t].stamp)
           old  == tx[t].rows
           new  == [i \in {nextId} |-> e]
           rows == Add(old, new)
<1>1. /\ \A u \in Tx \ {t} : tx'[u] = tx[u]
      /\ tx'[t].rows = rows
      /\ UNCHANGED <<events, tip>>
  BY DEF Insert, AuditInv, TxTypes, TxType
<1>2. /\ DOMAIN rows = DOMAIN old \cup DOMAIN new
      /\ \A x \in DOMAIN new : rows[x] = new[x]
      /\ \A x \in DOMAIN old \ DOMAIN new : rows[x] = old[x]
  BY AddFact
<1>3. DOMAIN new = {nextId} /\ new[nextId] = e
  OBVIOUS
<1>4. e.prev = TipSeen(t)
  BY AuditAssumption DEF Insert, AuditInv, SeesTip, MayInsert, Event
<1>5. nextId \in Nat /\ old \in Table /\ \A i \in DOMAIN old : i \in Nat /\ i < nextId
  BY TableFact DEF AuditInv, Types, TxTypes, TxType, Pending
<1>6. \/ DOMAIN old = {} /\ TipSeen(t) = tip.hash
      \/ \E m \in Nat : Greatest(DOMAIN old, m) /\ TipSeen(t) = old[m].hash
  <2>1. CASE DOMAIN old = {}
    BY <2>1, TipSeenFact
  <2>2. CASE DOMAIN old # {}
    <3>1. PICK m \in Nat : Greatest(DOMAIN old, m)
      BY <2>2 DEF AuditInv, Pending
    <3>2. TipSeen(t) = old[m].hash
      BY <3>1, TipSeenFact
    <3> QED
      BY <3>1, <3>2
  <2> QED
    BY <2>1, <2>2
<1>7. Linked(old, tip.hash)
  BY DEF LinkInv
<1>8. Linked(rows, tip.hash)
  <2> HIDE DEF e, old, new, rows
  <2>1. /\ \A i \in DOMAIN old : rows[i] = old[i]
        /\ rows[nextId] = e /\ DOMAIN rows = DOMAIN old \cup {nextId}
    BY <1>2, <1>3, <1>5
  <2>2. ASSUME NEW i \in DOMAIN old
        PROVE  \/ (\A j \in DOMAIN rows : i <= j) /\ rows[i].prev = tip.hash
               \/ \E j \in DOMAIN rows :
                    /\ j < i /\ \A k \in DOMAIN rows : k < i => k <= j
                    /\ rows[i].prev = rows[j].hash
    <3>1. CASE (\A j \in DOMAIN old : i <= j) /\ old[i].prev = tip.hash
      BY <3>1, <2>1, <1>5
    <3>2. ASSUME NEW j \in DOMAIN old, j < i, \A k \in DOMAIN old : k < i => k <= j,
                 old[i].prev = old[j].hash
          PROVE  \E n \in DOMAIN rows :
                   /\ n < i /\ \A k \in DOMAIN rows : k < i => k <= n
                   /\ rows[i].prev = rows[n].hash
      <4>1. \A k \in DOMAIN rows : k < i => k <= j
        BY <3>2, <2>1, <1>5
      <4> QED
        BY <4>1, <3>2, <2>1
    <3> QED
      BY <3>1, <3>2, <1>7 DEF Linked
  <2>3. \/ (\A j \in DOMAIN rows : nextId <= j) /\ rows[nextId].prev = tip.hash
        \/ \E j \in DOMAIN rows :
             /\ j < nextId /\ \A k \in DOMAIN rows : k < nextId => k <= j
             /\ rows[nextId].prev = rows[j].hash
    <3>1. CASE DOMAIN old = {} /\ TipSeen(t) = tip.hash
      BY <3>1, <2>1, <1>4, <1>5
    <3>2. ASSUME NEW m \in Nat, Greatest(DOMAIN old, m), TipSeen(t) = old[m].hash
          PROVE  \E j \in DOMAIN rows :
                   /\ j < nextId /\ \A k \in DOMAIN rows : k < nextId => k <= j
                   /\ rows[nextId].prev = rows[j].hash
      <4>1. m \in DOMAIN old /\ \A k \in DOMAIN rows : k < nextId => k <= m
        BY <3>2, <2>1, <1>5 DEF Greatest
      <4> QED
        BY <4>1, <3>2, <2>1, <1>4, <1>5
    <3> QED
      BY <3>1, <3>2, <1>6
  <2> QED
    BY <2>1, <2>2, <2>3 DEF Linked
<1> QED
  BY <1>1, <1>8 DEF LinkInv

\* The first row of a transaction is linked to the last one that was committed.
LEMMA LinkCommit ==
  ASSUME AuditInv, LinkInv, Kept, NEW t \in Tx, Commit(t)
  PROVE  LinkInv'
<1> DEFINE rows == tx[t].rows
<1>1. /\ tx[t].st = "inserted"
      /\ events' = Add(events, rows)
      /\ \A u \in Tx \ {t} : tx'[u] = tx[u]
      /\ tx'[t] = Idle
  BY DEF Commit, AuditInv, TxTypes
<1>2. \A u \in Tx : DOMAIN tx'[u].rows = {}
  BY <1>1, IdleType DEF AuditInv, Pending
<1>3. rows \in Table /\ events \in Table /\ DOMAIN rows # {} /\ tip.id \in Nat
      /\ DOMAIN rows \subseteq Nat /\ DOMAIN events \subseteq Nat
  BY <1>1, TableFact DEF AuditInv, Types, TxTypes, TxType, Pending
<1>4. /\ \A i \in DOMAIN rows : tip.id < i
      /\ \A i \in DOMAIN events : i <= tip.id
      /\ DOMAIN events # {} => tip.id \in DOMAIN events /\ events[tip.id].hash = tip.hash
      /\ DOMAIN events = {} => tip.hash = NoHash
  BY DEF AuditInv, Pending, Committed, LinkInv
<1>5. \A i \in DOMAIN events, j \in DOMAIN rows : i < j /\ i # j /\ ~(j < i) /\ i <= j
  BY <1>3, <1>4
<1>6. /\ DOMAIN events' = DOMAIN events \cup DOMAIN rows
      /\ \A x \in DOMAIN rows : events'[x] = rows[x]
      /\ \A x \in DOMAIN events : events'[x] = events[x]
  <2>1. /\ DOMAIN Add(events, rows) = DOMAIN events \cup DOMAIN rows
        /\ \A x \in DOMAIN rows : Add(events, rows)[x] = rows[x]
        /\ \A x \in DOMAIN events \ DOMAIN rows : Add(events, rows)[x] = events[x]
    BY AddFact
  <2> QED
    BY <2>1, <1>1, <1>5
<1>7. Linked(rows, tip.hash) /\ Linked(events, NoHash)
  BY DEF LinkInv
<1> HIDE DEF rows
<1>8. ASSUME NEW i \in DOMAIN events
      PROVE  \/ (\A j \in DOMAIN events' : i <= j) /\ events'[i].prev = NoHash
             \/ \E j \in DOMAIN events' :
                  /\ j < i /\ \A k \in DOMAIN events' : k < i => k <= j
                  /\ events'[i].prev = events'[j].hash
  <2>1. CASE (\A j \in DOMAIN events : i <= j) /\ events[i].prev = NoHash
    BY <2>1, <1>5, <1>6
  <2>2. ASSUME NEW j \in DOMAIN events, j < i,
               \A k \in DOMAIN events : k < i => k <= j,
               events[i].prev = events[j].hash
        PROVE  \E n \in DOMAIN events' :
                 /\ n < i /\ \A k \in DOMAIN events' : k < i => k <= n
                 /\ events'[i].prev = events'[n].hash
    BY <2>2, <1>5, <1>6
  <2> QED
    BY <2>1, <2>2, <1>7 DEF Linked
<1>9. ASSUME NEW i \in DOMAIN rows
      PROVE  \/ (\A j \in DOMAIN events' : i <= j) /\ events'[i].prev = NoHash
             \/ \E j \in DOMAIN events' :
                  /\ j < i /\ \A k \in DOMAIN events' : k < i => k <= j
                  /\ events'[i].prev = events'[j].hash
  <2>1. CASE /\ \A j \in DOMAIN rows : i <= j
             /\ rows[i].prev = tip.hash
    <3>1. CASE DOMAIN events = {}
      BY <2>1, <3>1, <1>4, <1>6
    <3>2. CASE DOMAIN events # {}
      <4>1. /\ tip.id \in DOMAIN events' /\ tip.id < i
            /\ events'[i].prev = events'[tip.id].hash
        BY <2>1, <3>2, <1>4, <1>6
      <4>2. \A k \in DOMAIN events' : k < i => k <= tip.id
        BY <2>1, <1>3, <1>4, <1>6
      <4> QED
        BY <4>1, <4>2
    <3> QED
      BY <3>1, <3>2
  <2>2. ASSUME NEW j \in DOMAIN rows, j < i,
               \A k \in DOMAIN rows : k < i => k <= j,
               rows[i].prev = rows[j].hash
        PROVE  \E n \in DOMAIN events' :
                 /\ n < i /\ \A k \in DOMAIN events' : k < i => k <= n
                 /\ events'[i].prev = events'[n].hash
    BY <2>2, <1>5, <1>6
  <2> QED
    BY <2>1, <2>2, <1>7 DEF Linked
<1>10. Linked(events', NoHash)
  BY <1>6, <1>8, <1>9 DEF Linked
<1>11. DOMAIN events' # {} /\ \A u \in Tx : Linked(tx'[u].rows, tip'.hash)
  BY <1>2, <1>3, <1>6 DEF Linked
<1> QED
  BY <1>10, <1>11 DEF LinkInv

\* Every step keeps rows linked while none is deleted.
LEMMA LinkNext == AuditInv /\ LinkInv /\ [Next]_vars => LinkInv'
<1> SUFFICES ASSUME AuditInv, LinkInv, [Next]_vars, Kept' PROVE LinkInv'
  BY DEF LinkInv
<1>0. Kept
  BY KeptFacts
<1>1. CASE UNCHANGED vars
  BY <1>0, <1>1, LinkKept DEF vars
<1>2. ASSUME NEW t \in Tx, NEW wrote \in BOOLEAN, Begin(t, wrote) PROVE LinkInv'
  BY <1>0, <1>2, LinkKept, IdleType DEF Begin, AuditInv, TxTypes, Idle
<1>3. ASSUME NEW t \in Tx, Stamp(t) PROVE LinkInv'
  BY <1>0, <1>3, LinkKept DEF Stamp, AuditInv, TxTypes, TxType
<1>4. ASSUME NEW t \in Tx, ReadTip(t) PROVE LinkInv'
  BY <1>0, <1>4, LinkKept DEF ReadTip, AuditInv, TxTypes, TxType
<1>5. ASSUME NEW t \in Tx, Rollback(t) PROVE LinkInv'
  BY <1>0, <1>5, LinkKept, IdleType DEF Rollback, AuditInv, TxTypes
<1>6. CASE Tick
  BY <1>0, <1>6, LinkKept DEF Tick
<1>7. CASE Prune
  BY <1>0, <1>7, KeptFacts
<1>8. ASSUME NEW i \in 1..MaxId, NEW rec \in Record, Edit(i, rec) PROVE LinkInv'
  <2>1. events \in [DOMAIN events -> EventType]
    BY TableFact DEF AuditInv, Types
  <2>2. /\ tip' = tip /\ tx' = tx /\ DOMAIN events' = DOMAIN events
        /\ \A j \in DOMAIN events :
             events'[j].prev = events[j].prev /\ events'[j].hash = events[j].hash
    BY <1>8, <2>1 DEF Edit, EventType
  <2> QED
    BY <1>0, <2>2, LinkKept
<1>9. ASSUME NEW i \in 0..MaxId, VerifyStart(i) PROVE LinkInv'
  BY <1>0, <1>9, LinkKept DEF VerifyStart
<1>10. CASE VerifyChunk
  BY <1>0, <1>10, LinkKept DEF VerifyChunk
<1> QED
  BY <1>0, <1>1, <1>2, <1>3, <1>4, <1>5, <1>6, <1>7, <1>8, <1>9, <1>10,
     LinkInsert, LinkCommit DEF Next

\* While no row is deleted, each row names the row before it in id order: what
\* audit_verify_chain_from relies on.
THEOREM ChainIsLinearCorrect == Spec => []ChainIsLinear
<1>1. AuditInv /\ LinkInv => ChainIsLinear
  <2> SUFFICES ASSUME AuditInv, LinkInv, AuditDays = 0, NEW i \in DOMAIN events
               PROVE  LET before == {j \in DOMAIN events : j < i} IN
                      events[i].prev =
                        IF before = {} THEN NoHash ELSE events[Max(before)].hash
    BY DEF ChainIsLinear
  <2> DEFINE before == {j \in DOMAIN events : j < i}
  <2>0. Kept
    BY DEF Kept
  <2>1. DOMAIN events \subseteq Nat
    BY TableFact DEF AuditInv, Types
  <2>2. CASE (\A j \in DOMAIN events : i <= j) /\ events[i].prev = NoHash
    <3>1. before = {}
      BY <2>1, <2>2
    <3> QED
      BY <2>2, <3>1
  <2>3. ASSUME NEW j \in DOMAIN events, j < i,
               \A k \in DOMAIN events : k < i => k <= j,
               events[i].prev = events[j].hash
        PROVE  before # {} /\ events[i].prev = events[Max(before)].hash
    <3>1. Greatest(before, j) /\ before \subseteq Int /\ j \in Int
      BY <2>1, <2>3 DEF Greatest
    <3>2. Max(before) = j
      BY <3>1, MaxFact
    <3> QED
      BY <3>2, <2>3
  <2> QED
    BY <2>0, <2>2, <2>3 DEF LinkInv, Linked
<1> QED
  BY <1>1, AuditInvCorrect, LinkInit, LinkNext, PTL DEF Spec

(***************************************************************************)
(* Verification                                                            *)
(*                                                                         *)
(* A walk by chunks, while rows are added and old ones deleted. What it    *)
(* remembers between two chunks is the hash of the last row it has seen.   *)
(***************************************************************************)

\* A row carries the hash of its record.
Sealed(row) == row.hash = compute_audit_row_hash(row.prev, row.rec)

\* The rows that were changed are those whose hash does not fit.
EditInv ==
  /\ \A i \in DOMAIN events : Sealed(events[i]) <=> i \notin edited
  /\ \A i \in edited : i \in Nat /\ i <= tip.id
  /\ \A t \in Tx : \A i \in DOMAIN tx[t].rows : Sealed(tx[t].rows[i])

\* Rows that had been changed when the verification started, and are still there,
\* are ahead of it.
AheadInv ==
  /\ verify.st \in {"off", "walking", "clean", "broken"}
  /\ verify.before \subseteq edited
  /\ verify.st = "walking" =>
       verify.last \in Nat /\ \A i \in verify.before \cap DOMAIN events : i > verify.last
  /\ verify.st = "clean" => verify.before \cap DOMAIN events = {}

\* While nobody has changed a row and retention has deleted none, the verification
\* has the hash of the row it is at.
WalkInv ==
  Kept /\ edited = {} =>
    /\ verify.st # "broken"
    /\ verify.st = "walking" =>
         \/ verify.last = 0 /\ verify.prev = NoHash
         \/ verify.last \in DOMAIN events /\ verify.prev = events[verify.last].hash

VerifyInv == EditInv /\ AheadInv /\ WalkInv

\* A set of naturals that is not empty has a least element.
LEMMA LeastExists ==
  ASSUME NEW S, S \subseteq Nat, S # {}
  PROVE  \E m \in Nat : Least(S, m)
<1>1. \E R : IsWellFoundedOn(R, Nat) /\ \A x, y \in Nat : x < y => <<x, y>> \in R
  <2>1. \A x, y \in Nat : x < y => <<x, y>> \in OpToRel(<, Nat)
    BY DEF OpToRel
  <2> QED
    BY <2>1, NatLessThanWellFounded, Zenon
<1>2. PICK R : IsWellFoundedOn(R, Nat) /\ \A x, y \in Nat : x < y => <<x, y>> \in R
  BY <1>1
<1>3. \E m \in S : \A x \in S : ~(<<x, m>> \in R)
  <2>1. \A Q, U, T : IsWellFoundedOn(Q, U) /\ T \subseteq U /\ T # {}
                       => \E x \in T : \A y \in T : ~(<<y, x>> \in Q)
    BY WFMin, Zenon
  <2> HIDE DEF IsWellFoundedOn
  <2>2. IsWellFoundedOn(R, Nat)
    BY <1>2
  <2> QED
    BY <2>1, <2>2
<1>4. \E m \in S : \A x \in S : ~(x < m)
  BY <1>2, <1>3, Zenon
<1> QED
  BY <1>4 DEF Least

\* ... and a greatest, if it is bounded.
LEMMA GreatestExists ==
  ASSUME NEW S, S \subseteq Nat, S # {}, NEW b \in Nat, \A x \in S : x <= b
  PROVE  \E m \in Nat : Greatest(S, m)
<1> DEFINE T == {d \in Nat : \E x \in S : d = b - x}
<1>1. T \subseteq Nat /\ T # {}
  <2>1. PICK x \in S : TRUE
    OBVIOUS
  <2>2. b - x \in T
    OBVIOUS
  <2> QED
    BY <2>2
<1>2. PICK d \in Nat : Least(T, d)
  <2> HIDE DEF T
  <2> QED
    BY <1>1, LeastExists
<1>3. PICK m \in S : d = b - m
  BY <1>2 DEF Least
<1>4. \A x \in S : b - x \in T
  OBVIOUS
<1>5. \A x \in S : b - m <= b - x
  BY <1>2, <1>3, <1>4 DEF Least
<1> QED
  BY <1>3, <1>5 DEF Greatest

\* A chunk is the next rows, without a gap, and all of them if it is not full.
LEMMA ChunkFacts ==
  ASSUME AuditInv, verify.last \in Nat
  PROVE  /\ \A i \in ChunkRows : i \in DOMAIN events /\ i > verify.last
         /\ \A i \in ChunkRows, j \in DOMAIN events : verify.last < j /\ j <= i => j \in ChunkRows
         /\ ChunkRows # {} => Max(ChunkRows) \in ChunkRows /\ \A i \in ChunkRows : i <= Max(ChunkRows)
         /\ ~(Cardinality(ChunkRows) < Chunk) => ChunkRows # {}
         /\ Cardinality(ChunkRows) < Chunk => \A i \in DOMAIN events : i > verify.last => i \in ChunkRows
<1> DEFINE later == {i \in DOMAIN events : i > verify.last}
           upTo(i) == {j \in later : j <= i}
<1>1. DOMAIN events \subseteq Nat /\ tip.id \in Nat /\ \A i \in DOMAIN events : i <= tip.id
  BY TableFact DEF AuditInv, Types, Committed
<1>2. later \subseteq 0..tip.id /\ ChunkRows \subseteq later
  BY <1>1 DEF ChunkRows
<1>3. IsFiniteSet(0..tip.id)
  BY <1>1, FS_Interval
<1>4. IsFiniteSet(later) /\ IsFiniteSet(ChunkRows)
  BY <1>2, <1>3, FS_Subset
<1>5. \A i : IsFiniteSet(upTo(i)) /\ Cardinality(upTo(i)) \in Nat
  <2> SUFFICES ASSUME NEW i PROVE IsFiniteSet(upTo(i)) /\ Cardinality(upTo(i)) \in Nat
    OBVIOUS
  <2>1. upTo(i) \subseteq later
    OBVIOUS
  <2> QED
    BY <1>4, <2>1, FS_Subset, FS_CardinalityType
<1>6. \A i : i \in ChunkRows <=> i \in later /\ Cardinality(upTo(i)) <= Chunk
  BY DEF ChunkRows
<1>7. ASSUME NEW i \in ChunkRows, NEW j \in later, j <= i PROVE j \in ChunkRows
  <2>1. upTo(j) \subseteq upTo(i)
    BY <1>1, <1>2, <1>7
  <2>2. Cardinality(upTo(j)) <= Cardinality(upTo(i))
    BY <1>5, <2>1, FS_Subset
  <2>3. Cardinality(upTo(i)) <= Chunk
    BY <1>6
  <2> HIDE DEF upTo, later
  <2> QED
    BY <1>5, <1>6, <2>2, <2>3, AuditAssumption
<1>8. ChunkRows # {} => Max(ChunkRows) \in ChunkRows /\ \A i \in ChunkRows : i <= Max(ChunkRows)
  <2> SUFFICES ASSUME ChunkRows # {}
               PROVE  Max(ChunkRows) \in ChunkRows /\ \A i \in ChunkRows : i <= Max(ChunkRows)
    OBVIOUS
  <2>1. ChunkRows \subseteq Nat /\ \A i \in ChunkRows : i <= tip.id
    BY <1>1, <1>2
  <2>2. PICK m \in Nat : Greatest(ChunkRows, m)
    BY <1>1, <2>1, GreatestExists
  <2>3. ChunkRows \subseteq Int /\ m \in Int
    BY <2>1
  <2>4. Max(ChunkRows) = m
    BY <2>2, <2>3, MaxFact
  <2> QED
    BY <2>2, <2>4 DEF Greatest
<1>9. ~(Cardinality(ChunkRows) < Chunk) => ChunkRows # {}
  <2>1. Cardinality({}) = 0
    BY FS_EmptySet
  <2> QED
    BY <2>1, AuditAssumption
<1>10. ASSUME Cardinality(ChunkRows) < Chunk PROVE later \subseteq ChunkRows
  <2> SUFFICES ASSUME later \ ChunkRows # {} PROVE FALSE
    OBVIOUS
  <2>1. later \ ChunkRows \subseteq Nat
    BY <1>1
  <2>2. PICK m \in Nat : Least(later \ ChunkRows, m)
    <3> HIDE DEF later
    <3> QED
      BY <2>1, LeastExists
  <2>3. m \in later /\ m \notin ChunkRows /\ upTo(m) \subseteq ChunkRows \cup {m}
    BY <1>1, <2>2 DEF Least
  <2>4. IsFiniteSet(ChunkRows \cup {m}) /\ Cardinality(ChunkRows \cup {m}) = Cardinality(ChunkRows) + 1
    BY <1>4, <2>3, FS_AddElement
  <2>5. Cardinality(upTo(m)) <= Cardinality(ChunkRows \cup {m})
    BY <2>3, <2>4, FS_Subset
  <2>6. Cardinality(ChunkRows) \in Nat
    BY <1>4, FS_CardinalityType
  <2>7. Cardinality(upTo(m)) <= Chunk
    <3>1. PICK a \in Nat, b \in Nat : a = Cardinality(upTo(m)) /\ b = Cardinality(ChunkRows)
      BY <1>5, <2>6
    <3>2. a <= b + 1 /\ b < Chunk /\ Chunk \in Nat
      BY <1>10, <2>4, <2>5, <3>1, AuditAssumption
    <3>3. a <= Chunk
      BY <3>2
    <3> QED
      BY <3>1, <3>3
  <2> QED
    BY <1>6, <2>3, <2>7
<1> QED
  BY <1>2, <1>7, <1>8, <1>9, <1>10

\* What the walk compares row i of the chunk with is the row before it, if rows are
\* linked and the verification has the hash of the row it is at.
LEMMA PrevIsRight ==
  ASSUME AuditInv, Linked(events, NoHash), verify.last \in Nat,
         \/ verify.last = 0 /\ verify.prev = NoHash
         \/ verify.last \in DOMAIN events /\ verify.prev = events[verify.last].hash,
         NEW i \in ChunkRows
  PROVE  events[i].prev = PrevInWalk(i)
<1> DEFINE before == {j \in ChunkRows : j < i}
<1>1. /\ DOMAIN events \subseteq Nat \ {0} /\ i \in DOMAIN events /\ i > verify.last
      /\ \A j \in DOMAIN events : verify.last < j /\ j <= i => j \in ChunkRows
      /\ \A j \in ChunkRows : j \in DOMAIN events /\ j > verify.last
  BY ChunkFacts, TableFact DEF AuditInv, Types
<1>2. CASE (\A j \in DOMAIN events : i <= j) /\ events[i].prev = NoHash
  <2>1. before = {}
    BY <1>1, <1>2
  <2>2. verify.prev = NoHash
    BY <1>1, <1>2
  <2> QED
    BY <1>2, <2>1, <2>2 DEF PrevInWalk
<1>3. ASSUME NEW j \in DOMAIN events, j < i, \A k \in DOMAIN events : k < i => k <= j,
             events[i].prev = events[j].hash
      PROVE  events[i].prev = PrevInWalk(i)
  <2>1. CASE j > verify.last
    <3>1. Greatest(before, j) /\ before \subseteq Int /\ j \in Int
      BY <1>1, <1>3, <2>1 DEF Greatest
    <3>2. Max(before) = j /\ before # {}
      BY <3>1, MaxFact DEF Greatest
    <3> QED
      BY <1>3, <3>2 DEF PrevInWalk
  <2>2. CASE ~(j > verify.last)
    <3>1. before = {}
      BY <1>1, <1>3, <2>2
    <3>2. verify.last = j
      BY <1>1, <1>3, <2>2
    <3> QED
      BY <1>1, <1>3, <3>1, <3>2 DEF PrevInWalk
  <2> QED
    BY <2>1, <2>2
<1> QED
  BY <1>1, <1>2, <1>3 DEF Linked

\* One chunk of the verification.
LEMMA ChunkStep ==
  ASSUME AuditInv, LinkInv, VerifyInv, VerifyChunk
  PROVE  VerifyInv'
<1>1. /\ verify.st = "walking" /\ verify.last \in Nat
      /\ UNCHANGED <<events, tip, tx, day, edited>>
      /\ \A i \in verify.before \cap DOMAIN events : i > verify.last
      /\ verify.before \subseteq edited
  BY DEF VerifyChunk, VerifyInv, AheadInv
<1>2. EditInv'
  BY <1>1 DEF VerifyInv, EditInv, Sealed
<1>3. Kept /\ edited = {} =>
        \/ verify.last = 0 /\ verify.prev = NoHash
        \/ verify.last \in DOMAIN events /\ verify.prev = events[verify.last].hash
  BY <1>1 DEF VerifyInv, WalkInv
<1>4. \A i \in ChunkRows : i \in DOMAIN events /\ (~Mismatch(i) => i \notin edited)
  <2> SUFFICES ASSUME NEW i \in ChunkRows, ~Mismatch(i) PROVE i \in DOMAIN events /\ i \notin edited
    BY <1>1, ChunkFacts
  <2>1. Sealed(events[i])
    BY DEF Mismatch, Sealed
  <2> QED
    BY <1>1, <2>1, ChunkFacts DEF VerifyInv, EditInv
<1>5. CASE \E i \in ChunkRows : Mismatch(i)
  <2>1. verify'.st = "broken" /\ verify'.before = {}
    BY <1>5 DEF VerifyChunk, Broken, NotRunning
  <2>2. ~(Kept /\ edited = {})
    <3> SUFFICES ASSUME Kept, edited = {} PROVE FALSE
      OBVIOUS
    <3>1. PICK i \in ChunkRows : Mismatch(i)
      BY <1>5
    <3>2. Linked(events, NoHash)
      BY DEF LinkInv
    <3>3. events[i].prev = PrevInWalk(i)
      BY <1>1, <1>3, <3>2, PrevIsRight
    <3>4. Sealed(events[i])
      BY <1>4 DEF VerifyInv, EditInv
    <3> QED
      BY <3>1, <3>3, <3>4 DEF Mismatch, Sealed
  <2>3. AheadInv'
    BY <2>1 DEF AheadInv
  <2>4. WalkInv'
    BY <1>1, <2>2 DEF WalkInv, Kept
  <2> QED
    BY <1>2, <2>3, <2>4 DEF VerifyInv
<1>6. CASE ~(\E i \in ChunkRows : Mismatch(i)) /\ Cardinality(ChunkRows) < Chunk
  <2>1. verify'.st = "clean" /\ verify'.before = verify.before
    BY <1>6 DEF VerifyChunk, Clean, NotRunning
  <2>2. verify.before \cap DOMAIN events = {}
    BY <1>1, <1>4, <1>6, ChunkFacts
  <2>3. AheadInv'
    BY <1>1, <2>1, <2>2 DEF AheadInv
  <2>4. WalkInv'
    BY <2>1 DEF WalkInv
  <2> QED
    BY <1>2, <2>3, <2>4 DEF VerifyInv
<1>7. CASE ~(\E i \in ChunkRows : Mismatch(i)) /\ ~(Cardinality(ChunkRows) < Chunk)
  <2>1. verify' = [verify EXCEPT !.last = Max(ChunkRows), !.prev = events[Max(ChunkRows)].hash]
    BY <1>7 DEF VerifyChunk
  <2>2. Max(ChunkRows) \in ChunkRows /\ \A i \in ChunkRows : i <= Max(ChunkRows)
    BY <1>1, <1>7, ChunkFacts
  <2>3. Max(ChunkRows) \in DOMAIN events /\ DOMAIN events \subseteq Nat
    BY <1>4, <2>2, TableFact DEF AuditInv, Types
  <2>4. /\ verify'.st = "walking" /\ verify'.before = verify.before
        /\ verify'.last = Max(ChunkRows) /\ verify'.prev = events[Max(ChunkRows)].hash
    BY <1>1, <2>1 DEF VerifyInv, AheadInv
  <2>5. \A i \in verify.before \cap DOMAIN events : i > Max(ChunkRows)
    <3> SUFFICES ASSUME NEW i \in verify.before \cap DOMAIN events, i <= Max(ChunkRows) PROVE FALSE
      BY <2>3
    <3>1. i \in ChunkRows
      BY <1>1, <2>2, ChunkFacts
    <3> QED
      BY <1>1, <1>4, <1>7, <3>1
  <2>6. AheadInv'
    BY <1>1, <2>3, <2>4, <2>5 DEF AheadInv
  <2>7. WalkInv'
    BY <1>1, <2>3, <2>4 DEF WalkInv
  <2> QED
    BY <1>2, <2>6, <2>7 DEF VerifyInv
<1> QED
  BY <1>5, <1>6, <1>7

\* Rows are added at the end at most, and the verification stays where it is.
LEMMA VerifyKept ==
  ASSUME AuditInv, VerifyInv, verify' = verify, edited' = edited, Kept' => Kept,
         \A i \in DOMAIN events : i \in DOMAIN events' /\ events'[i] = events[i],
         \A i \in DOMAIN events' : i \notin DOMAIN events => tip.id < i,
         EditInv'
  PROVE  VerifyInv'
<1>1. DOMAIN events \subseteq Nat /\ tip.id \in Nat /\ \A i \in DOMAIN events : i <= tip.id
  BY TableFact DEF AuditInv, Types, Committed
<1>2. \A i \in verify.before : i \in DOMAIN events' => i \in DOMAIN events
  <2> SUFFICES ASSUME NEW i \in verify.before, i \in DOMAIN events', i \notin DOMAIN events PROVE FALSE
    OBVIOUS
  <2>1. i \in Nat /\ i <= tip.id /\ tip.id < i
    BY DEF VerifyInv, EditInv, AheadInv
  <2> QED
    BY <1>1, <2>1
<1>3. AheadInv'
  BY <1>2 DEF VerifyInv, AheadInv
<1>4. WalkInv'
  BY DEF VerifyInv, WalkInv
<1> QED
  BY <1>3, <1>4 DEF VerifyInv

\* Nothing committed changes, and what is inserted is sealed.
LEMMA VerifyQuiet ==
  ASSUME AuditInv, VerifyInv, UNCHANGED <<verify, edited, events, tip>>, Kept' => Kept,
         \A t \in Tx : tx'[t].rows = tx[t].rows \/ DOMAIN tx'[t].rows = {}
  PROVE  VerifyInv'
<1>1. EditInv'
  BY DEF VerifyInv, EditInv, Sealed
<1> QED
  BY <1>1, VerifyKept

\* A row is inserted: its hash fits.
LEMMA VerifyInsert ==
  ASSUME AuditInv, VerifyInv, Kept' => Kept, NEW t \in Tx, NEW rec \in Record, Insert(t, rec)
  PROVE  VerifyInv'
<1> DEFINE e    == Event(tx[t].prev, rec, tx[t].stamp)
           old  == tx[t].rows
           new  == [i \in {nextId} |-> e]
<1>1. /\ \A u \in Tx \ {t} : tx'[u] = tx[u]
      /\ tx'[t].rows = Add(old, new)
      /\ UNCHANGED <<events, tip, edited, verify>>
  BY DEF Insert, AuditInv, TxTypes, TxType
<1>2. Sealed(e)
  BY DEF Sealed, Event
<1>3. DOMAIN new = {nextId} /\ new[nextId] = e
  OBVIOUS
<1>4. \A i \in DOMAIN old : Sealed(old[i])
  BY DEF VerifyInv, EditInv
<1> HIDE DEF e, old, new
<1>5. \A i \in DOMAIN Add(old, new) : Sealed(Add(old, new)[i])
  <2>1. /\ DOMAIN Add(old, new) = DOMAIN old \cup DOMAIN new
        /\ \A x \in DOMAIN new : Add(old, new)[x] = new[x]
        /\ \A x \in DOMAIN old \ DOMAIN new : Add(old, new)[x] = old[x]
    BY AddFact
  <2> QED
    BY <1>2, <1>3, <1>4, <2>1 DEF Sealed
<1>6. EditInv'
  <2>1. \A u \in Tx : \A i \in DOMAIN tx'[u].rows : Sealed(tx'[u].rows[i])
    BY <1>1, <1>5 DEF VerifyInv, EditInv
  <2> QED
    BY <1>1, <2>1 DEF VerifyInv, EditInv, Sealed
<1> QED
  BY <1>1, <1>6, VerifyKept

\* Rows are committed behind all others, and none of them had been changed.
LEMMA VerifyCommit ==
  ASSUME AuditInv, AuditInv', VerifyInv, Kept' => Kept, NEW t \in Tx, Commit(t)
  PROVE  VerifyInv'
<1> DEFINE rows == tx[t].rows
<1>1. /\ tx[t].st = "inserted" /\ events' = Add(events, rows) /\ tip' = NewTip(rows)
      /\ \A u \in Tx \ {t} : tx'[u] = tx[u]
      /\ tx'[t] = Idle /\ UNCHANGED <<edited, verify>>
  BY DEF Commit, AuditInv, TxTypes
<1>2. /\ \A i \in DOMAIN rows : i \in Nat /\ tip.id < i
      /\ \A i \in DOMAIN events : i \in Nat /\ i <= tip.id
      /\ tip.id \in Nat
  BY TableFact DEF AuditInv, Types, Committed, Pending, TxTypes, TxType
<1>3. /\ DOMAIN events' = DOMAIN events \cup DOMAIN rows
      /\ \A x \in DOMAIN rows : events'[x] = rows[x]
      /\ \A x \in DOMAIN events : events'[x] = events[x]
  <2>1. /\ DOMAIN Add(events, rows) = DOMAIN events \cup DOMAIN rows
        /\ \A x \in DOMAIN rows : Add(events, rows)[x] = rows[x]
        /\ \A x \in DOMAIN events \ DOMAIN rows : Add(events, rows)[x] = events[x]
    BY AddFact
  <2> QED
    BY <1>1, <1>2, <2>1
<1>4. tip'.id \in Nat /\ tip.id <= tip'.id
  <2>1. PICK i \in DOMAIN rows : i \in DOMAIN events'
    BY <1>1, <1>3 DEF AuditInv, Pending
  <2>2. i <= tip'.id /\ tip'.id \in Nat
    BY <2>1 DEF AuditInv, Committed, Types
  <2> QED
    BY <1>2, <2>2
<1>5. EditInv'
  <2>1. \A i \in DOMAIN rows : i \notin edited /\ Sealed(rows[i])
    <3>1. \A i \in DOMAIN rows : Sealed(rows[i])
      BY DEF VerifyInv, EditInv
    <3> QED
      BY <1>2, <3>1 DEF VerifyInv, EditInv
  <2>2. \A i \in DOMAIN events' : Sealed(events'[i]) <=> i \notin edited
    BY <1>3, <2>1 DEF VerifyInv, EditInv, Sealed
  <2>3. \A i \in edited : i \in Nat /\ i <= tip'.id
    BY <1>2, <1>4 DEF VerifyInv, EditInv
  <2>4. \A u \in Tx : \A i \in DOMAIN tx'[u].rows : Sealed(tx'[u].rows[i])
    BY <1>1, IdleType DEF VerifyInv, EditInv
  <2> QED
    BY <1>1, <2>2, <2>3, <2>4 DEF EditInv, Sealed
<1> QED
  BY <1>1, <1>2, <1>3, <1>5, VerifyKept

\* Retention deletes rows, after its time has come.
LEMMA VerifyPrune ==
  ASSUME AuditInv, VerifyInv, Prune, ~Kept'
  PROVE  VerifyInv'
<1>1. /\ DOMAIN events' \subseteq DOMAIN events /\ \A i \in DOMAIN events' : events'[i] = events[i]
      /\ UNCHANGED <<tip, tx, edited, verify>>
  BY DEF Prune
<1>2. EditInv'
  BY <1>1 DEF VerifyInv, EditInv, Sealed
<1>3. AheadInv'
  BY <1>1 DEF VerifyInv, AheadInv
<1> QED
  BY <1>2, <1>3 DEF VerifyInv, WalkInv

\* Somebody changes a row: its hash does not fit any more.
LEMMA VerifyEdit ==
  ASSUME AuditInv, VerifyInv, NEW i \in 1..MaxId, NEW rec \in Record, Edit(i, rec)
  PROVE  VerifyInv'
<1>1. /\ i \in DOMAIN events /\ i \notin edited /\ rec # events[i].rec
      /\ events' = [events EXCEPT ![i].rec = rec]
      /\ edited' = edited \cup {i} /\ UNCHANGED <<tip, tx, day, verify>>
  BY DEF Edit
<1>2. /\ events \in [DOMAIN events -> EventType] /\ events[i] \in EventType
      /\ i \in Nat /\ i <= tip.id
  BY <1>1, TableFact DEF AuditInv, Types, Committed
<1>3. /\ DOMAIN events' = DOMAIN events /\ \A j \in DOMAIN events : j # i => events'[j] = events[j]
      /\ events'[i].prev = events[i].prev /\ events'[i].hash = events[i].hash /\ events'[i].rec = rec
  BY <1>1, <1>2 DEF EventType
<1>4. ~Sealed(events'[i])
  <2>1. events[i].hash = Append(events[i].prev, events[i].rec)
    BY <1>1 DEF VerifyInv, EditInv, Sealed, compute_audit_row_hash
  <2>2. PICK p, q : p = events[i].prev /\ q = events[i].rec
    OBVIOUS
  <2>3. p \in Seq(Record) /\ q \in Record
    BY <1>2, <2>2 DEF EventType, HashValue
  <2>4. Append(p, q) # Append(p, rec)
    <3>1. Append(p, q)[Len(p) + 1] = q /\ Append(p, rec)[Len(p) + 1] = rec
      BY <2>3
    <3> QED
      BY <1>1, <2>2, <3>1
  <2> QED
    BY <1>3, <2>1, <2>2, <2>4 DEF Sealed, compute_audit_row_hash
<1>5. EditInv'
  <2>1. \A j \in DOMAIN events' : Sealed(events'[j]) <=> j \notin edited'
    BY <1>1, <1>3, <1>4 DEF VerifyInv, EditInv, Sealed
  <2>2. \A j \in edited' : j \in Nat /\ j <= tip'.id
    BY <1>1, <1>2 DEF VerifyInv, EditInv
  <2> QED
    BY <1>1, <2>1, <2>2 DEF VerifyInv, EditInv, Sealed
<1>6. AheadInv'
  BY <1>1, <1>3 DEF VerifyInv, AheadInv
<1>7. WalkInv'
  BY <1>1 DEF WalkInv
<1> QED
  BY <1>5, <1>6, <1>7 DEF VerifyInv

\* A verification starts.
LEMMA VerifyStarts ==
  ASSUME AuditInv, VerifyInv, NEW from \in 0..MaxId, VerifyStart(from)
  PROVE  VerifyInv'
<1>1. /\ verify'.st = "walking" /\ verify'.last = from
      /\ verify'.prev = (IF from = 0 THEN NoHash ELSE events[from].hash)
      /\ verify'.before = {i \in edited : i > from}
      /\ from = 0 \/ from \in DOMAIN events
      /\ UNCHANGED <<events, tip, tx, day, edited>>
  BY DEF VerifyStart
<1>2. from \in Nat
  OBVIOUS
<1>3. EditInv'
  BY <1>1 DEF VerifyInv, EditInv, Sealed
<1>4. AheadInv'
  BY <1>1, <1>2 DEF AheadInv
<1>5. WalkInv'
  BY <1>1 DEF WalkInv
<1> QED
  BY <1>3, <1>4, <1>5 DEF VerifyInv

\* There is nothing to verify at the start.
LEMMA VerifyInit == Init => VerifyInv
<1>1. DOMAIN NoRows = {}
  BY DEF NoRows
<1>2. ASSUME Init PROVE EditInv /\ AheadInv /\ WalkInv
  BY <1>1, <1>2, IdleType DEF Init, EditInv, AheadInv, WalkInv, NotRunning
<1> QED
  BY <1>2 DEF VerifyInv

\* Every step keeps the invariant.
LEMMA VerifyNext == AuditInv /\ AuditInv' /\ LinkInv /\ VerifyInv /\ [Next]_vars => VerifyInv'
<1> SUFFICES ASSUME AuditInv, AuditInv', LinkInv, VerifyInv, [Next]_vars PROVE VerifyInv'
  OBVIOUS
<1>0. Kept' => Kept
  BY KeptFacts
<1>1. CASE UNCHANGED vars
  BY <1>0, <1>1, VerifyQuiet DEF vars
<1>2. ASSUME NEW t \in Tx, NEW wrote \in BOOLEAN, Begin(t, wrote) PROVE VerifyInv'
  <2>1. UNCHANGED <<verify, edited, events, tip>>
        /\ \A u \in Tx : tx'[u].rows = tx[u].rows \/ DOMAIN tx'[u].rows = {}
    BY <1>2, IdleType DEF Begin, AuditInv, TxTypes, Idle
  <2> QED
    BY <1>0, <2>1, VerifyQuiet
<1>3. ASSUME NEW t \in Tx, Stamp(t) \/ ReadTip(t) PROVE VerifyInv'
  <2>1. UNCHANGED <<verify, edited, events, tip>> /\ \A u \in Tx : tx'[u].rows = tx[u].rows
    BY <1>3 DEF Stamp, ReadTip, AuditInv, TxTypes, TxType
  <2> QED
    BY <1>0, <2>1, VerifyQuiet
<1>4. ASSUME NEW t \in Tx, Rollback(t) PROVE VerifyInv'
  <2>1. UNCHANGED <<verify, edited, events, tip>>
        /\ \A u \in Tx : tx'[u].rows = tx[u].rows \/ DOMAIN tx'[u].rows = {}
    BY <1>4, IdleType DEF Rollback, AuditInv, TxTypes
  <2> QED
    BY <1>0, <2>1, VerifyQuiet
<1>5. CASE Tick
  BY <1>0, <1>5, VerifyQuiet DEF Tick
<1>6. CASE Prune
  BY <1>6, KeptFacts, VerifyPrune
<1> QED
  BY <1>0, <1>1, <1>2, <1>3, <1>4, <1>5, <1>6, VerifyInsert, VerifyCommit, VerifyEdit, VerifyStarts,
     ChunkStep DEF Next

\* audit_verify_chain_from: what a verification under way knows of the rows behind it.
THEOREM VerifyInvCorrect == Spec => []VerifyInv
BY VerifyInit, VerifyNext, AuditInvCorrect, LinkInit, LinkNext, PTL DEF Spec

\* audit_verify_chain_from, "Ok(None) when the chain is intact": a verification that
\* reads chunk by chunk while rows are added reports a break only if a row was
\* changed or retention has deleted the rows the chain starts with.
THEOREM CleanWhenUntouchedCorrect == Spec => []CleanWhenUntouched
<1>1. AuditInv /\ VerifyInv => CleanWhenUntouched
  <2>1. ASSUME AuditInv PROVE ~Kept => AuditDays > 0 /\ day > AuditDays
    BY <2>1, AuditAssumption DEF Kept, AuditInv, Types
  <2> QED
    BY <2>1 DEF VerifyInv, WalkInv, CleanWhenUntouched
<1> QED
  BY <1>1, AuditInvCorrect, VerifyInvCorrect, PTL

\* audit_verify_chain_from: a row that was changed before the verification started,
\* after from_id, is found, unless retention has deleted it.
THEOREM EditsAreFoundCorrect == Spec => []EditsAreFound
<1>1. VerifyInv => EditsAreFound
  BY DEF VerifyInv, AheadInv, EditsAreFound
<1> QED
  BY <1>1, VerifyInvCorrect, PTL

(***************************************************************************)
(* The table is a log                                                      *)
(***************************************************************************)

IdBound == nextId <= MaxId + 1

\* No step hands out more ids than there are.
LEMMA IdBoundNext == AuditInv /\ IdBound /\ [Next]_vars => IdBound'
<1> SUFFICES ASSUME AuditInv, IdBound, [Next]_vars PROVE IdBound'
  OBVIOUS
<1> USE AuditAssumption DEF IdBound
<1>1. nextId \in Nat
  BY DEF AuditInv, Types
<1>2. ASSUME NEW t \in Tx, NEW rec \in Record, Insert(t, rec)
      PROVE  IdBound'
  BY <1>1, <1>2 DEF Insert
<1>3. ASSUME NEW t \in Tx, Rollback(t)
      PROVE  IdBound'
  <2>1. CASE DOMAIN tx[t].rows = {}
    BY <1>1, <1>3, <2>1 DEF Rollback
  <2>2. CASE DOMAIN tx[t].rows # {}
    <3>1. PICK m \in Nat : Least(DOMAIN tx[t].rows, m)
      BY <2>2 DEF AuditInv, Pending
    <3>2. m < nextId /\ DOMAIN tx[t].rows \subseteq Nat
      BY <3>1, TableFact DEF AuditInv, Pending, Least, TxTypes, TxType
    <3>3. Min(DOMAIN tx[t].rows) = m
      BY <3>1, <3>2, MinFact
    <3>4. nextId' \in {m, nextId}
      BY <1>3, <3>3 DEF Rollback
    <3> QED
      BY <1>1, <3>2, <3>4
  <2> QED
    BY <2>1, <2>2
<1>4. CASE UNCHANGED nextId
  BY <1>4
<1> QED
  BY <1>2, <1>3, <1>4 DEF Next, vars, Begin, Stamp, ReadTip, Commit, Tick, Prune, Edit,
                      VerifyStart, VerifyChunk

\* A commit adds rows behind all that were ever visible.
LEMMA CommitAppends ==
  ASSUME AuditInv, IdBound, NEW t \in Tx, Commit(t)
  PROVE  Log!LogNext
<1> DEFINE rows == tx[t].rows
<1>1. /\ DOMAIN rows # {}
      /\ events' = Add(events, rows)
      /\ tip' = NewTip(rows)
  BY DEF Commit, AuditInv, Pending
<1>2. PICK m \in Nat : Greatest(DOMAIN rows, m)
  BY <1>1 DEF AuditInv, Pending
<1>3. DOMAIN rows \subseteq Nat \ {0}
  BY TableFact DEF AuditInv, TxTypes, TxType
<1>4. tip'.id = m
  BY <1>1, <1>2, <1>3, LastIdFact DEF NewTip
<1>5. DOMAIN events' = DOMAIN events \cup DOMAIN rows
  BY <1>1, AddFact
<1>6. /\ nextId \in Nat
      /\ \A i \in DOMAIN rows : tip.id < i /\ i < nextId
  BY DEF AuditInv, Pending, Types
<1>7. DOMAIN rows \in SUBSET (1..MaxId)
  BY <1>3, <1>6, AuditAssumption DEF IdBound
<1>8. Log!AppendRows(DOMAIN rows)
  BY <1>1, <1>2, <1>4, <1>5, <1>6 DEF Log!AppendRows, Greatest
<1> QED
  BY <1>7, <1>8 DEF Log!LogNext

\* Everything else but retention leaves the ids alone.
LEMMA LogSteps ==
  ASSUME AuditInv, IdBound, [Next]_vars
  PROVE  [Log!LogNext]_(Log!logVars)
<1>1. CASE Prune
  <2> DEFINE kept == {i \in DOMAIN events : events[i].stamp >= day - AuditDays}
  <2>1. /\ kept # DOMAIN events
        /\ DOMAIN events' = kept
        /\ tip' = tip
    BY <1>1 DEF Prune
  <2>2. Log!DropRows(kept)
    BY <2>1 DEF Log!DropRows
  <2>3. kept \in SUBSET (DOMAIN events)
    OBVIOUS
  <2> QED
    BY <2>2, <2>3 DEF Log!LogNext
<1>2. ASSUME NEW t \in Tx, Commit(t)
      PROVE  Log!LogNext
  BY <1>2, CommitAppends
<1>3. ASSUME NEW i \in 1..MaxId, NEW rec \in Record, Edit(i, rec)
      PROVE  UNCHANGED Log!logVars
  BY <1>3 DEF Edit, Log!logVars
<1>4. CASE UNCHANGED <<events, tip>>
  BY <1>4 DEF Log!logVars
<1> QED
  BY <1>1, <1>2, <1>3, <1>4 DEF Next, vars, Begin, Stamp, ReadTip, Insert, Rollback, Tick,
                             VerifyStart, VerifyChunk

\* record_audit_on, seen by a reader that goes by id: rows appear in the order of
\* their ids, on both databases, and leave only by retention.
THEOREM ImplementsLogCorrect == Spec => ImplementsLog
<1>1. Init => Log!LogInit /\ IdBound
  BY AuditAssumption DEF Init, Log!LogInit, NoRows, IdBound
<1>2. AuditInv /\ IdBound /\ [Next]_vars => [Log!LogNext]_(Log!logVars)
  BY LogSteps
<1> QED
  BY <1>1, <1>2, IdBoundNext, AuditInvCorrect, PTL DEF Spec, ImplementsLog, Log!LogSpec

=============================================================================
